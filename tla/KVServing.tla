----------------------------- MODULE KVServing -----------------------------
(***************************************************************************)
(* KV-cache serving: the scheduler that decides where a request is         *)
(* prefilled and decoded (kvcache_sim/control), the sensors it decides     *)
(* from, the hosts that carry a decision out (kvcache_sim/data/serving.py) *)
(* and the client that takes a request from host to host.                  *)
(*                                                                         *)
(* One action per stretch of a coroutine between two suspensions.  A call  *)
(* to a host, to the control plane or to the store takes any time; what a  *)
(* host does by itself happens when it is due.  A prefill queue and a      *)
(* decode engine are reduced to what the sensors hear of them; HostCompute *)
(* has them in full.  A coroutine's locals are cleared when they go out of *)
(* scope.                                                                  *)
(***************************************************************************)
EXTENDS KVWorkload

CONSTANTS
  Hosts,         \* instance ids; integers, because ids break ties
  PrefillPool, DecodePool,
  Requests,      \* integers: the id tags a forward pass
  Chain,         \* Chain[r]: the request's block keys, never none
  Output,        \* Output[r]: output_tokens
  BlockTokens,   \* tokens in a block
  Landed,        \* Landed[r]: the host the client calls first
  Previous,      \* Previous[r]: what is over when r is submitted, its earlier turns among it
  BlockTime,     \* prefill of one block
  PullTime,      \* PullTime[v][h]: moving one block from v to h
  StepUnit,      \* a decode step, for each member
  Threshold2,    \* twice balance_threshold
  SloTtft,       \* the TTFT bound
  SloTbt,        \* the TBT bound
  Reuse,         \* "peers" or "none"
  Rank,          \* "ttft" or "load"
  Spread,        \* whether Source.SPREAD docks busy holders
  Predict,       \* whether occupancy is rolled forward (Occupancy.PREDICT)
  Instant,       \* whether calls are free (an rtt of zero)
  Coupled,       \* whether a host's prefill and decode share an accelerator
  MaxLosses      \* bound on blocks evicted and publishes refused

ASSUME ServingAssumption ==
  /\ Hosts \subseteq Nat /\ IsFiniteSet(Hosts)
  /\ PrefillPool \subseteq Hosts /\ DecodePool \subseteq Hosts
  /\ Requests \subseteq Nat /\ IsFiniteSet(Requests)
  /\ \A r \in Requests :
       /\ Chain[r] \in Seq(Seq(Int)) /\ Len(Chain[r]) > 0
       /\ Output[r] \in Nat /\ Landed[r] \in Hosts
       /\ Previous[r] \subseteq Requests
  /\ BlockTime \in Nat \ {0} /\ StepUnit \in Nat \ {0} /\ BlockTokens \in Nat \ {0}
  /\ PullTime \in [Hosts -> [Hosts -> Nat]]
  /\ Threshold2 \in Nat /\ Threshold2 >= 2
  /\ SloTtft \in Nat /\ SloTbt \in Nat /\ MaxLosses \in Nat
  /\ Reuse \in {"peers", "none"} /\ Rank \in {"ttft", "load"}
  /\ Spread \in BOOLEAN /\ Predict \in BOOLEAN
  /\ Instant \in BOOLEAN /\ Coupled \in BOOLEAN

VARIABLES
  now,
  busyUntil,   \* ClusterSensor._busy_until
  finishes,    \* ClusterSensor._decode_finishes: pairs <<request, finish>> by host
  held,        \* ReservationSensor._held
  pulls,       \* RoutedPullSensor._pending
  named,       \* SourceLoad._named
  placed,      \* _Scheduler._placed
  rows,        \* the directory, and what volumes hold: pairs <<key, host>>
  pc,          \* where each request is
  at,          \* the host it was last called at
  plan,        \* the Response it was answered with
  prefer,      \* the peer its fetch was told to prefer
  kv,          \* the blocks it pulled
  uncached,    \* the blocks its pass computes
  end,         \* when its transfer or its pass ends
  since,       \* when its pass was submitted
  device,      \* each host's prefill accelerator: busy until
  left,        \* the tokens it still has to decode
  last,        \* when its last token landed
  members,     \* the members of each host's decode step
  stepEnd,     \* when that step ends
  ledger,      \* Metrics._by_id: the outcome row of each request
  losses

sensorVars == <<busyUntil, finishes, held, pulls, named>>
workVars == <<kv, uncached, end, since, device>>
decodeVars == <<left, last, members, stepEnd>>
callVars == <<pc, at, plan, prefer>>
vars == <<now, sensorVars, placed, rows, callVars, workVars, decodeVars, ledger, losses>>

NoPlan == [prefill |-> -1, decode |-> -1, source |-> -1,
           local |-> 0, match |-> 0, work |-> 0, done |-> 0]

Phases == { "new", "asking", "answered", "refused", "sourcing", "pulling", "fetching",
            "queued", "running", "published", "prefilled", "handing",
            "moving", "resided", "decoding", "emitted", "done" }

(* RequestResult, in blocks and tokens; times are left out.                *)
NoRow == [state |-> "none", cached |-> 0, uncached |-> 0, moved |-> 0, published |-> TRUE,
          decode |-> -1, handed |-> 0, missed |-> FALSE, resident |-> 0, noroom |-> FALSE,
          output |-> 0]

Init ==
  /\ now = 0
  /\ busyUntil = [h \in Hosts |-> 0]
  /\ finishes = [h \in Hosts |-> {}]
  /\ held = {} /\ pulls = <<>> /\ named = [h \in Hosts |-> 0]
  /\ placed = [r \in Requests |-> NoPlan]
  /\ rows = {}
  /\ pc = [r \in Requests |-> "new"]
  /\ at = [r \in Requests |-> Landed[r]]
  /\ plan = [r \in Requests |-> NoPlan]
  /\ prefer = [r \in Requests |-> -1]
  /\ kv = [r \in Requests |-> 0] /\ uncached = [r \in Requests |-> 0]
  /\ end = [r \in Requests |-> 0]
  /\ since = [r \in Requests |-> 0]
  /\ device = [h \in Hosts |-> 0]
  /\ left = [r \in Requests |-> 0] /\ last = [r \in Requests |-> 0]
  /\ members = [h \in Hosts |-> {}] /\ stepEnd = [h \in Hosts |-> 0]
  /\ ledger = [r \in Requests |-> NoRow]
  /\ losses = 0

Later(a, b) == IF a > b THEN a ELSE b

(* decode_step_time: proportional to the batch.                            *)
StepTime(n) == Later(1, n) * StepUnit

(* prefill_time: proportional to what is not cached, nothing if all of it is. *)
PrefillTime(blocks) == blocks * BlockTime

-----------------------------------------------------------------------------
(***************************************************************************)
(* Pricing.                                                                *)
(***************************************************************************)

(* prefix_lengths_of: how many leading blocks of ks an instance holds.     *)
Run(ks, h) ==
  Cardinality({ n \in 1 .. Len(ks) : \A i \in 1 .. n : <<ks[i], h>> \in rows })

(* Whether a is a better source of ks than b: the longer run, docked by a  *)
(* busy holder's load in spread mode, the id last.                         *)
BetterSource(ks, a, b) ==
  LET dock(h) == IF named[h] > 0 THEN 1 ELSE 0
      value(h) == IF Spread THEN Run(ks, h) - dock(h) ELSE Run(ks, h)
  IN \/ value(a) > value(b)
     \/ value(a) = value(b) /\ Spread /\ named[a] < named[b]
     \/ value(a) = value(b) /\ (Spread => named[a] = named[b]) /\ a < b

(* The head of the prefix ranking, nobody when it abstains.                *)
BestSource(ks) ==
  { h \in Hosts : /\ Run(ks, h) > 0
                  /\ \A g \in Hosts \ {h} : Run(ks, g) > 0 => BetterSource(ks, h, g) }

Peer(r) == IF Reuse = "peers" THEN BestSource(Chain[r]) ELSE {}

(* The peer, when it holds materially more of r than h does.               *)
WorthPulling(r, h) ==
  { v \in Peer(r) \ {h} : 2 * Run(Chain[r], v) > Run(Chain[r], h) * Threshold2 }

Named(S) == IF S = {} THEN -1 ELSE CHOOSE v \in S : TRUE

(* Faulty: the wait for what is promised already is not priced. *)
PricedIdle(r, h) ==
  LET local == Run(Chain[r], h)
  IN [prefill |-> h, decode |-> -1, source |-> -1, local |-> local, match |-> local,
      work |-> PrefillTime(Len(Chain[r]) - local),
      done |-> now + PrefillTime(Len(Chain[r]) - local)]

(* What prefilling r on h would cost: the wait for the host's tail, the    *)
(* transfer of what is worth pulling, and the rest computed.               *)
Priced(r, h) ==
  LET local == Run(Chain[r], h)
      peer == Named(WorthPulling(r, h))
      match == IF peer = -1 THEN local ELSE Run(Chain[r], peer)
      work == (IF peer = -1 THEN 0 ELSE (match - local) * PullTime[peer][h])
              + PrefillTime(Len(Chain[r]) - match)
  IN [prefill |-> h, decode |-> -1, source |-> peer, local |-> local, match |-> match,
      work |-> work, done |-> Later(now, busyUntil[h]) + work]

WithinTtft(p) == p.done - now <= SloTtft

(* What orders the pool: the whole prediction, or the queue to be joined.  *)
PrefillCost(r, h) == IF Rank = "ttft" THEN Priced(r, h).done ELSE busyUntil[h]

(* The prefill host: the lowest TTFT within the bound, or, for the         *)
(* baseline, the shortest queue, judged after it is picked.                *)
PrefillChoice(r) ==
  LET cost(h) == PrefillCost(r, h)
      pool == { h \in PrefillPool : Rank = "ttft" => WithinTtft(Priced(r, h)) }
  IN { h \in pool : /\ WithinTtft(Priced(r, h))
                    /\ \A g \in pool \ {h} : cost(h) < cost(g) \/ (cost(h) = cost(g) /\ h < g) }

(* The reservations of prefills that should not have landed yet.           *)
Pending == { v \in held : v.done >= now }

(* The requests reported on d that are still decoding at a time to come.   *)
StillDecoding(d, time) == { f \in finishes[d] : f[2] > time }

(* The batch r would meet on d: the one observed, or rolled forward to     *)
(* done with the promised prefills that will have landed there.            *)
Occupancy(d, done) ==
  IF ~Predict THEN Cardinality(finishes[d])
  ELSE Cardinality(StillDecoding(d, done))
       + Cardinality({ v \in Pending : /\ v.decode = d /\ v.done <= done
                                       /\ v.done + v.steps * StepTime(1) > done })

WithinTbt(batch) == StepTime(batch + 1) <= SloTbt

DecodeChoice(done) ==
  LET pool == { d \in DecodePool : WithinTbt(Occupancy(d, done)) }
  IN { d \in pool : \A g \in pool \ {d} :
         \/ Occupancy(d, done) < Occupancy(g, done)
         \/ Occupancy(d, done) = Occupancy(g, done) /\ d < g }

Decisions(r) ==
  UNION { { [Priced(r, h) EXCEPT !.decode = d] : d \in DecodeChoice(Priced(r, h).done) }
          : h \in PrefillChoice(r) }

-----------------------------------------------------------------------------
(***************************************************************************)
(* The folds.                                                              *)
(***************************************************************************)

Steps(r) == IF Output[r] > 1 THEN Output[r] - 1 ELSE 0

(* The keys of the KV its generation leaves behind.                        *)
Generated(r) == ContinuationKeys(Chain[r], BlocksFor(Steps(r), BlockTokens))

(* make_workload: a later turn's prompt begins with all of an earlier one  *)
(* and the blocks its output leaves behind.                                *)
TurnsContinue ==
  \A r \in Requests : \A q \in Previous[r] :
    IsPrefix(Chain[q], Chain[r]) => IsPrefix(Chain[q] \o Generated(q), Chain[r])

PullKeys(r, p) == { Chain[r][i] : i \in (p.local + 1) .. p.match }

(* What a commitment books: the host's tail, the batch slot it will take,  *)
(* the pull it priced and the holder it named.                             *)
BookTail(p) == busyUntil' = [busyUntil EXCEPT ![p.prefill] = p.done]

Reserve(r, p) ==
  held' = IF Predict THEN held \union {[request |-> r, done |-> p.done, decode |-> p.decode,
                                       steps |-> Steps(r)]}
          ELSE held

NotePull(r, p) ==
  pulls' = IF p.source = -1 THEN pulls
           ELSE Append(pulls, [inst |-> p.prefill, keys |-> PullKeys(r, p), peer |-> p.source])

CountNamed(p) ==
  named' = IF p.source = -1 THEN named ELSE [named EXCEPT ![p.source] = @ + 1]

FoldCommitted(r, p) ==
  /\ BookTail(p) /\ Reserve(r, p) /\ NotePull(r, p) /\ CountNamed(p)
  /\ UNCHANGED finishes

(* A report never lowers the tail; what should have landed is dropped.     *)
FoldPrefillFinished(h) ==
  /\ busyUntil' = [busyUntil EXCEPT ![h] = Later(@, now)]
  /\ held' = Pending
  /\ UNCHANGED <<finishes, pulls, named>>

(* The end of a decode step is assigned to the tail of a coupled host.     *)
FoldComputeBusy(h, until) ==
  busyUntil' = IF Coupled THEN [busyUntil EXCEPT ![h] = until] ELSE busyUntil

(* The oldest note of a pull of exactly these keys into inst, 0 if none.   *)
Match(inst, ks) ==
  LET found == { i \in 1 .. Len(pulls) : pulls[i].inst = inst /\ pulls[i].keys = ks }
  IN IF found = {} THEN 0 ELSE CHOOSE i \in found : \A j \in found : i <= j

(* Faulty: the answer leaves the note where it was. *)
FoldFetchAnsweredKeeps(inst, ks) == UNCHANGED pulls

FoldFetchAnswered(inst, ks) ==
  pulls' = IF Match(inst, ks) = 0 THEN pulls ELSE RemoveAt(pulls, Match(inst, ks))

(* The batch of a host as it reports it after a change: when each member   *)
(* would end if it were alone.                                             *)
Report(batch) == { <<r, last'[r] + left'[r] * StepTime(1)>> : r \in batch }

FoldDecodeState(h, batch) == finishes' = [finishes EXCEPT ![h] = Report(batch)]

-----------------------------------------------------------------------------
(***************************************************************************)
(* A request's way to a host.                                              *)
(***************************************************************************)

Moves(r, from, to) == pc[r] = from /\ pc' = [pc EXCEPT ![r] = to]

Ended(r) == pc[r] \in {"done", "refused"}

(* The client calls the host the turn lands on, some time after the last   *)
(* turn ended; a refused turn does not end the conversation.               *)
Land(r) ==
  /\ \A q \in Previous[r] : Ended(q)
  /\ Moves(r, "new", "asking")
  /\ UNCHANGED <<now, sensorVars, placed, rows, at, plan, prefer, workVars, decodeVars,
                 ledger, losses>>

(* Faulty: the recorded answer is read and kept. *)
DecideRecordedKeeps(r) ==
  /\ placed[r] # NoPlan
  /\ Moves(r, "asking", "answered")
  /\ plan' = [plan EXCEPT ![r] = placed[r]]
  /\ UNCHANGED <<now, sensorVars, placed, rows, at, prefer, workVars, decodeVars, ledger, losses>>

(* decide for a request this plane has already sent here.                  *)
DecideRecorded(r) ==
  /\ placed[r] # NoPlan
  /\ Moves(r, "asking", "answered")
  /\ plan' = [plan EXCEPT ![r] = placed[r]]
  /\ placed' = [placed EXCEPT ![r] = NoPlan]
  /\ UNCHANGED <<now, sensorVars, rows, at, prefer, workVars, decodeVars, ledger, losses>>

(* Faulty: nothing is remembered of a request that is moved. *)
DecideForgets(r) ==
  /\ Moves(r, "asking", "answered")
  /\ \E p \in Decisions(r) : plan' = [plan EXCEPT ![r] = p] /\ FoldCommitted(r, p)
  /\ UNCHANGED <<now, placed, rows, at, prefer, workVars, decodeVars, ledger, losses>>

(* decide: both selections, booked at once, and remembered when the        *)
(* decision moves the request.                                             *)
Decide(r) ==
  /\ placed[r] = NoPlan
  /\ Moves(r, "asking", "answered")
  /\ \E p \in Decisions(r) :
       /\ plan' = [plan EXCEPT ![r] = p]
       /\ FoldCommitted(r, p)
       /\ placed' = IF p.prefill = at[r] THEN placed ELSE [placed EXCEPT ![r] = p]
  /\ UNCHANGED <<now, rows, at, prefer, workVars, decodeVars, ledger, losses>>

(* Metrics.add: the row of a request is opened.                            *)
Add(r, line) == ledger' = [ledger EXCEPT ![r] = line]

(* Refused: the host that was asked records it, and no other hears of it.  *)
Refuse(r) ==
  /\ placed[r] = NoPlan
  /\ Moves(r, "asking", "refused")
  /\ Decisions(r) = {}
  /\ Add(r, [NoRow EXCEPT !.state = "refused"])
  /\ UNCHANGED <<now, sensorVars, placed, rows, at, plan, prefer, workVars, decodeVars,
                 losses>>

(* The host answers with an address, and the client goes there.            *)
Redirect(r) ==
  /\ plan[r].prefill # at[r]
  /\ Moves(r, "answered", "asking")
  /\ at' = [at EXCEPT ![r] = plan[r].prefill]
  /\ UNCHANGED <<now, sensorVars, placed, rows, plan, prefer, workVars, decodeVars,
                 ledger, losses>>

-----------------------------------------------------------------------------
(***************************************************************************)
(* Prefill.                                                                *)
(***************************************************************************)

Keys(r) == { Chain[r][i] : i \in 1 .. Len(Chain[r]) }

(* _make_accepted: the row of an accepted request, as its plan has it.     *)
Accepted(r) ==
  [NoRow EXCEPT !.state = "open", !.cached = plan[r].match,
                !.uncached = Len(Chain[r]) - plan[r].match,
                !.moved = IF plan[r].source = -1 THEN 0 ELSE plan[r].match - plan[r].local]

(* Serve it here: the row is opened; a plan with a pull asks who serves    *)
(* it, any other submits its pass.  The call that tells the volume of the  *)
(* local prefix it served comes in between: it moves keys in the volume's  *)
(* ranking, which Evict does not look at, and nobody else reads the row,   *)
(* so waiting for it is serving later.                                     *)
Serve(r) ==
  /\ plan[r].prefill = at[r]
  /\ Moves(r, "answered", IF plan[r].source = -1 THEN "queued" ELSE "sourcing")
  /\ uncached' = [uncached EXCEPT ![r] = Len(Chain[r]) - plan[r].match]
  /\ since' = [since EXCEPT ![r] = now]
  /\ Add(r, Accepted(r))
  /\ UNCHANGED <<now, sensorVars, placed, rows, at, plan, prefer, kv, end, device,
                 decodeVars, losses>>

(* The peer the pull was priced against, else the prefix ranking.          *)
RoutedPull(inst, ks, seq) ==
  IF Match(inst, ks) # 0 THEN pulls[Match(inst, ks)].peer ELSE Named(BestSource(seq))

(* sources: the answer, and the note it was read from is spent.            *)
Answer(r, inst, ks, seq) ==
  /\ prefer' = [prefer EXCEPT ![r] = RoutedPull(inst, ks, seq)]
  /\ FoldFetchAnswered(inst, ks)
  /\ UNCHANGED <<busyUntil, finishes, held, named>>

PullSources(r) ==
  /\ Moves(r, "sourcing", "pulling")
  /\ Answer(r, plan[r].prefill, PullKeys(r, plan[r]),
            SubSeq(Chain[r], plan[r].local + 1, plan[r].match))
  /\ UNCHANGED <<now, placed, rows, at, plan, workVars, decodeVars, ledger, losses>>

Holders(k) == { h \in Hosts : <<k, h>> \in rows }

(* get_batch of ks into inst: every key is somewhere, and the preferred    *)
(* volume serves what it has.                                              *)
Transfer(r, ks, inst) ==
  /\ \A k \in ks : Holders(k) # {}
  /\ \E v \in UNION { Holders(k) : k \in ks } :
       /\ (\A k \in ks : prefer[r] \in Holders(k)) => v = prefer[r]
       /\ prefer' = [prefer EXCEPT ![r] = -1]
       /\ end' = [end EXCEPT ![r] = now + Cardinality(ks) * PullTime[v][inst]]

Pull(r) ==
  /\ Moves(r, "pulling", "fetching")
  /\ Transfer(r, PullKeys(r, plan[r]), plan[r].prefill)
  /\ UNCHANGED <<now, sensorVars, placed, rows, at, plan, kv, uncached, since, device,
                 decodeVars, ledger, losses>>

Pulled(r) ==
  /\ end[r] <= now
  /\ Moves(r, "fetching", "queued")
  /\ kv' = [kv EXCEPT ![r] = plan[r].match - plan[r].local]
  /\ end' = [end EXCEPT ![r] = 0]
  /\ since' = [since EXCEPT ![r] = now]
  /\ UNCHANGED <<now, sensorVars, placed, rows, at, plan, prefer, uncached, device,
                 decodeVars, ledger, losses>>

Vanished(r) == \E k \in PullKeys(r, plan[r]) : Holders(k) = {}

(* Faulty: the read is tried again. *)
PullMissRetries(r) ==
  /\ Moves(r, "pulling", "sourcing")
  /\ Vanished(r)
  /\ UNCHANGED <<now, sensorVars, placed, rows, at, plan, prefer, workVars, decodeVars,
                 ledger, losses>>

(* Faulty: the row stays as the plan has it. *)
PullMissAsPriced(r) ==
  /\ Moves(r, "pulling", "queued")
  /\ Vanished(r)
  /\ uncached' = [uncached EXCEPT ![r] = Len(Chain[r]) - plan[r].local]
  /\ prefer' = [prefer EXCEPT ![r] = -1]
  /\ since' = [since EXCEPT ![r] = now]
  /\ UNCHANGED <<now, sensorVars, placed, rows, at, plan, kv, end, device,
                 decodeVars, ledger, losses>>

(* A block was evicted since the decision: nothing is pulled, all that is  *)
(* not local is recomputed, and the row is corrected.                      *)
PullMiss(r) ==
  /\ Moves(r, "pulling", "queued")
  /\ Vanished(r)
  /\ uncached' = [uncached EXCEPT ![r] = Len(Chain[r]) - plan[r].local]
  /\ prefer' = [prefer EXCEPT ![r] = -1]
  /\ since' = [since EXCEPT ![r] = now]
  /\ ledger' = [ledger EXCEPT ![r].cached = plan[r].local,
                              ![r].uncached = Len(Chain[r]) - plan[r].local, ![r].moved = 0]
  /\ UNCHANGED <<now, sensorVars, placed, rows, at, plan, kv, end, device,
                 decodeVars, losses>>

(* The device takes the pass submitted first, of two at one instant either *)
(* (HostCompute has which); a pass with nothing to compute does not need   *)
(* it.                                                                     *)
MayStart(r) ==
  LET others == { q \in Requests \ {r} : plan[q].prefill = plan[r].prefill /\ uncached[q] > 0 }
  IN /\ pc[r] = "queued"
     /\ uncached[r] > 0 =>
          \A q \in others : pc[q] # "running" /\ (pc[q] = "queued" => since[r] <= since[q])

StartPass(r) ==
  LET h == plan[r].prefill
      stop == IF uncached[r] = 0 THEN now ELSE Later(now, device[h]) + PrefillTime(uncached[r])
  IN /\ MayStart(r)
     /\ Moves(r, "queued", "running")
     /\ end' = [end EXCEPT ![r] = stop]
     /\ device' = IF uncached[r] = 0 THEN device ELSE [device EXCEPT ![h] = stop]
     /\ since' = [since EXCEPT ![r] = 0]
     /\ UNCHANGED <<now, sensorVars, placed, rows, at, plan, prefer, kv, uncached,
                    decodeVars, ledger, losses>>

(* Faulty: a block has one row, and publishing it elsewhere overwrites it.  *)
StoreMoves(ks, h, ok) ==
  \/ /\ ok /\ UNCHANGED losses
     /\ rows' = { row \in rows : row[1] \notin ks } \union { <<k, h>> : k \in ks }
  \/ ~ok /\ ks # {} /\ losses < MaxLosses /\ losses' = losses + 1 /\ UNCHANGED rows

(* publish of blocks on h: registered there, or refused for want of room.  *)
(* None at all is always published.                                        *)
Store(ks, h, ok) ==
  \/ ok /\ rows' = rows \union { <<k, h>> : k \in ks } /\ UNCHANGED losses
  \/ ~ok /\ ks # {} /\ losses < MaxLosses /\ losses' = losses + 1 /\ UNCHANGED rows

(* The pass is over, and what was not local before is published.           *)
Publish(r) ==
  /\ end[r] <= now
  /\ Moves(r, "running", "published")
  /\ \E ok \in BOOLEAN :
       /\ Store({ Chain[r][i] : i \in (plan[r].local + 1) .. Len(Chain[r]) }, plan[r].prefill, ok)
       /\ ledger' = [ledger EXCEPT ![r].published = ok]
  /\ kv' = [kv EXCEPT ![r] = 0] /\ uncached' = [uncached EXCEPT ![r] = 0]
  /\ end' = [end EXCEPT ![r] = 0]
  /\ UNCHANGED <<now, sensorVars, placed, at, plan, prefer, since, device, decodeVars>>

(* The report is folded at the instant it carries.                         *)
Finish(r) ==
  /\ Moves(r, "published", "prefilled")
  /\ FoldPrefillFinished(plan[r].prefill)
  /\ UNCHANGED <<now, placed, rows, at, plan, prefer, workVars, decodeVars, ledger, losses>>

-----------------------------------------------------------------------------
(***************************************************************************)
(* Decode.                                                                 *)
(***************************************************************************)

Decoding(h) == { r \in Requests : pc[r] = "decoding" /\ plan[r].decode = h }

(* handed_off: what the decode host moved to have the chain.               *)
HandedOff(r, blocks, missed) ==
  [ledger[r] EXCEPT !.decode = plan[r].decode, !.handed = blocks, !.missed = missed]

(* decode_resident: what a publish of the decode host adds to its row.     *)
DecodeResident(line, blocks, ok) ==
  IF ok THEN [line EXCEPT !.resident = @ + blocks] ELSE [line EXCEPT !.noroom = TRUE]

(* completed: the client has counted its tokens.                           *)
Completed(line, tokens) == [line EXCEPT !.output = tokens]

(* admit: a request with one token is over, and its client counts it; any  *)
(* other joins the batch, which is reported.                               *)
Admit(r, from, line) ==
  /\ Moves(r, from, IF Steps(r) = 0 THEN "done" ELSE "decoding")
  /\ ledger' = [ledger EXCEPT ![r] = IF Steps(r) = 0 THEN Completed(line, 1) ELSE line]
  /\ left' = [left EXCEPT ![r] = Steps(r)]
  /\ last' = IF Steps(r) = 0 THEN last ELSE [last EXCEPT ![r] = now]
  /\ IF Steps(r) = 0 THEN UNCHANGED finishes
     ELSE FoldDecodeState(plan[r].decode, Decoding(plan[r].decode) \union {r})
  /\ UNCHANGED <<members, stepEnd, busyUntil, held, named>>

(* The client brings the request to its decode host: the host that         *)
(* prefilled it has the chain, any other asks who serves it.               *)
DecodeHere(r) ==
  /\ plan[r].decode = plan[r].prefill
  /\ Admit(r, "prefilled", HandedOff(r, 0, FALSE))
  /\ UNCHANGED <<now, pulls, placed, rows, at, plan, prefer, workVars, losses>>

HandSources(r) ==
  /\ plan[r].decode # plan[r].prefill
  /\ Moves(r, "prefilled", "handing")
  /\ Answer(r, plan[r].decode, Keys(r), Chain[r])
  /\ UNCHANGED <<now, placed, rows, at, plan, workVars, decodeVars, ledger, losses>>

Hand(r) ==
  /\ Moves(r, "handing", "moving")
  /\ Transfer(r, Keys(r), plan[r].decode)
  /\ UNCHANGED <<now, sensorVars, placed, rows, at, plan, kv, uncached, since,
                 device, decodeVars, ledger, losses>>

(* The chain is not in the store: the request decodes all the same.        *)
HandMiss(r) ==
  /\ Admit(r, "handing", HandedOff(r, 0, TRUE))
  /\ \E k \in Keys(r) : Holders(k) = {}
  /\ prefer' = [prefer EXCEPT ![r] = -1]
  /\ UNCHANGED <<now, pulls, placed, rows, at, plan, workVars, losses>>

(* The chain arrived, and is registered on the decode host too.            *)
Reside(r) ==
  /\ end[r] <= now
  /\ Moves(r, "moving", "resided")
  /\ \E ok \in BOOLEAN :
       /\ Store(Keys(r), plan[r].decode, ok)
       /\ ledger' = [ledger EXCEPT ![r] =
                       DecodeResident(HandedOff(r, Len(Chain[r]), FALSE), Len(Chain[r]), ok)]
  /\ end' = [end EXCEPT ![r] = 0]
  /\ UNCHANGED <<now, sensorVars, placed, at, plan, prefer, kv, uncached, since, device,
                 decodeVars>>

DecodeMoved(r) ==
  /\ Admit(r, "resided", ledger[r])
  /\ UNCHANGED <<now, pulls, placed, rows, at, plan, prefer, workVars, losses>>

MayStep(h) == members[h] = {} /\ Decoding(h) # {}

(* A step of the batch as it is now.  A coupled host books it on the       *)
(* device its prefills run on, and reports its end as the tail of its      *)
(* prefill queue.                                                          *)
StepStart(h) ==
  LET stop == (IF Coupled THEN Later(now, device[h]) ELSE now) + StepTime(Cardinality(Decoding(h)))
  IN /\ MayStep(h)
     /\ members' = [members EXCEPT ![h] = Decoding(h)]
     /\ stepEnd' = [stepEnd EXCEPT ![h] = stop]
     /\ device' = IF Coupled THEN [device EXCEPT ![h] = stop] ELSE device
     /\ FoldComputeBusy(h, stop)
     /\ UNCHANGED <<now, finishes, held, pulls, named, placed, rows, callVars, kv,
                    uncached, end, since, left, last, ledger, losses>>

(* _finish: the admission of each is answered with all it generated.       *)
Retired(over) == [r \in Requests |-> IF r \in over THEN "emitted" ELSE pc[r]]

(* A token for each member; who has its last one leaves.  The batch that   *)
(* is left is reported.                                                    *)
StepComplete(h) ==
  LET over == { r \in members[h] : left[r] = 1 }
  IN /\ members[h] # {} /\ stepEnd[h] <= now
     /\ left' = [r \in Requests |-> IF r \in members[h] THEN left[r] - 1 ELSE left[r]]
     /\ last' = [r \in Requests |-> CASE r \in over -> 0
                                     [] r \in members[h] \ over -> stepEnd[h]
                                     [] OTHER -> last[r]]
     /\ pc' = Retired(over)
     /\ FoldDecodeState(h, Decoding(h) \ over)
     /\ members' = [members EXCEPT ![h] = {}]
     /\ UNCHANGED <<now, busyUntil, held, pulls, named, placed, rows, at, plan, prefer,
                    workVars, stepEnd, ledger, losses>>

(* What the batch generated is published under the keys that continue the  *)
(* chain, and the client has all its tokens.                               *)
Grow(r) ==
  /\ Moves(r, "emitted", "done")
  /\ \E ok \in BOOLEAN :
       /\ Store(ToSet(Generated(r)), plan[r].decode, ok)
       /\ ledger' = [ledger EXCEPT ![r] =
                       Completed(DecodeResident(ledger[r], Len(Generated(r)), ok), 1 + Steps(r))]
  /\ UNCHANGED <<now, sensorVars, placed, at, plan, prefer, workVars, decodeVars>>

-----------------------------------------------------------------------------
(* A volume drops a block and the directory hears of it.                   *)
Evict(k, h) ==
  /\ <<k, h>> \in rows /\ losses < MaxLosses
  /\ rows' = rows \ {<<k, h>>}
  /\ losses' = losses + 1
  /\ UNCHANGED <<now, sensorVars, placed, callVars, workVars, decodeVars, ledger>>

(* What ends at an instant of its own: transfers, passes and steps.        *)
Timed == { r \in Requests : pc[r] \in {"fetching", "running", "moving"} }

(* A call to a host, the control plane or the store is in flight.          *)
Calling == { r \in Requests : pc[r] \in {"asking", "answered", "sourcing", "pulling", "published",
                                        "prefilled", "handing", "resided", "emitted"} }

Tick ==
  /\ Timed # {} \/ \E h \in Hosts : members[h] # {}
  /\ \A r \in Timed : end[r] > now
  /\ \A h \in Hosts : ~MayStep(h) /\ (members[h] # {} => stepEnd[h] > now)
  /\ \A r \in Requests : ~MayStart(r)
  /\ Instant => Calling = {}
  /\ now' = now + 1
  /\ UNCHANGED <<sensorVars, placed, rows, callVars, workVars, decodeVars, ledger, losses>>

Finished ==
  /\ \A r \in Requests : Ended(r)
  /\ UNCHANGED vars

(* What a request or a host does next; an eviction is never due.           *)
Progress ==
  \/ \E r \in Requests :
       \/ Land(r) \/ DecideRecorded(r) \/ Decide(r) \/ Refuse(r) \/ Redirect(r)
       \/ Serve(r) \/ PullSources(r) \/ Pull(r) \/ Pulled(r) \/ PullMiss(r)
       \/ StartPass(r) \/ Publish(r) \/ Finish(r)
       \/ DecodeHere(r) \/ HandSources(r) \/ Hand(r) \/ HandMiss(r) \/ Reside(r)
       \/ DecodeMoved(r) \/ Grow(r)
  \/ \E h \in Hosts : StepStart(h) \/ StepComplete(h)
  \/ Tick

Next ==
  \/ Progress
  \/ \E kept \in rows : Evict(kept[1], kept[2])
  \/ Finished

Spec == Init /\ [][Next]_vars

(* Every coroutine the loop holds is run again, and the clock moves.       *)
FairSpec == Spec /\ WF_vars(Progress)
-----------------------------------------------------------------------------
(***************************************************************************)
(* Properties.                                                             *)
(***************************************************************************)

(* A request is passed on once: the host it was sent to serves it, under   *)
(* the decision that sent it, whatever the cluster has become meanwhile    *)
(* (serving.py, "A request is passed on once").                            *)
SentOnceServed ==
  \A r \in Requests : at[r] # Landed[r] =>
    /\ pc[r] # "refused"
    /\ pc[r] # "asking" => plan[r].prefill = at[r]

(* A recorded answer has exactly one reader still to come: it is there     *)
(* while its request travels to the host it names, and not otherwise       *)
(* (scheduler.py, _placed).                                                *)
PlacedAwaited ==
  \A r \in Requests : placed[r] # NoPlan <=>
    \/ pc[r] = "answered" /\ plan[r].prefill # at[r]
    \/ pc[r] = "asking" /\ plan[r] # NoPlan

(* The requests whose pull of ks into inst is decided and not yet asked    *)
(* about.                                                                  *)
Awaiting(inst, ks) ==
  { r \in Requests : /\ plan[r].source # -1 /\ plan[r].prefill = inst
                     /\ PullKeys(r, plan[r]) = ks
                     /\ pc[r] \in {"answered", "asking", "sourcing"} }

(* Every note of a priced pull has a fetch still to come that spends it:   *)
(* reroutes, evictions and handoffs of the same keys leave none behind     *)
(* (_pending.py, RoutedPullSensor).                                        *)
MemosAwaited ==
  \A i \in 1 .. Len(pulls) :
    Cardinality({ j \in 1 .. Len(pulls) : /\ pulls[j].inst = pulls[i].inst
                                          /\ pulls[j].keys = pulls[i].keys })
      <= Cardinality(Awaiting(pulls[i].inst, pulls[i].keys))

(* The prefills promised on one host are promised one after the other: the *)
(* intervals they were priced to occupy never overlap, however decisions,  *)
(* completions and reports are interleaved (_selector.py, _predict).       *)
PromisesDisjoint ==
  \A q, r \in Requests :
    q # r /\ plan[q] # NoPlan /\ plan[r] # NoPlan /\ plan[q].prefill = plan[r].prefill =>
      \/ plan[q].done <= plan[r].done - plan[r].work
      \/ plan[r].done <= plan[q].done - plan[q].work

(* The halves of an outcome that the prefill host, the decode host and the *)
(* client write add up to what happened: every block of the chain is       *)
(* counted cached or computed, a pass has the blocks its row says it moved *)
(* and computed and one for each key it publishes, and a finished request  *)
(* names its decode host, all its tokens and what it left there, whatever  *)
(* was evicted or refused meanwhile (metrics.py, Metrics).                 *)
RowsAddUp ==
  \A r \in Requests :
    /\ ledger[r].state = CASE pc[r] \in {"new", "asking", "answered"} -> "none"
                           [] pc[r] = "refused" -> "refused"
                           [] OTHER -> "open"
    /\ ledger[r].state = "open" => ledger[r].cached + ledger[r].uncached = Len(Chain[r])
    /\ pc[r] \in {"queued", "running"} =>
         /\ kv[r] = ledger[r].moved /\ uncached[r] = ledger[r].uncached
         /\ kv[r] + uncached[r] = Len(Chain[r]) - plan[r].local
    /\ pc[r] = "done" =>
         /\ ledger[r].decode = plan[r].decode
         /\ ledger[r].output = Later(1, Output[r])
         /\ ~ledger[r].noroom => ledger[r].resident = ledger[r].handed + Len(Generated(r))

(* While nothing was evicted or refused, the next turn of a conversation   *)
(* finds the whole of the last one on the host that decoded it, prompt and *)
(* answer: two publishes, under keys the generator made up beforehand,     *)
(* meet in one unbroken prefix (_generator.py, make_workload; serving.py,  *)
(* decode).                                                                *)
HistoryFound ==
  losses = 0 =>
    \A r \in Requests : \A q \in Previous[r] : pc[q] = "done" /\ IsPrefix(Chain[q], Chain[r]) =>
      Run(Chain[r], plan[q].decode) >= Len(Chain[q]) + Len(Generated(q))

(* Every request the client submits comes to an end: its last token or a   *)
(* refusal (serving.py, decode, "Waiting cannot deadlock").                *)
AllServed == <>(\A r \in Requests : Ended(r))
=============================================================================
