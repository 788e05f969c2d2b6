----------------------------- MODULE KVWorkload -----------------------------
(***************************************************************************)
(* The conversations of kvcache_sim/workload/_generator.py: draws of       *)
(* tenants cut into dialogues of a bounded number of turns, and the block  *)
(* keys each turn's prompt is addressed by.  A key is the sequence of the  *)
(* segments of the prompt up to its block, so it contains all that comes   *)
(* before it; generated blocks are the negative segments.                  *)
(***************************************************************************)
EXTENDS Integers, FiniteSets, Sequences, SequencesExt

(* blocks_for: whole blocks, a partial one included.                       *)
BlocksFor(tokens, blockTokens) ==
  IF tokens <= 0 THEN 0 ELSE (tokens + blockTokens - 1) \div blockTokens

(* _extend: the keys that continue prefix by segments.                     *)
Extend(prefix, segments) ==
  [i \in 1 .. Len(segments) |-> prefix \o SubSeq(segments, 1, i)]

(* Request.continuation_keys: count keys past the end of a chain, which is *)
(* never empty here.                                                       *)
ContinuationKeys(chain, count) ==
  Extend(chain[Len(chain)], [i \in 1 .. count |-> -i])

(* A turn: its request's keys, its dialogue's tenant, and the turns of the *)
(* dialogue before it.                                                     *)
Turn(keys, rank, before) == [keys |-> keys, rank |-> rank, before |-> before]

(* The keys of a later turn: the last turn's whole prompt, the blocks its  *)
(* output left behind, and a new message.                                  *)
NextKeys(chain, generated, query) ==
  LET history == chain \o ContinuationKeys(chain, generated)
  IN history \o Extend(history[Len(history)], query)

(* Segments count of them from first on.                                   *)
Segments(first, count) == [i \in 1 .. count |-> first + i - 1]

(* make_workload for the ranks drawn, in order.  Request i asks a message  *)
(* of its own; a rank's dialogue is closed at maxTurns turns, and its next *)
(* one opens with the system prompt and the rank's context again.  The     *)
(* fold keeps the turns so far and each rank's open dialogue, a sequence   *)
(* of turn numbers.                                                        *)
MakeWorkload(draws, ranks, systemBlocks, baseBlocks, queryBlocks, generated, maxTurns) ==
  LET message(i) == Segments(1000 + Cardinality(ranks) * baseBlocks + (i - 1) * queryBlocks,
                             queryBlocks)
      opening(c) == Segments(0, systemBlocks) \o Segments(1000 + c * baseBlocks, baseBlocks)
      add(st, c) ==
        LET i == Len(st.turns) + 1
            open == Len(st.active[c]) \in 1 .. maxTurns - 1
            before == IF open THEN st.active[c] ELSE <<>>
            keys == IF open THEN NextKeys(st.turns[before[Len(before)]].keys, generated, message(i))
                    ELSE Extend(<<>>, opening(c) \o message(i))
        IN [turns |-> Append(st.turns, Turn(keys, c, ToSet(before))),
            active |-> [st.active EXCEPT ![c] = Append(before, i)]]
  IN FoldLeft(add, [turns |-> <<>>, active |-> [c \in ranks |-> <<>>]], draws).turns

(* _affinity: a tenant's turns land on one host.                           *)
Affinity(hosts, rank) == SetToSortSeq(hosts, <)[1 + (rank % Cardinality(hosts))]
=============================================================================
