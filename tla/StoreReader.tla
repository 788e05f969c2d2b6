---------------------------- MODULE StoreReader ----------------------------
(***************************************************************************)
(* toso_store_reader.py: the builders that turn a live store into the       *)
(* answers of the query protocol, and the reads they make of the store.     *)
(*                                                                         *)
(* A listing request gathers in several awaited calls: the controller's     *)
(* keys, their volume maps, and one get_meta per key; writers go on between *)
(* them.  The answer is then computed from the records gathered.  A key is  *)
(* the sequence of its characters, so that prefixes and dots mean what they *)
(* mean to the code; shapes, dtypes and statistics are left out, a size is  *)
(* a number.  The store (controller rows, volume contents) is external.     *)
(***************************************************************************)
EXTENDS Integers, FiniteSets, Sequences, SequencesExt

CONSTANTS
  Keys,       \* keys any client of the store may use, sequences of characters
  Alphabet,   \* the characters, as a sequence in string order
  Kind,       \* by key: "OBJECT", "TENSOR" or "TENSOR_SLICE"
  Size,       \* by key: the bytes its get_meta yields, 0 for an object
  Mesh,       \* by key: the coordinates of its device mesh
  Volumes,    \* volume ids, numbers ordered as the code orders its strings
  Host,       \* by volume: its host, a number
  Clients     \* connections to the query server

Dot == "."
Top == << >>            \* the empty prefix
NoCursor == -1          \* next_cursor = None, and a request without a cursor
Whole == 0              \* the coordinate of a shard that is not a slice

VARIABLES
  rows,      \* controller: by key, its volumes as registered, [vol, coords]
  held,      \* by volume, the keys it holds
  torn,      \* whether the shared store has been shut down
  conn,      \* by client: "away", "open" or "gone"
  req,       \* by client: the request being answered, with its cursor
  stage,     \* by client: "idle", "keys", "locate", "collect", "answer"
  todo,      \* by client: keys still to look at, in order
  maps,      \* by client: the volume maps located
  records,   \* by client: the records collected
  reply,     \* by client: the last answer
  pages,     \* by client, history: items of the pages read since the first
  touched    \* by client, history: keys written since the first page was asked

storeVars == <<rows, held, torn>>
clientVars == <<conn, req, stage, todo, maps, records, reply, pages, touched>>

Live == {k \in Keys : rows[k] # << >>}
-----------------------------------------------------------------------------
(* Strings *)

Code(c) == CHOOSE i \in DOMAIN Alphabet : Alphabet[i] = c

StringLess(a, b) ==
  \/ IsStrictPrefix(a, b)
  \/ \E i \in 1..Len(a) :
       /\ i <= Len(b)
       /\ SubSeq(a, 1, i - 1) = SubSeq(b, 1, i - 1)
       /\ Code(a[i]) < Code(b[i])

\* sorted(seq, key, reverse): stable whichever way it runs.
Sorted(seq, Less(_, _), reverse) ==
  LET Ahead(i, j) ==
        \/ IF reverse THEN Less(seq[j], seq[i]) ELSE Less(seq[i], seq[j])
        \/ ~Less(seq[j], seq[i]) /\ ~Less(seq[i], seq[j]) /\ i < j
  IN  [n \in DOMAIN seq |->
         seq[CHOOSE i \in DOMAIN seq :
               Cardinality({j \in DOMAIN seq : Ahead(j, i)}) = n - 1]]

\* The nodes of the key trie on the way to k, k included.
Nodes(k) == {SubSeq(k, 1, i) : i \in {j \in DOMAIN k : j = Len(k) \/ k[j + 1] = Dot}}

\* Every string the code compares, in order.
Names ==
  LET S == UNION {Nodes(k) : k \in Keys}
  IN  [n \in 1..Cardinality(S) |->
         CHOOSE a \in S : Cardinality({b \in S : StringLess(b, a)}) = n - 1]

SortedStrings(S) == SelectSeq(Names, LAMBDA a : a \in S)

Sum(seq, F(_)) == FoldSeq(LAMBDA x, acc : F(x) + acc, 0, seq)
-----------------------------------------------------------------------------
(* What a record says *)

\* Every coordinate of the mesh, over all volumes; trivially so for a key with no slices.
IsFullyCommitted(k, map) ==
  LET coords == UNION {e.coords : e \in Range(map)}
  IN  Kind[k] # "TENSOR_SLICE" \/ coords = {} \/ coords = Mesh[k]

\* A plain tensor lies whole on each volume; a slice is one row per coordinate.
ShardsForKey(k, map) ==
  CASE Kind[k] = "OBJECT" -> {}
    [] Kind[k] = "TENSOR" -> {<<e.vol, Whole>> : e \in Range(map)}
    [] OTHER -> UNION {{<<e.vol, c>> : c \in e.coords} : e \in Range(map)}

Record(k, map) ==
  [key |-> k, committed |-> IsFullyCommitted(k, map),
   vols |-> [i \in DOMAIN map |-> map[i].vol],
   shards |-> ShardsForKey(k, map)]

IsPartial(r) == Kind[r.key] = "TENSOR_SLICE" /\ ~r.committed

\* _prefix_entry: one trie node and what lies under it.
PrefixEntry(prefix, members) ==
  LET Of(kind) == Len(SelectSeq(members, LAMBDA r : Kind[r.key] = kind))
  IN  [prefix   |-> prefix,
       keys     |-> Len(members),
       objects  |-> Of("OBJECT"),
       tensors  |-> Of("TENSOR"),
       dtensors |-> Of("TENSOR_SLICE"),
       partial  |-> Len(SelectSeq(members, IsPartial)),
       bytes    |-> Sum(members, LAMBDA r : Size[r.key]),
       is_leaf  |-> Len(members) = 1 /\ members[1].key = prefix]

WithDot(parent) == IF parent = Top THEN Top ELSE Append(parent, Dot)

\* Mutant: rest.rsplit(".", 1)[0].
FirstSegmentOfLast(rest) ==
  LET dots == {i \in DOMAIN rest : rest[i] = Dot}
  IN  IF dots = {} THEN rest
      ELSE SubSeq(rest, 1, (CHOOSE i \in dots : \A j \in dots : i >= j) - 1)

\* rest.split(".", 1)[0]
FirstSegment(rest) ==
  LET dots == {i \in DOMAIN rest : rest[i] = Dot}
  IN  IF dots = {} THEN rest
      ELSE SubSeq(rest, 1, (CHOOSE i \in dots : \A j \in dots : i <= j) - 1)

ChildOf(k, parent) ==
  LET stem == WithDot(parent)
  IN  stem \o FirstSegment(SubSeq(k, Len(stem) + 1, Len(k)))

\* _children: one trie level below parent, sorted by name.
Children(recs, parent) ==
  LET below == SelectSeq(recs, LAMBDA r : IsPrefix(WithDot(parent), r.key))
      names == SortedStrings({ChildOf(r.key, parent) : r \in Range(below)})
  IN  [n \in DOMAIN names |->
         PrefixEntry(names[n],
           SelectSeq(below, LAMBDA r : ChildOf(r.key, parent) = names[n]))]

VolumeOrder == SetToSortSeq(Volumes, <)
HostOrder == SetToSortSeq(Range(Host), <)

\* _build_volumes: a row for every volume of the strategy, empty ones included.
BuildVolumes(recs) ==
  LET On(v) == SelectSeq(recs, LAMBDA r : v \in Range(r.vols))
  IN  [n \in DOMAIN VolumeOrder |->
         LET v == VolumeOrder[n] IN
         [volume_id |-> v, hostname |-> Host[v], num_keys |-> Len(On(v)),
          bytes |-> Sum(On(v), LAMBDA r : Size[r.key])]]

Grouped(volumes, host) == SelectSeq(volumes, LAMBDA v : v.hostname = host)

\* The volumes group by group, a group where its first volume stands.
InGroups(volumes) ==
  LET First(host) == CHOOSE i \in DOMAIN volumes :
                       /\ volumes[i].hostname = host
                       /\ \A j \in 1..(i - 1) : volumes[j].hostname # host
  IN  Sorted(volumes, LAMBDA a, b : First(a.hostname) < First(b.hostname), FALSE)

\* build_summary_dict
Summary(recs) ==
  LET volumes == BuildVolumes(recs)
      partial == Len(SelectSeq(recs, IsPartial))
  IN  [volumes |-> Len(volumes), keys |-> Len(recs),
       bytes |-> Sum(recs, LAMBDA r : Size[r.key]),
       partial |-> partial, committed |-> Len(recs) - partial,
       groups |-> [n \in DOMAIN HostOrder |->
                     [group |-> HostOrder[n],
                      volumes |-> Len(Grouped(volumes, HostOrder[n])),
                      keys |-> Sum(Grouped(volumes, HostOrder[n]), LAMBDA v : v.num_keys),
                      bytes |-> Sum(Grouped(volumes, HostOrder[n]), LAMBDA v : v.bytes)]],
       prefixes |-> Children(recs, Top)]
-----------------------------------------------------------------------------
(* Pages and orders *)

DecodeCursor(cursor) == IF cursor < 0 THEN 0 ELSE cursor

\* Mutant: the cursor names the item after the next.
PaginateSkips(items, limit, cursor) ==
  LET start == DecodeCursor(cursor)
      stop  == start + limit
  IN  [items |-> SubSeq(items, start + 1, IF stop < Len(items) THEN stop ELSE Len(items)),
       next  |-> IF stop < Len(items) THEN stop + 1 ELSE NoCursor]

Paginate(items, limit, cursor) ==
  LET start == DecodeCursor(cursor)
      stop  == start + limit
  IN  [items |-> SubSeq(items, start + 1, IF stop < Len(items) THEN stop ELSE Len(items)),
       next  |-> IF stop < Len(items) THEN stop ELSE NoCursor]

Reversed(by, order) == order = "desc" \/ (order # "asc" /\ by # "name")

Flag(b) == IF b THEN 1 ELSE 0

SortPrefixes(entries, by, order) ==
  Sorted(entries,
         LAMBDA a, b : CASE by = "name" -> StringLess(a.prefix, b.prefix)
                         [] by \in {"keys", "bytes", "reachable"} -> a.keys < b.keys
                         [] OTHER -> a.partial < b.partial,
         Reversed(by, order))

SortVolumes(volumes, by, order) ==
  Sorted(volumes,
         LAMBDA a, b : CASE by = "name" -> a.volume_id < b.volume_id
                         [] by \in {"keys", "partial"} -> a.num_keys < b.num_keys
                         [] by = "reachable" -> FALSE
                         [] OTHER -> a.bytes < b.bytes,
         Reversed(by, order))

SortKeyMatches(recs, by, order) ==
  Sorted(recs,
         LAMBDA a, b : CASE by \in {"name", "keys", "bytes"} -> StringLess(a.key, b.key)
                         [] by = "reachable" -> Flag(a.committed) < Flag(b.committed)
                         [] OTHER -> Flag(~a.committed) < Flag(~b.committed),
         Reversed(by, order))

\* pattern in string
Occurs(pattern, string) ==
  \E i \in 0..(Len(string) - Len(pattern)) :
    SubSeq(string, i + 1, i + Len(pattern)) = pattern

\* Everything a listing request asks for, in the order its pages show it.
Listing(r, recs) ==
  CASE r.op = "expand_prefix" ->
         LET es == SortPrefixes(Children(recs, r.arg), r.sort, r.order)
         IN  [n \in DOMAIN es |-> es[n].prefix]
    [] r.op = "list_volumes" ->
         LET vs == SortVolumes(Grouped(BuildVolumes(recs), r.arg), r.sort, r.order)
         IN  [n \in DOMAIN vs |-> vs[n].volume_id]
    [] r.op = "search_volumes" ->
         LET vs == SortVolumes(SelectSeq(InGroups(BuildVolumes(recs)),
                                         LAMBDA v : v.volume_id \in r.arg),
                               r.sort, r.order)
         IN  [n \in DOMAIN vs |-> vs[n].volume_id]
    [] OTHER ->
         LET ks == SortKeyMatches(SelectSeq(recs, LAMBDA x : Occurs(r.arg, x.key)),
                                  r.sort, r.order)
         IN  [n \in DOMAIN ks |-> ks[n].key]

ErrorReply == [ok |-> FALSE, items |-> << >>, next |-> NoCursor]
Answer(items) == [ok |-> TRUE, items |-> items, next |-> NoCursor]

Listings == {"expand_prefix", "list_volumes", "search_volumes", "search"}
Gathering == Listings \cup {"summary"}

\* The answer to r once the store has been read.
Response(r, recs) ==
  CASE r.op = "summary"    -> Answer([n \in DOMAIN Summary(recs).prefixes |->
                                      Summary(recs).prefixes[n].prefix])
    [] r.op \in Listings   -> LET p == Paginate(Listing(r, recs), r.limit, r.cursor)
                              IN  [ok |-> TRUE, items |-> p.items, next |-> p.next]
    [] r.op = "key"        -> IF recs = << >> THEN ErrorReply ELSE Answer(<<recs[1].key>>)
    [] r.op = "peek"       -> IF recs = << >> \/ Kind[r.arg] = "OBJECT" THEN ErrorReply
                              ELSE Answer(<<r.arg>>)
    [] OTHER               -> ErrorReply
-----------------------------------------------------------------------------
(* Reading the store, one awaited call at a time *)

\* _dispatch routes the request to its builder; key and peek read one key.
Begin(c, r) ==
  /\ req' = [req EXCEPT ![c] = r]
  /\ stage' = [stage EXCEPT ![c] = IF r.op \in Gathering THEN "keys"
                                   ELSE IF r.op \in {"key", "peek"} THEN "locate"
                                   ELSE "answer"]
  /\ todo' = [todo EXCEPT ![c] = IF r.op \in {"key", "peek"} THEN <<r.arg>> ELSE << >>]
  /\ records' = [records EXCEPT ![c] = << >>]
  /\ maps' = [maps EXCEPT ![c] = << >>]
  /\ reply' = [reply EXCEPT ![c] = ErrorReply]

Fail(c) ==
  /\ req' = [req EXCEPT ![c].op = "failed"]
  /\ stage' = [stage EXCEPT ![c] = "answer"]

\* gather_state: controller.keys, sorted.
GatherKeys(c) ==
  /\ stage[c] = "keys"
  /\ IF torn THEN Fail(c) /\ UNCHANGED todo
     ELSE /\ todo' = [todo EXCEPT ![c] = SortedStrings(Live)]
          /\ stage' = [stage EXCEPT ![c] = "locate"]
          /\ UNCHANGED req
  /\ UNCHANGED <<storeVars, conn, maps, records, reply, pages, touched>>

\* locate_volumes(all_keys, missing_ok): a key deleted since is left out of the maps.
GatherLocate(c) ==
  /\ stage[c] = "locate"
  /\ IF torn THEN Fail(c) /\ UNCHANGED maps
     ELSE /\ maps' = [maps EXCEPT ![c] = [k \in Range(todo[c]) |-> rows[k]]]
          /\ stage' = [stage EXCEPT ![c] = "collect"]
          /\ UNCHANGED req
  /\ UNCHANGED <<storeVars, conn, todo, records, reply, pages, touched>>

\* get_meta at the first volume of the map, which may have lost the key by now.
MetaFound(k, map) == ~torn /\ k \in held[map[1].vol]

\* _collect_keys: one key; a key with no volumes, or whose read fails, is skipped.
Collected(recs, k, map) ==
  IF map # << >> /\ MetaFound(k, map) THEN Append(recs, Record(k, map)) ELSE recs

\* Mutant: a racing key ends the loop instead of being skipped.
CollectStops(c) ==
  /\ stage[c] = "collect"
  /\ todo[c] # << >>
  /\ LET k == Head(todo[c]) IN
       /\ records' = [records EXCEPT ![c] = Collected(@, k, maps[c][k])]
       /\ todo' = [todo EXCEPT ![c] =
                     IF maps[c][k] # << >> /\ ~MetaFound(k, maps[c][k]) THEN << >> ELSE Tail(@)]
  /\ UNCHANGED <<storeVars, conn, req, stage, maps, reply, pages, touched>>

Collect(c) ==
  /\ stage[c] = "collect"
  /\ todo[c] # << >>
  /\ records' = [records EXCEPT ![c] =
                   Collected(@, Head(todo[c]), maps[c][Head(todo[c])])]
  /\ todo' = [todo EXCEPT ![c] = Tail(@)]
  /\ UNCHANGED <<storeVars, conn, req, stage, maps, reply, pages, touched>>

\* The store has been read, or the request needs none of it.
Gathered(c) == stage[c] = "answer" \/ (stage[c] = "collect" /\ todo[c] = << >>)
=============================================================================
