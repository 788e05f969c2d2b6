------------------------------ MODULE RunReport ------------------------------
(***************************************************************************)
(* The report of a run (sim_common/report.py): the who-served-whom picture *)
(* drawn from the ledger's edges.                                          *)
(***************************************************************************)
EXTENDS SimulationRun

\* _edge_graph: the distinct destinations of a source, in the order served.
ChildrenOf(n) ==
    FoldLeft(LAMBDA kids, e : IF e[1] = n /\ ~Contains(kids, e[2]) THEN Append(kids, e[2]) ELSE kids,
             <<>>, ledger.edges)

Roots == {e[1] : e \in Range(ledger.edges)} \ {e[2] : e \in Range(ledger.edges)}

IsChain == \A e \in Range(ledger.edges) : Len(ChildrenOf(e[1])) = 1

\* A line of the picture: a node, the one it hangs from, and whether it is a
\* back reference to a subtree drawn earlier.
Line(n, under, again) == [node |-> n, under |-> under, again |-> again]

RECURSIVE Walk(_, _)

\* The subtree under a node, after what has been drawn.
Walk(n, drawn) ==
    FoldLeft(LAMBDA d, kid :
                 IF (\E k \in DOMAIN d : d[k].node = kid) /\ ChildrenOf(kid) # <<>>
                 THEN Append(d, Line(kid, n, TRUE))
                 ELSE Walk(kid, Append(d, Line(kid, n, FALSE))),
             drawn, ChildrenOf(n))

RECURSIVE Path(_)

Path(n) ==
    LET kids == ChildrenOf(n) IN
    IF kids = <<>> THEN <<>> ELSE << Line(kids[1], n, FALSE) >> \o Path(kids[1])

\* render_tree: simple paths are drawn inline, anything else as a tree.
RenderTree ==
    FoldLeft(LAMBDA d, r : IF IsChain THEN Append(d, Line(r, Nobody, FALSE)) \o Path(r)
                           ELSE Walk(r, Append(d, Line(r, Nobody, FALSE))),
             <<>>, SetToSeq(Roots))

-----------------------------------------------------------------------------
(* Properties *)

\* The picture of a run that returned draws every reader once, under whoever
\* served it (report.py render_tree).
PictureComplete ==
    main.pc = "returned" =>
       /\ \A i \in Items : {k \in DOMAIN RenderTree : RenderTree[k].node = i} # {}
       /\ \A k \in DOMAIN RenderTree :
             \/ RenderTree[k].under = Nobody /\ RenderTree[k].node \in Origins
             \/ /\ task[RenderTree[k].node].from = RenderTree[k].under
                /\ ~RenderTree[k].again
       /\ Len(RenderTree) = Cardinality(Items) + Cardinality(Roots)

\* A run that returns has an outcome row per item, the wallclock of the last
\* one, and a picture with every reader in it; one that raises names an item
\* that failed (runner.py run and _run_one, report.py render_tree).
RowsComplete == OutcomesComplete /\ PictureComplete
=============================================================================
