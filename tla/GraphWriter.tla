----------------------------- MODULE GraphWriter -----------------------------
(***************************************************************************)
(* The pure part of the fast consumer's graph writer: what a handler puts  *)
(* in a GraphBatch, and the list of Neptune calls that flush() makes of    *)
(* it.  The calls themselves, and what happens when one of them fails, are *)
(* the steps of module FastConsumer.                                       *)
(*                                                                         *)
(* A vertex is <<label, id>>.  Properties are abstracted to one question:  *)
(* does the write carry state of the event (status, score, revision...),   *)
(* so that a later or an earlier event would write something else?         *)
(***************************************************************************)
EXTENDS Integers, Sequences, SequencesExt, Subsequences

\* One entry of GraphBatch._nodes: `sets` says whether the write carries
\* state of the event or only identifies the vertex.
NodeWrite(label, id, sets) == [node |-> <<label, id>>, sets |-> sets]

\* One entry of GraphBatch._edges.
EdgeWrite(src, rel, tgt) == [src |-> src, rel |-> rel, tgt |-> tgt]

\* One call to a store: every step has the same shape, a call about one
\* vertex has it in both src and tgt and no relation.
NoRel == "none"
NodeStep(op, node, sets) ==
    [op |-> op, src |-> node, tgt |-> node, rel |-> NoRel, sets |-> sets]
EdgeStep(w) ==
    [op |-> "upsert_edge", src |-> w.src, tgt |-> w.tgt, rel |-> w.rel, sets |-> FALSE]

\* The ends of the edges, one edge after the other.
Endpoints(edges) ==
    [i \in 1..(2 * Len(edges)) |->
        LET edge == edges[(i + 1) \div 2] IN IF i % 2 = 1 THEN edge.src ELSE edge.tgt]

\* _ensure_edge_endpoints: a stub for each endpoint that is not a vertex of
\* the batch, once, in the order of the edges.  The vertices of the batch are
\* left out whether or not their own upsert went through.
StubSteps(nodes, edges) ==
    LET batched == {nodes[i].node : i \in DOMAIN nodes}
        ends == Endpoints(edges)
        stubs == Kept(ends, {i \in DOMAIN ends : /\ ends[i] \notin batched
                                                /\ \A j \in 1..(i - 1) : ends[j] # ends[i]})
    IN  [i \in DOMAIN stubs |-> NodeStep("stub", stubs[i], FALSE)]

\* GraphBatch.flush: every vertex, then the missing endpoints, then every
\* edge, then one RDF dual write of the whole batch.
FlushSteps(nodes, edges) ==
    [i \in DOMAIN nodes |-> NodeStep("upsert_node", nodes[i].node, nodes[i].sets)]
        \o StubSteps(nodes, edges)
        \o [i \in DOMAIN edges |-> EdgeStep(edges[i])]
        \o IF nodes = <<>> /\ edges = <<>> THEN <<>>
           ELSE <<NodeStep("rdf", nodes[1].node, FALSE)>>

\* upsert_node called by a handler on its own, outside a batch.
UpsertNodeStep(label, id) == <<NodeStep("direct", <<label, id>>, TRUE)>>

\* update_node: sets properties of a vertex that must already be there.
UpdateNodeStep(label, id) == <<NodeStep("update", <<label, id>>, TRUE)>>
=============================================================================
