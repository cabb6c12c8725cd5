---------------------------- MODULE GraphQueries ----------------------------
(***************************************************************************)
(* The structured operations of the neptune-query function as operators    *)
(* over the graph its query finds, and the page's reading of their         *)
(* answers.  A graph is [v, e, facts]: vertices <<label, id>>, edges       *)
(* [src, rel, tgt], and facts [node, serial, event], the serialNumber and  *)
(* sourceEventId properties of the vertices that have them.  The limits of *)
(* 100 and 200 rows are not reached.                                       *)
(***************************************************************************)
EXTENDS Naturals, FiniteSets, Sequences, SequencesExt

Id(x) == x[2]
Label(x) == x[1]
Ids(S) == {Id(x) : x \in S}
\* An empty filter is no filter.
In(x, filter) == filter = {} \/ x \in filter

-----------------------------------------------------------------------------
(* Traversals *)

\* out(rels), in(rels) and both(rels) of a vertex.
Hops(g, x, dir, rels) ==
    LET es == {e \in g.e : In(e.rel, rels)}
    IN  {e.tgt : e \in {f \in es : f.src = x /\ dir # "in"}}
          \cup {e.src : e \in {f \in es : f.tgt = x /\ dir # "out"}}

\* The paths one hop longer that visit no vertex twice.
Longer(g, dir, rels, labels, paths) ==
    LET onward(p) == {y \in Hops(g, Last(p), dir, rels) : In(Label(y), labels)} \ ToSet(p)
    IN  UNION {{Append(p, y) : y \in onward(p)} : p \in paths}

\* The ends of the simple paths from x of so many hops.
PathEnds(g, x, dir, rels, labels, lengths) ==
    LET paths[n \in Nat] == IF n = 0 THEN {<<x>>} ELSE Longer(g, dir, rels, labels, paths[n - 1])
    IN  UNION {{Last(p) : p \in paths[n]} : n \in lengths}

\* repeat(dir(rels).hasLabel(labels).simplePath()).times(depth).emit().dedup()
Walk(g, x, dir, rels, labels, depth) == PathEnds(g, x, dir, rels, labels, 1..depth)

\* traverse: one relation and one target label, or any; at most 5 hops.
Traverse(g, x, dir, rels, labels, depth) ==
    IF x \in g.v THEN Walk(g, x, dir, rels, labels, IF depth < 5 THEN depth ELSE 5) ELSE {}

\* query_neighbors
QueryNeighbors(g, x, rels, labels) ==
    {y \in Hops(g, x, "both", rels) : In(Label(y), labels)}

\* get_node: first the neighbors of a vertex, then its edges.
NodeNeighbors(g, x) == Hops(g, x, "both", {})
NodeEdges(g, x) == {e \in g.e : x \in {e.src, e.tgt}}

-----------------------------------------------------------------------------
(* The reads of get_thread_state and query_plan_vs_actual *)

Sublot(sn) == <<"MaterialSublot", sn>>
ThreadDepth == 3
ThreadNodes(g, sn) == Walk(g, Sublot(sn), "both", {}, {}, ThreadDepth)
\* An edge as an answer has it.
Link(e) == [source |-> Id(e.src), target |-> Id(e.tgt), label |-> e.rel]
\* Both ends are asked for by id, whatever their labels.
EdgesAmong(g, ids) == {Link(e) : e \in {f \in g.e : {Id(f.src), Id(f.tgt)} \subseteq ids}}
FactsOf(g, label, sn) == {f \in g.facts : Label(f.node) = label /\ f.serial = sn}

JobOrder(wo) == <<"JobOrder", wo>>
Labelled(S, label) == {x \in S : Label(x) = label}
Responses(g, wo) == Labelled(Hops(g, JobOrder(wo), "out", {"requestsExecution"}), "JobResponse")
Requested(g, wo) == Labelled(Hops(g, JobOrder(wo), "out", {"requestsSegment"}), "ProcessSegment")
Executed(g, wo) ==
    UNION {Labelled(Hops(g, r, "out", {"executedSegment"}), "ProcessSegment") : r \in Responses(g, wo)}

\* missingSegments and extraSegments
PlanDiff(requested, executed) ==
    [missing |-> {s \in requested : Id(s) \notin Ids(executed)},
     extra |-> {s \in executed : Id(s) \notin Ids(requested)}]

-----------------------------------------------------------------------------
(* The page's graph of an answer [serial, nodes, edges, gaps, verdicts] *)

\* Of several vertices with one id the page keeps the first of the answer;
\* the answer begins with the serial number and is in no order.
FirstOfEachId(answer) ==
    LET rest == {x \in answer.nodes : Id(x) # answer.serial}
    IN  {{Sublot(answer.serial)} \cup S : S \in {T \in SUBSET rest :
            Ids(T) = Ids(rest) /\ \A x, y \in T : Id(x) = Id(y) => x = y}}

\* The gaps and verdicts of an answer as vertices.
Assessed(answer) == {f.node : f \in answer.gaps \cup answer.verdicts}

\* An NCR is linked to what was found about the event that raised it.
LinksToNcr(facts, nodes, raisedBy, label) ==
    {[source |-> Id(link[1].node), target |-> Id(link[2]), label |-> label] :
        link \in {p \in facts \X nodes : <<p[2], p[1].event>> \in raisedBy}}

\* (mutant) the ends of the edges that something points to are forgotten.
ConnectedSourcesOnly(edges, serial) == {e.source : e \in edges} \cup {serial}

\* What has an edge is shown, and the serial number in any case.
Connected(edges, serial) == {serial} \cup UNION {{e.source, e.target} : e \in edges}

\* mapNodesToGraph, with raisedBy: <<NCR, event>>.
MapNodesToGraph(answer, kept, raisedBy) ==
    LET nodes == kept \cup Assessed(answer)
        edges == {e \in answer.edges : {e.source, e.target} \subseteq Ids(nodes)}
                   \cup LinksToNcr(answer.gaps, kept, raisedBy, "CAUSED_BY")
                   \cup LinksToNcr(answer.verdicts, kept, raisedBy, "ASSESSES")
    IN  [nodes |-> {n \in nodes : Id(n) \in Connected(edges, answer.serial)}, edges |-> edges]

DomainLabels == [
    Engineering |-> {"MaterialDefinition", "ProductDefinitionDocument", "ECO"},
    Manufacturing |-> {"JobResponse", "JobOrder", "ProcessSegment", "Equipment", "AsBuiltRecord"},
    Quality |-> {"OperationsPerformance", "ThreadGap", "CoherenceVerdict"},
    SupplyChain |-> {"Supplier", "MaterialLot", "PurchaseOrder"},
    Fleet |-> {"DigitalTwin", "FleetAnomaly"},
    Hierarchy |-> {"Enterprise", "Site", "Area", "WorkCenter", "WorkUnit"},
    Personnel |-> {"Person", "PersonnelClass"}]
Domains == {"All"} \cup DOMAIN DomainLabels
IsNodeVisible(x, domain) ==
    domain = "All" \/ Label(x) = "MaterialSublot" \/ Label(x) \in DomainLabels[domain]

EdgesWithin(edges, nodes) == {e \in edges : {e.source, e.target} \subseteq Ids(nodes)}

\* What the page draws of its graph in a domain.
InDomain(graph, domain) ==
    LET visible == {x \in graph.nodes : IsNodeVisible(x, domain)}
    IN  [nodes |-> visible, edges |-> EdgesWithin(graph.edges, visible)]

\* (mutant) the navigator is given what the page draws.
NavigatorGraphInDomain(graph, domain) == InDomain(graph, domain)
\* The navigator is given the whole thread, whatever the domain.
NavigatorGraph(graph, domain) == graph

\* GraphBlock: what it draws of the path the navigator names.
OnPath(graph, ids) ==
    [nodes |-> {x \in graph.nodes : Id(x) \in ids},
     edges |-> {e \in graph.edges : {e.source, e.target} \subseteq ids}]
=============================================================================
