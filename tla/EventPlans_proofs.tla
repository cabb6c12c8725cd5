-------------------------- MODULE EventPlans_proofs --------------------------
(***************************************************************************)
(* What the handlers write, for every event and every payload.  Module     *)
(* FastConsumer takes the store calls of an event as a constant and        *)
(* assumes that each end of an edge is written before the edge; ThreadPage *)
(* assumes who adds to the plan of a work order.  Here both are proved of  *)
(* the handlers.                                                           *)
(***************************************************************************)
EXTENDS EventPlans, Subsequences_proofs, TLAPS

-----------------------------------------------------------------------------
(* Events and calls over a set X of ids *)

Labels == {"BillOfMaterials", "ChangeNotice", "ChangeRequest", "DigitalTwin",
           "EngineeringChangeOrder", "Equipment", "FleetAnomaly", "GoodsReceipt", "JobOrder",
           "JobResponse", "MaterialDefinition", "MaterialLot", "MaterialSublot", "Milestone",
           "OperationsPerformance", "Person", "ProcessSegment", "ProductDefinitionDocument",
           "PurchaseOrder", "PurchaseRequisition", "Supplier", "SupplierInvoice", "WorkCenter"}
PlainRels == {"affectsMaterial", "appliesTo", "assignedTo", "attributedTo", "billOf", "certifies",
              "changedBy", "completedBy", "consumedBy", "definesMaterial", "effectiveOn",
              "equipmentActual", "executedDuring", "executedSegment", "hasDocument",
              "includesComponent", "instantiatedAs", "invoicedBy", "locatedIn", "madeFrom",
              "observedOn", "orderedFrom", "ordersMaterial", "originatesFrom", "produces",
              "producesMaterial", "receivedMaterial", "releases", "requestsChangeTo", "signedBy",
              "suppliedBy", "testsAppliedTo", "trackedBy"}
Rels == PlainRels \cup {"requestsSegment", "requestsExecution"}
Vertices(X) == Labels \X X
NodeWrites(X) == [node : Vertices(X), sets : BOOLEAN]
EdgeWrites(X) == [src : Vertices(X), rel : Rels, tgt : Vertices(X)]
VertexOps == {"upsert_node", "stub", "direct", "update", "rdf"}
Calls(X) == [op : VertexOps \cup {"upsert_edge"}, src : Vertices(X), tgt : Vertices(X),
             rel : Rels \cup {NoRel}, sets : BOOLEAN]

\* The ids an event has, and those the handlers fill in.
HandlerIds == {"SN-0047"} \cup {MilestoneParts[i] : i \in DOMAIN MilestoneParts}
IsEvent(e, X) ==
    /\ e.entity \in X /\ e.id \in X /\ HandlerIds \subseteq X
    /\ \A f \in DOMAIN e.ids : e.ids[f] \in X

\* The edges that an event may write: only the release of a work order adds to
\* its plan, only its start to what is made of it.
IsRelease(e) == e.domain = "mes" /\ e.type = "WORK_ORDER_RELEASED"
IsStart(e) == e.domain = "mes" /\ e.type \in {"WORK_ORDER_STARTED", "WO_STARTED"}
EdgesOf(e, X) ==
    {w \in EdgeWrites(X) :
        /\ w.rel = "requestsSegment" => IsRelease(e) /\ w.src = <<"JobOrder", MesWo(e)>>
        /\ w.rel = "requestsExecution" => IsStart(e) /\ w.src = <<"JobOrder", MesWo(e)>>}

\* Good calls: each end of an edge has a write of its own before the edge, and
\* the edge is one of E.
Planned(s, X, E) ==
    /\ s \in Seq(Calls(X))
    /\ \A i \in 1..Len(s) : s[i].op = "upsert_edge" =>
        /\ [src |-> s[i].src, rel |-> s[i].rel, tgt |-> s[i].tgt] \in E
        /\ \A n \in {s[i].src, s[i].tgt} : \E j \in 1..(i - 1) :
            s[j].op \in {"upsert_node", "stub", "direct"} /\ s[j].src = n

-----------------------------------------------------------------------------
(* The calls of a batch *)

LEMMA NodeStepIs ==
    ASSUME NEW X, NEW op, op \in VertexOps, NEW n \in Vertices(X), NEW sets \in BOOLEAN
    PROVE  /\ NodeStep(op, n, sets) \in Calls(X)
           /\ NodeStep(op, n, sets).op = op /\ NodeStep(op, n, sets).src = n
<1>1. NodeStep(op, n, sets) = [op |-> op, src |-> n, tgt |-> n, rel |-> NoRel, sets |-> sets]
  BY DEF NodeStep
<1>2. op \in VertexOps \cup {"upsert_edge"} OBVIOUS
<1>3. NoRel \in Rels \cup {NoRel} OBVIOUS
<1>4. NodeStep(op, n, sets) \in Calls(X) BY <1>1, <1>2, <1>3 DEF Calls
<1>5. NodeStep(op, n, sets).op = op /\ NodeStep(op, n, sets).src = n BY <1>1
<1> QED BY <1>4, <1>5

LEMMA EdgeStepIs ==
    ASSUME NEW X, NEW E, E \subseteq EdgeWrites(X), NEW w \in E
    PROVE  /\ EdgeStep(w) \in Calls(X) /\ EdgeStep(w).op = "upsert_edge"
           /\ EdgeStep(w).src = w.src /\ EdgeStep(w).tgt = w.tgt
           /\ [src |-> EdgeStep(w).src, rel |-> EdgeStep(w).rel, tgt |-> EdgeStep(w).tgt] = w
<1>1. w \in EdgeWrites(X) /\ w.rel \in Rels \cup {NoRel} BY DEF EdgeWrites
<1>2. EdgeStep(w) = [op |-> "upsert_edge", src |-> w.src, tgt |-> w.tgt, rel |-> w.rel, sets |-> FALSE]
  BY DEF EdgeStep
<1>3. /\ EdgeStep(w) \in Calls(X)
  BY <1>1, <1>2 DEF Calls, EdgeWrites
<1>4. /\ EdgeStep(w).op = "upsert_edge"
      /\ EdgeStep(w).src = w.src /\ EdgeStep(w).tgt = w.tgt
      /\ EdgeStep(w).rel = w.rel
  BY <1>2
<1>5. w = [src |-> w.src, rel |-> w.rel, tgt |-> w.tgt] BY <1>1 DEF EdgeWrites
<1> QED BY <1>3, <1>4, <1>5

\* Two sequences, one after the other.
Joins(t, u, v) ==
    /\ Len(t) = Len(u) + Len(v)
    /\ \A i \in 1..Len(u) : t[i] = u[i]
    /\ \A i \in 1..Len(v) : t[Len(u) + i] = v[i]
    /\ \A i \in 1..Len(t) : i \in 1..Len(u) \/ i - Len(u) \in 1..Len(v)

LEMMA JoinedIs ==
    ASSUME NEW S, NEW u \in Seq(S), NEW v \in Seq(S)
    PROVE  u \o v \in Seq(S) /\ Joins(u \o v, u, v)
BY DEF Joins

\* Every end of an edge that is no vertex of the batch has a stub.
Stubbed(stubs, nodes, edges, X) ==
    /\ stubs \in Seq(Calls(X))
    /\ \A i \in 1..Len(stubs) : stubs[i].op = "stub"
    /\ \A k \in 1..Len(edges) : \A n \in {edges[k].src, edges[k].tgt} :
        \/ \E i \in 1..Len(nodes) : nodes[i].node = n
        \/ \E i \in 1..Len(stubs) : stubs[i].src = n

LEMMA StubsAre ==
    ASSUME NEW X, NEW E, E \subseteq EdgeWrites(X),
           NEW nodes \in Seq(NodeWrites(X)), NEW edges \in Seq(E)
    PROVE  Stubbed(StubSteps(nodes, edges), nodes, edges, X)
<1> DEFINE batched == {nodes[i].node : i \in DOMAIN nodes}
           ends == Endpoints(edges)
           I == {i \in DOMAIN ends : /\ ends[i] \notin batched
                                     /\ \A j \in 1..(i - 1) : ends[j] # ends[i]}
           stubs == Kept(ends, I)
           s == StubSteps(nodes, edges)
<1>1. PICK m \in Nat : m = 2 * Len(edges) OBVIOUS
<1>2. ends = [i \in 1..m |->
        LET edge == edges[(i + 1) \div 2] IN IF i % 2 = 1 THEN edge.src ELSE edge.tgt]
  BY <1>1 DEF Endpoints
<1>3. s = [i \in DOMAIN stubs |-> NodeStep("stub", stubs[i], FALSE)] BY DEF StubSteps
<1> HIDE DEF ends, s, stubs
<1>4. ASSUME NEW i \in 1..m PROVE ends[i] \in Vertices(X)
  <2>1. (i + 1) \div 2 \in 1..Len(edges) BY <1>1
  <2>2. edges[(i + 1) \div 2] \in E BY <2>1
  <2>3. edges[(i + 1) \div 2].src \in Vertices(X) /\ edges[(i + 1) \div 2].tgt \in Vertices(X)
    BY <2>2 DEF EdgeWrites
  <2> QED BY <1>2, <2>3
<1>5. ends \in [1..m -> Vertices(X)] BY <1>2, <1>4
<1>6. ASSUME NEW k \in 1..Len(edges)
      PROVE  \E i, j \in 1..m : ends[i] = edges[k].src /\ ends[j] = edges[k].tgt
  <2>1. PICK i \in 1..m : i = 2 * k - 1 BY <1>1
  <2>2. PICK j \in 1..m : j = 2 * k BY <1>1
  <2>3. (i + 1) \div 2 = k /\ i % 2 = 1 BY <2>1
  <2>4. (j + 1) \div 2 = k /\ j % 2 # 1 BY <2>2
  <2> QED BY <1>2, <2>3, <2>4
<1>7. IsFiniteSet(I) /\ I \subseteq Int
  <2>1. IsFiniteSet(1..m) BY FS_Interval
  <2>2. I \subseteq 1..m BY <1>5
  <2> QED BY <2>1, <2>2, FS_Subset
<1>8. ASSUME NEW n, n \notin batched, \E i \in 1..m : ends[i] = n
      PROVE  \E i \in I : ends[i] = n
  <2> DEFINE T == {i \in 1..m : ends[i] = n}
  <2>1. T # {} /\ T \subseteq Nat BY <1>8
  <2>2. PICK i \in T : \A j \in T : i <= j BY <2>1, LeastNumber
  <2>3. \A j \in 1..(i - 1) : j \in 1..m /\ ~(i <= j) OBVIOUS
  <2>4. i \in I BY <1>5, <1>8, <2>2, <2>3
  <2> QED BY <2>2, <2>4
<1>9. PICK J : J = I OBVIOUS
<1>10. IsFiniteSet(J) /\ J \subseteq Int /\ stubs = Kept(ends, J) BY <1>7, <1>9 DEF stubs
<1> HIDE DEF I, batched
<1>11. PICK w : w = ends OBVIOUS
<1>12. PICK N : N = Cardinality(J) OBVIOUS
<1>13. N \in Nat /\ \E k \in [1..N -> J] :
        /\ stubs = [n \in 1..N |-> w[k[n]]]
        /\ \A i \in J : \E n \in 1..N : k[n] = i
  <2>1. PICK k \in [1..Cardinality(J) -> J] :
        /\ Kept(w, J) = [n \in 1..Cardinality(J) |-> w[k[n]]]
        /\ \A i \in J : \E n \in 1..Cardinality(J) : k[n] = i
        /\ \A a, b \in 1..Cardinality(J) : a < b => k[a] < k[b]
    BY <1>10, KeptInOrder
  <2>2. N \in Nat BY <1>10, <1>12, KeptInOrder
  <2> QED BY <1>10, <1>11, <1>12, <2>1, <2>2
<1>14. PICK k \in [1..N -> J] : /\ stubs = [n \in 1..N |-> ends[k[n]]]
                              /\ \A i \in J : \E n \in 1..N : k[n] = i
  BY <1>11, <1>13
<1>15. ASSUME NEW n \in 1..N
       PROVE  s[n] \in Calls(X) /\ s[n].op = "stub" /\ s[n].src = stubs[n]
  <2>1. DOMAIN stubs = 1..N /\ stubs[n] = ends[k[n]] BY <1>13, <1>14
  <2>2. k[n] \in 1..m BY <1>2, <1>5, <1>9 DEF I
  <2>3. PICK v \in Vertices(X) : v = stubs[n] BY <1>5, <2>1, <2>2
  <2>4. PICK o, b : o = "stub" /\ b = FALSE OBVIOUS
  <2>5. s[n] = NodeStep(o, v, b) BY <1>3, <2>1, <2>3, <2>4
  <2>6. o \in VertexOps /\ b \in BOOLEAN BY <2>4 DEF VertexOps
  <2> QED BY <2>3, <2>5, <2>6, <2>4, NodeStepIs
<1>16. s \in Seq(Calls(X)) /\ Len(s) = N
  <2>1. DOMAIN stubs = 1..N BY <1>13, <1>14
  <2>2. s = [n \in 1..N |-> s[n]] BY <1>3, <2>1
  <2>3. s \in [1..N -> Calls(X)] BY <1>15, <2>2
  <2>4. N \in Nat BY <1>13
  <2> QED BY <2>3, <2>4
<1>17. ASSUME NEW k2 \in 1..Len(edges), NEW n \in {edges[k2].src, edges[k2].tgt}
       PROVE  \/ \E i \in 1..Len(nodes) : nodes[i].node = n
              \/ \E i \in 1..Len(s) : s[i].src = n
  <2>1. CASE n \in batched BY <2>1 DEF batched
  <2>2. CASE n \notin batched
    <3>1. \E i \in 1..m : ends[i] = n BY <1>6
    <3>2. PICK i \in I : ends[i] = n BY <1>8, <2>2, <3>1
    <3>3. PICK l \in 1..N : k[l] = i BY <1>9, <1>14
    <3>4. s[l].src = n BY <1>15, <1>14, <3>2, <3>3
    <3> QED BY <1>16, <3>4
  <2> QED BY <2>1, <2>2
<1>18. \A i \in 1..Len(s) : s[i].op = "stub" BY <1>15, <1>16
<1>19. Stubbed(s, nodes, edges, X) BY <1>17, <1>16, <1>18 DEF Stubbed
<1> QED BY <1>19 DEF s

\* A batch that has a vertex: its calls in order, each vertex before the edges.
LEMMA FlushPlanned ==
    ASSUME NEW X, NEW E, E \subseteq EdgeWrites(X),
           NEW nodes \in Seq(NodeWrites(X)), nodes # <<>>, NEW edges \in Seq(E)
    PROVE  Planned(FlushSteps(nodes, edges), X, E)
<1> DEFINE written == [i \in DOMAIN nodes |-> NodeStep("upsert_node", nodes[i].node, nodes[i].sets)]
           stubs == StubSteps(nodes, edges)
           linked == [i \in DOMAIN edges |-> EdgeStep(edges[i])]
           copied == <<NodeStep("rdf", nodes[1].node, FALSE)>>
           first == written \o stubs
           most == first \o linked
           all == FlushSteps(nodes, edges)
<1>1. all = most \o copied BY DEF FlushSteps
<1>2. /\ written \in Seq(Calls(X)) /\ Len(written) = Len(nodes)
      /\ \A i \in 1..Len(written) : written[i].op = "upsert_node" /\ written[i].src = nodes[i].node
  <2>1. ASSUME NEW i \in 1..Len(nodes)
        PROVE  /\ written[i] \in Calls(X)
               /\ written[i].op = "upsert_node" /\ written[i].src = nodes[i].node
    <3>1. PICK v, b, o : v = nodes[i].node /\ b = nodes[i].sets /\ o = "upsert_node" OBVIOUS
    <3>2. nodes[i] \in NodeWrites(X) OBVIOUS
    <3>3. v \in Vertices(X) /\ b \in BOOLEAN BY <3>1, <3>2 DEF NodeWrites
    <3>4. o \in VertexOps BY <3>1 DEF VertexOps
    <3>5. written[i] = NodeStep(o, v, b) BY <3>1
    <3>6. /\ NodeStep(o, v, b) \in Calls(X)
          /\ NodeStep(o, v, b).op = o /\ NodeStep(o, v, b).src = v
      BY <3>3, <3>4, NodeStepIs
    <3> QED BY <3>1, <3>5, <3>6
  <2>2. DOMAIN written = 1..Len(nodes) OBVIOUS
  <2>3. written \in [1..Len(nodes) -> Calls(X)]
    <3>1. written = [i \in 1..Len(nodes) |-> written[i]] OBVIOUS
    <3> HIDE DEF written
    <3> QED BY <2>1, <3>1
  <2>4. Len(nodes) \in Nat OBVIOUS
  <2> HIDE DEF written
  <2>5. written \in Seq(Calls(X)) /\ Len(written) = Len(nodes) BY <2>2, <2>3, <2>4
  <2> QED BY <2>1, <2>5
<1>3. /\ linked \in Seq(Calls(X)) /\ Len(linked) = Len(edges)
      /\ \A i \in 1..Len(linked) :
            /\ linked[i].op = "upsert_edge"
            /\ linked[i].src = edges[i].src /\ linked[i].tgt = edges[i].tgt
            /\ [src |-> linked[i].src, rel |-> linked[i].rel, tgt |-> linked[i].tgt] \in E
  <2>1. ASSUME NEW i \in 1..Len(edges)
        PROVE  /\ linked[i] \in Calls(X) /\ linked[i].op = "upsert_edge"
               /\ linked[i].src = edges[i].src /\ linked[i].tgt = edges[i].tgt
               /\ [src |-> linked[i].src, rel |-> linked[i].rel, tgt |-> linked[i].tgt] \in E
    <3>1. PICK w \in E : w = edges[i] OBVIOUS
    <3>2. linked[i] = EdgeStep(w) BY <3>1
    <3>3. /\ EdgeStep(w) \in Calls(X) /\ EdgeStep(w).op = "upsert_edge"
          /\ EdgeStep(w).src = w.src /\ EdgeStep(w).tgt = w.tgt
          /\ [src |-> EdgeStep(w).src, rel |-> EdgeStep(w).rel, tgt |-> EdgeStep(w).tgt] = w
      BY EdgeStepIs
    <3> QED BY <3>1, <3>2, <3>3
  <2>2. DOMAIN linked = 1..Len(edges) OBVIOUS
  <2>3. linked \in [1..Len(edges) -> Calls(X)]
    <3>1. linked = [i \in 1..Len(edges) |-> linked[i]] OBVIOUS
    <3> HIDE DEF linked
    <3> QED BY <2>1, <3>1
  <2>4. Len(edges) \in Nat OBVIOUS
  <2> HIDE DEF linked
  <2>5. linked \in Seq(Calls(X)) /\ Len(linked) = Len(edges) BY <2>2, <2>3, <2>4
  <2> QED BY <2>1, <2>5
<1>4. copied \in Seq(Calls(X)) /\ Len(copied) = 1 /\ copied[1].op = "rdf"
  <2>1. PICK v, b, o : v = nodes[1].node /\ b = FALSE /\ o = "rdf" OBVIOUS
  <2>2. nodes[1] \in NodeWrites(X) OBVIOUS
  <2>3. v \in Vertices(X) /\ b \in BOOLEAN BY <2>1, <2>2 DEF NodeWrites
  <2>4. o \in VertexOps BY <2>1 DEF VertexOps
  <2>5. NodeStep(o, v, b) \in Calls(X) /\ NodeStep(o, v, b).op = o BY <2>3, <2>4, NodeStepIs
  <2>6. PICK s : s = NodeStep(o, v, b) OBVIOUS
  <2>7. copied = <<s>> BY <2>1, <2>6
  <2> HIDE DEF copied
  <2> QED BY <2>1, <2>5, <2>6, <2>7
<1>5. /\ stubs \in Seq(Calls(X))
      /\ \A i \in 1..Len(stubs) : stubs[i].op = "stub"
      /\ \A k \in 1..Len(edges) : \A n \in {edges[k].src, edges[k].tgt} :
            \/ \E i \in 1..Len(nodes) : nodes[i].node = n
            \/ \E i \in 1..Len(stubs) : stubs[i].src = n
  <2>1. PICK t : t = stubs OBVIOUS
  <2>2. Stubbed(t, nodes, edges, X) BY <2>1, StubsAre
  <2> QED BY <2>1, <2>2 DEF Stubbed
<1> HIDE DEF written, stubs, linked, copied
<1>6. first \in Seq(Calls(X)) /\ Joins(first, written, stubs) BY <1>2, <1>5, JoinedIs
<1>7. /\ first \in Seq(Calls(X)) /\ Len(first) = Len(written) + Len(stubs)
      /\ \A i \in 1..Len(written) : first[i] = written[i]
      /\ \A i \in 1..Len(stubs) : first[Len(written) + i] = stubs[i]
      /\ \A i \in 1..Len(first) : i \in 1..Len(written) \/ i - Len(written) \in 1..Len(stubs)
  BY <1>6 DEF Joins
<1>8. ASSUME NEW i \in 1..Len(first) PROVE first[i].op \in {"upsert_node", "stub"}
  <2>1. CASE i \in 1..Len(written) BY <1>2, <1>7, <2>1
  <2>2. CASE i - Len(written) \in 1..Len(stubs)
    <3>1. Len(written) \in Nat BY <1>2
    <3>2. i = Len(written) + (i - Len(written)) BY <3>1
    <3> QED BY <1>5, <1>7, <2>2, <3>2
  <2> QED BY <1>7, <2>1, <2>2
<1>9. ASSUME NEW k \in 1..Len(edges), NEW n \in {edges[k].src, edges[k].tgt}
      PROVE  \E j \in 1..Len(first) : first[j].src = n
  <2>1. Len(written) \in Nat /\ Len(stubs) \in Nat BY <1>2, <1>5
  <2>2. CASE \E i \in 1..Len(nodes) : nodes[i].node = n
    <3>1. PICK i \in 1..Len(written) : written[i].src = n BY <1>2, <2>2
    <3>2. i \in 1..Len(first) BY <1>7, <2>1
    <3> QED BY <1>7, <3>1, <3>2
  <2>3. CASE \E i \in 1..Len(stubs) : stubs[i].src = n
    <3>1. PICK i \in 1..Len(stubs) : stubs[i].src = n BY <2>3
    <3>2. PICK j : j = Len(written) + i OBVIOUS
    <3>3. j \in 1..(Len(written) + Len(stubs)) BY <2>1, <3>2
    <3>4. j \in 1..Len(first) BY <1>7, <3>3
    <3>5. first[j] = stubs[i] BY <1>7, <3>2
    <3> QED BY <3>1, <3>4, <3>5
  <2> QED BY <1>5, <2>2, <2>3
<1> HIDE DEF first
<1>10. most \in Seq(Calls(X)) /\ Joins(most, first, linked) BY <1>3, <1>7, JoinedIs
<1>11. /\ most \in Seq(Calls(X)) /\ Len(most) = Len(first) + Len(linked)
       /\ \A i \in 1..Len(first) : most[i] = first[i]
       /\ \A i \in 1..Len(linked) : most[Len(first) + i] = linked[i]
       /\ \A i \in 1..Len(most) : i \in 1..Len(first) \/ i - Len(first) \in 1..Len(linked)
  BY <1>10 DEF Joins
<1> HIDE DEF most
<1>12. all \in Seq(Calls(X)) /\ Joins(all, most, copied) BY <1>1, <1>4, <1>11, JoinedIs
<1>13. /\ all \in Seq(Calls(X)) /\ Len(all) = Len(most) + 1
       /\ \A i \in 1..Len(most) : all[i] = most[i]
       /\ \A i \in 1..Len(copied) : all[Len(most) + i] = copied[i]
       /\ \A i \in 1..Len(all) : i \in 1..Len(most) \/ i - Len(most) \in 1..Len(copied)
  BY <1>4, <1>12 DEF Joins
<1>14. ASSUME NEW i \in 1..Len(all), all[i].op = "upsert_edge"
       PROVE  /\ [src |-> all[i].src, rel |-> all[i].rel, tgt |-> all[i].tgt] \in E
              /\ \A n \in {all[i].src, all[i].tgt} : \E j \in 1..(i - 1) :
                    all[j].op \in {"upsert_node", "stub", "direct"} /\ all[j].src = n
  <2>1. Len(first) \in Nat /\ Len(linked) \in Nat /\ Len(most) \in Nat BY <1>3, <1>7, <1>11
  <2>2. i \in 1..Len(most)
    <3>1. CASE i - Len(most) \in 1..Len(copied)
      <4>1. i = Len(most) + 1 BY <1>4, <2>1, <3>1
      <4>2. all[i] = copied[1] BY <1>4, <1>13, <4>1
      <4> QED BY <1>4, <1>14, <4>2
    <3> QED BY <1>13, <3>1
  <2>3. all[i] = most[i] BY <1>13, <2>2
  <2>4. i \notin 1..Len(first)
    <3>1. SUFFICES ASSUME i \in 1..Len(first) PROVE FALSE OBVIOUS
    <3>2. all[i] = first[i] BY <1>11, <2>3, <3>1
    <3> QED BY <1>8, <1>14, <3>1, <3>2
  <2>5. PICK k \in 1..Len(linked) : i = Len(first) + k
    <3>1. PICK k : k = i - Len(first) OBVIOUS
    <3>2. k \in 1..Len(linked) BY <1>11, <2>2, <2>4, <3>1
    <3>3. i = Len(first) + k BY <2>1, <3>1
    <3> QED BY <3>2, <3>3
  <2>6. all[i] = linked[k] BY <1>11, <2>3, <2>5
  <2>7. k \in 1..Len(edges) BY <1>3
  <2>8. [src |-> all[i].src, rel |-> all[i].rel, tgt |-> all[i].tgt] \in E BY <1>3, <2>6
  <2>9. all[i].src = edges[k].src /\ all[i].tgt = edges[k].tgt BY <1>3, <2>6
  <2>10. ASSUME NEW n \in {all[i].src, all[i].tgt}
        PROVE  \E j \in 1..(i - 1) :
                  all[j].op \in {"upsert_node", "stub", "direct"} /\ all[j].src = n
    <3>1. n \in {edges[k].src, edges[k].tgt} BY <2>9
    <3>2. PICK j \in 1..Len(first) : first[j].src = n BY <1>9, <2>7, <3>1
    <3>3. j \in 1..(i - 1) /\ j \in 1..Len(most) BY <1>11, <2>1, <2>5
    <3>4. all[j] = first[j] BY <1>11, <1>13, <3>3
    <3>5. all[j].op \in {"upsert_node", "stub"} BY <1>8, <3>4
    <3> QED BY <3>2, <3>3, <3>4, <3>5
  <2> QED BY <2>8, <2>10
<1> HIDE DEF all
<1>15. Planned(all, X, E) BY <1>13, <1>14 DEF Planned
<1> QED BY <1>15 DEF all

\* A handler that writes nothing, and one call about one vertex.
LEMMA NothingPlanned ==
    ASSUME NEW X, NEW E
    PROVE  Planned(<<>>, X, E)
BY DEF Planned

LEMMA DirectPlanned ==
    ASSUME NEW X, NEW E, NEW label \in Labels, NEW id \in X
    PROVE  /\ Planned(UpsertNodeStep(label, id), X, E)
           /\ Planned(UpdateNodeStep(label, id), X, E)
<1>1. <<label, id>> \in Vertices(X) BY DEF Vertices
<1>2. ASSUME NEW op, op \in VertexOps PROVE Planned(<<NodeStep(op, <<label, id>>, TRUE)>>, X, E)
  <2>1. PICK n \in Vertices(X) : n = <<label, id>> BY <1>1
  <2>2. PICK b \in BOOLEAN : b = TRUE OBVIOUS
  <2>3. PICK s : s = NodeStep(op, n, b) OBVIOUS
  <2>4. s \in Calls(X) /\ s.op = op BY <1>2, <2>3, NodeStepIs
  <2>5. s.op # "upsert_edge" BY <1>2, <2>4 DEF VertexOps
  <2>6. PICK q : q = <<s>> OBVIOUS
  <2>7. q \in Seq(Calls(X)) /\ Len(q) = 1 /\ q[1] = s BY <2>4, <2>6
  <2>8. Planned(q, X, E) BY <2>5, <2>7 DEF Planned
  <2> QED BY <2>1, <2>2, <2>3, <2>6, <2>8
<1>3. "direct" \in VertexOps /\ "update" \in VertexOps BY DEF VertexOps
<1> QED BY <1>2, <1>3 DEF UpsertNodeStep, UpdateNodeStep

-----------------------------------------------------------------------------
(* What a handler puts in its batch *)

Batches(X) == {s \in Seq(NodeWrites(X)) : s # <<>>}

LEMMA LabelsKnown ==
    /\ "BillOfMaterials" \in Labels /\ "ChangeNotice" \in Labels
    /\ "ChangeRequest" \in Labels /\ "DigitalTwin" \in Labels
    /\ "EngineeringChangeOrder" \in Labels /\ "Equipment" \in Labels
    /\ "FleetAnomaly" \in Labels /\ "GoodsReceipt" \in Labels
    /\ "JobOrder" \in Labels /\ "JobResponse" \in Labels
    /\ "MaterialDefinition" \in Labels /\ "MaterialLot" \in Labels
    /\ "MaterialSublot" \in Labels /\ "Milestone" \in Labels
    /\ "OperationsPerformance" \in Labels /\ "Person" \in Labels
    /\ "ProcessSegment" \in Labels /\ "ProductDefinitionDocument" \in Labels
    /\ "PurchaseOrder" \in Labels /\ "PurchaseRequisition" \in Labels
    /\ "Supplier" \in Labels /\ "SupplierInvoice" \in Labels
    /\ "WorkCenter" \in Labels
BY DEF Labels

LEMMA RelsKnown ==
    /\ "affectsMaterial" \in PlainRels /\ "appliesTo" \in PlainRels
    /\ "assignedTo" \in PlainRels /\ "attributedTo" \in PlainRels
    /\ "billOf" \in PlainRels /\ "certifies" \in PlainRels
    /\ "changedBy" \in PlainRels /\ "completedBy" \in PlainRels
    /\ "consumedBy" \in PlainRels /\ "definesMaterial" \in PlainRels
    /\ "effectiveOn" \in PlainRels /\ "equipmentActual" \in PlainRels
    /\ "executedDuring" \in PlainRels /\ "executedSegment" \in PlainRels
    /\ "hasDocument" \in PlainRels /\ "includesComponent" \in PlainRels
    /\ "instantiatedAs" \in PlainRels /\ "invoicedBy" \in PlainRels
    /\ "locatedIn" \in PlainRels /\ "madeFrom" \in PlainRels
    /\ "observedOn" \in PlainRels /\ "orderedFrom" \in PlainRels
    /\ "ordersMaterial" \in PlainRels /\ "originatesFrom" \in PlainRels
    /\ "produces" \in PlainRels /\ "producesMaterial" \in PlainRels
    /\ "receivedMaterial" \in PlainRels /\ "releases" \in PlainRels
    /\ "requestsChangeTo" \in PlainRels /\ "signedBy" \in PlainRels
    /\ "suppliedBy" \in PlainRels /\ "testsAppliedTo" \in PlainRels
    /\ "trackedBy" \in PlainRels
BY DEF PlainRels

LEMMA EdgesKnown ==
    ASSUME NEW X, NEW e
    PROVE  EdgesOf(e, X) \subseteq EdgeWrites(X)
BY DEF EdgesOf

LEMMA MoreOfSame ==
    ASSUME NEW S, NEW u \in Seq(S), NEW v \in Seq(S)
    PROVE  u \o v \in Seq(S)
OBVIOUS

LEMMA FunctionIsSeq ==
    ASSUME NEW S, NEW n \in Nat, NEW f \in [1..n -> S]
    PROVE  f \in Seq(S)
OBVIOUS

LEMMA MoreVertices ==
    ASSUME NEW X, NEW u \in Batches(X), NEW v \in Seq(NodeWrites(X))
    PROVE  u \o v \in Batches(X)
<1>1. u \in Seq(NodeWrites(X)) /\ u # <<>> BY DEF Batches
<1>2. u \o v \in Seq(NodeWrites(X)) /\ u \o v # <<>> BY <1>1
<1> QED BY <1>2 DEF Batches

LEMMA FirstVertex ==
    ASSUME NEW X, NEW label \in Labels, NEW id \in X, NEW sets \in BOOLEAN
    PROVE  <<NodeWrite(label, id, sets)>> \in Batches(X)
<1>1. NodeWrite(label, id, sets) \in NodeWrites(X) BY DEF NodeWrite, NodeWrites, Vertices
<1>2. PICK w \in NodeWrites(X) : w = NodeWrite(label, id, sets) BY <1>1
<1>3. <<w>> \in Seq(NodeWrites(X)) /\ <<w>> # <<>> OBVIOUS
<1> QED BY <1>2, <1>3 DEF Batches

LEMMA WhenIs ==
    ASSUME NEW S, NEW cond, NEW s, cond => s \in Seq(S)
    PROVE  When(cond, s) \in Seq(S)
BY DEF When

LEMMA IdOrIs ==
    ASSUME NEW X, NEW e, IsEvent(e, X), NEW f, NEW default \in X
    PROVE  IdOr(e, f, default) \in X
BY DEF IdOr, Has, IsEvent

LEMMA RefNodeIs ==
    ASSUME NEW X, NEW e, IsEvent(e, X), NEW f, NEW label \in Labels
    PROVE  RefNode(e, f, label) \in Seq(NodeWrites(X))
<1>1. CASE Has(e, f)
  <2>1. e.ids[f] \in X BY <1>1 DEF Has, IsEvent
  <2>2. PICK b \in BOOLEAN : b = FALSE OBVIOUS
  <2>3. <<NodeWrite(label, e.ids[f], b)>> \in Batches(X) BY <2>1, FirstVertex
  <2> QED BY <1>1, <2>2, <2>3 DEF RefNode, When, Batches
<1>2. CASE ~Has(e, f) BY <1>2 DEF RefNode, When
<1> QED BY <1>1, <1>2

LEMMA PlainEdge ==
    ASSUME NEW X, NEW e, NEW src \in Vertices(X), NEW rel \in PlainRels, NEW tgt \in Vertices(X)
    PROVE  <<EdgeWrite(src, rel, tgt)>> \in Seq(EdgesOf(e, X))
<1>1. rel # "requestsSegment" /\ rel # "requestsExecution" /\ rel \in Rels
  BY DEF PlainRels, Rels
<1>2. PICK w : w = EdgeWrite(src, rel, tgt) OBVIOUS
<1>3. w \in EdgeWrites(X) /\ w.rel = rel BY <1>1, <1>2 DEF EdgeWrite, EdgeWrites
<1>4. w \in EdgesOf(e, X) BY <1>1, <1>3 DEF EdgesOf
<1> QED BY <1>2, <1>4

LEMMA RefEdgeIs ==
    ASSUME NEW X, NEW e, IsEvent(e, X), NEW f, NEW label \in Labels,
           NEW src \in Vertices(X), NEW rel \in PlainRels
    PROVE  RefEdge(e, f, label, src, rel) \in Seq(EdgesOf(e, X))
<1>1. CASE Has(e, f)
  <2>1. PICK tgt : tgt = <<label, e.ids[f]>> OBVIOUS
  <2>2. tgt \in Vertices(X) BY <1>1, <2>1 DEF Has, IsEvent, Vertices
  <2>3. <<EdgeWrite(src, rel, tgt)>> \in Seq(EdgesOf(e, X)) BY <2>2, PlainEdge
  <2> QED BY <1>1, <2>1, <2>3 DEF RefEdge, When
<1>2. CASE ~Has(e, f) BY <1>2 DEF RefEdge, When
<1> QED BY <1>1, <1>2

LEMMA MesWoIs ==
    ASSUME NEW X, NEW e, IsEvent(e, X)
    PROVE  MesWo(e) \in X /\ ObjectId(e) \in X /\ e.entity \in X
<1>1. PICK d \in X : d = e.entity BY DEF IsEvent
<1>2. PICK f, g : f = "workOrderId" /\ g = "object" OBVIOUS
<1>3. IdOr(e, f, d) \in X /\ IdOr(e, g, d) \in X BY IdOrIs
<1> QED BY <1>1, <1>2, <1>3 DEF MesWo, ObjectId

LEMMA BatchPlanned ==
    ASSUME NEW X, NEW e, NEW nodes \in Batches(X), NEW edges \in Seq(EdgesOf(e, X))
    PROVE  Planned(FlushSteps(nodes, edges), X, EdgesOf(e, X))
<1>1. PICK E : E = EdgesOf(e, X) OBVIOUS
<1>2. E \subseteq EdgeWrites(X) BY <1>1, EdgesKnown
<1>3. nodes \in Seq(NodeWrites(X)) /\ nodes # <<>> BY DEF Batches
<1>4. edges \in Seq(E) BY <1>1
<1> QED BY <1>1, <1>2, <1>3, <1>4, FlushPlanned

-----------------------------------------------------------------------------
(* MES *)

LEMMA SegmentIs ==
    ASSUME NEW X, NEW e, IsEvent(e, X), HasSegment(e)
    PROVE  Segment(e) \in Vertices(X)
BY LabelsKnown DEF Segment, HasSegment, Has, IsEvent, Vertices

LEMMA WoReleasedPlanned ==
    ASSUME NEW X, NEW e, IsEvent(e, X), IsRelease(e)
    PROVE  Planned(WoReleased(e), X, EdgesOf(e, X))
<1> DEFINE order == <<"JobOrder", MesWo(e)>>
           own == <<NodeWrite("JobOrder", MesWo(e), TRUE)>>
           n1 == RefNode(e, "assignedOperator", "Person")
           n2 == RefNode(e, "partNumber", "MaterialDefinition")
           n3 == RefNode(e, "serialNumber", "MaterialSublot")
           e1 == RefEdge(e, "assignedOperator", "Person", order, "assignedTo")
           e2 == RefEdge(e, "partNumber", "MaterialDefinition", order, "producesMaterial")
           e3 == RefEdge(e, "serialNumber", "MaterialSublot", order, "produces")
           step == EdgeWrite(order, "requestsSegment", Segment(e))
           e4 == When(HasSegment(e), <<step>>)
<1>1. own \in Batches(X) BY FirstVertex, LabelsKnown, MesWoIs
<1>2. /\ n1 \in Seq(NodeWrites(X)) /\ n2 \in Seq(NodeWrites(X))
      /\ n3 \in Seq(NodeWrites(X))
  BY RefNodeIs, LabelsKnown
<1>3. order \in Vertices(X) BY LabelsKnown, MesWoIs DEF Vertices
<1> HIDE DEF order
<1>4. /\ e1 \in Seq(EdgesOf(e, X)) /\ e2 \in Seq(EdgesOf(e, X))
      /\ e3 \in Seq(EdgesOf(e, X))
  BY <1>3, RefEdgeIs, LabelsKnown, RelsKnown
<1>5. e4 \in Seq(EdgesOf(e, X))
  <2>1. SUFFICES ASSUME HasSegment(e) PROVE <<step>> \in Seq(EdgesOf(e, X)) BY WhenIs
  <2>2. Segment(e) \in Vertices(X) BY <2>1, SegmentIs
  <2>3. PICK w : w = step OBVIOUS
  <2>4. w \in EdgeWrites(X) /\ w.rel = "requestsSegment" /\ w.src = order
    BY <1>3, <2>2, <2>3 DEF EdgeWrite, EdgeWrites, Rels
  <2>5. w \in EdgesOf(e, X) BY <2>4 DEF EdgesOf, order
  <2> QED BY <2>3, <2>5
<1>6. WoReleased(e) = FlushSteps(own \o n1 \o n2 \o n3, e1 \o e2 \o e3 \o e4)
  BY DEF WoReleased, order
<1> HIDE DEF own, n1, n2, n3, e1, e2, e3, e4
<1>7. own \o n1 \o n2 \o n3 \in Batches(X) BY <1>1, <1>2, MoreVertices
<1>8. e1 \o e2 \o e3 \o e4 \in Seq(EdgesOf(e, X)) BY <1>4, <1>5, MoreOfSame
<1> QED BY <1>6, <1>7, <1>8, BatchPlanned

LEMMA LocatedInIs ==
    ASSUME NEW X, NEW e, IsEvent(e, X), NEW machine \in X, NEW cell
    PROVE  LocatedIn(e, machine, cell) \in Seq(EdgesOf(e, X))
<1>1. SUFFICES ASSUME Has(e, cell)
               PROVE  <<EdgeWrite(<<"Equipment", machine>>, "locatedIn",
                                  <<"WorkCenter", e.ids[cell]>>)>> \in Seq(EdgesOf(e, X))
  BY WhenIs DEF LocatedIn
<1>2. PICK src, tgt : src = <<"Equipment", machine>> /\ tgt = <<"WorkCenter", e.ids[cell]>>
  OBVIOUS
<1>3. src \in Vertices(X) /\ tgt \in Vertices(X)
  BY <1>1, <1>2, LabelsKnown DEF Has, IsEvent, Vertices
<1> QED BY <1>2, <1>3, PlainEdge, RelsKnown

LEMMA ResponseNodesAre ==
    ASSUME NEW X, NEW e, IsEvent(e, X)
    PROVE  ResponseNodes(e) \in Seq(NodeWrites(X))
<1> DEFINE n1 == RefNode(e, "partNumber", "MaterialDefinition")
           n2 == RefNode(e, "serialNumber", "MaterialSublot")
           n3 == RefNode(e, "cell", "Equipment")
<1>1. /\ n1 \in Seq(NodeWrites(X)) /\ n2 \in Seq(NodeWrites(X))
      /\ n3 \in Seq(NodeWrites(X))
  BY RefNodeIs, LabelsKnown
<1>2. ResponseNodes(e) = n1 \o n2 \o n3 BY DEF ResponseNodes
<1> HIDE DEF n1, n2, n3
<1> QED BY <1>1, <1>2, MoreOfSame

LEMMA ResponseEdgesAre ==
    ASSUME NEW X, NEW e, IsEvent(e, X), NEW resp \in Vertices(X)
    PROVE  ResponseEdges(e, resp) \in Seq(EdgesOf(e, X))
<1> DEFINE e1 == RefEdge(e, "partNumber", "MaterialDefinition", resp, "producesMaterial")
           e2 == RefEdge(e, "serialNumber", "MaterialSublot", resp, "produces")
           e3 == RefEdge(e, "cell", "Equipment", resp, "equipmentActual")
           e4 == When(Has(e, "cell"), LocatedIn(e, e.ids["cell"], "cell"))
<1>1. /\ e1 \in Seq(EdgesOf(e, X)) /\ e2 \in Seq(EdgesOf(e, X))
      /\ e3 \in Seq(EdgesOf(e, X))
  BY RefEdgeIs, LabelsKnown, RelsKnown
<1>2. Has(e, "cell") => e.ids["cell"] \in X BY DEF Has, IsEvent
<1>3. e4 \in Seq(EdgesOf(e, X)) BY <1>2, WhenIs, LocatedInIs
<1>4. ResponseEdges(e, resp) = e1 \o e2 \o e3 \o e4 BY DEF ResponseEdges
<1> HIDE DEF e1, e2, e3, e4
<1> QED BY <1>1, <1>3, <1>4, MoreOfSame

LEMMA WoStartedPlanned ==
    ASSUME NEW X, NEW e, IsEvent(e, X), IsStart(e)
    PROVE  Planned(WoStarted(e), X, EdgesOf(e, X))
<1> DEFINE resp == <<"JobResponse", MesWo(e)>>
           order == <<"JobOrder", MesWo(e)>>
           n1 == NodeWrite("JobResponse", MesWo(e), TRUE)
           n2 == NodeWrite("JobOrder", MesWo(e), FALSE)
           own == <<n1, n2>>
           n3 == RefNode(e, "assignedOperator", "Person")
           n4 == ResponseNodes(e)
           start == EdgeWrite(order, "requestsExecution", resp)
           e1 == <<start>>
           e2 == RefEdge(e, "assignedOperator", "Person", resp, "assignedTo")
           e3 == ResponseEdges(e, resp)
<1>1. n1 \in NodeWrites(X) /\ n2 \in NodeWrites(X)
  BY LabelsKnown, MesWoIs DEF NodeWrite, NodeWrites, Vertices
<1>2. own \in Batches(X)
  <2> HIDE DEF n1, n2
  <2> QED BY <1>1 DEF Batches
<1>3. n3 \in Seq(NodeWrites(X)) /\ n4 \in Seq(NodeWrites(X))
  BY RefNodeIs, LabelsKnown, ResponseNodesAre
<1>4. order \in Vertices(X) /\ resp \in Vertices(X) BY LabelsKnown, MesWoIs DEF Vertices
<1>5. e1 \in Seq(EdgesOf(e, X))
  <2> HIDE DEF order, resp
  <2>1. start \in EdgeWrites(X) /\ start.rel = "requestsExecution" /\ start.src = order
    BY <1>4 DEF EdgeWrite, EdgeWrites, Rels
  <2> HIDE DEF start
  <2>2. start \in EdgesOf(e, X) BY <2>1 DEF EdgesOf, order
  <2> QED BY <2>2
<1> HIDE DEF order, resp
<1>6. e2 \in Seq(EdgesOf(e, X)) /\ e3 \in Seq(EdgesOf(e, X))
  BY <1>4, RefEdgeIs, LabelsKnown, RelsKnown, ResponseEdgesAre
<1>7. WoStarted(e) = FlushSteps(own \o n3 \o n4, e1 \o e2 \o e3)
  BY DEF WoStarted, order, resp
<1> HIDE DEF own, n3, n4, e1, e2, e3
<1>8. own \o n3 \o n4 \in Batches(X) BY <1>2, <1>3, MoreVertices
<1>9. e1 \o e2 \o e3 \in Seq(EdgesOf(e, X)) BY <1>5, <1>6, MoreOfSame
<1> QED BY <1>7, <1>8, <1>9, BatchPlanned

LEMMA OpCompletedPlanned ==
    ASSUME NEW X, NEW e, IsEvent(e, X)
    PROVE  Planned(OpCompleted(e), X, EdgesOf(e, X))
<1> DEFINE resp == <<"JobResponse", MesWo(e)>>
           own == <<NodeWrite("JobResponse", MesWo(e), TRUE)>>
           n1 == ResponseNodes(e)
           e1 == ResponseEdges(e, resp)
           e2 == When(HasSegment(e), <<EdgeWrite(resp, "executedSegment", Segment(e))>>)
<1>1. own \in Batches(X) BY FirstVertex, LabelsKnown, MesWoIs
<1>2. n1 \in Seq(NodeWrites(X)) BY ResponseNodesAre
<1>3. resp \in Vertices(X) BY LabelsKnown, MesWoIs DEF Vertices
<1> HIDE DEF resp
<1>4. e1 \in Seq(EdgesOf(e, X)) BY <1>3, ResponseEdgesAre
<1>5. e2 \in Seq(EdgesOf(e, X))
  BY <1>3, WhenIs, SegmentIs, PlainEdge, RelsKnown
<1>6. OpCompleted(e) = FlushSteps(own \o n1, e1 \o e2) BY DEF OpCompleted, resp
<1> HIDE DEF own, n1, e1, e2
<1> QED BY <1>1, <1>2, <1>4, <1>5, <1>6, MoreVertices, MoreOfSame, BatchPlanned

LEMMA MesPlanned ==
    ASSUME NEW X, NEW e, IsEvent(e, X), e.domain = "mes"
    PROVE  Planned(MesPlan(e), X, EdgesOf(e, X))
<1>1. CASE e.type = "WORK_ORDER_RELEASED"
  <2>1. MesPlan(e) = WoReleased(e) BY <1>1 DEF MesPlan
  <2>2. IsRelease(e) BY <1>1 DEF IsRelease
  <2> QED BY <2>1, <2>2, WoReleasedPlanned
<1>2. CASE e.type \in {"WORK_ORDER_STARTED", "WO_STARTED"}
  <2>1. MesPlan(e) = WoStarted(e) BY <1>2 DEF MesPlan
  <2>2. IsStart(e) BY <1>2 DEF IsStart
  <2> QED BY <2>1, <2>2, WoStartedPlanned
<1>3. CASE e.type \in {"OPERATION_COMPLETED", "WORK_ORDER_COMPLETED", "WO_COMPLETED"}
  <2>1. MesPlan(e) = OpCompleted(e) BY <1>3 DEF MesPlan
  <2> QED BY <2>1, OpCompletedPlanned
<1>4. CASE e.type \in {"HOLD_PLACED", "HOLD_RELEASED", "WO_HOLD"}
  <2>1. MesPlan(e) = UpdateNodeStep("JobResponse", MesWo(e)) BY <1>4 DEF MesPlan, HoldPlaced
  <2> QED BY <2>1, MesWoIs, LabelsKnown, DirectPlanned
<1>5. CASE e.type \notin {"WORK_ORDER_RELEASED", "WORK_ORDER_STARTED", "WO_STARTED",
                          "OPERATION_COMPLETED", "WORK_ORDER_COMPLETED", "WO_COMPLETED",
                          "HOLD_PLACED", "HOLD_RELEASED", "WO_HOLD"}
  <2>1. MesPlan(e) = <<>> BY <1>5 DEF MesPlan
  <2> QED BY <2>1, NothingPlanned
<1> QED BY <1>1, <1>2, <1>3, <1>4, <1>5

-----------------------------------------------------------------------------
(* QMS and PLM *)

LEMMA QmsPlanned ==
    ASSUME NEW X, NEW e, IsEvent(e, X)
    PROVE  Planned(QmsPlan(e), X, EdgesOf(e, X))
<1> DEFINE ncr == <<"OperationsPerformance", e.entity>>
           serial == IdOr(e, "serialNumber", "SN-0047")
           sn == <<"MaterialSublot", serial>>
           lot == <<"MaterialLot", e.ids["lotNumber"]>>
           w1 == NodeWrite("OperationsPerformance", e.entity, TRUE)
           w2 == NodeWrite("MaterialSublot", sn[2], FALSE)
           own == <<w1, w2>>
           n1 == RefNode(e, "partNumber", "MaterialDefinition")
           n2 == RefNode(e, "supplierId", "Supplier")
           n3 == RefNode(e, "lotNumber", "MaterialLot")
           e1 == <<EdgeWrite(ncr, "appliesTo", sn)>>
           e2 == RefEdge(e, "partNumber", "MaterialDefinition", ncr, "affectsMaterial")
           e3 == RefEdge(e, "supplierId", "Supplier", ncr, "attributedTo")
           e4 == RefEdge(e, "lotNumber", "MaterialLot", sn, "madeFrom")
           ofLot == RefEdge(e, "supplierId", "Supplier", lot, "suppliedBy")
                      \o RefEdge(e, "partNumber", "MaterialDefinition", lot, "definesMaterial")
           e5 == When(Has(e, "lotNumber"), ofLot)
<1>1. serial \in X
  <2>1. PICK d \in X : d = "SN-0047" BY DEF IsEvent, HandlerIds
  <2> QED BY <2>1, IdOrIs
<1>2. ncr \in Vertices(X) /\ sn \in Vertices(X) /\ sn[2] = serial
  <2> HIDE DEF serial
  <2> QED BY <1>1, LabelsKnown, MesWoIs DEF Vertices
<1>3. own \in Batches(X)
  <2>1. w1 \in NodeWrites(X) /\ w2 \in NodeWrites(X)
    <3> HIDE DEF serial
    <3> QED BY <1>1, LabelsKnown, MesWoIs DEF NodeWrite, NodeWrites, Vertices
  <2> HIDE DEF w1, w2
  <2> QED BY <2>1 DEF Batches
<1>4. /\ n1 \in Seq(NodeWrites(X)) /\ n2 \in Seq(NodeWrites(X))
      /\ n3 \in Seq(NodeWrites(X))
  BY RefNodeIs, LabelsKnown
<1>5. QmsPlan(e) = IF e.type = "NON_CONFORMANCE_RAISED"
                     THEN FlushSteps(own \o n1 \o n2 \o n3, e1 \o e2 \o e3 \o e4 \o e5)
                     ELSE <<>>
  BY DEF QmsPlan, NcrRaised
<1> HIDE DEF ncr, sn
<1>6. /\ e1 \in Seq(EdgesOf(e, X)) /\ e2 \in Seq(EdgesOf(e, X))
      /\ e3 \in Seq(EdgesOf(e, X)) /\ e4 \in Seq(EdgesOf(e, X))
  BY <1>2, PlainEdge, RefEdgeIs, LabelsKnown, RelsKnown
<1>7. e5 \in Seq(EdgesOf(e, X))
  <2>1. SUFFICES ASSUME Has(e, "lotNumber") PROVE ofLot \in Seq(EdgesOf(e, X)) BY WhenIs
  <2>2. lot \in Vertices(X) BY <2>1, LabelsKnown DEF Has, IsEvent, Vertices
  <2> HIDE DEF lot
  <2> QED BY <2>2, RefEdgeIs, LabelsKnown, RelsKnown, MoreOfSame
<1> HIDE DEF own, n1, n2, n3, e1, e2, e3, e4, e5
<1>8. own \o n1 \o n2 \o n3 \in Batches(X) BY <1>3, <1>4, MoreVertices
<1>9. e1 \o e2 \o e3 \o e4 \o e5 \in Seq(EdgesOf(e, X)) BY <1>6, <1>7, MoreOfSame
<1> QED BY <1>5, <1>8, <1>9, BatchPlanned, NothingPlanned

LEMMA LinkedPlanned ==
    ASSUME NEW X, NEW e, IsEvent(e, X), NEW label \in Labels,
           NEW nodes \in Seq(NodeWrites(X)), NEW edges \in Seq(EdgesOf(e, X))
    PROVE  Planned(PlmLinked(e, label, nodes, edges), X, EdgesOf(e, X))
<1> DEFINE own == <<NodeWrite(label, ObjectId(e), TRUE)>>
<1>1. own \in Batches(X) BY FirstVertex, MesWoIs
<1>2. PlmLinked(e, label, nodes, edges) = FlushSteps(own \o nodes, edges) BY DEF PlmLinked
<1> HIDE DEF own
<1> QED BY <1>1, <1>2, MoreVertices, BatchPlanned

LEMMA ObjectIs ==
    ASSUME NEW X, NEW e, IsEvent(e, X), NEW label \in Labels
    PROVE  <<label, ObjectId(e)>> \in Vertices(X)
BY MesWoIs DEF Vertices

LEMMA FromPartIs ==
    ASSUME NEW X, NEW e, IsEvent(e, X), NEW label \in Labels, NEW rel \in PlainRels
    PROVE  FromPart(e, label, rel) \in Seq(EdgesOf(e, X))
<1> DEFINE part == <<"MaterialDefinition", e.ids["partNumber"]>>
           object == <<label, ObjectId(e)>>
<1>1. Has(e, "partNumber") => part \in Vertices(X)
  BY LabelsKnown DEF Has, IsEvent, Vertices
<1>2. object \in Vertices(X) BY ObjectIs
<1>3. FromPart(e, label, rel) = When(Has(e, "partNumber"), <<EdgeWrite(part, rel, object)>>)
  BY DEF FromPart
<1> HIDE DEF part, object
<1> QED BY <1>1, <1>2, <1>3, WhenIs, PlainEdge

LEMMA DocumentsPlanned ==
    ASSUME NEW X, NEW e, IsEvent(e, X)
    PROVE  /\ Planned(DrawingEvent(e), X, EdgesOf(e, X))
           /\ Planned(ChangeRequestEvent(e), X, EdgesOf(e, X))
           /\ Planned(EcoEvent(e), X, EdgesOf(e, X))
           /\ Planned(ChangeNoticeEvent(e), X, EdgesOf(e, X))
           /\ Planned(BomRevised(e), X, EdgesOf(e, X))
<1> DEFINE part == RefNode(e, "partNumber", "MaterialDefinition")
<1>1. part \in Seq(NodeWrites(X)) BY RefNodeIs, LabelsKnown
<1>2. Planned(DrawingEvent(e), X, EdgesOf(e, X))
  <2> DEFINE label == "ProductDefinitionDocument"
             edges == FromPart(e, label, "hasDocument")
  <2>1. edges \in Seq(EdgesOf(e, X)) BY FromPartIs, LabelsKnown, RelsKnown
  <2>2. DrawingEvent(e) = PlmLinked(e, label, part, edges) BY DEF DrawingEvent
  <2> HIDE DEF part, edges
  <2> QED BY <1>1, <2>1, <2>2, LabelsKnown, LinkedPlanned
<1>3. Planned(ChangeRequestEvent(e), X, EdgesOf(e, X))
  <2> DEFINE ecr == <<"ChangeRequest", ObjectId(e)>>
             edges == RefEdge(e, "partNumber", "MaterialDefinition", ecr, "requestsChangeTo")
  <2>1. ecr \in Vertices(X) BY ObjectIs, LabelsKnown
  <2>2. ChangeRequestEvent(e) = PlmLinked(e, "ChangeRequest", part, edges)
    BY DEF ChangeRequestEvent
  <2> HIDE DEF ecr
  <2>3. edges \in Seq(EdgesOf(e, X)) BY <2>1, RefEdgeIs, LabelsKnown, RelsKnown
  <2> HIDE DEF part, edges
  <2> QED BY <1>1, <2>2, <2>3, LabelsKnown, LinkedPlanned
<1>4. Planned(EcoEvent(e), X, EdgesOf(e, X))
  <2> DEFINE label == "EngineeringChangeOrder"
             eco == <<label, ObjectId(e)>>
             n2 == RefNode(e, "ecrId", "ChangeRequest")
             e1 == FromPart(e, label, "changedBy")
             e2 == RefEdge(e, "ecrId", "ChangeRequest", eco, "originatesFrom")
  <2>1. eco \in Vertices(X) BY ObjectIs, LabelsKnown
  <2>2. n2 \in Seq(NodeWrites(X)) BY RefNodeIs, LabelsKnown
  <2>3. EcoEvent(e) = PlmLinked(e, label, part \o n2, e1 \o e2) BY DEF EcoEvent
  <2> HIDE DEF eco
  <2>4. e1 \in Seq(EdgesOf(e, X)) /\ e2 \in Seq(EdgesOf(e, X))
    BY <2>1, FromPartIs, RefEdgeIs, LabelsKnown, RelsKnown
  <2> HIDE DEF part, n2, e1, e2
  <2>5. part \o n2 \in Seq(NodeWrites(X)) /\ e1 \o e2 \in Seq(EdgesOf(e, X))
    BY <1>1, <2>2, <2>4, MoreOfSame
  <2> QED BY <2>3, <2>5, LabelsKnown, LinkedPlanned
<1>5. Planned(ChangeNoticeEvent(e), X, EdgesOf(e, X))
  <2> DEFINE ecn == <<"ChangeNotice", ObjectId(e)>>
             n1 == RefNode(e, "ecoId", "EngineeringChangeOrder")
             e1 == RefEdge(e, "ecoId", "EngineeringChangeOrder", ecn, "releases")
             e2 == RefEdge(e, "partNumber", "MaterialDefinition", ecn, "effectiveOn")
  <2>1. ecn \in Vertices(X) BY ObjectIs, LabelsKnown
  <2>2. n1 \in Seq(NodeWrites(X)) BY RefNodeIs, LabelsKnown
  <2>3. ChangeNoticeEvent(e) = PlmLinked(e, "ChangeNotice", n1 \o part, e1 \o e2)
    BY DEF ChangeNoticeEvent
  <2> HIDE DEF ecn
  <2>4. e1 \in Seq(EdgesOf(e, X)) /\ e2 \in Seq(EdgesOf(e, X))
    BY <2>1, RefEdgeIs, LabelsKnown, RelsKnown
  <2> HIDE DEF part, n1, e1, e2
  <2>5. n1 \o part \in Seq(NodeWrites(X)) /\ e1 \o e2 \in Seq(EdgesOf(e, X))
    BY <1>1, <2>2, <2>4, MoreOfSame
  <2> QED BY <2>3, <2>5, LabelsKnown, LinkedPlanned
<1>6. Planned(BomRevised(e), X, EdgesOf(e, X))
  <2> DEFINE bom == <<"BillOfMaterials", ObjectId(e)>>
             n2 == RefNode(e, "component", "MaterialDefinition")
             e1 == RefEdge(e, "partNumber", "MaterialDefinition", bom, "billOf")
             e2 == RefEdge(e, "component", "MaterialDefinition", bom, "includesComponent")
  <2>1. bom \in Vertices(X) BY ObjectIs, LabelsKnown
  <2>2. n2 \in Seq(NodeWrites(X)) BY RefNodeIs, LabelsKnown
  <2>3. BomRevised(e) = PlmLinked(e, "BillOfMaterials", part \o n2, e1 \o e2)
    BY DEF BomRevised
  <2> HIDE DEF bom
  <2>4. e1 \in Seq(EdgesOf(e, X)) /\ e2 \in Seq(EdgesOf(e, X))
    BY <2>1, RefEdgeIs, LabelsKnown, RelsKnown
  <2> HIDE DEF part, n2, e1, e2
  <2>5. part \o n2 \in Seq(NodeWrites(X)) /\ e1 \o e2 \in Seq(EdgesOf(e, X))
    BY <1>1, <2>2, <2>4, MoreOfSame
  <2> QED BY <2>3, <2>5, LabelsKnown, LinkedPlanned
<1> QED BY <1>2, <1>3, <1>4, <1>5, <1>6

LEMMA PlmPlanned ==
    ASSUME NEW X, NEW e, IsEvent(e, X)
    PROVE  Planned(PlmPlan(e), X, EdgesOf(e, X))
<1>1. Planned(PartEvent(e), X, EdgesOf(e, X))
  <2>1. PICK id : id = IdOr(e, "partNumber", e.entity) OBVIOUS
  <2>2. id \in X BY <2>1, MesWoIs, IdOrIs
  <2>3. PartEvent(e) = UpsertNodeStep("MaterialDefinition", id) BY <2>1 DEF PartEvent
  <2> QED BY <2>2, <2>3, LabelsKnown, DirectPlanned
<1>2. \/ PlmPlan(e) = PartEvent(e) \/ PlmPlan(e) = DrawingEvent(e)
      \/ PlmPlan(e) = ChangeRequestEvent(e) \/ PlmPlan(e) = EcoEvent(e)
      \/ PlmPlan(e) = ChangeNoticeEvent(e) \/ PlmPlan(e) = BomRevised(e)
      \/ PlmPlan(e) = <<>>
  BY DEF PlmPlan
<1> QED BY <1>1, <1>2, DocumentsPlanned, NothingPlanned

-----------------------------------------------------------------------------
(* ERP and DHR *)

LEMMA ErpLinkedPlanned ==
    ASSUME NEW X, NEW e, IsEvent(e, X), NEW label \in Labels,
           NEW supplierRel \in PlainRels \cup {NoRel}, NEW materialRel \in PlainRels \cup {NoRel}
    PROVE  Planned(ErpLinked(e, label, supplierRel, materialRel), X, EdgesOf(e, X))
<1> DEFINE doc == <<label, ObjectId(e)>>
           own == <<NodeWrite(label, ObjectId(e), TRUE)>>
           r1 == RefNode(e, "supplierId", "Supplier")
           r2 == RefNode(e, "material", "MaterialDefinition")
           n1 == When(supplierRel # NoRel, r1)
           n2 == When(materialRel # NoRel, r2)
           l1 == RefEdge(e, "supplierId", "Supplier", doc, supplierRel)
           l2 == RefEdge(e, "material", "MaterialDefinition", doc, materialRel)
           e1 == When(supplierRel # NoRel, l1)
           e2 == When(materialRel # NoRel, l2)
<1>1. own \in Batches(X) BY FirstVertex, MesWoIs
<1>2. n1 \in Seq(NodeWrites(X)) /\ n2 \in Seq(NodeWrites(X))
  <2>1. r1 \in Seq(NodeWrites(X)) /\ r2 \in Seq(NodeWrites(X)) BY RefNodeIs, LabelsKnown
  <2> HIDE DEF r1, r2
  <2> QED BY <2>1, WhenIs
<1>3. doc \in Vertices(X) BY ObjectIs
<1>4. ErpLinked(e, label, supplierRel, materialRel) = FlushSteps(own \o n1 \o n2, e1 \o e2)
  BY DEF ErpLinked
<1> HIDE DEF doc
<1>5. e1 \in Seq(EdgesOf(e, X)) /\ e2 \in Seq(EdgesOf(e, X))
  <2>1. supplierRel # NoRel => l1 \in Seq(EdgesOf(e, X)) BY <1>3, RefEdgeIs, LabelsKnown
  <2>2. materialRel # NoRel => l2 \in Seq(EdgesOf(e, X)) BY <1>3, RefEdgeIs, LabelsKnown
  <2> HIDE DEF l1, l2
  <2> QED BY <2>1, <2>2, WhenIs
<1> HIDE DEF own, n1, n2, e1, e2
<1>6. own \o n1 \o n2 \in Batches(X) BY <1>1, <1>2, MoreVertices
<1>7. e1 \o e2 \in Seq(EdgesOf(e, X)) BY <1>5, MoreOfSame
<1> QED BY <1>4, <1>6, <1>7, BatchPlanned

LEMMA MaterialReceivedPlanned ==
    ASSUME NEW X, NEW e, IsEvent(e, X), Has(e, "lot")
    PROVE  Planned(MaterialReceived(e), X, EdgesOf(e, X))
<1> DEFINE receipt == <<"GoodsReceipt", ObjectId(e)>>
           lot == <<"MaterialLot", e.ids["lot"]>>
           w1 == NodeWrite("GoodsReceipt", ObjectId(e), TRUE)
           w2 == NodeWrite("MaterialLot", lot[2], TRUE)
           own == <<w1, w2>>
           n1 == RefNode(e, "supplierId", "Supplier")
           n2 == RefNode(e, "material", "MaterialDefinition")
           e1 == <<EdgeWrite(receipt, "receivedMaterial", lot)>>
           e2 == RefEdge(e, "supplierId", "Supplier", lot, "suppliedBy")
           e3 == RefEdge(e, "material", "MaterialDefinition", lot, "definesMaterial")
<1>1. e.ids["lot"] \in X BY DEF Has, IsEvent
<1>2. lot \in Vertices(X) /\ receipt \in Vertices(X)
  BY <1>1, LabelsKnown, ObjectIs DEF Vertices
<1>3. own \in Batches(X)
  <2>1. w1 \in NodeWrites(X) /\ w2 \in NodeWrites(X)
    BY <1>1, LabelsKnown, MesWoIs DEF NodeWrite, NodeWrites, Vertices
  <2> HIDE DEF w1, w2
  <2> QED BY <2>1 DEF Batches
<1>4. n1 \in Seq(NodeWrites(X)) /\ n2 \in Seq(NodeWrites(X)) BY RefNodeIs, LabelsKnown
<1>5. MaterialReceived(e) = FlushSteps(own \o n1 \o n2, e1 \o e2 \o e3)
  BY DEF MaterialReceived, When
<1> HIDE DEF lot, receipt
<1>6. /\ e1 \in Seq(EdgesOf(e, X)) /\ e2 \in Seq(EdgesOf(e, X))
      /\ e3 \in Seq(EdgesOf(e, X))
  BY <1>2, PlainEdge, RefEdgeIs, LabelsKnown, RelsKnown
<1> HIDE DEF own, n1, n2, e1, e2, e3
<1>7. own \o n1 \o n2 \in Batches(X) BY <1>3, <1>4, MoreVertices
<1>8. e1 \o e2 \o e3 \in Seq(EdgesOf(e, X)) BY <1>6, MoreOfSame
<1> QED BY <1>5, <1>7, <1>8, BatchPlanned

LEMMA ErpPlanned ==
    ASSUME NEW X, NEW e, IsEvent(e, X)
    PROVE  Planned(ErpPlan(e), X, EdgesOf(e, X))
<1>1. PICK none \in PlainRels \cup {NoRel} : none = NoRel OBVIOUS
<1>2. /\ Planned(Requisition(e), X, EdgesOf(e, X)) /\ Planned(PurchaseOrder(e), X, EdgesOf(e, X))
      /\ Planned(Invoice(e), X, EdgesOf(e, X))
  <2>1. /\ Requisition(e) = ErpLinked(e, "PurchaseRequisition", none, "ordersMaterial")
        /\ PurchaseOrder(e) = ErpLinked(e, "PurchaseOrder", "orderedFrom", "ordersMaterial")
        /\ Invoice(e) = ErpLinked(e, "SupplierInvoice", "invoicedBy", none)
    BY <1>1 DEF Requisition, PurchaseOrder, Invoice
  <2>2. /\ "orderedFrom" \in PlainRels \cup {NoRel} /\ "ordersMaterial" \in PlainRels \cup {NoRel}
        /\ "invoicedBy" \in PlainRels \cup {NoRel}
    BY RelsKnown
  <2> QED BY <2>1, <2>2, LabelsKnown, ErpLinkedPlanned
<1>3. Planned(MaterialReceived(e), X, EdgesOf(e, X))
  <2>1. CASE ~Has(e, "lot")
    <3>1. MaterialReceived(e) = <<>> BY <2>1 DEF MaterialReceived, When
    <3> QED BY <3>1, NothingPlanned
  <2> QED BY <2>1, MaterialReceivedPlanned
<1>4. \/ ErpPlan(e) = Requisition(e) \/ ErpPlan(e) = PurchaseOrder(e)
      \/ ErpPlan(e) = MaterialReceived(e) \/ ErpPlan(e) = Invoice(e) \/ ErpPlan(e) = <<>>
  BY DEF ErpPlan
<1> QED BY <1>2, <1>3, <1>4, NothingPlanned

LEMMA QualityRecordPlanned ==
    ASSUME NEW X, NEW e, IsEvent(e, X), NEW id, NEW person, NEW rel \in PlainRels,
           NEW otherField, NEW otherLabel \in Labels, NEW otherRel \in PlainRels
    PROVE  Planned(QualityRecord(e, id, person, rel, otherField, otherLabel, otherRel),
                   X, EdgesOf(e, X))
<1> DEFINE of == IdOr(e, id, e.entity)
           rec == <<"OperationsPerformance", of>>
           sn == <<"MaterialSublot", e.ids["serialNumber"]>>
           own == <<NodeWrite("OperationsPerformance", rec[2], TRUE)>>
           n1 == RefNode(e, "serialNumber", "MaterialSublot")
           n2 == RefNode(e, person, "Person")
           n3 == RefNode(e, "partNumber", "MaterialDefinition")
           n4 == RefNode(e, otherField, otherLabel)
           e1 == When(Has(e, "serialNumber"), <<EdgeWrite(sn, "testsAppliedTo", rec)>>)
           e2 == RefEdge(e, person, "Person", rec, "signedBy")
           e3 == RefEdge(e, "partNumber", "MaterialDefinition", rec, rel)
           e4 == RefEdge(e, otherField, otherLabel, rec, otherRel)
<1>1. of \in X BY MesWoIs, IdOrIs
<1>2. own \in Batches(X)
  <2> HIDE DEF of
  <2> QED BY <1>1, FirstVertex, LabelsKnown
<1>3. /\ n1 \in Seq(NodeWrites(X)) /\ n2 \in Seq(NodeWrites(X))
      /\ n3 \in Seq(NodeWrites(X)) /\ n4 \in Seq(NodeWrites(X))
  BY RefNodeIs, LabelsKnown
<1>4. rec \in Vertices(X)
  <2> HIDE DEF of
  <2> QED BY <1>1, LabelsKnown DEF Vertices
<1>5. Has(e, "serialNumber") => sn \in Vertices(X)
  BY LabelsKnown DEF Has, IsEvent, Vertices
<1>6. QualityRecord(e, id, person, rel, otherField, otherLabel, otherRel)
        = FlushSteps(own \o n1 \o n2 \o n3 \o n4, e1 \o e2 \o e3 \o e4)
  BY DEF QualityRecord
<1> HIDE DEF rec, sn
<1>7. e1 \in Seq(EdgesOf(e, X)) BY <1>4, <1>5, WhenIs, PlainEdge, RelsKnown
<1>8. /\ e2 \in Seq(EdgesOf(e, X)) /\ e3 \in Seq(EdgesOf(e, X))
      /\ e4 \in Seq(EdgesOf(e, X))
  BY <1>4, RefEdgeIs, LabelsKnown, RelsKnown
<1> HIDE DEF own, n1, n2, n3, n4, e1, e2, e3, e4
<1>9. own \o n1 \o n2 \o n3 \o n4 \in Batches(X) BY <1>2, <1>3, MoreVertices
<1>10. e1 \o e2 \o e3 \o e4 \in Seq(EdgesOf(e, X)) BY <1>7, <1>8, MoreOfSame
<1> QED BY <1>6, <1>9, <1>10, BatchPlanned

LEMMA OpSignedPlanned ==
    ASSUME NEW X, NEW e, IsEvent(e, X), Has(e, "serialNumber")
    PROVE  Planned(OpSigned(e), X, EdgesOf(e, X))
<1> DEFINE serial == e.ids["serialNumber"]
           sn == <<"MaterialSublot", serial>>
           worker == /\ Has(e, "completedBy")
                     /\ Has(e, "signedBy") => e.ids["completedBy"] # e.ids["signedBy"]
           own == <<NodeWrite("MaterialSublot", sn[2], TRUE)>>
           n1 == RefNode(e, "signedBy", "Person")
           r2 == RefNode(e, "completedBy", "Person")
           n2 == When(worker, r2)
           e1 == RefEdge(e, "signedBy", "Person", sn, "signedBy")
           l2 == RefEdge(e, "completedBy", "Person", sn, "completedBy")
           e2 == When(worker, l2)
<1>1. serial \in X BY DEF Has, IsEvent
<1>2. own \in Batches(X)
  <2> HIDE DEF serial
  <2> QED BY <1>1, FirstVertex, LabelsKnown
<1>3. sn \in Vertices(X)
  <2> HIDE DEF serial
  <2> QED BY <1>1, LabelsKnown DEF Vertices
<1>4. n1 \in Seq(NodeWrites(X)) /\ r2 \in Seq(NodeWrites(X)) BY RefNodeIs, LabelsKnown
<1>5. OpSigned(e) = FlushSteps(own \o n1 \o n2, e1 \o e2) BY DEF OpSigned, When
<1> HIDE DEF sn
<1>6. e1 \in Seq(EdgesOf(e, X)) /\ l2 \in Seq(EdgesOf(e, X))
  BY <1>3, RefEdgeIs, LabelsKnown, RelsKnown
<1> HIDE DEF own, n1, r2, e1, l2, worker
<1>7. n2 \in Seq(NodeWrites(X)) /\ e2 \in Seq(EdgesOf(e, X)) BY <1>4, <1>6, WhenIs
<1> HIDE DEF n2, e2
<1>8. own \o n1 \o n2 \in Batches(X) BY <1>2, <1>4, <1>7, MoreVertices
<1>9. e1 \o e2 \in Seq(EdgesOf(e, X)) BY <1>6, <1>7, MoreOfSame
<1> QED BY <1>5, <1>8, <1>9, BatchPlanned

LEMMA DhrPlanned ==
    ASSUME NEW X, NEW e, IsEvent(e, X)
    PROVE  Planned(DhrPlan(e), X, EdgesOf(e, X))
<1>1. Planned(CertLinked(e), X, EdgesOf(e, X))
  <2>1. PICK id, person, lot :
            CertLinked(e) = QualityRecord(e, id, person, "certifies", lot, "MaterialLot", "certifies")
    BY DEF CertLinked
  <2> QED BY <2>1, LabelsKnown, RelsKnown, QualityRecordPlanned
<1>2. Planned(TestRecorded(e), X, EdgesOf(e, X))
  <2>1. PICK id, person, wo :
            TestRecorded(e) = QualityRecord(e, id, person, "testsAppliedTo",
                                            wo, "JobResponse", "executedDuring")
    BY DEF TestRecorded
  <2> QED BY <2>1, LabelsKnown, RelsKnown, QualityRecordPlanned
<1>3. Planned(OpSigned(e), X, EdgesOf(e, X))
  <2>1. CASE ~Has(e, "serialNumber")
    <3>1. OpSigned(e) = <<>> BY <2>1 DEF OpSigned, When
    <3> QED BY <3>1, NothingPlanned
  <2> QED BY <2>1, OpSignedPlanned
<1>4. \/ DhrPlan(e) = CertLinked(e) \/ DhrPlan(e) = TestRecorded(e)
      \/ DhrPlan(e) = OpSigned(e) \/ DhrPlan(e) = <<>>
  BY DEF DhrPlan, When
<1> QED BY <1>1, <1>2, <1>3, <1>4, NothingPlanned

-----------------------------------------------------------------------------
(* SRM, WMS, program, in-service and SCADA *)

LEMMA SupplierPlanned ==
    ASSUME NEW X, NEW e, IsEvent(e, X)
    PROVE  Planned(SupplierScore(e), X, EdgesOf(e, X))
<1>1. PICK id : id = IdOr(e, "supplierId", e.entity) OBVIOUS
<1>2. id \in X BY <1>1, MesWoIs, IdOrIs
<1>3. SupplierScore(e) = UpsertNodeStep("Supplier", id) \/ SupplierScore(e) = <<>>
  BY <1>1 DEF SupplierScore, When
<1> QED BY <1>2, <1>3, LabelsKnown, DirectPlanned, NothingPlanned

LEMMA KitPlanned ==
    ASSUME NEW X, NEW e, IsEvent(e, X)
    PROVE  Planned(KitEvent(e), X, EdgesOf(e, X))
<1> DEFINE id == IdOr(e, "kitId", e.entity)
           kit == <<"MaterialSublot", id>>
           own == <<NodeWrite("MaterialSublot", kit[2], TRUE)>>
           n1 == RefNode(e, "lotNumber", "MaterialLot")
           e1 == RefEdge(e, "workOrderId", "JobResponse", kit, "consumedBy")
           e2 == RefEdge(e, "lotNumber", "MaterialLot", kit, "madeFrom")
<1>1. id \in X BY MesWoIs, IdOrIs
<1>2. own \in Batches(X) /\ kit \in Vertices(X)
  <2> HIDE DEF id
  <2>1. own \in Batches(X) BY <1>1, FirstVertex, LabelsKnown
  <2>2. kit \in Vertices(X) BY <1>1, LabelsKnown DEF Vertices
  <2> QED BY <2>1, <2>2
<1>3. n1 \in Seq(NodeWrites(X)) BY RefNodeIs, LabelsKnown
<1>4. KitEvent(e) = FlushSteps(own \o n1, e1 \o e2) \/ KitEvent(e) = <<>>
  BY DEF KitEvent, When
<1> HIDE DEF kit
<1>5. e1 \in Seq(EdgesOf(e, X)) /\ e2 \in Seq(EdgesOf(e, X))
  BY <1>2, RefEdgeIs, LabelsKnown, RelsKnown
<1> HIDE DEF own, n1, e1, e2
<1> QED BY <1>2, <1>3, <1>4, <1>5, MoreVertices, MoreOfSame, BatchPlanned, NothingPlanned

LEMMA MilestonePlanned ==
    ASSUME NEW X, NEW e, IsEvent(e, X)
    PROVE  Planned(MilestoneEvent(e), X, EdgesOf(e, X))
<1>1. CASE ~Has(e, "milestoneId")
  <2>1. MilestoneEvent(e) = <<>> BY <1>1 DEF MilestoneEvent, When
  <2> QED BY <2>1, NothingPlanned
<1>2. CASE Has(e, "milestoneId")
  <2> DEFINE id == e.ids["milestoneId"]
             milestone == <<"Milestone", id>>
             own == <<NodeWrite("Milestone", milestone[2], TRUE)>>
             n1 == [i \in DOMAIN MilestoneParts |->
                      NodeWrite("MaterialDefinition", MilestoneParts[i], FALSE)]
             e1 == [i \in DOMAIN MilestoneParts |->
                      EdgeWrite(<<"MaterialDefinition", MilestoneParts[i]>>, "trackedBy", milestone)]
  <2>1. id \in X BY <1>2 DEF Has, IsEvent
  <2>2. own \in Batches(X) /\ milestone \in Vertices(X)
    <3> HIDE DEF id
    <3>1. own \in Batches(X) BY <2>1, FirstVertex, LabelsKnown
    <3>2. milestone \in Vertices(X) BY <2>1, LabelsKnown DEF Vertices
    <3> QED BY <3>1, <3>2
  <2>3. PICK n \in Nat : n = 5 OBVIOUS
  <2>4. DOMAIN MilestoneParts = 1..n BY <2>3 DEF MilestoneParts
  <2>5. \A i \in 1..n : MilestoneParts[i] \in X BY <2>4 DEF IsEvent, HandlerIds
  <2>6. n1 \in Seq(NodeWrites(X))
    <3>1. ASSUME NEW i \in 1..n
          PROVE  NodeWrite("MaterialDefinition", MilestoneParts[i], FALSE) \in NodeWrites(X)
      BY <2>5, LabelsKnown DEF NodeWrite, NodeWrites, Vertices
    <3>2. n1 \in [1..n -> NodeWrites(X)] BY <2>4, <3>1
    <3> HIDE DEF n1
    <3> QED BY <3>2, FunctionIsSeq
  <2>7. MilestoneEvent(e) = FlushSteps(own \o n1, e1) BY <1>2 DEF MilestoneEvent, When
  <2> HIDE DEF milestone
  <2>8. e1 \in Seq(EdgesOf(e, X))
    <3>1. ASSUME NEW i \in 1..n
          PROVE  EdgeWrite(<<"MaterialDefinition", MilestoneParts[i]>>, "trackedBy", milestone)
                    \in EdgesOf(e, X)
      <4>1. PICK src : src = <<"MaterialDefinition", MilestoneParts[i]>> OBVIOUS
      <4>2. src \in Vertices(X) BY <2>5, <4>1, LabelsKnown DEF Vertices
      <4>3. PICK w : w = EdgeWrite(src, "trackedBy", milestone) OBVIOUS
      <4>4. w \in EdgeWrites(X) /\ w.rel = "trackedBy"
        BY <2>2, <4>2, <4>3, RelsKnown DEF EdgeWrite, EdgeWrites, Rels
      <4>5. w \in EdgesOf(e, X) BY <4>4 DEF EdgesOf
      <4> QED BY <4>1, <4>3, <4>5
    <3>2. e1 \in [1..n -> EdgesOf(e, X)] BY <2>4, <3>1
    <3> HIDE DEF e1
    <3> QED BY <3>2, FunctionIsSeq
  <2> HIDE DEF own, n1, e1
  <2> QED BY <2>2, <2>6, <2>7, <2>8, MoreVertices, BatchPlanned
<1> QED BY <1>1, <1>2

LEMMA TwinPlanned ==
    ASSUME NEW X, NEW e, IsEvent(e, X)
    PROVE  Planned(TwinEvent(e), X, EdgesOf(e, X))
<1>1. CASE ~Has(e, "serialNumber")
  <2>1. TwinEvent(e) = <<>> BY <1>1 DEF TwinEvent, When
  <2> QED BY <2>1, NothingPlanned
<1>2. CASE Has(e, "serialNumber")
  <2> DEFINE sn == e.ids["serialNumber"]
             anomaly == IdOr(e, "status", "NORMAL") = "ANOMALY"
             part == <<"MaterialSublot", sn>>
             twin == <<"DigitalTwin", sn>>
             alarm == <<"FleetAnomaly", e.id>>
             own == <<NodeWrite("DigitalTwin", sn, TRUE)>>
             w2 == <<NodeWrite("FleetAnomaly", e.id, TRUE)>>
             n2 == When(anomaly, w2)
             n3 == <<NodeWrite("MaterialSublot", sn, FALSE)>>
             e1 == <<EdgeWrite(part, "instantiatedAs", twin)>>
             l2 == <<EdgeWrite(alarm, "observedOn", twin)>>
             e2 == When(anomaly, l2)
  <2>1. sn \in X /\ e.id \in X BY <1>2 DEF Has, IsEvent
  <2>2. own \in Batches(X) /\ w2 \in Batches(X) /\ n3 \in Batches(X)
    <3> HIDE DEF sn
    <3> QED BY <2>1, FirstVertex, LabelsKnown
  <2>3. part \in Vertices(X) /\ twin \in Vertices(X) /\ alarm \in Vertices(X)
    <3> HIDE DEF sn
    <3> QED BY <2>1, LabelsKnown DEF Vertices
  <2>4. TwinEvent(e) = FlushSteps(own \o n2 \o n3, e1 \o e2)
    BY <1>2 DEF TwinEvent, When
  <2> HIDE DEF part, twin, alarm, anomaly
  <2>5. e1 \in Seq(EdgesOf(e, X)) /\ l2 \in Seq(EdgesOf(e, X))
    BY <2>3, PlainEdge, RelsKnown
  <2> HIDE DEF own, w2, n3, e1, l2
  <2>6. n2 \in Seq(NodeWrites(X)) /\ n3 \in Seq(NodeWrites(X)) /\ e2 \in Seq(EdgesOf(e, X))
    BY <2>2, <2>5, WhenIs DEF Batches
  <2> HIDE DEF n2, e2
  <2>7. own \o n2 \o n3 \in Batches(X) BY <2>2, <2>6, MoreVertices
  <2>8. e1 \o e2 \in Seq(EdgesOf(e, X)) BY <2>5, <2>6, MoreOfSame
  <2> QED BY <2>4, <2>7, <2>8, BatchPlanned
<1> QED BY <1>1, <1>2

LEMMA MachinePlanned ==
    ASSUME NEW X, NEW e, IsEvent(e, X)
    PROVE  Planned(MachineEvent(e), X, EdgesOf(e, X))
<1>1. CASE ~Has(e, "machineId")
  <2>1. MachineEvent(e) = <<>> BY <1>1 DEF MachineEvent, When
  <2> QED BY <2>1, NothingPlanned
<1>2. CASE Has(e, "machineId")
  <2>1. PICK machine \in X : machine = e.ids["machineId"] BY <1>2 DEF Has, IsEvent
  <2>2. MachineEvent(e) = FlushSteps(<<NodeWrite("Equipment", machine, TRUE)>>,
                                     LocatedIn(e, machine, "cellId"))
    BY <1>2, <2>1 DEF MachineEvent, When
  <2> QED BY <2>2, FirstVertex, LocatedInIs, LabelsKnown, BatchPlanned
<1> QED BY <1>1, <1>2

-----------------------------------------------------------------------------
(* Every handler *)

Topics == {"qms", "mes", "plm", "erp", "srm", "wms", "dhr", "program", "inservice", "scada"}

LEMMA EveryPlanned ==
    ASSUME NEW X, NEW e, IsEvent(e, X), e.domain \in Topics
    PROVE  Planned(Plan(e), X, EdgesOf(e, X))
<1>1. CASE e.domain = "mes"
  <2>1. Plan(e) = MesPlan(e) BY <1>1 DEF Plan
  <2> QED BY <1>1, <2>1, MesPlanned
<1>2. CASE e.domain # "mes"
  <2>1. \/ Plan(e) = QmsPlan(e) \/ Plan(e) = PlmPlan(e) \/ Plan(e) = ErpPlan(e)
        \/ Plan(e) = SupplierScore(e) \/ Plan(e) = KitEvent(e) \/ Plan(e) = DhrPlan(e)
        \/ Plan(e) = MilestoneEvent(e) \/ Plan(e) = TwinEvent(e) \/ Plan(e) = MachineEvent(e)
    BY <1>2 DEF Plan, Topics
  <2> QED BY <2>1, QmsPlanned, PlmPlanned, ErpPlanned, SupplierPlanned, KitPlanned,
             DhrPlanned, MilestonePlanned, TwinPlanned, MachinePlanned
<1> QED BY <1>1, <1>2

\* Whatever the event and its payload, the calls of its handler are well
\* formed, and each end of an edge is written, by the handler's own batch or
\* as a stub, in a call before the edge: what FastConsumer assumes of Steps.
THEOREM EndsBeforeEdges ==
    ASSUME NEW X, NEW e, IsEvent(e, X), e.domain \in Topics
    PROVE  /\ Plan(e) \in Seq(Calls(X))
           /\ \A i \in 1..Len(Plan(e)) : Plan(e)[i].op = "upsert_edge" =>
                \A n \in {Plan(e)[i].src, Plan(e)[i].tgt} : \E j \in 1..(i - 1) :
                    Plan(e)[j].op \in {"upsert_node", "stub", "direct"} /\ Plan(e)[j].src = n
<1>1. Planned(Plan(e), X, EdgesOf(e, X)) BY EveryPlanned
<1> QED BY <1>1 DEF Planned

\* What a work order is to do is written by its release and by nothing else,
\* what was done by its start: no other event of any topic, and no late
\* completion, links a segment or a response to a JobOrder.
THEOREM OnlyReleasesPlan ==
    ASSUME NEW X, NEW e, IsEvent(e, X), e.domain \in Topics,
           NEW i \in 1..Len(Plan(e)), Plan(e)[i].op = "upsert_edge"
    PROVE  /\ Plan(e)[i].rel = "requestsSegment" =>
                IsRelease(e) /\ Plan(e)[i].src = <<"JobOrder", MesWo(e)>>
           /\ Plan(e)[i].rel = "requestsExecution" =>
                IsStart(e) /\ Plan(e)[i].src = <<"JobOrder", MesWo(e)>>
<1>1. Planned(Plan(e), X, EdgesOf(e, X)) BY EveryPlanned
<1>2. PICK s : s = Plan(e)[i] OBVIOUS
<1>3. [src |-> s.src, rel |-> s.rel, tgt |-> s.tgt] \in EdgesOf(e, X) BY <1>1, <1>2 DEF Planned
<1> QED BY <1>2, <1>3 DEF EdgesOf
=============================================================================
