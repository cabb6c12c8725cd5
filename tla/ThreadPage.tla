----------------------------- MODULE ThreadPage -----------------------------
(***************************************************************************)
(* The digital thread of a serial number while it is being written: the    *)
(* fast consumer's handlers write vertices and edges, the slow consumer    *)
(* its assessment of the NCR, and meanwhile the page loads the thread and  *)
(* an agent compares plan and actual or looks for a path, each with        *)
(* several queries that see the graph at different moments.  No graph      *)
(* write fails here (module FastConsumer is about that).                   *)
(***************************************************************************)
EXTENDS GraphQueries

CONSTANTS
    Scenarios,      \* [kg |-> the graph so far, todo |-> topic -> store calls to make]
    NcrEvent,       \* the event the slow consumer assesses
    NcrSerial, WorkOrder,
    Serials,        \* what is typed: NcrSerial, and serials that do not exist
    Questions,      \* the navigator's: [dir, labels, depth]
    MaxSlowFaults, MaxThreadLoads, MaxPlans, MaxQueries     \* bounds

ASSUME ThreadAssumption ==
    /\ NcrSerial \in Serials
    /\ \A s \in Scenarios : s.kg = [v |-> s.kg.v, e |-> s.kg.e, facts |-> s.kg.facts]
    /\ \A q \in Questions : q.dir \in {"in", "out", "both"} /\ q.depth \in 1..5
    /\ MaxSlowFaults \in Nat /\ MaxThreadLoads \in Nat /\ MaxPlans \in Nat /\ MaxQueries \in Nat

\* Calls that add to the plan of the work order, and to what was made of it.
AddsSegment(s) ==
    s.op = "upsert_edge" /\ s.src = JobOrder(WorkOrder) /\ s.rel = "requestsSegment"
AddsResponse(s) ==
    s.op = "upsert_edge" /\ s.src = JobOrder(WorkOrder) /\ s.rel = "requestsExecution"

\* A work order's release writes its plan, its start the response, and the
\* events of a work order are handled in turn.
PlannedFirst(g, left) ==
    \A t, u \in DOMAIN left : \A j \in DOMAIN left[u] :
        AddsSegment(left[u][j]) =>
            /\ Responses(g, WorkOrder) = {}
            /\ \A i \in DOMAIN left[t] : AddsResponse(left[t][i]) => t = u /\ j < i

ASSUME PlanAssumption ==
    \A s \in Scenarios :
        /\ \A t \in DOMAIN s.todo : s.todo[t] \in Seq(ToSet(s.todo[t]))
        /\ PlannedFirst(s.kg, s.todo)

VARIABLES
    kg,         \* the knowledge graph
    todo,       \* topic -> the store calls still to make
    slow,       \* the slow consumer: [pc, gaps (of its assessment), faults]
    marked,     \* the gaps of the verdict that is marked as processed, in a set
    load,       \* the page's request in flight
    thread,     \* what the page shows
    loads,
    found,      \* what the navigator has found on the page's conversation
    plan,       \* the agent's query_plan_vs_actual in flight
    diff, plans

threadVars == <<kg, todo, slow, marked, load, thread, loads, found, plan, diff, plans>>
writerVars == <<kg, todo, slow, marked>>
loadVars == <<load, thread, loads, found>>
planVars == <<plan, diff, plans>>

None == [none |-> TRUE]
NothingFound == [nodes |-> {}, links |-> {}, asked |-> 0]

-----------------------------------------------------------------------------
(* The writers *)

Fact(node, serial, event) == [node |-> node, serial |-> serial, event |-> event]

\* One call of a handler: an edge between missing vertices is not written.
\* Only the NCR's vertex carries its event here.
Apply(g, s) ==
    IF s.op = "upsert_edge"
    THEN [g EXCEPT !.e = @ \cup {e \in {[src |-> s.src, rel |-> s.rel, tgt |-> s.tgt]} :
                                   {s.src, s.tgt} \subseteq g.v}]
    ELSE [g EXCEPT !.v = @ \cup {s.src},
                   !.facts = @ \cup {f \in {Fact(s.src, NcrSerial, NcrEvent)} :
                                       s.sets /\ Label(s.src) = "OperationsPerformance"}]

WriteNext(topic) ==
    /\ todo[topic] # <<>>
    /\ kg' = Apply(kg, Head(todo[topic]))
    /\ todo' = [todo EXCEPT ![topic] = Tail(@)]
    /\ UNCHANGED <<slow, marked, loadVars, planVars>>

Verdict == <<"CoherenceVerdict", "VERDICT">>
AsBuilt == <<"AsBuiltRecord", "ABR">>
Gap == <<"ThreadGap", "GAP">>

\* (mutant) marked before it is written.
WriteVerdictOrderMarkFirst == <<"mark", "verdict", "gaps", "asBuilt", "commit">>
WriteVerdictOrder == <<"verdict", "gaps", "asBuilt", "mark", "commit">>

SlowIdle == {"away", "passed", "done"}
\* The record is delivered and assessed: the agent gives no verdict, or one
\* with or without gaps; a verdict that is marked is not written again.
Assess ==
    /\ slow.pc = "away"
    /\ \/ slow' = [slow EXCEPT !.pc = "commit"]
       \/ /\ marked = {}
          /\ \E gaps \in SUBSET {Gap} :
                slow' = [slow EXCEPT !.pc = WriteVerdictOrder[1], !.gaps = gaps]
    /\ UNCHANGED <<kg, todo, marked, loadVars, planVars>>

SlowNodes(step) ==
    CASE step = "verdict" -> {Verdict} [] step = "gaps" -> slow.gaps
      [] step = "asBuilt" -> {AsBuilt} [] OTHER -> {}

\* One store call of write_verdict, or the commit after it.
SlowStep ==
    /\ slow.pc \notin SlowIdle
    /\ LET i == CHOOSE j \in DOMAIN WriteVerdictOrder : WriteVerdictOrder[j] = slow.pc
       IN  slow' = [slow EXCEPT !.pc = IF i = Len(WriteVerdictOrder) THEN "done"
                                       ELSE WriteVerdictOrder[i + 1]]
    /\ kg' = [kg EXCEPT !.v = @ \cup SlowNodes(slow.pc),
                        !.facts = @ \cup {Fact(n, NcrSerial, NcrEvent) : n \in SlowNodes(slow.pc)}]
    /\ marked' = IF slow.pc = "mark" THEN {slow.gaps} ELSE marked
    /\ UNCHANGED <<todo, loadVars, planVars>>

SlowFault(pc) ==
    /\ slow.faults < MaxSlowFaults
    /\ slow' = [slow EXCEPT !.pc = pc, !.faults = @ + 1]
    /\ UNCHANGED <<kg, todo, marked, loadVars, planVars>>

\* An exception is logged and the loop goes on to the next record.
SlowRaises == slow.pc \notin {"passed", "done"} /\ SlowFault("passed")
\* The commit of a later record covers this one.
PassedOver ==
    /\ slow.pc = "passed" /\ slow' = [slow EXCEPT !.pc = "done"]
    /\ UNCHANGED <<kg, todo, marked, loadVars, planVars>>
\* The task restarts: what is not committed is delivered again.
SlowRestarts == slow.pc \notin {"away", "done"} /\ SlowFault("away")

-----------------------------------------------------------------------------
(* The page loads a thread *)

ThreadReads == <<"check", "nodes", "edges", "gaps", "verdicts", "asBuilt">>

\* Load Thread is pressed; the button is disabled until the answer.
LoadThread(sn) ==
    /\ load = None /\ loads < MaxThreadLoads
    /\ loads' = loads + 1
    /\ load' = [at |-> 1, serial |-> sn, nodes |-> {}, raised |-> {}, edges |-> {},
                gaps |-> {}, verdicts |-> {}, asBuilt |-> FALSE, edgesRead |-> TRUE,
                \* history: what was there when the load began
                reached |-> {Id(x) : x \in ThreadNodes(kg, sn)}, marked |-> marked,
                known |-> found]
    /\ UNCHANGED <<writerVars, thread, found, planVars>>

\* What the n-th query of get_thread_state adds to the answer.
Read(n) ==
    LET sn == load.serial IN
    CASE n = "check" -> load
      [] n = "nodes" -> [load EXCEPT !.nodes = ThreadNodes(kg, sn),
                                     !.raised = {<<f.node, f.event>> : f \in kg.facts}]
      [] n = "edges" -> [load EXCEPT !.edges = EdgesAmong(kg, {sn} \cup Ids(load.nodes))]
      [] n = "gaps" -> [load EXCEPT !.gaps = FactsOf(kg, "ThreadGap", sn)]
      [] n = "verdicts" -> [load EXCEPT !.verdicts = FactsOf(kg, "CoherenceVerdict", sn)]
      [] n = "asBuilt" -> [load EXCEPT !.asBuilt = FactsOf(kg, "AsBuiltRecord", sn) # {}]

NextRead(read) == load' = [read EXCEPT !.at = @ + 1]

ReadThread ==
    /\ load # None /\ load.at \in DOMAIN ThreadReads
    /\ load.at = 1 => Sublot(load.serial) \in kg.v
    /\ NextRead(Read(ThreadReads[load.at]))
    /\ UNCHANGED <<writerVars, thread, loads, found, planVars>>

\* The edge query fails: the thread is answered without edges.
EdgesNotRead ==
    /\ load # None /\ load.at \in DOMAIN ThreadReads /\ ThreadReads[load.at] = "edges"
    /\ NextRead([load EXCEPT !.edgesRead = FALSE])
    /\ UNCHANGED <<writerVars, thread, loads, found, planVars>>

\* No such serial: the page forgets the thread it shows, and the navigator
\* under it goes with its conversation.
NoThreadFound ==
    /\ load # None /\ load.at = 1 /\ Sublot(load.serial) \notin kg.v
    /\ thread' = None /\ load' = None /\ found' = NothingFound
    /\ UNCHANGED <<writerVars, loads, planVars>>

\* Another query fails or the request does: the old thread stays.
LoadFails ==
    /\ load # None /\ load' = None
    /\ UNCHANGED <<writerVars, thread, loads, found, planVars>>

ThreadShown ==
    /\ load # None /\ load.at = Len(ThreadReads) + 1
    /\ \E kept \in FirstOfEachId(load) :
        thread' = [graph |-> MapNodesToGraph(load, kept, load.raised), answer |-> load]
    /\ load' = None
    /\ UNCHANGED <<writerVars, loads, found, planVars>>

-----------------------------------------------------------------------------
(* The navigator, on the page of a thread, looks for a path from its serial *)

Known == {[node |-> Sublot(NcrSerial), hops |-> 0]} \cup found.nodes

\* The answer of one query; how far away its vertices are at most is known
\* from the question.
Learn(k, nodes, links, hops) ==
    /\ thread # None /\ found.asked < MaxQueries
    /\ found' = [nodes |-> found.nodes \cup {[node |-> y, hops |-> k.hops + hops] : y \in nodes},
                 links |-> found.links \cup {Link(e) : e \in links}, asked |-> found.asked + 1]
    /\ UNCHANGED <<writerVars, load, thread, loads, planVars>>

AskNode(k) == Learn(k, NodeNeighbors(kg, k.node), {}, 1)
\* The last query of get_node, at some later moment.
AskNodeEdges(k) == Learn(k, {}, NodeEdges(kg, k.node), 0)
AskNeighbors(k, q) == Learn(k, QueryNeighbors(kg, k.node, {}, q.labels), {}, 1)
AskTraverse(k, q) ==
    Learn(k, Traverse(kg, k.node, q.dir, {}, q.labels, q.depth), {}, q.depth)

NavigatorStep ==
    \E k \in Known :
        \/ AskNode(k) \/ AskNodeEdges(k)
        \/ \E q \in Questions : AskNeighbors(k, q) \/ AskTraverse(k, q)

-----------------------------------------------------------------------------
(* An agent asks for plan and actual of the work order *)

\* (mutant) the plan is read before the response.
PlanReadsRequestedFirst == <<"order", "requested", "response", "executed">>
PlanReads == <<"order", "response", "requested", "executed">>

AskPlan ==
    /\ plan = None /\ plans < MaxPlans /\ JobOrder(WorkOrder) \in kg.v
    /\ plan' = [at |-> 2, response |-> {}, requested |-> {}, executed |-> {}]
    /\ plans' = plans + 1
    /\ UNCHANGED <<writerVars, loadVars, diff>>

ReadPlan ==
    /\ plan # None /\ plan.at \in DOMAIN PlanReads
    /\ plan' = LET next == [plan EXCEPT !.at = @ + 1] IN
        CASE PlanReads[plan.at] = "response" -> [next EXCEPT !.response = Responses(kg, WorkOrder)]
          [] PlanReads[plan.at] = "requested" -> [next EXCEPT !.requested = Requested(kg, WorkOrder)]
          [] PlanReads[plan.at] = "executed" -> [next EXCEPT !.executed =
                IF plan.response # {} THEN Executed(kg, WorkOrder) ELSE {}]
    /\ diff' = IF plan'.at \in DOMAIN PlanReads THEN diff
               ELSE [of |-> PlanDiff(plan'.requested, plan'.executed),
                     hasResponse |-> plan'.response # {}]
    /\ UNCHANGED <<writerVars, loadVars, plans>>

PlanAnswered ==
    /\ plan # None /\ plan.at \notin DOMAIN PlanReads /\ plan' = None
    /\ UNCHANGED <<writerVars, loadVars, diff, plans>>

-----------------------------------------------------------------------------
NoLoadedThread == load = None /\ thread = None

NothingRead ==
    /\ slow = [pc |-> "away", gaps |-> {}, faults |-> 0] /\ marked = {}
    /\ NoLoadedThread /\ loads = 0 /\ found = NothingFound
    /\ plan = None /\ diff = None /\ plans = 0

\* Nobody looks at the graph.
ThreadIdle == kg = [v |-> {}, e |-> {}, facts |-> {}] /\ todo = <<>> /\ NothingRead

ThreadInit ==
    /\ \E s \in Scenarios :
        kg = s.kg /\ todo = s.todo
    /\ NothingRead

ThreadWriters ==
    \/ \E t \in DOMAIN todo : WriteNext(t)
    \/ Assess \/ SlowStep \/ SlowRaises \/ PassedOver \/ SlowRestarts

ThreadPageStep ==
    \/ \E sn \in Serials : LoadThread(sn)
    \/ ReadThread \/ EdgesNotRead \/ NoThreadFound \/ LoadFails \/ ThreadShown

PlanStep == AskPlan \/ ReadPlan \/ PlanAnswered

-----------------------------------------------------------------------------
(* Properties *)

ShownIds == Ids(thread.graph.nodes)

\* The queries of one load see the graph at different moments, and yet, when
\* its edges were read, the page shows everything that was within three hops
\* when the load began and nothing that is not there now
\* (neptune-query 254-363, DigitalThreadPage 29-119).
ThreadIsBetween ==
    thread # None =>
    /\ thread.answer.edgesRead => thread.answer.reached \subseteq ShownIds
    /\ ShownIds \subseteq {thread.answer.serial} \cup Ids(ThreadNodes(kg, thread.answer.serial))
                            \cup Ids(Assessed(thread.answer))

\* What the navigator had found within three hops when the load began: the
\* ids on the path, and the edges between them.
PathIds == {NcrSerial} \cup
    Ids({k.node : k \in {j \in thread.answer.known.nodes : j.hops <= ThreadDepth}})
PathLinks == {l \in thread.answer.known.links : {l.source, l.target} \subseteq PathIds}

\* The path and the thread are read at different moments, with different
\* queries.  When the thread is loaded again the path found before is drawn
\* in one piece, whatever the domain, with every vertex and every edge that
\* was found of it (AskThreadNavigator 23-59, DigitalThreadPage 29-119, 200-206,
\* neptune-query 254-363).
PathIsDrawn ==
    (thread # None /\ thread.answer.edgesRead /\ thread.answer.serial = NcrSerial) =>
    LET ids == PathIds
        links == PathLinks
    IN  \A d \in Domains :
            LET drawn == OnPath(NavigatorGraph(thread.graph, d), ids)
            IN  ids \subseteq Ids(drawn.nodes) /\ links \subseteq drawn.edges

\* A thread loaded after the assessment was marked as processed has all of
\* it, whatever was written in what order and by which attempt of the slow
\* consumer (slow-consumer main.py 68-114, 157-182).
AssessedIsShown ==
    (thread # None /\ thread.answer.serial = NcrSerial /\ thread.answer.marked # {}) =>
    /\ Verdict \in {f.node : f \in thread.answer.verdicts} /\ thread.answer.asBuilt
    /\ UNION thread.answer.marked \subseteq {f.node : f \in thread.answer.gaps}

\* A comparison that found a response is exact at the moment it is answered
\* although it was read piece by piece: the plan is complete before there is
\* a response (neptune-query 497-569, mes.py).
PlanDiffIsExact ==
    [][(diff' # diff /\ diff'.hasResponse) =>
        diff'.of = PlanDiff(Requested(kg, WorkOrder), Executed(kg, WorkOrder))]_threadVars
=============================================================================
