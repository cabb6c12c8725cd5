---------------------------- MODULE FastConsumer ----------------------------
(***************************************************************************)
(* The fast consumer: one topic of the event backbone, the threads that    *)
(* consume it, the Neptune graph they write, the DynamoDB table of         *)
(* processed events, the dead letter table of failed graph writes and its  *)
(* replay.                                                                 *)
(*                                                                         *)
(* An instance is one ECS task's thread for the topic.  The service asks   *)
(* for one task, but a rolling deployment starts the new task before it    *)
(* stops the old one, so two instances may share the consumer group.       *)
(*                                                                         *)
(* What the handler of an event e writes is the constant sequence          *)
(* Steps[e]; module EventPlans computes it from the handlers.  Offsets     *)
(* count messages from 1, and a position is the number of messages passed. *)
(***************************************************************************)
EXTENDS Integers, Sequences, FiniteSets

CONSTANTS
    Instances,      \* consumer threads of this topic, one per ECS task
    Partitions,     \* partitions of the topic
    Events,         \* events, each with its own eventId
    PartitionOf,    \* the partition that the event's entityId hashes to
    Source,         \* the order in which producers send (a copy is a resend)
    Steps,          \* the store calls of each event's handler
    Nodes,          \* vertices <<label, id>> those calls name
    NoEvent, NoInstance,
    MaxFaults,      \* bound: failed or timed-out calls to Neptune or DynamoDB
    MaxMoves        \* bound: crashes, lost sessions and thread exits

NodeOps == {"upsert_node", "stub", "direct"}
\* (mutant) edge failures are only logged.
DlqOpsNodesOnly == NodeOps
\* Failures of these are put in the dead letter table...
DlqOps == NodeOps \cup {"upsert_edge"}
\* ...and failures of these raise out of the handler.
RaisingOps == {"direct", "update"}

Step == [op : NodeOps \cup {"upsert_edge", "update", "rdf"},
         src : Nodes, tgt : Nodes, rel : STRING, sets : BOOLEAN]

ASSUME EventsAssumption ==
    /\ NoEvent \notin Events
    /\ NoInstance \notin Instances
    /\ PartitionOf \in [Events -> Partitions]
    /\ Source \in Seq(Events)
    /\ Steps \in [Events -> Seq(Step)]
\* A batch writes the vertices it knows and stubs for the others before its
\* edges: each endpoint has a write of its own before the edge.
ASSUME EndpointsAssumption ==
    \A e \in Events : \A i \in 1 .. Len(Steps[e]) : Steps[e][i].op = "upsert_edge" =>
        \A n \in {Steps[e][i].src, Steps[e][i].tgt} : \E j \in 1 .. (i - 1) :
            Steps[e][j].op \in NodeOps /\ Steps[e][j].src = n
ASSUME BoundsAssumption == MaxFaults \in Nat /\ MaxMoves \in Nat

NoOffset == -1
NoMessage == <<>>
Messages == Partitions \X (Nat \ {0})
EdgeOf(s) == <<s.src, s.rel, s.tgt>>
\* A handler that has nothing to write returns before it looks at the
\* processed table and never marks the event.
Ignored == {e \in Events : Steps[e] = <<>>}

VARIABLES
    log,            \* [Partitions -> Seq(Events)]: the topic
    sent,           \* how much of Source has been sent
    owner,          \* the instance each partition is assigned to
    committed,      \* the group's committed position, or NoOffset
    position,       \* position[c][p]: messages of p that c's iterator yielded
    pc, at, idx,    \* where each thread is, its message and next step
    vertices, status, edges,    \* Neptune: status[n] wrote n's state last
    processed,      \* DynamoDB digital-thread-offsets
    dlq,            \* DynamoDB graph-write-dlq: <<event, step index>>
    faults, moves   \* what is used of the bounds

VARIABLES           \* history, read by properties only
    executed,       \* <<e, i>>: Neptune ran step i of e
    failed,         \* <<e, i>>: the call of step i of e raised
    lost,           \* <<e, i>>: its dead letter was not stored or was overwritten
    raised,         \* messages whose handler raised
    missed          \* messages a first join at 'latest' jumped over

broker == <<log, sent>>
group  == <<owner, committed>>
thread == <<position, pc, at, idx>>
graph  == <<vertices, status, edges>>
tables == <<processed, dlq>>
budget == <<faults, moves>>
history == <<executed, failed, lost, raised, missed>>
vars == <<broker, group, thread, graph, tables, budget, history>>

Fault == faults < MaxFaults /\ faults' = faults + 1
Move  == moves < MaxMoves /\ moves' = moves + 1

Busy(c) == pc[c] \in {"check", "write", "mark", "commit"}
Current(c) == log[at[c][1]][at[c][2]]
GoTo(c, label) == pc' = [pc EXCEPT ![c] = label]

Init ==
    /\ log = [p \in Partitions |-> <<>>] /\ sent = 0
    /\ owner = [p \in Partitions |-> NoInstance]
    /\ committed = [p \in Partitions |-> NoOffset]
    /\ position = [c \in Instances |-> [p \in Partitions |-> 0]]
    /\ pc = [c \in Instances |-> "down"]
    /\ at = [c \in Instances |-> NoMessage]
    /\ idx = [c \in Instances |-> 0]
    /\ vertices = {} /\ status = [n \in Nodes |-> NoEvent] /\ edges = {}
    /\ processed = {} /\ dlq = {}
    /\ faults = 0 /\ moves = 0
    /\ executed = {} /\ failed = {} /\ lost = {} /\ raised = {} /\ missed = {}

-----------------------------------------------------------------------------
(* The topic and the consumer group *)

\* A producer's send arrives: the partition is chosen by the entity.
Publish ==
    /\ sent < Len(Source)
    /\ LET e == Source[sent + 1]
           p == PartitionOf[e]
       IN  log' = [log EXCEPT ![p] = Append(@, e)]
    /\ sent' = sent + 1
    /\ UNCHANGED <<group, thread, graph, tables, budget, history>>

Start(c) ==
    /\ pc[c] = "down"
    /\ GoTo(c, "polling")
    /\ UNCHANGED <<broker, group, position, at, idx, graph, tables, budget, history>>

\* (mutant) the partitions of a thread that ended stay assigned to it.
StopKeepsAssignment(c, label) ==
    /\ position' = [position EXCEPT ![c] = [p \in Partitions |-> 0]]
    /\ at' = [at EXCEPT ![c] = NoMessage]
    /\ idx' = [idx EXCEPT ![c] = 0]
    /\ GoTo(c, label)
    /\ UNCHANGED <<broker, group, graph, tables, faults, history>>

\* What leaves c's memory when its thread ends in state `label`.
Stop(c, label) ==
    /\ owner' = [p \in Partitions |-> IF owner[p] = c THEN NoInstance ELSE owner[p]]
    /\ position' = [position EXCEPT ![c] = [p \in Partitions |-> 0]]
    /\ at' = [at EXCEPT ![c] = NoMessage]
    /\ idx' = [idx EXCEPT ![c] = 0]
    /\ GoTo(c, label)
    /\ UNCHANGED <<broker, committed, graph, tables, faults, history>>

\* The task dies or is replaced by a deployment, wherever the thread is.
Crash(c) == pc[c] # "down" /\ Move /\ Stop(c, "down")

\* The iterator raises (a message that is not JSON, a broker error) or the
\* topic has no partitions: consume_topic ends, and main() only logs it.
ThreadExit(c) == pc[c] = "polling" /\ Move /\ Stop(c, "dead")

\* The group rebalances without c: its session expired, it did not poll in
\* time, or another member joined.  A busy thread does not notice.
Revoke(c) ==
    /\ \E p \in Partitions : owner[p] = c
    /\ Move
    /\ owner' = [p \in Partitions |-> IF owner[p] = c THEN NoInstance ELSE owner[p]]
    /\ UNCHANGED <<broker, committed, thread, graph, tables, faults, history>>

\* c, in its poll, gets partition p: it resumes at the committed position or,
\* when there is none, at the end of the log (auto_offset_reset='latest').
Assign(p, c) ==
    /\ pc[c] = "polling" /\ owner[p] = NoInstance
    /\ owner' = [owner EXCEPT ![p] = c]
    /\ IF committed[p] = NoOffset
       THEN /\ position' = [position EXCEPT ![c][p] = Len(log[p])]
            /\ missed' = missed \cup {<<p, o>> : o \in 1 .. Len(log[p])}
       ELSE /\ position' = [position EXCEPT ![c][p] = committed[p]]
            /\ UNCHANGED missed
    /\ UNCHANGED <<broker, committed, pc, at, idx, graph, tables, budget,
                   executed, failed, lost, raised>>

-----------------------------------------------------------------------------
(* One message: the loop body of _consume_topic_inner *)

\* (mutant) the next message is taken while the handler is still at work.
PollPipelined(c, p) ==
    /\ pc[c] \in {"polling", "write"} /\ owner[p] = c
    /\ position[c][p] < Len(log[p])
    /\ at' = [at EXCEPT ![c] = <<p, position[c][p] + 1>>]
    /\ position' = [position EXCEPT ![c][p] = @ + 1]
    /\ GoTo(c, "check")
    /\ UNCHANGED <<broker, group, idx, graph, tables, budget, history>>

\* The iterator yields the next message; its position is past it from now on.
Poll(c, p) ==
    /\ pc[c] = "polling" /\ owner[p] = c
    /\ position[c][p] < Len(log[p])
    /\ at' = [at EXCEPT ![c] = <<p, position[c][p] + 1>>]
    /\ position' = [position EXCEPT ![c][p] = @ + 1]
    /\ GoTo(c, "check")
    /\ UNCHANGED <<broker, group, idx, graph, tables, budget, history>>

\* The loop body is over, whichever way: on to the next message.
Finish(c) ==
    /\ GoTo(c, "polling")
    /\ at' = [at EXCEPT ![c] = NoMessage]
    /\ idx' = [idx EXCEPT ![c] = 0]

\* An exception leaves the handler: it is logged, nothing is committed, and
\* the loop goes on with the next message.
Raise(c) == Finish(c) /\ raised' = raised \cup {at[c]}

\* (mutant) no is_processed before the writes.
CheckNothing(c) ==
    /\ pc[c] = "check"
    /\ IF Current(c) \in Ignored
       THEN GoTo(c, "commit") /\ UNCHANGED idx
       ELSE GoTo(c, "write") /\ idx' = [idx EXCEPT ![c] = 1]
    /\ UNCHANGED <<broker, group, position, at, graph, tables, budget, history>>

\* is_processed: a message that was processed goes straight to the commit.
Check(c) ==
    /\ pc[c] = "check"
    /\ IF Current(c) \in Ignored \cup processed
       THEN GoTo(c, "commit") /\ UNCHANGED idx
       ELSE GoTo(c, "write") /\ idx' = [idx EXCEPT ![c] = 1]
    /\ UNCHANGED <<broker, group, position, at, graph, tables, budget, history>>

CheckFails(c) ==
    /\ pc[c] = "check" /\ Current(c) \notin Ignored
    /\ Fault /\ Raise(c)
    /\ UNCHANGED <<broker, group, position, graph, tables, moves,
                   executed, failed, lost, missed>>

\* What one query does to the graph.  An edge query whose V() steps match
\* nothing adds nothing and is no error; neither is an update of no vertex.
Apply(e, i) ==
    LET s == Steps[e][i] IN
    /\ vertices' = vertices \cup {n \in {s.src} : s.op \in NodeOps}
    /\ status' = [status EXCEPT ![s.src] =
                     IF s.sets /\ s.src \in vertices' THEN e ELSE @]
    /\ edges' = edges \cup {w \in {EdgeOf(s)} :
                     s.op = "upsert_edge" /\ {s.src, s.tgt} \subseteq vertices}
    /\ executed' = executed \cup {<<e, i>>}

\* (mutant) one step too many.
AdvanceTooFar(c) ==
    IF idx[c] <= Len(Steps[Current(c)])
    THEN idx' = [idx EXCEPT ![c] = @ + 1] /\ UNCHANGED <<pc, at>>
    ELSE GoTo(c, "mark") /\ idx' = [idx EXCEPT ![c] = 0] /\ UNCHANGED at

\* (mutant) the stubs of the missing endpoints are not written.
AdvancePastStubs(c) ==
    LET ops == [i \in DOMAIN Steps[Current(c)] |-> Steps[Current(c)][i].op] IN
    IF \E i \in DOMAIN ops : i > idx[c] /\ ops[i] # "stub"
    THEN /\ idx' = [idx EXCEPT ![c] = CHOOSE i \in DOMAIN ops : i > @ /\ ops[i] # "stub"
                            /\ \A j \in DOMAIN ops : j > @ /\ j < i => ops[j] = "stub"]
         /\ UNCHANGED <<pc, at>>
    ELSE GoTo(c, "mark") /\ idx' = [idx EXCEPT ![c] = 0] /\ UNCHANGED at

Advance(c) ==
    IF idx[c] < Len(Steps[Current(c)])
    THEN idx' = [idx EXCEPT ![c] = @ + 1] /\ UNCHANGED <<pc, at>>
    ELSE GoTo(c, "mark") /\ idx' = [idx EXCEPT ![c] = 0] /\ UNCHANGED at

WriteOk(c) ==
    /\ pc[c] = "write"
    /\ Apply(Current(c), idx[c])
    /\ Advance(c)
    /\ UNCHANGED <<broker, group, position, tables, budget,
                   failed, lost, raised, missed>>

\* The key of a dead letter is FAIL#<second>#<node id> and the operation: two
\* edges between the same ids share it whatever their relation.
DlqKey(d) ==
    LET s == Steps[d[1]][d[2]]
    IN  IF s.op = "upsert_edge" THEN <<"upsert_edge", s.src[2], s.tgt[2]>>
        ELSE <<"upsert_node", s.src[1], s.src[2]>>

\* write_dlq: stored; stored over the letter of the same key and second; or
\* the put fails, which is only logged.
WriteDlq(d) ==
    \/ dlq' = dlq \cup {d} /\ UNCHANGED lost
    \/ \E old \in dlq \ {d} :
          /\ DlqKey(old) = DlqKey(d)
          /\ dlq' = (dlq \ {old}) \cup {d} /\ lost' = lost \cup {old}
    \/ UNCHANGED dlq /\ lost' = lost \cup {d}

\* The call raises.  On a timeout Neptune may have run the query all the same.
WriteFails(c) ==
    LET e  == Current(c)
        d  == <<e, idx[c]>>
        op == Steps[e][idx[c]].op
    IN  /\ pc[c] = "write" /\ Fault
        /\ Apply(e, idx[c]) \/ UNCHANGED <<graph, executed>>
        /\ failed' = failed \cup {d}
        /\ IF op \in DlqOps THEN WriteDlq(d) ELSE UNCHANGED <<dlq, lost>>
        /\ IF op \in RaisingOps THEN Raise(c) ELSE Advance(c) /\ UNCHANGED raised
        /\ UNCHANGED <<broker, group, position, processed, moves, missed>>

Mark(c) ==
    /\ pc[c] = "mark"
    /\ processed' = processed \cup {Current(c)}
    /\ GoTo(c, "commit")
    /\ UNCHANGED <<broker, group, position, at, idx, graph, dlq, budget, history>>

\* The put raises, and may have been stored.
MarkFails(c) ==
    /\ pc[c] = "mark" /\ Fault
    /\ processed' = processed \cup {Current(c)} \/ UNCHANGED processed
    /\ Raise(c)
    /\ UNCHANGED <<broker, group, position, graph, dlq, moves,
                   executed, failed, lost, missed>>

\* (mutant) positions of partitions that c has lost are stored as well.
CommitLostPositions(c) ==
    /\ pc[c] = "commit" /\ owner[at[c][1]] = c
    /\ committed' = [p \in Partitions |->
                        IF position[c][p] > 0 THEN position[c][p] ELSE committed[p]]
    /\ Finish(c)
    /\ UNCHANGED <<broker, owner, position, graph, tables, budget, history>>

\* commit() stores the positions of all partitions of c, not only the one of
\* the message at hand.
Commit(c) ==
    /\ pc[c] = "commit" /\ owner[at[c][1]] = c
    /\ committed' = [p \in Partitions |->
                        IF owner[p] = c THEN position[c][p] ELSE committed[p]]
    /\ Finish(c)
    /\ UNCHANGED <<broker, owner, position, graph, tables, budget, history>>

\* The group has gone on without c, or the broker does not answer.
CommitFails(c) ==
    /\ pc[c] = "commit"
    /\ (owner[at[c][1]] # c /\ UNCHANGED faults) \/ Fault
    /\ Finish(c)
    /\ UNCHANGED <<broker, group, position, graph, tables, moves, history>>

-----------------------------------------------------------------------------
(* scripts/replay-dlq.py and the console's dlq-replay: the stored query of   *)
(* any letter, run again, whatever else has been written since.             *)

Replay(d) ==
    /\ Apply(d[1], d[2])
    /\ dlq' = dlq \ {d}
    /\ UNCHANGED <<broker, group, thread, processed, budget, failed, lost, raised, missed>>

\* The query fails or its answer is lost, or the delete fails: the letter stays.
ReplayFails(d) ==
    /\ Fault
    /\ Apply(d[1], d[2]) \/ UNCHANGED <<graph, executed>>
    /\ UNCHANGED <<broker, group, thread, tables, moves, failed, lost, raised, missed>>

-----------------------------------------------------------------------------
Work(c) ==
    \/ \E p \in Partitions : Poll(c, p)
    \/ Check(c) \/ CheckFails(c)
    \/ WriteOk(c) \/ WriteFails(c)
    \/ Mark(c) \/ MarkFails(c)
    \/ Commit(c) \/ CommitFails(c)

Next ==
    \/ Publish
    \/ \E c \in Instances :
          \/ Start(c) \/ Crash(c) \/ ThreadExit(c) \/ Revoke(c) \/ Work(c)
          \/ \E p \in Partitions : Assign(p, c)
    \/ \E d \in dlq : Replay(d) \/ ReplayFails(d)

Spec == Init /\ [][Next]_vars

\* A running thread goes on, ECS restarts a task that died, and the group
\* gives an orphaned partition to a member that polls.  Nothing makes
\* producers send, operators replay, or a dead thread come back.
Fairness ==
    /\ \A c \in Instances : WF_vars(Work(c)) /\ WF_vars(Start(c))
    /\ \A p \in Partitions : WF_vars(\E c \in Instances : Assign(p, c))
FairSpec == Spec /\ Fairness

-----------------------------------------------------------------------------
(* Properties *)

BrokerTypes ==
    /\ log \in [Partitions -> Seq(Events)] /\ sent \in 0 .. Len(Source)
    /\ owner \in [Partitions -> Instances \cup {NoInstance}]
    /\ committed \in [Partitions -> Int]
ThreadTypes ==
    /\ position \in [Instances -> [Partitions -> Nat]]
    /\ pc \in [Instances -> {"down", "dead", "polling", "check", "write", "mark", "commit"}]
    /\ at \in [Instances -> Messages \cup {NoMessage}]
    /\ idx \in [Instances -> Nat]
StoreTypes ==
    /\ vertices \subseteq Nodes /\ edges \subseteq Nodes \X STRING \X Nodes
    /\ status \in [Nodes -> Events \cup {NoEvent}]
    /\ processed \subseteq Events
    /\ dlq \subseteq Events \X Nat /\ lost \subseteq Events \X Nat
    /\ executed \subseteq Events \X Nat /\ failed \subseteq Events \X Nat
    /\ raised \subseteq Messages /\ missed \subseteq Messages
BudgetTypes == faults \in 0 .. MaxFaults /\ moves \in 0 .. MaxMoves
\* No position is past the end of its log, a busy thread is at a message of
\* the log, and what it writes, or a letter holds, is a step of its event.
OffsetsInRange ==
    /\ \A p \in Partitions : committed[p] \in NoOffset .. Len(log[p])
    /\ \A c \in Instances, p \in Partitions : position[c][p] \in 0 .. Len(log[p])
    /\ \A c \in Instances : Busy(c) =>
          at[c] \in Messages /\ at[c][2] \in 1 .. Len(log[at[c][1]])
StepsInRange ==
    /\ \A c \in Instances : pc[c] = "write" => idx[c] \in 1 .. Len(Steps[Current(c)])
    /\ \A d \in dlq : d[2] \in 1 .. Len(Steps[d[1]])

\* Every variable has its type, and every offset and step index its range.
TypeOK ==
    /\ BrokerTypes /\ ThreadTypes /\ StoreTypes /\ BudgetTypes
    /\ OffsetsInRange /\ StepsInRange

\* A message is done with: its event was handled or needs no handling, or the
\* two ways in which the code gives a message up.
Settled(p, o) ==
    \/ o <= Len(log[p]) /\ log[p][o] \in processed \cup Ignored
    \/ <<p, o>> \in raised \cup missed

\* The group's committed position never covers a message that nobody is done
\* with, whatever crashes, rebalances and zombie threads there are: commit()
\* stores the positions of every partition, and the iterator's position is
\* past a message before its handler has run (main.py 98-111).
CommittedIsSettled ==
    \A p \in Partitions : \A o \in 1 .. committed[p] : Settled(p, o)

\* The graph has the write, or the dead letter table, or write_dlq lost it.
\* The RDF copy is left out: its failures are only logged.
Accounted(e, i) ==
    Steps[e][i].op # "rdf" => <<e, i>> \in executed \cup dlq \cup lost

\* An event marked as processed is never handled again, so each of its graph
\* calls must have run, or wait in the dead letter table, or be one whose
\* letter write_dlq lost (graph_writer.py 82-101, 210-248).
MarkedIsAccounted ==
    \A e \in processed : \A i \in DOMAIN Steps[e] : Accounted(e, i)

\* An edge query that ran and left no edge follows a failed upsert of one of
\* its endpoints by the same event: _ensure_edge_endpoints covers everything
\* else (graph_writer.py 218-248).
DroppedEdgeHasFailedEndpoint ==
    \A d \in executed :
        LET s == Steps[d[1]][d[2]] IN
        s.op = "upsert_edge" /\ EdgeOf(s) \notin edges =>
            \E j \in 1 .. (d[2] - 1) :
                LET t == Steps[d[1]][j] IN
                /\ t.op \in NodeOps /\ t.src \in {s.src, s.tgt}
                /\ <<d[1], j>> \in failed

\* All copies of a precede all copies of b in their partition's log.
Earlier(a, b) ==
    LET l == log[PartitionOf[a]]
        Copies(e) == {o \in DOMAIN l : l[o] = e}
    IN  /\ PartitionOf[a] = PartitionOf[b] /\ Copies(a) # {}
        /\ \A o \in Copies(a), q \in Copies(b) : o < q

\* The step is a write of thread c, which owns the partition of its message.
OwnerWrites(c) == pc[c] = "write" /\ owner[at[c][1]] = c /\ idx'[c] # idx[c]

\* "Same-entity events stay ordered" (main.py 6), as far as the code keeps it:
\* a thread that owns the partition replaces the state of a later event by
\* that of an earlier one only when an earlier delivery of it had raised.
OwnerWritesForward ==
    [][\A c \in Instances, n \in Nodes :
          /\ OwnerWrites(c) /\ status[n] \in Events
          /\ status'[n] # status[n] /\ Earlier(status'[n], status[n])
          => \E m \in raised : log[m[1]][m[2]] = status'[n]]_vars

\* "Same-entity events stay ordered" (main.py 6), at rest: once every message
\* is committed, and no graph write ever failed, no vertex holds the state of
\* an event sent before another one that was processed and wrote it too.
SameEntityOrdered ==
    failed = {} /\ (\A p \in Partitions : committed[p] = Len(log[p])) =>
        \A n \in Nodes : \A e \in processed :
            (\E i \in DOMAIN Steps[e] : Steps[e][i].src = n /\ Steps[e][i].sets)
            /\ status[n] \in Events => ~Earlier(status[n], e)

\* An older state over a newer one has a failed call behind it: an event that
\* was handled after the one a vertex shows has lost its own write, or the
\* one shown was given up and delivered again, or its write failed and came
\* back as a dead letter, which a replay runs whatever was written since
\* (replay-dlq.py 57-103, main.py 98-116).  With one task: no zombies.
OlderStateHasFailure ==
    \A n \in Nodes, e \in processed :
        LET Writes(d) == d[1] \in {e, status[n]} /\ Steps[d[1]][d[2]].src = n
        IN  /\ status[n] \in Events /\ Earlier(status[n], e)
            /\ \E i \in DOMAIN Steps[e] : Steps[e][i].src = n /\ Steps[e][i].sets
            => \/ \E d \in failed : Writes(d)
               \/ \E m \in raised : log[m[1]][m[2]] = status[n]

\* The group as its producers may rely on it.
D == INSTANCE Delivery WITH Idle <- Ignored, handled <- processed,
                            givenUp <- raised \cup missed

\* The threads of the group, with their crashes, zombies and failed calls,
\* implement Delivery: no position goes back or passes a message nobody is
\* done with, and no message is skipped but by a handler that raised or by
\* the first join at 'latest' (main.py 60-116, graph_writer.py 67-79).
ImplementsDelivery == D!Spec

\* Once the dead letter table has been replayed to the end, and no letter was
\* lost on the way, every processed event has all its edges in the graph.
ReplayCompletesThread ==
    dlq = {} /\ lost = {} =>
        \A e \in processed : \A i \in DOMAIN Steps[e] :
            Steps[e][i].op = "upsert_edge" => EdgeOf(Steps[e][i]) \in edges

\* Every message that is sent is settled in the end, however often threads
\* crash and partitions move, unless every thread of the topic has exited
\* for good (main() detects that and does nothing, main.py 164-172).
EveryMessageSettles ==
    \A p \in Partitions : \A o \in 1 .. Len(Source) :
        (o <= Len(log[p])) ~> (Settled(p, o) \/ \A c \in Instances : pc[c] = "dead")
=============================================================================
