------------------------- MODULE FastConsumer_proofs -------------------------
(***************************************************************************)
(* Proofs about FastConsumer, for every number of instances, partitions,   *)
(* events and steps, and every bound on faults and moves: types, what is   *)
(* settled when it is committed, what a mark accounts for, why an edge is  *)
(* missing, in which order the states of a vertex are written, and that    *)
(* the specification implements Delivery.                                  *)
(***************************************************************************)
EXTENDS FastConsumer, TLAPS

\* Nothing is sent, no thread runs and every table is empty: all have their types.
LEMMA InitTypeOK == Init => TypeOK
<1> SUFFICES ASSUME Init PROVE TypeOK
  OBVIOUS
<1> USE EventsAssumption, BoundsAssumption DEF Init, NoOffset, NoMessage
<1>1. BrokerTypes BY DEF BrokerTypes
<1>2. ThreadTypes BY DEF ThreadTypes
<1>3. StoreTypes /\ BudgetTypes BY DEF StoreTypes, BudgetTypes
<1>4. OffsetsInRange BY DEF OffsetsInRange, Busy
<1>5. StepsInRange BY DEF StepsInRange
<1> QED BY <1>1, <1>2, <1>3, <1>4, <1>5 DEF TypeOK

\* A send keeps every log a sequence of events and every message where it was.
LEMMA PublishGrows ==
    ASSUME TypeOK, Publish
    PROVE  /\ log' \in [Partitions -> Seq(Events)]
           /\ \A p \in Partitions :
                /\ Len(log'[p]) \in Nat /\ Len(log'[p]) >= Len(log[p])
                /\ \A o \in 1 .. Len(log[p]) : log'[p][o] = log[p][o]
<1> USE EventsAssumption
<1> DEFINE e == Source[sent + 1]
           q == PartitionOf[e]
<1>0. /\ e \in Events /\ q \in Partitions
      /\ log' = [log EXCEPT ![q] = Append(@, e)]
  BY DEF TypeOK, BrokerTypes, Publish
<1>1. log' \in [Partitions -> Seq(Events)] BY <1>0 DEF TypeOK, BrokerTypes
<1>2. ASSUME NEW p \in Partitions
      PROVE  /\ Len(log'[p]) \in Nat /\ Len(log'[p]) >= Len(log[p])
             /\ \A o \in 1 .. Len(log[p]) : log'[p][o] = log[p][o]
  <2>1. log[p] \in Seq(Events) /\ log \in [Partitions -> Seq(Events)]
    BY DEF TypeOK, BrokerTypes
  <2>2. CASE p = q
    <3>1. log'[p] = Append(log[p], e) BY <1>0, <2>1, <2>2
    <3> HIDE DEF e
    <3> QED BY <1>0, <2>1, <3>1
  <2>3. CASE p # q
    BY <1>0, <2>1, <2>3
  <2> QED BY <2>2, <2>3
<1> QED BY <1>1, <1>2

\* The send of a producer keeps the types and the ranges of the offsets.
LEMMA PublishTypeOK == TypeOK /\ Publish => TypeOK'
<1> SUFFICES ASSUME TypeOK, Publish PROVE TypeOK'
  OBVIOUS
<1> USE EventsAssumption DEF NoOffset, NoMessage, Messages
<1> USE DEF broker, group, thread, graph, tables, budget, history
<1>1. BrokerTypes' BY PublishGrows, SMTT(30) DEF TypeOK, BrokerTypes, Publish
<1>2. \A p \in Partitions :
        /\ Len(log'[p]) \in Nat /\ Len(log'[p]) >= Len(log[p])
        /\ \A o \in 1 .. Len(log[p]) : log'[p][o] = log[p][o]
  BY PublishGrows
<1>a. UNCHANGED <<group, thread, graph, tables, budget, history>> BY DEF Publish
<1>b. \A p \in Partitions : Len(log[p]) \in Nat BY DEF TypeOK, BrokerTypes
<1>3. ThreadTypes' BY DEF TypeOK, ThreadTypes, Publish
<1>4. StoreTypes' /\ BudgetTypes' BY DEF TypeOK, StoreTypes, BudgetTypes, Publish
<1>5. OffsetsInRange'
  <2>1. \A p \in Partitions : committed'[p] \in NoOffset .. Len(log'[p])
    BY <1>2, <1>a, <1>b DEF TypeOK, OffsetsInRange
  <2>2. \A c \in Instances, p \in Partitions : position'[c][p] \in 0 .. Len(log'[p])
    BY <1>2, <1>a, <1>b DEF TypeOK, OffsetsInRange
  <2>3. \A c \in Instances : Busy(c)' =>
          at'[c] \in Messages /\ at'[c][2] \in 1 .. Len(log'[at'[c][1]])
    BY <1>2, <1>a, <1>b DEF TypeOK, OffsetsInRange, Busy
  <2> QED BY <2>1, <2>2, <2>3 DEF OffsetsInRange
<1>6. StepsInRange'
  <2>1. ASSUME NEW c \in Instances, pc'[c] = "write"
        PROVE  idx'[c] \in 1 .. Len(Steps[Current(c)'])
    <3>1. Busy(c) /\ pc[c] = "write" /\ at' = at /\ idx' = idx BY <2>1 DEF Publish, Busy
    <3>2. at[c] \in Partitions \X (Nat \ {0}) /\ at[c][2] \in 1 .. Len(log[at[c][1]])
      BY <3>1 DEF TypeOK, OffsetsInRange
    <3>3. Current(c)' = Current(c) BY <3>1, <3>2, <1>2 DEF Current
    <3> QED BY <3>1, <3>3 DEF TypeOK, StepsInRange
  <2> QED BY <2>1 DEF TypeOK, StepsInRange, Publish
<1> QED BY <1>1, <1>3, <1>4, <1>5, <1>6 DEF TypeOK

\* What the parts of TypeOK say about a busy thread.
LEMMA BusyThread ==
    ASSUME TypeOK, NEW c \in Instances, Busy(c)
    PROVE  /\ at[c] \in Messages /\ at[c] = <<at[c][1], at[c][2]>>
           /\ at[c][1] \in Partitions /\ at[c][2] \in 1 .. Len(log[at[c][1]])
           /\ Current(c) \in Events
           /\ Steps[Current(c)] \in Seq(Step)
           /\ pc[c] = "write" => /\ idx[c] \in Nat /\ idx[c] \in 1 .. Len(Steps[Current(c)])
                                 /\ Steps[Current(c)][idx[c]] \in Step
<1> USE EventsAssumption
<1>1. at[c] \in Messages /\ at[c][2] \in 1 .. Len(log[at[c][1]])
  BY DEF TypeOK, OffsetsInRange
<1>2. at[c] = <<at[c][1], at[c][2]>> /\ at[c][1] \in Partitions
  BY <1>1 DEF Messages
<1>3. Current(c) \in Events
  BY <1>1, <1>2 DEF TypeOK, BrokerTypes, Current
<1>4. Steps[Current(c)] \in Seq(Step)
  BY <1>3
<1>5. ASSUME pc[c] = "write"
      PROVE  /\ idx[c] \in Nat /\ idx[c] \in 1 .. Len(Steps[Current(c)])
             /\ Steps[Current(c)][idx[c]] \in Step
  <2>1. idx[c] \in Nat /\ idx[c] \in 1 .. Len(Steps[Current(c)])
    BY <1>5 DEF TypeOK, StepsInRange, ThreadTypes
  <2> QED BY <2>1, <1>4
<1> QED BY <1>1, <1>2, <1>3, <1>4, <1>5

\* A letter in the table is about a step that its event's handler really has.
LEMMA DeadLetter ==
    ASSUME TypeOK, NEW d \in dlq
    PROVE  /\ d = <<d[1], d[2]>> /\ d[1] \in Events /\ d[2] \in 1 .. Len(Steps[d[1]])
           /\ Steps[d[1]] \in Seq(Step) /\ Steps[d[1]][d[2]] \in Step
<1>1. d \in Events \X Nat BY DEF TypeOK, StoreTypes
<1>2. d[2] \in 1 .. Len(Steps[d[1]]) BY DEF TypeOK, StepsInRange
<1>3. Steps[d[1]] \in Seq(Step) BY <1>1, EventsAssumption
<1> QED BY <1>1, <1>2, <1>3

\* A query keeps the graph well typed.
LEMMA ApplyTypes ==
    ASSUME TypeOK, NEW e \in Events, NEW i \in Nat, Steps[e][i] \in Step, Apply(e, i)
    PROVE  /\ vertices' \subseteq Nodes /\ edges' \subseteq Nodes \X STRING \X Nodes
           /\ status' \in [Nodes -> Events \cup {NoEvent}]
           /\ executed' \subseteq Events \X Nat
<1> DEFINE s == Steps[e][i]
<1>1. s.src \in Nodes /\ s.tgt \in Nodes /\ s.rel \in STRING BY DEF Step
<1> HIDE DEF s
<1>2. vertices' \subseteq Nodes BY <1>1 DEF Apply, TypeOK, StoreTypes, s
<1>3. edges' \subseteq Nodes \X STRING \X Nodes
  <2>1. EdgeOf(s) \in Nodes \X STRING \X Nodes BY <1>1 DEF EdgeOf
  <2> QED BY <2>1 DEF Apply, TypeOK, StoreTypes, s
<1>4. status' \in [Nodes -> Events \cup {NoEvent}]
  BY <1>1 DEF Apply, TypeOK, StoreTypes
<1>5. executed' \subseteq Events \X Nat BY DEF Apply, TypeOK, StoreTypes
<1> QED BY <1>2, <1>3, <1>4, <1>5

\* A failed call stays within the bound on failed calls.
LEMMA FaultBudget ==
    ASSUME BudgetTypes, Fault, UNCHANGED moves
    PROVE  BudgetTypes'
BY BoundsAssumption DEF BudgetTypes, Fault

\* A crash, exit or lost session stays within the bound on these.
LEMMA MoveBudget ==
    ASSUME BudgetTypes, Move, UNCHANGED faults
    PROVE  BudgetTypes'
BY BoundsAssumption DEF BudgetTypes, Move

\* The launch of a thread keeps the types.
LEMMA StartTypeOK ==
    ASSUME NEW c \in Instances, TypeOK, Start(c)
    PROVE  TypeOK'
<1> USE EventsAssumption DEF NoOffset, NoMessage, Messages,
      broker, group, thread, graph, tables, budget, history
<1>1. BrokerTypes' BY DEF TypeOK, BrokerTypes, Start
<1>2. ThreadTypes' BY DEF TypeOK, BrokerTypes, ThreadTypes, Start, GoTo
<1>3. StoreTypes' BY DEF TypeOK, ThreadTypes, StoreTypes, OffsetsInRange, Start
<1>b. BudgetTypes' BY DEF TypeOK, BudgetTypes, Start
<1>4. OffsetsInRange' BY DEF TypeOK, OffsetsInRange, Busy, Start, GoTo
<1>5. StepsInRange' BY DEF TypeOK, StoreTypes, StepsInRange, OffsetsInRange, Busy, Current, Start, GoTo
<1> QED BY <1>1, <1>2, <1>3, <1>b, <1>4, <1>5 DEF TypeOK

\* The end of a task, wherever its thread is, keeps the types.
LEMMA CrashTypeOK ==
    ASSUME NEW c \in Instances, TypeOK, Crash(c)
    PROVE  TypeOK'
<1> USE EventsAssumption DEF NoOffset, NoMessage, Messages,
      broker, group, thread, graph, tables, budget, history
<1>1. BrokerTypes' BY DEF TypeOK, BrokerTypes, Crash, Stop
<1>2. ThreadTypes' BY DEF TypeOK, BrokerTypes, ThreadTypes, Crash, Stop, GoTo
<1>3. StoreTypes' BY DEF TypeOK, ThreadTypes, StoreTypes, OffsetsInRange, Current, Crash, Stop
<1>b. BudgetTypes' BY MoveBudget DEF TypeOK, Crash, Stop
<1>4. OffsetsInRange' BY DEF TypeOK, ThreadTypes, OffsetsInRange, Busy, Crash, Stop, GoTo
<1>5. StepsInRange' BY DEF TypeOK, ThreadTypes, StoreTypes, StepsInRange, OffsetsInRange, Busy, Current, Crash, Stop, GoTo
<1> QED BY <1>1, <1>2, <1>3, <1>b, <1>4, <1>5 DEF TypeOK

\* The exit of a thread keeps the types.
LEMMA ThreadExitTypeOK ==
    ASSUME NEW c \in Instances, TypeOK, ThreadExit(c)
    PROVE  TypeOK'
<1> USE EventsAssumption DEF NoOffset, NoMessage, Messages,
      broker, group, thread, graph, tables, budget, history
<1>1. BrokerTypes' BY DEF TypeOK, BrokerTypes, ThreadExit, Stop
<1>2. ThreadTypes' BY DEF TypeOK, BrokerTypes, ThreadTypes, ThreadExit, Stop, GoTo
<1>3. StoreTypes' BY DEF TypeOK, ThreadTypes, StoreTypes, OffsetsInRange, Current, ThreadExit, Stop
<1>b. BudgetTypes' BY MoveBudget DEF TypeOK, ThreadExit, Stop
<1>4. OffsetsInRange' BY DEF TypeOK, OffsetsInRange, Busy, ThreadExit, Stop, GoTo
<1>5. StepsInRange' BY DEF TypeOK, StoreTypes, StepsInRange, OffsetsInRange, Busy, Current, ThreadExit, Stop, GoTo
<1> QED BY <1>1, <1>2, <1>3, <1>b, <1>4, <1>5 DEF TypeOK

\* The loss of the partitions of a running thread keeps the types.
LEMMA RevokeTypeOK ==
    ASSUME NEW c \in Instances, TypeOK, Revoke(c)
    PROVE  TypeOK'
<1> USE EventsAssumption DEF NoOffset, NoMessage, Messages,
      broker, group, thread, graph, tables, budget, history
<1>1. BrokerTypes' BY DEF TypeOK, BrokerTypes, Revoke
<1>2. ThreadTypes' BY DEF TypeOK, BrokerTypes, ThreadTypes, Revoke
<1>3. StoreTypes' BY DEF TypeOK, ThreadTypes, StoreTypes, Revoke
<1>b. BudgetTypes' BY MoveBudget DEF TypeOK, Revoke, Stop
<1>4. OffsetsInRange' BY DEF TypeOK, OffsetsInRange, Busy, Revoke
<1>5. StepsInRange' BY DEF TypeOK, StoreTypes, StepsInRange, OffsetsInRange, Current, Revoke
<1> QED BY <1>1, <1>2, <1>3, <1>b, <1>4, <1>5 DEF TypeOK

\* Replacing one position by one within the log keeps the positions in range.
LEMMA PositionTypes ==
    ASSUME TypeOK, NEW c \in Instances, NEW p \in Partitions,
           NEW v \in 0 .. Len(log[p]), log' = log,
           position' = [position EXCEPT ![c][p] = v]
    PROVE  /\ position' \in [Instances -> [Partitions -> Nat]]
           /\ \A b \in Instances, q \in Partitions : position'[b][q] \in 0 .. Len(log'[q])
<1>1. /\ position \in [Instances -> [Partitions -> Nat]]
      /\ \A b \in Instances, q \in Partitions : position[b][q] \in 0 .. Len(log[q])
      /\ Len(log[p]) \in Nat
  BY DEF TypeOK, ThreadTypes, OffsetsInRange
<1>2. v \in Nat BY <1>1
<1>3. [position[c] EXCEPT ![p] = v] \in [Partitions -> Nat] BY <1>1, <1>2
<1>4. position' = [position EXCEPT ![c] = [position[c] EXCEPT ![p] = v]] OBVIOUS
<1>5. position' \in [Instances -> [Partitions -> Nat]] BY <1>1, <1>3, <1>4
<1>6. ASSUME NEW b \in Instances, NEW q \in Partitions
      PROVE  position'[b][q] = IF b = c /\ q = p THEN v ELSE position[b][q]
  BY <1>1, <1>4
<1> QED BY <1>1, <1>5, <1>6

\* The next message of the iterator is one of the log.
LEMMA PollTypeOK ==
    ASSUME NEW c \in Instances, NEW p \in Partitions, TypeOK, Poll(c, p)
    PROVE  TypeOK'
<1> USE EventsAssumption DEF NoOffset, NoMessage, Messages,
      broker, group, thread, graph, tables, budget, history
<1>a. /\ log' = log /\ Len(log[p]) \in Nat /\ position[c][p] \in Nat
      /\ position[c][p] + 1 \in 1 .. Len(log[p])
  <2>1. log' = log /\ Len(log[p]) \in Nat BY DEF TypeOK, BrokerTypes, Poll
  <2>2. position[c][p] \in 0 .. Len(log[p]) BY DEF TypeOK, OffsetsInRange
  <2>3. position[c][p] < Len(log[p]) BY DEF Poll
  <2> QED BY <2>1, <2>2, <2>3
<1>c. /\ position' = [position EXCEPT ![c][p] = position[c][p] + 1]
      /\ position[c][p] + 1 \in 0 .. Len(log[p])
  BY <1>a DEF Poll
<1>d. /\ position' \in [Instances -> [Partitions -> Nat]]
      /\ \A b \in Instances, q \in Partitions : position'[b][q] \in 0 .. Len(log'[q])
  BY <1>a, <1>c, PositionTypes
<1>e. at' = [at EXCEPT ![c] = <<p, position[c][p] + 1>>] BY DEF Poll
<1>f. <<p, position[c][p] + 1>> \in Partitions \X (Nat \ {0}) BY <1>a
<1>1. BrokerTypes' BY DEF TypeOK, BrokerTypes, Poll
<1>2. ThreadTypes'
  <2>1. at' \in [Instances -> Messages \cup {NoMessage}]
    BY <1>e, <1>f DEF TypeOK, ThreadTypes
  <2> QED BY <1>d, <2>1 DEF TypeOK, ThreadTypes, Poll, GoTo
<1>3. StoreTypes' BY DEF TypeOK, BrokerTypes, ThreadTypes, StoreTypes, Poll
<1>b. BudgetTypes' BY DEF TypeOK, BudgetTypes, Poll
<1>4. OffsetsInRange'
  <2>1. \A q \in Partitions : committed'[q] \in NoOffset .. Len(log'[q])
    BY <1>a DEF TypeOK, OffsetsInRange, Poll
  <2>2. ASSUME NEW b \in Instances, Busy(b)'
        PROVE  at'[b] \in Messages /\ at'[b][2] \in 1 .. Len(log'[at'[b][1]])
    <3>1. CASE b = c
      <4>1. at'[b] = <<p, position[c][p] + 1>> BY <1>e, <3>1 DEF TypeOK, ThreadTypes
      <4> QED BY <4>1, <1>a, <1>f
    <3>2. CASE b # c
      <4>1. at'[b] = at[b] /\ Busy(b) BY <1>e, <2>2, <3>2 DEF Poll, GoTo, Busy
      <4> QED BY <4>1, <1>a DEF TypeOK, OffsetsInRange
    <3> QED BY <3>1, <3>2
  <2> QED BY <1>d, <2>1, <2>2 DEF OffsetsInRange
<1>5. StepsInRange' BY DEF TypeOK, StepsInRange, Current, Poll, GoTo
<1> QED BY <1>1, <1>2, <1>3, <1>b, <1>4, <1>5 DEF TypeOK

\* A new owner starts at a position of the log.
LEMMA AssignTypeOK ==
    ASSUME NEW c \in Instances, NEW p \in Partitions, TypeOK, Assign(p, c)
    PROVE  TypeOK'
<1> USE EventsAssumption DEF NoOffset, NoMessage, Messages,
      broker, group, thread, graph, tables, budget, history
<1>a. log' = log /\ Len(log[p]) \in Nat BY DEF TypeOK, BrokerTypes, Assign
<1>c. PICK v \in 0 .. Len(log[p]) : position' = [position EXCEPT ![c][p] = v]
  <2>1. CASE committed[p] = NoOffset
    <3>1. Len(log[p]) \in 0 .. Len(log[p]) BY <1>a
    <3> QED BY <2>1, <3>1 DEF Assign
  <2>2. CASE committed[p] # NoOffset
    <3>1. committed[p] \in 0 .. Len(log[p]) BY <1>a, <2>2 DEF TypeOK, OffsetsInRange
    <3> QED BY <2>2, <3>1 DEF Assign
  <2> QED BY <2>1, <2>2
<1>d. /\ position' \in [Instances -> [Partitions -> Nat]]
      /\ \A b \in Instances, q \in Partitions : position'[b][q] \in 0 .. Len(log'[q])
  BY <1>a, <1>c, PositionTypes
<1>1. BrokerTypes' BY DEF TypeOK, BrokerTypes, Assign
<1>2. ThreadTypes' BY <1>d DEF TypeOK, ThreadTypes, Assign
<1>3. StoreTypes'
  <2>1. {<<p, o>> : o \in 1 .. Len(log[p])} \subseteq Messages BY <1>a
  <2>2. missed' \subseteq Messages BY <2>1 DEF TypeOK, StoreTypes, Assign
  <2> QED BY <2>2 DEF TypeOK, StoreTypes, Assign
<1>b. BudgetTypes' BY DEF TypeOK, BudgetTypes, Assign
<1>4. OffsetsInRange' BY <1>a, <1>d DEF TypeOK, OffsetsInRange, Busy, Assign
<1>5. StepsInRange' BY DEF TypeOK, BrokerTypes, ThreadTypes, StoreTypes, StepsInRange, Current, Assign
<1> QED BY <1>1, <1>2, <1>3, <1>b, <1>4, <1>5 DEF TypeOK

\* A handler that starts has a first step, as ignored events have none.
LEMMA CheckTypeOK ==
    ASSUME NEW c \in Instances, TypeOK, Check(c)
    PROVE  TypeOK'
<1> USE EventsAssumption DEF NoOffset, NoMessage, Messages,
      broker, group, thread, graph, tables, budget, history
<1>a. /\ Busy(c) /\ Current(c) \in Events /\ Steps[Current(c)] \in Seq(Step)
  BY BusyThread DEF Check, Busy
<1>c. /\ idx \in [Instances -> Nat] /\ pc \in [Instances -> {"down", "dead", "polling", "check", "write", "mark", "commit"}]
  BY DEF TypeOK, ThreadTypes
<1>d. idx' = idx \/ idx' = [idx EXCEPT ![c] = 1] BY DEF Check
<1>e. idx' \in [Instances -> Nat] BY <1>c, <1>d
<1>1. BrokerTypes' BY DEF TypeOK, BrokerTypes, Check
<1>2. ThreadTypes' BY <1>e DEF TypeOK, ThreadTypes, Check, GoTo
<1>3. StoreTypes' BY DEF TypeOK, BrokerTypes, ThreadTypes, StoreTypes, Check
<1>b. BudgetTypes' BY DEF TypeOK, BudgetTypes, Check
<1>4. OffsetsInRange' BY DEF TypeOK, ThreadTypes, OffsetsInRange, Busy, Check, GoTo
<1>5. StepsInRange'
  <2>1. ASSUME NEW b \in Instances, pc'[b] = "write"
        PROVE  idx'[b] \in 1 .. Len(Steps[Current(b)'])
    <3>1. Current(b)' = Current(b) BY DEF Current, Check
    <3>2. CASE b = c
      <4>1. Current(c) \notin Ignored /\ idx'[c] = 1
        BY <1>c, <2>1, <3>2 DEF Check, GoTo
      <4>2. Steps[Current(c)] # <<>> BY <1>a, <4>1 DEF Ignored
      <4>3. 1 \in 1 .. Len(Steps[Current(c)]) BY <1>a, <4>2
      <4> QED BY <3>1, <3>2, <4>1, <4>3
    <3>3. CASE b # c
      <4>1. pc[b] = "write" /\ idx'[b] = idx[b] BY <1>c, <2>1, <3>3 DEF Check, GoTo
      <4> QED BY <3>1, <4>1 DEF TypeOK, StepsInRange
    <3> QED BY <3>2, <3>3
  <2> QED BY <2>1 DEF TypeOK, StepsInRange, Check
<1> QED BY <1>1, <1>2, <1>3, <1>b, <1>4, <1>5 DEF TypeOK

\* A failed read of the processed table keeps the types.
LEMMA CheckFailsTypeOK ==
    ASSUME NEW c \in Instances, TypeOK, CheckFails(c)
    PROVE  TypeOK'
<1> USE EventsAssumption DEF NoOffset, NoMessage, Messages,
      broker, group, thread, graph, tables, budget, history
<1>1. BrokerTypes' BY DEF TypeOK, BrokerTypes, CheckFails
<1>2. ThreadTypes' BY DEF TypeOK, BrokerTypes, ThreadTypes, CheckFails, Raise, Finish, GoTo
<1>3. StoreTypes' BY DEF TypeOK, ThreadTypes, StoreTypes, OffsetsInRange, Busy, Current, CheckFails, Raise
<1>b. BudgetTypes' BY FaultBudget DEF TypeOK, CheckFails
<1>4. OffsetsInRange' BY DEF TypeOK, ThreadTypes, OffsetsInRange, Busy, CheckFails, Raise, Finish, GoTo
<1>5. StepsInRange' BY DEF TypeOK, ThreadTypes, StoreTypes, StepsInRange, OffsetsInRange, Current, CheckFails, Fault, Raise, Finish, GoTo
<1> QED BY <1>1, <1>2, <1>3, <1>b, <1>4, <1>5 DEF TypeOK

\* The next step of the thread, or the end of its handler.
LEMMA AdvanceTypes ==
    ASSUME TypeOK, NEW c \in Instances, pc[c] = "write", Advance(c), log' = log
    PROVE  /\ pc' \in [Instances -> {"down", "dead", "polling", "check", "write", "mark", "commit"}]
           /\ idx' \in [Instances -> Nat] /\ at' = at
           /\ \A b \in Instances : Busy(b)' => Busy(b)
           /\ \A b \in Instances : pc'[b] = "write" => idx'[b] \in 1 .. Len(Steps[Current(b)'])
<1> USE DEF GoTo
<1>1. /\ idx \in [Instances -> Nat]
      /\ pc \in [Instances -> {"down", "dead", "polling", "check", "write", "mark", "commit"}]
  BY DEF TypeOK, ThreadTypes
<1>2. /\ idx[c] \in Nat /\ idx[c] \in 1 .. Len(Steps[Current(c)])
      /\ Steps[Current(c)] \in Seq(Step) /\ Len(Steps[Current(c)]) \in Nat
  BY BusyThread DEF Busy
<1>3. at' = at /\ \A b \in Instances : Current(b)' = Current(b) BY DEF Advance, Current
<1>4. CASE idx[c] < Len(Steps[Current(c)])
  <2>1. idx' = [idx EXCEPT ![c] = idx[c] + 1] /\ pc' = pc BY <1>4 DEF Advance
  <2>2. idx[c] + 1 \in Nat /\ idx[c] + 1 \in 1 .. Len(Steps[Current(c)]) BY <1>2, <1>4
  <2>3. idx' \in [Instances -> Nat] BY <1>1, <2>1, <2>2
  <2>4. \A b \in Instances : Busy(b)' => Busy(b) BY <2>1 DEF Busy
  <2>5. ASSUME NEW b \in Instances, pc'[b] = "write"
        PROVE  idx'[b] \in 1 .. Len(Steps[Current(b)'])
    <3>1. CASE b = c BY <1>1, <1>3, <2>1, <2>2, <3>1
    <3>2. CASE b # c
      <4>1. idx'[b] = idx[b] /\ pc[b] = "write" BY <1>1, <2>1, <2>5, <3>2
      <4> QED BY <1>3, <4>1 DEF TypeOK, StepsInRange
    <3> QED BY <3>1, <3>2
  <2> QED BY <1>1, <1>3, <2>1, <2>3, <2>4, <2>5
<1>5. CASE ~(idx[c] < Len(Steps[Current(c)]))
  <2>1. idx' = [idx EXCEPT ![c] = 0] /\ pc' = [pc EXCEPT ![c] = "mark"] BY <1>5 DEF Advance
  <2>2. /\ idx' \in [Instances -> Nat]
        /\ pc' \in [Instances -> {"down", "dead", "polling", "check", "write", "mark", "commit"}]
    BY <1>1, <2>1
  <2>3. \A b \in Instances : Busy(b)' => Busy(b) BY <1>1, <2>1 DEF Busy
  <2>4. ASSUME NEW b \in Instances, pc'[b] = "write"
        PROVE  idx'[b] \in 1 .. Len(Steps[Current(b)'])
    <3>1. b # c /\ pc[b] = "write" /\ idx'[b] = idx[b] BY <1>1, <2>1, <2>4
    <3> QED BY <1>3, <3>1 DEF TypeOK, StepsInRange
  <2> QED BY <1>3, <2>2, <2>3, <2>4
<1> QED BY <1>4, <1>5

\* A store call that succeeds keeps the types, and moves on to a step that exists.
LEMMA WriteOkTypeOK ==
    ASSUME NEW c \in Instances, TypeOK, WriteOk(c)
    PROVE  TypeOK'
<1> USE DEF broker, group, thread, graph, tables, budget, history
<1>a. /\ Busy(c) /\ pc[c] = "write" /\ log' = log /\ Advance(c) /\ Apply(Current(c), idx[c])
  BY DEF WriteOk, Busy
<1>b. /\ pc' \in [Instances -> {"down", "dead", "polling", "check", "write", "mark", "commit"}]
      /\ idx' \in [Instances -> Nat] /\ at' = at
      /\ \A b \in Instances : Busy(b)' => Busy(b)
      /\ \A b \in Instances : pc'[b] = "write" => idx'[b] \in 1 .. Len(Steps[Current(b)'])
  BY <1>a, AdvanceTypes
<1>c. /\ vertices' \subseteq Nodes /\ edges' \subseteq Nodes \X STRING \X Nodes
      /\ status' \in [Nodes -> Events \cup {NoEvent}] /\ executed' \subseteq Events \X Nat
  BY <1>a, BusyThread, ApplyTypes
<1>1. BrokerTypes' BY DEF TypeOK, BrokerTypes, WriteOk
<1>2. ThreadTypes' BY <1>b DEF TypeOK, ThreadTypes, WriteOk
<1>3. StoreTypes' /\ BudgetTypes' BY <1>c DEF TypeOK, StoreTypes, BudgetTypes, WriteOk
<1>4. OffsetsInRange' BY <1>b DEF TypeOK, OffsetsInRange, WriteOk
<1>5. StepsInRange' BY <1>b DEF TypeOK, StepsInRange, WriteOk
<1> QED BY <1>1, <1>2, <1>3, <1>4, <1>5 DEF TypeOK

\* So does one that fails, whatever becomes of its dead letter.
LEMMA WriteFailsTypeOK ==
    ASSUME NEW c \in Instances, TypeOK, WriteFails(c)
    PROVE  TypeOK'
<1> USE DEF broker, group, thread, graph, tables, budget, history
<1> DEFINE e == Current(c)
           d == <<e, idx[c]>>
<1>a. /\ Busy(c) /\ pc[c] = "write" /\ log' = log /\ Fault
      /\ Apply(e, idx[c]) \/ UNCHANGED <<graph, executed>>
  BY DEF WriteFails, Busy
<1>b. /\ e \in Events /\ idx[c] \in Nat /\ idx[c] \in 1 .. Len(Steps[e])
      /\ Steps[e][idx[c]] \in Step /\ d \in Events \X Nat /\ at[c] \in Messages
  BY <1>a, BusyThread
<1>c. /\ vertices' \subseteq Nodes /\ edges' \subseteq Nodes \X STRING \X Nodes
      /\ status' \in [Nodes -> Events \cup {NoEvent}] /\ executed' \subseteq Events \X Nat
  <2>1. CASE Apply(e, idx[c])
    <3> HIDE DEF e
    <3> QED BY <1>b, <2>1, ApplyTypes
  <2>2. CASE UNCHANGED <<graph, executed>> BY <2>2 DEF TypeOK, StoreTypes
  <2> QED BY <1>a, <2>1, <2>2
<1>d. /\ dlq' \subseteq dlq \cup {d} /\ lost' \subseteq lost \cup dlq \cup {d}
      /\ failed' = failed \cup {d}
  BY DEF WriteFails, WriteDlq
<1>e. /\ pc' \in [Instances -> {"down", "dead", "polling", "check", "write", "mark", "commit"}]
      /\ idx' \in [Instances -> Nat] /\ at' \in [Instances -> Messages \cup {NoMessage}]
      /\ raised' \subseteq Messages
      /\ \A b \in Instances : Busy(b)' => Busy(b) /\ at'[b] = at[b]
      /\ \A b \in Instances : pc'[b] = "write" => idx'[b] \in 1 .. Len(Steps[Current(b)'])
  <2>1. CASE Raise(c)
    <3>1. /\ pc' = [pc EXCEPT ![c] = "polling"] /\ idx' = [idx EXCEPT ![c] = 0]
          /\ at' = [at EXCEPT ![c] = NoMessage] /\ raised' = raised \cup {at[c]}
      BY <2>1 DEF Raise, Finish, GoTo
    <3>2. ASSUME NEW b \in Instances, Busy(b)'
          PROVE  Busy(b) /\ b # c /\ at'[b] = at[b] /\ idx'[b] = idx[b] /\ pc'[b] = pc[b]
      BY <3>1, <3>2 DEF TypeOK, ThreadTypes, Busy
    <3>3. ASSUME NEW b \in Instances, pc'[b] = "write"
          PROVE  idx'[b] \in 1 .. Len(Steps[Current(b)'])
      <4>1. Current(b)' = Current(b) /\ idx'[b] = idx[b] /\ pc[b] = "write"
        BY <1>a, <3>2, <3>3 DEF Current, Busy
      <4> QED BY <4>1 DEF TypeOK, StepsInRange
    <3> QED BY <1>b, <3>1, <3>2, <3>3 DEF TypeOK, ThreadTypes, StoreTypes
  <2>2. CASE Advance(c) /\ UNCHANGED raised
    <3>1. at' = at BY <2>2, <1>a, AdvanceTypes
    <3> QED BY <1>a, <2>2, <3>1, AdvanceTypes DEF TypeOK, ThreadTypes, StoreTypes
  <2> QED BY <2>1, <2>2 DEF WriteFails
<1> HIDE DEF e, d
<1>1. BrokerTypes' BY DEF TypeOK, BrokerTypes, WriteFails
<1>2. ThreadTypes' BY <1>e DEF TypeOK, ThreadTypes, WriteFails
<1>3. StoreTypes' BY <1>b, <1>c, <1>d, <1>e DEF TypeOK, StoreTypes, WriteFails
<1>f. BudgetTypes' BY <1>a, FaultBudget DEF TypeOK, WriteFails
<1>4. OffsetsInRange' BY <1>e DEF TypeOK, OffsetsInRange, WriteFails
<1>5. StepsInRange'
  <2>1. \A x \in dlq' : x[2] \in 1 .. Len(Steps[x[1]])
    BY <1>b, <1>d DEF d, TypeOK, StepsInRange
  <2> QED BY <1>e, <2>1 DEF StepsInRange
<1> QED BY <1>1, <1>2, <1>3, <1>f, <1>4, <1>5 DEF TypeOK

\* Marking an event keeps the types.
LEMMA MarkTypeOK ==
    ASSUME NEW c \in Instances, TypeOK, Mark(c)
    PROVE  TypeOK'
<1> USE EventsAssumption DEF NoOffset, NoMessage, Messages,
      broker, group, thread, graph, tables, budget, history
<1>a. Busy(c) /\ Current(c) \in Events /\ at[c] \in Messages BY BusyThread DEF Mark, Busy
<1>1. BrokerTypes' BY DEF TypeOK, BrokerTypes, Mark
<1>2. ThreadTypes' BY DEF TypeOK, BrokerTypes, ThreadTypes, Mark, GoTo
<1>3. StoreTypes' BY <1>a DEF TypeOK, StoreTypes, Mark, Raise
<1>b. BudgetTypes' BY DEF TypeOK, BudgetTypes, Mark
<1>4. OffsetsInRange' BY DEF TypeOK, OffsetsInRange, Busy, Mark, GoTo
<1>5. StepsInRange' BY DEF TypeOK, StoreTypes, StepsInRange, OffsetsInRange, Busy, Current, Mark, GoTo
<1> QED BY <1>1, <1>2, <1>3, <1>b, <1>4, <1>5 DEF TypeOK

\* A failed mark keeps the types.
LEMMA MarkFailsTypeOK ==
    ASSUME NEW c \in Instances, TypeOK, MarkFails(c)
    PROVE  TypeOK'
<1> USE EventsAssumption DEF NoOffset, NoMessage, Messages,
      broker, group, thread, graph, tables, budget, history
<1>a. Busy(c) /\ Current(c) \in Events /\ at[c] \in Messages BY BusyThread DEF MarkFails, Busy
<1>1. BrokerTypes' BY DEF TypeOK, BrokerTypes, MarkFails
<1>2. ThreadTypes' BY DEF TypeOK, BrokerTypes, ThreadTypes, MarkFails, Raise, Finish, GoTo
<1>3. StoreTypes' BY <1>a DEF TypeOK, StoreTypes, MarkFails, Raise
<1>b. BudgetTypes' BY FaultBudget DEF TypeOK, MarkFails
<1>4. OffsetsInRange' BY DEF TypeOK, ThreadTypes, OffsetsInRange, Busy, MarkFails, Raise, Finish, GoTo
<1>5. StepsInRange' BY DEF TypeOK, ThreadTypes, StoreTypes, StepsInRange, OffsetsInRange, Current, MarkFails, Fault, Raise, Finish, GoTo
<1> QED BY <1>1, <1>2, <1>3, <1>b, <1>4, <1>5 DEF TypeOK

\* Committed positions are positions of the log.
LEMMA CommitTypeOK ==
    ASSUME NEW c \in Instances, TypeOK, Commit(c)
    PROVE  TypeOK'
<1> USE EventsAssumption DEF NoOffset, NoMessage, Messages,
      broker, group, thread, graph, tables, budget, history
<1>1. BrokerTypes' BY DEF TypeOK, BrokerTypes, ThreadTypes, Commit
<1>2. ThreadTypes' BY DEF TypeOK, BrokerTypes, ThreadTypes, Commit, Finish, GoTo
<1>3. StoreTypes' BY DEF TypeOK, ThreadTypes, StoreTypes, OffsetsInRange, Busy, Commit
<1>b. BudgetTypes' BY DEF TypeOK, BudgetTypes, Commit
<1>4. OffsetsInRange'
  <2>1. ASSUME NEW q \in Partitions
        PROVE  committed'[q] \in NoOffset .. Len(log'[q])
    <3>1. committed'[q] \in {position[c][q], committed[q]} /\ log' = log BY DEF Commit
    <3>2. position[c][q] \in 0 .. Len(log[q]) /\ committed[q] \in NoOffset .. Len(log[q])
      BY DEF TypeOK, OffsetsInRange
    <3> QED BY <3>1, <3>2 DEF TypeOK, BrokerTypes
  <2>2. \A b \in Instances, q \in Partitions : position'[b][q] \in 0 .. Len(log'[q])
    BY DEF TypeOK, OffsetsInRange, Commit
  <2>3. \A b \in Instances : Busy(b)' =>
          at'[b] \in Messages /\ at'[b][2] \in 1 .. Len(log'[at'[b][1]])
    BY DEF TypeOK, ThreadTypes, OffsetsInRange, Commit, Finish, GoTo, Busy
  <2> QED BY <2>1, <2>2, <2>3 DEF OffsetsInRange
<1>5. StepsInRange' BY DEF TypeOK, StepsInRange, Current, Commit, Finish, GoTo
<1> QED BY <1>1, <1>2, <1>3, <1>b, <1>4, <1>5 DEF TypeOK

\* A failed commit keeps the types.
LEMMA CommitFailsTypeOK ==
    ASSUME NEW c \in Instances, TypeOK, CommitFails(c)
    PROVE  TypeOK'
<1> USE EventsAssumption DEF NoOffset, NoMessage, Messages,
      broker, group, thread, graph, tables, budget, history
<1>1. BrokerTypes' BY DEF TypeOK, BrokerTypes, CommitFails
<1>2. ThreadTypes' BY DEF TypeOK, BrokerTypes, ThreadTypes, CommitFails, Finish, GoTo
<1>3. StoreTypes' BY DEF TypeOK, ThreadTypes, StoreTypes, Busy, Current, CommitFails
<1>b. BudgetTypes' BY FaultBudget DEF TypeOK, BudgetTypes, CommitFails
<1>4. OffsetsInRange' BY DEF TypeOK, ThreadTypes, OffsetsInRange, Busy, CommitFails, Finish, GoTo
<1>5. StepsInRange' BY DEF TypeOK, ThreadTypes, StoreTypes, StepsInRange, OffsetsInRange, Current, CommitFails, Finish, GoTo
<1> QED BY <1>1, <1>2, <1>3, <1>b, <1>4, <1>5 DEF TypeOK

\* The replay of a letter keeps the types.
LEMMA ReplayTypeOK ==
    ASSUME NEW d \in dlq, TypeOK, Replay(d)
    PROVE  TypeOK'
<1> USE EventsAssumption DEF NoOffset, NoMessage, Messages,
      broker, group, thread, graph, tables, budget, history
<1>a. /\ d[1] \in Events /\ d[2] \in Nat /\ Steps[d[1]][d[2]] \in Step
  BY DeadLetter DEF TypeOK, StoreTypes
<1>1. BrokerTypes' BY DEF TypeOK, BrokerTypes, Replay
<1>2. ThreadTypes' BY DEF TypeOK, BrokerTypes, ThreadTypes, Replay
<1>3. StoreTypes'
  <2>1. /\ vertices' \subseteq Nodes /\ edges' \subseteq Nodes \X STRING \X Nodes
        /\ status' \in [Nodes -> Events \cup {NoEvent}]
        /\ executed' \subseteq Events \X Nat
    BY <1>a, ApplyTypes DEF Replay
  <2> QED BY <2>1 DEF TypeOK, StoreTypes, Replay
<1>b. BudgetTypes' BY DEF TypeOK, BudgetTypes, Replay
<1>4. OffsetsInRange' BY DEF TypeOK, OffsetsInRange, Busy, Replay
<1>5. StepsInRange' BY DEF TypeOK, StoreTypes, StepsInRange, OffsetsInRange, Current, Replay
<1> QED BY <1>1, <1>2, <1>3, <1>b, <1>4, <1>5 DEF TypeOK

\* A failed replay keeps the types.
LEMMA ReplayFailsTypeOK ==
    ASSUME NEW d \in dlq, TypeOK, ReplayFails(d)
    PROVE  TypeOK'
<1> USE EventsAssumption DEF NoOffset, NoMessage, Messages,
      broker, group, thread, graph, tables, budget, history
<1>a. /\ d[1] \in Events /\ d[2] \in Nat /\ Steps[d[1]][d[2]] \in Step
  BY DeadLetter DEF TypeOK, StoreTypes
<1>1. BrokerTypes' BY DEF TypeOK, BrokerTypes, ReplayFails
<1>2. ThreadTypes' BY DEF TypeOK, BrokerTypes, ThreadTypes, ReplayFails
<1>3. StoreTypes'
  <2>1. /\ vertices' \subseteq Nodes /\ edges' \subseteq Nodes \X STRING \X Nodes
        /\ status' \in [Nodes -> Events \cup {NoEvent}]
        /\ executed' \subseteq Events \X Nat
    <3>1. CASE Apply(d[1], d[2]) BY <1>a, <3>1, ApplyTypes
    <3>2. CASE UNCHANGED <<graph, executed>> BY <3>2 DEF TypeOK, StoreTypes
    <3> QED BY <3>1, <3>2 DEF ReplayFails
  <2> QED BY <2>1 DEF TypeOK, StoreTypes, ReplayFails
<1>b. BudgetTypes' BY FaultBudget DEF TypeOK, ReplayFails
<1>4. OffsetsInRange' BY DEF TypeOK, OffsetsInRange, Busy, ReplayFails
<1>5. StepsInRange' BY DEF TypeOK, StoreTypes, StepsInRange, OffsetsInRange, Current, ReplayFails
<1> QED BY <1>1, <1>2, <1>3, <1>b, <1>4, <1>5 DEF TypeOK

\* TypeOK is inductive.
LEMMA NextTypeOK == TypeOK /\ [Next]_vars => TypeOK'
<1> SUFFICES ASSUME TypeOK, [Next]_vars PROVE TypeOK'
  OBVIOUS
<1>1. CASE Publish BY <1>1, PublishTypeOK
<1>2. ASSUME NEW c \in Instances, Start(c) \/ Crash(c) \/ ThreadExit(c) \/ Revoke(c)
      PROVE  TypeOK'
  BY <1>2, StartTypeOK, CrashTypeOK, ThreadExitTypeOK, RevokeTypeOK
<1>3. ASSUME NEW c \in Instances, Work(c) PROVE TypeOK'
  BY <1>3, PollTypeOK, CheckTypeOK, CheckFailsTypeOK, WriteOkTypeOK, WriteFailsTypeOK,
     MarkTypeOK, MarkFailsTypeOK, CommitTypeOK, CommitFailsTypeOK DEF Work
<1>4. ASSUME NEW c \in Instances, NEW p \in Partitions, Assign(p, c) PROVE TypeOK'
  BY <1>4, AssignTypeOK
<1>5. ASSUME NEW d \in dlq, Replay(d) \/ ReplayFails(d) PROVE TypeOK'
  BY <1>5, ReplayTypeOK, ReplayFailsTypeOK
<1>6. CASE UNCHANGED vars
  BY <1>6 DEF TypeOK, BrokerTypes, ThreadTypes, StoreTypes, BudgetTypes, OffsetsInRange,
     StepsInRange, Busy, Current, vars, broker, group, thread, graph, tables, budget, history
<1> QED BY <1>1, <1>2, <1>3, <1>4, <1>5, <1>6 DEF Next

\* Every variable has its type and every index its range, in every state.
THEOREM TypeCorrect == Spec => []TypeOK
<1> QED BY InitTypeOK, NextTypeOK, PTL DEF Spec

-----------------------------------------------------------------------------
(* CommittedIsSettled.  commit() stores positions, so the invariant has to  *)
(* say what a position of the owner covers: messages that are settled, and  *)
(* at most the one that the owner is working on.                            *)

OwnedIsSettled ==
    \A c \in Instances, p \in Partitions : owner[p] = c =>
        \A o \in 1 .. position[c][p] :
            Settled(p, o) \/ (Busy(c) /\ at[c] = <<p, o>>)
DoneIsSettled ==
    \A c \in Instances, p \in Partitions, o \in Nat \ {0} :
        pc[c] = "commit" /\ at[c] = <<p, o>> => Settled(p, o)
SettledInv == OwnedIsSettled /\ DoneIsSettled /\ CommittedIsSettled

\* What makes a message settled is never taken back.
LEMMA SettlersGrow ==
    ASSUME TypeOK, [Next]_vars
    PROVE  /\ processed \subseteq processed' /\ raised \subseteq raised'
           /\ missed \subseteq missed'
           /\ \A p \in Partitions :
                /\ Len(log[p]) \in Nat /\ Len(log'[p]) \in Nat /\ Len(log[p]) <= Len(log'[p])
                /\ \A o \in 1 .. Len(log[p]) : log'[p][o] = log[p][o]
<1> USE DEF broker, group, thread, graph, tables, budget, history
<1>0. \A p \in Partitions : log[p] \in Seq(Events) /\ Len(log[p]) \in Nat
  BY DEF TypeOK, BrokerTypes
<1>1. CASE Publish
  BY <1>1, PublishGrows DEF Publish
<1>2. CASE log' = log /\ processed \subseteq processed' /\ raised \subseteq raised'
           /\ missed \subseteq missed'
  BY <1>0, <1>2
<1>3. ASSUME NEW c \in Instances, Start(c) \/ Crash(c) \/ ThreadExit(c) \/ Revoke(c)
      PROVE  log' = log /\ UNCHANGED <<processed, raised, missed>>
  BY <1>3 DEF Start, Crash, ThreadExit, Revoke, Stop
<1>4. ASSUME NEW c \in Instances, Work(c)
      PROVE  /\ log' = log /\ processed \subseteq processed' /\ raised \subseteq raised'
             /\ missed' = missed
  <2>1. ASSUME NEW p \in Partitions, Poll(c, p) PROVE log' = log /\ UNCHANGED <<processed, raised, missed>>
    BY <2>1 DEF Poll
  <2>2. CASE Check(c) \/ CheckFails(c) BY <2>2 DEF Check, CheckFails, Raise
  <2>3. CASE WriteOk(c) BY <2>3 DEF WriteOk
  <2>4. CASE WriteFails(c) BY <2>4 DEF WriteFails, Raise
  <2>5. CASE Mark(c) \/ MarkFails(c) BY <2>5 DEF Mark, MarkFails, Raise
  <2>6. CASE Commit(c) \/ CommitFails(c) BY <2>6 DEF Commit, CommitFails
  <2> QED BY <1>4, <2>1, <2>2, <2>3, <2>4, <2>5, <2>6 DEF Work
<1>5. ASSUME NEW c \in Instances, NEW p \in Partitions, Assign(p, c)
      PROVE  log' = log /\ UNCHANGED <<processed, raised>> /\ missed \subseteq missed'
  BY <1>5 DEF Assign
<1>6. ASSUME NEW d \in dlq, Replay(d) \/ ReplayFails(d)
      PROVE  log' = log /\ UNCHANGED <<processed, raised, missed>>
  BY <1>6 DEF Replay, ReplayFails
<1>7. CASE UNCHANGED vars BY <1>2, <1>7 DEF vars
<1> QED BY <1>1, <1>2, <1>3, <1>4, <1>5, <1>6, <1>7 DEF Next

\* So a settled message stays settled.
LEMMA SettledStays ==
    ASSUME TypeOK, [Next]_vars, NEW p \in Partitions, NEW o \in Nat \ {0}, Settled(p, o)
    PROVE  Settled(p, o)'
<1>1. CASE o <= Len(log[p]) /\ log[p][o] \in processed \cup Ignored
  <2>1. o \in 1 .. Len(log[p]) BY <1>1, SettlersGrow
  <2>2. o <= Len(log'[p]) /\ log'[p][o] = log[p][o] BY <2>1, SettlersGrow
  <2>3. Ignored' = Ignored BY DEF Ignored
  <2> QED BY <1>1, <2>2, <2>3, SettlersGrow DEF Settled
<1>2. CASE <<p, o>> \in raised \cup missed
  BY <1>2, SettlersGrow DEF Settled
<1> QED BY <1>1, <1>2 DEF Settled

\* A step that gives nobody a partition or a new position, and after which a
\* message is left, or is ready to be committed, only when it is settled.
LEMMA SettledFrame ==
    ASSUME TypeOK, TypeOK', [Next]_vars, SettledInv,
           \A c \in Instances, p \in Partitions : owner'[p] = c =>
               owner[p] = c /\ position'[c][p] = position[c][p],
           \A c \in Instances, p \in Partitions, o \in Nat \ {0} :
               Busy(c) /\ at[c] = <<p, o>> =>
                   \/ (Busy(c))' /\ at'[c] = at[c]
                   \/ Settled(p, o)'
                   \/ \A q \in Partitions : owner'[q] # c,
           \A c \in Instances, p \in Partitions, o \in Nat \ {0} :
               pc'[c] = "commit" /\ at'[c] = <<p, o>> =>
                   at[c] = <<p, o>> /\ (pc[c] = "commit" \/ Settled(p, o)')
    PROVE  OwnedIsSettled' /\ DoneIsSettled'
<1>1. ASSUME NEW c \in Instances, NEW p \in Partitions, owner'[p] = c,
             NEW o \in 1 .. position'[c][p]
      PROVE  Settled(p, o)' \/ ((Busy(c))' /\ at'[c] = <<p, o>>)
  <2>1. owner[p] = c /\ o \in 1 .. position[c][p] BY <1>1
  <2>2. o \in Nat \ {0} BY <2>1 DEF TypeOK, ThreadTypes
  <2>3. CASE Settled(p, o) BY <2>2, <2>3, SettledStays
  <2>4. CASE Busy(c) /\ at[c] = <<p, o>>
    <3>1. ((Busy(c))' /\ at'[c] = at[c]) \/ Settled(p, o)' BY <1>1, <2>2, <2>4
    <3> QED BY <2>4, <3>1
  <2> QED BY <2>1, <2>3, <2>4 DEF SettledInv, OwnedIsSettled
<1>2. ASSUME NEW c \in Instances, NEW p \in Partitions, NEW o \in Nat \ {0},
             pc'[c] = "commit", at'[c] = <<p, o>>
      PROVE  Settled(p, o)'
  <2>1. at[c] = <<p, o>> /\ (pc[c] = "commit" \/ Settled(p, o)') BY <1>2
  <2>2. CASE pc[c] = "commit"
    <3>1. Settled(p, o) BY <2>1, <2>2 DEF SettledInv, DoneIsSettled
    <3> QED BY <3>1, SettledStays
  <2> QED BY <2>1, <2>2
<1>3. OwnedIsSettled' BY <1>1 DEF OwnedIsSettled
<1>4. DoneIsSettled' BY <1>2 DEF DoneIsSettled
<1> QED BY <1>3, <1>4

\* A step that commits nothing leaves the committed messages settled.
LEMMA CommittedFrame ==
    ASSUME TypeOK, TypeOK', [Next]_vars, CommittedIsSettled, committed' = committed
    PROVE  CommittedIsSettled'
<1> SUFFICES ASSUME NEW p \in Partitions, NEW o \in 1 .. committed[p]
             PROVE  Settled(p, o)'
  BY DEF CommittedIsSettled
<1>1. o \in Nat \ {0} BY DEF TypeOK, BrokerTypes
<1>2. Settled(p, o) BY DEF CommittedIsSettled
<1> QED BY <1>1, <1>2, SettledStays

\* Where a busy thread is, in the words of Settled.
LEMMA AtMessage ==
    ASSUME TypeOK, NEW c \in Instances, Busy(c),
           NEW p \in Partitions, NEW o \in Nat \ {0}, at[c] = <<p, o>>
    PROVE  o <= Len(log[p]) /\ Current(c) = log[p][o]
<1>1. at[c][1] = p /\ at[c][2] = o OBVIOUS
<1>2. Len(log[p]) \in Nat BY DEF TypeOK, BrokerTypes
<1> QED BY <1>1, <1>2, BusyThread DEF Current

\* Losing the partitions, with or without the thread.
LEMMA LeaveSettled ==
    ASSUME TypeOK, TypeOK', SettledInv, [Next]_vars, NEW c \in Instances,
           Crash(c) \/ ThreadExit(c) \/ Revoke(c)
    PROVE  SettledInv'
<1> USE DEF broker, group, thread, graph, tables, budget, history
<1>1. /\ owner' = [p \in Partitions |-> IF owner[p] = c THEN NoInstance ELSE owner[p]]
      /\ committed' = committed
      /\ \A b \in Instances : b # c => /\ position'[b] = position[b] /\ at'[b] = at[b]
                                       /\ pc'[b] = pc[b]
      /\ pc'[c] = "commit" => pc[c] = "commit" /\ at'[c] = at[c]
  BY DEF TypeOK, ThreadTypes, Crash, ThreadExit, Revoke, Stop, GoTo
<1>2. \A p \in Partitions : owner'[p] # c BY <1>1, EventsAssumption
<1>3. \A b \in Instances, p \in Partitions : owner'[p] = b =>
          owner[p] = b /\ position'[b][p] = position[b][p]
  BY <1>1, <1>2, EventsAssumption
<1>4. \A b \in Instances, p \in Partitions, o \in Nat \ {0} :
          Busy(b) /\ at[b] = <<p, o>> =>
              ((Busy(b))' /\ at'[b] = at[b]) \/ (\A q \in Partitions : owner'[q] # b)
  BY <1>1, <1>2 DEF Busy
<1>5. \A b \in Instances, p \in Partitions, o \in Nat \ {0} :
          pc'[b] = "commit" /\ at'[b] = <<p, o>> => at[b] = <<p, o>> /\ pc[b] = "commit"
  BY <1>1
<1>6. OwnedIsSettled' /\ DoneIsSettled'
  BY <1>3, <1>4, <1>5, SettledFrame
<1>7. CommittedIsSettled' BY <1>1, CommittedFrame DEF SettledInv
<1> QED BY <1>6, <1>7 DEF SettledInv

\* A step of thread c on its message, which leaves it in the hands of c or
\* settles it.
LEMMA HandleSettled ==
    ASSUME TypeOK, TypeOK', SettledInv, [Next]_vars, NEW c \in Instances, Busy(c),
           UNCHANGED <<owner, position, committed>>,
           \A b \in Instances : b # c => pc'[b] = pc[b] /\ at'[b] = at[b],
           \A p \in Partitions, o \in Nat \ {0} : at[c] = <<p, o>> =>
               ((Busy(c))' /\ at'[c] = at[c]) \/ Settled(p, o)',
           pc'[c] = "commit" => at'[c] = at[c],
           \A p \in Partitions, o \in Nat \ {0} :
               at[c] = <<p, o>> /\ pc'[c] = "commit" => Settled(p, o)'
    PROVE  SettledInv'
<1>1. \A b \in Instances, p \in Partitions, o \in Nat \ {0} :
          Busy(b) /\ at[b] = <<p, o>> => ((Busy(b))' /\ at'[b] = at[b]) \/ Settled(p, o)'
  BY DEF Busy
<1>2. \A b \in Instances, p \in Partitions, o \in Nat \ {0} :
          pc'[b] = "commit" /\ at'[b] = <<p, o>> =>
              at[b] = <<p, o>> /\ (pc[b] = "commit" \/ Settled(p, o)')
  OBVIOUS
<1>3. OwnedIsSettled' /\ DoneIsSettled' BY <1>1, <1>2, SettledFrame
<1>4. CommittedIsSettled' BY CommittedFrame DEF SettledInv
<1> QED BY <1>3, <1>4 DEF SettledInv

\* The check of a processed or ignored event leads to a commit of a settled message.
LEMMA CheckSettled ==
    ASSUME TypeOK, TypeOK', SettledInv, [Next]_vars, NEW c \in Instances, Check(c)
    PROVE  SettledInv'
<1> USE DEF broker, group, thread, graph, tables, budget, history
<1>1. /\ Busy(c) /\ (Busy(c))' /\ at' = at
      /\ \A b \in Instances : b # c => pc'[b] = pc[b]
      /\ pc'[c] = "commit" => Current(c) \in Ignored \cup processed
  BY DEF TypeOK, ThreadTypes, Check, GoTo, Busy
<1>2. ASSUME NEW p \in Partitions, NEW o \in Nat \ {0}, at[c] = <<p, o>>, pc'[c] = "commit"
      PROVE  Settled(p, o)'
  <2>1. o <= Len(log[p]) /\ log[p][o] \in Ignored \cup processed
    BY <1>1, <1>2, AtMessage
  <2>2. Settled(p, o) BY <2>1 DEF Settled
  <2> QED BY <2>2, SettledStays
<1> QED BY <1>1, <1>2, HandleSettled DEF Check

\* A message whose handler raised is settled by being given up.
LEMMA RaiseSettled ==
    ASSUME TypeOK, TypeOK', SettledInv, [Next]_vars, NEW c \in Instances, Busy(c), Raise(c),
           UNCHANGED <<owner, position, committed>>
    PROVE  SettledInv'
<1>1. /\ pc'[c] = "polling" /\ raised' = raised \cup {at[c]}
      /\ \A b \in Instances : b # c => pc'[b] = pc[b] /\ at'[b] = at[b]
  BY DEF TypeOK, ThreadTypes, Raise, Finish, GoTo
<1>2. \A p \in Partitions, o \in Nat \ {0} : at[c] = <<p, o>> => Settled(p, o)'
  BY <1>1 DEF Settled
<1> QED BY <1>1, <1>2, HandleSettled

\* A store call leaves the message in hand, or gives it up.
LEMMA WriteSettled ==
    ASSUME TypeOK, TypeOK', SettledInv, [Next]_vars, NEW c \in Instances,
           WriteOk(c) \/ WriteFails(c)
    PROVE  SettledInv'
<1> USE DEF broker, group, thread, graph, tables, budget, history
<1>1. Busy(c) /\ UNCHANGED <<owner, position, committed>>
  BY DEF WriteOk, WriteFails, Busy
<1>2. CASE Raise(c) BY <1>1, <1>2, RaiseSettled
<1>3. CASE Advance(c)
  <2>1. /\ pc'[c] \in {"write", "mark"} /\ at' = at
        /\ \A b \in Instances : b # c => pc'[b] = pc[b]
    BY <1>3 DEF TypeOK, ThreadTypes, Advance, GoTo, WriteOk, WriteFails
  <2>2. (Busy(c))' BY <2>1 DEF Busy
  <2> QED BY <1>1, <2>1, <2>2, HandleSettled
<1> QED BY <1>2, <1>3 DEF WriteOk, WriteFails

\* A message whose event is marked is settled.
LEMMA MarkSettled ==
    ASSUME TypeOK, TypeOK', SettledInv, [Next]_vars, NEW c \in Instances, Mark(c)
    PROVE  SettledInv'
<1> USE DEF broker, group, thread, graph, tables, budget, history
<1>1. /\ Busy(c) /\ (Busy(c))' /\ at' = at /\ log' = log
      /\ \A b \in Instances : b # c => pc'[b] = pc[b]
      /\ processed' = processed \cup {Current(c)}
  BY DEF Mark, GoTo, Busy
<1>2. \A p \in Partitions, o \in Nat \ {0} : at[c] = <<p, o>> => Settled(p, o)'
  BY <1>1, AtMessage DEF Settled
<1> QED BY <1>1, <1>2, HandleSettled DEF Mark

\* A message is committed, or not, after it is settled; so are those before it.
LEMMA CommitSettled ==
    ASSUME TypeOK, TypeOK', SettledInv, [Next]_vars, NEW c \in Instances,
           Commit(c) \/ CommitFails(c)
    PROVE  SettledInv'
<1> USE DEF broker, group, thread, graph, tables, budget, history
<1>1. /\ pc[c] = "commit" /\ Busy(c) /\ UNCHANGED <<owner, position>> /\ pc'[c] = "polling"
      /\ \A b \in Instances : b # c => pc'[b] = pc[b] /\ at'[b] = at[b]
  BY DEF TypeOK, ThreadTypes, Commit, CommitFails, Finish, GoTo, Busy
<1>2. ASSUME NEW p \in Partitions, NEW o \in Nat \ {0}, at[c] = <<p, o>>
      PROVE  Settled(p, o) /\ Settled(p, o)'
  <2>1. Settled(p, o) BY <1>1, <1>2 DEF SettledInv, DoneIsSettled
  <2> QED BY <2>1, SettledStays
<1>3. CASE CommitFails(c)
  BY <1>1, <1>2, <1>3, HandleSettled DEF CommitFails
<1>4. CASE Commit(c)
  <2>1. \A b \in Instances, p \in Partitions, o \in Nat \ {0} :
            Busy(b) /\ at[b] = <<p, o>> => ((Busy(b))' /\ at'[b] = at[b]) \/ Settled(p, o)'
    BY <1>1, <1>2 DEF Busy
  <2>2. \A b \in Instances, p \in Partitions, o \in Nat \ {0} :
            pc'[b] = "commit" /\ at'[b] = <<p, o>> => at[b] = <<p, o>> /\ pc[b] = "commit"
    BY <1>1
  <2>3. OwnedIsSettled' /\ DoneIsSettled' BY <1>1, <2>1, <2>2, SettledFrame
  <2>4. ASSUME NEW p \in Partitions, NEW o \in 1 .. committed'[p]
        PROVE  Settled(p, o)'
    <3>1. o \in Nat \ {0} BY DEF TypeOK, BrokerTypes
    <3>2. CASE owner[p] = c
      <4>1. o \in 1 .. position[c][p] BY <1>4, <3>2 DEF Commit
      <4>2. Settled(p, o) \/ at[c] = <<p, o>> BY <3>2, <4>1 DEF SettledInv, OwnedIsSettled
      <4> QED BY <1>2, <3>1, <4>2, SettledStays
    <3>3. CASE owner[p] # c
      <4>1. o \in 1 .. committed[p] BY <1>4, <3>3 DEF Commit
      <4>2. Settled(p, o) BY <4>1 DEF SettledInv, CommittedIsSettled
      <4> QED BY <3>1, <4>2, SettledStays
    <3> QED BY <3>2, <3>3
  <2> QED BY <2>3, <2>4 DEF SettledInv, CommittedIsSettled
<1> QED BY <1>3, <1>4

\* The thread was idle, so all it had passed was settled; now it is at the next.
LEMMA PollSettled ==
    ASSUME TypeOK, TypeOK', SettledInv, [Next]_vars, NEW c \in Instances,
           NEW q \in Partitions, Poll(c, q)
    PROVE  SettledInv'
<1> USE DEF broker, group, thread, graph, tables, budget, history
<1>1. /\ ~Busy(c) /\ (Busy(c))' /\ pc'[c] = "check" /\ at'[c] = <<q, position[c][q] + 1>>
      /\ UNCHANGED <<owner, committed>>
      /\ \A b \in Instances : b # c => pc'[b] = pc[b] /\ at'[b] = at[b] /\ position'[b] = position[b]
      /\ \A p \in Partitions : p # q => position'[c][p] = position[c][p]
      /\ position'[c][q] = position[c][q] + 1
  BY DEF TypeOK, ThreadTypes, Poll, GoTo, Busy
<1>2. ASSUME NEW b \in Instances, NEW p \in Partitions, owner'[p] = b,
             NEW o \in 1 .. position'[b][p]
      PROVE  Settled(p, o)' \/ ((Busy(b))' /\ at'[b] = <<p, o>>)
  <2>0. o \in Nat \ {0} /\ position[b][p] \in Nat BY DEF TypeOK, ThreadTypes
  <2>1. CASE o \in 1 .. position[b][p]
    <3>1. Settled(p, o) \/ (Busy(b) /\ at[b] = <<p, o>>)
      <4>1. owner[p] = b BY <1>1, <1>2
      <4> QED BY <2>1, <4>1 DEF SettledInv, OwnedIsSettled
    <3>2. CASE Settled(p, o) BY <2>0, <3>2, SettledStays
    <3>3. CASE Busy(b) /\ at[b] = <<p, o>> BY <1>1, <3>3 DEF Busy
    <3> QED BY <3>1, <3>2, <3>3
  <2>2. CASE o \notin 1 .. position[b][p]
    <3>1. b = c /\ p = q /\ o = position[c][q] + 1 BY <1>1, <2>0, <2>2
    <3> QED BY <1>1, <3>1
  <2> QED BY <2>1, <2>2
<1>3. ASSUME NEW b \in Instances, NEW p \in Partitions, NEW o \in Nat \ {0},
             pc'[b] = "commit", at'[b] = <<p, o>>
      PROVE  Settled(p, o)'
  <2>1. pc[b] = "commit" /\ at[b] = <<p, o>> BY <1>1, <1>3
  <2> QED BY <2>1, SettledStays DEF SettledInv, DoneIsSettled
<1>4. CommittedIsSettled' BY <1>1, CommittedFrame DEF SettledInv
<1>5. OwnedIsSettled' BY <1>2 DEF OwnedIsSettled
<1>6. DoneIsSettled' BY <1>3 DEF DoneIsSettled
<1> QED BY <1>4, <1>5, <1>6 DEF SettledInv

\* The new owner takes up at the committed position, or jumps to the end and
\* misses what is there.
LEMMA AssignSettled ==
    ASSUME TypeOK, TypeOK', SettledInv, [Next]_vars, NEW c \in Instances,
           NEW q \in Partitions, Assign(q, c)
    PROVE  SettledInv'
<1> USE DEF broker, group, thread, graph, tables, budget, history
<1>1. /\ UNCHANGED <<pc, at, committed>>
      /\ \A p \in Partitions : p # q => owner'[p] = owner[p]
      /\ owner'[q] = c
      /\ \A b \in Instances, p \in Partitions : b # c \/ p # q => position'[b][p] = position[b][p]
  <2>1. owner \in [Partitions -> Instances \cup {NoInstance}] /\ owner' = [owner EXCEPT ![q] = c]
    BY DEF TypeOK, BrokerTypes, Assign
  <2>2. position \in [Instances -> [Partitions -> Nat]] BY DEF TypeOK, ThreadTypes
  <2>3. PICK v : position' = [position EXCEPT ![c][q] = v] BY DEF Assign
  <2>4. ASSUME NEW b \in Instances, NEW p \in Partitions, b # c \/ p # q
        PROVE  position'[b][p] = position[b][p]
    <3>1. CASE b # c BY <2>2, <2>3, <3>1
    <3>2. CASE p # q BY <2>2, <2>3, <3>2
    <3> QED BY <2>4, <3>1, <3>2
  <2> QED BY <2>1, <2>4 DEF Assign
<1>2. ASSUME NEW o \in 1 .. position'[c][q] PROVE Settled(q, o)'
  <2>0. o \in Nat \ {0} BY DEF TypeOK, ThreadTypes
  <2>1. CASE committed[q] = NoOffset
    <3>1. position'[c][q] = Len(log[q]) /\ missed' = missed \cup {<<q, x>> : x \in 1 .. Len(log[q])}
      BY <2>1 DEF TypeOK, ThreadTypes, Assign
    <3>2. <<q, o>> \in missed' BY <3>1
    <3> QED BY <3>2 DEF Settled
  <2>2. CASE committed[q] # NoOffset
    <3>1. position'[c][q] = committed[q] BY <2>2 DEF TypeOK, ThreadTypes, Assign
    <3>2. Settled(q, o) BY <3>1 DEF SettledInv, CommittedIsSettled
    <3> QED BY <2>0, <3>2, SettledStays
  <2> QED BY <2>1, <2>2
<1>3. ASSUME NEW b \in Instances, NEW p \in Partitions, owner'[p] = b,
             NEW o \in 1 .. position'[b][p]
      PROVE  Settled(p, o)' \/ ((Busy(b))' /\ at'[b] = <<p, o>>)
  <2>1. CASE p = q BY <1>1, <1>2, <1>3, <2>1
  <2>2. CASE p # q
    <3>0. o \in Nat \ {0} BY DEF TypeOK, ThreadTypes
    <3>1. owner[p] = b /\ o \in 1 .. position[b][p] BY <1>1, <1>3, <2>2
    <3>2. Settled(p, o) \/ (Busy(b) /\ at[b] = <<p, o>>)
      <4> HIDE DEF Settled
      <4>1. \A x \in 1 .. position[b][p] : Settled(p, x) \/ (Busy(b) /\ at[b] = <<p, x>>)
        BY <3>1 DEF SettledInv, OwnedIsSettled
      <4> QED BY <3>1, <4>1
    <3> QED BY <1>1, <3>0, <3>2, SettledStays DEF Busy
  <2> QED BY <2>1, <2>2
<1>4. ASSUME NEW b \in Instances, NEW p \in Partitions, NEW o \in Nat \ {0},
             pc'[b] = "commit", at'[b] = <<p, o>>
      PROVE  Settled(p, o)'
  <2>1. pc[b] = "commit" /\ at[b] = <<p, o>> BY <1>1, <1>4
  <2> QED BY <2>1, SettledStays DEF SettledInv, DoneIsSettled
<1>5. CommittedIsSettled' BY <1>1, CommittedFrame DEF SettledInv
<1>6. OwnedIsSettled' BY <1>3 DEF OwnedIsSettled
<1>7. DoneIsSettled' BY <1>4 DEF DoneIsSettled
<1> QED BY <1>5, <1>6, <1>7 DEF SettledInv

\* Steps that touch neither the group nor what the threads are doing.
LEMMA ElsewhereSettled ==
    ASSUME TypeOK, TypeOK', SettledInv, [Next]_vars,
           UNCHANGED <<owner, position, committed, at>>,
           \A b \in Instances : pc'[b] = pc[b] \/ (~Busy(b) /\ pc'[b] = "polling")
    PROVE  SettledInv'
<1>1. OwnedIsSettled' /\ DoneIsSettled' BY SettledFrame DEF Busy
<1>2. CommittedIsSettled' BY CommittedFrame DEF SettledInv
<1> QED BY <1>1, <1>2 DEF SettledInv

\* At the start no position and no commit covers any message.
LEMMA InitSettled == Init => SettledInv
<1> SUFFICES ASSUME Init PROVE SettledInv
  OBVIOUS
<1>1. OwnedIsSettled BY DEF Init, OwnedIsSettled
<1>2. DoneIsSettled BY DEF Init, DoneIsSettled
<1>3. CommittedIsSettled BY DEF Init, CommittedIsSettled, NoOffset
<1> QED BY <1>1, <1>2, <1>3 DEF SettledInv

\* SettledInv is inductive relative to TypeOK.
LEMMA NextSettled == TypeOK /\ SettledInv /\ [Next]_vars => SettledInv'
<1> SUFFICES ASSUME TypeOK, SettledInv, [Next]_vars PROVE SettledInv'
  OBVIOUS
<1> USE DEF broker, group, thread, graph, tables, budget, history
<1>0. TypeOK' BY NextTypeOK
<1>1. CASE Publish BY <1>0, <1>1, ElsewhereSettled DEF Publish
<1>2. ASSUME NEW c \in Instances, Start(c) PROVE SettledInv'
  <2>1. \A b \in Instances : pc'[b] = pc[b] \/ (~Busy(b) /\ pc'[b] = "polling")
    BY <1>2 DEF Start, GoTo, Busy
  <2> QED BY <1>0, <1>2, <2>1, ElsewhereSettled DEF Start
<1>3. ASSUME NEW c \in Instances, Crash(c) \/ ThreadExit(c) \/ Revoke(c) PROVE SettledInv'
  BY <1>0, <1>3, LeaveSettled
<1>4. ASSUME NEW c \in Instances, Work(c) PROVE SettledInv'
  <2>1. ASSUME NEW p \in Partitions, Poll(c, p) PROVE SettledInv'
    BY <1>0, <2>1, PollSettled
  <2>2. CASE Check(c) BY <1>0, <2>2, CheckSettled
  <2>3. CASE CheckFails(c) BY <1>0, <2>3, RaiseSettled DEF CheckFails, Busy
  <2>4. CASE WriteOk(c) \/ WriteFails(c) BY <1>0, <2>4, WriteSettled
  <2>5. CASE Mark(c) BY <1>0, <2>5, MarkSettled
  <2>6. CASE MarkFails(c) BY <1>0, <2>6, RaiseSettled DEF MarkFails, Busy
  <2>7. CASE Commit(c) \/ CommitFails(c) BY <1>0, <2>7, CommitSettled
  <2> QED BY <1>4, <2>1, <2>2, <2>3, <2>4, <2>5, <2>6, <2>7 DEF Work
<1>5. ASSUME NEW c \in Instances, NEW p \in Partitions, Assign(p, c) PROVE SettledInv'
  BY <1>0, <1>5, AssignSettled
<1>6. ASSUME NEW d \in dlq, Replay(d) \/ ReplayFails(d) PROVE SettledInv'
  BY <1>0, <1>6, ElsewhereSettled DEF Replay, ReplayFails
<1>7. CASE UNCHANGED vars BY <1>0, <1>7, ElsewhereSettled DEF vars
<1> QED BY <1>1, <1>2, <1>3, <1>4, <1>5, <1>6, <1>7 DEF Next

\* No committed position covers a message that nobody is done with.
THEOREM CommittedSettled == Spec => []CommittedIsSettled
<1>1. TypeOK /\ SettledInv /\ [Next]_vars => (TypeOK /\ SettledInv)'
  BY NextTypeOK, NextSettled
<1>2. SettledInv => CommittedIsSettled BY DEF SettledInv
<1> QED BY InitTypeOK, InitSettled, <1>1, <1>2, PTL DEF Spec

-----------------------------------------------------------------------------
(* MarkedIsAccounted.  A thread gets to mark its event only through all the *)
(* steps of its handler, each of which leaves something behind.             *)

WrittenIsAccounted ==
    \A c \in Instances :
        /\ pc[c] = "write" => \A i \in 1 .. (idx[c] - 1) : Accounted(Current(c), i)
        /\ pc[c] = "mark" => \A i \in DOMAIN Steps[Current(c)] : Accounted(Current(c), i)
AccountedInv == WrittenIsAccounted /\ MarkedIsAccounted

\* A letter leaves the table when it was replayed, or is counted as lost.
LEMMA AccountsGrow ==
    ASSUME TypeOK, [Next]_vars
    PROVE  executed \cup dlq \cup lost \subseteq (executed \cup dlq \cup lost)'
<1> USE DEF broker, group, thread, graph, tables, budget, history
<1>1. CASE Publish BY <1>1 DEF Publish
<1>2. ASSUME NEW c \in Instances, Start(c) \/ Crash(c) \/ ThreadExit(c) \/ Revoke(c)
      PROVE  UNCHANGED <<executed, dlq, lost>>
  BY <1>2 DEF Start, Crash, ThreadExit, Revoke, Stop
<1>3. ASSUME NEW c \in Instances, Work(c)
      PROVE  executed \cup dlq \cup lost \subseteq (executed \cup dlq \cup lost)'
  <2>1. ASSUME NEW p \in Partitions, Poll(c, p) PROVE UNCHANGED <<executed, dlq, lost>>
    BY <2>1 DEF Poll
  <2>2. CASE Check(c) \/ CheckFails(c) BY <2>2 DEF Check, CheckFails
  <2>3. CASE WriteOk(c) BY <2>3 DEF WriteOk, Apply
  <2>4. CASE WriteFails(c)
    <3>1. executed \subseteq executed' BY <2>4 DEF WriteFails, Apply
    <3>2. dlq \cup lost \subseteq dlq' \cup lost' BY <2>4 DEF WriteFails, WriteDlq
    <3> QED BY <3>1, <3>2
  <2>5. CASE Mark(c) \/ MarkFails(c) BY <2>5 DEF Mark, MarkFails
  <2>6. CASE Commit(c) \/ CommitFails(c) BY <2>6 DEF Commit, CommitFails
  <2> QED BY <1>3, <2>1, <2>2, <2>3, <2>4, <2>5, <2>6 DEF Work
<1>4. ASSUME NEW c \in Instances, NEW p \in Partitions, Assign(p, c)
      PROVE  UNCHANGED <<executed, dlq, lost>>
  BY <1>4 DEF Assign
<1>5. ASSUME NEW d \in dlq, Replay(d)
      PROVE  executed \cup dlq \cup lost \subseteq (executed \cup dlq \cup lost)'
  BY <1>5, DeadLetter DEF Replay, Apply
<1>6. ASSUME NEW d \in dlq, ReplayFails(d)
      PROVE  executed \cup dlq \cup lost \subseteq (executed \cup dlq \cup lost)'
  BY <1>6 DEF ReplayFails, Apply
<1>7. CASE UNCHANGED vars BY <1>7 DEF vars
<1> QED BY <1>1, <1>2, <1>3, <1>4, <1>5, <1>6, <1>7 DEF Next

\* So a call that is accounted for stays so.
LEMMA AccountedStays ==
    ASSUME TypeOK, [Next]_vars
    PROVE  \A e, i : Accounted(e, i) => Accounted(e, i)'
BY AccountsGrow DEF Accounted

\* A thread that keeps its message keeps its event.
LEMMA CurrentStays ==
    ASSUME TypeOK, [Next]_vars, NEW c \in Instances, Busy(c), at'[c] = at[c]
    PROVE  Current(c)' = Current(c)
BY BusyThread, SettlersGrow DEF Current

\* The calls a thread has made for the message it keeps stay accounted for.
LEMMA HandledStays ==
    ASSUME TypeOK, [Next]_vars, NEW c \in Instances, Busy(c), at'[c] = at[c],
           NEW i, Accounted(Current(c), i)
    PROVE  Accounted(Current(c), i)'
<1>1. Current(c)' = Current(c) BY CurrentStays
<1> HIDE DEF Current
<1> QED BY <1>1, AccountsGrow DEF Accounted

\* A step that marks no event and moves no handler on.
LEMMA AccountedFrame ==
    ASSUME TypeOK, [Next]_vars, AccountedInv, processed' = processed,
           \A c \in Instances : pc'[c] \in {"write", "mark"} =>
               pc'[c] = pc[c] /\ at'[c] = at[c] /\ idx'[c] = idx[c]
    PROVE  AccountedInv'
<1>1. ASSUME NEW c \in Instances, pc'[c] \in {"write", "mark"}
      PROVE  Current(c)' = Current(c) /\ pc'[c] = pc[c] /\ idx'[c] = idx[c]
  BY <1>1, CurrentStays DEF Busy
<1> HIDE DEF Current
<1>2. WrittenIsAccounted'
  BY <1>1, AccountedStays DEF AccountedInv, WrittenIsAccounted
<1>3. MarkedIsAccounted'
  BY AccountedStays DEF AccountedInv, MarkedIsAccounted
<1> QED BY <1>2, <1>3 DEF AccountedInv

\* The thread starts to write, or ends, or skips an event: nothing is due yet.
LEMMA CheckAccounted ==
    ASSUME TypeOK, [Next]_vars, AccountedInv, NEW c \in Instances, Check(c)
    PROVE  AccountedInv'
<1> USE DEF broker, group, thread, graph, tables, budget, history
<1>1. /\ pc'[c] \in {"commit", "write"} /\ (pc'[c] = "write" => idx'[c] = 1)
      /\ at' = at /\ processed' = processed
      /\ \A b \in Instances : b # c => pc'[b] = pc[b] /\ idx'[b] = idx[b]
  BY DEF TypeOK, ThreadTypes, Check, GoTo
<1>2. ASSUME NEW b \in Instances, b # c, pc'[b] \in {"write", "mark"}
      PROVE  Current(b)' = Current(b) /\ pc'[b] = pc[b] /\ idx'[b] = idx[b]
  BY <1>1, <1>2, CurrentStays DEF Busy
<1>3. WrittenIsAccounted'
  BY <1>1, <1>2, AccountedStays DEF AccountedInv, WrittenIsAccounted
<1>4. MarkedIsAccounted'
  BY <1>1, AccountedStays DEF AccountedInv, MarkedIsAccounted
<1> QED BY <1>3, <1>4 DEF AccountedInv

\* A step of the handler is done with, one way or the other.
LEMMA AdvanceAccounted ==
    ASSUME TypeOK, [Next]_vars, AccountedInv, NEW c \in Instances, pc[c] = "write",
           Advance(c), processed' = processed,
           \/ <<Current(c), idx[c]>> \in (executed \cup dlq \cup lost)'
           \/ Steps[Current(c)][idx[c]].op = "rdf"
    PROVE  AccountedInv'
<1>1. /\ Busy(c) /\ at' = at /\ idx[c] \in Nat /\ idx[c] \in 1 .. Len(Steps[Current(c)])
      /\ Len(Steps[Current(c)]) \in Nat /\ DOMAIN Steps[Current(c)] = 1 .. Len(Steps[Current(c)])
  BY BusyThread DEF Advance, Busy
<1>2. /\ \/ /\ idx[c] < Len(Steps[Current(c)]) /\ pc'[c] = "write" /\ idx'[c] = idx[c] + 1
         \/ ~(idx[c] < Len(Steps[Current(c)])) /\ pc'[c] = "mark"
      /\ \A b \in Instances : b # c => pc'[b] = pc[b] /\ idx'[b] = idx[b]
  BY DEF TypeOK, ThreadTypes, Advance, GoTo
<1>3. ASSUME NEW b \in Instances, pc'[b] \in {"write", "mark"}
      PROVE  Current(b)' = Current(b)
  BY <1>1, <1>2, <1>3, CurrentStays DEF Busy
<1>4. WrittenIsAccounted'
  <2>1. ASSUME NEW i \in 1 .. idx[c] PROVE Accounted(Current(c), i)'
    <3>1. CASE i = idx[c]
      <4>1. Current(c)' = Current(c) BY <1>1, CurrentStays
      <4> QED BY <3>1, <4>1 DEF Accounted
    <3>2. CASE i # idx[c]
      <4>1. i \in 1 .. (idx[c] - 1) BY <1>1, <3>2
      <4>2. Accounted(Current(c), i) BY <4>1 DEF AccountedInv, WrittenIsAccounted
      <4> QED BY <1>1, <4>2, HandledStays
    <3> QED BY <3>1, <3>2
  <2>2. ASSUME NEW b \in Instances, pc'[b] = "write", NEW i \in 1 .. (idx'[b] - 1)
        PROVE  Accounted(Current(b), i)'
    <3>1. CASE b = c
      <4>1. i \in 1 .. idx[c] BY <1>1, <1>2, <2>2, <3>1
      <4> QED BY <2>1, <3>1, <4>1
    <3>2. CASE b # c
      <4>1. pc[b] = "write" /\ idx'[b] = idx[b] BY <1>2, <2>2, <3>2
      <4>2. Accounted(Current(b), i) BY <2>2, <4>1 DEF AccountedInv, WrittenIsAccounted
      <4> QED BY <1>1, <4>1, <4>2, HandledStays DEF Busy
    <3> QED BY <3>1, <3>2
  <2>3. ASSUME NEW b \in Instances, pc'[b] = "mark", NEW i \in DOMAIN Steps[Current(b)']
        PROVE  Accounted(Current(b), i)'
    <3>1. Current(b)' = Current(b) BY <1>3, <2>3
    <3>2. CASE b = c
      <4>1. ~(idx[c] < Len(Steps[Current(c)])) BY <1>2, <2>3, <3>2
      <4>2. i \in 1 .. idx[c] BY <1>1, <2>3, <3>1, <3>2, <4>1
      <4> QED BY <2>1, <3>2, <4>2
    <3>3. CASE b # c
      <4>1. pc[b] = "mark" BY <1>2, <2>3, <3>3
      <4>2. Accounted(Current(b), i)
        BY <2>3, <3>1, <4>1 DEF AccountedInv, WrittenIsAccounted
      <4> QED BY <1>1, <4>1, <4>2, HandledStays DEF Busy
    <3> QED BY <3>2, <3>3
  <2> QED BY <2>2, <2>3 DEF WrittenIsAccounted
<1>5. MarkedIsAccounted'
  BY AccountedStays DEF AccountedInv, MarkedIsAccounted
<1> QED BY <1>4, <1>5 DEF AccountedInv

\* A call that succeeds has run; one that fails has a letter, or lost it, or raises.
LEMMA WriteAccounted ==
    ASSUME TypeOK, [Next]_vars, AccountedInv, NEW c \in Instances,
           WriteOk(c) \/ WriteFails(c)
    PROVE  AccountedInv'
<1> USE DEF broker, group, thread, graph, tables, budget, history
<1> DEFINE d == <<Current(c), idx[c]>>
<1>1. pc[c] = "write" /\ Busy(c) /\ processed' = processed /\ log' = log
  BY DEF WriteOk, WriteFails, Busy
<1>2. Steps[Current(c)][idx[c]] \in Step BY <1>1, BusyThread
<1>3. CASE Raise(c)
  <2>1. /\ pc'[c] = "polling"
        /\ \A b \in Instances : b # c => pc'[b] = pc[b] /\ at'[b] = at[b] /\ idx'[b] = idx[b]
    BY <1>3 DEF TypeOK, ThreadTypes, Raise, Finish, GoTo
  <2> QED BY <1>1, <2>1, AccountedFrame
<1>4. CASE Advance(c)
  <2>2. CASE WriteOk(c)
    <3>1. d \in executed' BY <2>2 DEF WriteOk, Apply
    <3> QED BY <1>1, <1>4, <3>1, AdvanceAccounted
  <2>3. CASE WriteFails(c)
    <3>1. CASE Steps[Current(c)][idx[c]].op \in DlqOps
      <4>1. d \in dlq' \cup lost' BY <2>3, <3>1 DEF WriteFails, WriteDlq
      <4> QED BY <1>1, <1>4, <4>1, AdvanceAccounted
    <3>2. CASE Steps[Current(c)][idx[c]].op \notin DlqOps
      <4>1. Steps[Current(c)][idx[c]].op = "rdf"
        <5>1. Steps[Current(c)][idx[c]].op \in DlqOps \cup {"update", "rdf"} BY <1>2 DEF Step, DlqOps
        <5>2. pc'[c] # "polling"
          BY <1>1, <1>4 DEF TypeOK, ThreadTypes, Advance, GoTo
        <5>3. ~Raise(c) BY <5>2 DEF TypeOK, ThreadTypes, Raise, Finish, GoTo
        <5>4. Steps[Current(c)][idx[c]].op \notin RaisingOps BY <2>3, <5>3 DEF WriteFails
        <5> QED BY <3>2, <5>1, <5>4 DEF RaisingOps
      <4> QED BY <1>1, <1>4, <4>1, AdvanceAccounted
    <3> QED BY <3>1, <3>2
  <2> QED BY <2>2, <2>3
<1> QED BY <1>3, <1>4 DEF WriteOk, WriteFails

\* Only a thread that is through with the handler marks, and it marks its event.
LEMMA MarkAccounted ==
    ASSUME TypeOK, [Next]_vars, AccountedInv, NEW c \in Instances,
           Mark(c) \/ MarkFails(c)
    PROVE  AccountedInv'
<1> USE DEF broker, group, thread, graph, tables, budget, history
<1>1. /\ pc[c] = "mark" /\ pc'[c] \notin {"write", "mark"}
      /\ \A b \in Instances : b # c => pc'[b] = pc[b] /\ at'[b] = at[b] /\ idx'[b] = idx[b]
      /\ processed' \subseteq processed \cup {Current(c)}
  BY DEF TypeOK, ThreadTypes, Mark, MarkFails, Raise, Finish, GoTo
<1>2. ASSUME NEW b \in Instances, pc'[b] \in {"write", "mark"}
      PROVE  Current(b)' = Current(b) /\ pc'[b] = pc[b] /\ idx'[b] = idx[b]
  BY <1>1, <1>2, CurrentStays DEF Busy
<1>3. \A i \in DOMAIN Steps[Current(c)] : Accounted(Current(c), i)
  BY <1>1 DEF AccountedInv, WrittenIsAccounted
<1> HIDE DEF Current
<1>4. WrittenIsAccounted'
  BY <1>2, AccountedStays DEF AccountedInv, WrittenIsAccounted
<1>5. MarkedIsAccounted'
  BY <1>1, <1>3, AccountedStays DEF AccountedInv, MarkedIsAccounted
<1> QED BY <1>4, <1>5 DEF AccountedInv

\* AccountedInv is inductive relative to TypeOK.
LEMMA NextAccounted == TypeOK /\ AccountedInv /\ [Next]_vars => AccountedInv'
<1> SUFFICES ASSUME TypeOK, AccountedInv, [Next]_vars PROVE AccountedInv'
  OBVIOUS
<1> USE DEF broker, group, thread, graph, tables, budget, history
<1>1. CASE Publish BY <1>1, AccountedFrame DEF Publish
<1>2. ASSUME NEW c \in Instances, Start(c) \/ Crash(c) \/ ThreadExit(c) \/ Revoke(c)
      PROVE  AccountedInv'
  <2>1. /\ processed' = processed
        /\ \A b \in Instances : pc'[b] \in {"write", "mark"} =>
              pc'[b] = pc[b] /\ at'[b] = at[b] /\ idx'[b] = idx[b]
    BY <1>2 DEF TypeOK, ThreadTypes, Start, Crash, ThreadExit, Revoke, Stop, GoTo
  <2> QED BY <2>1, AccountedFrame
<1>3. ASSUME NEW c \in Instances, Work(c) PROVE AccountedInv'
  <2>1. ASSUME NEW p \in Partitions, Poll(c, p) PROVE AccountedInv'
    <3>1. /\ processed' = processed
          /\ \A b \in Instances : pc'[b] \in {"write", "mark"} =>
                pc'[b] = pc[b] /\ at'[b] = at[b] /\ idx'[b] = idx[b]
      BY <2>1 DEF Poll, GoTo
    <3> QED BY <3>1, AccountedFrame
  <2>2. CASE Check(c) BY <2>2, CheckAccounted
  <2>3. CASE CheckFails(c) \/ Commit(c) \/ CommitFails(c)
    <3>1. /\ processed' = processed
          /\ \A b \in Instances : pc'[b] \in {"write", "mark"} =>
                pc'[b] = pc[b] /\ at'[b] = at[b] /\ idx'[b] = idx[b]
      BY <2>3 DEF TypeOK, ThreadTypes, CheckFails, Commit, CommitFails, Raise, Finish, GoTo
    <3> QED BY <3>1, AccountedFrame
  <2>4. CASE WriteOk(c) \/ WriteFails(c) BY <2>4, WriteAccounted
  <2>5. CASE Mark(c) \/ MarkFails(c) BY <2>5, MarkAccounted
  <2> QED BY <1>3, <2>1, <2>2, <2>3, <2>4, <2>5 DEF Work
<1>4. ASSUME NEW c \in Instances, NEW p \in Partitions, Assign(p, c) PROVE AccountedInv'
  BY <1>4, AccountedFrame DEF Assign
<1>5. ASSUME NEW d \in dlq, Replay(d) \/ ReplayFails(d) PROVE AccountedInv'
  BY <1>5, AccountedFrame DEF Replay, ReplayFails
<1>6. CASE UNCHANGED vars BY <1>6, AccountedFrame DEF vars
<1> QED BY <1>1, <1>2, <1>3, <1>4, <1>5, <1>6 DEF Next

\* No graph call of a processed event is unaccounted for.
THEOREM MarkedAccounted == Spec => []MarkedIsAccounted
<1>1. Init => AccountedInv
  BY DEF Init, AccountedInv, WrittenIsAccounted, MarkedIsAccounted
<1>2. TypeOK /\ AccountedInv /\ [Next]_vars => (TypeOK /\ AccountedInv)'
  BY NextTypeOK, NextAccounted
<1>3. AccountedInv => MarkedIsAccounted BY DEF AccountedInv
<1> QED BY InitTypeOK, <1>1, <1>2, <1>3, PTL DEF Spec

-----------------------------------------------------------------------------
(* DroppedEdgeHasFailedEndpoint.  A call is made only after all the calls   *)
(* before it in the handler were made, by a thread or, for a letter, once   *)
(* by the thread that wrote it; and vertices never leave the graph.         *)

Tried == executed \cup failed
PrefixTried(e, i) == \A j \in 1 .. (i - 1) : <<e, j>> \in Tried

WritersTried ==
    \A c \in Instances : pc[c] = "write" => PrefixTried(Current(c), idx[c])
LettersTried == \A d \in dlq : PrefixTried(d[1], d[2])
ExecutedHasVertex ==
    \A d \in executed :
        Steps[d[1]][d[2]].op \in NodeOps => Steps[d[1]][d[2]].src \in vertices
TriedInv ==
    WritersTried /\ LettersTried /\ ExecutedHasVertex /\ DroppedEdgeHasFailedEndpoint

\* A step runs nothing, or one call whose predecessors have been tried.
LEMMA StepRuns ==
    ASSUME TypeOK, TriedInv, [Next]_vars
    PROVE  /\ failed \subseteq failed'
           /\ \/ UNCHANGED <<vertices, edges, executed>>
              \/ \E e \in Events : \E i \in 1 .. Len(Steps[e]) :
                    PrefixTried(e, i) /\ Steps[e][i] \in Step /\ Apply(e, i)
<1> USE DEF broker, group, thread, graph, tables, budget, history
<1> DEFINE Runs == \E e \in Events : \E i \in 1 .. Len(Steps[e]) :
                       PrefixTried(e, i) /\ Steps[e][i] \in Step /\ Apply(e, i)
           Quiet == UNCHANGED <<vertices, edges, executed, failed>>
<1> SUFFICES failed \subseteq failed' /\ (UNCHANGED <<vertices, edges, executed>> \/ Runs)
  OBVIOUS
<1> HIDE DEF Runs
<1>1. CASE Quiet BY <1>1
<1>2. CASE Publish BY <1>1, <1>2 DEF Publish
<1>3. ASSUME NEW c \in Instances, Start(c) \/ Crash(c) \/ ThreadExit(c) \/ Revoke(c)
      PROVE  Quiet
  BY <1>3 DEF Start, Crash, ThreadExit, Revoke, Stop
<1>4. ASSUME NEW c \in Instances, pc[c] = "write", Apply(Current(c), idx[c]) PROVE Runs
  <2>1. /\ Current(c) \in Events /\ idx[c] \in 1 .. Len(Steps[Current(c)])
        /\ Steps[Current(c)][idx[c]] \in Step
    BY <1>4, BusyThread DEF Busy
  <2>2. PrefixTried(Current(c), idx[c]) BY <1>4 DEF TriedInv, WritersTried
  <2> HIDE DEF Current
  <2> QED BY <1>4, <2>1, <2>2 DEF Runs
<1>5. ASSUME NEW d \in dlq, Apply(d[1], d[2]) PROVE Runs
  <2>1. PrefixTried(d[1], d[2]) BY DEF TriedInv, LettersTried
  <2> QED BY <1>5, <2>1, DeadLetter DEF Runs
<1>6. ASSUME NEW c \in Instances, Work(c)
      PROVE  failed \subseteq failed' /\ (UNCHANGED <<vertices, edges, executed>> \/ Runs)
  <2>1. ASSUME NEW p \in Partitions, Poll(c, p) PROVE Quiet BY <2>1 DEF Poll
  <2>2. CASE Check(c) \/ CheckFails(c) BY <1>1, <2>2 DEF Check, CheckFails
  <2>3. CASE WriteOk(c)
    <3>1. Runs BY <1>4, <2>3 DEF WriteOk
    <3> QED BY <2>3, <3>1 DEF WriteOk
  <2>4. CASE WriteFails(c)
    <3>1. Runs \/ UNCHANGED <<vertices, edges, executed>> BY <1>4, <2>4 DEF WriteFails
    <3> QED BY <2>4, <3>1 DEF WriteFails
  <2>5. CASE Mark(c) \/ MarkFails(c) BY <1>1, <2>5 DEF Mark, MarkFails
  <2>6. CASE Commit(c) \/ CommitFails(c) BY <1>1, <2>6 DEF Commit, CommitFails
  <2> QED BY <1>1, <1>6, <2>1, <2>2, <2>3, <2>4, <2>5, <2>6 DEF Work
<1>7. ASSUME NEW c \in Instances, NEW p \in Partitions, Assign(p, c) PROVE Quiet
  BY <1>7 DEF Assign
<1>8. ASSUME NEW d \in dlq, Replay(d) \/ ReplayFails(d)
      PROVE  failed' = failed /\ (UNCHANGED <<vertices, edges, executed>> \/ Runs)
  BY <1>5, <1>8 DEF Replay, ReplayFails
<1>9. CASE UNCHANGED vars BY <1>1, <1>9 DEF vars
<1> QED BY <1>1, <1>2, <1>3, <1>6, <1>7, <1>8, <1>9 DEF Next

\* What was tried, and what is in the graph, stays so.
LEMMA TriedGrows ==
    ASSUME TypeOK, TriedInv, [Next]_vars
    PROVE  /\ Tried \subseteq Tried' /\ vertices \subseteq vertices'
           /\ edges \subseteq edges' /\ executed \subseteq executed'
<1>1. executed \subseteq executed' /\ vertices \subseteq vertices' /\ edges \subseteq edges'
  BY StepRuns DEF Apply
<1>2. failed \subseteq failed' BY StepRuns
<1> QED BY <1>1, <1>2 DEF Tried

\* The call at hand adds its vertex; an edge it leaves out lacks an endpoint,
\* whose own write, tried before, must have failed.
LEMMA GraphTried ==
    ASSUME TypeOK, TriedInv, [Next]_vars
    PROVE  ExecutedHasVertex' /\ DroppedEdgeHasFailedEndpoint'
<1>0. failed \subseteq failed' BY StepRuns
<1>1. CASE UNCHANGED <<vertices, edges, executed>>
  BY <1>0, <1>1 DEF TriedInv, ExecutedHasVertex, DroppedEdgeHasFailedEndpoint
<1>2. ASSUME NEW e \in Events, NEW i \in 1 .. Len(Steps[e]), PrefixTried(e, i),
             Steps[e][i] \in Step, Apply(e, i)
      PROVE  ExecutedHasVertex' /\ DroppedEdgeHasFailedEndpoint'
  <2> DEFINE s == Steps[e][i]
  <2>1. /\ executed' = executed \cup {<<e, i>>}
        /\ vertices \subseteq vertices' /\ edges \subseteq edges'
        /\ s.op \in NodeOps => s.src \in vertices'
        /\ s.op = "upsert_edge" /\ {s.src, s.tgt} \subseteq vertices => EdgeOf(s) \in edges'
    BY <1>2 DEF Apply
  <2>2. ExecutedHasVertex'
    BY <2>1 DEF TriedInv, ExecutedHasVertex
  <2>3. ASSUME s.op = "upsert_edge", EdgeOf(s) \notin edges'
        PROVE  \E j \in 1 .. (i - 1) :
                  /\ Steps[e][j].op \in NodeOps /\ Steps[e][j].src \in {s.src, s.tgt}
                  /\ <<e, j>> \in failed'
    <3>1. PICK n \in {s.src, s.tgt} : n \notin vertices BY <2>1, <2>3
    <3>2. PICK j \in 1 .. (i - 1) : Steps[e][j].op \in NodeOps /\ Steps[e][j].src = n
      BY <2>3, EndpointsAssumption
    <3>3. <<e, j>> \notin executed
      BY <3>1, <3>2 DEF TriedInv, ExecutedHasVertex
    <3>4. <<e, j>> \in failed BY <1>2, <3>3 DEF PrefixTried, Tried
    <3> QED BY <1>0, <3>2, <3>4
  <2>4. DroppedEdgeHasFailedEndpoint'
    <3> HIDE DEF s
    <3> SUFFICES ASSUME NEW d \in executed', Steps[d[1]][d[2]].op = "upsert_edge",
                        EdgeOf(Steps[d[1]][d[2]]) \notin edges'
                 PROVE  \E j \in 1 .. (d[2] - 1) :
                          /\ Steps[d[1]][j].op \in NodeOps
                          /\ Steps[d[1]][j].src \in {Steps[d[1]][d[2]].src, Steps[d[1]][d[2]].tgt}
                          /\ <<d[1], j>> \in failed'
      BY DEF DroppedEdgeHasFailedEndpoint
    <3>1. CASE d \in executed
      BY <1>0, <2>1, <3>1 DEF TriedInv, DroppedEdgeHasFailedEndpoint
    <3>2. CASE d = <<e, i>> BY <2>3, <3>2 DEF s
    <3> QED BY <2>1, <3>1, <3>2
  <2> QED BY <2>2, <2>4
<1> QED BY <1>1, <1>2, StepRuns

\* Whoever writes a step now wrote it before, or has just tried its
\* predecessor, or is at the first.
LEMMA WritersMove ==
    ASSUME TypeOK, TriedInv, [Next]_vars, NEW c \in Instances, pc'[c] = "write"
    PROVE  \/ idx'[c] = 1
           \/ /\ pc[c] = "write" /\ at'[c] = at[c]
              /\ idx'[c] = idx[c] \/ (idx'[c] = idx[c] + 1 /\ <<Current(c), idx[c]>> \in Tried')
<1> USE DEF broker, group, thread, graph, tables, budget, history
<1> DEFINE Goal == \/ idx'[c] = 1
                   \/ /\ pc[c] = "write" /\ at'[c] = at[c]
                      /\ \/ idx'[c] = idx[c]
                         \/ idx'[c] = idx[c] + 1 /\ <<Current(c), idx[c]>> \in Tried'
<1> SUFFICES Goal OBVIOUS
<1>1. CASE UNCHANGED <<pc, at, idx>> BY <1>1
<1>2. CASE Publish BY <1>1, <1>2 DEF Publish
<1>3. ASSUME NEW b \in Instances, Start(b) \/ Crash(b) \/ ThreadExit(b) \/ Revoke(b)
      PROVE  Goal
  BY <1>3 DEF TypeOK, ThreadTypes, Start, Crash, ThreadExit, Revoke, Stop, GoTo
<1>4. ASSUME NEW b \in Instances, Work(b) PROVE Goal
  <2>1. ASSUME NEW p \in Partitions, Poll(b, p) PROVE Goal
    BY <2>1 DEF TypeOK, ThreadTypes, Poll, GoTo
  <2>2. CASE Check(b) BY <2>2 DEF TypeOK, ThreadTypes, Check, GoTo
  <2>3. CASE CheckFails(b) \/ MarkFails(b) \/ Commit(b) \/ CommitFails(b)
    BY <2>3 DEF TypeOK, ThreadTypes, CheckFails, MarkFails, Commit, CommitFails, Raise, Finish, GoTo
  <2>4. CASE Mark(b) BY <2>4 DEF TypeOK, ThreadTypes, Mark, GoTo
  <2>5. CASE WriteOk(b) \/ WriteFails(b)
    <3>1. pc[b] = "write" /\ (Raise(b) \/ Advance(b)) BY <2>5 DEF WriteOk, WriteFails
    <3>2. CASE Raise(b)
      BY <3>2 DEF TypeOK, ThreadTypes, Raise, Finish, GoTo
    <3>3. CASE Advance(b)
      <4>1. <<Current(b), idx[b]>> \in Tried' BY <2>5 DEF WriteOk, WriteFails, Apply, Tried
      <4>2. b # c => pc'[c] = pc[c] /\ idx'[c] = idx[c] /\ at'[c] = at[c]
        BY <3>3 DEF TypeOK, ThreadTypes, Advance, GoTo
      <4>3. b = c => idx'[c] = idx[c] + 1 /\ at'[c] = at[c]
        BY <3>3 DEF TypeOK, ThreadTypes, Advance, GoTo
      <4> HIDE DEF Current
      <4> QED BY <3>1, <4>1, <4>2, <4>3
    <3> QED BY <3>1, <3>2, <3>3
  <2> QED BY <1>4, <2>1, <2>2, <2>3, <2>4, <2>5 DEF Work
<1>5. ASSUME NEW b \in Instances, NEW p \in Partitions, Assign(p, b) PROVE Goal
  BY <1>1, <1>5 DEF Assign
<1>6. ASSUME NEW d \in dlq, Replay(d) \/ ReplayFails(d) PROVE Goal
  BY <1>1, <1>6 DEF Replay, ReplayFails
<1>7. CASE UNCHANGED vars BY <1>1, <1>7 DEF vars
<1> QED BY <1>2, <1>3, <1>4, <1>5, <1>6, <1>7 DEF Next

\* TriedInv is inductive relative to TypeOK.
LEMMA NextTried == TypeOK /\ TriedInv /\ [Next]_vars => TriedInv'
<1> SUFFICES ASSUME TypeOK, TriedInv, [Next]_vars PROVE TriedInv'
  OBVIOUS
<1> USE DEF broker, group, thread, graph, tables, budget, history
<1>1. ASSUME NEW e, NEW i, PrefixTried(e, i) PROVE PrefixTried(e, i)'
  BY <1>1, TriedGrows DEF PrefixTried
<1>2. WritersTried'
  <2> SUFFICES ASSUME NEW c \in Instances, pc'[c] = "write" PROVE PrefixTried(Current(c), idx[c])'
    BY DEF WritersTried
  <2>1. CASE idx'[c] = 1 BY <2>1 DEF PrefixTried
  <2>2. CASE /\ pc[c] = "write" /\ at'[c] = at[c]
             /\ idx'[c] = idx[c] \/ (idx'[c] = idx[c] + 1 /\ <<Current(c), idx[c]>> \in Tried')
    <3>1. Current(c)' = Current(c) /\ idx[c] \in Nat BY <2>2, CurrentStays, BusyThread DEF Busy
    <3>2. PrefixTried(Current(c), idx[c]) BY <2>2 DEF TriedInv, WritersTried
    <3> HIDE DEF Current
    <3>3. \A j \in 1 .. (idx[c] - 1) : <<Current(c), j>> \in Tried'
      BY <3>2, TriedGrows DEF PrefixTried
    <3>4. \A j \in 1 .. (idx'[c] - 1) : <<Current(c), j>> \in Tried'
      BY <2>2, <3>1, <3>3
    <3> QED BY <3>1, <3>4 DEF PrefixTried
  <2> QED BY <2>1, <2>2, WritersMove
<1>3. LettersTried'
  <2>1. ASSUME NEW c \in Instances, WriteFails(c) PROVE LettersTried'
    <3>1. PrefixTried(Current(c), idx[c]) BY <2>1 DEF WriteFails, TriedInv, WritersTried
    <3>2. dlq' \subseteq dlq \cup {<<Current(c), idx[c]>>} BY <2>1 DEF WriteFails, WriteDlq
    <3> HIDE DEF Current
    <3> QED BY <1>1, <3>1, <3>2 DEF TriedInv, LettersTried
  <2>2. CASE dlq' \subseteq dlq BY <1>1, <2>2 DEF TriedInv, LettersTried
  <2>3. CASE Publish BY <2>2, <2>3 DEF Publish
  <2>4. ASSUME NEW c \in Instances,
               Start(c) \/ Crash(c) \/ ThreadExit(c) \/ Revoke(c) \/ Work(c)
        PROVE  LettersTried'
    <3>1. CASE WriteFails(c) BY <2>1, <3>1
    <3>2. CASE ~WriteFails(c)
      BY <2>2, <2>4, <3>2 DEF Start, Crash, ThreadExit, Revoke, Stop, Work, Poll, Check,
         CheckFails, WriteOk, Mark, MarkFails, Commit, CommitFails
    <3> QED BY <3>1, <3>2
  <2>5. ASSUME NEW c \in Instances, NEW p \in Partitions, Assign(p, c) PROVE LettersTried'
    BY <2>2, <2>5 DEF Assign
  <2>6. ASSUME NEW d \in dlq, Replay(d) \/ ReplayFails(d) PROVE LettersTried'
    BY <2>2, <2>6 DEF Replay, ReplayFails
  <2>7. CASE UNCHANGED vars BY <2>2, <2>7 DEF vars
  <2> QED BY <2>3, <2>4, <2>5, <2>6, <2>7 DEF Next
<1> QED BY <1>2, <1>3, GraphTried DEF TriedInv

\* An edge that a query left out has an endpoint whose write failed.
THEOREM DroppedEdgeExplained == Spec => []DroppedEdgeHasFailedEndpoint
<1>1. Init => TriedInv
  BY DEF Init, TriedInv, WritersTried, LettersTried, ExecutedHasVertex,
     DroppedEdgeHasFailedEndpoint
<1>2. TypeOK /\ TriedInv /\ [Next]_vars => (TypeOK /\ TriedInv)'
  BY NextTypeOK, NextTried
<1>3. TriedInv => DroppedEdgeHasFailedEndpoint BY DEF TriedInv
<1> QED BY InitTypeOK, <1>1, <1>2, <1>3, PTL DEF Spec

-----------------------------------------------------------------------------
(* OwnerWritesForward.  An owner gets to a message when everything before   *)
(* it is settled, so the state of an event that was ever handled can only   *)
(* be older than what the owner is at if the owner's message was settled    *)
(* before it was checked: its event was not processed, or there would be    *)
(* nothing to write; the message was not missed, or its owner would be past *)
(* it; so an earlier delivery had raised.                                   *)

Passed(p, q) == \A o \in 1 .. (q - 1) : Settled(p, o)
\* Some delivery of the event began, when all before it was settled.
Begun(e) ==
    \E q \in 1 .. Len(log[PartitionOf[e]]) :
        log[PartitionOf[e]][q] = e /\ Passed(PartitionOf[e], q)

LogPlaced == \A p \in Partitions : \A o \in 1 .. Len(log[p]) : PartitionOf[log[p][o]] = p
BusyPassed == \A c \in Instances : Busy(c) => Passed(at[c][1], at[c][2])
DlqFailed == dlq \subseteq failed
TriedBegun == \A d \in executed \cup failed : Begun(d[1])
ProcessedBegun == \A e \in processed : Begun(e)
BegunInv == LogPlaced /\ BusyPassed /\ DlqFailed /\ TriedBegun /\ ProcessedBegun

\* What a step does to one thread: nothing, or one of its own steps, or it is
\* idle afterwards.
LEMMA ThreadMoves ==
    ASSUME TypeOK, [Next]_vars, NEW c \in Instances, (Busy(c))'
    PROVE  \/ pc'[c] = pc[c] /\ at'[c] = at[c] /\ idx'[c] = idx[c]
           \/ Check(c) \/ WriteOk(c) \/ WriteFails(c) \/ Mark(c)
           \/ \E p \in Partitions : Poll(c, p)
<1> USE DEF broker, group, thread, graph, tables, budget, history
<1> DEFINE Same == pc'[c] = pc[c] /\ at'[c] = at[c] /\ idx'[c] = idx[c]
           Goal == \/ Same \/ Check(c) \/ WriteOk(c) \/ WriteFails(c) \/ Mark(c)
                   \/ \E p \in Partitions : Poll(c, p)
<1> SUFFICES Goal OBVIOUS
<1>1. CASE UNCHANGED <<pc, at, idx>> BY <1>1
<1>2. CASE Publish BY <1>1, <1>2 DEF Publish
<1>3. ASSUME NEW b \in Instances, Start(b) \/ Crash(b) \/ ThreadExit(b) \/ Revoke(b)
      PROVE  Goal
  BY <1>3 DEF TypeOK, ThreadTypes, Start, Crash, ThreadExit, Revoke, Stop, GoTo, Busy
<1>4. ASSUME NEW b \in Instances, Work(b) PROVE Goal
  <2>1. ASSUME NEW p \in Partitions, Poll(b, p) PROVE Goal
    BY <2>1 DEF TypeOK, ThreadTypes, Poll, GoTo
  <2>2. CASE Check(b) \/ Mark(b) BY <2>2 DEF TypeOK, ThreadTypes, Check, Mark, GoTo
  <2>3. CASE CheckFails(b) \/ MarkFails(b) \/ Commit(b) \/ CommitFails(b)
    BY <2>3 DEF TypeOK, ThreadTypes, CheckFails, MarkFails, Commit, CommitFails, Raise, Finish,
       GoTo, Busy
  <2>4. CASE WriteOk(b) \/ WriteFails(b)
    <3>1. Raise(b) \/ Advance(b) BY <2>4 DEF WriteOk, WriteFails
    <3>2. b # c => Same
      BY <3>1 DEF TypeOK, ThreadTypes, Raise, Finish, Advance, GoTo
    <3> QED BY <2>4, <3>2
  <2> QED BY <1>4, <2>1, <2>2, <2>3, <2>4 DEF Work
<1>5. ASSUME NEW b \in Instances, NEW p \in Partitions, Assign(p, b) PROVE Goal
  BY <1>1, <1>5 DEF Assign
<1>6. ASSUME NEW d \in dlq, Replay(d) \/ ReplayFails(d) PROVE Goal
  BY <1>1, <1>6 DEF Replay, ReplayFails
<1>7. CASE UNCHANGED vars BY <1>1, <1>7 DEF vars
<1> QED BY <1>2, <1>3, <1>4, <1>5, <1>6, <1>7 DEF Next

\* The stores are written by the write steps and the replays; one thread's
\* write step leaves the others where they are.
LEMMA StoreMoves ==
    ASSUME TypeOK, [Next]_vars
    PROVE  \/ UNCHANGED <<vertices, status, executed, failed, dlq>>
           \/ \E c \in Instances : WriteOk(c) \/ WriteFails(c)
           \/ \E d \in dlq : Replay(d) \/ ReplayFails(d)
<1> USE DEF broker, group, thread, graph, tables, budget, history
<1>1. CASE Publish BY <1>1 DEF Publish
<1>2. ASSUME NEW c \in Instances, Start(c) \/ Crash(c) \/ ThreadExit(c) \/ Revoke(c)
      PROVE  UNCHANGED <<vertices, status, executed, failed, dlq>>
  BY <1>2 DEF Start, Crash, ThreadExit, Revoke, Stop
<1>3. ASSUME NEW c \in Instances, Work(c), ~(WriteOk(c) \/ WriteFails(c))
      PROVE  UNCHANGED <<vertices, status, executed, failed, dlq>>
  BY <1>3 DEF Work, Poll, Check, CheckFails, Mark, MarkFails, Commit, CommitFails
<1>4. ASSUME NEW c \in Instances, NEW p \in Partitions, Assign(p, c)
      PROVE  UNCHANGED <<vertices, status, executed, failed, dlq>>
  BY <1>4 DEF Assign
<1>5. CASE UNCHANGED vars BY <1>5 DEF vars
<1> QED BY <1>1, <1>2, <1>3, <1>4, <1>5 DEF Next

\* What was settled before a message stays settled, so what had begun has begun.
LEMMA PassedStays ==
    ASSUME TypeOK, [Next]_vars, NEW p \in Partitions, NEW q \in Nat, Passed(p, q)
    PROVE  Passed(p, q)'
<1> SUFFICES ASSUME NEW o \in 1 .. (q - 1) PROVE Settled(p, o)' BY DEF Passed
<1>1. Settled(p, o) BY DEF Passed
<1> QED BY <1>1, SettledStays

LEMMA BegunStays ==
    ASSUME TypeOK, [Next]_vars, NEW e \in Events, Begun(e)
    PROVE  Begun(e)'
<1> DEFINE p == PartitionOf[e]
<1>0. p \in Partitions BY EventsAssumption
<1>1. PICK q \in 1 .. Len(log[p]) : log[p][q] = e /\ Passed(p, q) BY DEF Begun
<1>2. Len(log[p]) \in Nat /\ Len(log'[p]) \in Nat /\ Len(log[p]) <= Len(log'[p])
      /\ log'[p][q] = log[p][q]
  BY <1>0, SettlersGrow
<1>3. Passed(p, q)' BY <1>0, <1>1, <1>2, PassedStays
<1> QED BY <1>1, <1>2, <1>3 DEF Begun

\* A thread at a message has begun its event.
LEMMA BusyBegun ==
    ASSUME TypeOK, BegunInv, NEW c \in Instances, Busy(c)
    PROVE  Begun(Current(c)) /\ PartitionOf[Current(c)] = at[c][1]
<1>1. /\ at[c][1] \in Partitions /\ at[c][2] \in 1 .. Len(log[at[c][1]])
      /\ Current(c) = log[at[c][1]][at[c][2]]
  BY BusyThread DEF Current
<1>2. PartitionOf[Current(c)] = at[c][1] BY <1>1 DEF BegunInv, LogPlaced
<1>3. Passed(at[c][1], at[c][2]) BY DEF BegunInv, BusyPassed
<1> QED BY <1>1, <1>2, <1>3 DEF Begun

\* A call that was made, or failed, is of an event that had begun.
LEMMA TriedMoves ==
    ASSUME TypeOK, BegunInv, [Next]_vars
    PROVE  /\ failed \subseteq failed' /\ executed \subseteq executed' /\ dlq' \subseteq failed'
           /\ \A d \in (executed \cup failed)' : d[1] \in Events /\ Begun(d[1])
<1> USE DEF broker, group, thread, graph, tables, budget, history
<1>0. /\ \A d \in executed \cup failed : d[1] \in Events /\ Begun(d[1])
      /\ dlq \subseteq failed
  BY DEF TypeOK, StoreTypes, BegunInv, TriedBegun, DlqFailed
<1>1. CASE UNCHANGED <<vertices, status, executed, failed, dlq>> BY <1>0, <1>1
<1>2. ASSUME NEW c \in Instances, WriteOk(c) \/ WriteFails(c)
      PROVE  /\ failed \subseteq failed' /\ executed \subseteq executed' /\ dlq' \subseteq failed'
             /\ \A d \in (executed \cup failed)' : d[1] \in Events /\ Begun(d[1])
  <2>1. Busy(c) BY <1>2 DEF WriteOk, WriteFails, Busy
  <2>2. Current(c) \in Events /\ Begun(Current(c)) BY <2>1, BusyThread, BusyBegun
  <2> DEFINE d == <<Current(c), idx[c]>>
  <2>3. /\ executed' \in {executed, executed \cup {d}} /\ failed' \in {failed, failed \cup {d}}
        /\ dlq' \subseteq dlq \cup (failed' \cap {d})
    <3>1. CASE WriteOk(c) BY <3>1 DEF WriteOk, Apply
    <3>2. CASE WriteFails(c)
      <4>1. dlq' \subseteq dlq \cup {d} /\ failed' = failed \cup {d}
        BY <3>2 DEF WriteFails, WriteDlq
      <4>2. executed' \in {executed, executed \cup {d}} BY <3>2 DEF WriteFails, Apply
      <4> QED BY <4>1, <4>2
    <3> QED BY <1>2, <3>1, <3>2
  <2>4. d[1] = Current(c) OBVIOUS
  <2> HIDE DEF d, Current
  <2> QED BY <1>0, <2>2, <2>3, <2>4
<1>3. ASSUME NEW d \in dlq, Replay(d) \/ ReplayFails(d)
      PROVE  /\ failed \subseteq failed' /\ executed \subseteq executed' /\ dlq' \subseteq failed'
             /\ \A x \in (executed \cup failed)' : x[1] \in Events /\ Begun(x[1])
  <2>1. d = <<d[1], d[2]>> BY DeadLetter
  <2>2. /\ executed' \in {executed, executed \cup {d}} /\ failed' = failed
        /\ dlq' \subseteq dlq
    BY <1>3, <2>1 DEF Replay, ReplayFails, Apply
  <2> QED BY <1>0, <2>2
<1> QED BY <1>1, <1>2, <1>3, StoreMoves

\* Only a busy thread marks an event.
LEMMA ProcessedMoves ==
    ASSUME TypeOK, [Next]_vars
    PROVE  \/ processed' = processed
           \/ \E c \in Instances : pc[c] = "mark" /\ processed' = processed \cup {Current(c)}
<1> USE DEF broker, group, thread, graph, tables, budget, history
<1>1. CASE Publish BY <1>1 DEF Publish
<1>2. ASSUME NEW c \in Instances, Start(c) \/ Crash(c) \/ ThreadExit(c) \/ Revoke(c)
      PROVE  processed' = processed
  BY <1>2 DEF Start, Crash, ThreadExit, Revoke, Stop
<1>3. ASSUME NEW c \in Instances, Work(c), processed' # processed
      PROVE  pc[c] = "mark" /\ processed' = processed \cup {Current(c)}
  BY <1>3 DEF Work, Poll, Check, CheckFails, WriteOk, WriteFails, Mark, MarkFails, Commit,
     CommitFails
<1>4. ASSUME NEW c \in Instances, NEW p \in Partitions, Assign(p, c)
      PROVE  processed' = processed
  BY <1>4 DEF Assign
<1>5. ASSUME NEW d \in dlq, Replay(d) \/ ReplayFails(d) PROVE processed' = processed
  BY <1>5 DEF Replay, ReplayFails
<1>6. CASE UNCHANGED vars BY <1>6 DEF vars
<1> QED BY <1>1, <1>2, <1>3, <1>4, <1>5, <1>6 DEF Next

\* An event is put where its entity belongs.
LEMMA LogPlacedKept ==
    ASSUME TypeOK, LogPlaced, [Next]_vars
    PROVE  LogPlaced'
<1> USE DEF broker, group, thread, graph, tables, budget, history
<1>1. CASE log' = log BY <1>1 DEF LogPlaced
<1>2. CASE Publish
  <2> DEFINE e == Source[sent + 1]
             q == PartitionOf[e]
  <2>1. e \in Events /\ q \in Partitions /\ log' = [log EXCEPT ![q] = Append(@, e)]
    BY <1>2, EventsAssumption DEF TypeOK, BrokerTypes, Publish
  <2> HIDE DEF e
  <2>2. ASSUME NEW p \in Partitions, NEW o \in 1 .. Len(log'[p]) PROVE PartitionOf[log'[p][o]] = p
    <3>1. log[p] \in Seq(Events) /\ log \in [Partitions -> Seq(Events)]
      BY DEF TypeOK, BrokerTypes
    <3>2. CASE p # q BY <2>1, <3>1, <3>2 DEF LogPlaced
    <3>3. CASE p = q
      <4>1. log'[p] = Append(log[p], e) BY <2>1, <3>1, <3>3
      <4> QED BY <2>1, <3>1, <3>3, <4>1 DEF LogPlaced
    <3> QED BY <3>2, <3>3
  <2> QED BY <2>2 DEF LogPlaced
<1>3. ASSUME NEW c \in Instances, Start(c) \/ Crash(c) \/ ThreadExit(c) \/ Revoke(c)
      PROVE  log' = log
  BY <1>3 DEF Start, Crash, ThreadExit, Revoke, Stop
<1>4. ASSUME NEW c \in Instances, Work(c) PROVE log' = log
  BY <1>4 DEF Work, Poll, Check, CheckFails, WriteOk, WriteFails, Mark, MarkFails, Commit,
     CommitFails
<1>5. ASSUME NEW c \in Instances, NEW p \in Partitions, Assign(p, c) PROVE log' = log
  BY <1>5 DEF Assign
<1>6. ASSUME NEW d \in dlq, Replay(d) \/ ReplayFails(d) PROVE log' = log
  BY <1>6 DEF Replay, ReplayFails
<1>7. CASE UNCHANGED vars BY <1>1, <1>7 DEF vars
<1> QED BY <1>1, <1>2, <1>3, <1>4, <1>5, <1>6, <1>7 DEF Next

\* A thread keeps its message until it is idle.
LEMMA BusyStays ==
    ASSUME TypeOK, [Next]_vars, NEW c \in Instances, (Busy(c))'
    PROVE  (Busy(c) /\ at'[c] = at[c]) \/ \E p \in Partitions : Poll(c, p)
<1> USE DEF broker, group, thread, graph, tables, budget, history
<1>1. CASE Check(c) \/ WriteOk(c) \/ WriteFails(c) \/ Mark(c)
  <2>1. Busy(c) BY <1>1 DEF Check, WriteOk, WriteFails, Mark, Busy
  <2>2. at'[c] = at[c]
    <3>1. CASE Check(c) \/ Mark(c) BY <3>1 DEF Check, Mark
    <3>2. CASE WriteOk(c) \/ WriteFails(c)
      <4>1. CASE Raise(c)
        BY <4>1 DEF TypeOK, ThreadTypes, Raise, Finish, GoTo, Busy
      <4>2. CASE Advance(c) BY <4>2 DEF Advance
      <4> QED BY <3>2, <4>1, <4>2 DEF WriteOk, WriteFails
    <3> QED BY <1>1, <3>1, <3>2
  <2> QED BY <2>1, <2>2
<1>2. CASE pc'[c] = pc[c] /\ at'[c] = at[c] BY <1>2 DEF Busy
<1> QED BY <1>1, <1>2, ThreadMoves

\* The next message of an idle owner has everything before it settled.
LEMMA BusyPassedKept ==
    ASSUME TypeOK, TypeOK', SettledInv, BusyPassed, [Next]_vars
    PROVE  BusyPassed'
<1> USE DEF broker, group, thread, graph, tables, budget, history
<1> SUFFICES ASSUME NEW c \in Instances, (Busy(c))'
             PROVE  Passed(at[c][1], at[c][2])'
  BY DEF BusyPassed
<1>1. CASE Busy(c) /\ at'[c] = at[c]
  <2>1. at[c][1] \in Partitions /\ at[c][2] \in Nat BY <1>1, BusyThread DEF Messages
  <2>2. Passed(at[c][1], at[c][2]) BY <1>1 DEF BusyPassed
  <2> QED BY <1>1, <2>1, <2>2, PassedStays
<1>2. ASSUME NEW p \in Partitions, Poll(c, p) PROVE Passed(at[c][1], at[c][2])'
  <2>1. /\ ~Busy(c) /\ owner[p] = c /\ at'[c] = <<p, position[c][p] + 1>>
        /\ position[c][p] \in Nat
    BY <1>2 DEF TypeOK, ThreadTypes, Poll, Busy
  <2>2. \A o \in 1 .. position[c][p] : Settled(p, o)
    BY <2>1 DEF SettledInv, OwnedIsSettled
  <2>3. PICK q \in Nat : q = position[c][p] + 1 BY <2>1
  <2>4. Passed(p, q)
    <3> HIDE DEF Settled
    <3>1. q - 1 = position[c][p] BY <2>1, <2>3
    <3> QED BY <2>2, <3>1 DEF Passed
  <2>5. Passed(p, q)' BY <2>4, PassedStays
  <2>6. at'[c][1] = p /\ at'[c][2] = q BY <2>1, <2>3
  <2> QED BY <2>5, <2>6
<1> QED BY <1>1, <1>2, BusyStays

LEMMA NextBegun == TypeOK /\ SettledInv /\ BegunInv /\ [Next]_vars => BegunInv'
<1> SUFFICES ASSUME TypeOK, SettledInv, BegunInv, [Next]_vars PROVE BegunInv'
  OBVIOUS
<1>0. TypeOK' BY NextTypeOK
<1>1. LogPlaced' BY LogPlacedKept DEF BegunInv
<1>2. BusyPassed' BY <1>0, BusyPassedKept DEF BegunInv
<1>3. DlqFailed' BY TriedMoves DEF DlqFailed
<1>4. TriedBegun'
  <2> SUFFICES ASSUME NEW d \in (executed \cup failed)' PROVE Begun(d[1])' BY DEF TriedBegun
  <2>1. d[1] \in Events /\ Begun(d[1]) BY TriedMoves
  <2> QED BY <2>1, BegunStays
<1>5. ProcessedBegun'
  <2> SUFFICES ASSUME NEW e \in processed' PROVE Begun(e)' BY DEF ProcessedBegun
  <2>1. e \in Events /\ Begun(e)
    <3>1. CASE e \in processed BY <3>1 DEF TypeOK, StoreTypes, BegunInv, ProcessedBegun
    <3>2. CASE e \notin processed
      <4>1. PICK c \in Instances : pc[c] = "mark" /\ e = Current(c)
        BY <3>2, ProcessedMoves
      <4> QED BY <4>1, BusyThread, BusyBegun DEF Busy
    <3> QED BY <3>1, <3>2
  <2> QED BY <2>1, BegunStays
<1> QED BY <1>1, <1>2, <1>3, <1>4, <1>5 DEF BegunInv

\* Nobody gets back to a message that a first join jumped over: committed
\* positions and those of the owner are past it.
MissedInv ==
    \A p \in Partitions, o \in Nat \ {0} : <<p, o>> \in missed =>
        /\ o <= Len(log[p]) /\ (committed[p] # NoOffset => o <= committed[p])
        /\ \A c \in Instances : owner[p] = c =>
              o <= position[c][p] /\ ~(Busy(c) /\ at[c] = <<p, o>>)

\* A step that gives no partition away, commits and misses nothing.
LEMMA MissedFrame ==
    ASSUME TypeOK, MissedInv, [Next]_vars, missed' = missed, committed' = committed,
           \A c \in Instances, p \in Partitions : owner'[p] = c =>
               owner[p] = c /\ position'[c][p] = position[c][p],
           \A c \in Instances : (Busy(c))' => Busy(c) /\ at'[c] = at[c]
    PROVE  MissedInv'
<1> SUFFICES ASSUME NEW p \in Partitions, NEW o \in Nat \ {0}, <<p, o>> \in missed
             PROVE  /\ o <= Len(log'[p]) /\ (committed'[p] # NoOffset => o <= committed'[p])
                    /\ \A c \in Instances : owner'[p] = c =>
                          o <= position'[c][p] /\ ~((Busy(c))' /\ at'[c] = <<p, o>>)
  BY DEF MissedInv, NoOffset
<1>1. /\ o <= Len(log[p]) /\ (committed[p] # NoOffset => o <= committed[p])
      /\ \A c \in Instances : owner[p] = c =>
            o <= position[c][p] /\ ~(Busy(c) /\ at[c] = <<p, o>>)
  BY DEF MissedInv
<1>2. Len(log[p]) \in Nat /\ Len(log'[p]) \in Nat /\ Len(log[p]) <= Len(log'[p])
  BY SettlersGrow
<1> QED BY <1>1, <1>2

LEMMA NextMissed == TypeOK /\ MissedInv /\ [Next]_vars => MissedInv'
<1> SUFFICES ASSUME TypeOK, MissedInv, [Next]_vars PROVE MissedInv'
  OBVIOUS
<1> USE DEF broker, group, thread, graph, tables, budget, history
<1>1. CASE UNCHANGED <<owner, position, committed, missed>>
           /\ \A c \in Instances, p \in Partitions : ~Poll(c, p)
  BY <1>1, BusyStays, MissedFrame
<1>2. ASSUME NEW c \in Instances, Crash(c) \/ ThreadExit(c) \/ Revoke(c) PROVE MissedInv'
  <2>1. /\ owner' = [p \in Partitions |-> IF owner[p] = c THEN NoInstance ELSE owner[p]]
        /\ committed' = committed /\ missed' = missed
        /\ \A b \in Instances : b # c => position'[b] = position[b]
        /\ \A b \in Instances : (Busy(b))' => Busy(b) /\ at'[b] = at[b]
    BY <1>2 DEF TypeOK, ThreadTypes, Crash, ThreadExit, Revoke, Stop, GoTo, Busy
  <2>2. \A b \in Instances, p \in Partitions : owner'[p] = b =>
            owner[p] = b /\ position'[b][p] = position[b][p]
    BY <2>1, EventsAssumption
  <2> QED BY <2>1, <2>2, MissedFrame
<1>3. ASSUME NEW c \in Instances, NEW q \in Partitions, Assign(q, c) PROVE MissedInv'
  <2>1. /\ UNCHANGED <<pc, at, committed, log>> /\ pc[c] = "polling" /\ owner[q] = NoInstance
        /\ \A p \in Partitions : p # q => owner'[p] = owner[p]
        /\ owner'[q] = c
    BY <1>3 DEF TypeOK, BrokerTypes, Assign
  <2>2. position \in [Instances -> [Partitions -> Nat]] BY DEF TypeOK, ThreadTypes
  <2>3. PICK v : position' = [position EXCEPT ![c][q] = v] BY <1>3 DEF Assign
  <2>4. \A b \in Instances, p \in Partitions : b # c \/ p # q => position'[b][p] = position[b][p]
    <3> SUFFICES ASSUME NEW b \in Instances, NEW p \in Partitions, b # c \/ p # q
                 PROVE  position'[b][p] = position[b][p]
      OBVIOUS
    <3>1. CASE b # c BY <2>2, <2>3, <3>1
    <3>2. CASE p # q BY <2>2, <2>3, <3>2
    <3> QED BY <3>1, <3>2
  <2>5. ~Busy(c) /\ \A b \in Instances : (Busy(b))' <=> Busy(b) BY <2>1 DEF Busy
  <2>6. Len(log[q]) \in Nat BY DEF TypeOK, BrokerTypes
  <2>7. ASSUME NEW o \in Nat \ {0}, <<q, o>> \in missed'
        PROVE  /\ o <= Len(log[q]) /\ (committed[q] # NoOffset => o <= committed[q])
               /\ o <= position'[c][q]
    <3>1. CASE committed[q] = NoOffset
      <4>1. /\ position'[c][q] = Len(log[q])
            /\ missed' = missed \cup {<<q, x>> : x \in 1 .. Len(log[q])}
        BY <1>3, <2>2, <3>1 DEF Assign
      <4>2. o <= Len(log[q]) BY <2>6, <2>7, <4>1 DEF MissedInv
      <4> QED BY <3>1, <4>1, <4>2
    <3>2. CASE committed[q] # NoOffset
      <4>1. position'[c][q] = committed[q] /\ missed' = missed
        BY <1>3, <2>2, <3>2 DEF Assign
      <4> QED BY <2>7, <3>2, <4>1 DEF MissedInv
    <3> QED BY <3>1, <3>2
  <2>8. ASSUME NEW p \in Partitions, NEW o \in Nat \ {0}, <<p, o>> \in missed', p # q
        PROVE  <<p, o>> \in missed
    BY <1>3, <2>8 DEF Assign
  <2> SUFFICES ASSUME NEW p \in Partitions, NEW o \in Nat \ {0}, <<p, o>> \in missed'
               PROVE  /\ o <= Len(log[p]) /\ (committed[p] # NoOffset => o <= committed[p])
                      /\ \A b \in Instances : owner'[p] = b =>
                            o <= position'[b][p] /\ ~(Busy(b) /\ at[b] = <<p, o>>)
    BY <2>1, <2>5 DEF MissedInv, NoOffset
  <2>9. CASE p = q BY <2>1, <2>5, <2>7, <2>9
  <2>10. CASE p # q BY <2>1, <2>4, <2>8, <2>10 DEF MissedInv
  <2> QED BY <2>9, <2>10
<1>4. ASSUME NEW c \in Instances, NEW q \in Partitions, Poll(c, q) PROVE MissedInv'
  <2>1. /\ ~Busy(c) /\ at'[c] = <<q, position[c][q] + 1>> /\ owner[q] = c
        /\ UNCHANGED <<owner, committed, missed, log>>
        /\ \A b \in Instances : b # c =>
              /\ ((Busy(b))' <=> Busy(b)) /\ at'[b] = at[b] /\ position'[b] = position[b]
        /\ \A p \in Partitions : p # q => position'[c][p] = position[c][p]
        /\ position'[c][q] = position[c][q] + 1
    BY <1>4 DEF TypeOK, ThreadTypes, Poll, GoTo, Busy
  <2>2. \A b \in Instances, p \in Partitions : position[b][p] \in Nat BY DEF TypeOK, ThreadTypes
  <2>3. ASSUME NEW p \in Partitions, NEW o \in Nat \ {0}, <<p, o>> \in missed,
               NEW b \in Instances, owner[p] = b
        PROVE  o <= position'[b][p] /\ ~((Busy(b))' /\ at'[b] = <<p, o>>)
    <3>1. o <= position[b][p] /\ ~(Busy(b) /\ at[b] = <<p, o>>) BY <2>3 DEF MissedInv
    <3>2. CASE b # c BY <2>1, <3>1, <3>2
    <3>3. CASE b = c
      <4>1. o <= position'[c][p] BY <2>1, <2>2, <3>1, <3>3
      <4>2. at'[c] # <<p, o>> BY <2>1, <2>2, <3>1, <3>3
      <4> QED BY <3>3, <4>1, <4>2
    <3> QED BY <3>2, <3>3
  <2> QED BY <2>1, <2>3 DEF MissedInv, NoOffset
<1>5. ASSUME NEW c \in Instances, Commit(c) PROVE MissedInv'
  <2>1. /\ UNCHANGED <<owner, position, missed, log>>
        /\ committed' = [p \in Partitions |->
                            IF owner[p] = c THEN position[c][p] ELSE committed[p]]
        /\ \A b \in Instances : (Busy(b))' => Busy(b) /\ at'[b] = at[b]
    BY <1>5 DEF TypeOK, ThreadTypes, Commit, Finish, GoTo, Busy
  <2>2. ASSUME NEW p \in Partitions, NEW o \in Nat \ {0}, <<p, o>> \in missed
        PROVE  committed'[p] # NoOffset => o <= committed'[p]
    BY <2>1, <2>2 DEF MissedInv
  <2> QED BY <2>1, <2>2 DEF MissedInv, NoOffset
<1>6. ASSUME NEW c \in Instances, Work(c), ~Commit(c), \A p \in Partitions : ~Poll(c, p)
      PROVE  MissedInv'
  <2>1. UNCHANGED <<owner, position, committed, missed>>
    BY <1>6 DEF Work, Check, CheckFails, WriteOk, WriteFails, Mark, MarkFails, CommitFails
  <2>2. \A b \in Instances : (Busy(b))' => Busy(b) /\ at'[b] = at[b]
    <3>1. pc[c] # "polling"
      BY <1>6 DEF Work, Check, CheckFails, WriteOk, WriteFails, Mark, MarkFails, CommitFails
    <3>2. \A b \in Instances : b # c => pc'[b] = pc[b] /\ at'[b] = at[b]
      BY <1>6 DEF TypeOK, ThreadTypes, Work, Check, CheckFails, WriteOk, WriteFails, Mark, MarkFails,
         CommitFails, Raise, Finish, Advance, GoTo
    <3>3. (Busy(c))' => Busy(c) /\ at'[c] = at[c]
      BY <3>1, BusyStays DEF Poll
    <3> QED BY <3>2, <3>3 DEF Busy
  <2> QED BY <2>1, <2>2, MissedFrame
<1>7. ASSUME NEW c \in Instances, Start(c) PROVE MissedInv'
  <2>1. \A b \in Instances : (Busy(b))' => Busy(b) /\ at'[b] = at[b]
    BY <1>7 DEF TypeOK, ThreadTypes, Start, GoTo, Busy
  <2> QED BY <1>7, <2>1, MissedFrame DEF Start
<1>8. CASE Publish \/ UNCHANGED vars \/ \E d \in dlq : Replay(d) \/ ReplayFails(d)
  <2>1. UNCHANGED <<owner, position, committed, missed, pc, at>>
    BY <1>8 DEF Publish, Replay, ReplayFails, vars
  <2> QED BY <2>1, MissedFrame DEF Busy
<1> QED BY <1>2, <1>3, <1>4, <1>5, <1>6, <1>7, <1>8 DEF Next

\* Some call of the event was made or failed, or a thread is at it.
Touched(e) == (\E d \in executed \cup failed : d[1] = e) \/ \E b \in Instances : Busy(b) /\ Current(b) = e
\* Every copy of e stands after the message m of its partition.
Follows(e, m) == \A q \in 1 .. Len(log[m[1]]) : log[m[1]][q] = e => m[2] < q
\* An owner that writes although an event that follows was touched is at a
\* message that had raised.
WriterFirst ==
    \A c \in Instances : pc[c] = "write" /\ owner[at[c][1]] = c =>
        \A f \in Events :
            Touched(f) /\ PartitionOf[f] = at[c][1] /\ Follows(f, at[c]) => at[c] \in raised
\* The state a vertex shows was written by a call.
StatusShown ==
    \A n \in Nodes : status[n] \in Events =>
        n \in vertices /\ \E d \in executed : d[1] = status[n]

\* A vertex gets its state from the call that is running, of a thread or of a
\* replayed letter.
LEMMA StatusMoves ==
    ASSUME TypeOK, [Next]_vars, NEW n \in Nodes, status'[n] # status[n]
    PROVE  \E e \in Events : \E i \in 1 .. Len(Steps[e]) :
              /\ status'[n] = e /\ <<e, i>> \in executed' /\ n \in vertices'
              /\ Steps[e][i].src = n /\ Steps[e][i].sets
              /\ \/ <<e, i>> \in dlq
                 \/ \E c \in Instances :
                       /\ WriteOk(c) \/ WriteFails(c)
                       /\ e = Current(c) /\ i = idx[c]
<1> USE DEF broker, group, thread, graph, tables, budget, history
<1>0. status \in [Nodes -> Events \cup {NoEvent}] BY DEF TypeOK, StoreTypes
<1>1. ASSUME NEW e \in Events, NEW i \in 1 .. Len(Steps[e]), Apply(e, i)
      PROVE  /\ status'[n] = e /\ <<e, i>> \in executed' /\ n \in vertices'
             /\ Steps[e][i].src = n /\ Steps[e][i].sets
  BY <1>0, <1>1 DEF Apply
<1>2. ASSUME NEW c \in Instances, WriteOk(c) \/ WriteFails(c)
      PROVE  /\ Current(c) \in Events /\ idx[c] \in 1 .. Len(Steps[Current(c)])
             /\ Apply(Current(c), idx[c])
  <2>1. pc[c] = "write" BY <1>2 DEF WriteOk, WriteFails
  <2>2. Current(c) \in Events /\ idx[c] \in 1 .. Len(Steps[Current(c)])
    BY <2>1, BusyThread DEF Busy
  <2>3. Apply(Current(c), idx[c]) BY <1>2 DEF WriteOk, WriteFails
  <2> QED BY <2>2, <2>3
<1>3. ASSUME NEW d \in dlq, Replay(d) \/ ReplayFails(d)
      PROVE  /\ d[1] \in Events /\ d[2] \in 1 .. Len(Steps[d[1]]) /\ d = <<d[1], d[2]>>
             /\ Apply(d[1], d[2])
  BY <1>3, DeadLetter DEF Replay, ReplayFails
<1>4. CASE \E c \in Instances : WriteOk(c) \/ WriteFails(c)
  <2>1. PICK c \in Instances : WriteOk(c) \/ WriteFails(c) BY <1>4
  <2>2. PICK e \in Events : e = Current(c) BY <1>2, <2>1
  <2>3. PICK i \in 1 .. Len(Steps[e]) : i = idx[c] BY <1>2, <2>1, <2>2
  <2>4. Apply(e, i) BY <1>2, <2>1, <2>2, <2>3
  <2> HIDE DEF Apply, Current, WriteOk, WriteFails
  <2> QED BY <1>1, <2>1, <2>2, <2>3, <2>4
<1>5. CASE \E d \in dlq : Replay(d) \/ ReplayFails(d)
  BY <1>1, <1>3, <1>5
<1> QED BY <1>4, <1>5, StoreMoves

\* Vertices stay.
LEMMA VerticesStay ==
    ASSUME TypeOK, [Next]_vars
    PROVE  vertices \subseteq vertices'
<1> USE DEF broker, group, thread, graph, tables, budget, history
<1>1. ASSUME NEW c \in Instances, WriteOk(c) \/ WriteFails(c) PROVE vertices \subseteq vertices'
  BY <1>1 DEF WriteOk, WriteFails, Apply
<1>2. ASSUME NEW d \in dlq, Replay(d) \/ ReplayFails(d) PROVE vertices \subseteq vertices'
  BY <1>2 DEF Replay, ReplayFails, Apply
<1> QED BY <1>1, <1>2, StoreMoves

LEMMA NextShown == TypeOK /\ BegunInv /\ StatusShown /\ [Next]_vars => StatusShown'
<1> SUFFICES ASSUME TypeOK, BegunInv, StatusShown, [Next]_vars,
                    NEW n \in Nodes, status'[n] \in Events
             PROVE  n \in vertices' /\ \E d \in executed' : d[1] = status'[n]
  BY DEF StatusShown
<1>1. CASE status'[n] = status[n]
  BY <1>1, VerticesStay, TriedMoves DEF StatusShown
<1>2. CASE status'[n] # status[n]
  <2>1. PICK e \in Events : \E i \in 1 .. Len(Steps[e]) :
            status'[n] = e /\ <<e, i>> \in executed' /\ n \in vertices'
    BY <1>2, StatusMoves
  <2> QED BY <2>1
<1> QED BY <1>1, <1>2

\* A partition is given only to a thread that polls.
LEMMA OwnerMoves ==
    ASSUME TypeOK, [Next]_vars, NEW c \in Instances, NEW p \in Partitions, owner'[p] = c
    PROVE  owner[p] = c \/ pc[c] = "polling"
<1> USE DEF broker, group, thread, graph, tables, budget, history
<1>1. CASE owner' = owner BY <1>1
<1>2. ASSUME NEW b \in Instances, Crash(b) \/ ThreadExit(b) \/ Revoke(b) PROVE owner[p] = c
  BY <1>2, EventsAssumption DEF Crash, ThreadExit, Revoke, Stop
<1>3. ASSUME NEW b \in Instances, NEW q \in Partitions, Assign(q, b)
      PROVE  owner[p] = c \/ pc[c] = "polling"
  BY <1>3 DEF TypeOK, BrokerTypes, Assign
<1>4. ASSUME NEW b \in Instances, Start(b) \/ Work(b) PROVE owner' = owner
  BY <1>4 DEF Start, Work, Poll, Check, CheckFails, WriteOk, WriteFails, Mark, MarkFails, Commit,
     CommitFails
<1>5. CASE Publish \/ UNCHANGED vars \/ \E d \in dlq : Replay(d) \/ ReplayFails(d)
  BY <1>5 DEF Publish, Replay, ReplayFails, vars
<1> QED BY <1>1, <1>2, <1>3, <1>4, <1>5 DEF Next

\* A thread comes to its message by taking it, or had it before.
LEMMA TouchedMoves ==
    ASSUME TypeOK, BegunInv, [Next]_vars, NEW f \in Events, Touched(f)'
    PROVE  \/ Touched(f)
           \/ \E b \in Instances : pc[b] = "polling" /\ owner[PartitionOf[f]] = b
<1> USE DEF broker, group, thread, graph, tables, budget, history
<1>1. CASE \E b \in Instances : (Busy(b))' /\ (Current(b))' = f
  <2>1. PICK b \in Instances : (Busy(b))' /\ (Current(b))' = f BY <1>1
  <2>2. CASE Busy(b) /\ at'[b] = at[b]
    <3>1. /\ at[b][1] \in Partitions /\ at[b][2] \in 1 .. Len(log[at[b][1]])
      BY <2>2, BusyThread
    <3>2. log'[at[b][1]][at[b][2]] = log[at[b][1]][at[b][2]] BY <3>1, SettlersGrow
    <3>3. Current(b) = f BY <2>1, <2>2, <3>2 DEF Current
    <3> QED BY <2>2, <3>3 DEF Touched
  <2>3. ASSUME NEW p \in Partitions, Poll(b, p)
        PROVE  pc[b] = "polling" /\ owner[PartitionOf[f]] = b
    <3>1. /\ pc[b] = "polling" /\ owner[p] = b /\ log' = log
          /\ at'[b] = <<p, position[b][p] + 1>> /\ position[b][p] < Len(log[p])
          /\ position[b][p] \in Nat /\ Len(log[p]) \in Nat
      BY <2>3 DEF TypeOK, ThreadTypes, BrokerTypes, Poll
    <3>2. f = log[p][position[b][p] + 1] BY <2>1, <3>1 DEF Current
    <3>3. position[b][p] + 1 \in 1 .. Len(log[p]) BY <3>1
    <3>4. PartitionOf[f] = p BY <3>2, <3>3 DEF BegunInv, LogPlaced
    <3> QED BY <3>1, <3>4
  <2> QED BY <2>1, <2>2, <2>3, BusyStays
<1>2. ASSUME NEW d \in (executed \cup failed)', d[1] = f PROVE Touched(f)
  <2>1. CASE d \in executed \cup failed BY <1>2, <2>1 DEF Touched
  <2>2. ASSUME NEW c \in Instances, WriteOk(c) \/ WriteFails(c), d \notin executed \cup failed
        PROVE  Touched(f)
    <3>1. pc[c] = "write" /\ d = <<Current(c), idx[c]>>
      BY <1>2, <2>2 DEF WriteOk, WriteFails, Apply
    <3>2. Current(c) = f BY <1>2, <3>1
    <3> QED BY <3>1, <3>2 DEF Touched, Busy
  <2>3. ASSUME NEW x \in dlq, Replay(x) \/ ReplayFails(x), d \notin executed \cup failed
        PROVE  Touched(f)
    <3>1. d = x
      <4>1. x = <<x[1], x[2]>> BY DeadLetter
      <4> QED BY <1>2, <2>3, <4>1 DEF Replay, ReplayFails, Apply
    <3> QED BY <1>2, <3>1 DEF Touched, BegunInv, DlqFailed
  <2> QED BY <1>2, <2>1, <2>2, <2>3, StoreMoves
<1> QED BY <1>1, <1>2 DEF Touched

\* What was touched had begun.
LEMMA TouchedBegun ==
    ASSUME TypeOK, BegunInv, NEW f \in Events, Touched(f)
    PROVE  Begun(f)
BY BusyBegun DEF Touched, BegunInv, TriedBegun

LEMMA NextFirst ==
    TypeOK /\ BegunInv /\ MissedInv /\ WriterFirst /\ [Next]_vars => WriterFirst'
<1> SUFFICES ASSUME TypeOK, BegunInv, MissedInv, WriterFirst, [Next]_vars,
                    NEW c \in Instances, pc'[c] = "write", owner'[at'[c][1]] = c,
                    NEW f \in Events, Touched(f)', PartitionOf[f] = at'[c][1],
                    Follows(f, at[c])'
             PROVE  at'[c] \in raised'
  BY DEF WriterFirst
<1>1. (Busy(c))' BY DEF Busy
<1>2. Busy(c) /\ at'[c] = at[c]
  <2>1. ASSUME NEW p \in Partitions PROVE ~Poll(c, p)
    BY DEF TypeOK, ThreadTypes, Poll, GoTo
  <2> QED BY <1>1, <2>1, BusyStays
<1>3. PICK p \in Partitions, o \in Nat \ {0} : at[c] = <<p, o>> BY <1>2, BusyThread DEF Messages
<1>4. o \in 1 .. Len(log[p]) BY <1>2, <1>3, BusyThread
<1>5. owner[p] = c
  <2>1. owner'[p] = c BY <1>2, <1>3
  <2>2. pc[c] # "polling" BY <1>2 DEF Busy
  <2> QED BY <2>1, <2>2, OwnerMoves
<1>6. PartitionOf[f] = p BY <1>2, <1>3
<1>7. Touched(f)
  <2>1. ~\E b \in Instances : pc[b] = "polling" /\ owner[p] = b BY <1>2, <1>5 DEF Busy
  <2> QED BY <1>6, <2>1, TouchedMoves
<1>8. \A q \in 1 .. Len(log[p]) : log[p][q] = f => o < q
  <2> SUFFICES ASSUME NEW q \in 1 .. Len(log[p]), log[p][q] = f PROVE o < q OBVIOUS
  <2>1. q \in 1 .. Len(log'[p]) /\ log'[p][q] = f BY SettlersGrow
  <2>2. at'[c][1] = p /\ at'[c][2] = o BY <1>2, <1>3
  <2> QED BY <2>1, <2>2 DEF Follows
<1>9. CASE pc[c] = "write"
  <2>1. Follows(f, at[c]) BY <1>3, <1>8 DEF Follows
  <2>2. at[c] \in raised BY <1>3, <1>5, <1>6, <1>7, <1>9, <2>1 DEF WriterFirst
  <2> QED BY <1>2, <2>2, SettlersGrow
<1>10. CASE pc[c] # "write"
  <2>1. Check(c)
    <3>1. ~Mark(c) BY DEF Mark, TypeOK, ThreadTypes, GoTo
    <3>2. ~WriteOk(c) /\ ~WriteFails(c) BY <1>10 DEF WriteOk, WriteFails
    <3>3. ASSUME NEW q \in Partitions PROVE ~Poll(c, q) BY <1>2 DEF Poll, Busy
    <3> QED BY <1>1, <1>10, <3>1, <3>2, <3>3, ThreadMoves
  <2>2. Current(c) \notin Ignored \cup processed
    BY <1>10, <2>1 DEF Check, TypeOK, ThreadTypes, GoTo
  <2>3. PICK q \in 1 .. Len(log[p]) : log[p][q] = f /\ Passed(p, q)
    BY <1>6, <1>7, TouchedBegun DEF Begun
  <2>4. Settled(p, o)
    <3>1. o < q /\ q \in Nat /\ o \in Nat \ {0} BY <1>8, <1>4, <2>3
    <3>2. o \in 1 .. (q - 1) BY <3>1
    <3> HIDE DEF Settled
    <3> QED BY <2>3, <3>2 DEF Passed
  <2>5. <<p, o>> \in raised \cup missed BY <1>3, <2>2, <2>4 DEF Settled, Current
  <2>6. <<p, o>> \notin missed BY <1>2, <1>3, <1>5 DEF MissedInv
  <2> QED BY <1>2, <1>3, <2>5, <2>6, SettlersGrow
<1> QED BY <1>9, <1>10

\* All of it, as one invariant.
OrderInv == SettledInv /\ BegunInv /\ MissedInv /\ StatusShown /\ WriterFirst

LEMMA InitOrder == Init => OrderInv
<1> SUFFICES ASSUME Init PROVE OrderInv OBVIOUS
<1>1. SettledInv BY InitSettled
<1>2. /\ executed = {} /\ failed = {} /\ dlq = {} /\ processed = {} /\ missed = {}
      /\ \A c \in Instances : ~Busy(c) /\ pc[c] # "write"
      /\ \A p \in Partitions : Len(log[p]) = 0
      /\ \A n \in Nodes : status[n] = NoEvent
  BY DEF Init, Busy
<1>3. BegunInv
  BY <1>2 DEF BegunInv, LogPlaced, BusyPassed, DlqFailed, TriedBegun, ProcessedBegun
<1>4. MissedInv /\ StatusShown /\ WriterFirst
  BY <1>2, EventsAssumption DEF MissedInv, StatusShown, WriterFirst
<1> QED BY <1>1, <1>3, <1>4 DEF OrderInv

LEMMA NextOrder == TypeOK /\ OrderInv /\ [Next]_vars => OrderInv'
BY NextSettled, NextBegun, NextMissed, NextShown, NextFirst DEF OrderInv

\* What an owner's write step does is what its thread's call does.
LEMMA WriteForward ==
    ASSUME TypeOK, OrderInv, [Next]_vars, NEW c \in Instances, NEW n \in Nodes,
           OwnerWrites(c), status[n] \in Events, status'[n] # status[n],
           Earlier(status'[n], status[n])
    PROVE  \E m \in raised : log[m[1]][m[2]] = status'[n]
<1> USE DEF broker, group, thread, graph, tables, budget, history
<1>1. WriteOk(c) \/ WriteFails(c)
  <2>1. ASSUME NEW d \in dlq, Replay(d) \/ ReplayFails(d) PROVE idx' = idx
    BY <2>1 DEF Replay, ReplayFails
  <2>2. ASSUME NEW b \in Instances, b # c, WriteOk(b) \/ WriteFails(b) PROVE idx'[c] = idx[c]
    BY <2>2 DEF TypeOK, ThreadTypes, WriteOk, WriteFails, Raise, Finish, Advance
  <2> QED BY <2>1, <2>2, StoreMoves DEF OwnerWrites
<1>2. status'[n] = Current(c)
  <2>1. Apply(Current(c), idx[c]) BY <1>1 DEF WriteOk, WriteFails
  <2>2. status \in [Nodes -> Events \cup {NoEvent}] BY DEF TypeOK, StoreTypes
  <2> HIDE DEF Current
  <2> QED BY <2>1, <2>2 DEF Apply
<1>3. Busy(c) /\ pc[c] = "write" /\ owner[at[c][1]] = c BY DEF OwnerWrites, Busy
<1>4. PICK p \in Partitions, o \in Nat \ {0} : at[c] = <<p, o>> BY <1>3, BusyThread DEF Messages
<1>5. o \in 1 .. Len(log[p]) /\ log[p][o] = Current(c) BY <1>3, <1>4, BusyThread DEF Current
<1>6. PICK f \in Events : f = status[n] OBVIOUS
<1>7. PartitionOf[Current(c)] = p BY <1>3, <1>4, BusyBegun DEF OrderInv
<1>8. PartitionOf[f] = p /\ \A q \in 1 .. Len(log[p]) : log[p][q] = f => o < q
  <2>1. PICK e \in Events : e = Current(c) BY <1>3, BusyThread
  <2>2. Earlier(e, f) BY <1>2, <1>6, <2>1
  <2>3. DOMAIN log[p] = 1 .. Len(log[p]) BY DEF TypeOK, BrokerTypes
  <2> HIDE DEF Current
  <2> QED BY <1>5, <1>7, <2>1, <2>2, <2>3 DEF Earlier
<1>9. Follows(f, at[c]) BY <1>4, <1>8 DEF Follows
<1>10. Touched(f) BY <1>6 DEF OrderInv, StatusShown, Touched
<1>11. at[c] \in raised BY <1>3, <1>4, <1>8, <1>9, <1>10 DEF OrderInv, WriterFirst
<1> QED BY <1>2, <1>4, <1>5, <1>11

\* "Same-entity events stay ordered" (main.py 6): with any number of threads,
\* crashes, rebalances, failures and replays, an owner never writes the state
\* of an earlier event over that of a later one, unless an earlier delivery
\* of it had raised.
THEOREM OwnersWriteForward == Spec => OwnerWritesForward
<1>1. TypeOK /\ OrderInv /\ [Next]_vars =>
          [\A c \in Instances, n \in Nodes :
              /\ OwnerWrites(c) /\ status[n] \in Events
              /\ status'[n] # status[n] /\ Earlier(status'[n], status[n])
              => \E m \in raised : log[m[1]][m[2]] = status'[n]]_vars
  BY WriteForward
<1> QED
  BY <1>1, InitTypeOK, NextTypeOK, InitOrder, NextOrder, PTL DEF Spec, OwnerWritesForward

-----------------------------------------------------------------------------
(* OlderStateHasFailure, of one task.  A thread that writes an event whose  *)
(* successor is processed is at a message that was settled before: its own  *)
(* event is not processed, it was not missed, so it had raised.  A letter   *)
(* that is replayed had failed.  And the state of the event that came after *)
(* was written when it was handled, or its write failed.                    *)

OneTask == \A b, c \in Instances : b = c

WriterUnprocessed == \A c \in Instances : pc[c] = "write" => Current(c) \notin processed
BusyUnmissed == \A c \in Instances : Busy(c) => at[c] \notin missed
RaisedInLog == \A m \in raised : m[1] \in Partitions /\ m[2] \in 1 .. Len(log[m[1]])

\* The handling of e has got past its step i.
Handled(e, i) ==
    \/ e \in processed
    \/ \E c \in Instances : /\ pc[c] = "mark" \/ (pc[c] = "write" /\ i < idx[c])
                            /\ Current(c) = e
Excused(e, s, n) ==
    \/ \E d \in failed : d[1] \in {e, s} /\ Steps[d[1]][d[2]].src = n
    \/ \E m \in raised : log[m[1]][m[2]] = s
NewestShown ==
    \A n \in Nodes, e \in Events : \A i \in 1 .. Len(Steps[e]) :
        /\ Handled(e, i) /\ Steps[e][i].src = n /\ Steps[e][i].sets
        /\ status[n] \in Events /\ Earlier(status[n], e)
        => Excused(e, status[n], n)
OneTaskInv == WriterUnprocessed /\ BusyUnmissed /\ RaisedInLog /\ NewestShown

\* Who raised was at work, and only a first join misses messages.
LEMMA RaisedMoves ==
    ASSUME TypeOK, [Next]_vars
    PROVE  \/ raised' = raised
           \/ \E c \in Instances : Busy(c) /\ raised' = raised \cup {at[c]}
<1> USE DEF broker, group, thread, graph, tables, budget, history
<1>1. CASE Publish \/ UNCHANGED vars \/ \E d \in dlq : Replay(d) \/ ReplayFails(d)
  BY <1>1 DEF Publish, Replay, ReplayFails, vars
<1>2. ASSUME NEW c \in Instances, Start(c) \/ Crash(c) \/ ThreadExit(c) \/ Revoke(c)
      PROVE  raised' = raised
  BY <1>2 DEF Start, Crash, ThreadExit, Revoke, Stop
<1>3. ASSUME NEW c \in Instances, Work(c), raised' # raised
      PROVE  Busy(c) /\ raised' = raised \cup {at[c]}
  BY <1>3 DEF Work, Poll, Check, CheckFails, WriteOk, WriteFails, Mark, MarkFails, Commit,
     CommitFails, Raise, Busy
<1>4. ASSUME NEW c \in Instances, NEW p \in Partitions, Assign(p, c)
      PROVE  raised' = raised
  BY <1>4 DEF Assign
<1> QED BY <1>1, <1>2, <1>3, <1>4 DEF Next

LEMMA MissedMoves ==
    ASSUME TypeOK, [Next]_vars
    PROVE  missed' = missed \/ \E c \in Instances, p \in Partitions : Assign(p, c)
<1> USE DEF broker, group, thread, graph, tables, budget, history
<1>1. CASE Publish \/ UNCHANGED vars \/ \E d \in dlq : Replay(d) \/ ReplayFails(d)
  BY <1>1 DEF Publish, Replay, ReplayFails, vars
<1>2. ASSUME NEW c \in Instances, Start(c) \/ Crash(c) \/ ThreadExit(c) \/ Revoke(c)
      PROVE  missed' = missed
  BY <1>2 DEF Start, Crash, ThreadExit, Revoke, Stop
<1>3. ASSUME NEW c \in Instances, Work(c) PROVE missed' = missed
  BY <1>3 DEF Work, Poll, Check, CheckFails, WriteOk, WriteFails, Mark, MarkFails, Commit,
     CommitFails
<1> QED BY <1>1, <1>2, <1>3 DEF Next

LEMMA NextRaisedInLog == TypeOK /\ RaisedInLog /\ [Next]_vars => RaisedInLog'
<1> SUFFICES ASSUME TypeOK, RaisedInLog, [Next]_vars, NEW m \in raised'
             PROVE  m[1] \in Partitions /\ m[2] \in 1 .. Len(log'[m[1]])
  BY DEF RaisedInLog
<1>1. m[1] \in Partitions /\ m[2] \in 1 .. Len(log[m[1]])
  <2>1. CASE m \in raised BY <2>1 DEF RaisedInLog
  <2>2. ASSUME NEW c \in Instances, Busy(c), m = at[c]
        PROVE  m[1] \in Partitions /\ m[2] \in 1 .. Len(log[m[1]])
    BY <2>2, BusyThread
  <2> QED BY <2>1, <2>2, RaisedMoves
<1> QED BY <1>1, SettlersGrow

\* The only thread writes what it found unprocessed, and only it marks.
LEMMA NextUnprocessed ==
    ASSUME OneTask, TypeOK, WriterUnprocessed, [Next]_vars
    PROVE  WriterUnprocessed'
<1> USE DEF broker, group, thread, graph, tables, budget, history
<1> SUFFICES ASSUME NEW c \in Instances, pc'[c] = "write" PROVE (Current(c) \notin processed)'
  BY DEF WriterUnprocessed
<1>1. Busy(c) /\ at'[c] = at[c]
  <2>1. ASSUME NEW p \in Partitions PROVE ~Poll(c, p) BY DEF TypeOK, ThreadTypes, Poll, GoTo
  <2> QED BY <2>1, BusyStays DEF Busy
<1>2. (Current(c))' = Current(c)
  <2>1. at[c][1] \in Partitions /\ at[c][2] \in 1 .. Len(log[at[c][1]]) BY <1>1, BusyThread
  <2> QED BY <1>1, <2>1, SettlersGrow DEF Current
<1>3. pc[c] # "mark" /\ (pc[c] # "write" => Check(c))
  <2>1. ~Mark(c) BY DEF Mark, TypeOK, ThreadTypes, GoTo
  <2>2. pc[c] # "write" => ~WriteOk(c) /\ ~WriteFails(c) BY DEF WriteOk, WriteFails
  <2>3. ASSUME NEW p \in Partitions PROVE ~Poll(c, p) BY DEF TypeOK, ThreadTypes, Poll, GoTo
  <2>4. pc[c] # "write" => Check(c) BY <2>1, <2>2, <2>3, ThreadMoves DEF Busy
  <2> QED BY <2>4 DEF Check
<1>4. processed' = processed BY <1>3, ProcessedMoves DEF OneTask
<1>5. Current(c) \notin processed
  <2>1. CASE pc[c] = "write" BY <2>1 DEF WriterUnprocessed
  <2>2. CASE Check(c) BY <2>2 DEF Check, TypeOK, ThreadTypes, GoTo
  <2> QED BY <1>3, <2>1, <2>2
<1> QED BY <1>2, <1>4, <1>5

LEMMA NextUnmissed ==
    ASSUME OneTask, TypeOK, MissedInv, BusyUnmissed, [Next]_vars
    PROVE  BusyUnmissed'
<1> SUFFICES ASSUME NEW c \in Instances, (Busy(c))' PROVE at'[c] \notin missed'
  BY DEF BusyUnmissed
<1>1. missed' = missed
  <2>1. ASSUME NEW b \in Instances, NEW p \in Partitions, Assign(p, b) PROVE FALSE
    BY <2>1 DEF OneTask, Assign, Busy
  <2> QED BY <2>1, MissedMoves
<1>2. CASE Busy(c) /\ at'[c] = at[c] BY <1>1, <1>2 DEF BusyUnmissed
<1>3. ASSUME NEW p \in Partitions, Poll(c, p) PROVE at'[c] \notin missed
  <2>1. /\ owner[p] = c /\ at'[c] = <<p, position[c][p] + 1>> /\ position[c][p] \in Nat
    BY <1>3 DEF TypeOK, ThreadTypes, Poll
  <2>2. PICK o \in Nat \ {0} : o = position[c][p] + 1 BY <2>1
  <2> QED BY <2>1, <2>2 DEF MissedInv
<1> QED BY <1>1, <1>2, <1>3, BusyStays

LEMMA HandledBegun ==
    ASSUME TypeOK, BegunInv, NEW e \in Events, NEW i \in Nat, Handled(e, i)
    PROVE  Begun(e)
BY BusyBegun DEF Handled, Busy, BegunInv, ProcessedBegun

\* What is sent later does not come first.
LEMMA EarlierBefore ==
    ASSUME TypeOK, [Next]_vars, NEW a \in Events, NEW b \in Events, Begun(b), Earlier(a, b)'
    PROVE  Earlier(a, b)
<1> DEFINE p == PartitionOf[a]
<1>0. p \in Partitions /\ PartitionOf[b] = p BY EventsAssumption DEF Earlier
<1>1. /\ DOMAIN log[p] = 1 .. Len(log[p]) /\ Len(log[p]) \in Nat
      /\ DOMAIN log'[p] = 1 .. Len(log'[p]) /\ Len(log'[p]) \in Nat
      /\ \A o \in 1 .. Len(log[p]) : o \in 1 .. Len(log'[p]) /\ log'[p][o] = log[p][o]
  <2>1. TypeOK' BY NextTypeOK
  <2>2. log[p] \in Seq(Events) /\ log'[p] \in Seq(Events)
    BY <1>0, <2>1 DEF TypeOK, BrokerTypes
  <2>3. /\ Len(log[p]) \in Nat /\ Len(log'[p]) \in Nat /\ Len(log[p]) <= Len(log'[p])
        /\ \A o \in 1 .. Len(log[p]) : log'[p][o] = log[p][o]
    BY <1>0, SettlersGrow
  <2>4. \A o \in 1 .. Len(log[p]) : o \in 1 .. Len(log'[p]) BY <2>3
  <2> QED BY <2>2, <2>3, <2>4
<1>2. PICK q \in 1 .. Len(log[p]) : log[p][q] = b BY <1>0 DEF Begun
<1>3. PICK o \in 1 .. Len(log'[p]) : log'[p][o] = a BY <1>1 DEF Earlier
<1>4. o < q BY <1>0, <1>1, <1>2, <1>3 DEF Earlier
<1>5. o \in 1 .. Len(log[p]) /\ log[p][o] = a BY <1>1, <1>2, <1>3, <1>4
<1>6. ASSUME NEW x \in 1 .. Len(log[p]), log[p][x] = a, NEW y \in 1 .. Len(log[p]), log[p][y] = b
      PROVE  x < y
  BY <1>0, <1>1, <1>6 DEF Earlier
<1> QED BY <1>0, <1>1, <1>5, <1>6 DEF Earlier

\* No event is earlier than itself.
LEMMA EarlierIsStrict ==
    ASSUME TypeOK, NEW a \in Events
    PROVE  ~Earlier(a, a)
<1> SUFFICES ASSUME Earlier(a, a) PROVE FALSE OBVIOUS
<1>1. PICK o \in DOMAIN log[PartitionOf[a]] : log[PartitionOf[a]][o] = a BY DEF Earlier
<1>2. o \in Nat
  <2>1. PICK p \in Partitions : p = PartitionOf[a] BY EventsAssumption
  <2>2. log[p] \in Seq(Events) BY DEF TypeOK, BrokerTypes
  <2> QED BY <2>1, <2>2
<1> QED BY <1>1, <1>2 DEF Earlier

\* An excuse stays one.
LEMMA ExcusedStays ==
    ASSUME TypeOK, BegunInv, RaisedInLog, [Next]_vars,
           NEW e \in Events, NEW s \in Events, NEW n \in Nodes, Excused(e, s, n)
    PROVE  Excused(e, s, n)'
<1>1. ASSUME NEW m \in raised, log[m[1]][m[2]] = s PROVE m \in raised' /\ log'[m[1]][m[2]] = s
  BY <1>1, SettlersGrow DEF RaisedInLog
<1>2. failed \subseteq failed' BY TriedMoves
<1> QED BY <1>1, <1>2 DEF Excused

\* A step is got past by its own call, which failed or ran.
LEMMA HandledMoves ==
    ASSUME TypeOK, [Next]_vars, NEW e \in Events, NEW i \in 1 .. Len(Steps[e]),
           Handled(e, i)', ~Handled(e, i)
    PROVE  \E c \in Instances :
              pc[c] = "write" /\ Current(c) = e /\ idx[c] = i /\ (WriteOk(c) \/ WriteFails(c))
<1> USE DEF broker, group, thread, graph, tables, budget, history
<1>0. i \in Nat BY EventsAssumption
<1>1. e \notin processed'
  <2>1. ASSUME NEW c \in Instances, pc[c] = "mark" PROVE Current(c) # e BY <2>1 DEF Handled
  <2> QED BY <2>1, ProcessedMoves DEF Handled
<1>2. PICK c \in Instances : /\ pc'[c] = "mark" \/ (pc'[c] = "write" /\ i < idx'[c])
                             /\ (Current(c))' = e
  BY <1>1 DEF Handled
<1>3. Busy(c) /\ at'[c] = at[c]
  <2>1. ASSUME NEW p \in Partitions PROVE ~Poll(c, p)
    BY <1>2 DEF TypeOK, ThreadTypes, Poll, GoTo
  <2> QED BY <1>2, <2>1, BusyStays DEF Busy
<1>4. Current(c) = e
  <2>1. at[c][1] \in Partitions /\ at[c][2] \in 1 .. Len(log[at[c][1]]) BY <1>3, BusyThread
  <2> QED BY <1>2, <1>3, <2>1, SettlersGrow DEF Current
<1>5. ~(pc[c] = "mark" \/ (pc[c] = "write" /\ i < idx[c])) BY <1>4 DEF Handled
<1>6. WriteOk(c) \/ WriteFails(c)
  <2>1. ~Check(c) BY <1>0, <1>2 DEF Check, TypeOK, ThreadTypes, GoTo
  <2>2. ~Mark(c) BY <1>5 DEF Mark
  <2>3. ASSUME NEW p \in Partitions PROVE ~Poll(c, p) BY <1>3 DEF Poll, Busy
  <2> QED BY <1>2, <1>5, <2>1, <2>2, <2>3, ThreadMoves DEF Busy
<1>7. pc[c] = "write" /\ idx[c] \in 1 .. Len(Steps[e])
  <2>1. pc[c] = "write" BY <1>6 DEF WriteOk, WriteFails
  <2> QED BY <1>3, <1>4, <2>1, BusyThread
<1>8. Advance(c)
  <2>1. ~Raise(c) BY <1>2 DEF Raise, Finish, GoTo, TypeOK, ThreadTypes
  <2> QED BY <1>6, <2>1 DEF WriteOk, WriteFails
<1>9. i <= idx[c]
  <2>1. CASE idx[c] < Len(Steps[e])
    <3>1. idx'[c] = idx[c] + 1 /\ pc' = pc
      BY <1>4, <1>8, <2>1 DEF Advance, TypeOK, ThreadTypes
    <3> QED BY <1>0, <1>2, <1>7, <3>1
  <2>2. CASE ~(idx[c] < Len(Steps[e]))
    <3>1. Len(Steps[e]) \in Nat BY EventsAssumption
    <3> QED BY <1>0, <1>7, <2>2, <3>1
  <2> QED BY <2>1, <2>2
<1>10. idx[c] = i BY <1>0, <1>5, <1>7, <1>9
<1> QED BY <1>4, <1>6, <1>7, <1>10

\* The status of the vertex stays: the event was handled before, or its call
\* runs now and would show, or fails.
LEMMA NewestStays ==
    ASSUME TypeOK, BegunInv, StatusShown, RaisedInLog, NewestShown, [Next]_vars,
           NEW n \in Nodes, NEW e \in Events, NEW i \in 1 .. Len(Steps[e]),
           Handled(e, i)', Steps[e][i].src = n, Steps[e][i].sets,
           status[n] \in Events, status'[n] = status[n], Earlier(status[n], e)'
    PROVE  Excused(e, status[n], n)'
<1> USE DEF broker, group, thread, graph, tables, budget, history
<1>0. PICK s \in Events : s = status[n] OBVIOUS
<1>1. Earlier(s, e)'
  <2>1. s = status'[n] BY <1>0
  <2> QED BY <1>0
<1>2. CASE Handled(e, i)
  <2>1. i \in Nat BY EventsAssumption
  <2>2. Begun(e) BY <1>2, <2>1, HandledBegun
  <2>3. Earlier(s, e) BY <1>1, <2>2, EarlierBefore
  <2>4. Excused(e, s, n) BY <1>0, <1>2, <2>3 DEF NewestShown
  <2>5. Excused(e, s, n)' BY <2>4, ExcusedStays
  <2> QED BY <1>0, <2>5 DEF Excused
<1>3. CASE ~Handled(e, i)
  <2>1. PICK c \in Instances :
            pc[c] = "write" /\ Current(c) = e /\ idx[c] = i /\ (WriteOk(c) \/ WriteFails(c))
    BY <1>3, HandledMoves
  <2>2. CASE WriteOk(c)
    <3>1. Apply(e, i) BY <2>1, <2>2 DEF WriteOk
    <3>2. n \in vertices BY DEF StatusShown
    <3>3. status'[n] = e BY <3>1, <3>2 DEF Apply, TypeOK, StoreTypes
    <3> QED BY <1>0, <1>1, <3>3, NextTypeOK, EarlierBefore, EarlierIsStrict, HandledBegun,
         <2>1, BusyBegun DEF Busy
  <2>3. CASE WriteFails(c)
    <3>1. <<e, i>> \in failed' BY <2>1, <2>3 DEF WriteFails
    <3> QED BY <3>1 DEF Excused
  <2> QED BY <2>1, <2>2, <2>3
<1> QED BY <1>2, <1>3

\* The status of the vertex changes: a letter had failed; the call at hand
\* fails; or its thread is at a message that had raised.
LEMMA NewestMoves ==
    ASSUME OneTask, TypeOK, OrderInv, OneTaskInv, [Next]_vars,
           NEW n \in Nodes, NEW e \in Events, NEW i \in 1 .. Len(Steps[e]),
           Handled(e, i)', Steps[e][i].src = n, Steps[e][i].sets,
           status'[n] # status[n], Earlier(status[n], e)'
    PROVE  Excused(e, status[n], n)'
<1> USE DEF broker, group, thread, graph, tables, budget, history
<1>0. BegunInv BY DEF OrderInv
<1>1. PICK s \in Events, j \in Nat :
         /\ status'[n] = s /\ Steps[s][j].src = n
         /\ \/ <<s, j>> \in dlq
            \/ \E c \in Instances :
                  /\ WriteOk(c) \/ WriteFails(c)
                  /\ s = Current(c) /\ j = idx[c]
  BY StatusMoves, EventsAssumption
<1>2. Earlier(s, e)' BY <1>1
<1>3. Excused(e, s, n)' => Excused(e, status[n], n)' BY <1>1 DEF Excused
<1>4. CASE <<s, j>> \in dlq
  <2>1. <<s, j>> \in failed' BY <1>0, <1>4, TriedMoves DEF BegunInv, DlqFailed
  <2> QED BY <1>1, <1>3, <2>1 DEF Excused
<1>5. ASSUME NEW c \in Instances, WriteOk(c) \/ WriteFails(c), s = Current(c), j = idx[c]
      PROVE  Excused(e, s, n)'
  <2>1. CASE WriteFails(c)
    <3>1. <<s, j>> \in failed' BY <1>5, <2>1 DEF WriteFails
    <3> QED BY <1>1, <3>1 DEF Excused
  <2>2. CASE WriteOk(c)
    <3>1. pc[c] = "write" /\ Busy(c) /\ UNCHANGED <<processed, log>>
      BY <2>2 DEF WriteOk, Busy
    <3>2. e # s BY <1>2, NextTypeOK, EarlierIsStrict, EarlierBefore, <1>0, <1>5, <3>1, BusyBegun
    <3>3. e \in processed
      <4> SUFFICES ASSUME e \notin processed PROVE FALSE OBVIOUS
      <4>1. PICK b \in Instances : (Busy(b))' /\ (Current(b))' = e
        BY <3>1 DEF Handled, Busy
      <4>2. b = c BY DEF OneTask
      <4>3. ASSUME NEW p \in Partitions PROVE ~Poll(c, p) BY <3>1 DEF Poll
      <4>4. at'[c] = at[c] BY <4>1, <4>2, <4>3, BusyStays
      <4>5. (Current(c))' = Current(c) BY <3>1, <4>4 DEF Current
      <4> QED BY <1>5, <3>2, <4>1, <4>2, <4>5
    <3>4. Begun(e) BY <1>0, <3>3 DEF BegunInv, ProcessedBegun
    <3>5. Earlier(s, e) BY <1>2, <3>4, EarlierBefore
    <3>6. PICK p \in Partitions, o \in Nat \ {0} : at[c] = <<p, o>>
      BY <3>1, BusyThread DEF Messages
    <3>7. o \in 1 .. Len(log[p]) /\ log[p][o] = s /\ PartitionOf[s] = p
      <4>1. at[c][1] = p /\ at[c][2] = o BY <3>6
      <4>2. at[c][2] \in 1 .. Len(log[at[c][1]]) BY <3>1, BusyThread
      <4>3. PartitionOf[s] = at[c][1] BY <1>0, <1>5, <3>1, BusyBegun
      <4>4. s = log[at[c][1]][at[c][2]] BY <1>5 DEF Current
      <4> QED BY <4>1, <4>2, <4>3, <4>4
    <3>8. PICK q \in 1 .. Len(log[p]) : log[p][q] = e /\ Passed(p, q)
      BY <3>4, <3>5, <3>7 DEF Begun, Earlier
    <3>9. o < q
      <4>1. DOMAIN log[p] = 1 .. Len(log[p]) BY DEF TypeOK, BrokerTypes
      <4> QED BY <3>5, <3>7, <3>8, <4>1 DEF Earlier
    <3>10. Settled(p, o)
      <4>1. o \in 1 .. (q - 1) BY <3>7, <3>8, <3>9
      <4> HIDE DEF Settled
      <4> QED BY <3>8, <4>1 DEF Passed
    <3>11. s \notin processed BY <1>5, <3>1 DEF OneTaskInv, WriterUnprocessed
    <3>12. s \notin Ignored
      <4>1. idx[c] \in 1 .. Len(Steps[s]) BY <1>5, <3>1, BusyThread
      <4>2. Len(<<>>) = 0 OBVIOUS
      <4> QED BY <4>1, <4>2 DEF Ignored
    <3>13. at[c] \in raised
      BY <3>1, <3>6, <3>7, <3>10, <3>11, <3>12 DEF Settled, OneTaskInv, BusyUnmissed
    <3>14. at[c] \in raised' /\ log'[at[c][1]][at[c][2]] = s
      BY <3>1, <3>6, <3>7, <3>13, SettlersGrow
    <3> QED BY <3>14 DEF Excused
  <2> QED BY <1>5, <2>1, <2>2
<1> QED BY <1>1, <1>3, <1>4, <1>5

LEMMA NextOneTask ==
    ASSUME OneTask, TypeOK, OrderInv, OneTaskInv, [Next]_vars
    PROVE  OneTaskInv'
<1>1. /\ BegunInv /\ MissedInv /\ StatusShown
      /\ WriterUnprocessed /\ BusyUnmissed /\ RaisedInLog /\ NewestShown
  BY DEF OrderInv, OneTaskInv
<1>2. NewestShown'
  <2> SUFFICES ASSUME NEW n \in Nodes, NEW e \in Events, NEW i \in 1 .. Len(Steps[e]),
                      Handled(e, i)', Steps[e][i].src = n, Steps[e][i].sets,
                      (status[n] \in Events /\ Earlier(status[n], e))'
               PROVE  Excused(e, status[n], n)'
    BY DEF NewestShown
  <2>1. CASE status'[n] = status[n]
    <3>1. PICK s \in Events : s = status[n] /\ s = status'[n] BY <2>1
    <3>2. Earlier(s, e)' BY <3>1
    <3>3. Earlier(status[n], e)' BY <3>1, <3>2
    <3> QED BY <1>1, <2>1, <3>1, <3>3, NewestStays
  <2>2. CASE status'[n] # status[n] BY <2>2, NewestMoves
  <2> QED BY <2>1, <2>2
<1>3. WriterUnprocessed' BY <1>1, NextUnprocessed
<1>4. BusyUnmissed' BY <1>1, NextUnmissed
<1>5. RaisedInLog' BY <1>1, NextRaisedInLog
<1> QED BY <1>2, <1>3, <1>4, <1>5 DEF OneTaskInv

LEMMA InitOneTask == Init => OneTaskInv
<1> SUFFICES ASSUME Init PROVE OneTaskInv OBVIOUS
<1>1. /\ raised = {} /\ \A c \in Instances : ~Busy(c) /\ pc[c] # "write"
      /\ \A n \in Nodes : status[n] = NoEvent
  BY DEF Init, Busy
<1> QED
  BY <1>1, EventsAssumption
  DEF OneTaskInv, WriterUnprocessed, BusyUnmissed, RaisedInLog, NewestShown

\* A processed event has been handled to its last step.
LEMMA OlderExplained == TypeOK /\ OneTaskInv => OlderStateHasFailure
<1> SUFFICES ASSUME TypeOK, OneTaskInv, NEW n \in Nodes, NEW e \in processed,
                    status[n] \in Events, Earlier(status[n], e),
                    NEW i \in DOMAIN Steps[e], Steps[e][i].src = n, Steps[e][i].sets
             PROVE  \/ \E d \in failed : d[1] \in {e, status[n]} /\ Steps[d[1]][d[2]].src = n
                    \/ \E m \in raised : log[m[1]][m[2]] = status[n]
  BY DEF OlderStateHasFailure
<1>1. e \in Events /\ i \in 1 .. Len(Steps[e])
  <2>1. e \in Events BY DEF TypeOK, StoreTypes
  <2> QED BY <2>1, EventsAssumption
<1>2. Handled(e, i) BY DEF Handled
<1> QED BY <1>1, <1>2 DEF OneTaskInv, NewestShown, Excused

\* An older state over a newer one has a failed call behind it, with one task:
\* whatever crashes, lost sessions, failed calls and replays there are, a
\* vertex shows the state of an event sent before another one that was
\* processed and wrote it too only when a call for that vertex of one of the
\* two failed, or the one shown raised (replay-dlq.py 57-103, main.py 98-116).
THEOREM OlderStateExplained == OneTask => (Spec => []OlderStateHasFailure)
<1> SUFFICES ASSUME OneTask PROVE Spec => []OlderStateHasFailure
  OBVIOUS
<1>1. TypeOK /\ OrderInv /\ OneTaskInv /\ [Next]_vars => OneTaskInv'
  BY NextOneTask
<1> QED
  BY <1>1, InitTypeOK, NextTypeOK, InitOrder, NextOrder, InitOneTask, OlderExplained, PTL DEF Spec

-----------------------------------------------------------------------------
(* FastConsumer implements Delivery.  Delivery has no threads and no       *)
(* owners: that a position only moves forward, and only over settled       *)
(* messages, rests on what the positions in the threads' memory are.       *)
(* SettledInv says the second; the first needs one more conjunct,          *)
(* OwnerIsAhead.                                                           *)

\* The owner of a partition has passed at least what the group has committed.
OwnerIsAhead ==
    \A c \in Instances, p \in Partitions :
        owner[p] = c => committed[p] <= position[c][p]

\* What steps of the threads do to the owners and positions.
LEMMA OwnerFrame ==
    ASSUME OwnerIsAhead, committed' = committed,
           \A c \in Instances, p \in Partitions : owner'[p] = c =>
               owner[p] = c /\ position'[c][p] = position[c][p]
    PROVE  OwnerIsAhead'
BY DEF OwnerIsAhead

\* A thread that leaves takes its ownerships with it.
LEMMA LeaveAhead ==
    ASSUME TypeOK, OwnerIsAhead, NEW c \in Instances,
           Crash(c) \/ ThreadExit(c) \/ Revoke(c)
    PROVE  OwnerIsAhead'
<1> USE DEF broker, group, thread, graph, tables, budget, history
<1>1. /\ owner' = [p \in Partitions |-> IF owner[p] = c THEN NoInstance ELSE owner[p]]
      /\ committed' = committed
      /\ \A b \in Instances : b # c => position'[b] = position[b]
  BY DEF TypeOK, ThreadTypes, Crash, ThreadExit, Revoke, Stop
<1>2. \A b \in Instances, p \in Partitions : owner'[p] = b =>
          owner[p] = b /\ position'[b][p] = position[b][p]
  BY <1>1, EventsAssumption
<1> QED BY <1>1, <1>2, OwnerFrame

\* A new owner takes up at the committed position, or past no position.
LEMMA AssignAhead ==
    ASSUME TypeOK, OwnerIsAhead, NEW c \in Instances, NEW q \in Partitions, Assign(q, c)
    PROVE  OwnerIsAhead'
<1> USE DEF broker, group, thread, graph, tables, budget, history
<1>1. owner' = [owner EXCEPT ![q] = c] /\ committed' = committed BY DEF Assign
<1>2. /\ owner \in [Partitions -> Instances \cup {NoInstance}]
      /\ committed \in [Partitions -> Int] /\ Len(log[q]) \in Nat
      /\ position \in [Instances -> [Partitions -> Nat]]
  BY DEF TypeOK, BrokerTypes, ThreadTypes
<1>3. PICK v \in Int : position' = [position EXCEPT ![c][q] = v] /\ committed[q] <= v
  <2>1. CASE committed[q] = NoOffset
    <3>1. position' = [position EXCEPT ![c][q] = Len(log[q])] BY <2>1 DEF Assign
    <3>2. Len(log[q]) \in Int /\ committed[q] <= Len(log[q]) BY <1>2, <2>1 DEF NoOffset
    <3> QED BY <3>1, <3>2
  <2>2. CASE committed[q] # NoOffset
    <3>1. position' = [position EXCEPT ![c][q] = committed[q]] BY <2>2 DEF Assign
    <3>2. committed[q] \in Int /\ committed[q] <= committed[q] BY <1>2
    <3> QED BY <3>1, <3>2
  <2> QED BY <2>1, <2>2
<1> SUFFICES ASSUME NEW b \in Instances, NEW p \in Partitions, owner'[p] = b
             PROVE  committed[p] <= position'[b][p]
  BY <1>1 DEF OwnerIsAhead
<1>4. CASE p = q
  <2>1. b = c BY <1>1, <1>2, <1>4
  <2>2. position'[c][q] = v BY <1>2, <1>3
  <2> QED BY <1>3, <1>4, <2>1, <2>2
<1>5. CASE p # q
  <2>1. owner[p] = b BY <1>1, <1>2, <1>5
  <2>2. position'[b][p] = position[b][p] BY <1>2, <1>3, <1>5
  <2> QED BY <2>1, <2>2 DEF OwnerIsAhead
<1> QED BY <1>4, <1>5

\* The next message takes the position forward.
LEMMA PollAhead ==
    ASSUME TypeOK, OwnerIsAhead, NEW c \in Instances, NEW q \in Partitions, Poll(c, q)
    PROVE  OwnerIsAhead'
<1> USE DEF broker, group, thread, graph, tables, budget, history
<1>1. /\ position' = [position EXCEPT ![c][q] = @ + 1]
      /\ UNCHANGED <<owner, committed>>
  BY DEF Poll
<1>2. /\ committed \in [Partitions -> Int]
      /\ position \in [Instances -> [Partitions -> Nat]]
  BY DEF TypeOK, BrokerTypes, ThreadTypes
<1> SUFFICES ASSUME NEW b \in Instances, NEW p \in Partitions, owner[p] = b
             PROVE  committed[p] <= position'[b][p]
  BY <1>1 DEF OwnerIsAhead
<1>3. committed[p] <= position[b][p] BY DEF OwnerIsAhead
<1>4. position[b][p] <= position'[b][p]
  <2>1. CASE b = c /\ p = q BY <1>1, <1>2, <2>1
  <2>2. CASE ~(b = c /\ p = q) BY <1>1, <1>2, <2>2
  <2> QED BY <2>1, <2>2
<1>5. /\ committed[p] \in Int /\ position[b][p] \in Int
      /\ position'[b][p] \in Int
  BY <1>1, <1>2
<1> QED BY <1>3, <1>4, <1>5

\* A commit stores positions of the owner, and of nobody else.
LEMMA CommitAhead ==
    ASSUME TypeOK, OwnerIsAhead, NEW c \in Instances, Commit(c)
    PROVE  OwnerIsAhead'
<1> USE DEF broker, group, thread, graph, tables, budget, history
<1> SUFFICES ASSUME NEW b \in Instances, NEW p \in Partitions, owner[p] = b
             PROVE  committed'[p] <= position[b][p]
  BY DEF OwnerIsAhead, Commit
<1>1. position[b][p] \in Nat /\ committed'[p] = IF owner[p] = c THEN position[c][p] ELSE committed[p]
  BY DEF TypeOK, ThreadTypes, Commit
<1> QED BY <1>1 DEF OwnerIsAhead

\* OwnerIsAhead is inductive relative to TypeOK.
LEMMA InitAhead == Init => OwnerIsAhead
BY EventsAssumption DEF Init, OwnerIsAhead

LEMMA NextAhead == TypeOK /\ OwnerIsAhead /\ [Next]_vars => OwnerIsAhead'
<1> SUFFICES ASSUME TypeOK, OwnerIsAhead, [Next]_vars PROVE OwnerIsAhead'
  OBVIOUS
<1> USE DEF broker, group, thread, graph, tables, budget, history
<1>1. CASE UNCHANGED <<owner, position, committed>>
  BY <1>1, OwnerFrame
<1>2. CASE Publish BY <1>1, <1>2 DEF Publish
<1>3. ASSUME NEW c \in Instances, Start(c) PROVE OwnerIsAhead'
  BY <1>1, <1>3 DEF Start
<1>4. ASSUME NEW c \in Instances, Crash(c) \/ ThreadExit(c) \/ Revoke(c) PROVE OwnerIsAhead'
  BY <1>4, LeaveAhead
<1>5. ASSUME NEW c \in Instances, Work(c) PROVE OwnerIsAhead'
  <2>1. ASSUME NEW p \in Partitions, Poll(c, p) PROVE OwnerIsAhead'
    BY <2>1, PollAhead
  <2>2. CASE Check(c) \/ CheckFails(c) BY <1>1, <2>2 DEF Check, CheckFails
  <2>3. CASE WriteOk(c) \/ WriteFails(c) BY <1>1, <2>3 DEF WriteOk, WriteFails
  <2>4. CASE Mark(c) \/ MarkFails(c) BY <1>1, <2>4 DEF Mark, MarkFails
  <2>5. CASE Commit(c) BY <2>5, CommitAhead
  <2>6. CASE CommitFails(c) BY <1>1, <2>6 DEF CommitFails
  <2> QED BY <1>5, <2>1, <2>2, <2>3, <2>4, <2>5, <2>6 DEF Work
<1>6. ASSUME NEW c \in Instances, NEW p \in Partitions, Assign(p, c) PROVE OwnerIsAhead'
  BY <1>6, AssignAhead
<1>7. ASSUME NEW d \in dlq, Replay(d) \/ ReplayFails(d) PROVE OwnerIsAhead'
  BY <1>1, <1>7 DEF Replay, ReplayFails
<1>8. CASE UNCHANGED vars BY <1>1, <1>8 DEF vars
<1> QED BY <1>2, <1>3, <1>4, <1>5, <1>6, <1>7, <1>8 DEF Next

-----------------------------------------------------------------------------
(* The simulation: each step is one of Delivery's, or a stutter.            *)

\* A send.
LEMMA PublishSimulates == TypeOK /\ Publish => D!Next
<1> SUFFICES ASSUME TypeOK, Publish PROVE D!Next
  OBVIOUS
<1> USE DEF broker, group, thread, graph, tables, budget, history
<1>1. sent + 1 \in 1 .. Len(Source) BY EventsAssumption DEF TypeOK, BrokerTypes, Publish
<1>2. Source[sent + 1] \in Events BY <1>1, EventsAssumption
<1>3. D!Send(Source[sent + 1]) BY DEF Publish, D!Send
<1> QED BY <1>2, <1>3 DEF D!Next

\* A busy thread is at a message that was sent.
LEMMA BusyAtSent ==
    ASSUME TypeOK, NEW c \in Instances, Busy(c)
    PROVE  at[c] \in D!Sent /\ Current(c) = D!EventAt(at[c])
<1>1. at[c] \in Messages /\ at[c][2] \in 1 .. Len(log[at[c][1]])
  BY DEF TypeOK, OffsetsInRange
<1>2. PICK p \in Partitions, o \in Nat \ {0} : at[c] = <<p, o>> BY <1>1 DEF Messages
<1>3. at[c] \in {p} \X (1 .. Len(log[p])) BY <1>1, <1>2
<1> QED BY <1>2, <1>3 DEF D!Sent, D!EventAt, Current

\* A handler that raises gives its message up, whether or not its mark was stored.
LEMMA RaiseSimulates ==
    ASSUME TypeOK, NEW c \in Instances, Busy(c), Raise(c),
           UNCHANGED <<log, committed, missed>>,
           processed' \in {processed, processed \cup {Current(c)}}
    PROVE  D!Next
<1>1. at[c] \in D!Sent /\ Current(c) = D!EventAt(at[c]) BY BusyAtSent
<1>2. raised' \cup missed' = (raised \cup missed) \cup {at[c]} BY DEF Raise
<1>3. D!GiveUp(at[c]) BY <1>1, <1>2 DEF D!GiveUp
<1> QED BY <1>1, <1>3 DEF D!Next

\* A mark handles the event.
LEMMA MarkSimulates ==
    ASSUME TypeOK, NEW c \in Instances, Mark(c)
    PROVE  D!Next
<1> USE DEF broker, group, thread, graph, tables, budget, history
<1>1. Busy(c) BY DEF Mark, Busy
<1>2. at[c] \in D!Sent /\ Current(c) = D!EventAt(at[c]) BY <1>1, BusyAtSent
<1>3. D!Handle(at[c]) BY <1>2 DEF Mark, D!Handle
<1> QED BY <1>2, <1>3 DEF D!Next

\* A join starts at the end only without a committed position.
LEMMA AssignSimulates ==
    ASSUME TypeOK, NEW c \in Instances, NEW p \in Partitions, Assign(p, c)
    PROVE  D!Next \/ UNCHANGED D!vars
<1> USE DEF broker, group, thread, graph, tables, budget, history
<1>1. CASE committed[p] = NoOffset
  <2>1. {<<p, o>> : o \in 1 .. Len(log[p])} = {p} \X (1 .. Len(log[p])) OBVIOUS
  <2>2. missed' = missed \cup ({p} \X (1 .. Len(log[p]))) BY <1>1, <2>1 DEF Assign
  <2>3. D!StartAtEnd(p) BY <1>1, <2>2 DEF Assign, D!StartAtEnd, NoOffset
  <2> QED BY <2>3 DEF D!Next
<1>2. CASE committed[p] # NoOffset BY <1>2 DEF Assign, D!vars
<1> QED BY <1>1, <1>2

\* A commit moves positions forward, over settled messages.
LEMMA CommitSimulates ==
    ASSUME TypeOK, SettledInv, SettledInv', OwnerIsAhead, NEW c \in Instances, Commit(c)
    PROVE  D!Next
<1> USE DEF broker, group, thread, graph, tables, budget, history
<1>1. committed' = [p \in Partitions |-> IF owner[p] = c THEN position[c][p] ELSE committed[p]]
  BY DEF Commit
<1>2. UNCHANGED <<log, processed, raised, missed>> BY DEF Commit
<1>3. ASSUME NEW p \in Partitions, committed'[p] # committed[p]
      PROVE  /\ committed'[p] \in (committed[p] + 1) .. Len(log[p])
             /\ \A o \in 1 .. committed'[p] : D!Settled(<<p, o>>)
  <2>1. owner[p] = c /\ committed'[p] = position[c][p] BY <1>1, <1>3
  <2>2. /\ committed[p] \in Int /\ Len(log[p]) \in Nat
        /\ position[c][p] \in 0 .. Len(log[p])
    BY DEF TypeOK, BrokerTypes, OffsetsInRange
  <2>3. committed[p] <= position[c][p] BY <2>1 DEF OwnerIsAhead
  <2>4. committed'[p] \in (committed[p] + 1) .. Len(log[p]) BY <1>3, <2>1, <2>2, <2>3
  <2>5. ASSUME NEW o \in 1 .. committed'[p] PROVE D!Settled(<<p, o>>)
    <3>1. Settled(p, o)' BY DEF SettledInv, CommittedIsSettled
    <3>2. Ignored' = Ignored BY DEF Ignored
    <3> QED BY <1>2, <3>1, <3>2 DEF Settled, D!Settled, D!EventAt
  <2> QED BY <2>4, <2>5
<1>4. DOMAIN committed' = Partitions BY <1>1
<1>5. D!Commit BY <1>2, <1>3, <1>4 DEF D!Commit
<1> QED BY <1>5 DEF D!Next

\* The initial states are Delivery's.
LEMMA InitSimulates == Init => D!Init
BY DEF Init, D!Init, NoOffset

\* Every step is a step of Delivery or leaves what it speaks of alone.
LEMMA NextSimulates ==
    TypeOK /\ SettledInv /\ OwnerIsAhead /\ [Next]_vars => [D!Next]_(D!vars)
<1> SUFFICES ASSUME TypeOK, SettledInv, OwnerIsAhead, [Next]_vars
             PROVE  D!Next \/ UNCHANGED D!vars
  OBVIOUS
<1> USE DEF broker, group, thread, graph, tables, budget, history
<1>0. SettledInv' BY NextSettled
<1>1. ASSUME UNCHANGED <<log, committed, processed, raised, missed>>
      PROVE  UNCHANGED D!vars
  BY <1>1 DEF D!vars
<1>2. CASE Publish BY <1>2, PublishSimulates
<1>3. ASSUME NEW c \in Instances, Start(c) \/ Crash(c) \/ ThreadExit(c) \/ Revoke(c)
      PROVE  UNCHANGED D!vars
  BY <1>1, <1>3 DEF Start, Crash, ThreadExit, Revoke, Stop
<1>4. ASSUME NEW c \in Instances, Work(c) PROVE D!Next \/ UNCHANGED D!vars
  <2>1. ASSUME NEW p \in Partitions, Poll(c, p) PROVE UNCHANGED D!vars
    BY <1>1, <2>1 DEF Poll
  <2>2. CASE Check(c) BY <1>1, <2>2 DEF Check
  <2>3. CASE CheckFails(c)
    BY <2>3, RaiseSimulates DEF CheckFails, Busy
  <2>4. CASE WriteOk(c) BY <1>1, <2>4 DEF WriteOk
  <2>5. CASE WriteFails(c)
    <3>1. Busy(c) /\ UNCHANGED <<log, committed, processed, missed>>
      BY <2>5 DEF WriteFails, Busy
    <3>2. Raise(c) \/ UNCHANGED raised BY <2>5 DEF WriteFails
    <3>3. CASE Raise(c) BY <3>1, <3>3, RaiseSimulates
    <3>4. CASE UNCHANGED raised BY <1>1, <3>1, <3>4
    <3> QED BY <3>2, <3>3, <3>4
  <2>6. CASE Mark(c) BY <2>6, MarkSimulates
  <2>7. CASE MarkFails(c)
    BY <2>7, RaiseSimulates DEF MarkFails, Busy
  <2>8. CASE Commit(c) BY <1>0, <2>8, CommitSimulates
  <2>9. CASE CommitFails(c) BY <1>1, <2>9 DEF CommitFails
  <2> QED BY <1>4, <2>1, <2>2, <2>3, <2>4, <2>5, <2>6, <2>7, <2>8, <2>9 DEF Work
<1>5. ASSUME NEW c \in Instances, NEW p \in Partitions, Assign(p, c)
      PROVE  D!Next \/ UNCHANGED D!vars
  BY <1>5, AssignSimulates
<1>6. ASSUME NEW d \in dlq, Replay(d) \/ ReplayFails(d) PROVE UNCHANGED D!vars
  BY <1>1, <1>6 DEF Replay, ReplayFails
<1>7. CASE UNCHANGED vars BY <1>1, <1>7 DEF vars
<1> QED BY <1>2, <1>3, <1>4, <1>5, <1>6, <1>7 DEF Next

\* The consumer group keeps the promise of Delivery: committed positions only
\* move forward and only over settled messages, and nothing is given up but a
\* message whose handler raised or what a first join jumps over.
THEOREM GroupDelivers == Spec => ImplementsDelivery
<1>1. TypeOK /\ SettledInv /\ OwnerIsAhead /\ [Next]_vars
         => (TypeOK /\ SettledInv /\ OwnerIsAhead)'
  BY NextTypeOK, NextSettled, NextAhead
<1>2. Init => TypeOK /\ SettledInv /\ OwnerIsAhead
  BY InitTypeOK, InitSettled, InitAhead
<1>3. Init => D!Init BY InitSimulates
<1>4. TypeOK /\ SettledInv /\ OwnerIsAhead /\ [Next]_vars => [D!Next]_(D!vars)
  BY NextSimulates
<1> QED BY <1>1, <1>2, <1>3, <1>4, PTL DEF Spec, ImplementsDelivery, D!Spec
=============================================================================
