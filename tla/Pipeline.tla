------------------------------ MODULE Pipeline ------------------------------
(***************************************************************************)
(* From a system's table to the domain topics: DynamoDB streams, the       *)
(* Lambda functions that turn a change into an event and send it to MSK,   *)
(* and the normalizer that republishes the raw ERP and PLM topics.         *)
(*                                                                         *)
(* A stream shard holds the changes of the records that hash to it.  Its   *)
(* event source mapping hands them to the producer in batches, one at a    *)
(* time: a batch that fails is split in two, one record that fails is      *)
(* retried, and dropped when its retries are used up.  Every attempt gives *)
(* the changes new event ids.  The normalizer's mapping retries a batch    *)
(* until it succeeds, and keeps the ids.                                   *)
(***************************************************************************)
EXTENDS DeriveEvents, Subsequences

CONSTANTS
    Records,        \* items of the systems' tables
    Domain,         \* Domain[r]: the system of the item's table
    Images,         \* Images[r]: what may be written to it
    Shard,          \* the stream shard of the item
    Partitions,     \* partitions of every topic
    PartitionOf,    \* the partition a message key hashes to
    BatchSize, RetryAttempts,
    MaxChanges,     \* bound: writes to the tables
    MaxFaults       \* bound: failing sends

Shards == {Shard[r] : r \in Records}
Domains == {Domain[r] : r \in Records}
ChangeIds == Shards \X (1..MaxChanges)
Legacy(d) == d \in {"ERP", "PLM"}

ASSUME PipelineAssumption ==
    /\ BatchSize \in Nat \ {0} /\ RetryAttempts \in Nat
    /\ MaxChanges \in Nat /\ MaxFaults \in Nat

\* Tables and topics are finite; a stream, and so a shard, is of one table;
\* an item has a key and keeps the fields that name it (they are its key), so
\* all its events have one message key.
ASSUME ItemsAssumption ==
    /\ IsFiniteSet(Records) /\ IsFiniteSet(Partitions)
    /\ \A r, q \in Records : Shard[r] = Shard[q] => Domain[r] = Domain[q]
    /\ \A r \in Records : \A i, j \in Images[r] :
        /\ i.pk # NoImage.pk /\ EntityId(Domain[r], i) = EntityId(Domain[r], j)
        /\ PartitionOf[EntityId(Domain[r], i)] \in Partitions

VARIABLES
    table,      \* the item's image
    stream,     \* per shard, the changes [rec, old, new] in order
    taken,      \* per shard, how many changes have been taken into batches
    batches,    \* per shard, the batches [lo, hi, tries] still to be handled
    raw,        \* raw topic of a legacy domain: per partition, its messages
    canon,      \* domain topic: per partition, its messages
    passed,     \* the normalizer's position in the raw topics
    dropped,    \* changes whose retries were used up
    faults

vars == <<table, stream, taken, batches, raw, canon, passed, dropped, faults>>

EmptyTopics == [d \in Domains |-> [p \in Partitions |-> <<>>]]

Init ==
    /\ table = [r \in Records |-> NoImage]
    /\ stream = [s \in Shards |-> <<>>]
    /\ taken = [s \in Shards |-> 0]
    /\ batches = [s \in Shards |-> <<>>]
    /\ raw = EmptyTopics /\ canon = EmptyTopics
    /\ passed = [d \in Domains |-> [p \in Partitions |-> 0]]
    /\ dropped = {} /\ faults = 0

Changes == {c \in ChangeIds : c[2] <= Len(stream[c[1]])}
ChangeAt(c) == stream[c[1]][c[2]]
TypeAt(c) == EventType(Domain[ChangeAt(c).rec], ChangeAt(c).new, ChangeAt(c).old)
HasEvent(c) == TypeAt(c) # NoEventType

-----------------------------------------------------------------------------
(* The tables and their streams *)

\* A generator, a person or an agent writes an item; the reset deletes it.
Write(r) ==
    /\ Cardinality(Changes) < MaxChanges
    /\ \E new \in Images[r] \cup {NoImage} :
        /\ new # table[r]
        /\ table' = [table EXCEPT ![r] = new]
        /\ stream' = [stream EXCEPT ![Shard[r]] =
                        Append(@, [rec |-> r, old |-> table[r], new |-> new])]
    /\ UNCHANGED <<taken, batches, raw, canon, passed, dropped, faults>>

\* The mapping takes the next changes, at most BatchSize of them.
Poll(s) ==
    /\ batches[s] = <<>>
    /\ \E hi \in (taken[s] + 1)..Len(stream[s]) :
        /\ hi <= taken[s] + BatchSize
        /\ batches' = [batches EXCEPT ![s] = <<[lo |-> taken[s] + 1, hi |-> hi, tries |-> 0]>>]
        /\ taken' = [taken EXCEPT ![s] = hi]
    /\ UNCHANGED <<table, stream, raw, canon, passed, dropped, faults>>

-----------------------------------------------------------------------------
(* The producers *)

\* A legacy system's producer sends to the raw topic of its domain.
ProducerTopic(d) == IF Legacy(d) THEN raw[d] ELSE canon[d]

\* An attempt's event id is <<change, n>>, the n-th id of the change to reach
\* the topic.
Attempt(d, c) ==
    1 + Cardinality(UNION {{ProducerTopic(d)[p][i].id : i \in
            {j \in DOMAIN ProducerTopic(d)[p] : ProducerTopic(d)[p][j].id[1] = c}} : p \in Partitions})

\* (mutant) the messages of a change are keyed by their event id.
MessageKeyedById(c) ==
    LET d == Domain[ChangeAt(c).rec]
    IN  [id |-> <<c, Attempt(d, c)>>, type |-> TypeAt(c),
         key |-> IF c[2] = 1 THEN "id1" ELSE "id2", class |-> ""]

Message(c) ==
    LET d == Domain[ChangeAt(c).rec]
    IN  [id |-> <<c, Attempt(d, c)>>, type |-> TypeAt(c),
         key |-> EntityId(d, ChangeAt(c).new), class |-> ""]

\* processRecord over the batch: deletions and changes without an event type
\* are left out.  All of a shard's changes are of one table.
Outbox(s, b) ==
    Kept([i \in b.lo..b.hi |-> Message(<<s, i>>)], {i \in b.lo..b.hi : HasEvent(<<s, i>>)})

\* The messages of a send that go to a partition are appended together.
Keyed(out, p) == Kept(out, {i \in DOMAIN out : PartitionOf[out[i].key] = p})
Deliver(log, out, ps) == [p \in Partitions |-> IF p \in ps THEN log[p] \o Keyed(out, p) ELSE log[p]]

Send(d, out, ps) ==
    /\ raw' = IF Legacy(d) THEN [raw EXCEPT ![d] = Deliver(@, out, ps)] ELSE raw
    /\ canon' = IF Legacy(d) THEN canon ELSE [canon EXCEPT ![d] = Deliver(@, out, ps)]

ShardDomain(s) == Domain[CHOOSE r \in Records : Shard[r] = s]

\* The handler succeeds: it sent everything, or had nothing to send.
Produce(s) ==
    /\ batches[s] # <<>>
    /\ Send(ShardDomain(s), Outbox(s, Head(batches[s])), Partitions)
    /\ batches' = [batches EXCEPT ![s] = Tail(@)]
    /\ UNCHANGED <<table, stream, taken, passed, dropped, faults>>

\* (mutant) the error of a send is logged and not raised.
AfterFailureSwallowed(b) == <<>>

\* (mutant) the halves of a split batch are retried in the wrong order.
AfterFailureSwapped(b) ==
    LET mid == (b.lo + b.hi) \div 2 IN
    CASE b.lo < b.hi -> <<[b EXCEPT !.lo = mid + 1], [b EXCEPT !.hi = mid]>>
      [] b.tries < RetryAttempts /\ b.lo = b.hi -> <<[b EXCEPT !.tries = @ + 1]>>
      [] OTHER -> <<>>

\* (mutant) the first half ends one record before the middle.
AfterFailureOffByOne(b) ==
    LET mid == (b.lo + b.hi) \div 2 IN
    CASE b.lo < b.hi -> <<[b EXCEPT !.hi = mid - 1], [b EXCEPT !.lo = mid + 1]>>
      [] b.tries < RetryAttempts /\ b.lo = b.hi -> <<[b EXCEPT !.tries = @ + 1]>>
      [] OTHER -> <<>>

\* What the mapping does with a batch whose handler raised.
AfterFailure(b) ==
    LET mid == (b.lo + b.hi) \div 2 IN
    CASE b.lo < b.hi -> <<[b EXCEPT !.hi = mid], [b EXCEPT !.lo = mid + 1]>>
      [] b.tries < RetryAttempts /\ b.lo = b.hi -> <<[b EXCEPT !.tries = @ + 1]>>
      [] OTHER -> <<>>

Exhausted(b) == b.lo = b.hi /\ b.tries = RetryAttempts

\* The send raises: some partitions, or all of them, took their messages.
ProduceFails(s) ==
    /\ batches[s] # <<>> /\ faults < MaxFaults
    /\ LET b == Head(batches[s])
           out == Outbox(s, b)
       IN /\ out # <<>>
          /\ \E ps \in SUBSET {PartitionOf[out[i].key] : i \in DOMAIN out} :
                Send(ShardDomain(s), out, ps)
          /\ batches' = [batches EXCEPT ![s] = AfterFailure(b) \o Tail(@)]
          /\ dropped' = IF Exhausted(b) THEN dropped \cup {<<s, b.lo>>} ELSE dropped
    /\ faults' = faults + 1
    /\ UNCHANGED <<table, stream, taken, passed>>

-----------------------------------------------------------------------------
(* The normalizer, once per partition of a raw topic *)

Normalized(d, m) ==
    [m EXCEPT !.class = Classify(d, ChangeAt(m.id[1]).new.pk)]

NextRaw(d, p, n) ==
    [i \in 1..n |-> Normalized(d, raw[d][p][passed[d][p] + i])]

\* (mutant) the mapping waits for a full batch.
FullBatches(d, p) ==
    {n \in {BatchSize} : passed[d][p] + n <= Len(raw[d][p])}

BatchSizes(d, p) ==
    {n \in 1..BatchSize : passed[d][p] + n <= Len(raw[d][p])}

Normalize(d, p) ==
    /\ \E n \in BatchSizes(d, p) :
        /\ canon' = [canon EXCEPT ![d] = Deliver(@, NextRaw(d, p, n), Partitions)]
        /\ passed' = [passed EXCEPT ![d][p] = @ + n]
    /\ UNCHANGED <<table, stream, taken, batches, raw, dropped, faults>>

\* The position does not move, whatever part of the send arrived.
NormalizeFails(d, p) ==
    /\ faults < MaxFaults /\ faults' = faults + 1
    /\ \E n \in BatchSizes(d, p), ps \in SUBSET Partitions :
        canon' = [canon EXCEPT ![d] = Deliver(@, NextRaw(d, p, n), ps)]
    /\ UNCHANGED <<table, stream, taken, batches, raw, passed, dropped>>

-----------------------------------------------------------------------------

Work ==
    \/ \E s \in Shards : Poll(s) \/ Produce(s) \/ ProduceFails(s)
    \/ \E d \in Domains, p \in Partitions : Normalize(d, p) \/ NormalizeFails(d, p)

Next == (\E r \in Records : Write(r)) \/ Work

\* The mappings keep polling and invoking.
Fairness == WF_vars(Work)

Spec == Init /\ [][Next]_vars /\ Fairness

-----------------------------------------------------------------------------
\* What the events of a record say of it: a type that some change of it has,
\* its key, and a class.
EventTypes ==
    UNION {{EventType(Domain[r], new, old) :
              new \in Images[r], old \in Images[r] \cup {NoImage}} : r \in Records}
EventKeys == UNION {{EntityId(Domain[r], i) : i \in Images[r]} : r \in Records}
EventClasses ==
    {""} \cup UNION {{Classify(Domain[r], i.pk) : i \in Images[r]} : r \in Records}
Messages ==
    [id : ChangeIds \X Nat, type : EventTypes \ {NoEventType}, key : EventKeys, class : EventClasses]

\* Type correctness.
TypeOK ==
    /\ \A s \in Shards : taken[s] \in 0..Len(stream[s])
    /\ \A s \in Shards, i \in 1..MaxChanges : i \in DOMAIN batches[s] =>
        /\ batches[s][i].lo \in 1..batches[s][i].hi
        /\ batches[s][i].hi <= taken[s]
    /\ \A d \in Domains, p \in Partitions :
        /\ \A i \in DOMAIN raw[d][p] : raw[d][p][i] \in Messages
        /\ \A i \in DOMAIN canon[d][p] : canon[d][p][i] \in Messages
        /\ passed[d][p] \in 0..Len(raw[d][p])
    /\ dropped \subseteq ChangeIds

At(d, p, c) == {i \in DOMAIN canon[d][p] : canon[d][p][i].id[1] = c}
DomainOf(c) == Domain[ChangeAt(c).rec]
Arrived(c) == \E p \in Partitions : At(DomainOf(c), p, c) # {}
Drained ==
    /\ \A s \in Shards : batches[s] = <<>> /\ taken[s] = Len(stream[s])
    /\ \A d \in Domains, p \in Partitions : passed[d][p] = Len(raw[d][p])

\* Nothing is lost on the way: when the pipeline is drained, every change
\* that has an event is in its domain topic or was dropped after its retries.
NothingLostSilently ==
    Drained => \A c \in Changes : HasEvent(c) => Arrived(c) \/ c \in dropped

\* What consumers rely on for the order of an entity's events: the events of
\* one record are in one partition, and first seen in the order of its changes.
FirstSeenInOrder ==
    \A b, c \in Changes :
        (b[1] = c[1] /\ b[2] < c[2] /\ ChangeAt(b).rec = ChangeAt(c).rec) =>
        \A p, q \in Partitions :
            (At(DomainOf(b), p, b) # {} /\ At(DomainOf(c), q, c) # {}) =>
            /\ p = q
            /\ \E i \in At(DomainOf(b), p, b) : \A j \in At(DomainOf(c), q, c) : i < j

\* Resends never leave an older event last: unless a change of the record was
\* dropped, its topic ends with the event of its latest change.
LatestComesLast ==
    Drained => \A b, c \in Changes : \A p \in Partitions :
        (/\ b[1] = c[1] /\ b[2] < c[2] /\ ChangeAt(b).rec = ChangeAt(c).rec /\ HasEvent(c)
         /\ \A e \in dropped : ChangeAt(e).rec # ChangeAt(c).rec) =>
        \A i \in At(DomainOf(b), p, b) : \E j \in At(DomainOf(c), p, c) : i < j

WorkOrders ==
    {r \in Records : /\ Domain[r] = "MES" /\ table[r] # NoImage
                     /\ \A i \in Images[r] : "workOrderId" \in DOMAIN i.ids}
HoldTypes == {"HOLD_PLACED", "HOLD_RELEASED", "WORK_ORDER_COMPLETED"}
HoldLog(r) == canon["MES"][PartitionOf[EntityId("MES", table[r])]]
HoldPlaces(r) ==
    {i \in DOMAIN HoldLog(r) : /\ ChangeAt(HoldLog(r)[i].id[1]).rec = r
                               /\ HoldLog(r)[i].type \in HoldTypes}
HoldEvents(r) == Kept(HoldLog(r), HoldPlaces(r))

\* A consumer that follows the hold events knows which work orders are on
\* hold: an order whose events all arrived, and that was never deleted, is on
\* hold exactly if the last of them placed one.
HoldViewIsCurrent ==
    Drained => \A r \in WorkOrders :
        (\A c \in Changes : ChangeAt(c).rec = r => c \notin dropped /\ ChangeAt(c).new # NoImage) =>
        LET seen == HoldEvents(r)
        IN  (table[r].status = "HOLD") <=>
            (seen # <<>> /\ seen[Len(seen)].type = "HOLD_PLACED")

\* The pipeline always drains again: no failing record blocks its shard for
\* ever, and no failing send the normalizer.  With NothingLostSilently, every
\* change that has an event then has arrived or was dropped.
AlwaysDrains == []<>Drained
=============================================================================
