--------------------------- MODULE Pipeline_proofs ---------------------------
(***************************************************************************)
(* The way from the tables to the domain topics, for every number of       *)
(* items, shards, partitions, batch sizes, retries, writes and faults:     *)
(* nothing is lost silently, the events of a record are first seen in the  *)
(* order of its changes, and resends never leave an older one last.        *)
(*                                                                         *)
(* The argument: a shard's batches are one contiguous range, and a change  *)
(* is either behind its front, that is sent or dropped, or may still be    *)
(* sent.  What a change behind the front can be missing is its own past;   *)
(* what one before it can still get is its own future.  The same holds of  *)
(* the normalizer, whose front is its position in the raw topic.           *)
(***************************************************************************)
EXTENDS Pipeline, Subsequences_proofs, SequenceTheorems

AllImages == (UNION {Images[r] : r \in Records}) \cup {NoImage}
ChangeRecords == [rec : Records, old : AllImages, new : AllImages]
BatchRecords == [lo : Nat \ {0}, hi : Nat, tries : 0..RetryAttempts]

\* Every change is of a record of its shard, from one image of it to another.
StreamsInv ==
    /\ table \in [Records -> AllImages] /\ \A r \in Records : table[r] \in Images[r] \cup {NoImage}
    /\ stream \in [Shards -> Seq(ChangeRecords)]
    /\ \A s \in Shards : Len(stream[s]) <= MaxChanges
    /\ \A s \in Shards : \A i \in 1..Len(stream[s]) :
        /\ Shard[stream[s][i].rec] = s
        /\ stream[s][i].new \in Images[stream[s][i].rec] \cup {NoImage}
        /\ stream[s][i].old \in Images[stream[s][i].rec] \cup {NoImage}

\* A shard's batches follow one another up to what was taken.
Contiguous(q, t) ==
    \A i \in DOMAIN q :
        /\ q[i].lo <= q[i].hi /\ q[i].hi <= t
        /\ q[i].hi = IF i = Len(q) THEN t ELSE q[i + 1].lo - 1
QueuesInv ==
    /\ taken \in [Shards -> Nat] /\ batches \in [Shards -> Seq(BatchRecords)]
    /\ \A s \in Shards : taken[s] <= Len(stream[s]) /\ Contiguous(batches[s], taken[s])

\* The first change of a shard that may still be sent.
FrontOf(q, t) == IF q = <<>> THEN t + 1 ELSE q[1].lo
Front(s) == FrontOf(batches[s], taken[s])
Behind(c) == c[2] < Front(c[1])

KeyPartition(c) == PartitionOf[EntityId(DomainOf(c), ChangeAt(c).new)]

\* A message is that of a change that was taken, in its topic and partition.
Genuine(m, d, p) ==
    /\ m \in Messages /\ m.id[1] \in Changes /\ m.id[1][2] <= taken[m.id[1][1]]
    /\ HasEvent(m.id[1]) /\ DomainOf(m.id[1]) = d /\ m.type = TypeAt(m.id[1])
    /\ PartitionOf[m.key] = p /\ KeyPartition(m.id[1]) = p
TopicInv(topic) ==
    /\ topic \in [Domains -> [Partitions -> Seq(Messages)]]
    /\ \A d \in Domains, p \in Partitions : \A i \in DOMAIN topic[d][p] : Genuine(topic[d][p][i], d, p)
TopicsInv ==
    /\ TopicInv(raw) /\ TopicInv(canon)
    /\ \A d \in Domains : ~Legacy(d) => \A p \in Partitions : raw[d][p] = <<>>
    /\ passed \in [Domains -> [Partitions -> Nat]]
    /\ \A d \in Domains, p \in Partitions : passed[d][p] <= Len(raw[d][p])
    /\ dropped \subseteq Changes

ShapeInv == StreamsInv /\ QueuesInv /\ TopicsInv

-----------------------------------------------------------------------------
\* Where a log has messages of a change, and which changes follow which.
Places(log, c) == {i \in DOMAIN log : log[i].id[1] = c}
Follows(c, b) == b[1] = c[1] /\ b[2] < c[2] /\ ChangeAt(b).rec = ChangeAt(c).rec

\* The changes that will get no message any more, and those that need none,
\* or none yet.
Silent == {c \in Changes : Behind(c) \/ ~HasEvent(c)}
Content == {c \in Changes : ~Behind(c) \/ c \in dropped \/ ~HasEvent(c)}

\* In a log, a message of a change comes after one of the earlier change,
\* unless that is silent without one, and before one of the later change,
\* unless that needs none.
AfterEarlier(log, silent, b, c) ==
    \A j \in Places(log, c) :
        (\E i \in Places(log, b) : i < j) \/ (Places(log, b) = {} /\ b \in silent)
BeforeLater(log, content, b, c) ==
    \A i \in Places(log, b) : (\E j \in Places(log, c) : i < j) \/ c \in content

\* The producer's topic.
SentOrContent(c) ==
    c \in Content \/ Places(ProducerTopic(DomainOf(c))[KeyPartition(c)], c) # {}
ProducedInv ==
    /\ \A c \in Changes : SentOrContent(c)
    /\ \A d \in Domains, p \in Partitions : \A b, c \in Changes :
        Follows(c, b) => /\ AfterEarlier(ProducerTopic(d)[p], Silent, b, c)
                         /\ BeforeLater(ProducerTopic(d)[p], Content, b, c)

\* The normalizer's topic is a replay of the raw one up to its position n.
Replayed(from, to, n) ==
    /\ \A l \in 1..n : Places(to, from[l].id[1]) # {}
    /\ \A c \in Changes : Places(from, c) = {} => Places(to, c) = {}
ReplayAfter(from, to, silent, b, c) ==
    \A j \in Places(to, c) :
        (\E i \in Places(to, b) : i < j) \/ (Places(from, b) = {} /\ b \in silent)
ReplayBefore(from, to, n, content, b, c) ==
    \A i \in Places(to, b) :
        \/ \E j \in Places(to, c) : i < j
        \/ \E m \in Places(from, c) : m > n
        \/ c \in content
NormalizedInv ==
    \A d \in Domains, p \in Partitions : Legacy(d) =>
        /\ Replayed(raw[d][p], canon[d][p], passed[d][p])
        /\ \A b, c \in Changes : Follows(c, b) =>
            /\ ReplayAfter(raw[d][p], canon[d][p], Silent, b, c)
            /\ ReplayBefore(raw[d][p], canon[d][p], passed[d][p], Content, b, c)

PipelineInv == ShapeInv /\ ProducedInv /\ NormalizedInv

-----------------------------------------------------------------------------
(* The changes and their messages *)

LEMMA ChangesAre ==
    ASSUME StreamsInv, NEW s \in Shards, NEW i \in 1..Len(stream[s])
    PROVE  <<s, i>> \in Changes
<1>1. Len(stream[s]) \in Nat /\ Len(stream[s]) <= MaxChanges BY DEF StreamsInv
<1> QED BY <1>1, PipelineAssumption DEF Changes, ChangeIds

\* What a change says, and of whom.
LEMMA ChangeFacts ==
    ASSUME StreamsInv, NEW c \in Changes
    PROVE  /\ c \in ChangeIds /\ c = <<c[1], c[2]>>
           /\ c[1] \in Shards /\ c[2] \in 1..Len(stream[c[1]])
           /\ ChangeAt(c).rec \in Records /\ Shard[ChangeAt(c).rec] = c[1]
           /\ DomainOf(c) = ShardDomain(c[1]) /\ DomainOf(c) \in Domains
           /\ ChangeAt(c).new \in Images[ChangeAt(c).rec] \cup {NoImage}
           /\ ChangeAt(c).old \in Images[ChangeAt(c).rec] \cup {NoImage}
<1>1. /\ c \in ChangeIds /\ c = <<c[1], c[2]>> /\ c[1] \in Shards
      /\ c[2] \in 1..MaxChanges /\ c[2] <= Len(stream[c[1]])
  BY DEF Changes, ChangeIds
<1>2. stream[c[1]] \in Seq(ChangeRecords) BY <1>1 DEF StreamsInv
<1>3. c[2] \in 1..Len(stream[c[1]]) BY <1>1, <1>2, PipelineAssumption
<1>4. ChangeAt(c) \in ChangeRecords BY <1>2, <1>3 DEF ChangeAt
<1>5. ChangeAt(c).rec \in Records BY <1>4 DEF ChangeRecords
<1>6. /\ Shard[ChangeAt(c).rec] = c[1]
      /\ ChangeAt(c).new \in Images[ChangeAt(c).rec] \cup {NoImage}
      /\ ChangeAt(c).old \in Images[ChangeAt(c).rec] \cup {NoImage}
  BY <1>1, <1>3 DEF StreamsInv, ChangeAt
<1>7. DomainOf(c) = ShardDomain(c[1])
  <2> DEFINE q == CHOOSE r \in Records : Shard[r] = c[1]
  <2>1. q \in Records /\ Shard[q] = c[1] BY <1>5, <1>6
  <2>2. Domain[q] = Domain[ChangeAt(c).rec] BY <2>1, <1>5, <1>6, ItemsAssumption
  <2> QED BY <2>2 DEF DomainOf, ShardDomain
<1>8. DomainOf(c) \in Domains BY <1>5 DEF DomainOf, Domains
<1> QED BY <1>1, <1>3, <1>5, <1>6, <1>7, <1>8

\* A change with an event: its type, its key, its partition.
LEMMA EventFacts ==
    ASSUME StreamsInv, NEW c \in Changes, HasEvent(c)
    PROVE  /\ ChangeAt(c).new \in Images[ChangeAt(c).rec]
           /\ TypeAt(c) \in EventTypes \ {NoEventType}
           /\ EntityId(DomainOf(c), ChangeAt(c).new) \in EventKeys
           /\ KeyPartition(c) \in Partitions
<1>1. /\ ChangeAt(c).rec \in Records
      /\ ChangeAt(c).new \in Images[ChangeAt(c).rec] \cup {NoImage}
      /\ ChangeAt(c).old \in Images[ChangeAt(c).rec] \cup {NoImage}
  BY ChangeFacts
<1>2. ChangeAt(c).new # NoImage BY DEF HasEvent, TypeAt, EventType
<1>3. ChangeAt(c).new \in Images[ChangeAt(c).rec] BY <1>1, <1>2
<1>4. TypeAt(c) \in EventTypes BY <1>1, <1>3 DEF TypeAt, EventTypes
<1>5. EntityId(DomainOf(c), ChangeAt(c).new) \in EventKeys BY <1>1, <1>3 DEF EventKeys, DomainOf
<1>6. KeyPartition(c) \in Partitions BY <1>1, <1>3, ItemsAssumption DEF KeyPartition, DomainOf
<1> QED BY <1>3, <1>4, <1>5, <1>6 DEF HasEvent

\* The events of a record have one partition.
LEMMA SamePartition ==
    ASSUME StreamsInv, NEW b \in Changes, NEW c \in Changes, HasEvent(b), HasEvent(c),
           ChangeAt(b).rec = ChangeAt(c).rec
    PROVE  KeyPartition(b) = KeyPartition(c) /\ DomainOf(b) = DomainOf(c)
<1>1. ChangeAt(b).rec \in Records BY ChangeFacts
<1>2. ChangeAt(b).new \in Images[ChangeAt(b).rec] /\ ChangeAt(c).new \in Images[ChangeAt(c).rec]
  BY EventFacts
<1> QED BY <1>1, <1>2, ItemsAssumption DEF KeyPartition, DomainOf

\* An event id is the first or a later one of its change.
LEMMA AttemptType ==
    ASSUME TopicsInv, NEW d \in Domains, NEW c
    PROVE  Attempt(d, c) \in Nat
<1> DEFINE log(p) == ProducerTopic(d)[p]
           own(p) == {j \in DOMAIN log(p) : log(p)[j].id[1] = c}
           ids(p) == {log(p)[i].id : i \in own(p)}
           all == {ids(p) : p \in Partitions}
<1>1. ASSUME NEW p \in Partitions PROVE IsFiniteSet(ids(p))
  <2>1. log(p) \in Seq(Messages) BY DEF TopicsInv, TopicInv, ProducerTopic
  <2>2. DOMAIN log(p) = 1..Len(log(p)) /\ Len(log(p)) \in Nat BY <2>1
  <2>3. IsFiniteSet(DOMAIN log(p)) BY <2>2, FS_Interval
  <2>4. IsFiniteSet(own(p)) BY <2>3, FS_Subset
  <2> DEFINE f == [i \in own(p) |-> log(p)[i].id]
  <2>5. f \in Surjection(own(p), ids(p)) BY DEF Surjection
  <2> HIDE DEF own, ids, f, log
  <2> QED BY <2>4, <2>5, FS_Surjection
<1>2. IsFiniteSet(all)
  <2> DEFINE f == [p \in Partitions |-> ids(p)]
  <2>1. f \in Surjection(Partitions, all)
    <3> HIDE DEF ids
    <3> QED BY DEF Surjection
  <2> HIDE DEF all, f
  <2> QED BY <2>1, ItemsAssumption, FS_Surjection
<1>3. IsFiniteSet(UNION all)
  <2>1. \A T \in all : IsFiniteSet(T) BY <1>1
  <2> HIDE DEF all
  <2> QED BY <1>2, <2>1, FS_UNION
<1>4. Cardinality(UNION all) \in Nat
  <2> HIDE DEF all
  <2> QED BY <1>3, FS_CardinalityType
<1>5. Attempt(d, c) = 1 + Cardinality(UNION all) BY DEF Attempt
<1> HIDE DEF all
<1> QED BY <1>4, <1>5

\* A message of a taken change is of its topic and partition.
LEMMA MessageGenuine ==
    ASSUME ShapeInv, NEW c \in Changes, HasEvent(c), c[2] <= taken[c[1]]
    PROVE  /\ Message(c).id[1] = c /\ PartitionOf[Message(c).key] = KeyPartition(c)
           /\ Genuine(Message(c), DomainOf(c), KeyPartition(c))
<1>1. /\ c \in ChangeIds /\ DomainOf(c) \in Domains BY ChangeFacts DEF ShapeInv
<1>2. Attempt(DomainOf(c), c) \in Nat BY <1>1, AttemptType DEF ShapeInv
<1>3. /\ TypeAt(c) \in EventTypes \ {NoEventType}
      /\ EntityId(DomainOf(c), ChangeAt(c).new) \in EventKeys
  BY EventFacts DEF ShapeInv
<1> DEFINE unset == ""
<1>4. Message(c) = [id |-> <<c, Attempt(DomainOf(c), c)>>, type |-> TypeAt(c),
                    key |-> EntityId(DomainOf(c), ChangeAt(c).new), class |-> unset]
  BY DEF Message, DomainOf
<1>5. unset \in EventClasses BY DEF EventClasses
<1>6. <<c, Attempt(DomainOf(c), c)>> \in ChangeIds \X Nat BY <1>1, <1>2
<1> HIDE DEF unset
<1>7. Message(c) \in Messages BY <1>3, <1>4, <1>5, <1>6 DEF Messages
<1>8. /\ Message(c).id[1] = c /\ PartitionOf[Message(c).key] = KeyPartition(c)
      /\ Message(c).type = TypeAt(c)
  BY <1>4 DEF KeyPartition
<1> QED BY <1>7, <1>8 DEF Genuine

-----------------------------------------------------------------------------
(* What a send appends to a partition *)

\* k lists the n elements of I from the smallest to the largest.
Lists(k, n, I) ==
    /\ n \in Nat /\ k \in [1..n -> I]
    /\ \A i \in I : \E x \in 1..n : k[x] = i
    /\ \A x, y \in 1..n : x < y <=> k[x] < k[y]

LEMMA KeptLists ==
    ASSUME NEW s, NEW I, IsFiniteSet(I), I \subseteq Int
    PROVE  /\ DOMAIN Kept(s, I) = 1..Cardinality(I)
           /\ Kept(s, I) = [n \in 1..Cardinality(I) |-> Kept(s, I)[n]]
           /\ \E k : /\ Lists(k, Cardinality(I), I)
                     /\ \A n \in 1..Cardinality(I) : Kept(s, I)[n] = s[k[n]]
<1> DEFINE N == Cardinality(I)
<1>1. N \in Nat BY KeptInOrder
<1>2. PICK k \in [1..N -> I] :
        /\ Kept(s, I) = [n \in 1..N |-> s[k[n]]]
        /\ \A i \in I : \E n \in 1..N : k[n] = i
        /\ \A m, n \in 1..N : m < n => k[m] < k[n]
  BY KeptInOrder
<1> HIDE DEF N
<1>3. ASSUME NEW x \in 1..N, NEW y \in 1..N, k[x] < k[y] PROVE x < y
  <2>1. k[x] \in Int /\ k[y] \in Int BY <1>2
  <2>2. ~(y < x) /\ x # y BY <1>2, <1>3, <2>1
  <2> QED BY <2>2, <1>1
<1> QED BY <1>1, <1>2, <1>3 DEF Lists, N

\* The changes of a batch whose events go to a partition.
Sendable(s, b, p) == {i \in b.lo..b.hi : HasEvent(<<s, i>>) /\ KeyPartition(<<s, i>>) = p}

\* A producer's batch: the events for the partition, in order.
LEMMA OutboxKeyed ==
    ASSUME ShapeInv, NEW s \in Shards, NEW b \in BatchRecords, b.hi <= taken[s],
           NEW p \in Partitions, NEW K, K = Keyed(Outbox(s, b), p)
    PROVE  /\ K \in Seq(Messages)
           /\ \A n \in DOMAIN K : Genuine(K[n], ShardDomain(s), p)
           /\ \E k : /\ Lists(k, Len(K), Sendable(s, b, p))
                     /\ \A n \in DOMAIN K : K[n].id[1] = <<s, k[n]>>
<1> DEFINE M == [i \in b.lo..b.hi |-> Message(<<s, i>>)]
           E == {i \in b.lo..b.hi : HasEvent(<<s, i>>)}
           out == Kept(M, E)
           J == {n \in DOMAIN out : PartitionOf[out[n].key] = p}
           I == Sendable(s, b, p)
<1>1. /\ b.lo \in Nat \ {0} /\ b.hi \in Nat /\ taken[s] \in Nat
      /\ taken[s] <= Len(stream[s]) /\ Len(stream[s]) \in Nat
  BY DEF ShapeInv, QueuesInv, StreamsInv, BatchRecords
<1>2. ASSUME NEW i \in E
      PROVE  /\ i \in Int /\ <<s, i>> \in Changes /\ HasEvent(<<s, i>>)
             /\ M[i].id[1] = <<s, i>> /\ PartitionOf[M[i].key] = KeyPartition(<<s, i>>)
             /\ Genuine(M[i], ShardDomain(s), KeyPartition(<<s, i>>))
  <2>1. i \in 1..Len(stream[s]) /\ i <= taken[s] /\ HasEvent(<<s, i>>) BY <1>1
  <2>2. <<s, i>> \in Changes BY <2>1, ChangesAre DEF ShapeInv
  <2> DEFINE c == <<s, i>>
  <2>3. c[1] = s /\ c[2] = i OBVIOUS
  <2>4. DomainOf(c) = ShardDomain(s) BY <2>2, <2>3, ChangeFacts DEF ShapeInv
  <2>5. M[i] = Message(c) BY <1>1
  <2> HIDE DEF c, M
  <2>6. c \in Changes /\ HasEvent(c) /\ c[2] <= taken[c[1]] BY <2>1, <2>2, <2>3 DEF c
  <2>7. /\ Message(c).id[1] = c /\ PartitionOf[Message(c).key] = KeyPartition(c)
        /\ Genuine(Message(c), DomainOf(c), KeyPartition(c))
    BY <2>6, MessageGenuine
  <2> QED BY <2>1, <2>4, <2>5, <2>6, <2>7, <1>1 DEF c
<1>3. IsFiniteSet(E) /\ E \subseteq Int
  <2> DEFINE lo == b.lo  hi == b.hi
  <2>1. E \in SUBSET (lo..hi) OBVIOUS
  <2>2. lo \in Int /\ hi \in Int /\ E \subseteq Int BY <1>1
  <2> HIDE DEF M, E, lo, hi
  <2>3. IsFiniteSet(lo..hi) BY <2>2, FS_Interval
  <2> QED BY <2>1, <2>2, <2>3, FS_Subset
<1> DEFINE N1 == Cardinality(E)
<1> HIDE DEF M, E, J, I
<1>4. /\ DOMAIN out = 1..N1
      /\ \E k : Lists(k, N1, E) /\ \A n \in 1..N1 : out[n] = M[k[n]]
  BY <1>3, KeptLists
<1> HIDE DEF out, N1
<1>5. PICK k1 : Lists(k1, N1, E) /\ \A n \in 1..N1 : out[n] = M[k1[n]] BY <1>4
<1>6. N1 \in Nat /\ DOMAIN out = 1..N1 BY <1>4, <1>5 DEF Lists
<1>7. IsFiniteSet(J) /\ J \subseteq Int
  <2>1. J \in SUBSET (1..N1) /\ J \subseteq Int BY <1>6 DEF J
  <2>2. IsFiniteSet(1..N1) BY <1>6, FS_Interval
  <2> QED BY <2>1, <2>2, FS_Subset
<1> DEFINE N2 == Cardinality(J)
<1>8. K = Kept(out, J) BY DEF Keyed, Outbox, out, M, E, J
<1>9. /\ DOMAIN K = 1..N2 /\ K = [n \in 1..N2 |-> K[n]]
      /\ \E k : Lists(k, N2, J) /\ \A n \in 1..N2 : K[n] = out[k[n]]
  BY <1>7, <1>8, KeptLists
<1>10. PICK k2 : Lists(k2, N2, J) /\ \A n \in 1..N2 : K[n] = out[k2[n]] BY <1>9
<1> DEFINE k == [n \in 1..N2 |-> k1[k2[n]]]
<1>11. N2 \in Nat /\ \A n \in 1..N2 : k2[n] \in J /\ k2[n] \in 1..N1
  BY <1>6, <1>10 DEF Lists, J
<1> HIDE DEF N2
<1>12. ASSUME NEW n \in 1..N2
       PROVE  K[n] = M[k[n]] /\ k[n] \in E /\ PartitionOf[M[k[n]].key] = p
  <2>1. k2[n] \in 1..N1 /\ k2[n] \in J BY <1>11
  <2>2. k1[k2[n]] \in E BY <1>5, <2>1 DEF Lists
  <2>3. out[k2[n]] = M[k1[k2[n]]] BY <1>5, <2>1
  <2>4. PartitionOf[out[k2[n]].key] = p BY <2>1 DEF J
  <2> QED BY <1>10, <2>2, <2>3, <2>4
<1>13. Lists(k, N2, I)
  <2>1. \A n \in 1..N2 : k[n] \in I BY <1>2, <1>12 DEF Sendable, E, I
  <2>2. ASSUME NEW i \in I PROVE \E n \in 1..N2 : k[n] = i
    <3>1. i \in E /\ KeyPartition(<<s, i>>) = p BY DEF Sendable, E, I
    <3>2. PICK x \in 1..N1 : k1[x] = i BY <1>5, <3>1 DEF Lists
    <3>3. x \in J BY <1>2, <1>5, <1>6, <3>1, <3>2 DEF J
    <3>4. PICK n \in 1..N2 : k2[n] = x BY <1>10, <3>3 DEF Lists
    <3> QED BY <3>2, <3>4
  <2>3. ASSUME NEW x \in 1..N2, NEW y \in 1..N2 PROVE x < y <=> k[x] < k[y]
    <3>1. k2[x] \in 1..N1 /\ k2[y] \in 1..N1 BY <1>11
    <3>2. k2[x] < k2[y] <=> k1[k2[x]] < k1[k2[y]] BY <1>5, <3>1 DEF Lists
    <3>3. x < y <=> k2[x] < k2[y] BY <1>10 DEF Lists
    <3> QED BY <3>2, <3>3
  <2> HIDE DEF k
  <2>4. k \in [1..N2 -> I] BY <2>1 DEF k
  <2> QED BY <1>11, <2>2, <2>3, <2>4 DEF Lists
<1> HIDE DEF k
<1>14. \A n \in 1..N2 : K[n].id[1] = <<s, k[n]>> /\ Genuine(K[n], ShardDomain(s), p)
  BY <1>2, <1>12
<1>15. K \in Seq(Messages) /\ Len(K) = N2 /\ DOMAIN K = 1..N2
  <2>1. \A n \in 1..N2 : K[n] \in Messages BY <1>14 DEF Genuine
  <2> QED BY <1>9, <1>11, <2>1 DEF N2
<1> QED BY <1>13, <1>14, <1>15 DEF I

\* The class of a normalized message is all that is new.
LEMMA NormalizedGenuine ==
    ASSUME StreamsInv, NEW d \in Domains, NEW p \in Partitions, NEW m, Genuine(m, d, p)
    PROVE  /\ Genuine(Normalized(d, m), d, p) /\ Normalized(d, m).id[1] = m.id[1]
           /\ PartitionOf[Normalized(d, m).key] = p
<1> DEFINE c == m.id[1]
           cl == Classify(d, ChangeAt(c).new.pk)
<1>1. c \in Changes /\ HasEvent(c) /\ DomainOf(c) = d /\ m \in Messages BY DEF Genuine
<1>2. ChangeAt(c).rec \in Records /\ ChangeAt(c).new \in Images[ChangeAt(c).rec]
  BY <1>1, ChangeFacts, EventFacts
<1>3. cl \in EventClasses
  <2> DEFINE all == UNION {{Classify(Domain[r], i.pk) : i \in Images[r]} : r \in Records}
  <2>1. cl \in all BY <1>1, <1>2 DEF DomainOf
  <2>2. EventClasses = {""} \cup all BY DEF EventClasses
  <2> HIDE DEF all, cl
  <2> QED BY <2>1, <2>2, Zenon
<1>4. Normalized(d, m) = [m EXCEPT !.class = cl] BY DEF Normalized
<1> HIDE DEF cl, c
<1>5. Normalized(d, m) \in Messages BY <1>1, <1>3, <1>4 DEF Messages
<1>6. /\ Normalized(d, m).id = m.id /\ Normalized(d, m).key = m.key
      /\ Normalized(d, m).type = m.type
  BY <1>1, <1>4 DEF Messages
<1> QED BY <1>5, <1>6 DEF Genuine

\* The normalizer's batch of a raw partition: all of it, for one partition.
LEMMA NextRawKeyed ==
    ASSUME ShapeInv, NEW d \in Domains, NEW p \in Partitions, NEW n \in BatchSizes(d, p),
           NEW q \in Partitions, NEW K, K = Keyed(NextRaw(d, p, n), q)
    PROVE  /\ K \in Seq(Messages)
           /\ \A x \in DOMAIN K : Genuine(K[x], d, q)
           /\ q # p => K = <<>>
           /\ q = p => \E k : /\ Lists(k, Len(K), 1..n)
                              /\ \A x \in DOMAIN K :
                                    K[x].id[1] = raw[d][p][passed[d][p] + k[x]].id[1]
<1> DEFINE out == NextRaw(d, p, n)
           from == passed[d][p]
           J == {x \in DOMAIN out : PartitionOf[out[x].key] = q}
           N == Cardinality(J)
<1>1. n \in Nat /\ n <= BatchSize /\ from \in Nat /\ from + n <= Len(raw[d][p]) /\ Len(raw[d][p]) \in Nat
  BY PipelineAssumption DEF BatchSizes, ShapeInv, TopicsInv, TopicInv
<1>2. DOMAIN out = 1..n BY DEF NextRaw
<1>3. ASSUME NEW x \in 1..n
      PROVE  /\ Genuine(out[x], d, p) /\ out[x].id[1] = raw[d][p][from + x].id[1]
             /\ PartitionOf[out[x].key] = p
  <2>1. from + x \in DOMAIN raw[d][p]
    <3>1. raw[d][p] \in Seq(Messages) BY DEF ShapeInv, TopicsInv, TopicInv
    <3> QED BY <1>1, <3>1
  <2>2. Genuine(raw[d][p][from + x], d, p) BY <2>1 DEF ShapeInv, TopicsInv, TopicInv
  <2>3. out[x] = Normalized(d, raw[d][p][from + x]) BY DEF NextRaw
  <2>4. PICK m : m = raw[d][p][from + x] OBVIOUS
  <2>5. Genuine(m, d, p) /\ out[x] = Normalized(d, m) BY <2>2, <2>3, <2>4
  <2>6. StreamsInv BY DEF ShapeInv
  <2>7. /\ Genuine(Normalized(d, m), d, p) /\ Normalized(d, m).id[1] = m.id[1]
        /\ PartitionOf[Normalized(d, m).key] = p
    BY <2>5, <2>6, NormalizedGenuine
  <2> QED BY <2>4, <2>5, <2>7
<1> HIDE DEF out, from
<1>4. J = IF q = p THEN 1..n ELSE {} BY <1>2, <1>3
<1>5. IsFiniteSet(J) /\ J \subseteq Int
  <2>1. IsFiniteSet(1..n) /\ 1..n \subseteq Int BY <1>1, FS_Interval
  <2> HIDE DEF J
  <2>2. CASE q = p BY <1>4, <2>1, <2>2
  <2>3. CASE q # p BY <1>4, <2>3, FS_EmptySet
  <2> QED BY <2>2, <2>3
<1> HIDE DEF J
<1>6. K = Kept(out, J) BY DEF Keyed, out, J
<1>7. /\ DOMAIN K = 1..N /\ K = [x \in 1..N |-> K[x]]
      /\ \E k : Lists(k, N, J) /\ \A x \in 1..N : K[x] = out[k[x]]
  BY <1>5, <1>6, KeptLists
<1>8. PICK k : Lists(k, N, J) /\ \A x \in 1..N : K[x] = out[k[x]] BY <1>7
<1>9. q # p => N = 0 BY <1>4, FS_EmptySet
<1> HIDE DEF N
<1>10. N \in Nat /\ \A x \in 1..N : k[x] \in J BY <1>8 DEF Lists
<1>11. CASE q # p
  <2>1. K = <<>> BY <1>7, <1>9, <1>11
  <2> QED BY <1>11, <2>1
<1>12. CASE q = p
  <2>1. ASSUME NEW x \in 1..N
        PROVE  Genuine(K[x], d, p) /\ K[x].id[1] = raw[d][p][from + k[x]].id[1]
    <3>1. k[x] \in 1..n BY <1>4, <1>10, <1>12
    <3> QED BY <1>3, <1>8, <3>1
  <2>2. \A x \in 1..N : K[x] \in Messages BY <2>1 DEF Genuine
  <2>3. K \in Seq(Messages) /\ Len(K) = N BY <1>7, <1>10, <2>2
  <2>4. Lists(k, N, 1..n) BY <1>4, <1>8, <1>12
  <2> QED BY <1>7, <1>12, <2>1, <2>3, <2>4, ZenonT(30) DEF from
<1> QED BY <1>11, <1>12

-----------------------------------------------------------------------------
(* Where a change's messages are, after an append *)

LEMMA AppendPlaces ==
    ASSUME NEW log \in Seq(Messages), NEW K \in Seq(Messages), NEW c
    PROVE  /\ \A i \in Places(log, c) : i \in Places(log \o K, c) /\ i <= Len(log)
           /\ \A n \in DOMAIN K : K[n].id[1] = c => Len(log) + n \in Places(log \o K, c)
           /\ \A i \in Places(log \o K, c) :
                \/ i \in Places(log, c)
                \/ \E n \in DOMAIN K : i = Len(log) + n /\ K[n].id[1] = c
           /\ \A i \in Places(log, c) : i \in Nat
<1>1. /\ Len(log) \in Nat /\ Len(K) \in Nat /\ DOMAIN log = 1..Len(log) /\ DOMAIN K = 1..Len(K)
      /\ DOMAIN (log \o K) = 1..(Len(log) + Len(K))
      /\ \A i \in 1..Len(log) : (log \o K)[i] = log[i]
      /\ \A n \in 1..Len(K) : (log \o K)[Len(log) + n] = K[n]
  BY ConcatProperties
<1>2. ASSUME NEW n \in DOMAIN K, K[n].id[1] = c PROVE Len(log) + n \in Places(log \o K, c)
  BY <1>1, <1>2 DEF Places
<1>3. ASSUME NEW i \in Places(log \o K, c), ~(i \in Places(log, c))
      PROVE  \E n \in DOMAIN K : i = Len(log) + n /\ K[n].id[1] = c
  <2>1. i \in 1..(Len(log) + Len(K)) /\ (log \o K)[i].id[1] = c BY <1>1 DEF Places
  <2>2. ~(i <= Len(log)) BY <1>1, <1>3, <2>1 DEF Places
  <2>3. i - Len(log) \in 1..Len(K) /\ i = Len(log) + (i - Len(log)) BY <1>1, <2>1, <2>2
  <2> QED BY <1>1, <2>1, <2>3
<1>4. \A i \in Places(log, c) : i \in Places(log \o K, c) /\ i <= Len(log) /\ i \in Nat
  BY <1>1 DEF Places
<1> QED BY <1>2, <1>3, <1>4

In(K, c) == \E n \in DOMAIN K : K[n].id[1] = c

\* What is appended to the log has b and c in order, nothing of what was
\* silent, and the later one with the earlier one.
InOrder(L, K, S, S2, O, O2, b, c) ==
    /\ \A m, n \in DOMAIN K : (K[m].id[1] = b /\ K[n].id[1] = c) => m < n
    /\ b \in S => ~In(K, b) /\ b \in S2
    /\ In(K, c) => In(K, b) \/ b \in S2
    /\ c \in O /\ Places(L, b) # {} => c \in O2 \/ In(K, c)
    /\ In(K, b) => In(K, c) \/ c \in O2

LEMMA OrderKept ==
    ASSUME NEW L \in Seq(Messages), NEW K \in Seq(Messages), NEW b, NEW c,
           NEW S, NEW S2, NEW O, NEW O2,
           AfterEarlier(L, S, b, c), BeforeLater(L, O, b, c),
           InOrder(L, K, S, S2, O, O2, b, c)
    PROVE  AfterEarlier(L \o K, S2, b, c) /\ BeforeLater(L \o K, O2, b, c)
<1>1. Len(L) \in Nat /\ DOMAIN K \subseteq Nat /\ \A n \in DOMAIN K : n > 0 OBVIOUS
<1> USE DEF InOrder
<1>2. ASSUME NEW j \in Places(L \o K, c)
      PROVE  \/ \E i \in Places(L \o K, b) : i < j
             \/ Places(L \o K, b) = {} /\ b \in S2
  <2>1. CASE j \in Places(L, c)
    <3>1. CASE \E i \in Places(L, b) : i < j BY <3>1, AppendPlaces
    <3>2. CASE Places(L, b) = {} /\ b \in S BY <3>2, AppendPlaces DEF In
    <3> QED BY <2>1, <3>1, <3>2 DEF AfterEarlier
  <2>2. CASE \E n \in DOMAIN K : j = Len(L) + n /\ K[n].id[1] = c
    <3>1. PICK n \in DOMAIN K : j = Len(L) + n /\ K[n].id[1] = c BY <2>2
    <3>2. CASE In(K, b)
      <4>1. PICK m \in DOMAIN K : K[m].id[1] = b BY <3>2 DEF In
      <4>2. Len(L) + m \in Places(L \o K, b) /\ m < n BY <3>1, <4>1, AppendPlaces
      <4> QED BY <1>1, <3>1, <4>2
    <3>3. CASE ~In(K, b) /\ Places(L, b) # {}
      <4>1. PICK i \in Places(L, b) : TRUE BY <3>3
      <4>2. i \in Places(L \o K, b) /\ i <= Len(L) /\ i \in Nat BY <4>1, AppendPlaces
      <4> QED BY <1>1, <3>1, <4>2
    <3>4. CASE ~In(K, b) /\ Places(L, b) = {}
      <4>1. Places(L \o K, b) = {} BY <3>4, AppendPlaces DEF In
      <4> QED BY <3>1, <3>4, <4>1 DEF In
    <3> QED BY <3>2, <3>3, <3>4
  <2> QED BY <2>1, <2>2, AppendPlaces
<1>3. ASSUME NEW i \in Places(L \o K, b)
      PROVE  (\E j \in Places(L \o K, c) : i < j) \/ c \in O2
  <2>1. CASE i \in Places(L, b)
    <3>1. i <= Len(L) /\ i \in Nat BY <2>1, AppendPlaces
    <3>2. CASE \E j \in Places(L, c) : i < j BY <3>2, AppendPlaces
    <3>3. CASE In(K, c)
      <4>1. PICK n \in DOMAIN K : K[n].id[1] = c BY <3>3 DEF In
      <4>2. Len(L) + n \in Places(L \o K, c) BY <4>1, AppendPlaces
      <4> QED BY <1>1, <3>1, <4>1, <4>2
    <3> QED BY <2>1, <3>2, <3>3 DEF BeforeLater
  <2>2. CASE \E m \in DOMAIN K : i = Len(L) + m /\ K[m].id[1] = b
    <3>1. PICK m \in DOMAIN K : i = Len(L) + m /\ K[m].id[1] = b BY <2>2
    <3>2. CASE In(K, c)
      <4>1. PICK n \in DOMAIN K : K[n].id[1] = c BY <3>2 DEF In
      <4>2. Len(L) + n \in Places(L \o K, c) /\ m < n BY <3>1, <4>1, AppendPlaces
      <4> QED BY <1>1, <3>1, <4>1, <4>2
    <3> QED BY <3>1, <3>2 DEF In
  <2> QED BY <2>1, <2>2, AppendPlaces
<1> QED BY <1>2, <1>3 DEF AfterEarlier, BeforeLater

\* The raw topic grows: the replay is of the longer log.
LEMMA ReplayGrows ==
    ASSUME NEW from \in Seq(Messages), NEW K \in Seq(Messages), NEW to, NEW n \in 0..Len(from),
           Replayed(from, to, n)
    PROVE  /\ \A l \in 1..n : Places(to, (from \o K)[l].id[1]) # {}
           /\ \A c \in Changes : Places(from \o K, c) = {} => Places(to, c) = {}
           /\ \A b, c \in Changes : \A S, S2, O, O2 :
                /\ ReplayAfter(from, to, S, b, c) /\ ReplayBefore(from, to, n, O, b, c)
                /\ InOrder(from, K, S, S2, O, O2, b, c)
                => /\ ReplayAfter(from \o K, to, S2, b, c)
                   /\ ReplayBefore(from \o K, to, n, O2, b, c)
<1>1. /\ Len(from) \in Nat /\ n \in Nat /\ n <= Len(from)
      /\ \A l \in 1..Len(from) : (from \o K)[l] = from[l]
      /\ DOMAIN K \subseteq Nat /\ \A m \in DOMAIN K : m > 0
  BY ConcatProperties
<1>2. \A l \in 1..n : Places(to, (from \o K)[l].id[1]) # {} BY <1>1, SMTT(30) DEF Replayed
<1>3. ASSUME NEW c \in Changes, Places(from \o K, c) = {} PROVE Places(to, c) = {}
  <2>1. Places(from, c) = {} BY <1>3, AppendPlaces
  <2> QED BY <2>1 DEF Replayed
<1>4. ASSUME NEW b \in Changes, NEW c \in Changes, NEW S, NEW S2, NEW O, NEW O2,
             ReplayAfter(from, to, S, b, c), ReplayBefore(from, to, n, O, b, c),
             InOrder(from, K, S, S2, O, O2, b, c)
      PROVE  ReplayAfter(from \o K, to, S2, b, c) /\ ReplayBefore(from \o K, to, n, O2, b, c)
  <2>1. ASSUME Places(from, b) = {}, b \in S PROVE Places(from \o K, b) = {} /\ b \in S2
    <3>1. ~In(K, b) /\ b \in S2 BY <2>1, <1>4 DEF InOrder
    <3> QED BY <2>1, <3>1, AppendPlaces DEF In
  <2>2. ReplayAfter(from \o K, to, S2, b, c) BY <1>4, <2>1 DEF ReplayAfter
  <2>3. ASSUME NEW i \in Places(to, b)
        PROVE  \/ \E j \in Places(to, c) : i < j
               \/ \E m \in Places(from \o K, c) : m > n
               \/ c \in O2
    <3>1. CASE \E m \in Places(from, c) : m > n BY <3>1, AppendPlaces
    <3>2. CASE c \in O
      <4>1. Places(from, b) # {} BY DEF Replayed
      <4>2. c \in O2 \/ In(K, c) BY <1>4, <3>2, <4>1 DEF InOrder
      <4>3. CASE In(K, c)
        <5>1. PICK m \in DOMAIN K : K[m].id[1] = c BY <4>3 DEF In
        <5>2. Len(from) + m \in Places(from \o K, c) BY <5>1, AppendPlaces
        <5>3. Len(from) + m > n BY <1>1
        <5> QED BY <5>2, <5>3
      <4> QED BY <4>2, <4>3
    <3> QED BY <1>4, <3>1, <3>2 DEF ReplayBefore
  <2>4. ReplayBefore(from \o K, to, n, O2, b, c) BY <2>3 DEF ReplayBefore
  <2> QED BY <2>2, <2>4
<1> QED BY <1>2, <1>3, <1>4

\* The normalizer's topic grows by the next n messages of the raw topic,
\* whether its position then moves on or not.
LEMMA ReplayKept ==
    ASSUME NEW from \in Seq(Messages), NEW to \in Seq(Messages), NEW K \in Seq(Messages),
           NEW at \in Nat, NEW n \in Nat, at + n <= Len(from), NEW k, Lists(k, Len(K), 1..n),
           \A x \in DOMAIN K : K[x].id[1] = from[at + k[x]].id[1],
           Replayed(from, to, at), NEW at2 \in {at, at + n}
    PROVE  /\ Replayed(from, to \o K, at2)
           /\ \A b, c \in Changes : \A S, O :
                /\ AfterEarlier(from, S, b, c) /\ BeforeLater(from, O, b, c)
                /\ ReplayAfter(from, to, S, b, c) /\ ReplayBefore(from, to, at, O, b, c)
                => /\ ReplayAfter(from, to \o K, S, b, c)
                   /\ ReplayBefore(from, to \o K, at2, O, b, c)
<1>1. /\ Len(from) \in Nat /\ Len(to) \in Nat /\ Len(K) \in Nat
      /\ DOMAIN from = 1..Len(from) /\ DOMAIN K = 1..Len(K) /\ at2 \in Nat
      /\ \A x \in DOMAIN K : k[x] \in 1..n
  BY DEF Lists
<1>2. ASSUME NEW l \in 1..n PROVE \E x \in DOMAIN K : k[x] = l /\ K[x].id[1] = from[at + l].id[1]
  <2>1. PICK x \in 1..Len(K) : k[x] = l BY DEF Lists
  <2>2. K[x].id[1] = from[at + k[x]].id[1] BY <1>1
  <2> QED BY <1>1, <2>1, <2>2
<1>3. ASSUME NEW c, NEW l \in Places(from, c), l > at, l <= at + n
      PROVE  \E x \in DOMAIN K : l = at + k[x] /\ Len(to) + x \in Places(to \o K, c)
  <2>1. l \in Nat /\ from[l].id[1] = c BY <1>1 DEF Places
  <2>2. l - at \in 1..n /\ at + (l - at) = l BY <1>3, <2>1, SMTT(30)
  <2>3. PICK x \in DOMAIN K : k[x] = l - at /\ K[x].id[1] = from[at + (l - at)].id[1] BY <1>2, <2>2
  <2>4. K[x].id[1] = c BY <2>1, <2>2, <2>3
  <2> QED BY <2>2, <2>3, <2>4, AppendPlaces
<1>4. ASSUME NEW x \in DOMAIN K
      PROVE  at + k[x] \in Places(from, K[x].id[1])
  BY <1>1 DEF Places
<1>5. Replayed(from, to \o K, at2)
  <2>1. ASSUME NEW l \in 1..at2 PROVE Places(to \o K, from[l].id[1]) # {}
    <3>1. CASE l <= at
      <4>1. Places(to, from[l].id[1]) # {} BY <3>1 DEF Replayed
      <4> QED BY <4>1, AppendPlaces
    <3>2. CASE l > at
      <4>1. l <= at + n /\ l \in Places(from, from[l].id[1]) BY <1>1 DEF Places
      <4> QED BY <1>3, <3>2, <4>1
    <3> QED BY <3>1, <3>2, <1>1
  <2>2. ASSUME NEW c \in Changes, Places(from, c) = {} PROVE Places(to \o K, c) = {}
    <3>1. Places(to, c) = {} BY <2>2 DEF Replayed
    <3>2. ~In(K, c) BY <2>2, <1>4 DEF In
    <3> QED BY <3>1, <3>2, AppendPlaces DEF In
  <2> QED BY <2>1, <2>2 DEF Replayed
<1>6. ASSUME NEW b \in Changes, NEW c \in Changes, NEW S, NEW O,
             AfterEarlier(from, S, b, c), BeforeLater(from, O, b, c),
             ReplayAfter(from, to, S, b, c), ReplayBefore(from, to, at, O, b, c)
      PROVE  ReplayAfter(from, to \o K, S, b, c) /\ ReplayBefore(from, to \o K, at2, O, b, c)
  <2>1. ASSUME NEW j \in Places(to \o K, c)
        PROVE  (\E i \in Places(to \o K, b) : i < j) \/ (Places(from, b) = {} /\ b \in S)
    <3>1. CASE j \in Places(to, c) BY <3>1, <1>6, AppendPlaces DEF ReplayAfter
    <3>2. CASE \E y \in DOMAIN K : j = Len(to) + y /\ K[y].id[1] = c
      <4>1. PICK y \in DOMAIN K : j = Len(to) + y /\ K[y].id[1] = c BY <3>2
      <4>2. at + k[y] \in Places(from, c) /\ k[y] \in 1..n BY <1>1, <1>4, <4>1
      <4>3. CASE \E i \in Places(from, b) : i < at + k[y]
        <5>1. PICK i \in Places(from, b) : i < at + k[y] BY <4>3
        <5>2. i \in 1..Len(from) /\ from[i].id[1] = b BY <1>1 DEF Places
        <5>3. CASE i <= at
          <6>1. Places(to, b) # {} BY <5>2, <5>3 DEF Replayed
          <6>2. PICK l \in Places(to, b) : TRUE BY <6>1
          <6>3. l \in Places(to \o K, b) /\ l <= Len(to) /\ l \in Nat BY <6>2, AppendPlaces
          <6> QED BY <1>1, <4>1, <6>3
        <5>4. CASE i > at
          <6>1. i <= at + n BY <4>2, <5>1, <5>2
          <6>2. PICK x \in DOMAIN K : i = at + k[x] /\ Len(to) + x \in Places(to \o K, b)
            BY <1>3, <5>4, <6>1
          <6>3. k[x] < k[y] BY <1>1, <4>2, <5>1, <6>2
          <6>4. x < y BY <1>1, <6>3 DEF Lists
          <6> QED BY <1>1, <4>1, <6>2, <6>4
        <5> QED BY <5>2, <5>3, <5>4
      <4> QED BY <1>6, <4>2, <4>3 DEF AfterEarlier
    <3> QED BY <3>1, <3>2, AppendPlaces
  <2>2. ASSUME NEW i \in Places(to \o K, b)
        PROVE  \/ \E j \in Places(to \o K, c) : i < j
               \/ \E m \in Places(from, c) : m > at2
               \/ c \in O
    <3>1. CASE i \in Places(to, b)
      <4>1. i <= Len(to) /\ i \in Nat BY <3>1, AppendPlaces
      <4>2. CASE \E j \in Places(to, c) : i < j BY <4>2, AppendPlaces
      <4>3. CASE \E m \in Places(from, c) : m > at
        <5>1. PICK m \in Places(from, c) : m > at BY <4>3
        <5>2. CASE m <= at + n
          <6>1. PICK x \in DOMAIN K : Len(to) + x \in Places(to \o K, c) BY <1>3, <5>1, <5>2
          <6> QED BY <1>1, <4>1, <6>1
        <5>3. m \in Nat BY <1>1 DEF Places
        <5>4. CASE m > at + n
          <6>1. m > at2 BY <1>1, <5>3, <5>4
          <6> QED BY <5>1, <6>1
        <5> QED BY <5>2, <5>3, <5>4
      <4> QED BY <1>6, <3>1, <4>2, <4>3 DEF ReplayBefore
    <3>2. CASE \E y \in DOMAIN K : i = Len(to) + y /\ K[y].id[1] = b
      <4>1. PICK y \in DOMAIN K : i = Len(to) + y /\ K[y].id[1] = b BY <3>2
      <4>2. at + k[y] \in Places(from, b) /\ k[y] \in 1..n BY <1>1, <1>4, <4>1
      <4>3. CASE \E m \in Places(from, c) : at + k[y] < m
        <5>1. PICK m \in Places(from, c) : at + k[y] < m BY <4>3
        <5>2. m \in Nat /\ m > at BY <1>1, <4>2, <5>1, SMTT(30) DEF Places
        <5>3. CASE m <= at + n
          <6>1. PICK x \in DOMAIN K : m = at + k[x] /\ Len(to) + x \in Places(to \o K, c)
            BY <1>3, <5>1, <5>2, <5>3
          <6>2. k[y] < k[x] BY <1>1, <4>2, <5>1, <6>1
          <6>3. y < x BY <1>1, <6>2 DEF Lists
          <6> QED BY <1>1, <4>1, <6>1, <6>3
        <5>4. CASE m > at + n
          <6>1. m > at2 BY <1>1, <5>2, <5>4
          <6> QED BY <5>1, <6>1
        <5> QED BY <5>2, <5>3, <5>4
      <4> QED BY <1>6, <4>2, <4>3 DEF BeforeLater
    <3> QED BY <3>1, <3>2, AppendPlaces
  <2> QED BY <2>1, <2>2 DEF ReplayAfter, ReplayBefore
<1> QED BY <1>5, <1>6

-----------------------------------------------------------------------------
(* A shard's batches *)

\* The first batch handled: the next one follows it.
LEMMA FirstDone ==
    ASSUME NEW q \in Seq(BatchRecords), q # <<>>, NEW t \in Nat, Contiguous(q, t)
    PROVE  /\ Head(q) = q[1] /\ q[1] \in BatchRecords /\ q[1].lo <= q[1].hi /\ q[1].hi <= t
           /\ Tail(q) \in Seq(BatchRecords) /\ Contiguous(Tail(q), t)
           /\ FrontOf(Tail(q), t) = q[1].hi + 1
<1>1. /\ Len(q) \in Nat \ {0} /\ DOMAIN q = 1..Len(q) /\ 1 \in DOMAIN q /\ q[1] \in BatchRecords
      /\ Head(q) = q[1] /\ Tail(q) \in Seq(BatchRecords) /\ Len(Tail(q)) = Len(q) - 1
      /\ DOMAIN Tail(q) = 1..(Len(q) - 1)
      /\ \A i \in 1..(Len(q) - 1) : Tail(q)[i] = q[i + 1]
  OBVIOUS
<1>2. q[1].lo <= q[1].hi /\ q[1].hi <= t /\ q[1].hi = IF 1 = Len(q) THEN t ELSE q[2].lo - 1
  BY <1>1 DEF Contiguous
<1>3. \A i \in DOMAIN q : q[i] \in BatchRecords OBVIOUS
<1>4. ASSUME NEW i \in DOMAIN Tail(q)
      PROVE  /\ Tail(q)[i].lo <= Tail(q)[i].hi /\ Tail(q)[i].hi <= t
             /\ Tail(q)[i].hi = IF i = Len(Tail(q)) THEN t ELSE Tail(q)[i + 1].lo - 1
  <2>1. i + 1 \in DOMAIN q /\ Tail(q)[i] = q[i + 1] /\ (i + 1 = Len(q) <=> i = Len(Tail(q)))
    BY <1>1
  <2>2. i # Len(Tail(q)) => Tail(q)[i + 1] = q[i + 2] /\ (i + 1) + 1 = i + 2 BY <1>1
  <2> QED BY <2>1, <2>2 DEF Contiguous
<1>5. FrontOf(Tail(q), t) = q[1].hi + 1
  <2>1. CASE Len(q) = 1 BY <1>1, <1>2, <2>1 DEF FrontOf
  <2>2. CASE Len(q) # 1
    <3>1. Tail(q)[1] = q[2] /\ q[2] \in BatchRecords /\ Tail(q) # <<>>
      <4>1. 1 \in 1..(Len(q) - 1) /\ 2 \in DOMAIN q BY <1>1, <2>2
      <4>2. Tail(q)[1] = q[1 + 1] BY <1>1, <4>1
      <4>3. Len(Tail(q)) # 0 /\ 1 + 1 = 2 /\ \A i \in DOMAIN q : q[i] \in BatchRecords BY <1>1, <4>1
      <4>4. Tail(q) # <<>>
        <5> DEFINE u == Tail(q)
        <5>1. Len(u) # 0 BY <4>3
        <5> HIDE DEF u
        <5>2. u # <<>> BY <5>1
        <5> QED BY <5>2 DEF u
      <4>5. q[2] \in BatchRecords BY <4>1, <4>3
      <4> QED BY <4>2, <4>3, <4>4, <4>5
    <3>2. q[1].hi = q[2].lo - 1 BY <1>1, <1>2, <2>2
    <3>3. q[2].lo \in Nat BY <3>1 DEF BatchRecords
    <3> QED BY <3>1, <3>2, <3>3 DEF FrontOf
  <2> QED BY <2>1, <2>2
<1> QED BY <1>1, <1>2, <1>4, <1>5 DEF Contiguous

\* The first batch replaced by others of the same range.
LEMMA FirstReplaced ==
    ASSUME NEW q \in Seq(BatchRecords), q # <<>>, NEW t \in Nat, Contiguous(q, t),
           NEW f \in Seq(BatchRecords), f # <<>>, Contiguous(f, q[1].hi)
    PROVE  /\ f \o Tail(q) \in Seq(BatchRecords) /\ Contiguous(f \o Tail(q), t)
           /\ FrontOf(f \o Tail(q), t) = f[1].lo
<1> DEFINE u == Tail(q)
           g == f \o u
<1>1. /\ u \in Seq(BatchRecords) /\ Contiguous(u, t) /\ FrontOf(u, t) = q[1].hi + 1
      /\ q[1] \in BatchRecords /\ q[1].hi <= t
  BY FirstDone
<1> HIDE DEF u
<1>2. /\ Len(f) \in Nat \ {0} /\ Len(u) \in Nat /\ DOMAIN g = 1..(Len(f) + Len(u)) /\ g \in Seq(BatchRecords)
      /\ DOMAIN f = 1..Len(f) /\ DOMAIN u = 1..Len(u) /\ Len(g) = Len(f) + Len(u)
      /\ \A i \in 1..Len(f) : g[i] = f[i]
      /\ \A i \in 1..Len(u) : g[Len(f) + i] = u[i]
  BY <1>1, ConcatProperties
<1>3. \A i \in 1..Len(f) : f[i] \in BatchRecords OBVIOUS
<1> HIDE DEF g
<1>4. ASSUME NEW i \in DOMAIN g
      PROVE  /\ g[i].lo <= g[i].hi /\ g[i].hi <= t
             /\ g[i].hi = IF i = Len(g) THEN t ELSE g[i + 1].lo - 1
  <2>1. CASE i < Len(f)
    <3>1. i \in 1..Len(f) /\ i + 1 \in 1..Len(f) /\ i # Len(g) BY <1>2, <2>1
    <3>2. /\ f[i].lo <= f[i].hi /\ f[i].hi <= q[1].hi /\ f[i].hi = f[i + 1].lo - 1
      BY <1>2, <2>1, <3>1 DEF Contiguous
    <3>3. f[i].hi \in Nat /\ q[1].hi \in Nat BY <1>1, <1>3, <3>1 DEF BatchRecords
    <3>4. f[i].hi <= t BY <1>1, <3>2, <3>3
    <3> QED BY <1>2, <3>1, <3>2, <3>4
  <2>2. CASE i = Len(f)
    <3>1. f[i].lo <= f[i].hi /\ f[i].hi = q[1].hi BY <1>2, <2>2 DEF Contiguous
    <3>2. CASE Len(u) = 0
      <4>1. u = <<>> BY <1>1, <3>2
      <4>2. q[1].hi = t BY <1>1, <4>1, SMTT(30) DEF FrontOf, BatchRecords
      <4> QED BY <1>1, <1>2, <2>2, <3>1, <3>2, <4>2
    <3>3. CASE Len(u) # 0
      <4>1. u # <<>> /\ g[i + 1] = u[1] /\ i # Len(g)
        <5>1. 1 \in 1..Len(u) BY <1>2, <3>3
        <5>2. g[Len(f) + 1] = u[1] BY <1>2, <5>1
        <5>3. u # <<>> BY <3>3
        <5>4. Len(f) # Len(g)
          <6>1. Len(f) \in Nat /\ Len(u) \in Nat /\ Len(g) = Len(f) + Len(u) BY <1>2
          <6> QED BY <6>1, <3>3
        <5> QED BY <2>2, <5>2, <5>3, <5>4
      <4>2. u[1].lo = q[1].hi + 1 BY <1>1, <4>1 DEF FrontOf
      <4>3. q[1].hi = u[1].lo - 1 BY <1>1, <4>2, SMTT(30) DEF BatchRecords
      <4>4. g[i] = f[i] BY <1>2, <2>2
      <4>5. f[i].lo <= f[i].hi /\ f[i].hi <= t /\ f[i].hi = u[1].lo - 1 BY <1>1, <3>1, <4>3
      <4> QED BY <4>1, <4>4, <4>5
    <3> QED BY <3>2, <3>3
  <2>3. CASE i > Len(f)
    <3> DEFINE j == i - Len(f)
    <3>1. j \in 1..Len(u) /\ i = Len(f) + j /\ g[i] = u[j] /\ (i = Len(g) <=> j = Len(u))
      <4>1. i \in Nat /\ i <= Len(f) + Len(u) BY <1>2
      <4>2. j \in 1..Len(u) /\ i = Len(f) + j BY <1>2, <2>3, <4>1
      <4>3. g[Len(f) + j] = u[j] BY <1>2, <4>2
      <4> HIDE DEF j
      <4>4. i = Len(g) <=> j = Len(u)
        <5>1. Len(f) \in Nat /\ Len(u) \in Nat /\ Len(g) = Len(f) + Len(u) BY <1>2
        <5> QED BY <5>1, <4>2, SMTT(30)
      <4> QED BY <4>2, <4>3, <4>4
    <3>2. j # Len(u) => g[i + 1] = u[j + 1]
      <4>1. j # Len(u) => j + 1 \in 1..Len(u) /\ i + 1 = Len(f) + (j + 1) BY <1>2, <3>1, SMTT(30)
      <4> QED BY <1>2, <4>1
    <3> HIDE DEF j
    <3>3. j \in DOMAIN u /\ Len(u) \in Nat BY <1>2, <3>1
    <3>4. /\ u[j].lo <= u[j].hi /\ u[j].hi <= t
          /\ u[j].hi = IF j = Len(u) THEN t ELSE u[j + 1].lo - 1
      BY <1>1, <3>3 DEF Contiguous
    <3> QED BY <3>1, <3>2, <3>4
  <2> QED BY <1>2, <2>1, <2>2, <2>3
<1>5. FrontOf(g, t) = f[1].lo BY <1>2 DEF FrontOf
<1> QED BY <1>2, <1>4, <1>5 DEF Contiguous, g, u

-----------------------------------------------------------------------------
(* What a step leaves as it was *)

\* A change says the same as long as the stream does.
LEMMA SameChange ==
    ASSUME NEW c, ChangeAt(c)' = ChangeAt(c)
    PROVE  /\ HasEvent(c)' <=> HasEvent(c)
           /\ TypeAt(c)' = TypeAt(c)
           /\ DomainOf(c)' = DomainOf(c) /\ KeyPartition(c)' = KeyPartition(c)
  BY DEF HasEvent, TypeAt, DomainOf, KeyPartition

LEMMA SameStream ==
    ASSUME stream' = stream
    PROVE  Changes' = Changes /\ \A c : ChangeAt(c)' = ChangeAt(c)
  BY DEF Changes, ChangeAt

\* A message stays genuine while streams and what was taken of them grow.
LEMMA GenuineStays ==
    ASSUME \A c \in Changes : c \in Changes' /\ ChangeAt(c)' = ChangeAt(c),
           QueuesInv, QueuesInv', \A s \in Shards : taken[s] <= taken'[s],
           NEW m, NEW d, NEW p, Genuine(m, d, p)
    PROVE  Genuine(m, d, p)'
<1> DEFINE c == m.id[1]
<1>1. c \in Changes /\ c[1] \in Shards /\ c[2] \in Int BY DEF Genuine, Changes, ChangeIds
<1>2. /\ c \in Changes' /\ HasEvent(c)' <=> HasEvent(c)
      /\ TypeAt(c)' = TypeAt(c)
      /\ DomainOf(c)' = DomainOf(c) /\ KeyPartition(c)' = KeyPartition(c)
  BY <1>1, SameChange
<1>3. taken[c[1]] \in Nat /\ taken'[c[1]] \in Nat /\ taken[c[1]] <= taken'[c[1]]
  BY <1>1 DEF QueuesInv
<1> QED BY <1>1, <1>2, <1>3 DEF Genuine

\* The logs of a topic after a delivery.
Topics == [Domains -> [Partitions -> Seq(Messages)]]
After(T, d, out, ps) == [T EXCEPT ![d] = Deliver(@, out, ps)]
Added(d, out, ps, e, p) == IF e = d /\ p \in ps THEN Keyed(out, p) ELSE <<>>

LEMMA Delivered ==
    ASSUME NEW T \in Topics, NEW d \in Domains, NEW out, NEW ps,
           \A p \in Partitions : Keyed(out, p) \in Seq(Messages)
    PROVE  /\ After(T, d, out, ps) \in Topics
           /\ \A e \in Domains, p \in Partitions :
                After(T, d, out, ps)[e][p] = T[e][p] \o Added(d, out, ps, e, p)
           /\ \A e \in Domains : e # d => After(T, d, out, ps)[e] = T[e]
<1> DEFINE D == Deliver(T[d], out, ps)
           T2 == [T EXCEPT ![d] = D]
<1>0. T \in [Domains -> [Partitions -> Seq(Messages)]] BY DEF Topics
<1>1. \A p \in Partitions : T[d][p] \in Seq(Messages) /\ T[d][p] \o <<>> = T[d][p] BY <1>0
<1>2. \A p \in Partitions : Deliver(T[d], out, ps)[p] = T[d][p] \o Added(d, out, ps, d, p)
  BY <1>1 DEF Deliver, Added
<1>3. \A p \in Partitions : T[d][p] \o Added(d, out, ps, d, p) \in Seq(Messages)
  BY <1>1 DEF Added
<1>4. Deliver(T[d], out, ps) \in [Partitions -> Seq(Messages)]
  <2>1. \A p \in Partitions : Deliver(T[d], out, ps)[p] \in Seq(Messages) BY <1>2, <1>3
  <2>2. Deliver(T[d], out, ps) = [p \in Partitions |-> Deliver(T[d], out, ps)[p]] BY DEF Deliver
  <2> QED BY <2>1, <2>2
<1>5. T2 \in [Domains -> [Partitions -> Seq(Messages)]]
  <2>1. D \in [Partitions -> Seq(Messages)] BY <1>4
  <2> QED BY <1>0, <2>1
<1>6. \A e \in Domains : e # d => T2[e] = T[e] /\ \A p \in Partitions : T[e][p] \o <<>> = T[e][p]
  BY <1>0
<1>7. T2[d] = Deliver(T[d], out, ps) BY <1>0
<1>8. T2 = After(T, d, out, ps) BY DEF After
<1> HIDE DEF T2, D
<1> QED BY <1>2, <1>5, <1>6, <1>7, <1>8, ZenonT(30) DEF Added, Topics

LEMMA AllAppended ==
    ASSUME NEW L \in Seq(Messages), NEW K \in Seq(Messages), NEW G,
           \A i \in DOMAIN L : L[i] \in G, \A n \in DOMAIN K : K[n] \in G
    PROVE  \A i \in DOMAIN (L \o K) : (L \o K)[i] \in G
<1>1. /\ Len(L) \in Nat /\ Len(K) \in Nat /\ DOMAIN L = 1..Len(L) /\ DOMAIN K = 1..Len(K)
      /\ DOMAIN (L \o K) = 1..(Len(L) + Len(K))
      /\ \A i \in 1..Len(L) : (L \o K)[i] = L[i]
      /\ \A n \in 1..Len(K) : (L \o K)[Len(L) + n] = K[n]
  BY ConcatProperties
<1>2. ASSUME NEW i \in 1..(Len(L) + Len(K)), ~(i <= Len(L))
      PROVE  i - Len(L) \in 1..Len(K) /\ i = Len(L) + (i - Len(L))
  BY <1>1, <1>2
<1> QED BY <1>1, <1>2

\* The topics after a producer's send.
LEMMA SendFacts ==
    ASSUME ShapeInv, NEW s \in Shards, NEW b \in BatchRecords, b.hi <= taken[s], NEW ps,
           Send(ShardDomain(s), Outbox(s, b), ps)
    PROVE  /\ raw' \in [Domains -> [Partitions -> Seq(Messages)]]
           /\ canon' \in [Domains -> [Partitions -> Seq(Messages)]]
           /\ \A e \in Domains, p \in Partitions :
                /\ ProducerTopic(e)'[p] = ProducerTopic(e)[p] \o Added(ShardDomain(s), Outbox(s, b), ps, e, p)
                /\ Legacy(e) => canon'[e] = canon[e]
                /\ ~Legacy(e) => raw'[e] = raw[e]
<1> DEFINE d == ShardDomain(s)
           out == Outbox(s, b)
<1>1. d \in Domains BY DEF Shards, ShardDomain, Domains
<1>2. \A p \in Partitions : Keyed(out, p) \in Seq(Messages) BY OutboxKeyed
<1>3. /\ raw \in [Domains -> [Partitions -> Seq(Messages)]]
      /\ canon \in [Domains -> [Partitions -> Seq(Messages)]]
  BY DEF ShapeInv, TopicsInv, TopicInv
<1> HIDE DEF d, out
<1> DEFINE raw2 == After(raw, d, out, ps)
           canon2 == After(canon, d, out, ps)
<1>7. /\ raw2 \in [Domains -> [Partitions -> Seq(Messages)]]
      /\ \A e \in Domains, p \in Partitions : raw2[e][p] = raw[e][p] \o Added(d, out, ps, e, p)
      /\ \A e \in Domains : e # d => raw2[e] = raw[e]
  <2>1. raw \in Topics BY <1>3 DEF Topics
  <2> QED BY <1>1, <1>2, <2>1, Delivered, SMTT(30) DEF Topics
<1>8. /\ canon2 \in [Domains -> [Partitions -> Seq(Messages)]]
      /\ \A e \in Domains, p \in Partitions : canon2[e][p] = canon[e][p] \o Added(d, out, ps, e, p)
      /\ \A e \in Domains : e # d => canon2[e] = canon[e]
  <2>1. canon \in Topics BY <1>3 DEF Topics
  <2> QED BY <1>1, <1>2, <2>1, Delivered, SMTT(30) DEF Topics
<1> HIDE DEF raw2, canon2
<1>4. \A e \in Domains, p \in Partitions : e # d => ProducerTopic(e)[p] \o Added(d, out, ps, e, p) = ProducerTopic(e)[p]
  <2>1. \A e \in Domains, p \in Partitions : ProducerTopic(e)[p] \in Seq(Messages)
    BY <1>3 DEF ProducerTopic
  <2>2. \A e \in Domains, p \in Partitions : ProducerTopic(e)[p] \o <<>> = ProducerTopic(e)[p] BY <2>1
  <2> QED BY <2>2 DEF Added
<1>5. CASE Legacy(d)
  <2>1. canon' = canon /\ raw' = raw2
    BY <1>5 DEF Send, d, out, After, raw2
  <2>2. /\ raw' \in [Domains -> [Partitions -> Seq(Messages)]]
        /\ \A e \in Domains, p \in Partitions : raw'[e][p] = raw[e][p] \o Added(d, out, ps, e, p)
        /\ \A e \in Domains : e # d => raw'[e] = raw[e]
    BY <1>7, <2>1
  <2>3. \A e \in Domains, p \in Partitions :
          ProducerTopic(e)'[p] = ProducerTopic(e)[p] \o Added(d, out, ps, e, p)
    BY <1>4, <1>5, <2>1, <2>2 DEF ProducerTopic
  <2> QED BY <1>3, <1>5, <2>1, <2>2, <2>3 DEF d, out
<1>6. CASE ~Legacy(d)
  <2>1. raw' = raw /\ canon' = canon2
    BY <1>6 DEF Send, d, out, After, canon2
  <2>2. /\ canon' \in [Domains -> [Partitions -> Seq(Messages)]]
        /\ \A e \in Domains, p \in Partitions : canon'[e][p] = canon[e][p] \o Added(d, out, ps, e, p)
        /\ \A e \in Domains : e # d => canon'[e] = canon[e]
    BY <1>8, <2>1
  <2>3. \A e \in Domains, p \in Partitions :
          ProducerTopic(e)'[p] = ProducerTopic(e)[p] \o Added(d, out, ps, e, p)
    BY <1>4, <1>6, <2>1, <2>2 DEF ProducerTopic
  <2> QED BY <1>3, <1>6, <2>1, <2>2, <2>3 DEF d, out
<1> QED BY <1>5, <1>6

-----------------------------------------------------------------------------
(* The shape of the state: streams, batches, topics *)

LEMMA TopicsStay ==
    ASSUME \A c \in Changes : c \in Changes' /\ ChangeAt(c)' = ChangeAt(c),
           QueuesInv, QueuesInv', \A s \in Shards : taken[s] <= taken'[s],
           TopicsInv, UNCHANGED <<raw, canon, passed, dropped>>
    PROVE  TopicsInv'
<1>1. \A m, d, p : Genuine(m, d, p) => Genuine(m, d, p)' BY GenuineStays
<1>2. TopicInv(raw)' BY <1>1 DEF TopicsInv, TopicInv
<1>3. TopicInv(canon)' BY <1>1 DEF TopicsInv, TopicInv
<1> QED BY <1>2, <1>3 DEF TopicsInv

LEMMA ImagesAreImages ==
    ASSUME NEW r \in Records, NEW i \in Images[r] \cup {NoImage}
    PROVE  i \in AllImages
<1> DEFINE all == UNION {Images[q] : q \in Records}
<1>1. i \in all \cup {NoImage} OBVIOUS
<1>2. AllImages = all \cup {NoImage} BY DEF AllImages
<1> HIDE DEF all
<1> QED BY <1>1, <1>2

\* A write appends one change to the stream of its item.
LEMMA WriteShape ==
    ASSUME ShapeInv, NEW r \in Records, Write(r)
    PROVE  /\ ShapeInv'
           /\ \A c \in Changes : c \in Changes' /\ ChangeAt(c)' = ChangeAt(c)
           /\ \A c \in Changes' : c \in Changes \/ c = <<Shard[r], Len(stream[Shard[r]]) + 1>>
<1> DEFINE s == Shard[r]
           n == Len(stream[s])
<1>1. s \in Shards BY DEF Shards
<1>2. PICK new \in Images[r] \cup {NoImage} :
        /\ table' = [table EXCEPT ![r] = new]
        /\ stream' = [stream EXCEPT ![s] =
                        Append(stream[s], [rec |-> r, old |-> table[r], new |-> new])]
  BY DEF Write
<1>3. /\ Cardinality(Changes) < MaxChanges
      /\ UNCHANGED <<taken, batches, raw, canon, passed, dropped>>
  BY DEF Write
<1> DEFINE x == [rec |-> r, old |-> table[r], new |-> new]
<1>4. /\ stream \in [Shards -> Seq(ChangeRecords)] /\ \A t \in Shards : Len(stream[t]) <= MaxChanges
      /\ table \in [Records -> AllImages] /\ table[r] \in Images[r] \cup {NoImage}
  BY DEF ShapeInv, StreamsInv
<1>5. x \in ChangeRecords
  <2>1. \A i \in Images[r] \cup {NoImage} : i \in AllImages BY ImagesAreImages
  <2> QED BY <1>4, <2>1 DEF ChangeRecords
<1>6. n \in Nat /\ n < MaxChanges
  <2>1. n \in Nat BY <1>1, <1>4
  <2> DEFINE own == {s} \X (1..n)
             f == [i \in 1..n |-> <<s, i>>]
             img == {f[i] : i \in 1..n}
  <2>2. IsFiniteSet(Changes)
    <3>1. IsFiniteSet(Shards)
      <4> DEFINE g == [q \in Records |-> Shard[q]]
      <4>1. g \in Surjection(Records, Shards) BY DEF Surjection, Shards
      <4> HIDE DEF g
      <4> QED BY <4>1, ItemsAssumption, FS_Surjection
    <3>2. IsFiniteSet(1..MaxChanges) BY FS_Interval, PipelineAssumption
    <3>3. IsFiniteSet(Shards \X (1..MaxChanges)) BY <3>1, <3>2, FS_Product
    <3>4. Changes \in SUBSET ChangeIds BY DEF Changes
    <3> QED BY <3>3, <3>4, FS_Subset DEF ChangeIds
  <2>3. img \in SUBSET Changes
    <3>1. \A i \in 1..n : f[i] = <<s, i>> /\ f[i] \in Changes BY <1>1, ChangesAre DEF ShapeInv
    <3> HIDE DEF f, n
    <3> QED BY <3>1
  <2>4. f \in Injection(1..n, img)
    <3>1. f \in [1..n -> img] OBVIOUS
    <3>2. \A i, j \in 1..n : f[i] = f[j] => i = j OBVIOUS
    <3> HIDE DEF f, img
    <3> QED BY <3>1, <3>2, Fun_IsInj DEF Injection, IsInjective
  <2>5. f \in Surjection(1..n, img) BY DEF Surjection
  <2>6. IsFiniteSet(1..n) /\ Cardinality(1..n) = n
    <3> HIDE DEF n, f, img, own
    <3>1. IsFiniteSet(1..n) /\ Cardinality(1..n) = IF 1 > n THEN 0 ELSE n - 1 + 1
      BY <2>1, FS_Interval
    <3> QED BY <2>1, <3>1
  <2>7. Cardinality(img) = n
    <3> HIDE DEF f, img, n
    <3>1. ExistsBijection(1..n, img) BY <2>4, <2>5 DEF Bijection, ExistsBijection
    <3> QED BY <3>1, <2>6, FS_Bijection
  <2>8. Cardinality(img) <= Cardinality(Changes) /\ Cardinality(Changes) \in Nat
    <3> HIDE DEF img
    <3> QED BY <2>2, <2>3, FS_Subset, FS_CardinalityType
  <2> HIDE DEF n, img
  <2> QED BY <2>1, <2>7, <2>8, <1>3, PipelineAssumption
<1>7. /\ stream' \in [Shards -> Seq(ChangeRecords)] /\ stream'[s] = Append(stream[s], x)
      /\ \A t \in Shards : t # s => stream'[t] = stream[t]
  <2>1. stream' = [stream EXCEPT ![s] = Append(stream[s], x)] BY <1>2
  <2>2. Append(stream[s], x) \in Seq(ChangeRecords) BY <1>1, <1>4, <1>5
  <2> HIDE DEF x, s
  <2> QED BY <1>1, <1>4, <2>1, <2>2
<1> HIDE DEF s
<1>8. /\ Len(stream'[s]) = n + 1 /\ stream'[s][n + 1] = x
      /\ \A i \in 1..n : stream'[s][i] = stream[s][i]
  <2> HIDE DEF x
  <2> QED BY <1>1, <1>4, <1>5, <1>7
<1>9. \A t \in Shards : /\ Len(stream[t]) \in Nat /\ Len(stream'[t]) <= MaxChanges
                        /\ Len(stream[t]) <= Len(stream'[t])
  <2> SUFFICES ASSUME NEW t \in Shards
               PROVE  /\ Len(stream[t]) \in Nat /\ Len(stream'[t]) <= MaxChanges
                      /\ Len(stream[t]) <= Len(stream'[t])
    OBVIOUS
  <2>1. Len(stream[t]) \in Nat /\ Len(stream[t]) <= MaxChanges BY <1>4
  <2>2. CASE t = s BY <1>6, <1>8, <2>2, PipelineAssumption
  <2>3. CASE t # s BY <1>7, <2>1, <2>3
  <2> QED BY <2>2, <2>3
<1>10. ASSUME NEW t \in Shards, NEW i \in 1..Len(stream'[t])
       PROVE  /\ Shard[stream'[t][i].rec] = t
              /\ stream'[t][i].new \in Images[stream'[t][i].rec] \cup {NoImage}
              /\ stream'[t][i].old \in Images[stream'[t][i].rec] \cup {NoImage}
  <2>1. CASE i \in 1..Len(stream[t]) /\ stream'[t][i] = stream[t][i]
    BY <2>1 DEF ShapeInv, StreamsInv
  <2>2. CASE t = s /\ i = n + 1 BY <2>2, <1>2, <1>4, <1>8, SMTT(30) DEF s
  <2>3. i \in 1..Len(stream[t]) \/ (t = s /\ i = n + 1) BY <1>6, <1>7, <1>8
  <2>4. i \in 1..Len(stream[t]) => stream'[t][i] = stream[t][i] BY <1>7, <1>8
  <2> QED BY <2>1, <2>2, <2>3, <2>4
<1>11. table' \in [Records -> AllImages] /\ \A q \in Records : table'[q] \in Images[q] \cup {NoImage}
  <2>1. new \in AllImages
    <3>1. \A i \in Images[r] \cup {NoImage} : i \in AllImages BY ImagesAreImages
    <3> QED BY <3>1
  <2>2. \A q \in Records : table'[q] = IF q = r THEN new ELSE table[q] BY <1>2, <1>4
  <2>3. \A q \in Records : table[q] \in Images[q] \cup {NoImage} BY DEF ShapeInv, StreamsInv
  <2>4. table' \in [Records -> AllImages] BY <1>2, <1>4, <2>1
  <2>5. new \in Images[r] \cup {NoImage} OBVIOUS
  <2> QED BY <2>2, <2>3, <2>4, <2>5
<1>12. StreamsInv' BY <1>7, <1>9, <1>10, <1>11 DEF StreamsInv
<1>13. QueuesInv'
  <2>1. \A t \in Shards : taken[t] <= Len(stream[t]) /\ taken[t] \in Nat BY DEF ShapeInv, QueuesInv
  <2>2. \A t \in Shards : Len(stream'[t]) \in Nat BY <1>7
  <2>3. \A t \in Shards : taken[t] <= Len(stream'[t]) BY <1>9, <2>1, <2>2
  <2> QED BY <1>3, <2>3 DEF ShapeInv, QueuesInv
<1>14. ASSUME NEW c \in Changes PROVE c \in Changes' /\ ChangeAt(c)' = ChangeAt(c)
  <2>1. /\ c \in ChangeIds /\ c[1] \in Shards /\ c[2] \in 1..Len(stream[c[1]])
    BY ChangeFacts DEF ShapeInv
  <2>2. stream'[c[1]][c[2]] = stream[c[1]][c[2]] /\ Len(stream[c[1]]) <= Len(stream'[c[1]])
    BY <1>7, <1>8, <1>9, <2>1
  <2>3. Len(stream[c[1]]) \in Nat /\ Len(stream'[c[1]]) \in Nat /\ c[2] <= Len(stream'[c[1]])
    BY <1>7, <1>9, <2>1, <2>2
  <2> QED BY <2>1, <2>2, <2>3 DEF Changes, ChangeAt
<1>15. ASSUME NEW c \in Changes', ~(c \in Changes) PROVE c = <<s, n + 1>>
  <2>1. c \in Shards \X (1..MaxChanges) /\ c[2] <= Len(stream'[c[1]]) BY DEF Changes, ChangeIds
  <2>2. c = <<c[1], c[2]>> /\ c[1] \in Shards /\ c[2] \in 1..MaxChanges BY <2>1
  <2>3. ~(c[2] <= Len(stream[c[1]])) BY <1>15, <2>1 DEF Changes, ChangeIds
  <2>4. c[1] = s BY <1>7, <2>1, <2>2, <2>3
  <2>5. c[2] = n + 1 BY <1>6, <1>8, <2>1, <2>2, <2>3, <2>4
  <2> QED BY <2>2, <2>4, <2>5
<1>16. TopicsInv'
  <2>1. \A t \in Shards : taken[t] <= taken'[t] BY <1>3 DEF ShapeInv, QueuesInv
  <2> QED BY <1>3, <1>13, <1>14, <2>1, TopicsStay DEF ShapeInv
<1> QED BY <1>12, <1>13, <1>14, <1>15, <1>16 DEF ShapeInv, s

\* Polling puts the next changes into a batch; nothing else may be sent now.
LEMMA PollShape ==
    ASSUME ShapeInv, NEW s \in Shards, Poll(s)
    PROVE  ShapeInv' /\ \A t \in Shards : Front(t)' = Front(t)
<1>1. PICK hi \in (taken[s] + 1)..Len(stream[s]) :
        /\ batches' = [batches EXCEPT ![s] = <<[lo |-> taken[s] + 1, hi |-> hi, tries |-> 0]>>]
        /\ taken' = [taken EXCEPT ![s] = hi]
  BY DEF Poll
<1>2. batches[s] = <<>> /\ UNCHANGED <<table, stream, raw, canon, passed, dropped>> BY DEF Poll
<1>3. /\ taken \in [Shards -> Nat] /\ batches \in [Shards -> Seq(BatchRecords)]
      /\ stream \in [Shards -> Seq(ChangeRecords)] /\ Len(stream[s]) \in Nat
      /\ \A t \in Shards : taken[t] <= Len(stream[t]) /\ Contiguous(batches[t], taken[t])
  BY DEF ShapeInv, StreamsInv, QueuesInv
<1> DEFINE x == [lo |-> taken[s] + 1, hi |-> hi, tries |-> 0]
<1>4. hi \in Nat /\ taken[s] \in Nat /\ taken[s] + 1 <= hi /\ hi <= Len(stream[s]) BY <1>3
<1>5. x \in BatchRecords BY <1>4, PipelineAssumption DEF BatchRecords
<1>6. x.lo = taken[s] + 1 /\ x.hi = hi OBVIOUS
<1>7. batches' = [batches EXCEPT ![s] = <<x>>] BY <1>1
<1> HIDE DEF x
<1>8. /\ batches' \in [Shards -> Seq(BatchRecords)] /\ batches'[s] = <<x>>
      /\ taken' \in [Shards -> Nat] /\ taken'[s] = hi
      /\ \A t \in Shards : t # s => batches'[t] = batches[t] /\ taken'[t] = taken[t]
  BY <1>1, <1>3, <1>4, <1>5, <1>7
<1>9. /\ <<x>> # <<>> /\ <<x>>[1] = x /\ Len(<<x>>) = 1 /\ DOMAIN <<x>> = {1} OBVIOUS
<1>10. Contiguous(<<x>>, hi) BY <1>4, <1>6, <1>9 DEF Contiguous
<1>11. QueuesInv' BY <1>2, <1>3, <1>4, <1>8, <1>10 DEF QueuesInv
<1>12. ASSUME NEW t \in Shards PROVE taken[t] <= taken'[t]
  <2>1. taken[t] \in Nat BY <1>3
  <2>2. CASE t = s BY <1>4, <1>8, <2>2
  <2>3. CASE t # s BY <1>8, <2>1, <2>3
  <2> QED BY <2>2, <2>3
<1>13. StreamsInv' BY <1>2 DEF ShapeInv, StreamsInv
<1>14. TopicsInv' BY <1>2, <1>11, <1>12, TopicsStay, SameStream DEF ShapeInv
<1>15. \A t \in Shards : Front(t)' = Front(t) BY <1>2, <1>6, <1>8, <1>9 DEF Front, FrontOf
<1> QED BY <1>11, <1>13, <1>14, <1>15 DEF ShapeInv

\* The producer of a shard was given the batch b, and its send reached the
\* partitions ps: what it leaves behind its front was sent or dropped.
Handled(s, b, ps) ==
    /\ b \in BatchRecords /\ b.lo = Front(s) /\ b.lo <= b.hi /\ b.hi <= taken[s]
    /\ Send(ShardDomain(s), Outbox(s, b), ps)
    /\ UNCHANGED <<table, stream, taken, passed>> /\ QueuesInv'
    /\ Front(s) <= Front(s)' /\ Front(s)' <= b.hi + 1
    /\ \A t \in Shards \ {s} : Front(t)' = Front(t)
    /\ dropped \subseteq dropped' /\ dropped' \subseteq Changes
    /\ \A i \in b.lo..b.hi : i < Front(s)' /\ HasEvent(<<s, i>>) =>
        <<s, i>> \in dropped' \/ KeyPartition(<<s, i>>) \in ps

LEMMA QueueOf ==
    ASSUME ShapeInv, NEW s \in Shards, batches[s] # <<>>, NEW b, b = Head(batches[s])
    PROVE  /\ b \in BatchRecords /\ b = batches[s][1] /\ b.lo \in Nat \ {0} /\ b.hi \in Nat
           /\ b.tries \in 0..RetryAttempts /\ taken[s] \in Nat
           /\ b.lo = Front(s) /\ b.lo <= b.hi /\ b.hi <= taken[s]
           /\ batches[s] \in Seq(BatchRecords) /\ Contiguous(batches[s], taken[s])
           /\ Tail(batches[s]) \in Seq(BatchRecords) /\ Contiguous(Tail(batches[s]), taken[s])
           /\ FrontOf(Tail(batches[s]), taken[s]) = b.hi + 1
           /\ \A i \in b.lo..b.hi : <<s, i>> \in Changes
<1>1. batches[s] \in Seq(BatchRecords) /\ taken[s] \in Nat /\ Contiguous(batches[s], taken[s])
  BY DEF ShapeInv, QueuesInv
<1>2. /\ b = batches[s][1] /\ b \in BatchRecords /\ b.lo <= b.hi /\ b.hi <= taken[s]
      /\ Tail(batches[s]) \in Seq(BatchRecords) /\ Contiguous(Tail(batches[s]), taken[s])
      /\ FrontOf(Tail(batches[s]), taken[s]) = b.hi + 1
  BY <1>1, FirstDone
<1>3. b.lo \in Nat \ {0} /\ b.hi \in Nat /\ b.tries \in 0..RetryAttempts BY <1>2 DEF BatchRecords
<1>4. b.lo = Front(s) BY <1>2 DEF Front, FrontOf
<1>5. ASSUME NEW i \in b.lo..b.hi PROVE <<s, i>> \in Changes
  <2>1. taken[s] <= Len(stream[s]) /\ Len(stream[s]) \in Nat BY DEF ShapeInv, QueuesInv, StreamsInv
  <2>2. i \in 1..Len(stream[s]) BY <1>1, <1>2, <1>3, <2>1
  <2> QED BY <2>2, ChangesAre DEF ShapeInv
<1> QED BY <1>1, <1>2, <1>3, <1>4, <1>5

\* The queue of one shard replaced.
LEMMA OneQueue ==
    ASSUME QueuesInv, NEW s \in Shards, NEW q \in Seq(BatchRecords), Contiguous(q, taken[s]),
           batches' = [batches EXCEPT ![s] = q], UNCHANGED <<stream, taken>>
    PROVE  /\ QueuesInv' /\ batches'[s] = q /\ Front(s)' = FrontOf(q, taken[s])
           /\ \A t \in Shards \ {s} : Front(t)' = Front(t)
<1>1. /\ batches' \in [Shards -> Seq(BatchRecords)] /\ batches'[s] = q
      /\ \A t \in Shards : t # s => batches'[t] = batches[t]
  BY DEF QueuesInv
<1>2. QueuesInv'
  <2>1. \A t \in Shards : taken[t] <= Len(stream[t]) /\ Contiguous(batches[t], taken[t])
    BY DEF QueuesInv
  <2>2. \A t \in Shards : Contiguous(batches'[t], taken[t]) BY <1>1, <2>1
  <2> QED BY <1>1, <2>1, <2>2 DEF QueuesInv
<1> QED BY <1>1, <1>2 DEF Front

LEMMA ProduceHandles ==
    ASSUME ShapeInv, NEW s \in Shards, Produce(s)
    PROVE  \E b, ps : Handled(s, b, ps)
<1> DEFINE b == Head(batches[s])
<1>1. /\ batches[s] # <<>> /\ Send(ShardDomain(s), Outbox(s, b), Partitions)
      /\ batches' = [batches EXCEPT ![s] = Tail(batches[s])]
      /\ UNCHANGED <<table, stream, taken, passed, dropped>>
  BY DEF Produce
<1> HIDE DEF b
<1>2. /\ b \in BatchRecords /\ b.lo \in Nat \ {0} /\ b.hi \in Nat /\ taken[s] \in Nat
      /\ b.lo = Front(s) /\ b.lo <= b.hi /\ b.hi <= taken[s]
      /\ Tail(batches[s]) \in Seq(BatchRecords) /\ Contiguous(Tail(batches[s]), taken[s])
      /\ FrontOf(Tail(batches[s]), taken[s]) = b.hi + 1
      /\ \A i \in b.lo..b.hi : <<s, i>> \in Changes
  BY <1>1, QueueOf DEF b
<1>3. /\ QueuesInv' /\ Front(s)' = b.hi + 1 /\ \A t \in Shards \ {s} : Front(t)' = Front(t)
  BY <1>1, <1>2, OneQueue DEF ShapeInv
<1>4. Front(s) <= Front(s)' /\ Front(s)' <= b.hi + 1 BY <1>2, <1>3
<1>5. \A i \in b.lo..b.hi : HasEvent(<<s, i>>) => KeyPartition(<<s, i>>) \in Partitions
  BY <1>2, EventFacts DEF ShapeInv
<1>6. dropped \subseteq Changes /\ dropped' = dropped BY <1>1 DEF ShapeInv, TopicsInv
<1>7. Handled(s, b, Partitions) BY <1>1, <1>2, <1>3, <1>4, <1>5, <1>6 DEF Handled
<1> QED BY <1>7

\* A failed batch stays the range it was, until its one change is dropped.
LEMMA FailureFacts ==
    ASSUME NEW b \in BatchRecords, b.lo <= b.hi
    PROVE  \/ /\ AfterFailure(b) \in Seq(BatchRecords) /\ AfterFailure(b) # <<>>
              /\ Contiguous(AfterFailure(b), b.hi) /\ AfterFailure(b)[1].lo = b.lo
              /\ ~Exhausted(b)
           \/ AfterFailure(b) = <<>> /\ Exhausted(b) /\ b.lo = b.hi
<1>1. b.lo \in Nat \ {0} /\ b.hi \in Nat /\ b.tries \in 0..RetryAttempts
      /\ b = [lo |-> b.lo, hi |-> b.hi, tries |-> b.tries]
  BY DEF BatchRecords
<1>2. CASE b.lo < b.hi
  <2> DEFINE mid == (b.lo + b.hi) \div 2
             x == [lo |-> b.lo, hi |-> mid, tries |-> b.tries]
             y == [lo |-> mid + 1, hi |-> b.hi, tries |-> b.tries]
  <2>1. mid \in Nat /\ b.lo <= mid /\ mid < b.hi BY <1>1, <1>2, Z3
  <2>2. AfterFailure(b) = <<[b EXCEPT !.hi = mid], [b EXCEPT !.lo = mid + 1]>>
    <3>1. ~(b.lo = b.hi) BY <1>1, <1>2
    <3> QED BY <1>2, <3>1 DEF AfterFailure
  <2> HIDE DEF mid
  <2>3. [b EXCEPT !.hi = mid] = x /\ [b EXCEPT !.lo = mid + 1] = y BY <1>1
  <2>4. AfterFailure(b) = <<x, y>> BY <2>2, <2>3
  <2>5. x \in BatchRecords /\ y \in BatchRecords BY <1>1, <2>1 DEF BatchRecords
  <2>6. x.lo = b.lo /\ x.hi = mid /\ y.lo = mid + 1 /\ y.hi = b.hi OBVIOUS
  <2> HIDE DEF x, y
  <2>7. /\ <<x, y>> \in Seq(BatchRecords) /\ <<x, y>> # <<>> /\ Len(<<x, y>>) = 2
        /\ <<x, y>>[1] = x /\ <<x, y>>[2] = y /\ DOMAIN <<x, y>> = {1, 2}
    BY <2>5
  <2>8. Contiguous(<<x, y>>, b.hi) BY <1>1, <2>1, <2>6, <2>7 DEF Contiguous
  <2>9. ~Exhausted(b) BY <1>1, <1>2 DEF Exhausted
  <2> QED BY <2>4, <2>6, <2>7, <2>8, <2>9
<1>3. CASE b.tries < RetryAttempts /\ b.lo = b.hi
  <2> DEFINE x == [lo |-> b.lo, hi |-> b.hi, tries |-> b.tries + 1]
  <2>1. ~(b.lo < b.hi) BY <1>1, <1>3
  <2>2. AfterFailure(b) = <<[b EXCEPT !.tries = b.tries + 1]>> BY <1>3, <2>1 DEF AfterFailure
  <2>3. [b EXCEPT !.tries = b.tries + 1] = x BY <1>1
  <2>4. AfterFailure(b) = <<x>> BY <2>2, <2>3
  <2>5. x \in BatchRecords BY <1>1, <1>3, PipelineAssumption DEF BatchRecords
  <2>6. x.lo = b.lo /\ x.hi = b.hi OBVIOUS
  <2> HIDE DEF x
  <2>7. /\ <<x>> \in Seq(BatchRecords) /\ <<x>> # <<>> /\ Len(<<x>>) = 1
        /\ <<x>>[1] = x /\ DOMAIN <<x>> = {1}
    BY <2>5
  <2>8. Contiguous(<<x>>, b.hi) BY <1>1, <1>3, <2>6, <2>7 DEF Contiguous
  <2>9. ~Exhausted(b) BY <1>1, <1>3, PipelineAssumption DEF Exhausted
  <2> QED BY <2>4, <2>6, <2>7, <2>8, <2>9
<1>4. CASE b.tries = RetryAttempts /\ b.lo = b.hi
  <2>1. ~(b.lo < b.hi) /\ ~(b.tries < RetryAttempts) BY <1>1, <1>4, PipelineAssumption
  <2> QED BY <1>4, <2>1 DEF AfterFailure, Exhausted
<1> QED BY <1>1, <1>2, <1>3, <1>4, PipelineAssumption

LEMMA FailureHandles ==
    ASSUME ShapeInv, NEW s \in Shards, ProduceFails(s)
    PROVE  \E b, ps : Handled(s, b, ps)
<1> DEFINE b == Head(batches[s])
<1>1. PICK ps :
        /\ batches[s] # <<>> /\ Send(ShardDomain(s), Outbox(s, b), ps)
        /\ batches' = [batches EXCEPT ![s] = AfterFailure(b) \o Tail(batches[s])]
        /\ dropped' = IF Exhausted(b) THEN dropped \cup {<<s, b.lo>>} ELSE dropped
        /\ UNCHANGED <<table, stream, taken, passed>>
  BY DEF ProduceFails
<1> HIDE DEF b
<1>2. /\ b \in BatchRecords /\ b.lo \in Nat \ {0} /\ b.hi \in Nat /\ taken[s] \in Nat
      /\ b = batches[s][1] /\ b.lo = Front(s) /\ b.lo <= b.hi /\ b.hi <= taken[s]
      /\ batches[s] \in Seq(BatchRecords) /\ Contiguous(batches[s], taken[s])
      /\ Tail(batches[s]) \in Seq(BatchRecords) /\ Contiguous(Tail(batches[s]), taken[s])
      /\ FrontOf(Tail(batches[s]), taken[s]) = b.hi + 1
      /\ \A i \in b.lo..b.hi : <<s, i>> \in Changes
  BY <1>1, QueueOf DEF b
<1>3. dropped \subseteq Changes BY DEF ShapeInv, TopicsInv
<1> DEFINE f == AfterFailure(b)
           q == f \o Tail(batches[s])
<1>4. batches' = [batches EXCEPT ![s] = q] BY <1>1
<1>5. CASE /\ f \in Seq(BatchRecords) /\ f # <<>> /\ Contiguous(f, b.hi) /\ f[1].lo = b.lo
           /\ ~Exhausted(b)
  <2> HIDE DEF f
  <2>1. q \in Seq(BatchRecords) /\ Contiguous(q, taken[s]) /\ FrontOf(q, taken[s]) = b.lo
    BY <1>1, <1>2, <1>5, FirstReplaced
  <2> HIDE DEF q
  <2>2. QueuesInv' /\ Front(s)' = b.lo /\ \A t \in Shards \ {s} : Front(t)' = Front(t)
    BY <1>1, <1>4, <2>1, OneQueue DEF ShapeInv
  <2>3. dropped' = dropped BY <1>1, <1>5
  <2>4. Front(s) <= Front(s)' /\ Front(s)' <= b.hi + 1 BY <1>2, <2>2
  <2>5. \A i \in b.lo..b.hi : ~(i < Front(s)') BY <1>2, <2>2
  <2>6. Handled(s, b, ps) BY <1>1, <1>2, <1>3, <2>2, <2>3, <2>4, <2>5 DEF Handled
  <2> QED BY <2>6
<1>6. CASE f = <<>> /\ Exhausted(b) /\ b.lo = b.hi
  <2>1. q = Tail(batches[s]) BY <1>2, <1>6
  <2> HIDE DEF q, f
  <2>2. QueuesInv' /\ Front(s)' = b.hi + 1 /\ \A t \in Shards \ {s} : Front(t)' = Front(t)
    BY <1>1, <1>2, <1>4, <2>1, OneQueue DEF ShapeInv
  <2>3. dropped' = dropped \cup {<<s, b.lo>>} BY <1>1, <1>6
  <2>4. b.lo \in b.lo..b.hi /\ \A i \in b.lo..b.hi : i = b.lo BY <1>2, <1>6
  <2>5. dropped \subseteq dropped' /\ dropped' \subseteq Changes BY <1>2, <1>3, <2>3, <2>4
  <2>6. \A i \in b.lo..b.hi : <<s, i>> \in dropped' BY <2>3, <2>4
  <2>7. Front(s) <= Front(s)' /\ Front(s)' <= b.hi + 1 BY <1>2, <2>2
  <2>8. Handled(s, b, ps) BY <1>1, <1>2, <2>2, <2>5, <2>6, <2>7 DEF Handled
  <2> QED BY <2>8
<1> QED BY <1>2, <1>5, <1>6, FailureFacts

\* What the producers send is genuine.
LEMMA HandledShape ==
    ASSUME ShapeInv, NEW s \in Shards, NEW b, NEW ps, Handled(s, b, ps)
    PROVE  ShapeInv'
<1> DEFINE d == ShardDomain(s)
           out == Outbox(s, b)
<1>1. /\ b \in BatchRecords /\ b.hi <= taken[s] /\ Send(d, out, ps)
      /\ UNCHANGED <<table, stream, taken, passed>> /\ QueuesInv' /\ dropped' \subseteq Changes
  BY DEF Handled
<1>2. /\ raw' \in [Domains -> [Partitions -> Seq(Messages)]]
      /\ canon' \in [Domains -> [Partitions -> Seq(Messages)]]
      /\ \A e \in Domains, p \in Partitions :
           /\ ProducerTopic(e)'[p] = ProducerTopic(e)[p] \o Added(d, out, ps, e, p)
           /\ Legacy(e) => canon'[e] = canon[e]
           /\ ~Legacy(e) => raw'[e] = raw[e]
  BY <1>1, SendFacts
<1>3. Changes' = Changes /\ \A c : ChangeAt(c)' = ChangeAt(c) BY <1>1, SameStream
<1>4. \A m, e, p : Genuine(m, e, p) => Genuine(m, e, p)'
  <2>1. \A t \in Shards : taken[t] <= taken'[t] BY <1>1 DEF ShapeInv, QueuesInv
  <2>2. QueuesInv BY DEF ShapeInv
  <2> QED BY <1>1, <1>3, <2>1, <2>2, GenuineStays
<1>5. ASSUME NEW e \in Domains, NEW p \in Partitions
      PROVE  /\ (\A i \in DOMAIN ProducerTopic(e)[p] : Genuine(ProducerTopic(e)[p][i], e, p))'
             /\ Len(ProducerTopic(e)[p]) <= Len(ProducerTopic(e)'[p])
             /\ Len(ProducerTopic(e)[p]) \in Nat /\ Len(ProducerTopic(e)'[p]) \in Nat
  <2> DEFINE L == ProducerTopic(e)[p]
             K == Added(d, out, ps, e, p)
             G == {m \in Messages : Genuine(m, e, p)}
  <2>1. L \in Seq(Messages) /\ \A i \in DOMAIN L : Genuine(L[i], e, p)
    BY DEF ProducerTopic, ShapeInv, TopicsInv, TopicInv
  <2>2. K \in Seq(Messages) /\ \A n \in DOMAIN K : Genuine(K[n], e, p)
    <3>1. CASE e = d /\ p \in ps
      <4>1. K = Keyed(Outbox(s, b), p) BY <3>1 DEF Added
      <4>2. Keyed(Outbox(s, b), p) \in Seq(Messages)
            /\ \A n \in DOMAIN Keyed(Outbox(s, b), p) : Genuine(Keyed(Outbox(s, b), p)[n], ShardDomain(s), p)
        BY <1>1, OutboxKeyed
      <4> QED BY <3>1, <4>1, <4>2
    <3>2. CASE ~(e = d /\ p \in ps)
      <4>1. K = <<>> BY <3>2 DEF Added
      <4> HIDE DEF K
      <4> QED BY <4>1
    <3> QED BY <3>1, <3>2
  <2> HIDE DEF L, K, d, out
  <2>3. \A m : m \in G <=> Genuine(m, e, p) BY DEF Genuine
  <2> HIDE DEF G
  <2>4. \A i \in DOMAIN (L \o K) : (L \o K)[i] \in G BY <2>1, <2>2, <2>3, AllAppended
  <2>5. ProducerTopic(e)'[p] = L \o K BY <1>2 DEF L, K
  <2>6. Len(L \o K) = Len(L) + Len(K) /\ Len(L) \in Nat /\ Len(K) \in Nat BY <2>1, <2>2, ConcatProperties
  <2>7. ProducerTopic(e)[p] = L BY DEF L
  <2> QED BY <1>4, <2>3, <2>4, <2>5, <2>6, <2>7
<1> HIDE DEF d, out
<1>6. ASSUME NEW e \in Domains, NEW p \in Partitions
      PROVE  /\ (\A i \in DOMAIN raw[e][p] : Genuine(raw[e][p][i], e, p))'
             /\ (\A i \in DOMAIN canon[e][p] : Genuine(canon[e][p][i], e, p))'
             /\ ~Legacy(e) => raw'[e][p] = <<>>
             /\ passed[e][p] <= Len(raw'[e][p])
  <2>0. /\ \A i \in DOMAIN raw[e][p] : Genuine(raw[e][p][i], e, p)
        /\ \A i \in DOMAIN canon[e][p] : Genuine(canon[e][p][i], e, p)
        /\ ~Legacy(e) => raw[e][p] = <<>>
        /\ passed[e][p] <= Len(raw[e][p]) /\ passed[e][p] \in Nat
    BY DEF ShapeInv, TopicsInv, TopicInv
  <2>1. CASE Legacy(e)
    <3>1. ProducerTopic(e)[p] = raw[e][p] /\ ProducerTopic(e)'[p] = raw'[e][p] /\ canon'[e] = canon[e]
      BY <1>2, <2>1 DEF ProducerTopic
    <3>2. Len(raw[e][p]) <= Len(raw'[e][p]) /\ Len(raw[e][p]) \in Nat /\ Len(raw'[e][p]) \in Nat
      BY <1>5, <3>1
    <3>3. (\A i \in DOMAIN raw[e][p] : Genuine(raw[e][p][i], e, p))' BY <1>5, <3>1
    <3>4. passed[e][p] <= Len(raw'[e][p]) BY <2>0, <3>2
    <3>5. (\A i \in DOMAIN canon[e][p] : Genuine(canon[e][p][i], e, p))' BY <1>4, <2>0, <3>1
    <3> QED BY <2>1, <3>3, <3>4, <3>5
  <2>2. CASE ~Legacy(e)
    <3>1. ProducerTopic(e)'[p] = canon'[e][p] /\ raw'[e] = raw[e]
      BY <1>2, <2>2 DEF ProducerTopic
    <3>2. (\A i \in DOMAIN canon[e][p] : Genuine(canon[e][p][i], e, p))' BY <1>5, <3>1
    <3>3. (\A i \in DOMAIN raw[e][p] : Genuine(raw[e][p][i], e, p))' BY <1>4, <2>0, <3>1
    <3> QED BY <2>0, <2>2, <3>1, <3>2, <3>3
  <2> QED BY <2>1, <2>2
<1>7. TopicInv(raw)' BY <1>2, <1>6 DEF TopicInv
<1>8. TopicInv(canon)' BY <1>2, <1>6 DEF TopicInv
<1>9. TopicsInv'
  <2>1. passed \in [Domains -> [Partitions -> Nat]] BY DEF ShapeInv, TopicsInv
  <2> QED BY <1>1, <1>3, <1>6, <1>7, <1>8, <2>1 DEF TopicsInv
<1>10. StreamsInv' BY <1>1 DEF ShapeInv, StreamsInv
<1> QED BY <1>1, <1>9, <1>10 DEF ShapeInv

-----------------------------------------------------------------------------
(* The order of the events: the producers *)

\* What is appended to a log: the changes of the batch whose events go there,
\* in order.
LEMMA AddedHas ==
    ASSUME ShapeInv, NEW s \in Shards, NEW b, NEW ps, Handled(s, b, ps),
           NEW e \in Domains, NEW p \in Partitions,
           NEW K, K = Added(ShardDomain(s), Outbox(s, b), ps, e, p)
    PROVE  /\ K \in Seq(Messages)
           /\ \A c \in Changes : In(K, c) <=>
                e = ShardDomain(s) /\ p \in ps /\ c[1] = s /\ c[2] \in Sendable(s, b, p)
           /\ \A c, f \in Changes : \A m, n \in DOMAIN K :
                K[m].id[1] = c /\ K[n].id[1] = f /\ c[2] < f[2] => m < n
<1>1. b \in BatchRecords /\ b.hi <= taken[s] BY DEF Handled
<1>2. CASE e = ShardDomain(s) /\ p \in ps
  <2>1. K = Keyed(Outbox(s, b), p) BY <1>2 DEF Added
  <2>2. /\ K \in Seq(Messages)
        /\ \E k : /\ Lists(k, Len(K), Sendable(s, b, p))
                  /\ \A n \in DOMAIN K : K[n].id[1] = <<s, k[n]>>
    BY <1>1, <2>1, OutboxKeyed
  <2>3. PICK k : /\ Lists(k, Len(K), Sendable(s, b, p))
                 /\ \A n \in DOMAIN K : K[n].id[1] = <<s, k[n]>>
    BY <2>2
  <2>4. DOMAIN K = 1..Len(K) BY <2>2
  <2>5. \A c \in Changes : c = <<c[1], c[2]>> BY DEF Changes, ChangeIds
  <2>6. ASSUME NEW c \in Changes PROVE In(K, c) <=> c[1] = s /\ c[2] \in Sendable(s, b, p)
    <3>1. ASSUME In(K, c) PROVE c[1] = s /\ c[2] \in Sendable(s, b, p)
      <4>1. PICK n \in DOMAIN K : K[n].id[1] = c BY <3>1 DEF In
      <4>2. c = <<s, k[n]>> /\ k[n] \in Sendable(s, b, p) BY <2>3, <2>4, <4>1 DEF Lists
      <4> QED BY <4>2
    <3>2. ASSUME c[1] = s, c[2] \in Sendable(s, b, p) PROVE In(K, c)
      <4>1. PICK n \in 1..Len(K) : k[n] = c[2] BY <2>3, <3>2 DEF Lists
      <4>2. K[n].id[1] = c BY <2>3, <2>4, <2>5, <3>2, <4>1
      <4> QED BY <2>4, <4>2 DEF In
    <3> QED BY <3>1, <3>2
  <2>7. ASSUME NEW c \in Changes, NEW f \in Changes, NEW m \in DOMAIN K, NEW n \in DOMAIN K,
               K[m].id[1] = c, K[n].id[1] = f, c[2] < f[2]
        PROVE  m < n
    <3>1. c = <<s, k[m]>> /\ f = <<s, k[n]>> BY <2>3, <2>7
    <3>2. k[m] < k[n] BY <2>7, <3>1
    <3> QED BY <2>3, <2>4, <3>2 DEF Lists
  <2> QED BY <1>2, <2>2, <2>6, <2>7
<1>3. CASE ~(e = ShardDomain(s) /\ p \in ps)
  <2>1. K = <<>> BY <1>3 DEF Added
  <2>2. DOMAIN K = {} /\ K \in Seq(Messages) BY <2>1
  <2> QED BY <1>3, <2>2 DEF In
<1> QED BY <1>2, <1>3

\* Which changes the step leaves behind.
LEMMA HandledMoves ==
    ASSUME ShapeInv, NEW s \in Shards, NEW b, NEW ps, Handled(s, b, ps), NEW c \in Changes
    PROVE  /\ Behind(c) => Behind(c)'
           /\ ~Behind(c) /\ Behind(c)' =>
                /\ c[1] = s /\ c[2] \in b.lo..b.hi
                /\ HasEvent(c) => c \in dropped' \/ KeyPartition(c) \in ps
           /\ c[1] = s => /\ Behind(c) <=> c[2] < b.lo
                          /\ Behind(c)' => c[2] <= b.hi
                          /\ b.lo \in Nat /\ b.hi \in Nat /\ c[2] \in Nat
<1>1. c[1] \in Shards /\ c[2] \in Nat /\ c = <<c[1], c[2]>> BY ChangeFacts DEF ShapeInv
<1>2. /\ b.lo = Front(s) /\ b.lo \in Nat /\ b.hi \in Nat
      /\ Front(s) <= Front(s)' /\ Front(s)' <= b.hi + 1
      /\ \A t \in Shards \ {s} : Front(t)' = Front(t)
      /\ \A i \in b.lo..b.hi : i < Front(s)' /\ HasEvent(<<s, i>>) =>
          <<s, i>> \in dropped' \/ KeyPartition(<<s, i>>) \in ps
  BY DEF Handled, BatchRecords
<1>3. Front(s)' \in Int
  <2>1. QueuesInv' BY DEF Handled
  <2>2. batches'[s] \in Seq(BatchRecords) /\ taken'[s] \in Nat BY <2>1 DEF QueuesInv
  <2>3. ASSUME batches'[s] # <<>> PROVE batches'[s][1].lo \in Nat
    <3>1. 1 \in DOMAIN batches'[s] BY <2>2, <2>3
    <3>2. batches'[s][1] \in BatchRecords BY <2>2, <3>1
    <3> QED BY <3>2 DEF BatchRecords
  <2> QED BY <2>2, <2>3 DEF Front, FrontOf
<1>4. (Behind(c) <=> c[2] < Front(c[1])) /\ (Behind(c)' <=> c[2] < Front(c[1])') BY DEF Behind
<1>5. CASE c[1] = s
  <2>1. (Behind(c) <=> c[2] < b.lo) /\ (Behind(c)' <=> c[2] < Front(s)') BY <1>2, <1>4, <1>5
  <2>2. Behind(c)' => c[2] <= b.hi BY <1>1, <1>2, <1>3, <2>1
  <2>3. Behind(c) => Behind(c)' BY <1>1, <1>2, <1>3, <2>1
  <2>4. ASSUME ~Behind(c), Behind(c)'
        PROVE  /\ c[2] \in b.lo..b.hi
               /\ HasEvent(c) => c \in dropped' \/ KeyPartition(c) \in ps
    <3>1. c[2] \in b.lo..b.hi /\ c[2] < Front(s)' BY <1>1, <1>2, <2>1, <2>2, <2>4
    <3>2. c = <<s, c[2]>> BY <1>1, <1>5
    <3> QED BY <1>2, <3>1, <3>2
  <2> QED BY <1>1, <1>2, <1>5, <2>1, <2>2, <2>3, <2>4
<1>6. CASE c[1] # s
  <2>1. Front(c[1])' = Front(c[1]) BY <1>1, <1>2, <1>6
  <2> QED BY <1>4, <1>6, <2>1
<1> QED BY <1>5, <1>6

LEMMA HandledInOrder ==
    ASSUME ShapeInv, NEW s \in Shards, NEW b, NEW ps, Handled(s, b, ps),
           NEW e \in Domains, NEW p \in Partitions, NEW f \in Changes, NEW c \in Changes,
           Follows(c, f), NEW K, K = Added(ShardDomain(s), Outbox(s, b), ps, e, p)
    PROVE  InOrder(ProducerTopic(e)[p], K, Silent, Silent', Content, Content', f, c)
<1>1. /\ \A g \in Changes : In(K, g) <=>
            e = ShardDomain(s) /\ p \in ps /\ g[1] = s /\ g[2] \in Sendable(s, b, p)
      /\ \A g, h \in Changes : \A m, n \in DOMAIN K :
            K[m].id[1] = g /\ K[n].id[1] = h /\ g[2] < h[2] => m < n
  BY AddedHas
<1>2. \A g \in Changes :
        /\ g = <<g[1], g[2]>> /\ DomainOf(g) = ShardDomain(g[1])
        /\ Behind(g) => Behind(g)'
        /\ ~Behind(g) /\ Behind(g)' =>
             /\ g[1] = s /\ g[2] \in b.lo..b.hi
             /\ HasEvent(g) => g \in dropped' \/ KeyPartition(g) \in ps
        /\ g[1] = s => /\ Behind(g) <=> g[2] < b.lo
                       /\ Behind(g)' => g[2] <= b.hi
                       /\ b.lo \in Nat /\ b.hi \in Nat /\ g[2] \in Nat
  BY HandledMoves, ChangeFacts DEF ShapeInv
<1>3. Changes' = Changes /\ \A g : HasEvent(g)' <=> HasEvent(g)
  BY SameStream, SameChange DEF Handled
<1>4. dropped \subseteq dropped' BY DEF Handled
<1>5. \A g \in Changes : /\ g \in Silent <=> Behind(g) \/ ~HasEvent(g)
                         /\ g \in Silent' <=> Behind(g)' \/ ~HasEvent(g)
                         /\ g \in Content <=> ~Behind(g) \/ g \in dropped \/ ~HasEvent(g)
                         /\ g \in Content' <=> ~Behind(g)' \/ g \in dropped' \/ ~HasEvent(g)
  BY <1>3 DEF Silent, Content
<1>6. f[1] = c[1] /\ f[2] < c[2] /\ ChangeAt(f).rec = ChangeAt(c).rec BY DEF Follows
<1>7. \A g \in Changes : g[1] = s /\ g[2] \in Sendable(s, b, p) <=>
        g[1] = s /\ g[2] \in b.lo..b.hi /\ HasEvent(g) /\ KeyPartition(g) = p
  BY <1>2 DEF Sendable
<1>8. HasEvent(f) /\ HasEvent(c) => KeyPartition(f) = KeyPartition(c) /\ DomainOf(f) = DomainOf(c)
  BY <1>6, SamePartition DEF ShapeInv
<1>9. ASSUME Places(ProducerTopic(e)[p], f) # {}
      PROVE  HasEvent(f) /\ KeyPartition(f) = p /\ DomainOf(f) = e
  <2>1. PICK i \in DOMAIN ProducerTopic(e)[p] : ProducerTopic(e)[p][i].id[1] = f
    BY <1>9 DEF Places
  <2>2. Genuine(ProducerTopic(e)[p][i], e, p)
    BY <2>1 DEF ProducerTopic, ShapeInv, TopicsInv, TopicInv
  <2> QED BY <2>1, <2>2 DEF Genuine
<1>10. f \in Silent => ~In(K, f) /\ f \in Silent'
  <2>1. In(K, f) => HasEvent(f) /\ ~Behind(f) BY <1>1, <1>2, <1>7
  <2> QED BY <1>2, <1>5, <2>1
<1>11. In(K, c) => In(K, f) \/ f \in Silent'
  <2> SUFFICES ASSUME In(K, c), HasEvent(f), ~Behind(f) PROVE In(K, f) BY <1>2, <1>5
  <2>1. e = ShardDomain(s) /\ p \in ps /\ c[1] = s /\ c[2] \in b.lo..b.hi
        /\ HasEvent(c) /\ KeyPartition(c) = p
    BY <1>1, <1>7
  <2>2. f[2] \in b.lo..b.hi BY <1>2, <1>6, <2>1
  <2> QED BY <1>1, <1>6, <1>7, <1>8, <2>1, <2>2
<1>12. c \in Content /\ Places(ProducerTopic(e)[p], f) # {} => c \in Content' \/ In(K, c)
  <2> SUFFICES ASSUME c \in Content, Places(ProducerTopic(e)[p], f) # {}, c \notin Content'
               PROVE  In(K, c)
    OBVIOUS
  <2>1. ~Behind(c) /\ Behind(c)' /\ HasEvent(c) /\ c \notin dropped' BY <1>4, <1>5
  <2>2. c[1] = s /\ c[2] \in b.lo..b.hi /\ KeyPartition(c) \in ps BY <1>2, <2>1
  <2>3. KeyPartition(c) = p /\ DomainOf(c) = e BY <1>8, <1>9, <2>1
  <2>4. e = ShardDomain(s) BY <1>2, <2>2, <2>3
  <2> QED BY <1>1, <1>7, <2>1, <2>2, <2>3, <2>4
<1>13. In(K, f) => In(K, c) \/ c \in Content'
  <2> SUFFICES ASSUME In(K, f), HasEvent(c), Behind(c)' PROVE In(K, c) BY <1>5
  <2>1. e = ShardDomain(s) /\ p \in ps /\ f[1] = s /\ f[2] \in b.lo..b.hi
        /\ HasEvent(f) /\ KeyPartition(f) = p
    BY <1>1, <1>7
  <2>2. c[2] \in b.lo..b.hi
    <3>1. c[1] = s /\ c[2] \in Nat /\ c[2] <= b.hi /\ b.lo \in Nat /\ b.hi \in Nat
      BY <1>2, <1>6, <2>1
    <3> QED BY <1>6, <2>1, <3>1
  <2> QED BY <1>1, <1>6, <1>7, <1>8, <2>1, <2>2
<1>14. \A m, n \in DOMAIN K : (K[m].id[1] = f /\ K[n].id[1] = c) => m < n BY <1>1, <1>6
<1> QED BY <1>10, <1>11, <1>12, <1>13, <1>14 DEF InOrder

LEMMA HandledOrder ==
    ASSUME ShapeInv, ProducedInv, NormalizedInv, NEW s \in Shards, NEW b, NEW ps, Handled(s, b, ps)
    PROVE  ProducedInv' /\ NormalizedInv'
<1> DEFINE d == ShardDomain(s)
           out == Outbox(s, b)
<1>1. /\ b \in BatchRecords /\ b.hi <= taken[s] /\ Send(d, out, ps)
      /\ UNCHANGED <<table, stream, taken, passed>> /\ dropped \subseteq dropped'
  BY DEF Handled
<1>2. /\ \A e \in Domains, p \in Partitions :
           /\ ProducerTopic(e)'[p] = ProducerTopic(e)[p] \o Added(d, out, ps, e, p)
           /\ Legacy(e) => canon'[e] = canon[e]
  BY <1>1, SendFacts
<1>3. Changes' = Changes /\ \A c : ChangeAt(c)' = ChangeAt(c) BY <1>1, SameStream
<1>4. \A c : /\ HasEvent(c)' <=> HasEvent(c)
             /\ DomainOf(c)' = DomainOf(c) /\ KeyPartition(c)' = KeyPartition(c)
  BY <1>3, SameChange
<1>5. \A c, f : Follows(c, f)' <=> Follows(c, f) BY <1>3 DEF Follows
<1> HIDE DEF d, out
<1>6. \A e \in Domains, p \in Partitions :
        ProducerTopic(e)[p] \in Seq(Messages) /\ Added(d, out, ps, e, p) \in Seq(Messages)
  BY AddedHas DEF ProducerTopic, ShapeInv, TopicsInv, TopicInv, d, out
<1>7. \A e \in Domains, p \in Partitions : \A f, c \in Changes : Follows(c, f) =>
        InOrder(ProducerTopic(e)[p], Added(d, out, ps, e, p), Silent, Silent', Content, Content', f, c)
  BY HandledInOrder DEF d, out
<1>8. ASSUME NEW c \in Changes PROVE SentOrContent(c)'
  <2> SUFFICES ASSUME HasEvent(c), Behind(c)', c \notin dropped'
               PROVE  Places(ProducerTopic(DomainOf(c))'[KeyPartition(c)], c) # {}
    <3>1. c \in Content' <=> ~Behind(c)' \/ c \in dropped' \/ ~HasEvent(c)
      BY <1>3, <1>4 DEF Content
    <3>2. DomainOf(c)' = DomainOf(c) /\ KeyPartition(c)' = KeyPartition(c) BY <1>4
    <3>3. ProducerTopic(DomainOf(c))' = IF Legacy(DomainOf(c)) THEN raw'[DomainOf(c)] ELSE canon'[DomainOf(c)]
      BY <3>2 DEF ProducerTopic
    <3> QED BY <3>1, <3>2, <3>3 DEF SentOrContent, ProducerTopic
  <2>0. PICK e, p : e = DomainOf(c) /\ p = KeyPartition(c) OBVIOUS
  <2> DEFINE L == ProducerTopic(e)[p]
             K == Added(d, out, ps, e, p)
  <2>1. e \in Domains /\ p \in Partitions /\ c[1] \in Shards /\ e = ShardDomain(c[1])
    BY <2>0, ChangeFacts, EventFacts DEF ShapeInv
  <2>2. Places(L, c) # {} \/ In(K, c)
    <3>1. CASE c \in Content
      <4>1. ~Behind(c) BY <1>1, <3>1 DEF Content
      <4>2. c[1] = s /\ c[2] \in b.lo..b.hi /\ p \in ps BY <2>0, <4>1, HandledMoves
      <4>3. c[2] \in Sendable(s, b, p)
        <5>1. c = <<s, c[2]>> BY <4>2, ChangeFacts DEF ShapeInv
        <5> QED BY <2>0, <4>2, <5>1 DEF Sendable
      <4>4. e = ShardDomain(s) BY <2>1, <4>2
      <4> QED BY <2>1, <4>2, <4>3, <4>4, AddedHas DEF d, out
    <3>2. CASE c \notin Content BY <2>0, <3>2 DEF ProducedInv, SentOrContent
    <3> QED BY <3>1, <3>2
  <2>3. L \in Seq(Messages) /\ K \in Seq(Messages) BY <1>6, <2>1
  <2>4. ProducerTopic(e)'[p] = L \o K BY <1>2, <2>1
  <2> HIDE DEF L, K
  <2>5. Places(L \o K, c) # {} BY <2>2, <2>3, AppendPlaces DEF In
  <2>6. ProducerTopic(DomainOf(c))'[KeyPartition(c)] = L \o K BY <1>4, <2>0, <2>4 DEF ProducerTopic
  <2> QED BY <2>5, <2>6
<1>9. ASSUME NEW e \in Domains, NEW p \in Partitions, NEW f \in Changes, NEW c \in Changes, Follows(c, f)
      PROVE  /\ AfterEarlier(ProducerTopic(e)'[p], Silent', f, c)
             /\ BeforeLater(ProducerTopic(e)'[p], Content', f, c)
  <2> DEFINE L == ProducerTopic(e)[p]
             K == Added(d, out, ps, e, p)
  <2>1. AfterEarlier(L, Silent, f, c) /\ BeforeLater(L, Content, f, c) BY <1>9 DEF ProducedInv
  <2>2. L \in Seq(Messages) /\ K \in Seq(Messages) BY <1>6
  <2>3. InOrder(L, K, Silent, Silent', Content, Content', f, c) BY <1>7, <1>9
  <2>4. ProducerTopic(e)'[p] = L \o K BY <1>2
  <2> HIDE DEF L, K
  <2>5. AfterEarlier(L \o K, Silent', f, c) /\ BeforeLater(L \o K, Content', f, c)
    BY <2>1, <2>2, <2>3, OrderKept
  <2> QED BY <2>4, <2>5
<1>10. ProducedInv' BY <1>3, <1>5, <1>8, <1>9 DEF ProducedInv
<1>11. ASSUME NEW e \in Domains, NEW p \in Partitions, Legacy(e)
       PROVE  /\ Replayed(raw[e][p], canon[e][p], passed[e][p])'
              /\ \A f, c \in Changes : Follows(c, f) =>
                  /\ ReplayAfter(raw'[e][p], canon'[e][p], Silent', f, c)
                  /\ ReplayBefore(raw'[e][p], canon'[e][p], passed'[e][p], Content', f, c)
  <2> DEFINE L == raw[e][p]
             K == Added(d, out, ps, e, p)
             to == canon[e][p]
             n == passed[e][p]
  <2>1. L = ProducerTopic(e)[p] /\ raw'[e][p] = L \o K /\ canon'[e][p] = to /\ passed'[e][p] = n
    BY <1>1, <1>2, <1>11 DEF ProducerTopic
  <2>2. L \in Seq(Messages) /\ K \in Seq(Messages) BY <1>6, <2>1
  <2>3. n \in 0..Len(L) BY <2>2 DEF ShapeInv, TopicsInv
  <2>4. /\ Replayed(L, to, n)
        /\ \A f, c \in Changes : Follows(c, f) =>
             /\ ReplayAfter(L, to, Silent, f, c) /\ ReplayBefore(L, to, n, Content, f, c)
    BY <1>11 DEF NormalizedInv
  <2>5. \A f, c \in Changes : Follows(c, f) =>
          InOrder(L, K, Silent, Silent', Content, Content', f, c)
    BY <1>7, <2>1
  <2> HIDE DEF L, K, to, n
  <2>6. /\ \A l \in 1..n : Places(to, (L \o K)[l].id[1]) # {}
        /\ \A c \in Changes : Places(L \o K, c) = {} => Places(to, c) = {}
        /\ \A f, c \in Changes : \A S, S2, O, O2 :
             /\ ReplayAfter(L, to, S, f, c) /\ ReplayBefore(L, to, n, O, f, c)
             /\ InOrder(L, K, S, S2, O, O2, f, c)
             => /\ ReplayAfter(L \o K, to, S2, f, c)
                /\ ReplayBefore(L \o K, to, n, O2, f, c)
    BY <2>2, <2>3, <2>4, ReplayGrows
  <2>7. Replayed(raw[e][p], canon[e][p], passed[e][p])'
    BY <1>3, <2>1, <2>6 DEF Replayed
  <2>8. ASSUME NEW f \in Changes, NEW c \in Changes, Follows(c, f)
        PROVE  ReplayAfter(L \o K, to, Silent', f, c) /\ ReplayBefore(L \o K, to, n, Content', f, c)
    BY <2>4, <2>5, <2>6, <2>8
  <2> QED BY <2>1, <2>7, <2>8
<1>12. NormalizedInv' BY <1>3, <1>5, <1>11 DEF NormalizedInv
<1> QED BY <1>10, <1>12

-----------------------------------------------------------------------------
(* The order of the events: steps that send nothing *)

\* A log has nothing of what is no change yet.
LEMMA NothingOfNoChange ==
    ASSUME TopicsInv, NEW d \in Domains, NEW p \in Partitions, NEW c, c \notin Changes
    PROVE  Places(raw[d][p], c) = {} /\ Places(canon[d][p], c) = {}
<1>1. \A i \in DOMAIN raw[d][p] : raw[d][p][i].id[1] \in Changes
  BY DEF TopicsInv, TopicInv, Genuine
<1>2. \A i \in DOMAIN canon[d][p] : canon[d][p][i].id[1] \in Changes
  BY DEF TopicsInv, TopicInv, Genuine
<1> QED BY <1>1, <1>2 DEF Places

LEMMA QuietOrder ==
    ASSUME TopicsInv, ProducedInv, NormalizedInv, UNCHANGED <<raw, canon, passed>>,
           \A c \in Changes : /\ c \in Changes' /\ ChangeAt(c)' = ChangeAt(c)
                              /\ (c \in Silent <=> c \in Silent') /\ (c \in Content <=> c \in Content'),
           \A c \in Changes' : c \notin Changes =>
                c \in Content' /\ \A f \in Changes' : ~Follows(f, c)'
    PROVE  ProducedInv' /\ NormalizedInv'
<1>1. \A d : ProducerTopic(d)' = ProducerTopic(d) BY DEF ProducerTopic
<1>2. ASSUME NEW c \in Changes' PROVE SentOrContent(c)'
  <2>1. CASE c \in Changes
    <3>1. DomainOf(c)' = DomainOf(c) /\ KeyPartition(c)' = KeyPartition(c) BY <2>1, SameChange
    <3>2. SentOrContent(c) BY <2>1 DEF ProducedInv
    <3>3. CASE c \in Content BY <2>1, <3>3 DEF SentOrContent
    <3>4. CASE Places(ProducerTopic(DomainOf(c))[KeyPartition(c)], c) # {}
      <4>1. Places(ProducerTopic(DomainOf(c))[KeyPartition(c)], c)' # {}
        BY <3>1, <3>4 DEF ProducerTopic, Places
      <4> QED BY <4>1 DEF SentOrContent
    <3> QED BY <3>2, <3>3, <3>4 DEF SentOrContent
  <2>2. CASE c \notin Changes BY <2>2 DEF SentOrContent
  <2> QED BY <2>1, <2>2
<1>3. ASSUME NEW f \in Changes', NEW c \in Changes', Follows(c, f)'
      PROVE  /\ f \in Changes /\ (c \in Changes => Follows(c, f))
             /\ f \in Silent <=> f \in Silent'
             /\ c \in Changes => (c \in Content <=> c \in Content')
             /\ c \notin Changes => c \in Content'
  <2>1. f \in Changes BY <1>3
  <2>2. c \in Changes => Follows(c, f) BY <1>3, <2>1 DEF Follows
  <2> QED BY <2>1, <2>2
<1>4. ASSUME NEW d \in Domains, NEW p \in Partitions, NEW f \in Changes', NEW c \in Changes', Follows(c, f)'
      PROVE  /\ AfterEarlier(ProducerTopic(d)[p], Silent', f, c)
             /\ BeforeLater(ProducerTopic(d)[p], Content', f, c)
  <2>1. CASE c \in Changes
    <3>1. AfterEarlier(ProducerTopic(d)[p], Silent, f, c) /\ BeforeLater(ProducerTopic(d)[p], Content, f, c)
      BY <1>3, <1>4, <2>1 DEF ProducedInv
    <3> QED BY <1>3, <1>4, <2>1, <3>1 DEF AfterEarlier, BeforeLater
  <2>2. CASE c \notin Changes
    <3>1. Places(ProducerTopic(d)[p], c) = {} BY <2>2, NothingOfNoChange DEF ProducerTopic
    <3>2. c \in Content' BY <1>3, <1>4, <2>2
    <3> QED BY <3>1, <3>2 DEF AfterEarlier, BeforeLater
  <2> QED BY <2>1, <2>2
<1>5. ProducedInv'
  <2>1. \A d \in Domains, p \in Partitions : \A f, c \in Changes' :
          Follows(c, f)' => /\ AfterEarlier(ProducerTopic(d)'[p], Silent', f, c)
                            /\ BeforeLater(ProducerTopic(d)'[p], Content', f, c)
    BY <1>1, <1>4
  <2> QED BY <1>2, <2>1 DEF ProducedInv
<1>6. ASSUME NEW d \in Domains, NEW p \in Partitions, Legacy(d)
      PROVE  /\ Replayed(raw[d][p], canon[d][p], passed[d][p])'
             /\ \A f, c \in Changes' : Follows(c, f)' =>
                 /\ ReplayAfter(raw[d][p], canon[d][p], Silent', f, c)
                 /\ ReplayBefore(raw[d][p], canon[d][p], passed[d][p], Content', f, c)
  <2>1. Replayed(raw[d][p], canon[d][p], passed[d][p]) BY <1>6 DEF NormalizedInv
  <2>2. \A c : c \notin Changes => Places(canon[d][p], c) = {} BY NothingOfNoChange
  <2>3. Replayed(raw[d][p], canon[d][p], passed[d][p])' BY <2>1, <2>2 DEF Replayed
  <2>4. ASSUME NEW f \in Changes', NEW c \in Changes', Follows(c, f)'
        PROVE  /\ ReplayAfter(raw[d][p], canon[d][p], Silent', f, c)
               /\ ReplayBefore(raw[d][p], canon[d][p], passed[d][p], Content', f, c)
    <3>1. CASE c \in Changes
      <4>1. /\ ReplayAfter(raw[d][p], canon[d][p], Silent, f, c)
            /\ ReplayBefore(raw[d][p], canon[d][p], passed[d][p], Content, f, c)
        BY <1>3, <1>6, <2>4, <3>1 DEF NormalizedInv
      <4> QED BY <1>3, <2>4, <3>1, <4>1 DEF ReplayAfter, ReplayBefore
    <3>2. CASE c \notin Changes
      <4>1. c \in Content' BY <1>3, <2>4, <3>2
      <4> QED BY <2>2, <3>2, <4>1 DEF ReplayAfter, ReplayBefore
    <3> QED BY <3>1, <3>2
  <2> QED BY <2>3, <2>4
<1>7. NormalizedInv' BY <1>6 DEF NormalizedInv
<1> QED BY <1>5, <1>7

LEMMA FrontBound ==
    ASSUME QueuesInv, NEW s \in Shards
    PROVE  Front(s) \in Nat /\ Front(s) <= taken[s] + 1
<1>1. batches[s] \in Seq(BatchRecords) /\ taken[s] \in Nat /\ Contiguous(batches[s], taken[s])
  BY DEF QueuesInv
<1>2. CASE batches[s] = <<>> BY <1>1, <1>2 DEF Front, FrontOf
<1>3. CASE batches[s] # <<>>
  <2>1. batches[s][1] \in BatchRecords /\ batches[s][1].lo <= batches[s][1].hi
        /\ batches[s][1].hi <= taken[s]
    BY <1>1, <1>3, FirstDone
  <2>2. batches[s][1].lo \in Nat /\ batches[s][1].hi \in Nat BY <2>1 DEF BatchRecords
  <2> QED BY <1>1, <1>3, <2>1, <2>2 DEF Front, FrontOf
<1> QED BY <1>2, <1>3

\* A new change is one that may be sent, and the last of its shard.
LEMMA WriteOrder ==
    ASSUME PipelineInv, NEW r \in Records, Write(r)
    PROVE  PipelineInv'
<1> USE DEF PipelineInv
<1> DEFINE s == Shard[r]
           n == Len(stream[s])
<1>1. /\ ShapeInv' /\ \A c \in Changes : c \in Changes' /\ ChangeAt(c)' = ChangeAt(c)
      /\ \A c \in Changes' : c \in Changes \/ c = <<s, n + 1>>
  BY WriteShape
<1>2. UNCHANGED <<taken, batches, raw, canon, passed, dropped>> BY DEF Write
<1>3. \A c : Behind(c)' <=> Behind(c) BY <1>2 DEF Behind, Front
<1>4. \A c \in Changes : (c \in Silent <=> c \in Silent') /\ (c \in Content <=> c \in Content')
  BY <1>1, <1>2, <1>3, SameChange DEF Silent, Content
<1>5. s \in Shards /\ n \in Nat BY DEF Shards, ShapeInv, StreamsInv
<1>6. ASSUME NEW c \in Changes', c \notin Changes
      PROVE  c \in Content' /\ \A f \in Changes' : ~Follows(f, c)'
  <2>1. c = <<s, n + 1>> BY <1>1, <1>6
  <2>2. Front(s) \in Nat /\ Front(s) <= taken[s] + 1 /\ taken[s] \in Nat /\ taken[s] <= n
    BY <1>5, FrontBound DEF ShapeInv, QueuesInv
  <2> HIDE DEF s, n
  <2>3. c[1] = s /\ c[2] = n + 1 BY <2>1
  <2>4. ~Behind(c) BY <1>5, <2>2, <2>3 DEF Behind
  <2>5. ASSUME NEW f \in Changes', Follows(f, c)' PROVE FALSE
    <3>1. f[1] = s /\ n + 1 < f[2] BY <2>3, <2>5 DEF Follows
    <3>2. CASE f \in Changes
      <4>1. f[2] \in 1..Len(stream[f[1]]) BY <3>2, ChangeFacts DEF ShapeInv
      <4>2. f[2] \in 1..n BY <3>1, <4>1 DEF n
      <4> QED BY <1>5, <3>1, <4>2
    <3>3. CASE f = <<s, n + 1>> BY <1>5, <3>1, <3>3
    <3> QED BY <1>1, <3>2, <3>3 DEF s, n
  <2> QED BY <1>3, <2>4, <2>5 DEF Content
<1>7. ProducedInv' /\ NormalizedInv' BY <1>1, <1>2, <1>4, <1>6, QuietOrder DEF ShapeInv
<1> QED BY <1>1, <1>7

LEMMA PollOrder ==
    ASSUME PipelineInv, NEW s \in Shards, Poll(s)
    PROVE  PipelineInv'
<1> USE DEF PipelineInv
<1>1. ShapeInv' /\ \A t \in Shards : Front(t)' = Front(t) BY PollShape
<1>2. UNCHANGED <<table, stream, raw, canon, passed, dropped>> BY DEF Poll
<1>3. Changes' = Changes /\ \A c : ChangeAt(c)' = ChangeAt(c) BY <1>2, SameStream
<1>4. \A c \in Changes : c[1] \in Shards BY DEF Changes, ChangeIds
<1>5. \A c \in Changes : Behind(c)' <=> Behind(c) BY <1>1, <1>4 DEF Behind
<1>6. \A c \in Changes : (c \in Silent <=> c \in Silent') /\ (c \in Content <=> c \in Content')
  BY <1>2, <1>3, <1>5, SameChange DEF Silent, Content
<1>7. ProducedInv' /\ NormalizedInv' BY <1>2, <1>3, <1>6, QuietOrder DEF ShapeInv
<1> QED BY <1>1, <1>7

LEMMA StutterKeeps ==
    ASSUME PipelineInv, UNCHANGED vars
    PROVE  PipelineInv'
<1> USE DEF PipelineInv, vars
<1>1. Changes' = Changes /\ \A c : ChangeAt(c)' = ChangeAt(c) BY SameStream
<1>2. \A c \in Changes : Behind(c)' <=> Behind(c) BY DEF Behind, Front
<1>3. \A c \in Changes : (c \in Silent <=> c \in Silent') /\ (c \in Content <=> c \in Content')
  BY <1>1, <1>2, SameChange DEF Silent, Content
<1>4. ProducedInv' /\ NormalizedInv' BY <1>1, <1>3, QuietOrder DEF ShapeInv
<1>5. StreamsInv' BY DEF ShapeInv, StreamsInv
<1>6. QueuesInv' BY DEF ShapeInv, QueuesInv
<1>7. TopicsInv'
  <2>1. \A s \in Shards : taken[s] <= taken'[s] BY DEF ShapeInv, QueuesInv
  <2> QED BY <1>1, <1>6, <2>1, TopicsStay DEF ShapeInv
<1> QED BY <1>4, <1>5, <1>6, <1>7 DEF ShapeInv

-----------------------------------------------------------------------------
(* The order of the events: the normalizer *)

\* The normalizer sent its next n messages of a raw partition to the
\* partitions ps; its position moves on only if it sent them to all.
Republished(d, p, n, ps) ==
    /\ n \in BatchSizes(d, p)
    /\ canon' = [canon EXCEPT ![d] = Deliver(@, NextRaw(d, p, n), ps)]
    /\ UNCHANGED <<table, stream, taken, batches, raw, dropped>>
    /\ \/ passed' = passed
       \/ ps = Partitions /\ passed' = [passed EXCEPT ![d][p] = @ + n]

LEMMA RepublishedFacts ==
    ASSUME ShapeInv, NEW d \in Domains, NEW p \in Partitions, NEW n, NEW ps, Republished(d, p, n, ps)
    PROVE  /\ Legacy(d) /\ n \in Nat /\ passed[d][p] \in Nat /\ passed[d][p] + n <= Len(raw[d][p])
           /\ canon' \in [Domains -> [Partitions -> Seq(Messages)]]
           /\ passed' \in [Domains -> [Partitions -> Nat]]
           /\ \A e \in Domains, q \in Partitions :
                /\ canon'[e][q] = canon[e][q] \o Added(d, NextRaw(d, p, n), ps, e, q)
                /\ Added(d, NextRaw(d, p, n), ps, e, q) \in Seq(Messages)
                /\ \A x \in DOMAIN Added(d, NextRaw(d, p, n), ps, e, q) :
                     Genuine(Added(d, NextRaw(d, p, n), ps, e, q)[x], e, q)
                /\ ~(e = d /\ q = p /\ p \in ps) =>
                     Added(d, NextRaw(d, p, n), ps, e, q) = <<>> /\ passed'[e][q] = passed[e][q]
           /\ \A e \in Domains : ~Legacy(e) => canon'[e] = canon[e]
           /\ passed'[d][p] \in {passed[d][p], passed[d][p] + n}
<1> DEFINE out == NextRaw(d, p, n)
<1>1. n \in BatchSizes(d, p) BY DEF Republished
<1>2. /\ n \in 1..BatchSize /\ passed[d][p] + n <= Len(raw[d][p]) /\ passed[d][p] \in Nat
      /\ raw[d][p] \in Seq(Messages) /\ passed \in [Domains -> [Partitions -> Nat]]
      /\ canon \in [Domains -> [Partitions -> Seq(Messages)]]
      /\ ~Legacy(d) => raw[d][p] = <<>>
  BY <1>1 DEF BatchSizes, ShapeInv, TopicsInv, TopicInv
<1>3. n \in Nat /\ n > 0 BY <1>2, PipelineAssumption
<1>4. Legacy(d)
  <2>1. Len(raw[d][p]) # 0 BY <1>2, <1>3
  <2> QED BY <1>2, <2>1
<1>5. \A q \in Partitions :
        /\ Keyed(out, q) \in Seq(Messages)
        /\ \A x \in DOMAIN Keyed(out, q) : Genuine(Keyed(out, q)[x], d, q)
        /\ q # p => Keyed(out, q) = <<>>
  BY <1>1, NextRawKeyed
<1> HIDE DEF out
<1>6. canon' = After(canon, d, out, ps) BY DEF Republished, After, out
<1> DEFINE canon2 == After(canon, d, out, ps)
<1>7. /\ canon2 \in [Domains -> [Partitions -> Seq(Messages)]]
      /\ \A e \in Domains, q \in Partitions : canon2[e][q] = canon[e][q] \o Added(d, out, ps, e, q)
      /\ \A e \in Domains : e # d => canon2[e] = canon[e]
  <2>1. canon \in Topics BY <1>2 DEF Topics
  <2>2. \A q \in Partitions : Keyed(out, q) \in Seq(Messages) BY <1>5
  <2>3. canon2 \in [Domains -> [Partitions -> Seq(Messages)]] BY <2>1, <2>2, Delivered DEF Topics
  <2>4. \A e \in Domains, q \in Partitions : canon2[e][q] = canon[e][q] \o Added(d, out, ps, e, q)
    BY <2>1, <2>2, Delivered
  <2>5. \A e \in Domains : e # d => canon2[e] = canon[e] BY <2>1, <2>2, Delivered
  <2> QED BY <2>3, <2>4, <2>5
<1> HIDE DEF canon2
<1>8. canon' = canon2 BY <1>6 DEF canon2
<1>9. /\ passed' \in [Domains -> [Partitions -> Nat]]
      /\ \A e \in Domains, q \in Partitions : ~(e = d /\ q = p /\ p \in ps) => passed'[e][q] = passed[e][q]
      /\ passed'[d][p] \in {passed[d][p], passed[d][p] + n}
  <2>1. CASE passed' = passed BY <1>2, <2>1
  <2>2. CASE ps = Partitions /\ passed' = [passed EXCEPT ![d][p] = @ + n]
    <3>1. passed[d][p] + n \in Nat BY <1>2, <1>3
    <3> QED BY <1>2, <2>2, <3>1
  <2> QED BY <2>1, <2>2 DEF Republished
<1>10. ASSUME NEW e \in Domains, NEW q \in Partitions
       PROVE  /\ Added(d, out, ps, e, q) \in Seq(Messages)
              /\ \A x \in DOMAIN Added(d, out, ps, e, q) : Genuine(Added(d, out, ps, e, q)[x], e, q)
              /\ ~(e = d /\ q = p /\ p \in ps) => Added(d, out, ps, e, q) = <<>>
  <2>1. CASE e = d /\ q \in ps
    <3>1. Added(d, out, ps, e, q) = Keyed(out, q) BY <2>1 DEF Added
    <3> QED BY <1>5, <2>1, <3>1
  <2>2. CASE ~(e = d /\ q \in ps)
    <3>1. Added(d, out, ps, e, q) = <<>> BY <2>2 DEF Added
    <3> DEFINE K == Added(d, out, ps, e, q)
    <3>2. K = <<>> BY <3>1
    <3> HIDE DEF K
    <3>3. K \in Seq(Messages) /\ DOMAIN K = {} BY <3>2
    <3> QED BY <3>2, <3>3 DEF K
  <2> QED BY <2>1, <2>2
<1>11. \A e \in Domains : ~Legacy(e) => canon'[e] = canon[e] BY <1>4, <1>7, <1>8
<1> QED BY <1>2, <1>3, <1>4, <1>7, <1>8, <1>9, <1>10, <1>11 DEF out

LEMMA RepublishedShape ==
    ASSUME ShapeInv, NEW d \in Domains, NEW p \in Partitions, NEW n, NEW ps, Republished(d, p, n, ps)
    PROVE  ShapeInv'
<1> DEFINE out == NextRaw(d, p, n)
<1>1. UNCHANGED <<table, stream, taken, batches, raw, dropped>> BY DEF Republished
<1>2. /\ n \in Nat /\ passed[d][p] \in Nat /\ passed[d][p] + n <= Len(raw[d][p])
      /\ canon' \in [Domains -> [Partitions -> Seq(Messages)]]
      /\ passed' \in [Domains -> [Partitions -> Nat]]
      /\ \A e \in Domains, q \in Partitions :
           /\ canon'[e][q] = canon[e][q] \o Added(d, out, ps, e, q)
           /\ Added(d, out, ps, e, q) \in Seq(Messages)
           /\ \A x \in DOMAIN Added(d, out, ps, e, q) : Genuine(Added(d, out, ps, e, q)[x], e, q)
           /\ ~(e = d /\ q = p /\ p \in ps) => passed'[e][q] = passed[e][q]
      /\ passed'[d][p] \in {passed[d][p], passed[d][p] + n}
  BY RepublishedFacts, SMTT(30)
<1> HIDE DEF out
<1>3. Changes' = Changes /\ \A c : ChangeAt(c)' = ChangeAt(c) BY <1>1, SameStream
<1>4. QueuesInv' /\ StreamsInv' BY <1>1 DEF ShapeInv, QueuesInv, StreamsInv
<1>5. \A m, e, q : Genuine(m, e, q) => Genuine(m, e, q)'
  <2>1. \A t \in Shards : taken[t] <= taken'[t] BY <1>1 DEF ShapeInv, QueuesInv
  <2>2. QueuesInv BY DEF ShapeInv
  <2> QED BY <1>3, <1>4, <2>1, <2>2, GenuineStays
<1>6. TopicInv(raw)' BY <1>1, <1>5 DEF ShapeInv, TopicsInv, TopicInv
<1>7. ASSUME NEW e \in Domains, NEW q \in Partitions
      PROVE  (\A i \in DOMAIN canon[e][q] : Genuine(canon[e][q][i], e, q))'
  <2> DEFINE L == canon[e][q]
             K == Added(d, out, ps, e, q)
             G == {m \in Messages : Genuine(m, e, q)}
  <2>1. L \in Seq(Messages) /\ \A i \in DOMAIN L : Genuine(L[i], e, q)
    BY DEF ShapeInv, TopicsInv, TopicInv
  <2>2. K \in Seq(Messages) /\ \A x \in DOMAIN K : Genuine(K[x], e, q) BY <1>2
  <2>3. canon'[e][q] = L \o K BY <1>2
  <2>4. \A m : m \in G <=> Genuine(m, e, q) BY DEF Genuine
  <2> HIDE DEF L, K, G
  <2>5. \A i \in DOMAIN (L \o K) : (L \o K)[i] \in G BY <2>1, <2>2, <2>4, AllAppended
  <2> QED BY <1>5, <2>3, <2>4, <2>5
<1>8. TopicInv(canon)' BY <1>2, <1>7 DEF TopicInv
<1>9. ASSUME NEW e \in Domains, NEW q \in Partitions PROVE passed'[e][q] <= Len(raw[e][q])
  <2>1. passed[e][q] <= Len(raw[e][q]) /\ raw[d][p] \in Seq(Messages)
    BY DEF ShapeInv, TopicsInv, TopicInv
  <2>2. CASE e = d /\ q = p BY <1>2, <2>1, <2>2
  <2>3. CASE ~(e = d /\ q = p) BY <1>2, <2>1, <2>3
  <2> QED BY <2>2, <2>3
<1>10. TopicsInv'
  <2>1. dropped \subseteq Changes /\ \A e \in Domains : ~Legacy(e) => \A q \in Partitions : raw[e][q] = <<>>
    BY DEF ShapeInv, TopicsInv
  <2> QED BY <1>1, <1>2, <1>3, <1>6, <1>8, <1>9, <2>1 DEF TopicsInv
<1> QED BY <1>4, <1>10 DEF ShapeInv

LEMMA RepublishedOrder ==
    ASSUME PipelineInv, NEW d \in Domains, NEW p \in Partitions, NEW n, NEW ps, Republished(d, p, n, ps)
    PROVE  PipelineInv'
<1>0. ShapeInv /\ ProducedInv /\ NormalizedInv BY DEF PipelineInv
<1> DEFINE out == NextRaw(d, p, n)
<1>1. /\ UNCHANGED <<table, stream, taken, batches, raw, dropped>> /\ n \in BatchSizes(d, p)
  BY DEF Republished
<1>2. /\ n \in Nat /\ passed[d][p] \in Nat /\ passed[d][p] + n <= Len(raw[d][p])
      /\ \A e \in Domains, q \in Partitions :
           /\ canon'[e][q] = canon[e][q] \o Added(d, out, ps, e, q)
           /\ Added(d, out, ps, e, q) \in Seq(Messages)
           /\ ~(e = d /\ q = p /\ p \in ps) =>
                Added(d, out, ps, e, q) = <<>> /\ passed'[e][q] = passed[e][q]
      /\ \A e \in Domains : ~Legacy(e) => canon'[e] = canon[e]
      /\ passed'[d][p] \in {passed[d][p], passed[d][p] + n}
  BY <1>0, RepublishedFacts, SMTT(30)
<1> HIDE DEF out
<1>3. Changes' = Changes /\ \A c : ChangeAt(c)' = ChangeAt(c) BY <1>1, SameStream
<1>4. \A c : /\ HasEvent(c)' <=> HasEvent(c)
             /\ DomainOf(c)' = DomainOf(c) /\ KeyPartition(c)' = KeyPartition(c)
             /\ Behind(c)' <=> Behind(c)
  BY <1>1, <1>3, SameChange DEF Behind, Front
<1>5. Silent' = Silent /\ Content' = Content BY <1>1, <1>3, <1>4 DEF Silent, Content
<1>6. \A c, f : Follows(c, f)' <=> Follows(c, f) BY <1>3 DEF Follows
<1>7. \A e \in Domains : ProducerTopic(e)' = ProducerTopic(e) BY <1>1, <1>2 DEF ProducerTopic
<1>8. ASSUME NEW c \in Changes PROVE SentOrContent(c)'
  <2>1. SentOrContent(c) BY <1>0 DEF ProducedInv
  <2>2. DomainOf(c) \in Domains BY <1>0, ChangeFacts DEF ShapeInv
  <2>3. ProducerTopic(DomainOf(c))' = ProducerTopic(DomainOf(c))
    BY <1>4, <1>7, <2>2 DEF ProducerTopic
  <2> QED BY <1>4, <1>5, <2>1, <2>3 DEF SentOrContent, Places
<1>9. ProducedInv'
  <2>1. \A e \in Domains, q \in Partitions : \A f, c \in Changes :
          Follows(c, f) => /\ AfterEarlier(ProducerTopic(e)[q], Silent, f, c)
                           /\ BeforeLater(ProducerTopic(e)[q], Content, f, c)
    BY <1>0 DEF ProducedInv
  <2>2. \A e \in Domains, q \in Partitions : \A f, c \in Changes :
          Follows(c, f)' => /\ AfterEarlier(ProducerTopic(e)'[q], Silent', f, c)
                            /\ BeforeLater(ProducerTopic(e)'[q], Content', f, c)
    BY <1>5, <1>6, <1>7, <2>1
  <2> QED BY <1>3, <1>8, <2>2 DEF ProducedInv
<1>10. ASSUME NEW e \in Domains, NEW q \in Partitions, Legacy(e)
       PROVE  /\ Replayed(raw[e][q], canon'[e][q], passed'[e][q])
              /\ \A f, c \in Changes : Follows(c, f) =>
                  /\ ReplayAfter(raw[e][q], canon'[e][q], Silent, f, c)
                  /\ ReplayBefore(raw[e][q], canon'[e][q], passed'[e][q], Content, f, c)
  <2> DEFINE from == raw[e][q]
             to == canon[e][q]
             at == passed[e][q]
             at2 == passed'[e][q]
             K == Added(d, out, ps, e, q)
  <2>1. /\ Replayed(from, to, at)
        /\ \A f, c \in Changes : Follows(c, f) =>
             /\ ReplayAfter(from, to, Silent, f, c)
             /\ ReplayBefore(from, to, at, Content, f, c)
    BY <1>0, <1>10 DEF NormalizedInv
  <2>2. \A f, c \in Changes : Follows(c, f) =>
          AfterEarlier(from, Silent, f, c) /\ BeforeLater(from, Content, f, c)
    BY <1>0, <1>10 DEF ProducedInv, ProducerTopic
  <2>3. from \in Seq(Messages) /\ to \in Seq(Messages) /\ K \in Seq(Messages) /\ canon'[e][q] = to \o K
    <3>1. K \in Seq(Messages) /\ canon'[e][q] = to \o K BY <1>2
    <3>2. TopicInv(raw) /\ TopicInv(canon) BY <1>0 DEF ShapeInv, TopicsInv
    <3>3. from \in Seq(Messages) /\ to \in Seq(Messages) BY <3>2 DEF TopicInv
    <3> QED BY <3>1, <3>3
  <2>4. CASE e = d /\ q = p /\ p \in ps
    <3>1. K = Keyed(NextRaw(d, p, n), p) BY <2>4 DEF Added, out
    <3>2. \E k : /\ Lists(k, Len(K), 1..n)
                 /\ \A x \in DOMAIN K : K[x].id[1] = raw[d][p][passed[d][p] + k[x]].id[1]
      BY <1>0, <1>1, <3>1, NextRawKeyed
    <3>3. PICK k : /\ Lists(k, Len(K), 1..n)
                   /\ \A x \in DOMAIN K : K[x].id[1] = from[at + k[x]].id[1]
      BY <2>4, <3>2
    <3>4. at2 \in {at, at + n} /\ at \in Nat /\ n \in Nat /\ at + n <= Len(from) BY <1>2, <2>4
    <3> HIDE DEF from, to, at, at2, K
    <3>5. /\ Replayed(from, to \o K, at2)
          /\ \A f, c \in Changes : \A S, O :
               /\ AfterEarlier(from, S, f, c) /\ BeforeLater(from, O, f, c)
               /\ ReplayAfter(from, to, S, f, c) /\ ReplayBefore(from, to, at, O, f, c)
               => /\ ReplayAfter(from, to \o K, S, f, c)
                  /\ ReplayBefore(from, to \o K, at2, O, f, c)
      BY <2>1, <2>3, <3>3, <3>4, ReplayKept
    <3>6. \A f, c \in Changes : Follows(c, f) =>
            /\ ReplayAfter(from, to \o K, Silent, f, c)
            /\ ReplayBefore(from, to \o K, at2, Content, f, c)
      BY <2>1, <2>2, <3>5
    <3>7. canon'[e][q] = to \o K /\ from = raw[e][q] /\ at2 = passed'[e][q]
      BY <2>3 DEF from, to, K, at2
    <3> QED BY <3>5, <3>6, <3>7
  <2>5. CASE ~(e = d /\ q = p /\ p \in ps)
    <3>1. K = <<>> /\ at2 = at BY <1>2, <2>5
    <3>2. canon'[e][q] = to BY <2>3, <3>1
    <3> QED BY <2>1, <3>1, <3>2
  <2> QED BY <2>4, <2>5
<1>11. NormalizedInv' BY <1>1, <1>3, <1>5, <1>6, <1>10 DEF NormalizedInv, Replayed
<1>12. ShapeInv' BY <1>0, RepublishedShape
<1> QED BY <1>9, <1>11, <1>12 DEF PipelineInv

-----------------------------------------------------------------------------
(* The invariant *)

LEMMA InitHolds ==
    ASSUME Init
    PROVE  PipelineInv
<1>1. /\ table = [r \in Records |-> NoImage] /\ stream = [s \in Shards |-> <<>>]
      /\ taken = [s \in Shards |-> 0] /\ batches = [s \in Shards |-> <<>>]
      /\ raw = [d \in Domains |-> [p \in Partitions |-> <<>>]]
      /\ canon = [d \in Domains |-> [p \in Partitions |-> <<>>]]
      /\ passed = [d \in Domains |-> [p \in Partitions |-> 0]] /\ dropped = {}
  BY DEF Init, EmptyTopics
<1>2. \A s \in Shards : stream[s] = <<>> /\ Len(stream[s]) = 0 BY <1>1
<1>3. Changes = {}
  <2>1. ASSUME NEW c \in Changes PROVE FALSE
    <3>1. c[1] \in Shards /\ c[2] \in 1..MaxChanges /\ c[2] <= Len(stream[c[1]])
      BY DEF Changes, ChangeIds
    <3> QED BY <1>2, <3>1, PipelineAssumption
  <2> QED BY <2>1
<1>4. StreamsInv
  <2>1. NoImage \in AllImages BY DEF AllImages
  <2>2. table \in [Records -> AllImages] /\ \A r \in Records : table[r] \in Images[r] \cup {NoImage}
    BY <1>1, <2>1
  <2>3. stream \in [Shards -> Seq(ChangeRecords)] BY <1>1
  <2> QED BY <1>2, <2>2, <2>3, PipelineAssumption DEF StreamsInv
<1>5. QueuesInv
  <2>1. \A s \in Shards : batches[s] = <<>> /\ taken[s] = 0 /\ DOMAIN batches[s] = {} BY <1>1
  <2>2. taken \in [Shards -> Nat] /\ batches \in [Shards -> Seq(BatchRecords)] BY <1>1
  <2> QED BY <1>2, <2>1, <2>2 DEF QueuesInv, Contiguous
<1>6. \A d \in Domains, p \in Partitions :
        /\ raw[d][p] = <<>> /\ canon[d][p] = <<>> /\ passed[d][p] = 0
        /\ DOMAIN raw[d][p] = {} /\ DOMAIN canon[d][p] = {} /\ Len(raw[d][p]) = 0
  BY <1>1
<1>7. TopicsInv
  <2>1. raw \in [Domains -> [Partitions -> Seq(Messages)]] BY <1>1
  <2>2. canon \in [Domains -> [Partitions -> Seq(Messages)]] BY <1>1
  <2>3. passed \in [Domains -> [Partitions -> Nat]] BY <1>1
  <2> QED BY <1>1, <1>6, <2>1, <2>2, <2>3 DEF TopicsInv, TopicInv
<1>8. ProducedInv BY <1>3 DEF ProducedInv
<1>9. \A d \in Domains, p \in Partitions : Replayed(raw[d][p], canon[d][p], passed[d][p])
  BY <1>3, <1>6 DEF Replayed
<1>10. NormalizedInv BY <1>3, <1>9 DEF NormalizedInv
<1> QED BY <1>4, <1>5, <1>7, <1>8, <1>10 DEF PipelineInv, ShapeInv

LEMMA NextHolds ==
    ASSUME PipelineInv, [Next]_vars
    PROVE  PipelineInv'
<1>1. ASSUME NEW r \in Records, Write(r) PROVE PipelineInv' BY <1>1, WriteOrder
<1>2. ASSUME NEW s \in Shards, Poll(s) PROVE PipelineInv' BY <1>2, PollOrder
<1>3. ASSUME NEW s \in Shards, Produce(s) \/ ProduceFails(s) PROVE PipelineInv'
  <2>1. PICK b, ps : Handled(s, b, ps)
    BY <1>3, ProduceHandles, FailureHandles DEF PipelineInv
  <2> QED BY <2>1, HandledShape, HandledOrder DEF PipelineInv
<1>4. ASSUME NEW d \in Domains, NEW p \in Partitions, Normalize(d, p) \/ NormalizeFails(d, p)
      PROVE  PipelineInv'
  <2>1. CASE Normalize(d, p)
    <3>1. PICK n \in BatchSizes(d, p) :
            /\ canon' = [canon EXCEPT ![d] = Deliver(@, NextRaw(d, p, n), Partitions)]
            /\ passed' = [passed EXCEPT ![d][p] = @ + n]
      BY <2>1 DEF Normalize
    <3>2. Republished(d, p, n, Partitions) BY <2>1, <3>1 DEF Normalize, Republished
    <3> QED BY <3>2, RepublishedOrder
  <2>2. CASE NormalizeFails(d, p)
    <3>1. PICK n \in BatchSizes(d, p), ps \in SUBSET Partitions :
            canon' = [canon EXCEPT ![d] = Deliver(@, NextRaw(d, p, n), ps)]
      BY <2>2 DEF NormalizeFails
    <3>2. Republished(d, p, n, ps) BY <2>2, <3>1 DEF NormalizeFails, Republished
    <3> QED BY <3>2, RepublishedOrder
  <2> QED BY <1>4, <2>1, <2>2
<1>5. CASE UNCHANGED vars BY <1>5, StutterKeeps
<1> QED BY <1>1, <1>2, <1>3, <1>4, <1>5 DEF Next, Work

\* The inductive invariant: nothing behind a front is missing its past.
THEOREM InvariantHolds == Spec => []PipelineInv
<1>1. Init => PipelineInv BY InitHolds
<1>2. PipelineInv /\ [Next]_vars => PipelineInv' BY NextHolds
<1> QED BY <1>1, <1>2, PTL DEF Spec

-----------------------------------------------------------------------------
(* What the invariant says of the pipeline *)

LEMMA AtArePlaces ==
    ASSUME NEW d, NEW p, NEW c
    PROVE  At(d, p, c) = Places(canon[d][p], c)
  BY DEF At, Places

\* In the domain topic a change's messages are where its key says.
LEMMA AtFacts ==
    ASSUME PipelineInv, NEW c \in Changes, NEW p \in Partitions, At(DomainOf(c), p, c) # {}
    PROVE  HasEvent(c) /\ KeyPartition(c) = p
<1>1. PICK i \in DOMAIN canon[DomainOf(c)][p] : canon[DomainOf(c)][p][i].id[1] = c BY DEF At
<1>2. DomainOf(c) \in Domains BY ChangeFacts DEF PipelineInv, ShapeInv
<1>3. Genuine(canon[DomainOf(c)][p][i], DomainOf(c), p)
  BY <1>1, <1>2 DEF PipelineInv, ShapeInv, TopicsInv, TopicInv
<1> QED BY <1>1, <1>3 DEF Genuine

\* In a drained pipeline everything is behind the fronts.
LEMMA DrainedBehind ==
    ASSUME PipelineInv, Drained, NEW c \in Changes
    PROVE  Behind(c)
<1>1. c[1] \in Shards /\ c[2] \in 1..Len(stream[c[1]])
  BY ChangeFacts DEF PipelineInv, ShapeInv
<1>2. batches[c[1]] = <<>> /\ taken[c[1]] = Len(stream[c[1]]) BY <1>1 DEF Drained
<1>3. Len(stream[c[1]]) \in Nat BY <1>1 DEF PipelineInv, ShapeInv, StreamsInv
<1> QED BY <1>1, <1>2, <1>3 DEF Behind, Front, FrontOf

LEMMA LeastPlace ==
    ASSUME NEW log \in Seq(Messages), NEW c, Places(log, c) # {}
    PROVE  \E i \in Places(log, c) : \A j \in Places(log, c) : i <= j
<1> DEFINE I == Places(log, c)
           N == Cardinality(I)
<1>1. Len(log) \in Nat /\ DOMAIN log = 1..Len(log) /\ I \in SUBSET (1..Len(log)) BY DEF Places
<1> HIDE DEF I
<1>2. IsFiniteSet(I) /\ I \subseteq Int /\ I # {}
  <2>1. IsFiniteSet(1..Len(log)) BY <1>1, FS_Interval
  <2> QED BY <1>1, <2>1, FS_Subset DEF I
<1>3. /\ N \in Nat
      /\ \E k \in [1..N -> I] :
            /\ \A i \in I : \E n \in 1..N : k[n] = i
            /\ \A m, n \in 1..N : m < n => k[m] < k[n]
  BY <1>2, KeptInOrder
<1> HIDE DEF N
<1>4. PICK k \in [1..N -> I] :
        /\ \A i \in I : \E n \in 1..N : k[n] = i
        /\ \A m, n \in 1..N : m < n => k[m] < k[n]
  BY <1>3
<1>5. 1 \in 1..N
  <2>1. PICK i \in I : TRUE BY <1>2
  <2>2. PICK n \in 1..N : k[n] = i BY <1>4, <2>1
  <2> QED BY <1>3, <2>2
<1>6. ASSUME NEW j \in I PROVE k[1] <= j
  <2>1. PICK n \in 1..N : k[n] = j BY <1>4
  <2>2. k[1] \in Int /\ j \in Int BY <1>2, <1>4, <1>5
  <2>3. n = 1 \/ 1 < n BY <1>3
  <2> QED BY <1>4, <1>5, <2>1, <2>2, <2>3
<1> QED BY <1>4, <1>5, <1>6 DEF I

\* An event comes after one of the record's earlier change, if there is any.
LEMMA EarlierFirst ==
    ASSUME PipelineInv, NEW d \in Domains, NEW p \in Partitions, NEW b \in Changes, NEW c \in Changes,
           Follows(c, b), Places(canon[d][p], b) # {}, NEW j \in Places(canon[d][p], c)
    PROVE  \E i \in Places(canon[d][p], b) : i < j
<1>1. CASE Legacy(d)
  <2>1. Places(raw[d][p], b) # {} BY <1>1 DEF PipelineInv, NormalizedInv, Replayed
  <2>2. ReplayAfter(raw[d][p], canon[d][p], Silent, b, c) BY <1>1 DEF PipelineInv, NormalizedInv
  <2> QED BY <2>1, <2>2 DEF ReplayAfter
<1>2. CASE ~Legacy(d)
  <2>1. AfterEarlier(canon[d][p], Silent, b, c)
    BY <1>2 DEF PipelineInv, ProducedInv, ProducerTopic
  <2> QED BY <2>1 DEF AfterEarlier
<1> QED BY <1>1, <1>2

LEMMA InvFirstSeen == PipelineInv => FirstSeenInOrder
<1> SUFFICES ASSUME PipelineInv, NEW b \in Changes, NEW c \in Changes,
                    b[1] = c[1], b[2] < c[2], ChangeAt(b).rec = ChangeAt(c).rec,
                    NEW p \in Partitions, NEW q \in Partitions,
                    At(DomainOf(b), p, b) # {}, At(DomainOf(c), q, c) # {}
             PROVE  /\ p = q
                    /\ \E i \in At(DomainOf(b), p, b) : \A j \in At(DomainOf(c), q, c) : i < j
  BY DEF FirstSeenInOrder
<1>1. HasEvent(b) /\ KeyPartition(b) = p /\ HasEvent(c) /\ KeyPartition(c) = q BY AtFacts
<1>2. p = q /\ DomainOf(b) = DomainOf(c) BY <1>1, SamePartition DEF PipelineInv, ShapeInv
<1>3. Follows(c, b) BY DEF Follows
<1>4. DomainOf(b) \in Domains BY ChangeFacts DEF PipelineInv, ShapeInv
<1>5. PICK d \in Domains : d = DomainOf(b) BY <1>4
<1> DEFINE log == canon[d][p]
<1>6. log \in Seq(Messages) BY DEF PipelineInv, ShapeInv, TopicsInv, TopicInv
<1>7. At(DomainOf(b), p, b) = Places(log, b) /\ At(DomainOf(c), q, c) = Places(log, c)
  BY <1>2, <1>5, AtArePlaces
<1>8. \A j \in Places(log, c) : \E i \in Places(log, b) : i < j
  BY <1>3, <1>7, EarlierFirst
<1> HIDE DEF log
<1>9. PICK i \in Places(log, b) : \A j \in Places(log, b) : i <= j BY <1>6, <1>7, LeastPlace
<1>10. Places(log, b) \subseteq Int /\ Places(log, c) \subseteq Int BY <1>6 DEF Places
<1>11. \A j \in Places(log, c) : i < j BY <1>8, <1>9, <1>10
<1> QED BY <1>2, <1>7, <1>9, <1>11

LEMMA InvNothingLost == PipelineInv => NothingLostSilently
<1> SUFFICES ASSUME PipelineInv, Drained, NEW c \in Changes, HasEvent(c), c \notin dropped
             PROVE  Arrived(c)
  BY DEF NothingLostSilently
<1>1. c \notin Content BY DrainedBehind DEF Content
<1>2. PICK d, p : d = DomainOf(c) /\ p = KeyPartition(c) OBVIOUS
<1>3. d \in Domains /\ p \in Partitions BY <1>2, ChangeFacts, EventFacts DEF PipelineInv, ShapeInv
<1>4. Places(ProducerTopic(d)[p], c) # {}
  BY <1>1, <1>2 DEF PipelineInv, ProducedInv, SentOrContent
<1>5. Places(canon[d][p], c) # {}
  <2>1. CASE Legacy(d)
    <3>1. PICK l \in DOMAIN raw[d][p] : raw[d][p][l].id[1] = c
      BY <1>4, <2>1 DEF ProducerTopic, Places
    <3>2. passed[d][p] = Len(raw[d][p]) BY <1>3 DEF Drained
    <3>3. raw[d][p] \in Seq(Messages) BY <1>3 DEF PipelineInv, ShapeInv, TopicsInv, TopicInv
    <3>4. l \in 1..passed[d][p] BY <3>2, <3>3
    <3> QED BY <1>3, <2>1, <3>1, <3>4 DEF PipelineInv, NormalizedInv, Replayed
  <2>2. CASE ~Legacy(d) BY <1>4, <2>2 DEF ProducerTopic
  <2> QED BY <2>1, <2>2
<1> QED BY <1>2, <1>3, <1>5, AtArePlaces DEF Arrived

LEMMA InvLatestLast == PipelineInv => LatestComesLast
<1> SUFFICES ASSUME PipelineInv, Drained, NEW b \in Changes, NEW c \in Changes, NEW p \in Partitions,
                    b[1] = c[1], b[2] < c[2], ChangeAt(b).rec = ChangeAt(c).rec, HasEvent(c),
                    \A e \in dropped : ChangeAt(e).rec # ChangeAt(c).rec,
                    NEW i \in At(DomainOf(b), p, b)
             PROVE  \E j \in At(DomainOf(c), p, c) : i < j
  BY DEF LatestComesLast
<1>1. c \notin Content BY DrainedBehind DEF Content
<1>2. DomainOf(b) = DomainOf(c) BY DEF DomainOf
<1>3. PICK d \in Domains : d = DomainOf(c) BY ChangeFacts DEF PipelineInv, ShapeInv
<1>4. At(DomainOf(b), p, b) = Places(canon[d][p], b) /\ At(DomainOf(c), p, c) = Places(canon[d][p], c)
  BY <1>2, <1>3, AtArePlaces
<1>5. Follows(c, b) BY DEF Follows
<1>6. CASE Legacy(d)
  <2>1. ReplayBefore(raw[d][p], canon[d][p], passed[d][p], Content, b, c)
    BY <1>5, <1>6 DEF PipelineInv, NormalizedInv
  <2>2. passed[d][p] = Len(raw[d][p]) BY DEF Drained
  <2>3. raw[d][p] \in Seq(Messages) BY DEF PipelineInv, ShapeInv, TopicsInv, TopicInv
  <2>4. \A m \in Places(raw[d][p], c) : ~(m > passed[d][p]) BY <2>2, <2>3 DEF Places
  <2> QED BY <1>1, <1>4, <2>1, <2>4 DEF ReplayBefore
<1>7. CASE ~Legacy(d)
  <2>1. BeforeLater(canon[d][p], Content, b, c)
    BY <1>5, <1>7 DEF PipelineInv, ProducedInv, ProducerTopic
  <2> QED BY <1>1, <1>4, <2>1 DEF BeforeLater
<1> QED BY <1>6, <1>7

LEMMA InvType == PipelineInv => TypeOK
<1> SUFFICES ASSUME PipelineInv PROVE TypeOK OBVIOUS
<1>1. \A s \in Shards : taken[s] \in 0..Len(stream[s])
  BY DEF PipelineInv, ShapeInv, QueuesInv, StreamsInv
<1>2. ASSUME NEW s \in Shards, NEW i \in DOMAIN batches[s]
      PROVE  batches[s][i].lo \in 1..batches[s][i].hi /\ batches[s][i].hi <= taken[s]
  <2>1. batches[s] \in Seq(BatchRecords) /\ Contiguous(batches[s], taken[s])
    BY DEF PipelineInv, ShapeInv, QueuesInv
  <2>2. batches[s][i] \in BatchRecords BY <2>1
  <2>3. batches[s][i].lo \in Nat \ {0} /\ batches[s][i].hi \in Nat BY <2>2 DEF BatchRecords
  <2>4. batches[s][i].lo <= batches[s][i].hi /\ batches[s][i].hi <= taken[s]
    BY <2>1 DEF Contiguous
  <2> QED BY <2>3, <2>4
<1>3. ASSUME NEW d \in Domains, NEW p \in Partitions
      PROVE  /\ \A i \in DOMAIN raw[d][p] : raw[d][p][i] \in Messages
             /\ \A i \in DOMAIN canon[d][p] : canon[d][p][i] \in Messages
             /\ passed[d][p] \in 0..Len(raw[d][p])
  <2>1. /\ \A i \in DOMAIN raw[d][p] : Genuine(raw[d][p][i], d, p)
        /\ \A i \in DOMAIN canon[d][p] : Genuine(canon[d][p][i], d, p)
        /\ passed[d][p] \in Nat /\ passed[d][p] <= Len(raw[d][p]) /\ raw[d][p] \in Seq(Messages)
    BY DEF PipelineInv, ShapeInv, TopicsInv, TopicInv
  <2>2. \A m : Genuine(m, d, p) => m \in Messages BY DEF Genuine
  <2>3. Len(raw[d][p]) \in Nat BY <2>1
  <2> HIDE DEF Genuine
  <2> QED BY <2>1, <2>2, <2>3
<1>4. dropped \subseteq ChangeIds BY DEF PipelineInv, ShapeInv, TopicsInv, Changes
<1> QED BY <1>1, <1>2, <1>3, <1>4 DEF TypeOK

\* Batches stay ranges of what was taken of a stream, and every message is
\* one that some change of an item can have.
THEOREM TypeCorrect == Spec => []TypeOK
  BY InvariantHolds, InvType, PTL

\* A drained pipeline has delivered every change that has an event, or has
\* used up its retries: AfterFailure splits a batch without losing a change.
THEOREM NothingLost == Spec => []NothingLostSilently
  BY InvariantHolds, InvNothingLost, PTL

\* However batches are split and sent again, and however often the normalizer
\* repeats its own, the events of a record share a partition and are first
\* seen there in the order of its changes.
THEOREM SeenInOrder == Spec => []FirstSeenInOrder
  BY InvariantHolds, InvFirstSeen, PTL

\* The repetitions never end with an older event of a record, unless one of
\* its changes was dropped.
THEOREM LatestLast == Spec => []LatestComesLast
  BY InvariantHolds, InvLatestLast, PTL


\* The changes of a record in its shard, and what they were from and to.
Own(r) == {k \in 1..Len(stream[Shard[r]]) : stream[Shard[r]][k].rec = r}
New(r, k) == stream[Shard[r]][k].new
Old(r, k) == stream[Shard[r]][k].old

\* A record's changes are linked: the first is from nothing, every other from
\* the image of the one before, and the last is what the table holds.
LinkedInv ==
    \A r \in Records :
        /\ Own(r) = {} => table[r] = NoImage
        /\ \A k \in Own(r) :
            /\ (\A j \in Own(r) : j >= k) => Old(r, k) = NoImage
            /\ (\A j \in Own(r) : j <= k) => table[r] = New(r, k)
            /\ \A j \in Own(r) :
                (j < k /\ \A l \in Own(r) : l <= j \/ l >= k) => Old(r, k) = New(r, j)

LEMMA WriteLinks ==
    ASSUME StreamsInv, LinkedInv, NEW r \in Records, Write(r)
    PROVE  LinkedInv'
<1>1. PICK new \in Images[r] \cup {NoImage} :
        /\ table' = [table EXCEPT ![r] = new]
        /\ stream' = [stream EXCEPT ![Shard[r]] =
                        Append(@, [rec |-> r, old |-> table[r], new |-> new])]
  BY DEF Write
<1> DEFINE s == Shard[r]
           change == [rec |-> r, old |-> table[r], new |-> new]
<1>13. PICK n : n = Len(stream[s]) + 1 OBVIOUS
<1>2. /\ s \in Shards /\ stream \in [Shards -> Seq(ChangeRecords)] /\ stream[s] \in Seq(ChangeRecords)
      /\ \A q \in Records : Shard[q] \in Shards /\ stream[Shard[q]] \in Seq(ChangeRecords)
  BY DEF StreamsInv, Shards
<1>3. /\ change.rec = r /\ change.old = table[r] /\ change.new = new OBVIOUS
<1>4. PICK w : w = change OBVIOUS
<1>5. /\ stream'[s] = Append(stream[s], w) /\ \A t \in Shards : t # s => stream'[t] = stream[t]
      /\ w.rec = r /\ w.old = table[r] /\ w.new = new
  BY <1>1, <1>2, <1>3, <1>4
<1> HIDE DEF change
<1>6. /\ n \in Nat /\ Len(stream[s]) \in Nat /\ Len(stream'[s]) = n /\ stream'[s][n] = w
      /\ \A k \in 1..Len(stream[s]) : stream'[s][k] = stream[s][k] /\ k < n /\ k \in 1..n
      /\ \A k \in 1..n : k = n \/ k \in 1..Len(stream[s])
      /\ n \in 1..n
  BY <1>2, <1>5, <1>13
<1>0. Shard[r] = s OBVIOUS
<1> HIDE DEF s
<1>7. /\ table'[r] = new /\ \A q \in Records : q # r => table'[q] = table[q]
  BY <1>1 DEF StreamsInv
<1>8. ASSUME NEW q \in Records, q # r
      PROVE  /\ Own(q)' = Own(q)
             /\ \A k \in Own(q) : New(q, k)' = New(q, k) /\ Old(q, k)' = Old(q, k)
  <2>1. CASE Shard[q] # s BY <1>2, <1>5, <2>1 DEF Own, New, Old
  <2>2. CASE Shard[q] = s
    <3>1. \A k \in Own(q)' : k \in Own(q)
      <4> SUFFICES ASSUME NEW k \in 1..Len(stream'[s]), stream'[s][k].rec = q PROVE k \in Own(q)
        BY <2>2 DEF Own
      <4>1. k # n BY <1>5, <1>6, <1>8
      <4> QED BY <1>6, <2>2, <4>1 DEF Own
    <3>2. \A k \in Own(q) : k \in Own(q)' /\ New(q, k)' = New(q, k) /\ Old(q, k)' = Old(q, k)
      BY <1>6, <2>2 DEF Own, New, Old
    <3> QED BY <3>1, <3>2
  <2> QED BY <2>1, <2>2
<1>9. /\ Own(r)' = Own(r) \cup {n} /\ n \notin Own(r)
      /\ \A k \in Own(r) : k < n /\ New(r, k)' = New(r, k) /\ Old(r, k)' = Old(r, k)
      /\ New(r, n)' = new /\ Old(r, n)' = table[r]
  <2>1. \A k \in Own(r)' : k \in Own(r) \/ k = n BY <1>0, <1>6 DEF Own
  <2>2. n \in Own(r)' /\ New(r, n)' = new /\ Old(r, n)' = table[r]
    <3>1. n \in 1..Len(stream'[s]) /\ stream'[s][n].rec = r BY <1>5, <1>6
    <3>2. stream'[s][n].new = new /\ stream'[s][n].old = table[r] BY <1>5, <1>6
    <3>3. n \in Own(r)' BY <1>0, <3>1 DEF Own
    <3> QED BY <1>0, <3>2, <3>3 DEF New, Old
  <2>3. \A k \in Own(r) : /\ k \in Own(r)' /\ k < n /\ New(r, k)' = New(r, k) /\ Old(r, k)' = Old(r, k)
    BY <1>0, <1>6 DEF Own, New, Old
  <2>4. n \notin Own(r) BY <1>0, <1>6 DEF Own
  <2> QED BY <2>1, <2>2, <2>3, <2>4
<1>10. \A q \in Records : Own(q) \subseteq Nat BY <1>2 DEF Own
<1> SUFFICES ASSUME NEW q \in Records
             PROVE  /\ Own(q)' = {} => table'[q] = NoImage
                    /\ \A k \in Own(q)' :
                        /\ (\A j \in Own(q)' : j >= k) => Old(q, k)' = NoImage
                        /\ (\A j \in Own(q)' : j <= k) => table'[q] = New(q, k)'
                        /\ \A j \in Own(q)' :
                            (j < k /\ \A l \in Own(q)' : l <= j \/ l >= k) => Old(q, k)' = New(q, j)'
  BY DEF LinkedInv
<1>11. CASE q # r BY <1>7, <1>8, <1>11 DEF LinkedInv
<1>12. CASE q = r
  <2>1. n \in Own(r)' BY <1>9
  <2>2. ASSUME NEW k \in Own(r)'
        PROVE  /\ (\A j \in Own(r)' : j >= k) => Old(r, k)' = NoImage
               /\ (\A j \in Own(r)' : j <= k) => table'[r] = New(r, k)'
               /\ \A j \in Own(r)' :
                    (j < k /\ \A l \in Own(r)' : l <= j \/ l >= k) => Old(r, k)' = New(r, j)'
    <3>1. CASE k \in Own(r)
      <4>1. \A j \in Own(r)' : j < k => j \in Own(r) BY <1>6, <1>9, <1>10, <3>1
      <4>2. ~(\A j \in Own(r)' : j <= k) BY <1>6, <1>9, <1>10, <3>1
      <4> QED BY <1>9, <3>1, <4>1, <4>2 DEF LinkedInv
    <3>2. CASE k = n
      <4>1. (\A j \in Own(r)' : j >= k) => Own(r) = {} BY <1>6, <1>9, <1>10, <3>2
      <4>2. ASSUME NEW j \in Own(r)', j < k, \A l \in Own(r)' : l <= j \/ l >= k
            PROVE  Old(r, k)' = New(r, j)'
        <5>1. j \in Own(r) BY <1>6, <1>9, <3>2, <4>2
        <5>2. \A l \in Own(r) : l <= j BY <1>6, <1>9, <1>10, <3>2, <4>2
        <5>3. table[r] = New(r, j) BY <5>1, <5>2 DEF LinkedInv
        <5>4. New(r, j)' = New(r, j) BY <1>9, <5>1
        <5>5. Old(r, k)' = table[r] BY <1>9, <3>2
        <5> QED BY <5>3, <5>4, <5>5
      <4>3. Own(r) = {} => table[r] = NoImage BY DEF LinkedInv
      <4>4. Old(r, k)' = table[r] /\ New(r, k)' = new BY <1>9, <3>2
      <4> QED BY <1>7, <4>1, <4>2, <4>3, <4>4
    <3> QED BY <1>9, <3>1, <3>2
  <2> QED BY <1>12, <2>1, <2>2
<1> QED BY <1>11, <1>12

LEMMA StepLinks ==
    ASSUME StreamsInv, LinkedInv, [Next]_vars
    PROVE  LinkedInv'
<1>1. CASE table' = table /\ stream' = stream BY <1>1 DEF LinkedInv, Own, New, Old
<1>2. CASE \E r \in Records : Write(r) BY <1>2, WriteLinks
<1> QED BY <1>1, <1>2 DEF Next, Work, vars, Poll, Produce, ProduceFails, Normalize, NormalizeFails

\* A table's stream tells each record's history: a change's old image is the
\* new image of the change before, and the table holds that of the last.
THEOREM ChangesAreLinked == Spec => []LinkedInv
<1>1. Init => LinkedInv
  <2> SUFFICES ASSUME Init, NEW r \in Records PROVE Own(r) = {} /\ table[r] = NoImage
    BY DEF LinkedInv
  <2>1. stream[Shard[r]] = <<>> /\ table[r] = NoImage BY DEF Init, Shards
  <2> QED BY <2>1 DEF Own
<1>2. StreamsInv /\ LinkedInv /\ [Next]_vars => LinkedInv' BY StepLinks
<1>3. PipelineInv => StreamsInv BY DEF PipelineInv, ShapeInv
<1> QED BY <1>1, <1>2, <1>3, InvariantHolds, PTL DEF Spec

-----------------------------------------------------------------------------
\* An event that says whether an order is on hold says what the change made
\* of it, and a change without one leaves it as it was.
LEMMA HoldEventFacts ==
    ASSUME NEW new, NEW old, NEW unset, "workOrderId" \in DOMAIN new.ids, new # NoImage,
           unset = NoEventType, old = NoImage \/ old.pk # unset
    PROVE  /\ EventType("MES", new, old) \in HoldTypes =>
                (EventType("MES", new, old) = "HOLD_PLACED" <=> new.status = "HOLD")
           /\ EventType("MES", new, old) \notin HoldTypes =>
                (new.status = "HOLD" <=> old.status = "HOLD")
<1>1. unset = NoImage.pk /\ unset = NoImage.status /\ unset # "HOLD"
  <2>1. NoEventType = NoImage.pk /\ NoEventType = NoImage.status
    BY DEF NoEventType, NoImage
  <2>2. NoEventType # "HOLD" BY Zenon DEF NoEventType
  <2> QED BY <2>1, <2>2
<1>2. unset \notin HoldTypes
  <2>1. NoEventType \notin HoldTypes BY Zenon DEF NoEventType, HoldTypes
  <2> QED BY <2>1
<1>3. EventType("MES", new, old) = MesEventType(new, old) BY DEF EventType
<1>4. IsNew(old) <=> old.pk = unset BY DEF IsNew, NoEventType
<1>5. CASE old = NoImage
  <2>1. MesEventType(new, old) = MesNewEventType(new) BY <1>1, <1>4, <1>5 DEF MesEventType
  <2> HIDE DEF NoEventType
  <2>2. MesNewEventType(new) = "HOLD_PLACED" <=> new.status = "HOLD"
    BY <1>2 DEF MesNewEventType, HoldTypes
  <2>3. MesNewEventType(new) # "HOLD_RELEASED" BY <1>2 DEF MesNewEventType, HoldTypes
  <2>4. MesNewEventType(new) = "WORK_ORDER_COMPLETED" => new.status # "HOLD"
    BY <1>2 DEF MesNewEventType, HoldTypes
  <2> QED BY <1>1, <1>3, <1>5, <2>1, <2>2, <2>3, <2>4 DEF HoldTypes
<1>6. CASE old.pk # unset
  <2> DEFINE change == WorkOrderChange(new, old)
  <2>1. MesEventType(new, old) \in {change, "OPERATION_COMPLETED"}
        /\ (MesEventType(new, old) # change => change = unset)
    BY <1>4, <1>6 DEF MesEventType, MesChange
  <2> HIDE DEF NoEventType
  <2>2. /\ change \in HoldTypes => (change = "HOLD_PLACED" <=> new.status = "HOLD")
        /\ change \notin HoldTypes => (new.status = "HOLD" <=> old.status = "HOLD")
    BY <1>2 DEF WorkOrderChange, Becomes, HoldTypes
  <2> HIDE DEF change
  <2> QED BY <1>2, <1>3, <2>1, <2>2 DEF HoldTypes
<1> QED BY <1>5, <1>6

\* An order that no later change puts on or off hold stays what it was.
LEMMA HoldStays ==
    ASSUME StreamsInv, LinkedInv, NEW r \in Records, NEW first \in Own(r),
           \A k \in Own(r) : k > first =>
                (New(r, k).status = "HOLD" <=> Old(r, k).status = "HOLD")
    PROVE  \A k \in Own(r) : k >= first =>
                (New(r, k).status = "HOLD" <=> New(r, first).status = "HOLD")
<1> DEFINE Same(k) == New(r, k).status = "HOLD" <=> New(r, first).status = "HOLD"
           T == {k \in Own(r) : k >= first /\ ~Same(k)}
<1>1. Own(r) \subseteq Nat
  <2>1. stream[Shard[r]] \in Seq(ChangeRecords) BY DEF StreamsInv, Shards
  <2> QED BY <2>1 DEF Own
<1>2. SUFFICES ASSUME T # {} PROVE FALSE OBVIOUS
<1>3. PICK k \in T : \A j \in T : k <= j
  <2>1. T \subseteq Nat BY <1>1
  <2> HIDE DEF T
  <2> QED BY <1>2, <2>1, LeastNumber
<1>4. k \in Own(r) /\ k > first /\ ~Same(k) /\ k \in Nat /\ first \in Nat BY <1>1
<1> DEFINE E == {j \in Own(r) : j < k}
<1>5. PICK j \in E : \A l \in E : l <= j
  <2>1. first \in E /\ E \subseteq 0..k BY <1>1, <1>4
  <2> HIDE DEF E
  <2> QED BY <1>4, <2>1, GreatestNumber
<1>6. j \in Own(r) /\ j < k /\ first <= j
  <2>1. first \in E BY <1>4
  <2> QED BY <1>5, <2>1
<1>7. \A l \in Own(r) : l <= j \/ l >= k BY <1>1, <1>4, <1>5
<1>8. Old(r, k) = New(r, j) BY <1>4, <1>6, <1>7 DEF LinkedInv
<1>9. Same(j)
  <2>1. j \notin T BY <1>1, <1>3, <1>4, <1>6
  <2> QED BY <1>1, <1>4, <1>6, <2>1
<1>10. New(r, k).status = "HOLD" <=> Old(r, k).status = "HOLD" BY <1>4
<1> QED BY <1>4, <1>8, <1>9, <1>10

LEMMA InvHoldView == PipelineInv /\ LinkedInv => HoldViewIsCurrent
<1> SUFFICES ASSUME PipelineInv, LinkedInv, Drained, NEW r \in WorkOrders,
                    \A c \in Changes : ChangeAt(c).rec = r => c \notin dropped /\ ChangeAt(c).new # NoImage
             PROVE  (table[r].status = "HOLD") <=>
                    (HoldEvents(r) # <<>> /\ HoldEvents(r)[Len(HoldEvents(r))].type = "HOLD_PLACED")
  BY DEF HoldViewIsCurrent
<1> DEFINE s == Shard[r]
           L == HoldLog(r)
           T(k) == TypeAt(<<s, k>>)
<1>0. StreamsInv BY DEF PipelineInv, ShapeInv
<1>1. /\ r \in Records /\ Domain[r] = "MES" /\ table[r] # NoImage
      /\ \A i \in Images[r] : "workOrderId" \in DOMAIN i.ids
  BY DEF WorkOrders
<1>2. PICK m \in Nat : m = Len(stream[s]) BY <1>0, <1>1 DEF StreamsInv, Shards
<1>3. Own(r) \subseteq 1..m /\ Own(r) # {} BY <1>1, <1>2 DEF Own, LinkedInv
<1>4. ASSUME NEW k \in Own(r)
      PROVE  /\ <<s, k>> \in Changes /\ ChangeAt(<<s, k>>).rec = r /\ DomainOf(<<s, k>>) = "MES"
             /\ <<s, k>> \notin dropped
             /\ New(r, k) \in Images[r] /\ Old(r, k) \in Images[r] \cup {NoImage}
             /\ New(r, k) = ChangeAt(<<s, k>>).new
             /\ T(k) = EventType("MES", New(r, k), Old(r, k))
  <2>1. k \in 1..Len(stream[s]) /\ s \in Shards BY <1>1, <1>2, <1>3 DEF Shards
  <2>2. <<s, k>> \in Changes BY <1>0, <2>1, ChangesAre
  <2>3. /\ ChangeAt(<<s, k>>).rec = r /\ New(r, k) = ChangeAt(<<s, k>>).new
        /\ Old(r, k) = ChangeAt(<<s, k>>).old
    BY DEF Own, ChangeAt, New, Old
  <2>4. New(r, k) \in Images[r] /\ Old(r, k) \in Images[r] \cup {NoImage}
    BY <1>0, <2>2, <2>3, ChangeFacts
  <2>5. T(k) = EventType("MES", New(r, k), Old(r, k)) BY <1>1, <2>3 DEF TypeAt
  <2> QED BY <1>1, <2>2, <2>3, <2>4, <2>5 DEF DomainOf
<1>5. ASSUME NEW k \in Own(r)
      PROVE  /\ T(k) \in HoldTypes => (T(k) = "HOLD_PLACED" <=> New(r, k).status = "HOLD")
             /\ T(k) \notin HoldTypes => (New(r, k).status = "HOLD" <=> Old(r, k).status = "HOLD")
             /\ T(k) \in HoldTypes => HasEvent(<<s, k>>)
  <2> DEFINE unset == NoEventType
  <2>1. \A i \in Images[r] : i.pk # unset /\ i # NoImage
    <3>1. NoImage.pk = unset BY DEF NoEventType, NoImage
    <3>2. \A i \in Images[r] : i.pk # NoImage.pk BY <1>1, ItemsAssumption
    <3> QED BY <3>1, <3>2
  <2>2. NoEventType \notin HoldTypes BY Zenon DEF NoEventType, HoldTypes
  <2> HIDE DEF unset
  <2>3. unset = NoEventType BY DEF unset
  <2>4. PICK new : new = New(r, k) OBVIOUS
  <2>5. PICK old : old = Old(r, k) OBVIOUS
  <2>6. "workOrderId" \in DOMAIN new.ids /\ new # NoImage /\ (old = NoImage \/ old.pk # unset)
    BY <1>1, <1>4, <2>1, <2>4, <2>5
  <2>7. /\ EventType("MES", new, old) \in HoldTypes =>
                (EventType("MES", new, old) = "HOLD_PLACED" <=> new.status = "HOLD")
        /\ EventType("MES", new, old) \notin HoldTypes =>
                (new.status = "HOLD" <=> old.status = "HOLD")
    BY <2>3, <2>6, HoldEventFacts
  <2>8. T(k) = EventType("MES", new, old) BY <1>4, <2>4, <2>5
  <2> QED BY <2>2, <2>4, <2>5, <2>7, <2>8 DEF HasEvent
<1>6. PICK last \in Own(r) : \A k \in Own(r) : k <= last
  <2>1. Own(r) \subseteq 0..m BY <1>3
  <2> QED BY <1>3, <2>1, GreatestNumber
<1>7. table[r] = New(r, last) BY <1>1, <1>6 DEF LinkedInv
<1>8. PICK p : p = PartitionOf[EntityId("MES", table[r])] OBVIOUS
<1>9. \A k \in Own(r) : KeyPartition(<<s, k>>) = p /\ p \in Partitions
  <2> SUFFICES ASSUME NEW k \in Own(r) PROVE KeyPartition(<<s, k>>) = p /\ p \in Partitions
    OBVIOUS
  <2>1. PICK i \in Images[r] : i = New(r, k) BY <1>4
  <2>2. PICK j \in Images[r] : j = table[r] BY <1>4, <1>6, <1>7
  <2>3. /\ EntityId("MES", i) = EntityId("MES", j)
        /\ PartitionOf[EntityId("MES", i)] \in Partitions
    BY <1>1, ItemsAssumption
  <2>4. PICK c : c = <<s, k>> OBVIOUS
  <2>5. DomainOf(c) = "MES" /\ ChangeAt(c).new = i BY <1>4, <2>1, <2>4
  <2>6. KeyPartition(c) = PartitionOf[EntityId("MES", i)] BY <2>5 DEF KeyPartition
  <2> QED BY <1>8, <2>2, <2>3, <2>4, <2>6
<1>10. p \in Partitions /\ "MES" \in Domains /\ L = canon["MES"][p]
  BY <1>1, <1>6, <1>8, <1>9 DEF HoldLog, Domains
<1>11. L \in Seq(Messages) BY <1>10 DEF PipelineInv, ShapeInv, TopicsInv, TopicInv
<1>12. \A k \in Own(r) : At("MES", p, <<s, k>>) = Places(L, <<s, k>>) BY <1>10, AtArePlaces
<1>13. ASSUME NEW k \in Own(r), T(k) \in HoldTypes PROVE Places(L, <<s, k>>) # {}
  <2>1. Arrived(<<s, k>>)
    BY <1>4, <1>5, <1>13, InvNothingLost DEF NothingLostSilently
  <2>2. PICK q \in Partitions : At(DomainOf(<<s, k>>), q, <<s, k>>) # {} BY <2>1 DEF Arrived
  <2>3. KeyPartition(<<s, k>>) = q BY <1>4, <2>2, AtFacts
  <2> QED BY <1>4, <1>9, <1>12, <2>2, <2>3
<1>14. ASSUME NEW i \in HoldPlaces(r)
       PROVE  /\ i \in 1..Len(L)
              /\ \E k \in Own(r) : L[i].id[1] = <<s, k>> /\ L[i].type = T(k) /\ T(k) \in HoldTypes
  <2>1. i \in DOMAIN L /\ ChangeAt(L[i].id[1]).rec = r /\ L[i].type \in HoldTypes
    BY DEF HoldPlaces
  <2>2. Genuine(L[i], "MES", p) BY <1>10, <2>1 DEF PipelineInv, ShapeInv, TopicsInv, TopicInv
  <2>3. PICK c : c = L[i].id[1] OBVIOUS
  <2>4. c \in Changes /\ L[i].type = TypeAt(c) BY <2>2, <2>3 DEF Genuine
  <2>5. c = <<c[1], c[2]>> /\ c[1] = s /\ c[2] \in 1..Len(stream[c[1]])
    BY <1>0, <2>1, <2>3, <2>4, ChangeFacts
  <2>6. c[2] \in Own(r) /\ c = <<s, c[2]>> BY <2>1, <2>3, <2>5 DEF Own, ChangeAt
  <2> QED BY <1>11, <2>1, <2>3, <2>4, <2>6
<1>15. ASSUME NEW k \in Own(r), T(k) \in HoldTypes, NEW i \in Places(L, <<s, k>>)
       PROVE  i \in HoldPlaces(r)
  <2>1. i \in DOMAIN L /\ L[i].id[1] = <<s, k>> BY DEF Places
  <2>2. Genuine(L[i], "MES", p) BY <1>10, <2>1 DEF PipelineInv, ShapeInv, TopicsInv, TopicInv
  <2>3. L[i].type = T(k) BY <2>1, <2>2 DEF Genuine
  <2> QED BY <1>4, <1>15, <2>1, <2>3 DEF HoldPlaces
<1>16. ASSUME NEW j \in Own(r), NEW k \in Own(r), j < k, T(k) \in HoldTypes,
              NEW i \in Places(L, <<s, j>>)
       PROVE  \E l \in Places(L, <<s, k>>) : i < l
  <2>1. /\ <<s, j>> \in Changes /\ <<s, k>> \in Changes /\ HasEvent(<<s, k>>)
        /\ ChangeAt(<<s, j>>).rec = r /\ ChangeAt(<<s, k>>).rec = r
        /\ DomainOf(<<s, j>>) = "MES" /\ DomainOf(<<s, k>>) = "MES"
    BY <1>4, <1>5, <1>16
  <2>2. \A e \in dropped : ChangeAt(e).rec # r
    BY DEF PipelineInv, ShapeInv, TopicsInv
  <2>3. LatestComesLast BY InvLatestLast
  <2>4. PICK b : b = <<s, j>> OBVIOUS
  <2>5. PICK c : c = <<s, k>> OBVIOUS
  <2>6. b[1] = c[1] /\ b[2] < c[2] BY <1>16, <2>4, <2>5
  <2>7. \A x \in At(DomainOf(b), p, b) : \E y \in At(DomainOf(c), p, c) : x < y
    BY <1>10, <2>1, <2>2, <2>3, <2>4, <2>5, <2>6 DEF LatestComesLast
  <2> QED BY <1>12, <2>1, <2>4, <2>5, <2>7
<1> HIDE DEF s, L, T
<1>17. IsFiniteSet(HoldPlaces(r)) /\ HoldPlaces(r) \subseteq Int /\ HoldPlaces(r) \subseteq 0..Len(L)
  <2>1. Len(L) \in Nat /\ HoldPlaces(r) \subseteq 1..Len(L) BY <1>11, <1>14
  <2>2. IsFiniteSet(1..Len(L)) BY <2>1, FS_Interval
  <2> QED BY <2>1, <2>2, FS_Subset
<1>18. HoldEvents(r) = Kept(L, HoldPlaces(r)) BY DEF HoldEvents, L
<1>19. CASE HoldPlaces(r) = {}
  <2>1. HoldEvents(r) = <<>> BY <1>17, <1>18, <1>19, LastKept
  <2>2. \A k \in Own(r) : T(k) \notin HoldTypes
    <3> SUFFICES ASSUME NEW k \in Own(r), T(k) \in HoldTypes PROVE FALSE OBVIOUS
    <3>1. PICK i : i \in Places(L, <<s, k>>) BY <1>13
    <3> QED BY <1>15, <1>19, <3>1
  <2>3. PICK first \in Own(r) : \A k \in Own(r) : first <= k
    <3>1. Own(r) \subseteq Nat BY <1>3
    <3> QED BY <1>3, <3>1, LeastNumber
  <2>4. Old(r, first) = NoImage
    <3>1. \A k \in Own(r) : k >= first BY <1>3, <2>3
    <3> QED BY <1>1, <2>3, <3>1 DEF LinkedInv
  <2>5. NoImage.status # "HOLD"
    <3>1. NoImage.status = NoEventType BY DEF NoImage, NoEventType
    <3>2. NoEventType # "HOLD" BY Zenon DEF NoEventType
    <3> QED BY <3>1, <3>2
  <2>6. New(r, first).status # "HOLD" BY <1>5, <2>2, <2>4, <2>5
  <2>7. \A k \in Own(r) : k > first => (New(r, k).status = "HOLD" <=> Old(r, k).status = "HOLD")
    BY <1>5, <2>2
  <2>8. last >= first BY <1>3, <2>3
  <2>9. New(r, last).status # "HOLD" BY <1>0, <1>1, <2>6, <2>7, <2>8, HoldStays
  <2> QED BY <1>7, <2>1, <2>9
<1>20. CASE HoldPlaces(r) # {}
  <2>1. PICK i \in HoldPlaces(r) : \A j \in HoldPlaces(r) : j <= i
    <3>1. Len(L) \in Nat BY <1>11
    <3> QED BY <1>17, <1>20, <3>1, GreatestNumber
  <2>2. HoldEvents(r) # <<>> /\ HoldEvents(r)[Len(HoldEvents(r))] = L[i]
    BY <1>17, <1>18, <2>1, LastKept
  <2>3. PICK first \in Own(r) : /\ L[i].id[1] = <<s, first>> /\ L[i].type = T(first)
                                /\ T(first) \in HoldTypes
    BY <1>14
  <2>4. i \in Places(L, <<s, first>>)
    <3>1. i \in DOMAIN L BY <1>11, <1>14
    <3> QED BY <2>3, <3>1 DEF Places
  <2>5. ASSUME NEW k \in Own(r), k > first PROVE T(k) \notin HoldTypes
    <3> SUFFICES ASSUME T(k) \in HoldTypes PROVE FALSE OBVIOUS
    <3>1. first < k BY <1>3, <2>5
    <3>2. PICK l \in Places(L, <<s, k>>) : i < l BY <1>16, <2>4, <3>1
    <3>3. l \in HoldPlaces(r) BY <1>15
    <3> QED BY <1>17, <2>1, <3>2, <3>3
  <2>6. \A k \in Own(r) : k > first => (New(r, k).status = "HOLD" <=> Old(r, k).status = "HOLD")
    BY <1>5, <2>5
  <2>7. last >= first BY <1>3, <1>6
  <2>8. New(r, last).status = "HOLD" <=> New(r, first).status = "HOLD"
    BY <1>0, <1>1, <2>6, <2>7, HoldStays
  <2> QED BY <1>5, <1>7, <2>2, <2>3, <2>8
<1> QED BY <1>19, <1>20

\* Whoever follows the hold events of a drained pipeline knows what is on
\* hold: no way on or off hold is without an event, and the latest is last.
THEOREM HoldsAreKnown == Spec => []HoldViewIsCurrent
  BY InvariantHolds, ChangesAreLinked, InvHoldView, PTL
=============================================================================
