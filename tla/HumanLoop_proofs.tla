--------------------------- MODULE HumanLoop_proofs ---------------------------
(***************************************************************************)
(* Questions and resumed sessions, for every set of agents and questions,  *)
(* every number of answers and every failure.  The argument is about the   *)
(* question's stream: each record starts where the one before it ended,    *)
(* so every resume of the asking agent belongs to one record that put the  *)
(* question, and the first answer is always such a resume.  The dashboard  *)
(* of LiveFeed leaves this as it is, and its lists are then reasoned about *)
(* item by item: the notification that is on its way, or its absence,      *)
(* accounts for what a list does not show yet.                             *)
(***************************************************************************)
EXTENDS LiveFeed, Subsequences_proofs, SequenceTheorems, FiniteSetTheorems, TLAPS

StoredRows(q) == {r \in [status : {"PENDING", "ANSWERED"}, answer : {""} \cup Options,
                         asker : Agents] : r.asker = AskerOf[q]}
Records(q) == [old : StoredRows(q) \cup {NoRow}, new : StoredRows(q)]

Resumptions == [agent : Agents, answer : {""} \cup Options]

LoopTypes ==
    /\ row = [q \in Questions |-> row[q]]
    /\ \A q \in Questions : row[q] \in StoredRows(q) \cup {NoRow}
    /\ changes = [q \in Questions |-> changes[q]]
    /\ \A q \in Questions : changes[q] \in Seq(Records(q))
    /\ seen \in [Agents -> [Questions -> Nat]]
    /\ heard = [q \in Questions |-> heard[q]]
    /\ \A q \in Questions : heard[q] \in Seq(Resumptions)

\* The stream of a question: each record begins where the last one ended.
Chained ==
    \A q \in Questions :
        /\ changes[q] = <<>> => row[q] = NoRow
        /\ changes[q] # <<>> => row[q] = changes[q][Len(changes[q])].new
        /\ \A i \in 1..Len(changes[q]) :
            IF i = 1 THEN changes[q][i].old = NoRow /\ changes[q][i].new.status = "PENDING"
            ELSE changes[q][i].old = changes[q][i - 1].new

NotAhead == \A a \in Agents, q \in Questions : seen[a][q] <= Len(changes[q])

Asker(q) == AskerOf[q]

\* The records so far that resumed the asking agent, or should have.
ResumedBy(q) == {i \in 1..seen[Asker(q)][q] : Resumes(Asker(q), changes[q][i])}
PutAt(q) == {i \in 1..Len(changes[q]) : changes[q][i].new.status = "PENDING"}

HeardCounted ==
    \A q \in Questions :
        /\ q \notin twice => Len(heard[q]) <= Cardinality(ResumedBy(q))
        /\ \A i \in 1..Len(heard[q]) : heard[q][i].agent = AskerOf[q]
        /\ ResumedBy(q) # {} => heard[q] # <<>> \/ q \in unheard

LoopInv == LoopTypes /\ Chained /\ NotAhead /\ HeardCounted

LEMMA LengthTypes ==
    ASSUME LoopTypes, NEW q \in Questions
    PROVE  Len(changes[q]) \in Nat /\ Len(heard[q]) \in Nat
<1>1. /\ changes[q] \in Seq(Records(q))
      /\ heard[q] \in Seq(Resumptions)
  BY DEF LoopTypes
<1>2. Len(changes[q]) \in Nat BY <1>1
<1>3. Len(heard[q]) \in Nat BY <1>1
<1> QED BY <1>2, <1>3

\* A row put or answered is the question's.
LEMMA StoreTypes ==
    ASSUME LoopTypes, Chained, NotAhead, NEW q \in Questions, NEW new \in StoredRows(q),
           row[q] = NoRow => new.status = "PENDING", Store(q, new)
    PROVE  /\ row' = [p \in Questions |-> row'[p]]
           /\ \A p \in Questions : row'[p] \in StoredRows(p) \cup {NoRow}
           /\ changes' = [p \in Questions |-> changes'[p]]
           /\ \A p \in Questions : changes'[p] \in Seq(Records(p))
           /\ \A p \in Questions : Len(changes[p]) <= Len(changes'[p])
           /\ \A p \in Questions : \A i \in 1..Len(changes[p]) : changes'[p][i] = changes[p][i]
           /\ Chained'
<1> DEFINE c == [old |-> row[q], new |-> new]
<1>1. /\ row' = [row EXCEPT ![q] = new] /\ changes' = [changes EXCEPT ![q] = Append(changes[q], c)]
  BY DEF Store
<1>2. c \in Records(q) /\ c.old = row[q] /\ c.new = new BY DEF LoopTypes, Records
<1> HIDE DEF c
<1>3. /\ row' = [p \in Questions |-> row'[p]]
      /\ row'[q] = new /\ \A p \in Questions : p # q => row'[p] = row[p]
  BY <1>1 DEF LoopTypes
<1>4. /\ changes' = [p \in Questions |-> changes'[p]]
      /\ changes'[q] = Append(changes[q], c)
      /\ \A p \in Questions : p # q => changes'[p] = changes[p]
  BY <1>1 DEF LoopTypes
<1>5. /\ changes[q] \in Seq(Records(q)) /\ changes'[q] \in Seq(Records(q))
      /\ Len(changes[q]) \in Nat /\ Len(changes'[q]) = Len(changes[q]) + 1
      /\ changes'[q][Len(changes[q]) + 1] = c
      /\ \A i \in 1..Len(changes[q]) : changes'[q][i] = changes[q][i]
  <2>1. changes[q] \in Seq(Records(q)) BY DEF LoopTypes
  <2> QED BY <1>2, <1>4, <2>1
<1>6. \A p \in Questions : changes'[p] \in Seq(Records(p)) BY <1>4, <1>5 DEF LoopTypes
<1>7. /\ \A p \in Questions : Len(changes[p]) <= Len(changes'[p])
      /\ \A p \in Questions : \A i \in 1..Len(changes[p]) : changes'[p][i] = changes[p][i]
  <2> SUFFICES ASSUME NEW p \in Questions
               PROVE  /\ Len(changes[p]) <= Len(changes'[p])
                      /\ \A i \in 1..Len(changes[p]) : changes'[p][i] = changes[p][i]
    OBVIOUS
  <2>1. Len(changes[p]) \in Nat BY LengthTypes
  <2> QED BY <1>4, <1>5, <2>1
<1>8. Chained'
  <2> SUFFICES ASSUME NEW p \in Questions
               PROVE  /\ changes'[p] = <<>> => row'[p] = NoRow
                      /\ changes'[p] # <<>> => row'[p] = changes'[p][Len(changes'[p])].new
                      /\ \A i \in 1..Len(changes'[p]) :
                          IF i = 1 THEN changes'[p][i].old = NoRow
                                        /\ changes'[p][i].new.status = "PENDING"
                          ELSE changes'[p][i].old = changes'[p][i - 1].new
    BY DEF Chained
  <2>1. CASE p # q BY <1>3, <1>4, <2>1 DEF Chained
  <2>2. CASE p = q
    <3>1. changes'[q] # <<>> /\ row'[q] = changes'[q][Len(changes'[q])].new
      BY <1>2, <1>3, <1>5
    <3>2. ASSUME NEW i \in 1..Len(changes'[q])
          PROVE  IF i = 1 THEN changes'[q][i].old = NoRow
                               /\ changes'[q][i].new.status = "PENDING"
                 ELSE changes'[q][i].old = changes'[q][i - 1].new
      <4>1. CASE i \in 1..Len(changes[q])
        <5>1. changes'[q][i] = changes[q][i] BY <1>5, <4>1
        <5>2. i # 1 => i - 1 \in 1..Len(changes[q]) BY <1>5, <4>1
        <5>3. i # 1 => changes'[q][i - 1] = changes[q][i - 1] BY <1>5, <5>2
        <5>4. IF i = 1 THEN changes[q][i].old = NoRow /\ changes[q][i].new.status = "PENDING"
              ELSE changes[q][i].old = changes[q][i - 1].new
          BY <4>1 DEF Chained
        <5> QED BY <5>1, <5>3, <5>4
      <4>2. CASE i = Len(changes[q]) + 1
        <5>1. CASE changes[q] = <<>>
          <6>1. i = 1 /\ row[q] = NoRow BY <4>2, <5>1 DEF Chained
          <6> QED BY <1>2, <1>5, <4>2, <6>1
        <5>2. CASE changes[q] # <<>>
          <6>1. Len(changes[q]) \in 1..Len(changes[q]) BY <1>5, <5>2
          <6>2. row[q] = changes[q][Len(changes[q])].new BY <5>2 DEF Chained
          <6> QED BY <1>2, <1>5, <4>2, <6>1, <6>2
        <5> QED BY <5>1, <5>2
      <4> QED BY <1>5, <4>1, <4>2
    <3> QED BY <2>2, <3>1, <3>2
  <2> QED BY <2>1, <2>2
<1>9. \A p \in Questions : row'[p] \in StoredRows(p) \cup {NoRow} BY <1>3 DEF LoopTypes
<1> QED BY <1>3, <1>4, <1>6, <1>7, <1>8, <1>9

\* Records already passed are not rewritten: what is counted stays.
LEMMA CountKept ==
    ASSUME LoopTypes, NotAhead, HumanLoopAssumption, seen' = seen,
           \A p \in Questions : \A i \in 1..Len(changes[p]) : changes'[p][i] = changes[p][i],
           NEW q \in Questions
    PROVE  ResumedBy(q)' = ResumedBy(q)
<1>1. Asker(q) \in Agents BY DEF HumanLoopAssumption, Asker
<1>2. seen[Asker(q)][q] \in Nat /\ seen[Asker(q)][q] <= Len(changes[q]) /\ Len(changes[q]) \in Nat
  BY <1>1, LengthTypes DEF LoopTypes, NotAhead
<1>3. \A i \in 1..seen[Asker(q)][q] : i \in 1..Len(changes[q]) BY <1>2
<1>4. \A i \in 1..seen[Asker(q)][q] : changes'[q][i] = changes[q][i] BY <1>3
<1> QED BY <1>4 DEF ResumedBy, Asker, Resumes

\* What is stored leaves the resumes as they are.
LEMMA StoreKeeps ==
    ASSUME LoopInv, HumanLoopAssumption, NEW q \in Questions, NEW new \in StoredRows(q),
           row[q] = NoRow => new.status = "PENDING", Store(q, new), UNCHANGED triggerVars
    PROVE  LoopInv'
<1>1. LoopTypes /\ Chained /\ NotAhead /\ HeardCounted BY DEF LoopInv
<1>2. UNCHANGED <<seen, heard, unheard, twice>> BY DEF triggerVars
<1>3. /\ LoopTypes' /\ Chained'
      /\ \A p \in Questions : Len(changes[p]) <= Len(changes'[p])
      /\ \A p \in Questions : \A i \in 1..Len(changes[p]) : changes'[p][i] = changes[p][i]
  BY <1>1, <1>2, StoreTypes DEF LoopTypes
<1>4. NotAhead'
  <2> SUFFICES ASSUME NEW a \in Agents, NEW p \in Questions
               PROVE  seen[a][p] <= Len(changes'[p])
    BY <1>2 DEF NotAhead
  <2>1. seen[a][p] \in Nat /\ Len(changes[p]) \in Nat /\ Len(changes'[p]) \in Nat
    <3>1. changes'[p] \in Seq(Records(p)) BY <1>3 DEF LoopTypes
    <3>2. Len(changes'[p]) \in Nat BY <3>1
    <3> QED BY <1>1, <3>2, LengthTypes DEF LoopTypes
  <2>2. seen[a][p] <= Len(changes[p]) BY <1>1 DEF NotAhead
  <2> QED BY <1>3, <2>1, <2>2
<1>5. \A p \in Questions : ResumedBy(p)' = ResumedBy(p) BY <1>1, <1>2, <1>3, CountKept
<1>6. HeardCounted' BY <1>1, <1>2, <1>5 DEF HeardCounted
<1> QED BY <1>3, <1>4, <1>6 DEF LoopInv

\* What the asking agent's trigger is done with contains a resume as soon as
\* it contains an answer: the first answer follows a record that put the
\* question.
LEMMA FirstAnswerResumes ==
    ASSUME LoopInv, HumanLoopAssumption, NEW q \in Questions,
           NEW i \in 1..Len(changes[q]), changes[q][i].new.status = "ANSWERED",
           ~Resumes(Asker(q), changes[q][i])
    PROVE  i - 1 \in 1..Len(changes[q]) /\ changes[q][i - 1].new.status = "ANSWERED"
<1>1. LoopTypes /\ Chained BY DEF LoopInv
<1>2. changes[q] \in Seq(Records(q)) /\ Len(changes[q]) \in Nat BY <1>1, LengthTypes DEF LoopTypes
<1>3. i # 1 BY <1>1 DEF Chained
<1>4. i - 1 \in 1..Len(changes[q]) BY <1>2, <1>3
<1>5. changes[q][i].old = changes[q][i - 1].new BY <1>1, <1>3 DEF Chained
<1>6. changes[q][i] \in Records(q) /\ changes[q][i - 1] \in Records(q) BY <1>2, <1>4
<1>7. changes[q][i].new.asker = Asker(q) /\ changes[q][i - 1].new \in StoredRows(q)
  BY <1>6 DEF Records, StoredRows, Asker
<1>8. changes[q][i].old # NoRow /\ changes[q][i].old.status \in {"PENDING", "ANSWERED"}
  <2>1. changes[q][i].old.status \in {"PENDING", "ANSWERED"} BY <1>5, <1>7 DEF StoredRows
  <2>2. NoRow.status = "NONE" BY DEF NoRow
  <2> QED BY <2>1, <2>2
<1>9. changes[q][i].old.status = "ANSWERED" BY <1>7, <1>8 DEF Resumes
<1> QED BY <1>4, <1>5, <1>9

\* No answer passed without a resume that was due.
AnswersResume ==
    \A q \in Questions : ResumedBy(q) = {} =>
        \A i \in 1..seen[Asker(q)][q] : changes[q][i].new.status # "ANSWERED"

\* A resume was put first, and two resumes by two records.
LEMMA ResumesPut ==
    ASSUME LoopInv, HumanLoopAssumption, NEW q \in Questions
    PROVE  /\ IsFiniteSet(ResumedBy(q)) /\ Cardinality(ResumedBy(q)) \in Nat
           /\ Cardinality(PutAt(q)) \in Nat
           /\ Cardinality(ResumedBy(q)) <= Cardinality(PutAt(q))
<1>1. LoopTypes /\ Chained /\ NotAhead BY DEF LoopInv
<1>2. Asker(q) \in Agents BY DEF HumanLoopAssumption, Asker
<1>3. /\ seen[Asker(q)][q] \in Nat /\ Len(changes[q]) \in Nat
      /\ seen[Asker(q)][q] <= Len(changes[q])
  BY <1>1, <1>2, LengthTypes DEF LoopTypes, NotAhead
<1>4. IsFiniteSet(PutAt(q))
  <2>1. IsFiniteSet(1..Len(changes[q])) BY <1>3, FS_Interval
  <2>2. PutAt(q) \in SUBSET (1..Len(changes[q])) BY DEF PutAt
  <2> QED BY <2>1, <2>2, FS_Subset
<1> DEFINE before == [i \in ResumedBy(q) |-> i - 1]
<1>5. ASSUME NEW i \in ResumedBy(q) PROVE i \in Nat /\ i - 1 \in PutAt(q)
  <2>1. i \in 1..Len(changes[q]) /\ Resumes(Asker(q), changes[q][i]) BY <1>3 DEF ResumedBy
  <2>2. changes[q][i].old # NoRow /\ changes[q][i].old.status = "PENDING" BY <2>1 DEF Resumes
  <2>3. i # 1 BY <1>1, <2>1, <2>2 DEF Chained
  <2>4. i - 1 \in 1..Len(changes[q]) BY <1>3, <2>1, <2>3
  <2>5. changes[q][i].old = changes[q][i - 1].new BY <1>1, <2>1, <2>3 DEF Chained
  <2> QED BY <2>1, <2>2, <2>4, <2>5 DEF PutAt
<1>6. before \in Injection(ResumedBy(q), PutAt(q)) BY <1>5 DEF Injection, IsInjective
<1> HIDE DEF before
<1>7. IsFiniteSet(ResumedBy(q)) /\ Cardinality(ResumedBy(q)) <= Cardinality(PutAt(q))
  BY <1>4, <1>6, FS_Injection
<1> QED BY <1>4, <1>7, FS_CardinalityType

LEMMA LastOne ==
    ASSUME NEW n \in Nat, NEW i \in 1..(n + 1), i \notin 1..n
    PROVE  i = n + 1
OBVIOUS

LEMMA OneBefore ==
    ASSUME NEW n \in Nat, NEW m \in Nat, NEW i, i = n + 1, i - 1 \in 1..m
    PROVE  i - 1 \in 1..n
OBVIOUS

\* A trigger that is done with a record, and what was heard of it.
LEMMA TriggerDone ==
    ASSUME LoopInv, AnswersResume, HumanLoopAssumption, NEW a \in Agents, NEW q \in Questions,
           HasChange(a, q), Done(a, q), UNCHANGED askVars,
           heard' = [p \in Questions |-> heard'[p]],
           \A p \in Questions : heard'[p] \in Seq(Resumptions),
           \A p \in Questions : p # q => heard'[p] = heard[p],
           unheard \subseteq unheard', twice' = twice,
           \/ ~Resumes(a, NextChange(a, q)) /\ heard' = heard
           \/ /\ Resumes(a, NextChange(a, q)) /\ Len(heard'[q]) <= Len(heard[q]) + 1
              /\ \A i \in 1..Len(heard'[q]) : heard'[q][i].agent = AskerOf[q]
              /\ heard'[q] # <<>> \/ q \in unheard'
    PROVE  LoopInv' /\ AnswersResume'
<1>1. LoopTypes /\ Chained /\ NotAhead /\ HeardCounted BY DEF LoopInv
<1>2. UNCHANGED <<row, changes>> BY DEF askVars
<1> DEFINE n == seen[a][q]
<1>3. n \in Nat /\ Len(changes[q]) \in Nat /\ n < Len(changes[q])
  BY <1>1, LengthTypes DEF LoopTypes, NotAhead, HasChange
<1>4. /\ seen' \in [Agents -> [Questions -> Nat]] /\ seen'[a][q] = n + 1
      /\ \A b \in Agents, p \in Questions : (b # a \/ p # q) => seen'[b][p] = seen[b][p]
  <2>1. seen' = [seen EXCEPT ![a][q] = n + 1] BY DEF Done
  <2> QED BY <1>1, <1>3, <2>1 DEF LoopTypes
<1>5. LoopTypes' BY <1>1, <1>2, <1>4 DEF LoopTypes
<1>6. Chained' BY <1>1, <1>2 DEF Chained
<1>7. NotAhead'
  <2> SUFFICES ASSUME NEW b \in Agents, NEW p \in Questions
               PROVE  seen'[b][p] <= Len(changes[p])
    BY <1>2 DEF NotAhead
  <2>1. CASE b = a /\ p = q BY <1>3, <1>4, <2>1
  <2>2. CASE b # a \/ p # q BY <1>1, <1>4, <2>2 DEF NotAhead
  <2> QED BY <2>1, <2>2
<1>8. ASSUME NEW p \in Questions, p # q \/ a # Asker(q)
      PROVE  ResumedBy(p)' = ResumedBy(p) /\ seen'[Asker(p)][p] = seen[Asker(p)][p]
  <2>1. Asker(p) \in Agents BY DEF HumanLoopAssumption, Asker
  <2>2. seen'[Asker(p)][p] = seen[Asker(p)][p] BY <1>4, <1>8, <2>1
  <2> QED BY <1>2, <2>2 DEF ResumedBy, Asker, Resumes
<1>9. CASE a # Asker(q)
  <2>1. ~Resumes(a, NextChange(a, q))
    <3>1. changes[q] \in Seq(Records(q)) /\ n + 1 \in 1..Len(changes[q])
      BY <1>1, <1>3 DEF LoopTypes
    <3>2. changes[q][n + 1] \in Records(q) BY <3>1
    <3> QED BY <1>9, <3>2 DEF NextChange, Records, StoredRows, Resumes, Asker
  <2>2. heard' = heard /\ \A p \in Questions : ResumedBy(p)' = ResumedBy(p) BY <1>8, <1>9, <2>1
  <2>3. HeardCounted' BY <1>1, <2>2 DEF HeardCounted
  <2>4. AnswersResume' BY <1>2, <1>8, <1>9 DEF AnswersResume, Asker
  <2> QED BY <1>5, <1>6, <1>7, <2>3, <2>4 DEF LoopInv
<1>10. CASE a = Asker(q)
  <2>1. ResumedBy(q)' = IF Resumes(a, NextChange(a, q)) THEN ResumedBy(q) \cup {n + 1}
                        ELSE ResumedBy(q)
    <3>1. 1..(n + 1) = (1..n) \cup {n + 1} BY <1>3, SMTT(30)
    <3>2. ResumedBy(q)' = {i \in 1..(n + 1) : Resumes(a, changes[q][i])}
      BY <1>2, <1>4, <1>10 DEF ResumedBy, Asker, Resumes
    <3>3. ResumedBy(q) = {i \in 1..n : Resumes(a, changes[q][i])} BY <1>10 DEF ResumedBy
    <3> QED BY <3>1, <3>2, <3>3 DEF NextChange
  <2>2. n + 1 \notin ResumedBy(q) BY <1>3, <1>10 DEF ResumedBy
  <2>3. \A p \in Questions : p # q => ResumedBy(p)' = ResumedBy(p) /\ heard'[p] = heard[p]
                                      /\ seen'[Asker(p)][p] = seen[Asker(p)][p]
    BY <1>8
  <2>4. HeardCounted'
    <3> SUFFICES ASSUME NEW p \in Questions
                 PROVE  /\ p \notin twice => Len(heard'[p]) <= Cardinality(ResumedBy(p)')
                        /\ \A i \in 1..Len(heard'[p]) : heard'[p][i].agent = AskerOf[p]
                        /\ ResumedBy(p)' # {} => heard'[p] # <<>> \/ p \in unheard'
      BY DEF HeardCounted
    <3>1. CASE p # q BY <1>1, <2>3, <3>1 DEF HeardCounted
    <3>2. CASE p = q /\ ~Resumes(a, NextChange(a, q)) BY <1>1, <2>1, <3>2 DEF HeardCounted
    <3>3. CASE p = q /\ Resumes(a, NextChange(a, q))
      <4>1. IsFiniteSet(ResumedBy(q)) /\ Cardinality(ResumedBy(q)) \in Nat BY ResumesPut
      <4>2. Cardinality(ResumedBy(q) \cup {n + 1}) = Cardinality(ResumedBy(q)) + 1
        BY <2>2, <4>1, FS_AddElement
      <4>3. Len(heard[q]) \in Nat /\ Len(heard'[q]) \in Nat
        <5>1. heard'[q] \in Seq(Resumptions) OBVIOUS
        <5> QED BY <1>1, <5>1, LengthTypes
      <4>4. q \notin twice => Len(heard[q]) <= Cardinality(ResumedBy(q))
        BY <1>1 DEF HeardCounted
      <4>5. q \notin twice => Len(heard'[q]) <= Cardinality(ResumedBy(q)')
        BY <2>1, <3>3, <4>1, <4>2, <4>3, <4>4
      <4> QED BY <3>3, <4>5
    <3> QED BY <3>1, <3>2, <3>3
  <2>5. AnswersResume'
    <3> SUFFICES ASSUME NEW p \in Questions, ResumedBy(p)' = {},
                        NEW i \in 1..seen'[Asker(p)][p], changes[p][i].new.status = "ANSWERED"
                 PROVE  FALSE
      BY <1>2 DEF AnswersResume, Asker
    <3>1. CASE p # q BY <2>3, <3>1 DEF AnswersResume
    <3>2. CASE p = q
      <4>1. ResumedBy(q) = {} /\ ~Resumes(a, NextChange(a, q)) BY <2>1, <3>2
      <4>2. i = n + 1
        <5>1. i \in 1..(n + 1) BY <1>4, <1>10, <3>2
        <5>2. i \notin 1..n BY <1>10, <3>2, <4>1 DEF AnswersResume
        <5> QED BY <1>3, <5>1, <5>2, LastOne
      <4>3. i \in 1..Len(changes[q]) /\ ~Resumes(Asker(q), changes[q][i])
        BY <1>3, <1>10, <4>1, <4>2 DEF NextChange
      <4>4. i - 1 \in 1..Len(changes[q]) /\ changes[q][i - 1].new.status = "ANSWERED"
        BY <3>2, <4>3, FirstAnswerResumes
      <4>5. i - 1 \in 1..n BY <1>3, <4>2, <4>4, OneBefore
      <4> QED BY <1>10, <4>1, <4>4, <4>5 DEF AnswersResume
    <3> QED BY <3>1, <3>2
  <2> QED BY <1>5, <1>6, <1>7, <2>4, <2>5 DEF LoopInv
<1> QED BY <1>9, <1>10

\* What the asking agent hears is one of its own resumes.
LEMMA HearTypes ==
    ASSUME LoopInv, HumanLoopAssumption, NEW a \in Agents, NEW q \in Questions,
           HasChange(a, q), Resumes(a, NextChange(a, q)), Hear(a, q)
    PROVE  /\ heard' = [p \in Questions |-> heard'[p]]
           /\ \A p \in Questions : heard'[p] \in Seq(Resumptions)
           /\ \A p \in Questions : p # q => heard'[p] = heard[p]
           /\ Len(heard'[q]) = Len(heard[q]) + 1 /\ heard'[q] # <<>>
           /\ \A i \in 1..Len(heard'[q]) : heard'[q][i].agent = AskerOf[q]
<1>1. LoopTypes /\ NotAhead /\ HeardCounted BY DEF LoopInv
<1>2. seen[a][q] + 1 \in 1..Len(changes[q])
  <2>1. /\ seen[a][q] \in Nat /\ Len(changes[q]) \in Nat /\ seen[a][q] < Len(changes[q])
    BY <1>1, LengthTypes DEF LoopTypes, NotAhead, HasChange
  <2> QED BY <2>1
<1>3. NextChange(a, q) \in Records(q)
  <2>1. changes[q] \in Seq(Records(q)) BY <1>1 DEF LoopTypes
  <2> QED BY <1>2, <2>1 DEF NextChange
<1> DEFINE h == [agent |-> a, answer |-> NextChange(a, q).new.answer]
<1>4. h \in Resumptions /\ h.agent = AskerOf[q]
  BY <1>3 DEF Records, StoredRows, Resumptions, Resumes
<1>5. heard' = [heard EXCEPT ![q] = Append(heard[q], h)] BY DEF Hear
<1> HIDE DEF h
<1>6. /\ heard' = [p \in Questions |-> heard'[p]] /\ heard'[q] = Append(heard[q], h)
      /\ \A p \in Questions : p # q => heard'[p] = heard[p]
  BY <1>1, <1>5 DEF LoopTypes
<1>7. heard[q] \in Seq(Resumptions) BY <1>1 DEF LoopTypes
<1>8. /\ heard'[q] \in Seq(Resumptions) /\ Len(heard'[q]) = Len(heard[q]) + 1
      /\ heard'[q] # <<>>
  BY <1>4, <1>6, <1>7
<1>9. \A i \in 1..Len(heard'[q]) : heard'[q][i].agent = AskerOf[q]
  <2> SUFFICES ASSUME NEW i \in 1..Len(heard'[q]) PROVE heard'[q][i].agent = AskerOf[q]
    OBVIOUS
  <2>1. Len(heard[q]) \in Nat BY <1>7
  <2>2. CASE i \in 1..Len(heard[q])
    <3>1. heard'[q][i] = heard[q][i] BY <1>4, <1>6, <1>7, <2>2
    <3> QED BY <1>1, <2>2, <3>1 DEF HeardCounted
  <2>3. CASE i = Len(heard[q]) + 1 BY <1>4, <1>6, <1>7, <2>3
  <2> QED BY <1>8, <2>1, <2>2, <2>3
<1>10. \A p \in Questions : heard'[p] \in Seq(Resumptions) BY <1>1, <1>6, <1>8 DEF LoopTypes
<1> QED BY <1>6, <1>8, <1>9, <1>10

LEMMA NothingMoved ==
    ASSUME LoopInv, AnswersResume, UNCHANGED <<row, changes, seen, heard, unheard, twice>>
    PROVE  LoopInv' /\ AnswersResume'
<1>1. LoopTypes' BY DEF LoopInv, LoopTypes
<1>2. Chained' /\ NotAhead' BY DEF LoopInv, Chained, NotAhead
<1>3. \A q \in Questions : ResumedBy(q)' = ResumedBy(q) BY DEF ResumedBy, Resumes, Asker
<1>4. HeardCounted' BY <1>3 DEF LoopInv, HeardCounted
<1>5. AnswersResume' BY <1>3 DEF AnswersResume, Asker
<1> QED BY <1>1, <1>2, <1>4, <1>5 DEF LoopInv

\* A row that is stored leaves the triggers' account as it is.
LEMMA StoreStep ==
    ASSUME LoopInv, AnswersResume, HumanLoopAssumption, NEW q \in Questions,
           NEW new \in StoredRows(q), row[q] = NoRow => new.status = "PENDING", Store(q, new),
           UNCHANGED triggerVars
    PROVE  LoopInv' /\ AnswersResume'
<1>1. LoopInv' BY StoreKeeps
<1>2. \A p \in Questions : \A i \in 1..Len(changes[p]) : changes'[p][i] = changes[p][i]
  BY StoreTypes DEF LoopInv
<1>3. ASSUME NEW p \in Questions, ResumedBy(p)' = {}, NEW i \in 1..seen'[Asker(p)][p]
      PROVE  changes'[p][i].new.status # "ANSWERED"
  <2>1. ResumedBy(p) = {} BY <1>2, <1>3, CountKept DEF LoopInv, triggerVars
  <2>2. Asker(p) \in Agents BY DEF HumanLoopAssumption, Asker
  <2>3. /\ seen'[Asker(p)][p] = seen[Asker(p)][p] /\ seen[Asker(p)][p] \in Nat
        /\ seen[Asker(p)][p] <= Len(changes[p]) /\ Len(changes[p]) \in Nat
    BY <2>2, LengthTypes DEF LoopInv, LoopTypes, NotAhead, triggerVars
  <2>4. i \in 1..Len(changes[p]) BY <2>3
  <2> QED BY <1>2, <2>1, <2>3, <2>4 DEF AnswersResume
<1> QED BY <1>1, <1>3 DEF AnswersResume, Asker

\* Asking and answering store rows of the question and touch no trigger.
LEMMA QuestionStep ==
    ASSUME LoopInv, AnswersResume, HumanLoopAssumption, NEW q \in Questions,
           Ask(q) \/ AskFails(q) \/ Fallback(q) \/ AnswerElsewhere(q) \/ AnswerByApi(q)
    PROVE  LoopInv' /\ AnswersResume'
<1>1. UNCHANGED triggerVars
  BY DEF Ask, AskFails, Fallback, AnswerElsewhere, AnswerByApi, triggerVars
<1>2. Pending(q) \in StoredRows(q) /\ Pending(q).status = "PENDING"
  BY DEF Pending, StoredRows, HumanLoopAssumption
<1>3. ASSUME NEW option \in Options, row[q] # NoRow
      PROVE  [row[q] EXCEPT !.status = "ANSWERED", !.answer = option] \in StoredRows(q)
  <2>1. row[q] \in StoredRows(q) BY <1>3 DEF LoopInv, LoopTypes
  <2> QED BY <2>1 DEF StoredRows
<1>4. \/ UNCHANGED <<row, changes>>
      \/ \E new \in StoredRows(q) : (row[q] = NoRow => new.status = "PENDING") /\ Store(q, new)
  <2>1. CASE Ask(q) \/ AskFails(q) \/ Fallback(q) BY <1>2, <2>1 DEF Ask, AskFails, Fallback
  <2>2. CASE AnswerElsewhere(q) \/ AnswerByApi(q)
    <3>1. PICK option \in Options : StoreAnswer(q, option) /\ row[q] # NoRow
      BY <2>2 DEF AnswerElsewhere, AnswerByApi
    <3> QED BY <1>3, <3>1 DEF StoreAnswer
  <2> QED BY <2>1, <2>2
<1>5. CASE UNCHANGED <<row, changes>>
  BY <1>1, <1>5, NothingMoved DEF triggerVars
<1> QED BY <1>1, <1>4, <1>5, StoreStep

\* A trigger passes over a record, resumes, or gives up after its retries.
LEMMA TriggerStep ==
    ASSUME LoopInv, AnswersResume, HumanLoopAssumption, NEW a \in Agents, NEW q \in Questions,
           Skip(a, q) \/ Resume(a, q) \/ ResumeAgain(a, q) \/ ResumeFails(a, q)
             \/ TriggerRaises(a, q)
    PROVE  LoopInv' /\ AnswersResume'
<1>1. UNCHANGED askVars /\ HasChange(a, q)
  BY DEF Skip, Resume, ResumeAgain, ResumeFails, TriggerRaises
<1>2. LoopTypes /\ HeardCounted BY DEF LoopInv
<1>3. CASE Skip(a, q)
  BY <1>1, <1>2, <1>3, TriggerDone DEF Skip, LoopTypes
<1>4. CASE Resume(a, q)
  <2>1. Hear(a, q) /\ Done(a, q) /\ Resumes(a, NextChange(a, q)) /\ UNCHANGED <<unheard, twice>>
    BY <1>4 DEF Resume
  <2>2. Len(heard'[q]) <= Len(heard[q]) + 1 BY <1>1, <1>2, <2>1, HearTypes, LengthTypes
  <2> QED BY <1>1, <2>1, <2>2, HearTypes, TriggerDone
<1>5. CASE ResumeAgain(a, q)
  <2>1. /\ Hear(a, q) /\ Resumes(a, NextChange(a, q)) /\ twice' = twice \cup {q}
        /\ UNCHANGED <<seen, unheard>>
    BY <1>5 DEF ResumeAgain
  <2>2. UNCHANGED <<row, changes>> BY <1>1 DEF askVars
  <2>3. \A p \in Questions : ResumedBy(p)' = ResumedBy(p)
    BY <2>1, <2>2 DEF ResumedBy, Asker, Resumes
  <2>4. LoopTypes' BY <1>1, <1>2, <2>1, <2>2, HearTypes DEF LoopTypes
  <2>5. HeardCounted' BY <1>1, <1>2, <2>1, <2>3, HearTypes DEF HeardCounted
  <2>6. AnswersResume' BY <2>1, <2>2, <2>3 DEF AnswersResume, Asker
  <2> QED BY <2>1, <2>2, <2>4, <2>5, <2>6 DEF LoopInv, Chained, NotAhead
<1>6. CASE ResumeFails(a, q) \/ (TriggerRaises(a, q) /\ Done(a, q) /\ unheard' = unheard \cup {q})
  <2>1. /\ UNCHANGED <<heard, twice>> /\ unheard' = unheard \cup {q} /\ Done(a, q)
        /\ Resumes(a, NextChange(a, q))
    BY <1>6 DEF ResumeFails, TriggerRaises
  <2>2. Len(heard'[q]) <= Len(heard[q]) + 1 BY <1>2, <2>1, LengthTypes
  <2>3. \A i \in 1..Len(heard'[q]) : heard'[q][i].agent = AskerOf[q]
    BY <1>2, <2>1 DEF HeardCounted
  <2> QED BY <1>1, <1>2, <2>1, <2>2, <2>3, TriggerDone DEF LoopTypes
<1>7. CASE TriggerRaises(a, q) /\ UNCHANGED <<seen, unheard>>
  <2>1. UNCHANGED <<row, changes, seen, heard, unheard, twice>>
    BY <1>7 DEF TriggerRaises, askVars
  <2> QED BY <2>1, NothingMoved
<1> QED BY <1>3, <1>4, <1>5, <1>6, <1>7 DEF TriggerRaises, RetryOrGiveUp

LEMMA LoopInductive ==
    ASSUME HumanLoopAssumption
    PROVE  LoopInv /\ AnswersResume /\ [HumanStep]_humanVars => LoopInv' /\ AnswersResume'
<1> SUFFICES ASSUME LoopInv, AnswersResume, [HumanStep]_humanVars
             PROVE  LoopInv' /\ AnswersResume'
  OBVIOUS
<1>1. CASE UNCHANGED humanVars
  <2>1. UNCHANGED <<row, changes, seen, heard, unheard, twice>>
    BY <1>1 DEF humanVars, askVars, triggerVars
  <2> QED BY <2>1, NothingMoved
<1> QED BY <1>1, QuestionStep, TriggerStep DEF HumanStep

LEMMA LoopInit ==
    ASSUME HumanLoopAssumption
    PROVE  HumanInit => LoopInv /\ AnswersResume
<1> SUFFICES ASSUME HumanInit PROVE LoopInv /\ AnswersResume OBVIOUS
<1>1. /\ row = [q \in Questions |-> NoRow] /\ changes = [q \in Questions |-> <<>>]
      /\ heard = [q \in Questions |-> <<>>]
      /\ seen = [a \in Agents |-> [q \in Questions |-> 0]]
  BY DEF HumanInit
<1>2. LoopTypes /\ Chained /\ NotAhead
  <2>1. \A q \in Questions : changes[q] = <<>> /\ heard[q] = <<>> /\ row[q] = NoRow BY <1>1
  <2>2. \A q \in Questions : changes[q] \in Seq(Records(q)) /\ heard[q] \in Seq(Resumptions)
    <3> SUFFICES ASSUME NEW q \in Questions
                 PROVE  <<>> \in Seq(Records(q)) /\ <<>> \in Seq(Resumptions)
      BY <2>1
    <3>1. <<>> \in Seq(Records(q)) OBVIOUS
    <3>2. <<>> \in Seq(Resumptions) OBVIOUS
    <3> QED BY <3>1, <3>2
  <2>3. LoopTypes
    <3>1. row = [q \in Questions |-> row[q]] BY <1>1
    <3>2. \A q \in Questions : row[q] \in StoredRows(q) \cup {NoRow} BY <2>1
    <3>3. seen \in [Agents -> [Questions -> Nat]] BY <1>1
    <3>4. /\ changes = [q \in Questions |-> changes[q]]
          /\ heard = [q \in Questions |-> heard[q]]
      BY <1>1
    <3> QED BY <2>2, <3>1, <3>2, <3>3, <3>4 DEF LoopTypes
  <2>4. Chained BY <2>1 DEF Chained
  <2>5. \A a \in Agents, q \in Questions : seen[a][q] = 0 /\ Len(changes[q]) = 0
    BY <1>1, <2>1
  <2> QED BY <2>3, <2>4, <2>5 DEF NotAhead
<1>3. ASSUME NEW q \in Questions PROVE seen[Asker(q)][q] = 0 /\ ResumedBy(q) = {}
  <2>1. Asker(q) \in Agents BY DEF HumanLoopAssumption, Asker
  <2>2. seen[Asker(q)][q] = 0 BY <1>1, <2>1
  <2> QED BY <2>2 DEF ResumedBy
<1>4. HeardCounted
  <2>1. Cardinality({}) = 0 BY FS_EmptySet
  <2>2. \A q \in Questions : Len(heard[q]) = 0 BY <1>1
  <2>3. \A q \in Questions : Cardinality(ResumedBy(q)) = 0 BY <1>3, <2>1
  <2> QED BY <1>3, <2>2, <2>3 DEF HeardCounted
<1>5. AnswersResume BY <1>3 DEF AnswersResume
<1> QED BY <1>2, <1>4, <1>5 DEF LoopInv

LEMMA LoopOncePerAsk == LoopInv => ResumedOncePerAsk
<1> SUFFICES ASSUME LoopInv, NEW q \in Questions
             PROVE  /\ q \notin twice => Len(heard[q]) <= Puts(q)
                    /\ \A i \in DOMAIN heard[q] : heard[q][i].agent = AskerOf[q]
  BY DEF ResumedOncePerAsk
<1>1. LoopTypes /\ HeardCounted BY DEF LoopInv
<1>2. changes[q] \in Seq(Records(q)) /\ heard[q] \in Seq(Resumptions)
  BY <1>1 DEF LoopTypes
<1>3. DOMAIN changes[q] = 1..Len(changes[q]) /\ DOMAIN heard[q] = 1..Len(heard[q])
  <2>1. DOMAIN changes[q] = 1..Len(changes[q]) BY <1>2
  <2>2. DOMAIN heard[q] = 1..Len(heard[q]) BY <1>2
  <2> QED BY <2>1, <2>2
<1>4. Puts(q) = Cardinality(PutAt(q)) BY <1>3 DEF Puts, PutAt
<1>5. /\ Cardinality(ResumedBy(q)) \in Nat /\ Cardinality(PutAt(q)) \in Nat
      /\ Cardinality(ResumedBy(q)) <= Cardinality(PutAt(q))
  BY ResumesPut, HumanLoopAssumption
<1>6. q \notin twice => Len(heard[q]) <= Cardinality(ResumedBy(q)) BY <1>1 DEF HeardCounted
<1>7. Len(heard[q]) \in Nat BY <1>1, LengthTypes
<1>8. \A i \in 1..Len(heard[q]) : heard[q][i].agent = AskerOf[q] BY <1>1 DEF HeardCounted
<1> QED BY <1>3, <1>4, <1>5, <1>6, <1>7, <1>8

\* Only the agent that asked is resumed, and no more often than the question
\* was put, however many answers are stored and whatever fails.
THEOREM OncePerAsk == HumanSpec => []ResumedOncePerAsk
BY LoopOncePerAsk, HumanLoopAssumption, LoopInit, LoopInductive, PTL DEF HumanSpec

LEMMA LoopHeard == LoopInv /\ AnswersResume => AnsweredIsHeard
<1> SUFFICES ASSUME LoopInv, AnswersResume, NEW q \in Questions, CaughtUp(q),
                    row[q].status = "ANSWERED"
             PROVE  heard[q] # <<>> \/ q \in unheard
  BY DEF AnsweredIsHeard
<1>1. LoopTypes /\ Chained /\ NotAhead /\ HeardCounted BY DEF LoopInv
<1>2. Asker(q) \in Agents BY HumanLoopAssumption DEF HumanLoopAssumption, Asker
<1>3. /\ seen[Asker(q)][q] \in Nat /\ Len(changes[q]) \in Nat
      /\ seen[Asker(q)][q] <= Len(changes[q]) /\ ~(seen[Asker(q)][q] < Len(changes[q]))
  BY <1>1, <1>2, LengthTypes DEF LoopTypes, NotAhead, CaughtUp, HasChange
<1>4. seen[Asker(q)][q] = Len(changes[q]) BY <1>3
<1>5. row[q] # NoRow
  <2>1. NoRow.status = "NONE" BY DEF NoRow
  <2> QED BY <2>1
<1>6. changes[q] # <<>> /\ row[q] = changes[q][Len(changes[q])].new BY <1>1, <1>5 DEF Chained
<1>7. Len(changes[q]) \in 1..seen[Asker(q)][q]
  <2>1. changes[q] \in Seq(Records(q)) BY <1>1 DEF LoopTypes
  <2>2. Len(changes[q]) # 0 BY <1>6, <2>1
  <2> QED BY <1>3, <1>4, <2>2
<1>8. ResumedBy(q) # {} BY <1>6, <1>7 DEF AnswersResume
<1> QED BY <1>1, <1>8 DEF HeardCounted

\* When the triggers have caught up, an answered question's agent has heard of
\* it unless its resume was given up.
THEOREM AnswersAreHeard == HumanSpec => []AnsweredIsHeard
BY LoopHeard, HumanLoopAssumption, LoopInit, LoopInductive, PTL DEF HumanSpec

-----------------------------------------------------------------------------
(* The dashboard.  It answers questions as any other dashboard does, and is *)
(* otherwise only told of the table.                                        *)

InList(s, i) == \E k \in DOMAIN s : s[k] = i

Items == Questions \cup Findings \cup Events
QuestionFeeds == {"created", "answered"}
Feeds == QuestionFeeds \cup {"findings", "none"} \cup Channels

FeedTypes ==
    /\ shown \in [Lists -> Seq(Items)] /\ result \in [Queried -> Seq(Items)]
    /\ load \in [Queried -> {"no", "sent", "answered"}] /\ live \in BOOLEAN
    /\ click \in [Questions -> [option : {""} \cup Options, stored : BOOLEAN]]
    /\ published \in [Events -> Nat]
    /\ findings \subseteq Findings
    /\ IsFiniteSet(findings) /\ IsFiniteSet({q \in Questions : row[q] # NoRow})
    /\ \A n \in wire : n.feed \in Feeds

\* A notification that is believed says what the row is.
QuestionNotes ==
    \A n \in wire : n.feed \in QuestionFeeds =>
        /\ n.item \in Questions /\ row[n.item] # NoRow
        /\ n.item \notin misled =>
              row[n.item].status = IF n.feed = "created" THEN "PENDING" ELSE "ANSWERED"

Noted(feed, i) == \E n \in wire : n.feed = feed /\ n.item = i

\* The answer of the query is the table's, as long as it waits; and then what
\* the list lacks or keeps wrongly is on its way.
QuestionsRight ==
    \A q \in Questions :
        /\ InList(shown["questions"], q) \/ InList(result["questions"], q) => row[q] # NoRow
        /\ q \notin misled =>
            /\ click[q].stored => row[q].status = "ANSWERED"
            /\ load["questions"] = "answered" =>
                  (InList(result["questions"], q) <=> row[q].status = "PENDING")
            /\ load["questions"] = "no" =>
                  IF row[q].status = "PENDING"
                  THEN InList(shown["questions"], q) \/ Noted("created", q)
                  ELSE ~InList(shown["questions"], q) \/ Noted("answered", q)

FindingsRight ==
    /\ \A n \in wire : n.feed = "findings" => n.item \in findings
    /\ \A i \in Items : InList(shown["findings"], i) \/ InList(result["findings"], i) => i \in findings
    /\ \A f \in findings \ misled :
        /\ load["findings"] = "answered" => InList(result["findings"], f)
        /\ load["findings"] = "no" => InList(shown["findings"], f) \/ Noted("findings", f)

Told(e) == published[e] # 0
EventsRight ==
    /\ \A n \in wire : n.feed \in Channels =>
          n.item \in Events /\ Told(n.item) /\ n.feed = Channel(DomainOf[n.item])
    /\ \A c \in Channels, i \in Items : InList(shown[c], i) =>
          i \in Events /\ Told(i) /\ c = Channel(DomainOf[i])
    /\ \A e \in Events \ misled, c \in Channels : Told(e) /\ c = Channel(DomainOf[e]) =>
          published[e] \in 1..LambdaRetries \/ InList(shown[c], e) \/ Noted(c, e)

\* ask_human has not begun: there is no row.
AskedRows ==
    /\ asking = [q \in Questions |-> asking[q]]
    /\ \A q \in Questions : asking[q] = "no" => row[q] = NoRow

FeedInv == AskedRows /\ FeedTypes /\ QuestionNotes /\ QuestionsRight /\ FindingsRight /\ EventsRight

LEMMA ChannelTypes ==
    /\ \A d : Channel(d) \in Channels \cup {"none"}
    /\ "questions" \notin Feeds /\ Channels \subseteq Lists /\ "findings" \in Lists
    /\ "questions" \in Lists /\ "questions" \in Queried /\ "findings" \in Queried
    /\ Channels \cap (QuestionFeeds \cup {"questions", "findings", "none"}) = {}
BY DEF Channel, Channels, Lists, Feeds, QuestionFeeds, Queried

\* The array of a finite set holds exactly its elements.
LEMMA SetToSeqHolds ==
    ASSUME NEW S, IsFiniteSet(S)
    PROVE  SetToSeq(S) \in Seq(S) /\ \A i : InList(SetToSeq(S), i) <=> i \in S
<1> DEFINE N == Cardinality(S)
           f == SetToSeq(S)
<1>1. N \in Nat /\ ExistsBijection(1..N, S) BY FS_CardinalityType
<1>2. PICK b \in Bijection(1..N, S) : TRUE BY <1>1 DEF ExistsBijection
<1>3. b \in [1..N -> S] /\ IsInjective(b) BY <1>2 DEF Bijection, Injection
<1>4. f \in [1..N -> S] /\ IsInjective(f) BY <1>3 DEF SetToSeq
<1>5. f \in Injection(1..N, S) BY <1>4 DEF Injection
<1>6. ASSUME NEW i \in S PROVE InList(f, i)
  <2> SUFFICES ASSUME \A k \in 1..N : f[k] # i PROVE FALSE BY <1>4 DEF InList
  <2>1. f \in Injection(1..N, S \ {i}) BY <1>4 DEF Injection
  <2>2. IsFiniteSet(S \ {i}) /\ Cardinality(S \ {i}) = N - 1 BY FS_RemoveElement
  <2>3. Cardinality(1..N) = N BY <1>1, FS_Interval
  <2>4. Cardinality(1..N) <= Cardinality(S \ {i}) BY <2>1, <2>2, FS_Injection
  <2> QED BY <1>1, <2>2, <2>3, <2>4
<1>7. f \in Seq(S) BY <1>1, <1>4
<1> QED BY <1>4, <1>6, <1>7 DEF InList

\* A list that is told of an item begins with it, and lets go of what is cut.
LEMMA ShownHolds ==
    ASSUME FeedTypes, LiveFeedAssumption, NEW l \in Lists, NEW item \in Items
    PROVE  /\ Shown(l, item) \in Seq(Items) /\ InList(Shown(l, item), item)
           /\ \A i : InList(Shown(l, item), i) => i = item \/ InList(shown[l], i)
           /\ \A i : InList(shown[l], i) => i \in Cut(l) \/ InList(Shown(l, item), i)
<1> DEFINE s == shown[l]
           t == <<item>> \o s
           m == Min({ViewSize, Len(s) + 1})
<1>1. s \in Seq(Items) /\ Len(s) \in Nat /\ ViewSize \in Nat \ {0}
  <2>1. s \in Seq(Items) BY DEF FeedTypes
  <2> QED BY <2>1 DEF LiveFeedAssumption
<1>2. m \in 1..(Len(s) + 1) /\ (m = Len(s) + 1 \/ (m = ViewSize /\ m < Len(s) + 1))
  <2>1. \E x \in {ViewSize, Len(s) + 1} : \A y \in {ViewSize, Len(s) + 1} : x <= y BY <1>1
  <2>2. m \in {ViewSize, Len(s) + 1} /\ \A y \in {ViewSize, Len(s) + 1} : m <= y
    BY <2>1 DEF Min
  <2> QED BY <1>1, <2>2
<1> HIDE DEF m
<1>3. /\ t \in Seq(Items) /\ Len(t) = Len(s) + 1 /\ t[1] = item
      /\ \A k \in 1..Len(s) : t[k + 1] = s[k]
      /\ \A k \in 1..Len(t) : k = 1 \/ (k - 1 \in 1..Len(s) /\ t[k] = s[k - 1])
  BY <1>1
<1> HIDE DEF t
<1>4. \A k \in 1..m : t[k] \in Items BY <1>1, <1>2, <1>3
<1>5. /\ SubSeq(t, 1, m) \in Seq(Items) /\ Len(SubSeq(t, 1, m)) = m
      /\ \A k \in 1..m : SubSeq(t, 1, m)[k] = t[k]
  <2>1. m \in Int /\ 1 <= m /\ m - 1 + 1 = m /\ \A k \in 1..m : 1 + k - 1 = k BY <1>1, <1>2
  <2> QED BY <1>4, <2>1, SubSeqProperties
<1>6. Shown(l, item) = SubSeq(t, 1, m) BY DEF Shown, t, m
<1> DEFINE new == Shown(l, item)
<1>7. new \in Seq(Items) /\ DOMAIN new = 1..m /\ DOMAIN s = 1..Len(s)
  BY <1>1, <1>5, <1>6
<1>8. \A k \in 1..m : new[k] = t[k] BY <1>5, <1>6
<1> HIDE DEF new
<1>9. InList(new, item) BY <1>2, <1>3, <1>7, <1>8 DEF InList
<1>10. ASSUME NEW i, InList(new, i) PROVE i = item \/ InList(s, i)
  <2>1. PICK k \in 1..m : t[k] = i BY <1>7, <1>8, <1>10 DEF InList
  <2>2. k \in 1..Len(t) BY <1>1, <1>2, <1>3
  <2> QED BY <1>3, <1>7, <2>1, <2>2 DEF InList
<1>11. ASSUME NEW i, InList(s, i) PROVE i \in Cut(l) \/ InList(new, i)
  <2>1. PICK k \in 1..Len(s) : s[k] = i BY <1>7, <1>11 DEF InList
  <2>2. CASE k + 1 \in 1..m
    <3>1. new[k + 1] = i BY <1>3, <1>8, <2>1, <2>2
    <3> QED BY <1>7, <2>2, <3>1 DEF InList
  <2>3. CASE k + 1 \notin 1..m
    <3>1. k \in ViewSize..Len(s) BY <1>1, <1>2, <2>3
    <3> QED BY <2>1, <3>1 DEF Cut
  <2> QED BY <2>2, <2>3
<1> QED BY <1>7, <1>9, <1>10, <1>11 DEF new

Others(s, q) == {k \in DOMAIN s : s[k] # q}

\* Filtering out q takes q out of the list, and nothing else.
LEMMA FilterHolds ==
    ASSUME NEW S, NEW s \in Seq(S), NEW q, NEW new, new = Kept(s, Others(s, q))
    PROVE  /\ new \in Seq(S)
           /\ \A i : InList(new, i) <=> InList(s, i) /\ i # q
<1> DEFINE I == Others(s, q)
           N == Cardinality(I)
<1> USE DEF Others
<1>0. new = Kept(s, I) OBVIOUS
<1>1. DOMAIN s = 1..Len(s) /\ Len(s) \in Nat OBVIOUS
<1>2. IsFiniteSet(I) /\ I \subseteq Int
  <2>1. IsFiniteSet(1..Len(s)) BY <1>1, FS_Interval
  <2>2. I \in SUBSET (1..Len(s)) BY <1>1
  <2> QED BY <1>1, <2>1, <2>2, FS_Subset
<1>3. \A j \in I : j \in DOMAIN s /\ s[j] # q /\ s[j] \in S OBVIOUS
<1>4. \A j \in DOMAIN s : s[j] # q => j \in I OBVIOUS
<1> HIDE DEF I
<1>5. /\ N \in Nat
      /\ \E k \in [1..N -> I] :
            /\ Kept(s, I) = [n \in 1..N |-> s[k[n]]]
            /\ \A i \in I : \E n \in 1..N : k[n] = i
            /\ \A m, n \in 1..N : m < n => k[m] < k[n]
  BY <1>2, KeptInOrder
<1> HIDE DEF N
<1>6. PICK k \in [1..N -> I] :
        /\ new = [n \in 1..N |-> s[k[n]]]
        /\ \A i \in I : \E n \in 1..N : k[n] = i
  BY <1>0, <1>5
<1>7. new \in Seq(S)
  <2>1. \A n \in 1..N : s[k[n]] \in S BY <1>3, <1>6
  <2>2. new \in [1..N -> S] BY <1>6, <2>1
  <2> QED BY <1>5, <2>2
<1>8. ASSUME NEW i PROVE InList(new, i) <=> InList(s, i) /\ i # q
  <2>1. InList(new, i) <=> \E n \in 1..N : s[k[n]] = i BY <1>6 DEF InList
  <2>2. ASSUME NEW n \in 1..N, s[k[n]] = i PROVE InList(s, i) /\ i # q
    BY <1>3, <1>6, <2>2 DEF InList
  <2>3. ASSUME InList(s, i), i # q PROVE \E n \in 1..N : s[k[n]] = i
    <3>1. PICK j \in DOMAIN s : s[j] = i BY <2>3 DEF InList
    <3>2. j \in I BY <1>4, <2>3, <3>1
    <3> QED BY <1>6, <3>1, <3>2
  <2> QED BY <2>1, <2>2, <2>3
<1> QED BY <1>7, <1>8

LEMMA WithoutHolds ==
    ASSUME FeedTypes, NEW q
    PROVE  /\ Without(q) \in Seq(Items)
           /\ \A i : InList(Without(q), i) <=> InList(shown["questions"], i) /\ i # q
<1>1. shown["questions"] \in Seq(Items) BY ChannelTypes DEF FeedTypes
<1>2. PICK s : s = shown["questions"] OBVIOUS
<1>3. Without(q) = Kept(s, Others(s, q)) BY <1>2 DEF Without, Others
<1>4. s \in Seq(Items) BY <1>1, <1>2
<1>5. PICK t : t = Without(q) OBVIOUS
<1>6. t = Kept(s, Others(s, q)) BY <1>3, <1>5
<1> QED BY <1>2, <1>4, <1>5, <1>6, FilterHolds

\* A step that leaves a list, what it is made from and what is on its way for
\* it as they are, but for items it makes doubtful.
LEMMA QuestionsFrame ==
    ASSUME QuestionNotes, QuestionsRight, row' = row, misled \subseteq misled',
           shown'["questions"] = shown["questions"], result'["questions"] = result["questions"],
           load'["questions"] = load["questions"],
           \A q \in Questions : click'[q].stored => click[q].stored,
           \A n \in wire' : n.feed \in QuestionFeeds => n \in wire,
           \A n \in wire : n.feed \in QuestionFeeds /\ n.item \notin misled' => n \in wire'
    PROVE  QuestionNotes' /\ QuestionsRight'
<1>1. QuestionNotes' BY DEF QuestionNotes
<1>2. \A q \in Questions, feed \in QuestionFeeds : q \notin misled' /\ Noted(feed, q) => Noted(feed, q)'
  BY DEF Noted
<1>3. \A q \in Questions : q \notin misled' =>
        (Noted("created", q) => Noted("created", q)') /\ (Noted("answered", q) => Noted("answered", q)')
  BY <1>2 DEF QuestionFeeds
<1>4. QuestionsRight'
  <2> SUFFICES ASSUME NEW q \in Questions
               PROVE  /\ InList(shown["questions"], q) \/ InList(result["questions"], q) => row[q] # NoRow
                      /\ q \notin misled' =>
                          /\ click'[q].stored => row[q].status = "ANSWERED"
                          /\ load["questions"] = "answered" =>
                                (InList(result["questions"], q) <=> row[q].status = "PENDING")
                          /\ load["questions"] = "no" =>
                                IF row[q].status = "PENDING"
                                THEN InList(shown["questions"], q) \/ Noted("created", q)'
                                ELSE ~InList(shown["questions"], q) \/ Noted("answered", q)'
    BY DEF QuestionsRight, InList
  <2> HIDE DEF Noted, InList
  <2> QED BY <1>3 DEF QuestionsRight
<1> QED BY <1>1, <1>4

LEMMA FindingsFrame ==
    ASSUME FindingsRight, findings' = findings, misled \subseteq misled',
           shown'["findings"] = shown["findings"], result'["findings"] = result["findings"],
           load'["findings"] = load["findings"],
           \A n \in wire' : n.feed = "findings" => n \in wire,
           \A n \in wire : n.feed = "findings" /\ n.item \notin misled' => n \in wire'
    PROVE  FindingsRight'
BY DEF FindingsRight, InList, Noted

LEMMA EventsFrame ==
    ASSUME EventsRight, published' = published, misled \subseteq misled',
           \A c \in Channels : shown'[c] = shown[c],
           \A n \in wire' : n.feed \in Channels => n \in wire,
           \A n \in wire : n.feed \in Channels /\ n.item \notin misled' => n \in wire'
    PROVE  EventsRight'
<1>1. \A n \in wire' : n.feed \in Channels =>
          n.item \in Events /\ Told(n.item)' /\ n.feed = Channel(DomainOf[n.item])
  BY DEF EventsRight, Told
<1>2. \A c \in Channels, i \in Items : InList(shown'[c], i) =>
          i \in Events /\ Told(i)' /\ c = Channel(DomainOf[i])
  BY DEF EventsRight, Told, InList
<1>3. ASSUME NEW e \in Events \ misled', NEW c \in Channels, Told(e)', c = Channel(DomainOf[e])
      PROVE  published'[e] \in 1..LambdaRetries \/ InList(shown'[c], e) \/ Noted(c, e)'
  <2>1. published[e] \in 1..LambdaRetries \/ InList(shown[c], e) \/ Noted(c, e)
    BY <1>3 DEF EventsRight, Told
  <2>2. Noted(c, e) => Noted(c, e)' BY DEF Noted
  <2>3. InList(shown'[c], e) <=> InList(shown[c], e) BY DEF InList
  <2> QED BY <2>1, <2>2, <2>3
<1> HIDE DEF Channel, InList, Noted, Told
<1> QED BY <1>1, <1>2, <1>3 DEF EventsRight, InList, Noted, Told

\* What happens to the questions: one row is stored, and at most one note is
\* sent, which says what the row is.
Notices(q, w) ==
    \/ w = wire
    \/ w = wire \cup {Note("created", q, 0)} /\ row[q] = NoRow /\ row'[q].status = "PENDING"
    \/ w = wire \cup {Note("answered", q, 0)} /\ row'[q].status = "ANSWERED"

LEMMA HumanMoves ==
    ASSUME HumanLoopAssumption, LoopInv, AskedRows, HumanStep
    PROVE  AskedRows' /\ \E q \in Questions :
              /\ \A p \in Questions : p # q => row'[p] = row[p]
              /\ \/ row'[q] = row[q] /\ wire' = wire
                 \/ row'[q] \in StoredRows(q) /\ Notices(q, wire')
<1> DEFINE Goal == \E q \in Questions :
              /\ \A p \in Questions : p # q => row'[p] = row[p]
              /\ \/ row'[q] = row[q] /\ wire' = wire
                 \/ row'[q] \in StoredRows(q) /\ Notices(q, wire')
<1> SUFFICES AskedRows' /\ Goal OBVIOUS
<1>1. ASSUME NEW a \in Agents, NEW q \in Questions,
             Skip(a, q) \/ Resume(a, q) \/ ResumeAgain(a, q) \/ ResumeFails(a, q)
               \/ TriggerRaises(a, q)
      PROVE  Goal
  <2>1. row' = row /\ wire' = wire
    BY <1>1 DEF Skip, Resume, ResumeAgain, ResumeFails, TriggerRaises, askVars
  <2> QED BY <2>1
<1>2. ASSUME NEW q \in Questions, NEW new \in StoredRows(q), Store(q, new),
             \/ wire' = wire
             \/ wire' = wire \cup {Note("created", q, 0)} /\ row[q] = NoRow /\ new.status = "PENDING"
             \/ wire' = wire \cup {Note("answered", q, 0)} /\ new.status = "ANSWERED"
      PROVE  Goal
  <2>1. row = [p \in Questions |-> row[p]] BY DEF LoopInv, LoopTypes
  <2>2. row'[q] = new /\ \A p \in Questions : p # q => row'[p] = row[p] BY <1>2, <2>1 DEF Store
  <2>3. Notices(q, wire') BY <1>2, <2>2 DEF Notices
  <2> QED BY <2>2, <2>3
<1>3. ASSUME NEW q \in Questions, Ask(q) \/ AskFails(q) \/ Fallback(q) PROVE Goal
  <2>1. Pending(q) \in StoredRows(q) /\ Pending(q).status = "PENDING"
    BY DEF Pending, StoredRows, HumanLoopAssumption
  <2>2. \/ row' = row /\ wire' = wire
        \/ /\ Store(q, Pending(q))
           /\ wire' = wire \/ (wire' = wire \cup {Note("created", q, 0)} /\ row[q] = NoRow)
    BY <1>3 DEF Ask, AskFails, Fallback, AskedRows
  <2>3. CASE row' = row /\ wire' = wire BY <2>3
  <2> HIDE DEF Pending, Note, Goal
  <2> QED BY <1>2, <2>1, <2>2, <2>3
<1>4. ASSUME NEW q \in Questions, AnswerElsewhere(q) \/ AnswerByApi(q) PROVE Goal
  <2>1. row[q] # NoRow /\ row[q] \in StoredRows(q)
    BY <1>4 DEF AnswerElsewhere, AnswerByApi, LoopInv, LoopTypes
  <2>2. PICK option \in Options : StoreAnswer(q, option)
    BY <1>4 DEF AnswerElsewhere, AnswerByApi
  <2> DEFINE new == [row[q] EXCEPT !.status = "ANSWERED", !.answer = option]
  <2>3. new \in StoredRows(q) /\ new.status = "ANSWERED" BY <2>1 DEF StoredRows
  <2>4. Store(q, new) BY <2>2 DEF StoreAnswer
  <2>5. wire' = wire \/ wire' = wire \cup {Note("answered", q, 0)}
    BY <1>4 DEF AnswerElsewhere, AnswerByApi
  <2> HIDE DEF new, Note, Goal
  <2> QED BY <1>2, <2>3, <2>4, <2>5
<1>5. AskedRows'
  <2>1. ASSUME NEW a \in Agents, NEW q \in Questions,
               Skip(a, q) \/ Resume(a, q) \/ ResumeAgain(a, q) \/ ResumeFails(a, q)
                 \/ TriggerRaises(a, q)
        PROVE  row' = row /\ asking' = asking
    BY <2>1 DEF Skip, Resume, ResumeAgain, ResumeFails, TriggerRaises, askVars
  <2>2. ASSUME NEW q \in Questions, Ask(q) \/ AskFails(q) \/ Fallback(q)
        PROVE  \E v \in {"asked", "fallback"} :
                  /\ asking' = [asking EXCEPT ![q] = v]
                  /\ row' = row \/ row' = [row EXCEPT ![q] = Pending(q)]
    BY <2>2 DEF Ask, AskFails, Fallback, Store
  <2>3. ASSUME NEW q \in Questions, AnswerElsewhere(q) \/ AnswerByApi(q)
        PROVE  /\ asking' = asking /\ row[q] # NoRow
               /\ \E new : row' = [row EXCEPT ![q] = new]
    BY <2>3 DEF AnswerElsewhere, AnswerByApi, StoreAnswer, Store
  <2>4. row = [q \in Questions |-> row[q]] BY DEF LoopInv, LoopTypes
  <2>5. ASSUME NEW q \in Questions, Ask(q) \/ AskFails(q) \/ Fallback(q) PROVE AskedRows'
    BY <2>2, <2>4, <2>5 DEF AskedRows
  <2>6. ASSUME NEW q \in Questions, AnswerElsewhere(q) \/ AnswerByApi(q) PROVE AskedRows'
    BY <2>3, <2>4, <2>6 DEF AskedRows
  <2> QED BY <2>1, <2>5, <2>6 DEF HumanStep, AskedRows
<1> QED BY <1>1, <1>3, <1>4, <1>5 DEF HumanStep

\* Rows are stored one by one.
LEMMA RowsFinite ==
    ASSUME FeedTypes, NEW q \in Questions, \A p \in Questions : p # q => row'[p] = row[p]
    PROVE  IsFiniteSet({p \in Questions : row'[p] # NoRow})
<1> DEFINE Old == {p \in Questions : row[p] # NoRow}
           New == {p \in Questions : row'[p] # NoRow}
<1>1. IsFiniteSet(Old \cup {q}) BY FS_AddElement DEF FeedTypes
<1>2. New \in SUBSET (Old \cup {q}) OBVIOUS
<1> HIDE DEF Old
<1> QED BY <1>1, <1>2, FS_Subset

LEMMA StoredStatus ==
    ASSUME HumanLoopAssumption, NEW q \in Questions, NEW r \in StoredRows(q)
    PROVE  r # NoRow /\ r.status \in {"PENDING", "ANSWERED"}
<1>1. r.status \in {"PENDING", "ANSWERED"} BY DEF StoredRows
<1>2. NoRow.status = "NONE" BY DEF NoRow
<1> QED BY <1>1, <1>2

\* A row is stored, and the page learns of it, or the question is doubtful.
LEMMA RowMoves ==
    ASSUME HumanLoopAssumption, LoopTypes, FeedTypes, QuestionNotes, QuestionsRight,
           NEW q \in Questions, \A p \in Questions : p # q => row'[p] = row[p],
           row'[q] \in StoredRows(q), Notices(q, wire'),
           UNCHANGED <<shown, result, load>>, misled \subseteq misled',
           \A p \in Questions : click'[p].stored =>
               click[p].stored \/ (p = q /\ row'[q].status = "ANSWERED"),
           q \in misled' \/ row'[q] = row[q] \/
               /\ load["questions"] # "answered" /\ wire' # wire
               /\ \A n \in wire : n.item # q
    PROVE  QuestionNotes' /\ QuestionsRight'
<1> DEFINE created == Note("created", q, 0)
           answered == Note("answered", q, 0)
<1>1. /\ created.feed = "created" /\ created.item = q
      /\ answered.feed = "answered" /\ answered.item = q
  BY DEF Note
<1>2. \/ wire' = wire
      \/ wire' = wire \cup {created} /\ row[q] = NoRow /\ row'[q].status = "PENDING"
      \/ wire' = wire \cup {answered} /\ row'[q].status = "ANSWERED"
  BY DEF Notices
<1> HIDE DEF created, answered
<1>3. wire \subseteq wire' BY <1>2
<1>4. row'[q] # NoRow /\ row'[q].status \in {"PENDING", "ANSWERED"} BY StoredStatus
<1>5. NoRow.status = "NONE" BY DEF NoRow
<1>6. \A feed, p : Noted(feed, p) => Noted(feed, p)' BY <1>3 DEF Noted
<1>7. QuestionNotes'
  <2> SUFFICES ASSUME NEW n \in wire', n.feed \in QuestionFeeds
               PROVE  /\ n.item \in Questions /\ row'[n.item] # NoRow
                      /\ n.item \notin misled' => row'[n.item].status =
                            IF n.feed = "created" THEN "PENDING" ELSE "ANSWERED"
    BY DEF QuestionNotes
  <2>1. CASE n \in wire
    <3>1. /\ n.item \in Questions /\ row[n.item] # NoRow
          /\ n.item \notin misled => row[n.item].status =
                IF n.feed = "created" THEN "PENDING" ELSE "ANSWERED"
      BY <2>1 DEF QuestionNotes
    <3>2. CASE n.item # q BY <3>1, <3>2
    <3>3. CASE n.item = q BY <1>4, <2>1, <3>1, <3>3
    <3> QED BY <3>2, <3>3
  <2>2. CASE n \in {created, answered} /\ n \notin wire
    BY <1>1, <1>2, <1>4, <2>2
  <2> QED BY <1>2, <2>1, <2>2
<1>8. QuestionsRight'
  <2> SUFFICES ASSUME NEW p \in Questions
               PROVE  /\ InList(shown["questions"], p) \/ InList(result["questions"], p) => row'[p] # NoRow
                      /\ p \notin misled' =>
                          /\ click'[p].stored => row'[p].status = "ANSWERED"
                          /\ load["questions"] = "answered" =>
                                (InList(result["questions"], p) <=> row'[p].status = "PENDING")
                          /\ load["questions"] = "no" =>
                                IF row'[p].status = "PENDING"
                                THEN InList(shown["questions"], p) \/ Noted("created", p)'
                                ELSE ~InList(shown["questions"], p) \/ Noted("answered", p)'
    BY DEF QuestionsRight, InList
  <2>1. CASE row'[p] = row[p]
    <3>1. click'[p].stored => click[p].stored \/ row[p].status = "ANSWERED" BY <2>1
    <3> HIDE DEF InList, Noted
    <3> QED BY <1>6, <2>1, <3>1 DEF QuestionsRight
  <2>2. CASE p = q /\ row'[q] # row[q]
    <3>1. q \in misled' \/ (/\ load["questions"] # "answered" /\ wire' # wire
                            /\ \A n \in wire : n.item # q)
      BY <2>2
    <3>2. CASE q \in misled' BY <1>4, <2>2, <3>2
    <3>3. CASE q \notin misled'
      <4>1. \/ created \in wire' /\ row[q] = NoRow /\ row'[q].status = "PENDING"
            \/ answered \in wire' /\ row'[q].status = "ANSWERED"
        BY <1>2, <3>1, <3>3
      <4>2. CASE created \in wire' /\ row[q] = NoRow /\ row'[q].status = "PENDING"
        <5>1. Noted("created", q)' BY <1>1, <4>2 DEF Noted
        <5>2. ~click[q].stored BY <1>5, <3>3, <4>2 DEF QuestionsRight
        <5> QED BY <1>4, <2>2, <3>1, <3>3, <4>2, <5>1, <5>2
      <4>3. CASE answered \in wire' /\ row'[q].status = "ANSWERED"
        <5>1. Noted("answered", q)' BY <1>1, <4>3 DEF Noted
        <5> QED BY <1>4, <2>2, <3>1, <3>3, <4>3, <5>1
      <4> QED BY <4>1, <4>2, <4>3
    <3> QED BY <3>2, <3>3
  <2> QED BY <2>1, <2>2
<1> QED BY <1>7, <1>8

LEMMA HumanFeed ==
    ASSUME HumanLoopAssumption, LoopInv, AnswersResume, FeedInv, Human
    PROVE  FeedInv'
<1> USE DEF sourceVars, viewVars
<1>0. /\ AskedRows /\ FeedTypes /\ QuestionNotes /\ QuestionsRight /\ FindingsRight /\ EventsRight
      /\ LoopTypes
  BY DEF FeedInv, LoopInv
<1>1. HumanStep /\ UNCHANGED <<findings, published, live, load, result, shown, click>>
  BY DEF Human
<1>2. AskedRows' BY <1>0, <1>1, HumanMoves
<1>3. PICK q \in Questions :
         /\ \A p \in Questions : p # q => row'[p] = row[p]
         /\ \/ row'[q] = row[q] /\ wire' = wire
            \/ row'[q] \in StoredRows(q) /\ Notices(q, wire')
  BY <1>0, <1>1, HumanMoves
<1>4. /\ wire \subseteq wire' /\ \A n \in wire' : n \in wire \/ n.feed \in QuestionFeeds
      /\ misled \subseteq misled'
  BY <1>3 DEF Notices, Note, QuestionFeeds, Human
<1>5. FeedTypes'
  <2>1. IsFiniteSet({p \in Questions : row'[p] # NoRow}) BY <1>0, <1>3, RowsFinite
  <2>2. \A n \in wire' : n.feed \in Feeds BY <1>0, <1>4 DEF FeedTypes, Feeds
  <2> QED BY <1>0, <1>1, <2>1, <2>2 DEF FeedTypes
<1>6. FindingsRight'
  <2>1. \A n \in wire' : n.feed = "findings" => n \in wire BY <1>4 DEF QuestionFeeds
  <2> QED BY <1>0, <1>1, <1>4, <2>1, FindingsFrame
<1>7. EventsRight'
  <2>1. \A n \in wire' : n.feed \in Channels => n \in wire BY <1>4, ChannelTypes
  <2> QED BY <1>0, <1>1, <1>4, <2>1, EventsFrame
<1>8. QuestionNotes' /\ QuestionsRight'
  <2>1. CASE row'[q] = row[q] /\ wire' = wire
    <3>1. row = [p \in Questions |-> row[p]] BY <1>0 DEF LoopTypes
    <3>2. row' = [p \in Questions |-> row'[p]] BY <1>1, LoopInductive DEF LoopInv, LoopTypes
    <3>3. row' = row BY <1>3, <2>1, <3>1, <3>2
    <3> QED BY <1>0, <1>1, <1>4, <2>1, <3>3, QuestionsFrame
  <2>2. CASE row'[q] \in StoredRows(q) /\ Notices(q, wire')
    <3>1. q \in misled' \/ row'[q] = row[q] \/
               /\ load["questions"] # "answered" /\ wire' # wire
               /\ \A n \in wire : n.item # q
      <4> SUFFICES ASSUME row'[q] # row[q], q \notin misled'
                   PROVE  /\ load["questions"] # "answered" /\ wire' # wire
                          /\ \A n \in wire : n.item # q
        OBVIOUS
      <4>1. q \in Changed BY DEF Changed
      <4> HIDE DEF Changed, Unnotified
      <4> QED BY <4>1 DEF Human, Raced
    <3> QED BY <1>0, <1>1, <1>3, <1>4, <2>2, <3>1, RowMoves
  <2> QED BY <1>3, <2>1, <2>2
<1> QED BY <1>2, <1>5, <1>6, <1>7, <1>8 DEF FeedInv

LEMMA FindingFeed ==
    ASSUME FeedInv, NEW f \in Findings, PublishFinding(f)
    PROVE  FeedInv'
<1> USE DEF askVars, triggerVars, viewVars
<1>0. /\ AskedRows /\ FeedTypes /\ QuestionNotes /\ QuestionsRight /\ FindingsRight /\ EventsRight
  BY DEF FeedInv
<1> DEFINE note == Note("findings", f, 0)
<1>1. /\ UNCHANGED <<asking, row, published, live, load, result, shown, click>>
      /\ findings' = findings \cup {f} /\ wire' = wire \cup {note}
      /\ misled \subseteq misled' /\ (load["findings"] = "answered" => f \in misled')
  BY DEF PublishFinding, Raced
<1>2. note.feed = "findings" /\ note.item = f BY DEF Note
<1> HIDE DEF note
<1>3. FeedTypes'
  <2>1. IsFiniteSet(findings') /\ findings' \subseteq Findings
    BY <1>0, <1>1, FS_AddElement DEF FeedTypes
  <2>2. \A n \in wire' : n.feed \in Feeds BY <1>0, <1>1, <1>2 DEF FeedTypes, Feeds
  <2> QED BY <1>0, <1>1, <2>1, <2>2 DEF FeedTypes
<1>4. QuestionNotes' /\ QuestionsRight'
  <2>1. \A n \in wire' : n.feed \in QuestionFeeds => n \in wire BY <1>1, <1>2 DEF QuestionFeeds
  <2> QED BY <1>0, <1>1, <2>1, QuestionsFrame
<1>5. EventsRight'
  <2>1. \A n \in wire' : n.feed \in Channels => n \in wire BY <1>1, <1>2, ChannelTypes
  <2> QED BY <1>0, <1>1, <2>1, EventsFrame
<1>6. FindingsRight'
  <2>1. \A n \in wire' : n.feed = "findings" => n.item \in findings'
    BY <1>0, <1>1, <1>2 DEF FindingsRight
  <2>2. \A i \in Items : InList(shown'["findings"], i) \/ InList(result'["findings"], i) => i \in findings'
    BY <1>0, <1>1 DEF FindingsRight, InList
  <2>3. ASSUME NEW g \in findings' \ misled'
        PROVE  /\ load'["findings"] = "answered" => InList(result'["findings"], g)
               /\ load'["findings"] = "no" => InList(shown'["findings"], g) \/ Noted("findings", g)'
    <3>1. CASE g = f BY <1>1, <1>2, <2>3, <3>1 DEF Noted
    <3>2. CASE g \in findings BY <1>0, <1>1, <2>3, <3>2 DEF FindingsRight, InList, Noted
    <3> QED BY <1>1, <3>1, <3>2
  <2> QED BY <2>1, <2>2, <2>3 DEF FindingsRight, InList, Noted
<1> QED BY <1>0, <1>1, <1>3, <1>4, <1>5, <1>6 DEF FeedInv, AskedRows

\* The publisher: it notifies, or fails and will be tried again, or is done.
LEMMA EventFeed ==
    ASSUME LiveFeedAssumption, FeedInv, NEW e \in Events,
           Publish(e) \/ PublishRefused(e) \/ PublishThrows(e)
    PROVE  FeedInv'
<1> USE DEF askVars, triggerVars, viewVars
<1>0. /\ AskedRows /\ FeedTypes /\ QuestionNotes /\ QuestionsRight /\ FindingsRight /\ EventsRight
  BY DEF FeedInv
<1> DEFINE note == EventNote(e)
<1>1. UNCHANGED <<asking, row, findings, live, load, result, shown, click>>
      /\ misled \subseteq misled' /\ wire' \in {wire, wire \cup {note}}
  BY DEF Publish, PublishRefused, PublishThrows
<1>2. /\ published' \in [Events -> Nat] /\ published'[e] \in 1..(LambdaRetries + 1)
      /\ \A x \in Events : x # e => published'[x] = published[x]
      /\ published'[e] \notin 1..LambdaRetries => e \in misled' \/ wire' = wire \cup {note}
  <2>1. published \in [Events -> Nat] /\ LambdaRetries \in Nat
    BY <1>0 DEF FeedTypes, LiveFeedAssumption
  <2>2. CASE Publish(e) BY <2>1, <2>2 DEF Publish
  <2>3. CASE PublishRefused(e) BY <2>1, <2>3 DEF PublishRefused
  <2>4. CASE PublishThrows(e) BY <2>1, <2>4 DEF PublishThrows
  <2> QED BY <2>2, <2>3, <2>4
<1>3. note.feed = Channel(DomainOf[e]) /\ note.item = e BY DEF EventNote, Note
<1> HIDE DEF note
<1>4. note.feed \in Channels \cup {"none"} BY <1>3, ChannelTypes
<1>5. FeedTypes'
  <2>1. \A n \in wire' : n.feed \in Feeds BY <1>0, <1>1, <1>4 DEF FeedTypes, Feeds
  <2> QED BY <1>0, <1>1, <1>2, <2>1 DEF FeedTypes
<1>6. QuestionNotes' /\ QuestionsRight'
  <2>1. \A n \in wire' : n.feed \in QuestionFeeds => n \in wire
    BY <1>1, <1>4, ChannelTypes DEF QuestionFeeds
  <2> QED BY <1>0, <1>1, <2>1, QuestionsFrame
<1>7. FindingsRight'
  <2>1. \A n \in wire' : n.feed = "findings" => n \in wire BY <1>1, <1>4, ChannelTypes
  <2> QED BY <1>0, <1>1, <2>1, FindingsFrame
<1>8. \A x \in Events : Told(x) => Told(x)' BY <1>2 DEF Told
<1>9. Told(e)' BY <1>2 DEF Told
<1>10. EventsRight'
  <2>1. \A n \in wire' : n.feed \in Channels =>
            n.item \in Events /\ Told(n.item)' /\ n.feed = Channel(DomainOf[n.item])
    BY <1>0, <1>1, <1>3, <1>8, <1>9 DEF EventsRight
  <2>2. \A c \in Channels, i \in Items : InList(shown'[c], i) =>
            i \in Events /\ Told(i)' /\ c = Channel(DomainOf[i])
    <3> HIDE DEF InList, Told
    <3>1. \A c, i : InList(shown'[c], i) <=> InList(shown[c], i) BY <1>1 DEF InList
    <3> QED BY <1>0, <1>8, <3>1 DEF EventsRight
  <2>3. ASSUME NEW x \in Events \ misled', NEW c \in Channels, Told(x)', c = Channel(DomainOf[x])
        PROVE  published'[x] \in 1..LambdaRetries \/ InList(shown'[c], x) \/ Noted(c, x)'
    <3>1. CASE x = e
      <4>1. published'[e] \notin 1..LambdaRetries => note \in wire' BY <1>2, <2>3, <3>1
      <4> QED BY <1>3, <2>3, <3>1, <4>1 DEF Noted
    <3>2. CASE x # e
      <4>1. Told(x) BY <1>2, <2>3, <3>2 DEF Told
      <4>2. published[x] \in 1..LambdaRetries \/ InList(shown[c], x) \/ Noted(c, x)
        BY <1>0, <1>1, <2>3, <4>1 DEF EventsRight
      <4>3. Noted(c, x) => Noted(c, x)' BY <1>1 DEF Noted
      <4> QED BY <1>1, <1>2, <3>2, <4>2, <4>3
    <3> QED BY <3>1, <3>2
  <2> QED BY <2>1, <2>2, <2>3 DEF EventsRight, InList, Noted, Told
<1> QED BY <1>0, <1>1, <1>5, <1>6, <1>7, <1>10 DEF FeedInv, AskedRows

\* A new page knows nothing yet.
LEMMA ReloadFeed ==
    ASSUME FeedInv, Reload
    PROVE  FeedInv'
<1> USE DEF askVars, triggerVars, sourceVars
<1>0. AskedRows /\ FeedTypes BY DEF FeedInv
<1>1. /\ UNCHANGED <<asking, row, findings, published>>
      /\ wire' = {} /\ live' = FALSE /\ misled' = {e \in Events : published[e] # 0}
      /\ load' = [l \in Queried |-> "sent"] /\ result' = [l \in Queried |-> NoResult]
      /\ shown' = [l \in Lists |-> <<>>] /\ click' = [q \in Questions |-> NoClick]
  BY DEF Reload
<1>2. NoClick \in [option : {""} \cup Options, stored : BOOLEAN] /\ ~NoClick.stored BY DEF NoClick
<1>3. \A l \in Lists : \A i : ~InList(shown'[l], i) BY <1>1 DEF InList
<1>4. \A l \in Queried : \A i : ~InList(result'[l], i) BY <1>1 DEF InList, NoResult
<1>5. FeedTypes'
  <2>1. \A S : <<>> \in Seq(S) OBVIOUS
  <2> HIDE DEF NoClick
  <2> QED BY <1>0, <1>1, <1>2, <2>1 DEF FeedTypes, NoResult
<1>6. QuestionNotes' BY <1>1 DEF QuestionNotes
<1>7. QuestionsRight'
  <2> SUFFICES ASSUME NEW q \in Questions
               PROVE  /\ ~InList(shown'["questions"], q) /\ ~InList(result'["questions"], q)
                      /\ ~click'[q].stored /\ load'["questions"] = "sent"
    BY DEF QuestionsRight, InList
  <2> HIDE DEF NoClick
  <2> QED BY <1>1, <1>2, <1>3, <1>4, ChannelTypes
<1>8. FindingsRight'
  <2>1. load'["findings"] = "sent" BY <1>1, ChannelTypes
  <2>2. \A i \in Items : ~InList(shown'["findings"], i) /\ ~InList(result'["findings"], i)
    BY <1>3, <1>4, ChannelTypes
  <2> QED BY <1>1, <2>1, <2>2 DEF FindingsRight, InList
<1>9. EventsRight'
  <2>1. \A c \in Channels, i \in Items : ~InList(shown'[c], i) BY <1>3, ChannelTypes
  <2> QED BY <1>1, <2>1 DEF EventsRight, InList, Told
<1> QED BY <1>0, <1>1, <1>5, <1>6, <1>7, <1>8, <1>9 DEF FeedInv, AskedRows

\* Notifications are dropped, or a click is over: what it concerned is doubtful
\* or shown already.
LEMMA DroppedFeed ==
    ASSUME FeedInv, UNCHANGED <<asking, row, findings, published, load, result, shown>>,
           live' \in BOOLEAN, misled \subseteq misled', wire' \subseteq wire,
           \A n \in wire : n \in wire' \/ n.item \in misled',
           \/ click' = click
           \/ \E q \in Questions : click' = [click EXCEPT ![q] = NoClick]
    PROVE  FeedInv'
<1>0. /\ AskedRows /\ FeedTypes /\ QuestionNotes /\ QuestionsRight /\ FindingsRight /\ EventsRight
  BY DEF FeedInv
<1>1. NoClick \in [option : {""} \cup Options, stored : BOOLEAN] /\ ~NoClick.stored BY DEF NoClick
<1>2. /\ click' \in [Questions -> [option : {""} \cup Options, stored : BOOLEAN]]
      /\ \A q \in Questions : click'[q].stored => click[q].stored
  <2> DEFINE Clicks == [option : {""} \cup Options, stored : BOOLEAN]
  <2>1. click \in [Questions -> Clicks] BY <1>0 DEF FeedTypes
  <2>2. NoClick \in Clicks BY <1>1
  <2> HIDE DEF NoClick, Clicks
  <2>3. ASSUME click' = click
        PROVE  /\ click' \in [Questions -> Clicks]
               /\ \A p \in Questions : click'[p].stored => click[p].stored
    BY <2>1, <2>3
  <2>4. ASSUME NEW q \in Questions, click' = [click EXCEPT ![q] = NoClick]
        PROVE  /\ click' \in [Questions -> Clicks]
               /\ \A p \in Questions : click'[p].stored => click[p].stored
    BY <1>1, <2>1, <2>2, <2>4
  <2>5. /\ click' \in [Questions -> Clicks]
        /\ \A q \in Questions : click'[q].stored => click[q].stored
    BY <2>3, <2>4
  <2> QED BY <2>5 DEF Clicks
<1>3. FeedTypes' BY <1>0, <1>2 DEF FeedTypes
<1>4. QuestionNotes' /\ QuestionsRight' BY <1>0, <1>2, QuestionsFrame
<1>5. FindingsRight' BY <1>0, FindingsFrame
<1>6. EventsRight' BY <1>0, EventsFrame
<1> QED BY <1>0, <1>3, <1>4, <1>5, <1>6 DEF FeedInv, AskedRows

\* The query reads the table; what it does not read is doubtful.
LEMMA QueryFeed ==
    ASSUME HumanLoopAssumption, FeedInv, NEW l \in Queried, Query(l)
    PROVE  FeedInv'
<1> USE DEF humanVars, askVars, sourceVars
<1>0. /\ AskedRows /\ FeedTypes /\ QuestionNotes /\ QuestionsRight /\ FindingsRight /\ EventsRight
  BY DEF FeedInv
<1>1. PICK page \in SUBSET Stored(l) :
        /\ result' = [result EXCEPT ![l] = SetToSeq({i \in page : Passes(l, i)})]
        /\ misled' = misled \cup (Stored(l) \ page)
  BY DEF Query
<1>2. /\ UNCHANGED <<asking, row, findings, published, wire, live, shown, click>>
      /\ load[l] = "sent" /\ load' = [load EXCEPT ![l] = "answered"]
  BY DEF Query
<1> DEFINE read == {i \in page : Passes(l, i)}
           answer == SetToSeq(read)
<1>3. Stored(l) \subseteq Items /\ IsFiniteSet(Stored(l))
  BY <1>0 DEF FeedTypes, Stored, Items
<1>4. IsFiniteSet(read) /\ read \subseteq Items
  <2>1. read \in SUBSET Stored(l) OBVIOUS
  <2> QED BY <1>3, <2>1, FS_Subset
<1>5. \A i : i \in read <=> i \in page /\ Passes(l, i) OBVIOUS
<1> HIDE DEF read
<1>6. answer \in Seq(read) /\ \A i : InList(answer, i) <=> i \in read BY <1>4, SetToSeqHolds
<1>7. answer \in Seq(Items) BY <1>4, <1>6
<1>8. result' = [result EXCEPT ![l] = answer] BY <1>1 DEF read
<1> HIDE DEF answer
<1>9. result'[l] = answer /\ load'[l] = "answered" /\ result' \in [Queried -> Seq(Items)]
      /\ load' \in [Queried -> {"no", "sent", "answered"}]
      /\ \A k \in Queried : k # l => result'[k] = result[k] /\ load'[k] = load[k]
  BY <1>0, <1>2, <1>7, <1>8 DEF FeedTypes
<1>10. FeedTypes' BY <1>0, <1>2, <1>9 DEF FeedTypes
<1>11. EventsRight' BY <1>0, <1>1, <1>2, EventsFrame
<1>12. CASE l = "questions"
  <2>1. FindingsRight'
    BY <1>0, <1>1, <1>2, <1>9, <1>12, ChannelTypes, FindingsFrame
  <2>2. QuestionNotes' BY <1>0, <1>1, <1>2 DEF QuestionNotes
  <2>3. QuestionsRight'
    <3> SUFFICES ASSUME NEW q \in Questions
                 PROVE  /\ InList(shown["questions"], q) \/ InList(answer, q) => row[q] # NoRow
                        /\ q \notin misled' =>
                            /\ click[q].stored => row[q].status = "ANSWERED"
                            /\ InList(answer, q) <=> row[q].status = "PENDING"
      BY <1>2, <1>9, <1>12 DEF QuestionsRight, InList
    <3>1. NoRow.status # "PENDING" BY DEF NoRow
    <3>2. Stored(l) = {p \in Questions : row[p] # NoRow} BY <1>12 DEF Stored
    <3>3. InList(answer, q) <=> q \in page /\ row[q].status = "PENDING"
      BY <1>5, <1>6, <1>12 DEF Passes
    <3>4. q \in page => row[q] # NoRow BY <3>2
    <3>5. q \notin misled' => q \in page \/ row[q] = NoRow BY <1>1, <3>2
    <3> QED BY <1>0, <1>1, <3>1, <3>3, <3>4, <3>5 DEF QuestionsRight
  <2> QED BY <1>0, <1>2, <1>10, <1>11, <2>1, <2>2, <2>3 DEF FeedInv, AskedRows
<1>13. CASE l = "findings"
  <2>1. QuestionNotes' /\ QuestionsRight'
    BY <1>0, <1>1, <1>2, <1>9, <1>13, ChannelTypes, QuestionsFrame
  <2>2. FindingsRight'
    <3>1. Stored(l) = findings BY <1>13 DEF Stored
    <3>2. \A i : InList(answer, i) <=> i \in page
      BY <1>5, <1>6, <1>13 DEF Passes
    <3>3. \A f \in findings \ misled' : InList(result'["findings"], f) BY <1>1, <1>9, <1>13, <3>1, <3>2
    <3>4. \A i \in Items : InList(result'["findings"], i) => i \in findings
      BY <1>9, <1>13, <3>1, <3>2
    <3> QED BY <1>0, <1>2, <1>9, <1>13, <3>3, <3>4 DEF FindingsRight, InList
  <2> QED BY <1>0, <1>2, <1>10, <1>11, <2>1, <2>2 DEF FeedInv, AskedRows
<1> QED BY <1>12, <1>13 DEF Queried

\* Its failure leaves the list as it is, and all that is stored doubtful.
LEMMA QueryFailsFeed ==
    ASSUME HumanLoopAssumption, FeedInv, NEW l \in Queried, QueryFails(l)
    PROVE  FeedInv'
<1> USE DEF askVars, sourceVars
<1>0. /\ AskedRows /\ FeedTypes /\ QuestionNotes /\ QuestionsRight /\ FindingsRight /\ EventsRight
  BY DEF FeedInv
<1>1. /\ UNCHANGED <<asking, row, findings, published, wire, live, shown, click, result>>
      /\ load[l] = "sent" /\ load' = [load EXCEPT ![l] = "no"]
      /\ misled' = misled \cup Stored(l)
  BY DEF QueryFails
<1>2. /\ load'[l] = "no" /\ load' \in [Queried -> {"no", "sent", "answered"}]
      /\ \A k \in Queried : k # l => load'[k] = load[k]
  BY <1>0, <1>1 DEF FeedTypes
<1>3. FeedTypes' BY <1>0, <1>1, <1>2 DEF FeedTypes
<1>4. EventsRight' BY <1>0, <1>1, EventsFrame
<1>5. CASE l = "questions"
  <2>1. FindingsRight' BY <1>0, <1>1, <1>2, <1>5, ChannelTypes, FindingsFrame
  <2>2. QuestionNotes' BY <1>0, <1>1 DEF QuestionNotes
  <2>3. QuestionsRight'
    <3> SUFFICES ASSUME NEW q \in Questions
                 PROVE  /\ InList(shown["questions"], q) \/ InList(result["questions"], q) => row[q] # NoRow
                        /\ q \notin misled' =>
                            /\ click[q].stored => row[q].status = "ANSWERED"
                            /\ row[q].status # "PENDING" /\ ~InList(shown["questions"], q)
      BY <1>1, <1>2, <1>5 DEF QuestionsRight, InList
    <3>1. NoRow.status # "PENDING" BY DEF NoRow
    <3>2. q \notin misled' => row[q] = NoRow BY <1>1, <1>5 DEF Stored
    <3> QED BY <1>0, <1>1, <3>1, <3>2 DEF QuestionsRight
  <2> QED BY <1>0, <1>1, <1>3, <1>4, <2>1, <2>2, <2>3 DEF FeedInv, AskedRows
<1>6. CASE l = "findings"
  <2>1. QuestionNotes' /\ QuestionsRight'
    BY <1>0, <1>1, <1>2, <1>6, ChannelTypes, QuestionsFrame
  <2>2. findings \subseteq misled' BY <1>1, <1>6 DEF Stored
  <2>3. FindingsRight' BY <1>0, <1>1, <2>2 DEF FindingsRight, InList
  <2> QED BY <1>0, <1>1, <1>3, <1>4, <2>1, <2>3 DEF FeedInv, AskedRows
<1> QED BY <1>5, <1>6 DEF Queried

\* The answer replaces the list.
LEMMA LoadedFeed ==
    ASSUME FeedInv, NEW l \in Queried, Loaded(l)
    PROVE  FeedInv'
<1> USE DEF humanVars, askVars, sourceVars
<1>0. /\ AskedRows /\ FeedTypes /\ QuestionNotes /\ QuestionsRight /\ FindingsRight /\ EventsRight
  BY DEF FeedInv
<1>1. /\ UNCHANGED <<asking, row, findings, published, wire, live, click, misled>>
      /\ load[l] = "answered" /\ shown' = [shown EXCEPT ![l] = result[l]]
      /\ load' = [load EXCEPT ![l] = "no"] /\ result' = [result EXCEPT ![l] = NoResult]
  BY DEF Loaded
<1>2. NoResult \in Seq(Items) /\ \A i : ~InList(NoResult, i) BY DEF NoResult, InList
<1>3. l \in Lists /\ result[l] \in Seq(Items)
  BY <1>0 DEF FeedTypes, Lists, Queried
<1> HIDE DEF NoResult
<1>4. /\ shown' \in [Lists -> Seq(Items)] /\ result' \in [Queried -> Seq(Items)]
      /\ load' \in [Queried -> {"no", "sent", "answered"}]
      /\ shown'[l] = result[l] /\ result'[l] = NoResult /\ load'[l] = "no"
      /\ \A k \in Lists : k # l => shown'[k] = shown[k]
      /\ \A k \in Queried : k # l => result'[k] = result[k] /\ load'[k] = load[k]
  BY <1>0, <1>1, <1>2, <1>3 DEF FeedTypes
<1>5. FeedTypes' BY <1>0, <1>1, <1>4 DEF FeedTypes
<1>6. EventsRight'
  <2>1. \A c \in Channels : shown'[c] = shown[c] BY <1>4, ChannelTypes DEF Queried
  <2> QED BY <1>0, <1>1, <2>1, EventsFrame
<1>7. CASE l = "questions"
  <2>1. FindingsRight' BY <1>0, <1>1, <1>4, <1>7, ChannelTypes, FindingsFrame
  <2>2. QuestionNotes' BY <1>0, <1>1 DEF QuestionNotes
  <2>3. QuestionsRight'
    <3> SUFFICES ASSUME NEW q \in Questions
                 PROVE  /\ InList(result["questions"], q) => row[q] # NoRow
                        /\ q \notin misled =>
                            /\ click[q].stored => row[q].status = "ANSWERED"
                            /\ InList(result["questions"], q) <=> row[q].status = "PENDING"
      <4> HIDE DEF InList
      <4> QED BY <1>1, <1>2, <1>4, <1>7 DEF QuestionsRight
    <3> QED BY <1>0, <1>1, <1>7 DEF QuestionsRight
  <2> QED BY <1>0, <1>1, <1>5, <1>6, <2>1, <2>2, <2>3 DEF FeedInv, AskedRows
<1>8. CASE l = "findings"
  <2>1. QuestionNotes' /\ QuestionsRight'
    BY <1>0, <1>1, <1>4, <1>8, ChannelTypes, QuestionsFrame
  <2>2. FindingsRight'
    <3>1. \A n \in wire' : n.feed = "findings" => n.item \in findings'
      BY <1>0, <1>1 DEF FindingsRight
    <3>2. \A i \in Items : InList(shown'["findings"], i) \/ InList(result'["findings"], i) => i \in findings'
      BY <1>0, <1>1, <1>2, <1>4, <1>8 DEF FindingsRight
    <3>3. \A f \in findings' \ misled' : InList(shown'["findings"], f)
      BY <1>0, <1>1, <1>4, <1>8 DEF FindingsRight
    <3>4. load'["findings"] = "no" BY <1>4, <1>8
    <3> QED BY <3>1, <3>2, <3>3, <3>4 DEF FindingsRight, InList
  <2> QED BY <1>0, <1>1, <1>5, <1>6, <2>1, <2>2 DEF FeedInv, AskedRows
<1> QED BY <1>7, <1>8 DEF Queried

\* The mutation's answer takes away a question that is answered.
LEMMA RemovedFeed ==
    ASSUME HumanLoopAssumption, FeedInv, NEW q \in Questions, Removed(q)
    PROVE  FeedInv'
<1> USE DEF humanVars, askVars, sourceVars
<1>0. /\ AskedRows /\ FeedTypes /\ QuestionNotes /\ QuestionsRight /\ FindingsRight /\ EventsRight
  BY DEF FeedInv
<1>1. /\ UNCHANGED <<asking, row, findings, published, wire, live, load, result, misled>>
      /\ click[q].stored /\ shown' = [shown EXCEPT !["questions"] = Without(q)]
      /\ click' = [click EXCEPT ![q] = NoClick]
  BY DEF Removed
<1> DEFINE Clicks == [option : {""} \cup Options, stored : BOOLEAN]
<1>2. click \in [Questions -> Clicks] BY <1>0 DEF FeedTypes
<1>3. NoClick \in Clicks /\ ~NoClick.stored BY DEF NoClick
<1> HIDE DEF NoClick, Clicks
<1>4. /\ click' \in [Questions -> Clicks]
      /\ \A p \in Questions : click'[p].stored => click[p].stored
  BY <1>1, <1>2, <1>3
<1>5. /\ Without(q) \in Seq(Items)
      /\ \A i : InList(Without(q), i) <=> InList(shown["questions"], i) /\ i # q
  BY <1>0, WithoutHolds
<1> HIDE DEF Without
<1>6. /\ shown' \in [Lists -> Seq(Items)] /\ shown'["questions"] = Without(q)
      /\ \A k \in Lists : k # "questions" => shown'[k] = shown[k]
  BY <1>0, <1>1, <1>5, ChannelTypes DEF FeedTypes
<1>7. FeedTypes' BY <1>0, <1>1, <1>4, <1>6 DEF FeedTypes, Clicks
<1>8. FindingsRight'
  <2>1. shown'["findings"] = shown["findings"] BY <1>6, ChannelTypes
  <2> QED BY <1>0, <1>1, <2>1, FindingsFrame
<1>9. EventsRight'
  <2>1. \A c \in Channels : shown'[c] = shown[c] BY <1>6, ChannelTypes
  <2> QED BY <1>0, <1>1, <2>1, EventsFrame
<1>10. QuestionNotes' BY <1>0, <1>1 DEF QuestionNotes
<1>11. QuestionsRight'
  <2> SUFFICES ASSUME NEW p \in Questions
               PROVE  /\ InList(Without(q), p) \/ InList(result["questions"], p) => row[p] # NoRow
                      /\ p \notin misled =>
                          /\ click'[p].stored => row[p].status = "ANSWERED"
                          /\ load["questions"] = "answered" =>
                                (InList(result["questions"], p) <=> row[p].status = "PENDING")
                          /\ load["questions"] = "no" =>
                                IF row[p].status = "PENDING"
                                THEN InList(Without(q), p) \/ Noted("created", p)
                                ELSE ~InList(Without(q), p) \/ Noted("answered", p)
    <3> HIDE DEF InList
    <3> QED BY <1>1, <1>6 DEF QuestionsRight, Noted
  <2>1. p = q /\ p \notin misled => row[p].status # "PENDING"
    <3>1. "ANSWERED" # "PENDING" OBVIOUS
    <3> QED BY <1>0, <1>1, <3>1 DEF QuestionsRight
  <2> HIDE DEF InList, Noted
  <2> QED BY <1>0, <1>4, <1>5, <2>1 DEF QuestionsRight
<1> QED BY <1>0, <1>1, <1>7, <1>8, <1>9, <1>10, <1>11 DEF FeedInv, AskedRows

\* A notification is taken from the wire into its list, or out of it.
LEMMA NotifyFeed ==
    ASSUME HumanLoopAssumption, LiveFeedAssumption, FeedInv, NEW n \in wire, Notify(n)
    PROVE  FeedInv'
<1> USE DEF askVars, triggerVars, sourceVars
<1>0. /\ AskedRows /\ FeedTypes /\ QuestionNotes /\ QuestionsRight /\ FindingsRight /\ EventsRight
  BY DEF FeedInv
<1>1. /\ UNCHANGED <<asking, row, findings, published, live, load, result, click>>
      /\ wire' = wire \ {n}
  BY DEF Notify
<1>2. n.feed \in Feeds BY <1>0 DEF FeedTypes
<1>3. \A feed, i : Noted(feed, i) => Noted(feed, i)' \/ (n.feed = feed /\ n.item = i)
  BY <1>1 DEF Noted
<1>4. ASSUME FeedTypes', QuestionNotes', QuestionsRight', FindingsRight', EventsRight'
      PROVE  FeedInv'
  BY <1>0, <1>1, <1>4 DEF FeedInv, AskedRows
<1>5. ASSUME misled \subseteq misled' PROVE QuestionNotes'
  BY <1>0, <1>1, <1>5 DEF QuestionNotes
<1>6. \A m \in wire' : m \in wire BY <1>1
<1>7. CASE n.feed = "answered"
  <2>1. shown' = [shown EXCEPT !["questions"] = Without(n.item)] /\ misled' = misled
    <3>1. ListOf(n.feed) = "questions" /\ ListOf(n.feed) \in Lists
      BY <1>7, ChannelTypes DEF ListOf
    <3> HIDE DEF Without, Shown, Cut, ListOf, Lists
    <3>2. /\ shown' = [shown EXCEPT ![ListOf(n.feed)] = AfterAnswered(n.item)]
          /\ misled' = misled
      BY <1>7, <3>1 DEF Notify
    <3> QED BY <3>1, <3>2 DEF AfterAnswered
  <2> DEFINE q == n.item
  <2>2. q \in Questions /\ (q \notin misled => row[q].status = "ANSWERED")
    BY <1>0, <1>7 DEF QuestionNotes, QuestionFeeds
  <2>3. /\ Without(q) \in Seq(Items)
        /\ \A i : InList(Without(q), i) <=> InList(shown["questions"], i) /\ i # q
    BY <1>0, WithoutHolds
  <2> HIDE DEF Without
  <2>4. /\ shown' \in [Lists -> Seq(Items)] /\ shown'["questions"] = Without(q)
        /\ \A k \in Lists : k # "questions" => shown'[k] = shown[k]
    BY <1>0, <2>1, <2>3, ChannelTypes DEF FeedTypes
  <2>5. FeedTypes' BY <1>0, <1>1, <2>4 DEF FeedTypes
  <2>6. FindingsRight'
    <3>1. shown'["findings"] = shown["findings"] BY <2>4, ChannelTypes
    <3>2. \A m \in wire : m.feed = "findings" => m \in wire' BY <1>1, <1>7
    <3> QED BY <1>0, <1>1, <1>6, <2>1, <3>1, <3>2, FindingsFrame
  <2>7. EventsRight'
    <3>1. \A c \in Channels : shown'[c] = shown[c] BY <2>4, ChannelTypes
    <3>2. \A m \in wire : m.feed \in Channels => m \in wire'
      BY <1>1, <1>7, ChannelTypes DEF QuestionFeeds
    <3> QED BY <1>0, <1>1, <1>6, <2>1, <3>1, <3>2, EventsFrame
  <2>8. QuestionsRight'
    <3> SUFFICES ASSUME NEW p \in Questions
                 PROVE  /\ InList(Without(q), p) \/ InList(result["questions"], p) => row[p] # NoRow
                        /\ p \notin misled =>
                            /\ click[p].stored => row[p].status = "ANSWERED"
                            /\ load["questions"] = "answered" =>
                                  (InList(result["questions"], p) <=> row[p].status = "PENDING")
                            /\ load["questions"] = "no" =>
                                  IF row[p].status = "PENDING"
                                  THEN InList(Without(q), p) \/ Noted("created", p)'
                                  ELSE ~InList(Without(q), p) \/ Noted("answered", p)'
      <4> HIDE DEF InList
      <4> QED BY <1>1, <2>1, <2>4 DEF QuestionsRight
    <3>1. p = q /\ p \notin misled => row[p].status # "PENDING"
      <4>1. "ANSWERED" # "PENDING" OBVIOUS
      <4> QED BY <2>2, <4>1
    <3>2. Noted("created", p) => Noted("created", p)' BY <1>3, <1>7
    <3>3. p # q => (Noted("answered", p) => Noted("answered", p)') BY <1>3
    <3> HIDE DEF InList, Noted
    <3> QED BY <1>0, <2>3, <3>1, <3>2, <3>3 DEF QuestionsRight
  <2> QED BY <1>4, <1>5, <2>1, <2>5, <2>6, <2>7, <2>8
<1>8. ASSUME NEW l \in Lists, l = ListOf(n.feed), n.feed # "answered", n.item \in Items
      PROVE  /\ misled \subseteq misled' /\ FeedTypes'
             /\ InList(shown'[l], n.item)
             /\ \A i : InList(shown'[l], i) => i = n.item \/ InList(shown[l], i)
             /\ \A i : InList(shown[l], i) => i \in misled' \/ InList(shown'[l], i)
             /\ \A k \in Lists : k # l => shown'[k] = shown[k]
  <2>1. shown' = [shown EXCEPT ![l] = Shown(l, n.item)] /\ misled' = misled \cup Cut(l)
    BY <1>8 DEF Notify
  <2>2. /\ Shown(l, n.item) \in Seq(Items) /\ InList(Shown(l, n.item), n.item)
        /\ \A i : InList(Shown(l, n.item), i) => i = n.item \/ InList(shown[l], i)
        /\ \A i : InList(shown[l], i) => i \in Cut(l) \/ InList(Shown(l, n.item), i)
    BY <1>0, <1>8, ShownHolds
  <2> HIDE DEF Shown, Cut, InList
  <2>3. /\ shown' \in [Lists -> Seq(Items)] /\ shown'[l] = Shown(l, n.item)
        /\ \A k \in Lists : k # l => shown'[k] = shown[k]
    BY <1>0, <1>8, <2>1, <2>2 DEF FeedTypes
  <2>4. FeedTypes' BY <1>0, <1>1, <2>3 DEF FeedTypes
  <2> QED BY <2>1, <2>2, <2>3, <2>4
<1>9. CASE n.feed = "created"
  <2> DEFINE q == n.item
  <2>1. q \in Questions /\ row[q] # NoRow /\ (q \notin misled => row[q].status = "PENDING")
    BY <1>0, <1>9 DEF QuestionNotes, QuestionFeeds
  <2>2. "questions" \in Lists /\ ListOf(n.feed) = "questions" /\ q \in Items
    BY <1>9, <2>1, ChannelTypes DEF ListOf, Items
  <2>3. /\ misled \subseteq misled' /\ FeedTypes'
        /\ InList(shown'["questions"], q)
        /\ \A i : InList(shown'["questions"], i) => i = q \/ InList(shown["questions"], i)
        /\ \A i : InList(shown["questions"], i) => i \in misled' \/ InList(shown'["questions"], i)
        /\ \A k \in Lists : k # "questions" => shown'[k] = shown[k]
    BY <1>8, <1>9, <2>2
  <2>4. FindingsRight'
    <3>1. shown'["findings"] = shown["findings"] BY <2>3, ChannelTypes
    <3>2. \A m \in wire : m.feed = "findings" => m \in wire' BY <1>1, <1>9
    <3> QED BY <1>0, <1>1, <1>6, <2>3, <3>1, <3>2, FindingsFrame
  <2>5. EventsRight'
    <3>1. \A c \in Channels : shown'[c] = shown[c] BY <2>3, ChannelTypes
    <3>2. \A m \in wire : m.feed \in Channels => m \in wire'
      BY <1>1, <1>9, ChannelTypes DEF QuestionFeeds
    <3> QED BY <1>0, <1>1, <1>6, <2>3, <3>1, <3>2, EventsFrame
  <2>6. QuestionsRight'
    <3> SUFFICES ASSUME NEW p \in Questions
                 PROVE  /\ InList(shown'["questions"], p) \/ InList(result["questions"], p) => row[p] # NoRow
                        /\ p \notin misled' =>
                            /\ click[p].stored => row[p].status = "ANSWERED"
                            /\ load["questions"] = "answered" =>
                                  (InList(result["questions"], p) <=> row[p].status = "PENDING")
                            /\ load["questions"] = "no" =>
                                  IF row[p].status = "PENDING"
                                  THEN InList(shown'["questions"], p) \/ Noted("created", p)'
                                  ELSE ~InList(shown'["questions"], p) \/ Noted("answered", p)'
      <4> HIDE DEF Noted
      <4> QED BY <1>1 DEF QuestionsRight, InList
    <3>1. Noted("answered", p) => Noted("answered", p)' BY <1>3, <1>9
    <3>2. p # q => (Noted("created", p) => Noted("created", p)') BY <1>3
    <3> HIDE DEF InList, Noted
    <3> QED BY <1>0, <2>1, <2>3, <3>1, <3>2 DEF QuestionsRight
  <2> QED BY <1>4, <1>5, <2>3, <2>4, <2>5, <2>6
<1>10. CASE n.feed = "findings"
  <2> DEFINE f == n.item
  <2>1. f \in findings BY <1>0, <1>10 DEF FindingsRight
  <2>2. "findings" \in Lists /\ ListOf(n.feed) = "findings" /\ f \in Items
    BY <1>0, <1>10, <2>1, ChannelTypes DEF ListOf, Items, FeedTypes
  <2>3. /\ misled \subseteq misled' /\ FeedTypes'
        /\ InList(shown'["findings"], f)
        /\ \A i : InList(shown'["findings"], i) => i = f \/ InList(shown["findings"], i)
        /\ \A i : InList(shown["findings"], i) => i \in misled' \/ InList(shown'["findings"], i)
        /\ \A k \in Lists : k # "findings" => shown'[k] = shown[k]
    BY <1>8, <1>10, <2>2
  <2>4. QuestionsRight'
    <3>1. shown'["questions"] = shown["questions"] BY <2>3, ChannelTypes
    <3>2. \A m \in wire : m.feed \in QuestionFeeds => m \in wire'
      BY <1>1, <1>10 DEF QuestionFeeds
    <3> QED BY <1>0, <1>1, <1>6, <2>3, <3>1, <3>2, QuestionsFrame
  <2>5. EventsRight'
    <3>1. \A c \in Channels : shown'[c] = shown[c] BY <2>3, ChannelTypes
    <3>2. \A m \in wire : m.feed \in Channels => m \in wire' BY <1>1, <1>10, ChannelTypes
    <3> QED BY <1>0, <1>1, <1>6, <2>3, <3>1, <3>2, EventsFrame
  <2>6. FindingsRight'
    <3>1. \A m \in wire' : m.feed = "findings" => m.item \in findings'
      BY <1>0, <1>1 DEF FindingsRight
    <3>2. \A i \in Items : InList(shown'["findings"], i) \/ InList(result'["findings"], i) => i \in findings'
      <4> HIDE DEF InList
      <4> QED BY <1>0, <1>1, <2>1, <2>3 DEF FindingsRight
    <3>3. ASSUME NEW g \in findings' \ misled'
          PROVE  /\ load'["findings"] = "answered" => InList(result'["findings"], g)
                 /\ load'["findings"] = "no" => InList(shown'["findings"], g) \/ Noted("findings", g)'
      <4>1. g = f \/ (Noted("findings", g) => Noted("findings", g)') BY <1>3
      <4> HIDE DEF InList, Noted
      <4> QED BY <1>0, <1>1, <2>3, <3>3, <4>1 DEF FindingsRight
    <3> QED BY <3>1, <3>2, <3>3 DEF FindingsRight, InList, Noted
  <2> QED BY <1>4, <1>5, <2>3, <2>4, <2>5, <2>6
<1>11. CASE n.feed \in Channels
  <2> DEFINE e == n.item
             c == n.feed
  <2>1. e \in Events /\ Told(e) /\ c = Channel(DomainOf[e]) BY <1>0, <1>11 DEF EventsRight
  <2>2. c \in Lists /\ ListOf(c) = c /\ c # "answered" /\ e \in Items
    BY <1>11, <2>1, ChannelTypes DEF ListOf, Items, QuestionFeeds
  <2>3. /\ misled \subseteq misled' /\ FeedTypes'
        /\ InList(shown'[c], e)
        /\ \A i : InList(shown'[c], i) => i = e \/ InList(shown[c], i)
        /\ \A i : InList(shown[c], i) => i \in misled' \/ InList(shown'[c], i)
        /\ \A k \in Lists : k # c => shown'[k] = shown[k]
    BY <1>8, <2>2
  <2>4. QuestionsRight'
    <3>1. shown'["questions"] = shown["questions"] BY <1>11, <2>3, ChannelTypes
    <3>2. \A m \in wire : m.feed \in QuestionFeeds => m \in wire' BY <1>1, <1>11, ChannelTypes
    <3> QED BY <1>0, <1>1, <1>6, <2>3, <3>1, <3>2, QuestionsFrame
  <2>5. FindingsRight'
    <3>1. shown'["findings"] = shown["findings"] BY <1>11, <2>3, ChannelTypes
    <3>2. \A m \in wire : m.feed = "findings" => m \in wire' BY <1>1, <1>11, ChannelTypes
    <3> QED BY <1>0, <1>1, <1>6, <2>3, <3>1, <3>2, FindingsFrame
  <2>6. EventsRight'
    <3>1. \A m \in wire' : m.feed \in Channels =>
            m.item \in Events /\ Told(m.item)' /\ m.feed = Channel(DomainOf[m.item])
      BY <1>0, <1>1 DEF EventsRight, Told
    <3>2. ASSUME NEW d \in Channels, NEW i \in Items, InList(shown'[d], i)
          PROVE  i \in Events /\ Told(i)' /\ d = Channel(DomainOf[i])
      <4>1. Told(i) => Told(i)' BY <1>1 DEF Told
      <4>2. d \in Lists BY ChannelTypes
      <4>3. CASE d # c
        <5>1. shown'[d] = shown[d] BY <2>3, <4>2, <4>3
        <5>2. InList(shown[d], i) BY <3>2, <5>1 DEF InList
        <5> QED BY <1>0, <4>1, <5>2 DEF EventsRight
      <4>4. CASE d = c
        <5>1. i = e \/ InList(shown[c], i) BY <2>3, <3>2, <4>4
        <5> HIDE DEF InList, Told, Channel
        <5> QED BY <1>0, <2>1, <4>1, <4>4, <5>1 DEF EventsRight
      <4> QED BY <4>3, <4>4
    <3>3. ASSUME NEW x \in Events \ misled', NEW d \in Channels, Told(x)', d = Channel(DomainOf[x])
          PROVE  published'[x] \in 1..LambdaRetries \/ InList(shown'[d], x) \/ Noted(d, x)'
      <4>1. Told(x) BY <1>1, <3>3 DEF Told
      <4>2. published[x] \in 1..LambdaRetries \/ InList(shown[d], x) \/ Noted(d, x)
        <5> HIDE DEF InList, Told, Channel, Noted
        <5> QED BY <1>0, <2>3, <3>3, <4>1 DEF EventsRight
      <4>3. d \in Lists BY ChannelTypes
      <4>4. InList(shown[d], x) => InList(shown'[d], x)
        <5>1. d # c => shown'[d] = shown[d] BY <2>3, <4>3
        <5>2. d # c => (InList(shown[d], x) => InList(shown'[d], x)) BY <5>1 DEF InList
        <5> HIDE DEF InList
        <5> QED BY <2>3, <3>3, <5>2
      <4>5. Noted(d, x) => Noted(d, x)' \/ InList(shown'[d], x)
        <5> HIDE DEF InList, Noted
        <5> QED BY <1>3, <2>3
      <4> QED BY <1>1, <4>2, <4>4, <4>5
    <3> HIDE DEF InList, Told, Channel, Noted
    <3> QED BY <3>1, <3>2, <3>3 DEF EventsRight, InList, Told, Noted
  <2> QED BY <1>4, <1>5, <2>3, <2>4, <2>5, <2>6
<1>12. CASE n.feed = "none"
  <2>1. "none" \notin Lists BY DEF Lists, Channels
  <2>2. shown' = shown /\ misled' = misled BY <1>12, <2>1 DEF Notify, ListOf
  <2>3. \A m \in wire : m.feed \in QuestionFeeds \cup {"findings"} \cup Channels => m \in wire'
    BY <1>1, <1>12, ChannelTypes DEF QuestionFeeds
  <2>4. QuestionsRight' BY <1>0, <1>1, <1>6, <2>2, <2>3, QuestionsFrame
  <2>5. FindingsRight' BY <1>0, <1>1, <1>6, <2>2, <2>3, FindingsFrame
  <2>6. EventsRight' BY <1>0, <1>1, <1>6, <2>2, <2>3, EventsFrame
  <2>7. FeedTypes' BY <1>0, <1>1, <2>2 DEF FeedTypes
  <2> QED BY <1>4, <1>5, <2>2, <2>4, <2>5, <2>6, <2>7
<1> QED BY <1>2, <1>7, <1>9, <1>10, <1>11, <1>12 DEF Feeds, QuestionFeeds

\* A click stores an answer to a question that is shown.
LEMMA ClickStores ==
    ASSUME HumanLoopAssumption, LoopInv, FeedInv, NEW q \in Questions, Click(q)
    PROVE  \E option \in Options, new \in StoredRows(q) :
              /\ Store(q, new) /\ new.status = "ANSWERED" /\ row[q] # NoRow
              /\ click' = [click EXCEPT ![q] = [option |-> option, stored |-> TRUE]]
<1>1. row[q] # NoRow
  <2>1. InList(shown["questions"], q) BY DEF Click, InList
  <2> QED BY <2>1 DEF FeedInv, QuestionsRight
<1>2. row[q] \in StoredRows(q) BY <1>1 DEF LoopInv, LoopTypes
<1>3. PICK option \in Options :
        /\ Store(q, [row[q] EXCEPT !.status = "ANSWERED", !.answer = option])
        /\ click' = [click EXCEPT ![q] = [option |-> option, stored |-> TRUE]]
  BY DEF Click, StoreAnswer
<1> DEFINE new == [row[q] EXCEPT !.status = "ANSWERED", !.answer = option]
<1>4. new \in StoredRows(q) /\ new.status = "ANSWERED" BY <1>2 DEF StoredRows
<1> HIDE DEF new
<1>5. Store(q, new) BY <1>3 DEF new
<1> QED BY <1>1, <1>3, <1>4, <1>5

LEMMA ClickFeed ==
    ASSUME HumanLoopAssumption, LoopInv, FeedInv, NEW q \in Questions, Click(q)
    PROVE  FeedInv'
<1> USE DEF sourceVars
<1>0. /\ AskedRows /\ FeedTypes /\ QuestionNotes /\ QuestionsRight /\ FindingsRight /\ EventsRight
      /\ LoopTypes
  BY DEF FeedInv, LoopInv
<1> DEFINE note == Note("answered", q, 0)
<1>1. /\ UNCHANGED <<asking, findings, published, live, load, result, shown>>
      /\ wire' = wire \cup {note} /\ misled \subseteq misled'
      /\ (load["questions"] = "answered" \/ (\E n \in wire : n.item = q)) => q \in misled'
  BY DEF Click, Raced
<1>2. note.feed = "answered" /\ note.item = q BY DEF Note
<1>3. PICK option \in Options, new \in StoredRows(q) :
        /\ Store(q, new) /\ new.status = "ANSWERED" /\ row[q] # NoRow
        /\ click' = [click EXCEPT ![q] = [option |-> option, stored |-> TRUE]]
  BY ClickStores
<1>4. row'[q] = new /\ \A p \in Questions : p # q => row'[p] = row[p]
  BY <1>0, <1>3 DEF Store, LoopTypes
<1> DEFINE Clicks == [option : {""} \cup Options, stored : BOOLEAN]
           clicked == [option |-> option, stored |-> TRUE]
<1>5. clicked \in Clicks OBVIOUS
<1>6. click \in [Questions -> Clicks] BY <1>0 DEF FeedTypes
<1>7. click' = [click EXCEPT ![q] = clicked] BY <1>3
<1> HIDE DEF Clicks, clicked
<1>8. click' \in [Questions -> Clicks] /\ \A p \in Questions : p # q => click'[p] = click[p]
  BY <1>5, <1>6, <1>7
<1>9. FeedTypes'
  <2>1. IsFiniteSet({p \in Questions : row'[p] # NoRow}) BY <1>0, <1>4, RowsFinite
  <2>2. \A n \in wire' : n.feed \in Feeds BY <1>0, <1>1, <1>2 DEF FeedTypes, Feeds, QuestionFeeds
  <2> HIDE DEF note
  <2> QED BY <1>0, <1>1, <1>8, <2>1, <2>2 DEF FeedTypes, Clicks
<1>10. FindingsRight'
  <2>1. \A n \in wire' : n.feed = "findings" => n \in wire BY <1>1, <1>2
  <2> HIDE DEF note
  <2> QED BY <1>0, <1>1, <2>1, FindingsFrame
<1>11. EventsRight'
  <2>1. \A n \in wire' : n.feed \in Channels => n \in wire
    BY <1>1, <1>2, ChannelTypes DEF QuestionFeeds
  <2> HIDE DEF note
  <2> QED BY <1>0, <1>1, <2>1, EventsFrame
<1>12. QuestionNotes' /\ QuestionsRight'
  <2>1. Notices(q, wire') BY <1>1, <1>3, <1>4 DEF Notices
  <2>2. q \in misled' \/ (/\ load["questions"] # "answered" /\ wire' # wire
                          /\ \A n \in wire : n.item # q)
    <3>1. CASE \E n \in wire : n.item = q BY <1>1, <3>1
    <3>2. CASE ~ \E n \in wire : n.item = q
      <4>1. note \notin wire BY <1>2, <3>2
      <4> HIDE DEF note
      <4> QED BY <1>1, <3>2, <4>1
    <3> QED BY <3>1, <3>2
  <2>3. \A p \in Questions : click'[p].stored =>
            click[p].stored \/ (p = q /\ row'[q].status = "ANSWERED")
    BY <1>3, <1>4, <1>8
  <2>4. row'[q] \in StoredRows(q) BY <1>4
  <2> HIDE DEF note
  <2> QED BY <1>0, <1>1, <1>4, <2>1, <2>2, <2>3, <2>4, RowMoves
<1>13. AskedRows' BY <1>0, <1>1, <1>3, <1>4 DEF AskedRows
<1> QED BY <1>9, <1>10, <1>11, <1>12, <1>13 DEF FeedInv

LEMMA FeedInit ==
    ASSUME HumanLoopAssumption, LiveFeedAssumption, Init
    PROVE  LoopInv /\ AnswersResume /\ FeedInv
<1>1. HumanInit BY DEF Init
<1>2. LoopInv /\ AnswersResume BY <1>1, LoopInit
<1>3. /\ asking = [q \in Questions |-> "no"] /\ row = [q \in Questions |-> NoRow] /\ wire = {}
      /\ findings = {} /\ published = [e \in Events |-> 0] /\ live = FALSE
      /\ load = [l \in Queried |-> "sent"] /\ result = [l \in Queried |-> NoResult]
      /\ shown = [l \in Lists |-> <<>>] /\ click = [q \in Questions |-> NoClick]
  BY <1>1 DEF Init, HumanInit
<1>4. NoClick \in [option : {""} \cup Options, stored : BOOLEAN] /\ ~NoClick.stored BY DEF NoClick
<1>5. \A l \in Lists : \A i : ~InList(shown[l], i) BY <1>3 DEF InList
<1>6. \A l \in Queried : \A i : ~InList(result[l], i) BY <1>3 DEF InList, NoResult
<1>7. \A q \in Questions : row[q] = NoRow BY <1>3
<1>8. FeedTypes
  <2>1. \A S : <<>> \in Seq(S) OBVIOUS
  <2>2. {q \in Questions : row[q] # NoRow} = {} /\ IsFiniteSet({}) BY <1>7, FS_EmptySet
  <2> HIDE DEF NoClick
  <2> QED BY <1>3, <1>4, <2>1, <2>2 DEF FeedTypes, NoResult
<1>9. AskedRows BY <1>3 DEF AskedRows
<1>10. QuestionNotes BY <1>3 DEF QuestionNotes
<1>11. QuestionsRight
  <2>1. \A q \in Questions : /\ ~InList(shown["questions"], q) /\ ~InList(result["questions"], q)
                             /\ ~click[q].stored /\ load["questions"] = "sent"
    <3> HIDE DEF NoClick
    <3> QED BY <1>3, <1>4, <1>5, <1>6, ChannelTypes
  <2> QED BY <2>1 DEF QuestionsRight
<1>12. FindingsRight
  <2>1. load["findings"] = "sent" BY <1>3, ChannelTypes
  <2>2. \A i \in Items : ~InList(shown["findings"], i) /\ ~InList(result["findings"], i)
    BY <1>5, <1>6, ChannelTypes
  <2> QED BY <1>3, <2>1, <2>2 DEF FindingsRight
<1>13. EventsRight
  <2>1. \A c \in Channels, i \in Items : ~InList(shown[c], i) BY <1>5, ChannelTypes
  <2>2. \A e \in Events : ~Told(e) BY <1>3 DEF Told
  <2> QED BY <1>3, <2>1, <2>2 DEF EventsRight
<1> QED BY <1>2, <1>8, <1>9, <1>10, <1>11, <1>12, <1>13 DEF FeedInv

\* The dashboard as a whole: it stores an answer, or leaves the loop alone.
LEMMA FeedInductive ==
    ASSUME HumanLoopAssumption, LiveFeedAssumption, LoopInv, AnswersResume, FeedInv, [Next]_vars
    PROVE  LoopInv' /\ AnswersResume' /\ FeedInv'
<1> USE DEF askVars, triggerVars, humanVars
<1> DEFINE Untouched == UNCHANGED <<row, changes, seen, heard, unheard, twice>>
<1>1. Untouched => LoopInv' /\ AnswersResume' BY NothingMoved
<1>2. CASE Human
  <2>1. HumanStep BY <1>2 DEF Human
  <2>2. LoopInv' /\ AnswersResume' BY <2>1, LoopInductive
  <2> QED BY <1>2, <2>2, HumanFeed
<1>3. CASE Reload
  <2>1. Untouched BY <1>3 DEF Reload
  <2> QED BY <1>1, <1>3, <2>1, ReloadFeed
<1>4. CASE Subscribed
  <2>1. Untouched /\ UNCHANGED <<asking, findings, published, load, result, shown>>
    BY <1>4 DEF Subscribed, sourceVars
  <2>2. /\ live' \in BOOLEAN /\ misled \subseteq misled' /\ wire' \subseteq wire /\ click' = click
        /\ \A n \in wire : n \in wire' \/ n.item \in misled'
    BY <1>4 DEF Subscribed
  <2> QED BY <1>1, <2>1, <2>2, DroppedFeed
<1>5. CASE \E l \in Queried : Query(l) \/ QueryFails(l) \/ Loaded(l)
  <2>1. PICK l \in Queried : Query(l) \/ QueryFails(l) \/ Loaded(l) BY <1>5
  <2>2. Untouched BY <2>1 DEF Query, QueryFails, Loaded
  <2> QED BY <1>1, <2>1, <2>2, QueryFeed, QueryFailsFeed, LoadedFeed
<1>6. ASSUME NEW n \in wire, Notify(n) PROVE LoopInv' /\ AnswersResume' /\ FeedInv'
  <2>1. Untouched BY <1>6 DEF Notify
  <2> QED BY <1>1, <1>6, <2>1, NotifyFeed
<1>7. ASSUME NEW n \in wire, Lose(n) PROVE LoopInv' /\ AnswersResume' /\ FeedInv'
  <2>1. Untouched /\ UNCHANGED <<asking, findings, published, load, result, shown>>
    BY <1>7 DEF Lose, sourceVars, viewVars
  <2>2. /\ live' = live /\ misled \subseteq misled' /\ wire' \subseteq wire /\ click' = click
        /\ \A m \in wire : m \in wire' \/ m.item \in misled'
    BY <1>7 DEF Lose, viewVars
  <2>3. live' \in BOOLEAN BY <2>2 DEF FeedInv, FeedTypes
  <2> QED BY <1>1, <2>1, <2>2, <2>3, DroppedFeed
<1>8. ASSUME NEW q \in Questions, Click(q) PROVE LoopInv' /\ AnswersResume' /\ FeedInv'
  <2>1. PICK option \in Options, new \in StoredRows(q) :
          Store(q, new) /\ new.status = "ANSWERED" /\ row[q] # NoRow
    BY <1>8, ClickStores
  <2>2. UNCHANGED triggerVars BY <1>8 DEF Click
  <2>3. LoopInv' /\ AnswersResume' BY <2>1, <2>2, StoreStep
  <2> QED BY <1>8, <2>3, ClickFeed
<1>9. ASSUME NEW q \in Questions, Removed(q) PROVE LoopInv' /\ AnswersResume' /\ FeedInv'
  <2>1. Untouched BY <1>9 DEF Removed
  <2> QED BY <1>1, <1>9, <2>1, RemovedFeed
<1>10. ASSUME NEW q \in Questions, ClickFails(q) PROVE LoopInv' /\ AnswersResume' /\ FeedInv'
  <2>1. Untouched /\ UNCHANGED <<asking, findings, published, load, result, shown>>
    BY <1>10 DEF ClickFails, sourceVars
  <2>2. /\ live' = live /\ misled' = misled /\ wire' = wire
        /\ click' = [click EXCEPT ![q] = NoClick]
    BY <1>10 DEF ClickFails
  <2>3. live' \in BOOLEAN BY <2>2 DEF FeedInv, FeedTypes
  <2>4. /\ misled \subseteq misled' /\ wire' \subseteq wire
        /\ \A n \in wire : n \in wire' \/ n.item \in misled'
        /\ \E p \in Questions : click' = [click EXCEPT ![p] = NoClick]
    BY <2>2
  <2>5. FeedInv' BY <2>1, <2>3, <2>4, DroppedFeed
  <2> QED BY <1>1, <2>1, <2>5
<1>11. ASSUME NEW f \in Findings, PublishFinding(f) PROVE LoopInv' /\ AnswersResume' /\ FeedInv'
  <2>1. Untouched BY <1>11 DEF PublishFinding
  <2> QED BY <1>1, <1>11, <2>1, FindingFeed
<1>12. ASSUME NEW e \in Events, Publish(e) \/ PublishRefused(e) \/ PublishThrows(e)
       PROVE  LoopInv' /\ AnswersResume' /\ FeedInv'
  <2>1. Untouched BY <1>12 DEF Publish, PublishRefused, PublishThrows
  <2> QED BY <1>1, <1>12, <2>1, EventFeed
<1>13. CASE UNCHANGED vars
  <2>1. Untouched /\ UNCHANGED <<asking, findings, published, load, result, shown>>
    BY <1>13 DEF vars, sourceVars, viewVars
  <2>2. live' = live /\ misled' = misled /\ wire' = wire /\ click' = click
    BY <1>13 DEF vars, viewVars
  <2>3. live' \in BOOLEAN BY <2>2 DEF FeedInv, FeedTypes
  <2> QED BY <1>1, <2>1, <2>2, <2>3, DroppedFeed
<1> HIDE DEF Untouched
<1>14. CASE Page BY <1>3, <1>4, <1>5, <1>6, <1>7, <1>8, <1>9, <1>10, <1>14 DEF Page
<1> QED BY <1>2, <1>11, <1>12, <1>13, <1>14 DEF Next

\* When nothing is on its way, the dashboard's lists are right about every
\* item that no race and no failure touched (EventProvider.tsx).
THEOREM FeedListsAreRight == Spec => []QuietListsAreRight
<1>1. LoopInv /\ AnswersResume /\ FeedInv => QuietListsAreRight
  <2> SUFFICES ASSUME FeedInv, Quiet
               PROVE  /\ \A q \in Questions \ misled :
                            InList(shown["questions"], q) <=> row[q].status = "PENDING"
                      /\ \A f \in Findings \ misled : InList(shown["findings"], f) <=> f \in findings
                      /\ \A e \in Events \ misled, c \in Channels :
                            InList(shown[c], e) <=> (published[e] # 0 /\ c = Channel(DomainOf[e]))
    BY DEF QuietListsAreRight, IsShown, InList
  <2>1. QuestionsRight /\ FindingsRight /\ EventsRight BY DEF FeedInv
  <2>2. \A feed, i : ~Noted(feed, i) BY DEF Quiet, Noted
  <2>3. load["questions"] = "no" /\ load["findings"] = "no" BY DEF Quiet, Queried
  <2>4. \A e \in Events : published[e] \in {0, LambdaRetries + 1} BY DEF Quiet
  <2>5. \A e \in Events : published[e] \notin 1..LambdaRetries
    <3>1. LambdaRetries \in Nat BY LiveFeedAssumption DEF LiveFeedAssumption
    <3> QED BY <2>4, <3>1
  <2>6. Findings \subseteq Items /\ Events \subseteq Items BY DEF Items
  <2> HIDE DEF InList, Noted, Channel
  <2>7. \A q \in Questions \ misled : InList(shown["questions"], q) <=> row[q].status = "PENDING"
    BY <2>1, <2>2, <2>3 DEF QuestionsRight
  <2>8. \A f \in Findings \ misled : InList(shown["findings"], f) <=> f \in findings
    BY <2>1, <2>2, <2>3, <2>6 DEF FindingsRight
  <2>9. \A e \in Events \ misled, c \in Channels :
            InList(shown[c], e) <=> (published[e] # 0 /\ c = Channel(DomainOf[e]))
    BY <2>1, <2>2, <2>5, <2>6 DEF EventsRight, Told
  <2> QED BY <2>7, <2>8, <2>9
<1>2. Init => LoopInv /\ AnswersResume /\ FeedInv
  BY HumanLoopAssumption, LiveFeedAssumption, FeedInit
<1>3. (LoopInv /\ AnswersResume /\ FeedInv) /\ [Next]_vars => (LoopInv /\ AnswersResume /\ FeedInv)'
  BY HumanLoopAssumption, LiveFeedAssumption, FeedInductive
<1> QED BY <1>1, <1>2, <1>3, PTL DEF Spec

\* The same of the questions, the dashboard's clicks among the answers.
THEOREM OncePerAskWithDashboard == Spec => []ResumedOncePerAsk
<1>1. Init => LoopInv /\ AnswersResume /\ FeedInv
  BY HumanLoopAssumption, LiveFeedAssumption, FeedInit
<1>2. (LoopInv /\ AnswersResume /\ FeedInv) /\ [Next]_vars => (LoopInv /\ AnswersResume /\ FeedInv)'
  BY HumanLoopAssumption, LiveFeedAssumption, FeedInductive
<1> QED BY <1>1, <1>2, LoopOncePerAsk, PTL DEF Spec

\* With the dashboard, too, no answer is passed over.
THEOREM AnswersAreHeardWithDashboard == Spec => []AnsweredIsHeard
<1>1. Init => LoopInv /\ AnswersResume /\ FeedInv
  BY HumanLoopAssumption, LiveFeedAssumption, FeedInit
<1>2. (LoopInv /\ AnswersResume /\ FeedInv) /\ [Next]_vars => (LoopInv /\ AnswersResume /\ FeedInv)'
  BY HumanLoopAssumption, LiveFeedAssumption, FeedInductive
<1> QED BY <1>1, <1>2, LoopHeard, PTL DEF Spec
=============================================================================
