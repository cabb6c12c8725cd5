---------------------------- MODULE Browser_proofs ----------------------------
(***************************************************************************)
(* The pages, for every choice of the constants.  One part of a page is    *)
(* looked at at a time, so a step of the application is a step of one part *)
(* or leaves that part as it is; each property is then proved of its part, *)
(* and the theorems at the end put the parts together.                     *)
(***************************************************************************)
EXTENDS Browser, Subsequences_proofs, SequenceTheorems, FiniteSetTheorems,
        WellFoundedInduction, TLAPS

-----------------------------------------------------------------------------
(* A step of the application, seen from one part *)

LEMMA PartSteps ==
    ASSUME [BrowserNext]_browserVars
    PROVE  /\ \/ ThreadWriters \/ ThreadPageStep \/ PlanStep \/ NavigatorStep
              \/ UNCHANGED threadVars
           /\ AskStep \/ UNCHANGED chatVars
           /\ PanelStep \/ UNCHANGED panelVars
           /\ SqlStep \/ UNCHANGED sqlVars
           /\ RunsStep \/ UNCHANGED runsVars
           /\ SystemStep \/ UNCHANGED systemVars
           /\ ShopFloorStep \/ UNCHANGED shopVars
<1> USE DEF pagesVars
<1>1. CASE CurrentUser BY <1>1 DEF CurrentUser
<1>2. CASE Submit BY <1>2 DEF Submit
<1>3. CASE SignInAnswered BY <1>3 DEF SignInAnswered
<1>4. CASE ThreadViewed BY <1>4 DEF ThreadViewed
<1>5. CASE ConversationHeld BY <1>5 DEF ConversationHeld
<1>6. CASE PanelViewed BY <1>6 DEF PanelViewed
<1>7. CASE SqlAsked BY <1>7 DEF SqlAsked
<1>8. CASE RunsViewed BY <1>8 DEF RunsViewed
<1>9. CASE TableViewed BY <1>9 DEF TableViewed
<1>10. CASE MachinesViewed BY <1>10 DEF MachinesViewed
<1>11. CASE UNCHANGED browserVars BY <1>11 DEF browserVars
<1> QED BY <1>1, <1>2, <1>3, <1>4, <1>5, <1>6, <1>7, <1>8, <1>9, <1>10, <1>11 DEF BrowserNext

-----------------------------------------------------------------------------
(* SQL *)

\* Between the guard and Athena the statement stays the one that was looked at.
SqlInv ==
    /\ athenaRan # NoSql => ValidateFreeformSql(athenaRan)
    /\ pc = "run" => ValidateFreeformSql(sql) /\ (query = "text2sql" => ValidateGenerated(sql))
    /\ (pc = "answer" /\ status = 200) =>
        sql = athenaRan /\ ~sql.second /\ (query = "text2sql" => ~sql.unknown)

LEMMA SqlInvInit == SqlInit => SqlInv
BY DEF SqlInit, SqlInv

LEMMA SqlInvStep ==
    ASSUME SqlInv, SqlStep \/ UNCHANGED sqlVars
    PROVE  SqlInv'
<1> USE DEF SqlInv, Answer
<1>1. CASE SubmitSql BY <1>1 DEF SubmitSql
<1>2. CASE RejectSql
  <2>1. pc' = "answer" /\ status' = 400 /\ athenaRan' = athenaRan BY <1>2, Zenon DEF RejectSql
  <2> QED BY <2>1
<1>3. CASE GenerateSql BY <1>3 DEF GenerateSql
<1>4. CASE GenerateFails BY <1>4 DEF GenerateFails
<1>5. CASE GuardSql BY <1>5 DEF GuardSql
<1>6. CASE RunSql BY <1>6 DEF RunSql, ValidateGenerated
<1>7. CASE UNCHANGED sqlVars BY <1>7 DEF sqlVars
<1> QED BY <1>1, <1>2, <1>3, <1>4, <1>5, <1>6, <1>7 DEF SqlStep

LEMMA SqlInvSays == SqlInv => OnlyGuardedSqlRuns
BY DEF SqlInv, OnlyGuardedSqlRuns, ValidateFreeformSql

-----------------------------------------------------------------------------
(* The shop floor's readings *)

\* The values of the shop floor's variables.
ClientStates == {"signing", "connecting", "subscribed", "dropped", "ended"}
ArrivingTypes == [mount : 1..mounts, machine : Machines, metric : Metrics, value : 1..published]
ReadingTypes == [machine : Machines, metric : Metrics, value : 1..published]

ShopFloorTypes ==
    /\ mounts \in Nat /\ mounted \in 0..mounts /\ published \in Nat
    /\ clients \in Seq(ClientStates) /\ Len(clients) = mounts
    /\ arriving \subseteq ArrivingTypes
    /\ readings \in Seq(ReadingTypes)
    /\ machines \in [Machines -> [Metrics \cup {"lastUpdate"} -> Nat]]

\* A message is on its way to a client at most once, and what is on its way
\* to the mount that is shown was not shown yet.
SentOnce == \A a, b \in arriving : a.mount = b.mount /\ a.value = b.value => a = b
NotShownYet ==
    \A a \in arriving, i \in 1..Len(readings) : a.mount = mounted => a.value # readings[i].value

\* As CardsAgreeWithReadings says it; what a page that is left keeps is right too.
CardsRight ==
    \A m \in Machines :
        /\ \A metric \in Metrics : \A i \in NewestReading(m, {metric}) :
            machines[m][metric] = readings[i].value
        /\ \A i \in NewestReading(m, Metrics) : machines[m].lastUpdate = readings[i].value

\* The shop floor's inductive invariant.
ShopFloorInv == ShopFloorTypes /\ SentOnce /\ NotShownYet /\ NoReadingTwice /\ CardsRight

LEMMA ShopFloorStarts ==
    ASSUME ShopFloorInit \/ ShopFloorIdle
    PROVE  ShopFloorInv
<1>1. NoMachine \in [Metrics \cup {"lastUpdate"} -> Nat] BY DEF NoMachine
<1>2. /\ mounts \in Nat /\ mounted \in 0..mounts /\ published \in Nat
      /\ (clients = <<"signing">> /\ mounts = 1) \/ (clients = <<>> /\ mounts = 0)
  BY DEF ShopFloorInit, ShopFloorIdle
<1>5. clients \in Seq(ClientStates) /\ Len(clients) = mounts
  <2>1. "signing" \in ClientStates BY DEF ClientStates
  <2>2. CASE clients = <<"signing">> /\ mounts = 1 BY <2>1, <2>2
  <2>3. CASE clients = <<>> /\ mounts = 0 BY <2>3
  <2> QED BY <1>2, <2>2, <2>3
<1>3. arriving = {} /\ readings = <<>> /\ machines = [m \in Machines |-> NoMachine]
  BY DEF ShopFloorInit, ShopFloorIdle
<1>4. Len(readings) = 0 /\ DOMAIN readings = {} /\ readings \in Seq(ReadingTypes) BY <1>3
<1> QED BY <1>1, <1>2, <1>3, <1>4, <1>5
     DEF ShopFloorInv, ShopFloorTypes, SentOnce, NotShownYet, CardsRight, NoReadingTwice, NewestReading
LEMMA WithReadingIs ==
    ASSUME NEW reading, NEW S, reading \in S, readings \in Seq(S)
    PROVE  /\ WithReading(reading) \in Seq(S)
           /\ Len(WithReading(reading)) \in 1..(Len(readings) + 1)
           /\ WithReading(reading)[1] = reading
           /\ \A i \in 2..Len(WithReading(reading)) :
                i - 1 \in 1..Len(readings) /\ WithReading(reading)[i] = readings[i - 1]
<1> DEFINE all == <<reading>> \o readings
           n == IF Len(all) < MaxReadings THEN Len(all) ELSE MaxReadings
<1>1. /\ all \in Seq(S) /\ Len(all) = Len(readings) + 1 /\ all[1] = reading
      /\ \A i \in 2..Len(all) : all[i] = readings[i - 1]
  OBVIOUS
<1>2. Len(readings) \in Nat OBVIOUS
<1>3. n \in 1..Len(all) BY <1>1, <1>2, ShopFloorAssumption
<1>4. WithReading(reading) = SubSeq(all, 1, n) BY DEF WithReading
<1> HIDE DEF all, n
<1>5. /\ SubSeq(all, 1, n) \in Seq(S) /\ Len(SubSeq(all, 1, n)) = n
      /\ \A i \in 1..n : SubSeq(all, 1, n)[i] = all[i]
  <2>1. Len(all) \in Nat BY <1>1
  <2>2. \A i \in 1..n : all[i] \in S BY <1>1, <1>3, <2>1, ElementOfSeq
  <2> QED BY <1>1, <1>3, <2>1, <2>2, SubSeqProperties
<1> QED BY <1>1, <1>2, <1>3, <1>4, <1>5

\* What a message does to the readings and the machines.
LEMMA MessageShown ==
    ASSUME ShopFloorInv, NEW a \in arriving, MessageArrives(a), a.mount = mounted
    PROVE  ShopFloorInv'
<1> DEFINE reading == [machine |-> a.machine, metric |-> a.metric, value |-> a.value]
<1>1. a \in ArrivingTypes BY DEF ShopFloorInv, ShopFloorTypes, SentOnce, NotShownYet, CardsRight
<1>2. a.machine \in Machines /\ a.metric \in Metrics /\ a.value \in 1..published
  BY <1>1 DEF ArrivingTypes
<1>3. reading \in ReadingTypes BY <1>2 DEF ReadingTypes
<1>4. /\ arriving' = arriving \ {a} /\ readings' = WithReading(reading)
      /\ machines' = [machines EXCEPT ![a.machine] =
                        [machines[a.machine] EXCEPT ![a.metric] = a.value, !.lastUpdate = a.value]]
      /\ UNCHANGED <<mounted, mounts, clients, published, connected, drops>>
  BY DEF MessageArrives, Ignored, Live
<1>5. /\ reading.machine = a.machine /\ reading.metric = a.metric /\ reading.value = a.value
  OBVIOUS
<1>6. /\ readings' \in Seq(ReadingTypes) /\ Len(readings') \in 1..(Len(readings) + 1)
      /\ readings'[1] = reading
      /\ \A i \in 2..Len(readings') :
            i - 1 \in 1..Len(readings) /\ readings'[i] = readings[i - 1]
  <2>1. readings \in Seq(ReadingTypes) BY DEF ShopFloorInv, ShopFloorTypes, SentOnce, NotShownYet, CardsRight
  <2> HIDE DEF reading
  <2> QED BY <1>3, <1>4, <2>1, WithReadingIs
<1>7. Len(readings) \in Nat /\ Len(readings') \in Nat /\ DOMAIN readings' = 1..Len(readings')
      /\ DOMAIN readings = 1..Len(readings)
  <2>1. readings \in Seq(ReadingTypes) BY DEF ShopFloorInv, ShopFloorTypes, SentOnce, NotShownYet, CardsRight
  <2> QED BY <1>6, <2>1
<1> HIDE DEF reading
<1>8. "lastUpdate" \notin Metrics BY DEF Metrics
<1>9. machines' \in [Machines -> [Metrics \cup {"lastUpdate"} -> Nat]]
      /\ \A m \in Machines :
            /\ \A metric \in Metrics :
                machines'[m][metric] = IF m = a.machine /\ metric = a.metric THEN a.value
                                       ELSE machines[m][metric]
            /\ machines'[m].lastUpdate = IF m = a.machine THEN a.value ELSE machines[m].lastUpdate
  <2>1. machines \in [Machines -> [Metrics \cup {"lastUpdate"} -> Nat]] /\ published \in Nat
    BY DEF ShopFloorInv, ShopFloorTypes, SentOnce, NotShownYet, CardsRight
  <2> DEFINE card == [machines[a.machine] EXCEPT ![a.metric] = a.value, !.lastUpdate = a.value]
  <2>2. machines[a.machine] \in [Metrics \cup {"lastUpdate"} -> Nat] BY <1>2, <2>1
  <2>3. /\ card \in [Metrics \cup {"lastUpdate"} -> Nat] /\ card.lastUpdate = a.value
        /\ \A metric \in Metrics : card[metric] = IF metric = a.metric THEN a.value
                                                  ELSE machines[a.machine][metric]
    <3> DEFINE old == machines[a.machine]
               with == [old EXCEPT ![a.metric] = a.value]
    <3>1. a.value \in Nat BY <1>2, <2>1
    <3>2. with \in [Metrics \cup {"lastUpdate"} -> Nat] BY <1>2, <2>2, <3>1
    <3>3. \A metric \in Metrics : with[metric] = IF metric = a.metric THEN a.value ELSE old[metric]
      BY <2>2
    <3>4. card = [with EXCEPT !["lastUpdate"] = a.value] OBVIOUS
    <3> HIDE DEF old, with, card
    <3>5. card \in [Metrics \cup {"lastUpdate"} -> Nat] /\ card["lastUpdate"] = a.value
      BY <3>1, <3>2, <3>4
    <3>6. \A metric \in Metrics : card[metric] = with[metric] BY <1>8, <3>2, <3>4
    <3> QED BY <3>3, <3>5, <3>6 DEF old
  <2>4. machines' = [machines EXCEPT ![a.machine] = card] BY <1>4
  <2> HIDE DEF card
  <2> QED BY <1>2, <2>1, <2>3, <2>4
<1>10. NoReadingTwice'
  <2> SUFFICES ASSUME NEW i \in 1..Len(readings'), NEW j \in 1..Len(readings'),
                      readings'[i].value = readings'[j].value
               PROVE  i = j
    BY <1>7 DEF NoReadingTwice
  <2>1. \A k \in 1..Len(readings) : a.value # readings[k].value BY DEF ShopFloorInv, ShopFloorTypes, SentOnce, NotShownYet, CardsRight
  <2>2. \A k, l \in 1..Len(readings) : readings[k].value = readings[l].value => k = l
    BY <1>7 DEF ShopFloorInv, NoReadingTwice
  <2> QED BY <1>5, <1>6, <1>7, <2>1, <2>2, SMTT(30)
<1>11. ASSUME NEW b \in arriving', NEW i \in 1..Len(readings'), b.mount = mounted'
       PROVE  b.value # readings'[i].value
  <2>1. b \in arriving /\ b # a /\ b.mount = a.mount BY <1>4, <1>11
  <2>2. b.value # a.value BY <2>1 DEF ShopFloorInv, SentOnce, NotShownYet
  <2>3. \A k \in 1..Len(readings) : b.value # readings[k].value BY <2>1 DEF ShopFloorInv, SentOnce, NotShownYet
  <2> QED BY <1>5, <1>6, <1>7, <2>2, <2>3
<1>12. ASSUME NEW m \in Machines, NEW about, about \subseteq Metrics, NEW i \in NewestReading(m, about)'
       PROVE  IF m = a.machine /\ a.metric \in about THEN readings'[i].value = a.value
              ELSE i - 1 \in NewestReading(m, about) /\ readings'[i] = readings[i - 1]
  <2>1. /\ i \in 1..Len(readings') /\ readings'[i].machine = m /\ readings'[i].metric \in about
        /\ \A j \in 1..(i - 1) : ~(readings'[j].machine = m /\ readings'[j].metric \in about)
    BY <1>7 DEF NewestReading
  <2>2. CASE m = a.machine /\ a.metric \in about
    <3>1. ~(1 \in 1..(i - 1)) BY <1>5, <1>6, <2>1, <2>2
    <3>2. i = 1 BY <2>1, <3>1, <1>7
    <3> QED BY <2>2, <3>2, <1>5, <1>6
  <2>3. CASE ~(m = a.machine /\ a.metric \in about)
    <3>1. i # 1 BY <1>5, <1>6, <2>1, <2>3
    <3>2. i - 1 \in 1..Len(readings) /\ readings'[i] = readings[i - 1] BY <1>6, <1>7, <2>1, <3>1
    <3>3. ASSUME NEW j \in 1..(i - 1 - 1)
          PROVE  ~(readings[j].machine = m /\ readings[j].metric \in about)
      <4>1. j + 1 \in 2..Len(readings') /\ j + 1 \in 1..(i - 1) BY <1>7, <2>1
      <4>2. readings'[j + 1] = readings[j] BY <1>6, <4>1
      <4> QED BY <2>1, <4>1, <4>2
    <3> QED BY <1>7, <2>1, <2>3, <3>2, <3>3 DEF NewestReading
  <2> QED BY <2>2, <2>3
<1>13. ASSUME NEW m \in Machines
       PROVE  /\ \A metric \in Metrics : \A i \in NewestReading(m, {metric})' :
                    machines'[m][metric] = readings'[i].value
              /\ \A i \in NewestReading(m, Metrics)' : machines'[m].lastUpdate = readings'[i].value
  <2>1. ASSUME NEW metric \in Metrics, NEW i \in NewestReading(m, {metric})'
        PROVE  machines'[m][metric] = readings'[i].value
    <3>1. IF m = a.machine /\ a.metric \in {metric} THEN readings'[i].value = a.value
          ELSE i - 1 \in NewestReading(m, {metric}) /\ readings'[i] = readings[i - 1]
      BY <1>12
    <3>2. \A k \in NewestReading(m, {metric}) : machines[m][metric] = readings[k].value
      BY SMTT(30) DEF ShopFloorInv, ShopFloorTypes, SentOnce, NotShownYet, CardsRight
    <3> QED BY <1>9, <3>1, <3>2, ZenonT(30)
  <2>2. ASSUME NEW i \in NewestReading(m, Metrics)'
        PROVE  machines'[m].lastUpdate = readings'[i].value
    <3>1. IF m = a.machine /\ a.metric \in Metrics THEN readings'[i].value = a.value
          ELSE i - 1 \in NewestReading(m, Metrics) /\ readings'[i] = readings[i - 1]
      BY <1>12
    <3>2. \A k \in NewestReading(m, Metrics) : machines[m].lastUpdate = readings[k].value
      BY DEF ShopFloorInv, ShopFloorTypes, SentOnce, NotShownYet, CardsRight
    <3> QED BY <1>2, <1>9, <3>1, <3>2
  <2> QED BY <2>1, <2>2
<1>14. /\ mounts' \in Nat /\ mounted' \in 0..mounts' /\ published' \in Nat
       /\ clients' \in Seq(ClientStates) /\ Len(clients') = mounts'
       /\ arriving' \subseteq ArrivingTypes'
       /\ \A b, c \in arriving' : b.mount = c.mount /\ b.value = c.value => b = c
       /\ readings' \in Seq(ReadingTypes')
  BY <1>4, <1>6 DEF ShopFloorInv, ShopFloorTypes, SentOnce, ArrivingTypes, ReadingTypes
<1> QED BY <1>9, <1>10, <1>11, <1>13, <1>14
     DEF ShopFloorInv, ShopFloorTypes, SentOnce, NotShownYet, CardsRight
\* The connection: the readings stay, or the page begins anew.
LEMMA ShopFloorInvStep ==
    ASSUME ShopFloorInv, ShopFloorStep \/ UNCHANGED shopVars
    PROVE  ShopFloorInv'
<1>0. /\ mounts \in Nat /\ mounted \in 0..mounts /\ published \in Nat
      /\ clients \in Seq(ClientStates) /\ Len(clients) = mounts
      /\ arriving \subseteq ArrivingTypes /\ readings \in Seq(ReadingTypes)
  BY DEF ShopFloorInv, ShopFloorTypes, SentOnce, NotShownYet, CardsRight
\* A step that leaves the readings, the machines and the mount alone.
<1>1. ASSUME UNCHANGED <<mounted, mounts, published, readings, machines>>,
             arriving' \subseteq arriving,
             clients' \in Seq(ClientStates), Len(clients') = mounts
      PROVE  ShopFloorInv'
  <2>1. ShopFloorTypes' BY <1>0, <1>1 DEF ShopFloorInv, ShopFloorTypes, ArrivingTypes, ReadingTypes
  <2>2. SentOnce' /\ NotShownYet' BY <1>1 DEF ShopFloorInv, SentOnce, NotShownYet
  <2>3. NoReadingTwice' BY <1>1 DEF ShopFloorInv, NoReadingTwice
  <2>4. CardsRight' BY <1>1 DEF ShopFloorInv, CardsRight, NewestReading
  <2> QED BY <2>1, <2>2, <2>3, <2>4 DEF ShopFloorInv
<1>2. ASSUME NEW c \in DOMAIN clients, NEW state \in ClientStates
      PROVE  /\ [clients EXCEPT ![c] = state] \in Seq(ClientStates)
             /\ Len([clients EXCEPT ![c] = state]) = mounts
  BY <1>0
<1>3. ASSUME Mount PROVE ShopFloorInv'
  <2>1. NoMachine \in [Metrics \cup {"lastUpdate"} -> Nat] BY DEF NoMachine
  <2>2. /\ mounts' = mounts + 1 /\ mounted' = mounts' /\ published' = published
        /\ clients' = Append(clients, "signing") /\ arriving' = arriving
        /\ readings' = <<>> /\ machines' = [m \in Machines |-> NoMachine]
    BY <1>3 DEF Mount, NothingShown
  <2>3. Len(readings') = 0 /\ DOMAIN readings' = {} /\ readings' \in Seq(ReadingTypes') BY <2>2
  <2>4. clients' \in Seq(ClientStates) /\ Len(clients') = mounts'
    <3>1. "signing" \in ClientStates BY DEF ClientStates
    <3> QED BY <1>0, <2>2, <3>1
  <2>5. arriving' \subseteq ArrivingTypes' BY <1>0, <2>2 DEF ArrivingTypes
  <2>6. mounts' \in Nat /\ mounted' \in 0..mounts' /\ published' \in Nat BY <1>0, <2>2
  <2>7. \A a, b \in arriving' : a.mount = b.mount /\ a.value = b.value => a = b
    BY <2>2 DEF ShopFloorInv, SentOnce
  <2>8. machines' \in [Machines -> [Metrics \cup {"lastUpdate"} -> Nat]] BY <2>1, <2>2
  <2>9. \A m \in Machines, about \in SUBSET Metrics : NewestReading(m, about)' = {}
    BY <2>3 DEF NewestReading
  <2>10. NoReadingTwice' BY <2>3 DEF NoReadingTwice
  <2>11. CardsRight'
    <3>1. Metrics \in SUBSET Metrics /\ \A metric \in Metrics : {metric} \in SUBSET Metrics OBVIOUS
    <3> QED BY <2>9, <3>1 DEF CardsRight
  <2>12. ShopFloorTypes' BY <2>3, <2>4, <2>5, <2>6, <2>8 DEF ShopFloorTypes
  <2>13. NotShownYet' BY <2>3 DEF NotShownYet
  <2> QED BY <2>7, <2>10, <2>11, <2>12, <2>13 DEF ShopFloorInv, SentOnce
<1>4. ASSUME Unmount PROVE ShopFloorInv'
  <2>1. /\ mounted # 0 /\ mounted' = 0 /\ UNCHANGED <<mounts, published, machines, readings>>
        /\ arriving' \subseteq arriving
        /\ \E state \in ClientStates : clients' = [clients EXCEPT ![mounted] = state]
    <3>1. mounted \in DOMAIN clients BY <1>0, <1>4 DEF Unmount
    <3>2. clients[mounted] \in ClientStates BY <1>0, <3>1
    <3>3. "ended" \in ClientStates BY DEF ClientStates
    <3> QED BY <1>4, <3>2, <3>3 DEF Unmount, pageState
  <2>2. clients' \in Seq(ClientStates) /\ Len(clients') = mounts' BY <1>0, <1>2, <2>1
  <2>3. ASSUME NEW a \in arriving' PROVE a.mount # mounted' BY <1>0, <2>1 DEF ArrivingTypes
  <2>4. ShopFloorTypes'
    <3>1. mounted' \in 0..mounts' BY <1>0, <2>1
    <3> QED BY <2>1, <2>2, <3>1 DEF ShopFloorInv, ShopFloorTypes, ArrivingTypes, ReadingTypes
  <2>5. SentOnce' BY <2>1 DEF ShopFloorInv, SentOnce
  <2>6. NotShownYet' BY <2>3 DEF NotShownYet
  <2>7. NoReadingTwice' BY <2>1 DEF ShopFloorInv, NoReadingTwice
  <2>8. CardsRight' BY <2>1 DEF ShopFloorInv, CardsRight, NewestReading
  <2> QED BY <2>4, <2>5, <2>6, <2>7, <2>8 DEF ShopFloorInv
<1>5. ASSUME Publish PROVE ShopFloorInv'
  <2>1. PICK m \in Machines, metric \in Metrics :
            arriving' = arriving \cup
                {[mount |-> c, machine |-> m, metric |-> metric, value |-> published']
                    : c \in {d \in DOMAIN clients : clients[d] = "subscribed"}}
    BY <1>5 DEF Publish
  <2>2. /\ published' = published + 1
        /\ UNCHANGED <<mounted, mounts, clients, machines, readings>>
    BY <1>5 DEF Publish, pageState
  <2>3. ASSUME NEW a \in arriving'
        PROVE  \/ a \in arriving /\ a.value <= published
               \/ /\ a.mount \in 1..mounts /\ a.value = published'
                  /\ a = [mount |-> a.mount, machine |-> m, metric |-> metric, value |-> published']
    BY <1>0, <2>1 DEF ArrivingTypes
  <2>4. arriving' \subseteq ArrivingTypes'
    <3> SUFFICES ASSUME NEW a \in arriving' PROVE a \in ArrivingTypes' OBVIOUS
    <3>1. CASE a \in arriving BY <1>0, <2>2, <3>1 DEF ArrivingTypes
    <3>2. CASE a \notin arriving
      <4>1. /\ a.mount \in 1..mounts'
            /\ a = [mount |-> a.mount, machine |-> m, metric |-> metric, value |-> published']
        BY <2>2, <2>3, <3>2
      <4>2. published' \in 1..published' BY <1>0, <2>2
      <4> QED BY <4>1, <4>2 DEF ArrivingTypes
    <3> QED BY <3>1, <3>2
  <2>5. readings \in Seq(ReadingTypes')
    <3>1. ReadingTypes \subseteq ReadingTypes' BY <1>0, <2>2 DEF ReadingTypes
    <3> QED BY <1>0, <3>1
  <2>6. \A a, b \in arriving' : a.mount = b.mount /\ a.value = b.value => a = b
    <3> SUFFICES ASSUME NEW a \in arriving', NEW b \in arriving', a.mount = b.mount, a.value = b.value
                 PROVE  a = b
      OBVIOUS
    <3>1. \A c, d \in arriving : c.mount = d.mount /\ c.value = d.value => c = d BY DEF ShopFloorInv, ShopFloorTypes, SentOnce, NotShownYet, CardsRight
    <3>2. published' > published BY <1>0, <2>2
    <3>3. CASE a.value = published'
      <4>1. ~(a.value <= published) /\ ~(b.value <= published) BY <1>0, <2>2, <3>3
      <4> QED BY <2>3, <4>1
    <3>4. CASE a.value # published' BY <2>3, <3>1, <3>4
    <3> QED BY <3>3, <3>4
  <2>7. ASSUME NEW a \in arriving', NEW i \in 1..Len(readings), a.mount = mounted
        PROVE  a.value # readings[i].value
    <3>1. readings[i] \in ReadingTypes BY <1>0
    <3>2. readings[i].value <= published BY <1>0, <3>1 DEF ReadingTypes
    <3>3. CASE a \in arriving BY <2>7, <3>3 DEF ShopFloorInv, NotShownYet
    <3>4. CASE a.value = published' BY <1>0, <2>2, <3>1, <3>2, <3>4 DEF ReadingTypes
    <3> QED BY <2>3, <3>3, <3>4
  <2>8. published' \in Nat BY <1>0, <2>2
  <2>9. ShopFloorTypes' BY <1>0, <2>2, <2>4, <2>5, <2>8 DEF ShopFloorInv, ShopFloorTypes, ReadingTypes
  <2>10. NotShownYet' BY <2>2, <2>7 DEF NotShownYet
  <2>11. NoReadingTwice' BY <2>2 DEF ShopFloorInv, NoReadingTwice
  <2>12. CardsRight' BY <2>2 DEF ShopFloorInv, CardsRight, NewestReading
  <2> QED BY <2>6, <2>9, <2>10, <2>11, <2>12 DEF ShopFloorInv, SentOnce
<1>6. ASSUME NEW c \in DOMAIN clients, Signed(c) \/ SigningFails(c) \/ Connects(c) \/ Drops(c)
      PROVE  ShopFloorInv'
  <2>1. \E state \in ClientStates : clients' = [clients EXCEPT ![c] = state]
    <3>1. {"connecting", "ended", "subscribed", "dropped"} \subseteq ClientStates BY DEF ClientStates
    <3> QED BY <1>6, <3>1 DEF Signed, SigningFails, Connects, Drops
  <2>2. UNCHANGED <<mounted, mounts, published, readings, machines>> /\ arriving' \subseteq arriving
    BY <1>6 DEF Signed, SigningFails, Connects, Drops, pageState
  <2> QED BY <1>1, <1>2, <2>1, <2>2
<1>7. ASSUME NEW a \in arriving, MessageArrives(a) PROVE ShopFloorInv'
  <2>1. CASE a.mount = mounted BY <1>7, <2>1, MessageShown
  <2>2. CASE a.mount # mounted
    <3>1. /\ UNCHANGED <<mounted, mounts, published, readings, machines, clients>>
          /\ arriving' \subseteq arriving
      BY <1>7, <2>2 DEF MessageArrives, Ignored, Live
    <3> QED BY <1>0, <1>1, <3>1
  <2> QED BY <2>1, <2>2
<1>8. CASE UNCHANGED shopVars BY <1>0, <1>1, <1>8 DEF shopVars
<1> QED BY <1>3, <1>4, <1>5, <1>6, <1>7, <1>8 DEF ShopFloorStep

LEMMA ShopFloorInvSays == ShopFloorInv => CardsAgreeWithReadings /\ NoReadingTwice
BY DEF ShopFloorInv, CardsRight, CardsAgreeWithReadings

-----------------------------------------------------------------------------
(* Sequences *)

LEMMA ToSetConcat ==
    ASSUME NEW S, NEW s \in Seq(S), NEW t \in Seq(S)
    PROVE  ToSet(s) \cup ToSet(t) \subseteq ToSet(s \o t)
<1>1. /\ Len(s) \in Nat /\ Len(t) \in Nat /\ Len(s \o t) = Len(s) + Len(t)
      /\ DOMAIN s = 1..Len(s) /\ DOMAIN t = 1..Len(t) /\ DOMAIN (s \o t) = 1..Len(s \o t)
  OBVIOUS
<1>2. ASSUME NEW i \in DOMAIN s PROVE s[i] \in ToSet(s \o t)
  <2>1. (s \o t)[i] = s[i] /\ i \in DOMAIN (s \o t) BY <1>1
  <2> QED BY <2>1 DEF ToSet
<1>3. ASSUME NEW i \in DOMAIN t PROVE t[i] \in ToSet(s \o t)
  <2>1. (s \o t)[Len(s) + i] = t[i] /\ Len(s) + i \in DOMAIN (s \o t) BY <1>1
  <2> QED BY <2>1 DEF ToSet
<1> QED BY <1>2, <1>3 DEF ToSet

-----------------------------------------------------------------------------
(* The list of a system's page *)

\* The values of the page's variables; a record is found by its key.
TableRecords == [key : RecordKeys, no : Nat]

IsScan(page, start) ==
    /\ page.items \in Seq(TableRecords) /\ page.nextToken \in Nat
    /\ page.nextToken = 0 \/ page.nextToken > start
    /\ \A r \in ToSet(page.items) : r.key > start

SystemTypes ==
    /\ table \subseteq TableRecords /\ IsFiniteSet(table)
    /\ \A r, s \in table : r.key = s.key => r = s
    /\ notices \subseteq TableRecords /\ puts \in Nat
    /\ items \in Seq(TableRecords)
    /\ nextToken \in Nat
    /\ listing \in {"none", "first", "more"}
    /\ listing = "first" => nextToken = 0
    /\ listing = "more" => nextToken # 0
    /\ answer # NoPage => listing # "none" /\ IsScan(answer, nextToken)

\* A record of the table that the page does not show is on its way with a
\* notice or an answer, is one of those that are missed, or the scans that
\* are still to come find it.
Accounted ==
    ~failed =>
        \A r \in table :
            \/ r \in ToSet(items) \/ r \in notices \/ r \in missed
            \/ (answer # NoPage /\ r \in ToSet(answer.items))
            \/ ~Scanned(r.key)

\* The system page's inductive invariant.
SystemInv == SystemTypes /\ Accounted

\* A page of a scan has every record after its start that is not after its
\* token.
LEMMA ScanIsComplete ==
    ASSUME SystemTypes, NEW start \in Nat, NEW limit \in Nat \ {0}
    PROVE  LET page == ScanFrom(start, limit) IN
           /\ IsScan(page, start)
           /\ \A r \in table : r.key > start =>
                r \in ToSet(page.items) \/ (page.nextToken # 0 /\ r.key > page.nextToken)
<1> DEFINE after == {s \in table : s.key > start}
           keys == {r.key : r \in after}
           recordOf == [k \in keys |-> CHOOSE r \in table : r.key = k]
           rest == Kept(recordOf, keys)
<1>0. /\ table \subseteq TableRecords /\ IsFiniteSet(table)
      /\ \A r, s \in table : r.key = s.key => r = s
      /\ RecordKeys \subseteq Nat \ {0}
  BY SystemAssumption DEF SystemTypes
<1>1. \A r \in table : r.key \in Nat \ {0} BY <1>0 DEF TableRecords
<1>2. IsFiniteSet(keys)
  <2>1. IsFiniteSet(after) BY <1>0, FS_Subset
  <2> DEFINE key == [s \in after |-> s.key]
  <2>2. key \in Surjection(after, keys)
    <3>1. key \in [after -> keys] OBVIOUS
    <3>2. \A k \in keys : \E s \in after : key[s] = k OBVIOUS
    <3> QED BY <3>1, <3>2 DEF Surjection
  <2> HIDE DEF after, key, keys
  <2> QED BY <2>1, <2>2, FS_Surjection
<1>3. keys \subseteq Int BY <1>1
<1>4. \A k \in keys : recordOf[k] \in table /\ recordOf[k].key = k OBVIOUS
<1>5. /\ \A r \in table : r.key > start => r.key \in keys /\ recordOf[r.key] = r
      /\ \A k \in keys : k > start
  BY <1>0, <1>4
<1> HIDE DEF after, keys, recordOf
<1>6. PICK place \in [1..Cardinality(keys) -> keys] :
        /\ rest = [n \in 1..Cardinality(keys) |-> recordOf[place[n]]]
        /\ \A i \in keys : \E n \in 1..Cardinality(keys) : place[n] = i
        /\ \A m, n \in 1..Cardinality(keys) : m < n => place[m] < place[n]
  BY <1>2, <1>3, KeptInOrder
<1> DEFINE N == Cardinality(keys)
<1>7. N \in Nat BY <1>2, FS_CardinalityType
<1>8. ScanFrom(start, limit) = IF Len(rest) < limit THEN [items |-> rest, nextToken |-> 0]
                               ELSE [items |-> SubSeq(rest, 1, limit), nextToken |-> rest[limit].key]
  BY DEF ScanFrom, after, keys, recordOf
<1> HIDE DEF N, rest
<1>9. /\ rest \in Seq(TableRecords) /\ Len(rest) = N
      /\ \A n \in 1..N : rest[n] = recordOf[place[n]] /\ rest[n] \in table /\ rest[n].key = place[n]
      /\ \A n \in 1..N : rest[n].key > start
  <2>1. \A n \in 1..N : place[n] \in keys BY <1>6 DEF N
  <2>2. rest = [n \in 1..N |-> recordOf[place[n]]] BY <1>6 DEF N
  <2>3. \A n \in 1..N : recordOf[place[n]] \in TableRecords BY <1>0, <1>4, <2>1
  <2>4. rest \in Seq(TableRecords) /\ Len(rest) = N BY <1>7, <2>2, <2>3
  <2> QED BY <1>4, <1>5, <2>1, <2>2, <2>4
<1>10. CASE Len(rest) < limit
  <2>1. ScanFrom(start, limit) = [items |-> rest, nextToken |-> 0] BY <1>8, <1>10
  <2>2. ASSUME NEW r \in table, r.key > start
        PROVE  r \in ToSet(rest)
    <3>1. PICK n \in 1..N : place[n] = r.key BY <1>5, <1>6, <2>2 DEF N
    <3>2. rest[n] = r BY <1>5, <1>9, <2>2, <3>1
    <3>3. n \in DOMAIN rest BY <1>9, <3>1
    <3> QED BY <3>2, <3>3 DEF ToSet
  <2>3. \A r \in ToSet(rest) : r.key > start BY <1>9 DEF ToSet
  <2> QED BY <1>9, <2>1, <2>2, <2>3 DEF IsScan
<1>11. CASE ~(Len(rest) < limit)
  <2> DEFINE first == SubSeq(rest, 1, limit)
  <2>1. ScanFrom(start, limit) = [items |-> first, nextToken |-> rest[limit].key]
    BY <1>8, <1>11
  <2>2. limit \in 1..N BY <1>7, <1>9, <1>11
  <2>3. /\ first \in Seq(TableRecords) /\ Len(first) = limit
        /\ \A i \in 1..limit : first[i] = rest[i]
    <3>1. \A i \in 1..limit : rest[i] \in TableRecords BY <1>0, <1>7, <1>9, <2>2
    <3> QED BY <1>7, <1>9, <2>2, <3>1, SubSeqProperties
  <2> HIDE DEF first
  <2>4. /\ rest[limit].key \in Nat /\ rest[limit].key > start
        /\ \A r \in ToSet(first) : r.key > start
    <3>1. \A i \in 1..limit : first[i].key > start BY <1>7, <1>9, <2>2, <2>3
    <3> QED BY <1>1, <1>9, <2>2, <2>3, <3>1 DEF ToSet
  <2>5. ASSUME NEW r \in table, r.key > start
        PROVE  r \in ToSet(first) \/ (rest[limit].key # 0 /\ r.key > rest[limit].key)
    <3>1. PICK n \in 1..N : place[n] = r.key BY <1>5, <1>6, <2>5 DEF N
    <3>2. rest[n] = r BY <1>5, <1>9, <2>5, <3>1
    <3>3. CASE n <= limit
      <4>1. n \in 1..limit BY <1>7, <3>1, <3>3
      <4>2. n \in DOMAIN first /\ first[n] = r BY <2>3, <3>2, <4>1
      <4> QED BY <4>2 DEF ToSet
    <3>4. CASE n > limit
      <4>1. place[limit] < place[n] BY <1>6, <2>2, <3>1, <3>4 DEF N
      <4>2. rest[limit].key # 0 BY <1>1, <1>9, <2>2
      <4> QED BY <1>9, <2>2, <3>1, <4>1, <4>2
    <3> QED BY <1>7, <3>1, <3>3, <3>4
  <2> QED BY <2>1, <2>3, <2>4, <2>5 DEF IsScan
<1> QED BY <1>10, <1>11

LEMMA SystemStarts ==
    ASSUME SystemInit \/ SystemIdle
    PROVE  SystemInv
<1>1. /\ puts = 0 /\ notices = {} /\ items = <<>> /\ nextToken = 0 /\ listing = "first"
      /\ answer = NoPage
  BY DEF SystemInit, SystemIdle, NothingLoaded
<1>2. PICK keys : keys \subseteq RecordKeys /\ IsFiniteSet(keys) /\ table = {Record(key, 0) : key \in keys}
  <2>1. CASE SystemIdle
    <3>1. IsFiniteSet({}) BY FS_EmptySet
    <3>2. table = {Record(key, 0) : key \in {}} BY <2>1 DEF SystemIdle
    <3> QED BY <3>1, <3>2
  <2>2. CASE SystemInit BY <2>2, SystemAssumption DEF SystemInit
  <2> QED BY <2>1, <2>2
<1>3. IsFiniteSet(table)
  <2> DEFINE recordOf == [key \in keys |-> Record(key, 0)]
  <2>1. recordOf \in Surjection(keys, table)
    <3>1. recordOf \in [keys -> table] BY <1>2
    <3>2. \A r \in table : \E k \in keys : recordOf[k] = r BY <1>2
    <3> QED BY <3>1, <3>2 DEF Surjection
  <2> HIDE DEF recordOf
  <2> QED BY <1>2, <2>1, FS_Surjection
<1>4. table \subseteq TableRecords /\ \A r, s \in table : r.key = s.key => r = s
  BY <1>2 DEF TableRecords, Record
<1>5. items \in Seq(TableRecords) BY <1>1
<1>6. SystemTypes BY <1>1, <1>3, <1>4, <1>5 DEF SystemTypes
<1>7. Accounted BY <1>1 DEF Accounted, Scanned
<1> QED BY <1>6, <1>7 DEF SystemInv

\* What was scanned depends on the list alone.
LEMMA ScannedStays ==
    ASSUME UNCHANGED <<nextToken, listing, answer>>, NEW key
    PROVE  Scanned(key)' = Scanned(key)
BY DEF Scanned

LEMMA SystemInvStep ==
    ASSUME SystemInv, SystemStep \/ UNCHANGED systemVars
    PROVE  SystemInv'
<1> USE DEF tableState, noticeState, listState
<1>0. SystemTypes /\ Accounted BY DEF SystemInv
\* A step that leaves the list and the notices alone, and forgets no record
\* that was missed.
<1>1. ASSUME UNCHANGED <<listState, notices, puts>>, table' \subseteq table, missed' = missed
      PROVE  SystemInv'
  <2>1. SystemTypes'
    <3>1. IsFiniteSet(table') BY <1>0, <1>1, FS_Subset DEF SystemTypes
    <3> QED BY <1>0, <1>1, <3>1 DEF SystemTypes
  <2>2. Accounted' BY <1>0, <1>1 DEF Accounted, Scanned
  <2> QED BY <2>1, <2>2 DEF SystemInv
<1>2. CASE ScansFor
  <2>1. /\ listing # "none" /\ answer = NoPage
        /\ answer' = IF listing = "first" THEN ScanFrom(0, FirstLimit) ELSE ScanFrom(nextToken, MoreLimit)
        /\ UNCHANGED <<table, puts, notices, items, nextToken, listing, missed, failed>>
    BY <1>2 DEF ScansFor
  <2>2. /\ IsScan(answer', nextToken)
        /\ \A r \in table : r.key > nextToken =>
            r \in ToSet(answer'.items) \/ (answer'.nextToken # 0 /\ r.key > answer'.nextToken)
    <3>1. CASE listing = "first"
      <4>1. nextToken = 0 /\ 0 \in Nat BY <1>0, <3>1 DEF SystemTypes
      <4>2. answer' = ScanFrom(0, FirstLimit) BY <2>1, <3>1
      <4> QED BY <1>0, <4>1, <4>2, ScanIsComplete, SystemAssumption
    <3>2. CASE listing # "first"
      <4>1. nextToken \in Nat BY <1>0 DEF SystemTypes
      <4>2. answer' = ScanFrom(nextToken, MoreLimit) BY <2>1, <3>2
      <4> QED BY <1>0, <4>1, <4>2, ScanIsComplete, SystemAssumption
    <3> QED BY <3>1, <3>2
  <2>3. answer' # NoPage BY <2>2 DEF IsScan, NoPage
  <2>4. SystemTypes' BY <1>0, <2>1, <2>2 DEF SystemTypes
  <2>5. ASSUME ~failed', NEW r \in table'
        PROVE  \/ r \in ToSet(items') \/ r \in notices' \/ r \in missed'
               \/ r \in ToSet(answer'.items)
               \/ ~Scanned(r.key)'
    <3>1. r \in table /\ ~failed BY <2>1, <2>5
    <3>2. r.key \in Nat \ {0} BY <1>0, <3>1, SystemAssumption DEF SystemTypes, TableRecords
    <3>3. nextToken \in Nat /\ answer'.nextToken \in Nat BY <1>0, <2>2 DEF SystemTypes, IsScan
    <3>4. CASE r.key > nextToken
      <4>1. CASE answer'.nextToken # 0 /\ r.key > answer'.nextToken
        BY <2>3, <3>2, <3>3, <4>1 DEF Scanned
      <4> QED BY <2>2, <3>1, <3>4, <4>1
    <3>5. CASE ~(r.key > nextToken)
      <4>1. listing # "first" /\ r.key <= nextToken BY <1>0, <3>2, <3>3, <3>5 DEF SystemTypes
      <4>2. Scanned(r.key) BY <2>1, <4>1 DEF Scanned
      <4> QED BY <1>0, <2>1, <3>1, <4>2 DEF Accounted
    <3> QED BY <3>4, <3>5
  <2>6. Accounted' BY <2>3, <2>5 DEF Accounted
  <2> QED BY <2>4, <2>6 DEF SystemInv
<1>3. CASE FirstPage
  <2>1. /\ listing = "first" /\ answer # NoPage /\ answer' = NoPage
        /\ items' = answer.items /\ nextToken' = answer.nextToken /\ listing' = "none"
        /\ missed' = missed \cup {record \in ToSet(items) \ ToSet(answer.items) : Scanned(record.key)}
        /\ UNCHANGED <<table, puts, notices, failed>>
    BY <1>3 DEF FirstPage, Answered
  <2>2. IsScan(answer, nextToken) BY <1>0, <2>1 DEF SystemTypes
  <2>3. SystemTypes' BY <1>0, <2>1, <2>2 DEF SystemTypes, IsScan
  <2>4. ASSUME NEW key PROVE Scanned(key)' = Scanned(key) BY <2>1 DEF Scanned
  <2>5. Accounted' BY <1>0, <2>1, <2>4 DEF Accounted
  <2> QED BY <2>3, <2>5 DEF SystemInv
<1>4. CASE LoadMore
  <2>1. /\ nextToken # 0 /\ listing # "more" /\ listing' = "more"
        /\ UNCHANGED <<table, puts, notices, items, nextToken, answer, missed, failed>>
    BY <1>4 DEF LoadMore
  <2>2. listing # "first" BY <1>0, <2>1 DEF SystemTypes
  <2>3. SystemTypes' BY <1>0, <2>1 DEF SystemTypes
  <2>4. ASSUME NEW key PROVE Scanned(key)' = Scanned(key) BY <2>1, <2>2 DEF Scanned
  <2>5. Accounted' BY <1>0, <2>1, <2>4 DEF Accounted
  <2> QED BY <2>3, <2>5 DEF SystemInv
<1>5. CASE MorePage
  <2>1. /\ listing = "more" /\ answer # NoPage /\ answer' = NoPage
        /\ items' = items \o answer.items /\ nextToken' = answer.nextToken /\ listing' = "none"
        /\ UNCHANGED <<table, puts, notices, missed, failed>>
    BY <1>5 DEF MorePage, Answered, Appended
  <2>2. IsScan(answer, nextToken) /\ items \in Seq(TableRecords) BY <1>0, <2>1 DEF SystemTypes
  <2>3. answer.items \in Seq(TableRecords) BY <2>2 DEF IsScan
  <2>4. SystemTypes' BY <1>0, <2>1, <2>2 DEF SystemTypes, IsScan
  <2>5. ToSet(items) \cup ToSet(answer.items) \subseteq ToSet(items') BY <2>1, <2>2, <2>3, ToSetConcat
  <2>6. ASSUME NEW key PROVE Scanned(key)' = Scanned(key) BY <2>1 DEF Scanned
  <2>7. Accounted' BY <1>0, <2>1, <2>5, <2>6 DEF Accounted
  <2> QED BY <2>4, <2>7 DEF SystemInv
<1>6. CASE PageFails
  <2>1. /\ listing # "none" /\ listing' = "none" /\ answer' = NoPage
        /\ failed' = (failed \/ listing = "first")
        /\ UNCHANGED <<table, puts, notices, items, nextToken, missed>>
    BY <1>6 DEF PageFails
  <2>2. SystemTypes' BY <1>0, <2>1 DEF SystemTypes
  <2>3. ASSUME ~failed', NEW r \in table'
        PROVE  r \in ToSet(items') \/ r \in notices' \/ r \in missed' \/ ~Scanned(r.key)'
    <3>1. r \in table /\ ~failed /\ listing # "first" BY <2>1, <2>3
    <3>2. r.key \in Nat BY <1>0, <3>1, SystemAssumption DEF SystemTypes, TableRecords
    <3>3. CASE answer = NoPage
      <4>1. Scanned(r.key)' = Scanned(r.key) BY <2>1, <3>1, <3>3 DEF Scanned
      <4> QED BY <1>0, <2>1, <3>1, <3>3, <4>1 DEF Accounted
    <3>4. CASE answer # NoPage
      <4>1. /\ IsScan(answer, nextToken) /\ nextToken \in Nat BY <1>0, <3>4 DEF SystemTypes
      <4>2. CASE r \in ToSet(answer.items)
        <5>1. r.key > nextToken BY <4>1, <4>2 DEF IsScan
        <5>2. nextToken # 0
          BY <1>0, <2>1, <3>1, <3>4 DEF SystemTypes
        <5> QED BY <2>1, <3>2, <4>1, <5>1, <5>2 DEF Scanned
      <4>3. CASE ~Scanned(r.key)
        <5>1. answer.nextToken # 0 /\ ~(r.key <= answer.nextToken) BY <3>4, <4>3 DEF Scanned
        <5>2. answer.nextToken \in Nat /\ answer.nextToken > nextToken BY <4>1, <5>1 DEF IsScan
        <5>3. nextToken # 0
          BY <1>0, <2>1, <3>1, <3>4 DEF SystemTypes
        <5> QED BY <2>1, <3>2, <4>1, <5>1, <5>2, <5>3 DEF Scanned
      <4> QED BY <1>0, <2>1, <3>1, <4>2, <4>3 DEF Accounted
    <3> QED BY <3>3, <3>4
  <2>4. Accounted' BY <2>3 DEF Accounted
  <2> QED BY <2>2, <2>4 DEF SystemInv
<1>7. ASSUME NEW key \in RecordKeys, NEW notify, Put(key, notify)
      PROVE  SystemInv'
  <2> DEFINE record == Record(key, puts')
  <2>1. /\ puts' = puts + 1 /\ table' = {r \in table : r.key # record.key} \cup {record}
        /\ notices' = IF notify THEN notices \cup {record} ELSE notices
        /\ missed' = IF ~notify /\ Scanned(key) THEN missed \cup {record} ELSE missed
        /\ UNCHANGED <<items, nextToken, listing, answer, failed>>
    BY <1>7 DEF Put, PutRecord
  <2>2. record \in TableRecords /\ record.key = key BY <1>0, <2>1 DEF Record, TableRecords, SystemTypes
  <2> HIDE DEF record
  <2>3. IsFiniteSet(table')
    <3>1. IsFiniteSet({r \in table : r.key # record.key}) BY <1>0, FS_Subset DEF SystemTypes
    <3> QED BY <2>1, <3>1, FS_AddElement
  <2>4. SystemTypes' BY <1>0, <2>1, <2>2, <2>3 DEF SystemTypes
  <2>5. ASSUME NEW k PROVE Scanned(k)' = Scanned(k) BY <2>1, ScannedStays
  <2>6. Accounted' BY <1>0, <2>1, <2>2, <2>5 DEF Accounted
  <2> QED BY <2>4, <2>6 DEF SystemInv
<1>8. CASE CreateElsewhere BY <1>7, <1>8 DEF CreateElsewhere, Create
<1>9. CASE CreateRecord BY <1>7, <1>9 DEF CreateRecord, Create
<1>10. CASE PutDirectly BY <1>7, <1>10 DEF PutDirectly
<1>11. CASE ResetDeletes BY <1>1, <1>11 DEF ResetDeletes
<1>12. CASE Subscribed \/ OpenForm \/ CancelForm \/ CreateFails \/ UNCHANGED systemVars
  BY <1>1, <1>12 DEF Subscribed, OpenForm, CancelForm, CreateFails, systemVars
<1>13. CASE SubscriptionEnds
  <2>1. /\ notices' = {} /\ missed' = missed \cup {record \in notices : Scanned(record.key)}
        /\ UNCHANGED <<table, puts, items, nextToken, listing, answer, failed>>
    BY <1>13 DEF SubscriptionEnds
  <2>2. SystemTypes' BY <1>0, <2>1 DEF SystemTypes
  <2>3. ASSUME NEW k PROVE Scanned(k)' = Scanned(k) BY <2>1, ScannedStays
  <2>4. Accounted' BY <1>0, <2>1, <2>3 DEF Accounted
  <2> QED BY <2>2, <2>4 DEF SystemInv
<1>14. ASSUME NEW record \in notices, RecordArrives(record)
       PROVE  SystemInv'
  <2>1. /\ items' = <<record>> \o items /\ notices' = notices \ {record}
        /\ UNCHANGED <<table, puts, nextToken, listing, answer, missed, failed>>
    BY <1>14 DEF RecordArrives
  <2>2. /\ record \in TableRecords /\ items \in Seq(TableRecords) /\ <<record>> \in Seq(TableRecords)
    BY <1>0 DEF SystemTypes
  <2>3. SystemTypes' BY <1>0, <2>1, <2>2 DEF SystemTypes
  <2>4. ToSet(<<record>>) \cup ToSet(items) \subseteq ToSet(items') BY <2>1, <2>2, ToSetConcat
  <2>5. record \in ToSet(<<record>>) BY DEF ToSet
  <2>6. ASSUME NEW k PROVE Scanned(k)' = Scanned(k) BY <2>1, ScannedStays
  <2>7. Accounted' BY <1>0, <2>1, <2>4, <2>5, <2>6 DEF Accounted
  <2> QED BY <2>3, <2>7 DEF SystemInv
<1> QED BY <1>2, <1>3, <1>4, <1>5, <1>6, <1>8, <1>9, <1>10, <1>11, <1>12, <1>13, <1>14 DEF SystemStep

LEMMA SystemInvSays == SystemInv => LoadedPageIsComplete
BY DEF SystemInv, SystemTypes, Accounted, LoadedPageIsComplete, Scanned

-----------------------------------------------------------------------------
(* The panels *)

\* The newest request was answered or is on its way; each is a request of
\* its own, and the newest is for what is selected.
PanelCalls ==
    /\ requested \in Nat /\ latest \in 0..requested
    /\ \A c \in calls :
        /\ c = [no |-> c.no, choice |-> c.choice, polls |-> c.polls, athena |-> c.athena]
        /\ c.no \in 1..requested
        /\ c.no = requested => c.choice = choice
    /\ latest = requested \/ \E c \in calls : c.no = requested

\* What is shown when the newest request was answered last.
PanelShows ==
    /\ panel = [rows |-> panel.rows, of |-> panel.of, loading |-> panel.loading, error |-> panel.error]
    /\ panel.loading => calls # {}
    /\ (~disordered /\ latest = requested) => panel.error \/ panel.of = choice

\* The panels' inductive invariant.
PanelInv == PanelCalls /\ PanelShows

LEMMA PanelStarts ==
    ASSUME PanelInit({part}) \/ PanelIdle
    PROVE  PanelInv
<1>1. CASE PanelIdle
  <2> DEFINE nothing == ""
  <2>1. /\ choice = nothing /\ calls = {} /\ requested = 0 /\ latest = 0
        /\ panel = [rows |-> nothing, of |-> nothing, loading |-> FALSE, error |-> FALSE]
    BY <1>1, Zenon DEF PanelIdle
  <2> HIDE DEF nothing
  <2> QED BY <2>1 DEF PanelInv, PanelCalls, PanelShows
<1>2. CASE PanelInit({part})
  <2>1. /\ calls = {NewCall(1, choice)} /\ requested = 1 /\ panel = Fresh(choice) /\ latest = 0
    BY <1>2 DEF PanelInit
  <2> QED BY <2>1 DEF PanelInv, PanelCalls, PanelShows, NewCall, Fresh
<1> QED BY <1>1, <1>2

LEMMA NewestOf ==
    ASSUME NEW m \in Nat, NEW n \in Nat
    PROVE  Max({m, n}) = IF n > m THEN n ELSE m
<1> DEFINE newest == IF n > m THEN n ELSE m
<1>1. newest \in {m, n} /\ \A y \in {m, n} : newest >= y OBVIOUS
<1>2. \A x \in {m, n} : (\A y \in {m, n} : x >= y) => x = newest OBVIOUS
<1> HIDE DEF newest
<1>3. Max({m, n}) = newest BY <1>1, <1>2 DEF Max
<1> QED BY <1>3 DEF newest

\* A new request for a choice.
LEMMA PanelAsks ==
    ASSUME PanelInv, NEW c, requested' = requested + 1, choice' = c, latest' = latest,
           \/ calls' = calls \cup {NewCall(requested', c)}
           \/ calls' = {NewCall(requested', c)},
           panel'.loading, ~panel'.error,
           panel' = [rows |-> panel'.rows, of |-> panel'.of,
                     loading |-> panel'.loading, error |-> panel'.error]
    PROVE  PanelInv'
<1> DEFINE new == NewCall(requested', c)
<1>1. /\ new = [no |-> new.no, choice |-> new.choice, polls |-> new.polls, athena |-> new.athena]
      /\ new.no = requested' /\ new.choice = c
  BY DEF NewCall
<1>2. new \in calls' /\ \A d \in calls' : d = new \/ d \in calls OBVIOUS
<1> HIDE DEF new
<1>3. requested \in Nat /\ latest \in 0..requested BY DEF PanelInv, PanelCalls
<1>4. \A d \in calls : d.no \in 1..requested /\ d.no # requested' BY <1>3 DEF PanelInv, PanelCalls
<1>5. PanelCalls' BY <1>1, <1>2, <1>3, <1>4 DEF PanelInv, PanelCalls
<1>6. latest' # requested' BY <1>3
<1>7. PanelShows' BY <1>2, <1>6 DEF PanelShows
<1> QED BY <1>5, <1>7 DEF PanelInv

\* An answer, or a failure.
LEMMA PanelComes ==
    ASSUME PanelInv, NEW c \in calls, NEW next, Comes(c, next),
           next = [rows |-> next.rows, of |-> next.of, loading |-> next.loading, error |-> next.error],
           ~next.loading, next.error \/ next.of = c.choice
    PROVE  PanelInv'
<1>0. PanelCalls /\ PanelShows BY DEF PanelInv
<1>1. /\ calls' = calls \ {c} /\ panel' = next
      /\ latest' = Max({latest, c.no}) /\ disordered' = IF c.no > latest THEN FALSE ELSE TRUE
      /\ UNCHANGED <<choice, requested>>
  BY DEF Comes
<1>2. /\ requested \in Nat /\ latest \in 0..requested /\ c.no \in 1..requested
      /\ c.no = requested => c.choice = choice
  BY <1>0 DEF PanelCalls
<1>3. latest' = IF c.no > latest THEN c.no ELSE latest BY <1>1, <1>2, NewestOf
<1>4. latest' = requested \/ \E d \in calls' : d.no = requested
  <2>1. CASE latest = requested BY <1>2, <1>3, <2>1
  <2>2. CASE \E d \in calls : d.no = requested
    <3>1. PICK d \in calls : d.no = requested BY <2>2
    <3>2. CASE d = c BY <1>2, <1>3, <3>1, <3>2
    <3>3. CASE d # c BY <1>1, <3>1, <3>3
    <3> QED BY <3>2, <3>3
  <2> QED BY <1>0, <2>1, <2>2 DEF PanelCalls
<1>5. PanelCalls'
  <2>1. latest' \in 0..requested' BY <1>1, <1>2, <1>3
  <2> QED BY <1>0, <1>1, <1>4, <2>1 DEF PanelCalls
<1>6. PanelShows'
  <2>1. (~disordered' /\ latest' = requested') => c.no = requested BY <1>1, <1>2, <1>3
  <2> QED BY <1>1, <1>2, <2>1 DEF PanelShows
<1> QED BY <1>5, <1>6 DEF PanelInv

LEMMA PanelInvStep ==
    ASSUME PanelInv, PanelStep \/ UNCHANGED panelVars
    PROVE  PanelInv'
<1>0. /\ PanelCalls /\ PanelShows
      /\ panel = [rows |-> panel.rows, of |-> panel.of, loading |-> panel.loading, error |-> panel.error]
  BY DEF PanelInv, PanelShows
<1>1. CASE Reopen
  <2>1. /\ requested' = requested + 1 /\ latest' = latest
        /\ calls' = {NewCall(requested', choice')} /\ panel' = Fresh(choice')
    BY <1>1 DEF Reopen
  <2>2. PICK c : c = choice' OBVIOUS
  <2>3. /\ panel'.loading /\ ~panel'.error
        /\ panel' = [rows |-> panel'.rows, of |-> panel'.of,
                     loading |-> panel'.loading, error |-> panel'.error]
    BY <2>1 DEF Fresh
  <2> QED BY <2>1, <2>2, <2>3, PanelAsks
<1>2. ASSUME NEW c, Select(c) PROVE PanelInv'
  <2>1. /\ requested' = requested + 1 /\ latest' = latest /\ choice' = c
        /\ calls' = calls \cup {NewCall(requested', c)}
        /\ panel' = [panel EXCEPT !.loading = TRUE, !.error = FALSE]
    BY <1>2 DEF Select, AsksFor
  <2>2. /\ panel'.loading /\ ~panel'.error
        /\ panel' = [rows |-> panel'.rows, of |-> panel'.of,
                     loading |-> panel'.loading, error |-> panel'.error]
    BY <1>0, <2>1
  <2> QED BY <2>1, <2>2, PanelAsks
<1>3. ASSUME NEW c \in calls, AthenaEnds(c) \/ PollGoesOn(c) PROVE PanelInv'
  <2>1. PICK d : /\ calls' = (calls \ {c}) \cup {d}
                 /\ d = [no |-> d.no, choice |-> d.choice, polls |-> d.polls, athena |-> d.athena]
                 /\ d.no = c.no /\ d.choice = c.choice
    <3>1. c = [no |-> c.no, choice |-> c.choice, polls |-> c.polls, athena |-> c.athena]
      BY <1>0 DEF PanelCalls
    <3>2. CASE AthenaEnds(c)
      <4>1. PICK state \in {"SUCCEEDED", "FAILED"} :
                calls' = (calls \ {c}) \cup {[c EXCEPT !.athena = state]}
        BY <3>2 DEF AthenaEnds
      <4> DEFINE d == [c EXCEPT !.athena = state]
      <4>2. /\ d = [no |-> d.no, choice |-> d.choice, polls |-> d.polls, athena |-> d.athena]
            /\ d.no = c.no /\ d.choice = c.choice
        BY <3>1
      <4> QED BY <4>1, <4>2
    <3>3. CASE PollGoesOn(c)
      <4> DEFINE d == [c EXCEPT !.polls = c.polls + 1]
      <4>1. calls' = (calls \ {c}) \cup {d} BY <3>3 DEF PollGoesOn
      <4>2. /\ d = [no |-> d.no, choice |-> d.choice, polls |-> d.polls, athena |-> d.athena]
            /\ d.no = c.no /\ d.choice = c.choice
        BY <3>1
      <4> QED BY <4>1, <4>2
    <3> QED BY <1>3, <3>2, <3>3
  <2>2. UNCHANGED <<choice, panel, requested, latest, disordered>>
    BY <1>3 DEF AthenaEnds, PollGoesOn
  <2>3. PanelCalls' BY <1>0, <2>1, <2>2 DEF PanelCalls
  <2>4. PanelShows' BY <1>0, <2>1, <2>2 DEF PanelShows
  <2> QED BY <2>3, <2>4 DEF PanelInv
<1>4. ASSUME NEW c \in calls, Failed(c) PROVE PanelInv'
  <2>1. PICK next : /\ Comes(c, next) /\ ~next.loading /\ next.error
                    /\ next = [rows |-> next.rows, of |-> next.of, loading |-> next.loading,
                               error |-> next.error]
    <3> DEFINE rows == IF kind = "ev" THEN NoRows ELSE panel.rows
               next == [panel EXCEPT !.rows = rows, !.loading = FALSE, !.error = TRUE]
    <3>1. Comes(c, next) BY <1>4 DEF Failed
    <3> HIDE DEF rows
    <3> DEFINE blank == [panel EXCEPT !.rows = rows]
    <3>2. blank = [rows |-> blank.rows, of |-> blank.of, loading |-> blank.loading, error |-> blank.error]
      BY <1>0
    <3>3. next = [blank EXCEPT !.loading = FALSE, !.error = TRUE] OBVIOUS
    <3> HIDE DEF next, blank
    <3>4. /\ ~next.loading /\ next.error
          /\ next = [rows |-> next.rows, of |-> next.of, loading |-> next.loading, error |-> next.error]
      BY <3>2, <3>3
    <3> QED BY <3>1, <3>4
  <2> QED BY <2>1, PanelComes
<1>5. ASSUME NEW c \in calls, PollSucceeds(c) PROVE PanelInv'
  <2>1. PICK rows \in Answers(c.choice) :
            Comes(c, [rows |-> rows, of |-> c.choice, loading |-> FALSE, error |-> FALSE])
    BY <1>5 DEF PollSucceeds
  <2> DEFINE next == [rows |-> rows, of |-> c.choice, loading |-> FALSE, error |-> FALSE]
  <2>2. /\ Comes(c, next) /\ ~next.loading /\ next.of = c.choice
        /\ next = [rows |-> next.rows, of |-> next.of, loading |-> next.loading, error |-> next.error]
    BY <2>1
  <2> HIDE DEF next
  <2> QED BY <2>2, PanelComes
<1>6. ASSUME NEW c \in calls, PollFails(c) \/ RequestFails(c) PROVE PanelInv'
  BY <1>4, <1>6 DEF PollFails, RequestFails
<1>7. CASE UNCHANGED panelVars
  <2>1. UNCHANGED <<choice, calls, panel, requested, latest, disordered>> BY <1>7 DEF panelVars
  <2>2. PanelCalls' BY <1>0, <2>1 DEF PanelCalls
  <2>3. PanelShows' BY <1>0, <2>1 DEF PanelShows
  <2> QED BY <2>2, <2>3 DEF PanelInv
<1> QED BY <1>1, <1>2, <1>3, <1>5, <1>6, <1>7 DEF PanelStep

LEMMA PanelInvSays == PanelInv => QuietPanelIsRight
BY DEF PanelInv, PanelCalls, PanelShows, QuietPanelIsRight

-----------------------------------------------------------------------------
(* The conversation *)

\* The values of the conversation's variables; a run, field by field.
Blocks == [kind : {"prose", "graph"}, run : Nat]
TurnTypes == [id : Nat, run : Nat, blocks : Seq(Blocks)]
IsRun(r) == r = [run |-> r.run, turn |-> r.turn, agent |-> r.agent, drawn |-> r.drawn]

AskTypes ==
    /\ turns \in Seq(TurnTypes) /\ seq \in Nat /\ asked \in Nat
    /\ \A r \in runs : IsRun(r) /\ r.run \in 0..asked
    /\ \A i \in 1..Len(turns) : turns[i].id < seq /\ turns[i].run <= asked
    /\ withCall \subseteq 0..asked

\* Until runs overlap there is at most one, and a turn with its id is its own.
OneRun ==
    ~overlapped =>
        /\ \A r, s \in runs : r = s
        /\ \A r \in runs, i \in 1..Len(turns) : turns[i].id = r.turn => turns[i].run = r.run

\* The two properties are inductive once there is at most one run.
AskInv == AskTypes /\ OneRun /\ BlocksInTheirTurn /\ RunningHasRun

LEMMA AskStarts == AskInit => AskInv
<1> SUFFICES ASSUME AskInit PROVE AskInv OBVIOUS
<1>1. /\ turns = <<>> /\ running = FALSE /\ seq = 0 /\ asked = 0 /\ runs = {} /\ overlapped = FALSE
      /\ withCall = {}
  BY DEF AskInit
<1>2. turns \in Seq(TurnTypes) /\ Len(turns) = 0 /\ DOMAIN turns = {} BY <1>1
<1> QED BY <1>1, <1>2 DEF AskInv, AskTypes, OneRun, BlocksInTheirTurn, RunningHasRun

\* A message or a widget lands in the turns with the id, and only there.
LEMMA BlockLands ==
    ASSUME AskInv, NEW r \in runs, NEW what \in {"prose", "graph"}, turns' = Patched(r, what)
    PROVE  /\ turns' \in Seq(TurnTypes) /\ Len(turns') = Len(turns)
           /\ \A i \in 1..Len(turns) : turns'[i].id = turns[i].id /\ turns'[i].run = turns[i].run
           /\ ~overlapped =>
                \A i \in 1..Len(turns) : \A k \in DOMAIN turns'[i].blocks :
                    turns'[i].blocks[k].run = turns[i].run
<1> DEFINE block == [kind |-> what, run |-> r.run]
           turn(i) == [turns[i] EXCEPT !.blocks = Append(turns[i].blocks, block)]
<1>1. /\ turns \in Seq(TurnTypes) /\ r.run \in Nat BY DEF AskInv, AskTypes
<1>2. Len(turns) \in Nat /\ DOMAIN turns = 1..Len(turns) BY <1>1
<1>3. /\ block \in Blocks /\ block.run = r.run BY <1>1 DEF Blocks
<1>4. turns' = [i \in 1..Len(turns) |-> IF turns[i].id = r.turn THEN turn(i) ELSE turns[i]]
  BY <1>2 DEF Patched
<1> HIDE DEF block
<1>5. ASSUME NEW i \in 1..Len(turns)
      PROVE  /\ turns[i] \in TurnTypes /\ turn(i) \in TurnTypes
             /\ turn(i).id = turns[i].id /\ turn(i).run = turns[i].run
             /\ turn(i).blocks = Append(turns[i].blocks, block)
             /\ turns[i].blocks \in Seq(Blocks)
  <2>1. turns[i] \in TurnTypes BY <1>1
  <2>2. turns[i].blocks \in Seq(Blocks) BY <2>1 DEF TurnTypes
  <2>3. Append(turns[i].blocks, block) \in Seq(Blocks) BY <1>3, <2>2
  <2> QED BY <2>1, <2>2, <2>3 DEF TurnTypes
<1>6. \A i \in 1..Len(turns) :
        turns'[i] = IF turns[i].id = r.turn THEN turn(i) ELSE turns[i]
  BY <1>4
<1> HIDE DEF turn
<1>7. \A i \in 1..Len(turns) : turns'[i] \in TurnTypes BY <1>5, <1>6
<1>8. turns' \in Seq(TurnTypes) /\ Len(turns') = Len(turns) BY <1>2, <1>4, <1>7
<1>9. \A i \in 1..Len(turns) : turns'[i].id = turns[i].id /\ turns'[i].run = turns[i].run
  BY <1>5, <1>6
<1>10. ASSUME ~overlapped, NEW i \in 1..Len(turns), NEW k \in DOMAIN turns'[i].blocks
       PROVE  turns'[i].blocks[k].run = turns[i].run
  <2>1. \A j \in DOMAIN turns[i].blocks : turns[i].blocks[j].run = turns[i].run
    BY <1>2, <1>10 DEF AskInv, BlocksInTheirTurn
  <2>2. CASE turns[i].id # r.turn BY <1>6, <1>10, <2>1, <2>2
  <2>3. CASE turns[i].id = r.turn
    <3>1. turns[i].run = r.run BY <1>10, <2>3 DEF AskInv, OneRun
    <3>2. turns'[i].blocks = Append(turns[i].blocks, block) BY <1>5, <1>6, <2>3
    <3> DEFINE old == turns[i].blocks
    <3>3. old \in Seq(Blocks) BY <1>5
    <3>4. k \in DOMAIN Append(old, block) BY <1>10, <3>2
    <3> HIDE DEF old
    <3>5. \/ k \in DOMAIN old /\ Append(old, block)[k] = old[k]
          \/ Append(old, block)[k] = block
      BY <3>3, <3>4
    <3> QED BY <1>3, <2>1, <3>1, <3>2, <3>5 DEF old
  <2> QED BY <2>2, <2>3
<1> QED BY <1>8, <1>9, <1>10

LEMMA AskInvStep ==
    ASSUME AskInv, AskStep \/ UNCHANGED chatVars
    PROVE  AskInv'
<1>0. /\ AskTypes /\ OneRun /\ BlocksInTheirTurn /\ RunningHasRun BY DEF AskInv
<1>1. CASE UNCHANGED chatVars
  BY <1>0, <1>1 DEF chatVars, AskInv, AskTypes, OneRun, BlocksInTheirTurn, RunningHasRun
<1>2. CASE ClickAsk
  BY <1>0, <1>2 DEF ClickAsk, AskInv, AskTypes, OneRun, BlocksInTheirTurn, RunningHasRun
<1>3. CASE BeginRun
  <2> DEFINE turn == [id |-> seq, run |-> asked', blocks |-> <<>>]
             run == [run |-> asked', turn |-> seq, agent |-> agent'.no, drawn |-> {}]
  <2>1. /\ asked' = asked + 1 /\ running' = TRUE /\ turns' = Append(turns, turn) /\ seq' = seq + 1
        /\ runs' = runs \cup {run} /\ overlapped' = (overlapped \/ runs # {}) /\ withCall' = withCall
    BY <1>3 DEF BeginRun, AfterTurn
  <2>2. /\ turns \in Seq(TurnTypes) /\ seq \in Nat /\ asked \in Nat BY <1>0 DEF AskTypes
  <2>3. turn \in TurnTypes /\ turn.id = seq /\ turn.run = asked' /\ DOMAIN turn.blocks = {}
    <3>1. <<>> \in Seq(Blocks) OBVIOUS
    <3> QED BY <2>1, <2>2, <3>1 DEF TurnTypes
  <2>4. IsRun(run) /\ run.run = asked' /\ run.turn = seq BY DEF IsRun
  <2> HIDE DEF turn, run
  <2>5. /\ turns' \in Seq(TurnTypes) /\ Len(turns) \in Nat /\ Len(turns') = Len(turns) + 1
        /\ \A i \in 1..Len(turns) : turns'[i] = turns[i]
        /\ turns'[Len(turns')] = turn
    BY <2>1, <2>2, <2>3
  <2>6. \A i \in 1..Len(turns') : i \in 1..Len(turns) \/ turns'[i] = turn BY <2>5
  <2>7. \A i \in 1..Len(turns) : turns[i] \in TurnTypes BY <2>2
  <2>8. AskTypes'
    <3>1. \A i \in 1..Len(turns') : turns'[i].id < seq' /\ turns'[i].run <= asked'
      <4>1. \A i \in 1..Len(turns) : /\ turns[i].id \in Nat /\ turns[i].id < seq
                                      /\ turns[i].run \in Nat /\ turns[i].run <= asked
        BY <1>0, <2>7 DEF AskTypes, TurnTypes
      <4> QED BY <2>1, <2>2, <2>3, <2>5, <2>6, <4>1
    <3>2. \A r \in runs' : IsRun(r) /\ r.run \in 0..asked' BY <1>0, <2>1, <2>2, <2>4 DEF AskTypes
    <3>3. withCall' \subseteq 0..asked' BY <1>0, <2>1, <2>2 DEF AskTypes
    <3> QED BY <2>1, <2>2, <2>5, <3>1, <3>2, <3>3 DEF AskTypes
  <2>9. OneRun'
    <3> SUFFICES ASSUME ~overlapped' PROVE (\A r, s \in runs' : r = s)
                 /\ \A r \in runs', i \in 1..Len(turns') : turns'[i].id = r.turn => turns'[i].run = r.run
      BY DEF OneRun
    <3>1. runs' = {run} BY <2>1
    <3>2. \A i \in 1..Len(turns) : turns[i].id # seq
      BY <1>0, <2>2, <2>7 DEF AskTypes, TurnTypes
    <3> QED BY <2>3, <2>4, <2>5, <2>6, <3>1, <3>2
  <2>10. BlocksInTheirTurn'
    <3>1. DOMAIN turns' = 1..Len(turns') /\ DOMAIN turns = 1..Len(turns) BY <2>2, <2>5
    <3> SUFFICES ASSUME ~overlapped', NEW i \in 1..Len(turns'), NEW k \in DOMAIN turns'[i].blocks
                 PROVE  turns'[i].blocks[k].run = turns'[i].run
      BY <3>1 DEF BlocksInTheirTurn
    <3>2. CASE i \in 1..Len(turns) BY <1>0, <2>1, <2>5, <3>1, <3>2 DEF BlocksInTheirTurn
    <3>3. CASE turns'[i] = turn BY <2>3, <3>3
    <3> QED BY <2>6, <3>2, <3>3
  <2>11. RunningHasRun' BY <2>1 DEF RunningHasRun
  <2> QED BY <2>8, <2>9, <2>10, <2>11 DEF AskInv
<1>4. CASE NewConversation
  <2>1. /\ ~running /\ turns' = <<>> /\ seq' = 0 /\ overlapped' = (runs # {})
        /\ UNCHANGED <<running, asked, runs, withCall>>
    BY <1>4 DEF NewConversation
  <2>2. turns' \in Seq(TurnTypes) /\ Len(turns') = 0 /\ DOMAIN turns' = {} BY <2>1
  <2>3. AskTypes' BY <1>0, <2>1, <2>2 DEF AskTypes
  <2>4. OneRun' /\ BlocksInTheirTurn' BY <2>1, <2>2 DEF OneRun, BlocksInTheirTurn
  <2>5. RunningHasRun' BY <2>1 DEF RunningHasRun
  <2> QED BY <2>3, <2>4, <2>5 DEF AskInv
<1>5. ASSUME NEW r \in runs, RunFinished(r) \/ RunError(r) PROVE AskInv'
  <2>1. /\ running' = FALSE /\ runs' = runs \ {r} /\ UNCHANGED <<turns, seq, asked, overlapped, withCall>>
    BY <1>5 DEF RunFinished, RunError, AfterError
  <2>2. AskTypes' BY <1>0, <2>1 DEF AskTypes
  <2>3. OneRun' BY <1>0, <2>1 DEF OneRun
  <2>4. BlocksInTheirTurn' BY <1>0, <2>1 DEF BlocksInTheirTurn
  <2>5. RunningHasRun' BY <1>0, <2>1 DEF OneRun, RunningHasRun
  <2> QED BY <2>2, <2>3, <2>4, <2>5 DEF AskInv
<1>6. ASSUME NEW r \in runs, StreamCloses(r) PROVE AskInv'
  <2>1. /\ runs' = runs \ {r} /\ cut' = TRUE
        /\ UNCHANGED <<turns, running, seq, asked, overlapped, withCall>>
    BY <1>6 DEF StreamCloses
  <2>2. AskTypes' BY <1>0, <2>1 DEF AskTypes
  <2>3. OneRun' BY <1>0, <2>1 DEF OneRun
  <2>4. BlocksInTheirTurn' BY <1>0, <2>1 DEF BlocksInTheirTurn
  <2>5. RunningHasRun' BY <1>0, <2>1 DEF RunningHasRun
  <2> QED BY <2>2, <2>3, <2>4, <2>5 DEF AskInv
<1>7. ASSUME NEW r \in runs,
             StreamsProse(r) \/ \E tool \in {"graph", "query"} : CallsTool(r, tool)
      PROVE  AskInv'
  <2>1. PICK what : /\ runs' = (runs \ {r}) \cup {[r EXCEPT !.drawn = r.drawn \cup {what}]}
                    /\ turns' = turns \/ turns' = Patched(r, "prose") \/ turns' = Patched(r, "graph")
                    /\ seq' = seq \/ seq' = seq + 1
                    /\ withCall' \subseteq withCall \cup {r.run}
                    /\ UNCHANGED <<running, asked, overlapped>>
    BY <1>7 DEF StreamsProse, CallsTool
  <2> DEFINE next == [r EXCEPT !.drawn = r.drawn \cup {what}]
  <2>2. IsRun(r) /\ r.run \in 0..asked /\ seq \in Nat /\ asked \in Nat BY <1>0 DEF AskTypes
  <2>3. IsRun(next) /\ next.run = r.run /\ next.turn = r.turn BY <2>2 DEF IsRun
  <2>9. runs' = (runs \ {r}) \cup {next} BY <2>1
  <2> HIDE DEF next
  <2>4. /\ turns' \in Seq(TurnTypes) /\ Len(turns') = Len(turns)
        /\ \A i \in 1..Len(turns) : turns'[i].id = turns[i].id /\ turns'[i].run = turns[i].run
        /\ ~overlapped =>
             \A i \in 1..Len(turns) : \A k \in DOMAIN turns'[i].blocks :
                turns'[i].blocks[k].run = turns[i].run
    <3>1. CASE turns' = turns
      <4>1. turns \in Seq(TurnTypes) /\ DOMAIN turns = 1..Len(turns) BY <1>0 DEF AskTypes
      <4> QED BY <1>0, <3>1, <4>1 DEF BlocksInTheirTurn
    <3>2. ASSUME NEW block \in {"prose", "graph"}, turns' = Patched(r, block)
          PROVE  /\ turns' \in Seq(TurnTypes) /\ Len(turns') = Len(turns)
                 /\ \A i \in 1..Len(turns) : turns'[i].id = turns[i].id /\ turns'[i].run = turns[i].run
                 /\ ~overlapped =>
                      \A i \in 1..Len(turns) : \A k \in DOMAIN turns'[i].blocks :
                         turns'[i].blocks[k].run = turns[i].run
      BY <3>2, BlockLands
    <3> QED BY <2>1, <3>1, <3>2
  <2>5. AskTypes'
    <3>1. seq' \in Nat /\ seq' >= seq BY <2>1, <2>2
    <3>2. \A s \in runs' : IsRun(s) /\ s.run \in 0..asked' BY <1>0, <2>1, <2>2, <2>3, <2>9 DEF AskTypes
    <3>3. turns \in Seq(TurnTypes) BY <1>0 DEF AskTypes
    <3>4. \A i \in 1..Len(turns) : /\ turns[i].id \in Nat /\ turns[i].id < seq /\ turns[i].run <= asked
      <4>1. \A i \in 1..Len(turns) : turns[i] \in TurnTypes BY <3>3
      <4> QED BY <1>0, <4>1 DEF AskTypes, TurnTypes
    <3>5. \A i \in 1..Len(turns') : turns'[i].id < seq' /\ turns'[i].run <= asked'
      BY <2>1, <2>2, <2>4, <3>1, <3>4
    <3>6. withCall' \subseteq 0..asked' BY <1>0, <2>1, <2>2 DEF AskTypes
    <3> QED BY <2>1, <2>2, <2>4, <3>1, <3>2, <3>5, <3>6 DEF AskTypes
  <2>6. OneRun' BY <1>0, <2>1, <2>3, <2>4, <2>9 DEF OneRun
  <2>7. BlocksInTheirTurn'
    <3>1. DOMAIN turns' = 1..Len(turns) BY <2>4
    <3> QED BY <2>1, <2>4, <3>1 DEF BlocksInTheirTurn
  <2>8. RunningHasRun' BY <1>0, <2>1 DEF RunningHasRun
  <2> QED BY <2>5, <2>6, <2>7, <2>8 DEF AskInv
<1> QED BY <1>1, <1>2, <1>3, <1>4, <1>5, <1>6, <1>7 DEF AskStep

-----------------------------------------------------------------------------
(* The list of runs *)

\* A list on its way and the one that is shown, field by field.
IsList(c) == c = [no |-> c.no, since |-> c.since, left |-> c.left, rows |-> c.rows]
IsShown(s) ==
    s = [no |-> s.no, since |-> s.since, complete |-> s.complete, error |-> s.error,
         loading |-> s.loading, status |-> s.status, records |-> s.records]

\* A list that is on its way was never shown, and nothing was asked for
\* after it.
ListNumbers ==
    /\ listsMade \in Nat /\ shown.no \in 0..listsMade
    /\ \A c \in lists : /\ IsList(c) /\ c.no \in 1..listsMade /\ c.since \in 0..listsMade
                        /\ c.no # shown.no
    /\ \A c, d \in lists : (c.no = d.no => c = d) /\ c.since # d.no

\* The trace was written in time, and is of runs that are traced.
Written == trace \cup gone
TraceOfRuns ==
    /\ second \in Nat
    /\ \A r \in Written : r.run \in TracedRuns /\ r.at \in 0..second

\* What a list has read of a run begins with its first record.
ReadRows ==
    \A c \in lists :
        /\ c.rows \subseteq Written
        /\ \A run \in TracedRuns : RowsOf(c.rows, run) # {} =>
            NoEarlier(RowsOf(trace, run), RowsOf(c.rows, run))

\* Each run that is shown has its records from the first one on, and is
\* completed only if they say so.
ShownRuns ==
    /\ IsShown(shown)
    /\ shown.complete =>
        \A run \in DOMAIN shown.status :
            /\ shown.records[run] # {} /\ shown.records[run] \subseteq Written
            /\ \A r \in shown.records[run] : r.run = run
            /\ shown.status[run] = "completed" =>
                \E r \in shown.records[run] : r.action = "stop_session"
            /\ NoEarlier(RowsOf(trace, run), shown.records[run])

\* What was asked for after the list that is shown has its records already,
\* unless they were deleted, or is still to read them; and has none before.
ScannedAfter ==
    \A c \in lists :
        (shown.complete /\ c.since = shown.no) =>
            \A run \in DOMAIN shown.status :
                /\ run \in c.left \/ shown.records[run] \subseteq c.rows \cup gone
                /\ NoEarlier(RowsOf(c.rows, run), shown.records[run])

\* The listing's inductive invariant.
RunsInv == ListNumbers /\ TraceOfRuns /\ ReadRows /\ ShownRuns /\ ScannedAfter

\* The step that ListingGrows allows.
ListStep ==
    (shown.complete /\ shown'.complete /\ shown'.since = shown.no) =>
        \A run \in DOMAIN shown.status \ {r.run : r \in gone'} :
            IF run \in DOMAIN shown'.status
            THEN /\ shown.records[run] \subseteq shown'.records[run]
                 /\ shown.status[run] = "completed" => shown'.status[run] = "completed"
            ELSE /\ Cardinality(DOMAIN shown'.status) = ListLimit
                 /\ \A o \in DOMAIN shown'.status :
                     NoEarlier(shown'.records[o], shown.records[run])

LEMMA RunsStart == RunsIdle => RunsInv
<1> SUFFICES ASSUME RunsIdle PROVE RunsInv OBVIOUS
<1>1. /\ lists = {} /\ listsMade = 0 /\ trace = {} /\ gone = {} /\ second = 0
      /\ shown = NothingListed(0, TRUE)
  BY DEF RunsIdle
<1>2. IsShown(shown) /\ shown.no = 0 /\ ~shown.complete BY <1>1 DEF NothingListed, IsShown
<1>3. ListNumbers
  <2>1. lists = {} /\ listsMade = 0 BY <1>1
  <2>2. shown.no \in 0..listsMade BY <1>2, <2>1
  <2> QED BY <2>1, <2>2 DEF ListNumbers
<1>4. ShownRuns /\ ReadRows BY <1>1, <1>2 DEF ShownRuns, ReadRows
<1>5. ScannedAfter /\ TraceOfRuns BY <1>1, <1>2 DEF ScannedAfter, TraceOfRuns, Written
<1> QED BY <1>3, <1>4, <1>5 DEF RunsInv

\* A run is completed exactly when one of its records is a stop.
LEMMA CompletedIsStopped ==
    ASSUME NEW records, NEW t
    PROVE  StatusOf(records, t) = "completed" <=> \E r \in records : r.action = "stop_session"
<1> DEFINE stopped == \E r \in records : r.action = "stop_session"
           last == Last(InOrder(records))
           late == IF t - last.at < StaleAge THEN "in_flight" ELSE "stalled"
<1>1. StatusOf(records, t) = CASE stopped -> "completed"
                               [] (\A r \in records : r.action # "stop_session")
                                    /\ last.action = "ask_human" -> "awaiting_human"
                               [] OTHER -> late
  BY DEF StatusOf
<1>2. late # "completed" OBVIOUS
<1>3. (\A r \in records : r.action # "stop_session") <=> ~stopped OBVIOUS
<1> HIDE DEF stopped, last, late
<1>4. CASE stopped BY <1>1, <1>3, <1>4 DEF stopped
<1>5. CASE ~stopped BY <1>1, <1>2, <1>3, <1>5 DEF stopped
<1> QED BY <1>4, <1>5

\* Records that are written later are not before those there were.
LEMMA FirstStays ==
    ASSUME NEW before, NEW after, NEW records, records # {},
           NoEarlier(before, records),
           \A r \in after \ before : \A q \in records : q.at <= r.at
    PROVE  NoEarlier(after, records)
BY DEF NoEarlier

\* A step that leaves the lists and the numbers alone, and shows the same runs.
LEMMA RunsStay ==
    ASSUME RunsInv, UNCHANGED <<lists, listsMade>>, gone \subseteq gone', Written \subseteq Written',
           TraceOfRuns', \A r \in trace' \ trace : \A q \in Written : q.at <= r.at,
           IsShown(shown'), shown'.no = shown.no, shown'.complete = shown.complete,
           shown'.status = shown.status, shown'.records = shown.records
    PROVE  RunsInv' /\ ListStep
<1>0. ListNumbers /\ ReadRows /\ ShownRuns /\ ScannedAfter BY DEF RunsInv
<1>1. ListNumbers' BY <1>0 DEF ListNumbers
<1>2. ASSUME NEW records, records # {}, records \subseteq Written, NEW run,
             NoEarlier(RowsOf(trace, run), records)
      PROVE  NoEarlier(RowsOf(trace', run), records)
  <2>1. \A r \in RowsOf(trace', run) \ RowsOf(trace, run) : \A q \in records : q.at <= r.at
    BY <1>2 DEF RowsOf
  <2> QED BY <1>2, <2>1, FirstStays
<1>3. ReadRows'
  <2>1. ASSUME NEW c \in lists, NEW run \in TracedRuns, RowsOf(c.rows, run) # {}
        PROVE  NoEarlier(RowsOf(trace', run), RowsOf(c.rows, run))
    <3>1. RowsOf(c.rows, run) \subseteq Written BY <1>0 DEF ReadRows, RowsOf
    <3> QED BY <1>0, <1>2, <2>1, <3>1 DEF ReadRows
  <2> QED BY <1>0, <2>1 DEF ReadRows
<1>4. ShownRuns' BY <1>0, <1>2 DEF ShownRuns
<1>5. ScannedAfter' BY <1>0 DEF ScannedAfter
<1>6. ListStep BY <1>0 DEF ListStep, ShownRuns
<1> QED BY <1>1, <1>3, <1>4, <1>5, <1>6 DEF RunsInv

LEMMA RunsInvStep ==
    ASSUME RunsInv, RunsStep \/ UNCHANGED runsVars
    PROVE  RunsInv' /\ ListStep
<1>0. ListNumbers /\ TraceOfRuns /\ ReadRows /\ ShownRuns /\ ScannedAfter /\ IsShown(shown)
  BY DEF RunsInv, ShownRuns
<1>1. ASSUME UNCHANGED <<trace, gone, second, lists, listsMade>>,
             IsShown(shown'), shown'.no = shown.no, shown'.complete = shown.complete,
             shown'.status = shown.status, shown'.records = shown.records
      PROVE  RunsInv' /\ ListStep
  <2>1. TraceOfRuns' /\ Written' = Written BY <1>0, <1>1 DEF TraceOfRuns, Written
  <2> QED BY <1>1, <2>1, RunsStay
<1>2. ASSUME NEW s \in Sessions, NEW i \in DOMAIN Actions, WriteTrace(s, Actions[i])
      PROVE  RunsInv' /\ ListStep
  <2> DEFINE record == [run |-> s.run, session |-> s.no, agent |-> s.agent, action |-> Actions[i],
                        at |-> second]
  <2>1. trace' = trace \cup {record} \/ trace' = trace BY <1>2 DEF WriteTrace
  <2>2. UNCHANGED <<gone, second, lists, listsMade, shown>> BY <1>2 DEF WriteTrace, pageVars
  <2>3. record.run \in TracedRuns /\ record.at = second BY DEF TracedRuns
  <2> HIDE DEF record
  <2>4. \A q \in Written : q.at \in 0..second BY <1>0 DEF TraceOfRuns
  <2>5. TraceOfRuns' /\ Written \subseteq Written'
    BY <1>0, <2>1, <2>2, <2>3 DEF TraceOfRuns, Written
  <2>6. \A r \in trace' \ trace : \A q \in Written : q.at <= r.at BY <2>1, <2>3, <2>4
  <2> QED BY <1>0, <2>2, <2>5, <2>6, RunsStay
<1>3. CASE LoadRuns
  <2> DEFINE new == [no |-> listsMade', since |-> shown.no, left |-> TracedRuns, rows |-> {}]
  <2>1. /\ listsMade' = listsMade + 1 /\ lists' = lists \cup {new}
        /\ UNCHANGED <<trace, gone, second>>
        /\ shown' = [shown EXCEPT !.loading = TRUE]
    BY <1>3 DEF LoadRuns, tableVars
  <2>2. /\ IsShown(shown') /\ shown'.no = shown.no /\ shown'.complete = shown.complete
        /\ shown'.status = shown.status /\ shown'.records = shown.records
    BY <1>0, <2>1 DEF IsShown
  <2>3. /\ IsList(new) /\ new.no = listsMade' /\ new.since = shown.no /\ new.left = TracedRuns
        /\ new.rows = {}
    BY DEF IsList
  <2> HIDE DEF new
  <2>4. listsMade \in Nat /\ shown.no \in 0..listsMade BY <1>0 DEF ListNumbers
  <2>5. ListNumbers'
    <3>1. \A c \in lists : /\ IsList(c) /\ c.no \in 1..listsMade /\ c.since \in 0..listsMade
                           /\ c.no # shown.no
      BY <1>0 DEF ListNumbers
    <3>2. \A c \in lists' : /\ IsList(c) /\ c.no \in 1..listsMade' /\ c.since \in 0..listsMade'
                            /\ c.no # shown'.no
      BY <2>1, <2>2, <2>3, <2>4, <3>1
    <3>3. \A c, d \in lists : (c.no = d.no => c = d) /\ c.since # d.no BY <1>0 DEF ListNumbers
    <3>4. ASSUME NEW c \in lists', NEW d \in lists' PROVE (c.no = d.no => c = d) /\ c.since # d.no
      <4>1. CASE c \in lists /\ d \in lists BY <3>3, <4>1
      <4>2. CASE c = new /\ d \in lists BY <2>1, <2>3, <2>4, <3>1, <4>2
      <4>3. CASE c \in lists /\ d = new BY <2>1, <2>3, <2>4, <3>1, <4>3
      <4>4. CASE c = new /\ d = new BY <2>1, <2>3, <2>4, <4>4
      <4> QED BY <2>1, <4>1, <4>2, <4>3, <4>4
    <3> QED BY <2>1, <2>2, <2>4, <3>2, <3>4 DEF ListNumbers
  <2>6. ShownRuns' BY <1>0, <2>1, <2>2 DEF ShownRuns, Written
  <2>7. ReadRows' /\ TraceOfRuns'
    <3>1. \A run \in TracedRuns : RowsOf(new.rows, run) = {} BY <2>3 DEF RowsOf
    <3> QED BY <1>0, <2>1, <2>3, <3>1 DEF ReadRows, TraceOfRuns, Written
  <2>8. ScannedAfter'
    <3>1. ASSUME shown.complete, NEW run \in DOMAIN shown.status
          PROVE  run \in TracedRuns /\ NoEarlier(RowsOf(new.rows, run), shown.records[run])
      BY <1>0, <2>3, <3>1 DEF ShownRuns, TraceOfRuns, RowsOf, NoEarlier
    <3> QED BY <1>0, <2>1, <2>2, <2>3, <3>1 DEF ScannedAfter
  <2>9. ListStep BY <1>0, <2>1, <2>2 DEF ListStep, ShownRuns
  <2> QED BY <2>5, <2>6, <2>7, <2>8, <2>9 DEF RunsInv
<1>4. ASSUME NEW c \in lists, ScanPage(c) PROVE RunsInv' /\ ListStep
  <2>1. PICK run \in c.left :
            lists' = (lists \ {c}) \cup
                {[c EXCEPT !.left = c.left \ {run}, !.rows = c.rows \cup {r \in trace : r.run = run}]}
    BY <1>4 DEF ScanPage
  <2> DEFINE next == [c EXCEPT !.left = c.left \ {run},
                               !.rows = c.rows \cup {r \in trace : r.run = run}]
  <2>2. UNCHANGED <<trace, gone, second, listsMade, shown>> BY <1>4 DEF ScanPage, tableVars
  <2>3. IsList(c) /\ c.rows \subseteq Written BY <1>0 DEF ListNumbers, ReadRows
  <2>4. /\ IsList(next) /\ next.no = c.no /\ next.since = c.since /\ next.left = c.left \ {run}
        /\ next.rows = c.rows \cup {r \in trace : r.run = run}
    <3> DEFINE left == c.left \ {run}
               rows == c.rows \cup {r \in trace : r.run = run}
               less == [c EXCEPT !.left = left]
    <3>1. next = [less EXCEPT !.rows = rows] OBVIOUS
    <3> HIDE DEF left, rows, next
    <3>2. /\ IsList(less) /\ less.no = c.no /\ less.since = c.since /\ less.left = left
          /\ less.rows = c.rows
      BY <2>3 DEF IsList
    <3> HIDE DEF less
    <3>3. /\ IsList(next) /\ next.no = c.no /\ next.since = c.since /\ next.left = left
          /\ next.rows = rows
      BY <3>1, <3>2 DEF IsList
    <3> QED BY <3>3 DEF left, rows
  <2>5. lists' = (lists \ {c}) \cup {next} BY <2>1
  <2> HIDE DEF next
  <2>6. ListNumbers' BY <1>0, <2>2, <2>4, <2>5 DEF ListNumbers
  <2>7. ReadRows' /\ TraceOfRuns'
    <3>1. ASSUME NEW other \in TracedRuns, RowsOf(next.rows, other) # {}
          PROVE  NoEarlier(RowsOf(trace, other), RowsOf(next.rows, other))
      <4>1. CASE other = run
        <5>1. RowsOf(trace, other) \subseteq RowsOf(next.rows, other)
          BY <2>4, <4>1 DEF RowsOf
        <5>2. \A r \in RowsOf(trace, other) : r.at <= r.at
          BY <1>0 DEF TraceOfRuns, Written, RowsOf
        <5> QED BY <5>1, <5>2 DEF NoEarlier
      <4>2. CASE other # run
        <5>1. RowsOf(next.rows, other) = RowsOf(c.rows, other) BY <2>4, <4>2 DEF RowsOf
        <5> QED BY <1>0, <3>1, <5>1 DEF ReadRows
      <4> QED BY <4>1, <4>2
    <3>2. next.rows \subseteq Written BY <2>3, <2>4 DEF Written
    <3> QED BY <1>0, <2>2, <2>5, <3>1, <3>2 DEF ReadRows, TraceOfRuns, Written
  <2>8. ScannedAfter'
    <3> SUFFICES ASSUME NEW d \in lists', shown.complete, d.since = shown.no,
                        NEW other \in DOMAIN shown.status
                 PROVE  /\ other \in d.left \/ shown.records[other] \subseteq d.rows \cup gone
                        /\ NoEarlier(RowsOf(d.rows, other), shown.records[other])
      BY <2>2 DEF ScannedAfter
    <3>1. CASE d \in lists BY <1>0, <3>1 DEF ScannedAfter
    <3>2. CASE d = next
      <4>1. /\ other \in c.left \/ shown.records[other] \subseteq c.rows \cup gone
            /\ NoEarlier(RowsOf(c.rows, other), shown.records[other])
        BY <1>0, <2>4, <3>2 DEF ScannedAfter
      <4>2. /\ shown.records[other] \subseteq trace \cup gone
            /\ \A r \in shown.records[other] : r.run = other
            /\ NoEarlier(RowsOf(trace, other), shown.records[other])
        BY <1>0 DEF ShownRuns, Written
      <4>3. other \in d.left \/ shown.records[other] \subseteq d.rows \cup gone
        BY <2>4, <3>2, <4>1, <4>2
      <4>4. RowsOf(d.rows, other) \subseteq RowsOf(c.rows, other) \cup RowsOf(trace, other)
        BY <2>4, <3>2 DEF RowsOf
      <4> QED BY <4>1, <4>2, <4>3, <4>4 DEF NoEarlier
    <3> QED BY <2>5, <3>1, <3>2
  <2>9. ShownRuns' /\ ListStep BY <1>0, <2>2 DEF ShownRuns, Written, ListStep
  <2> QED BY <2>6, <2>7, <2>8, <2>9 DEF RunsInv
\* A list is over.
<1>5. ASSUME NEW c \in lists, lists' = lists \ {c}, UNCHANGED <<trace, gone, second, listsMade>>,
             shown'.no = c.no \/ (shown'.no = shown.no /\ shown'.complete = shown.complete
                /\ shown'.status = shown.status /\ shown'.records = shown.records)
      PROVE  ListNumbers' /\ ScannedAfter' /\ TraceOfRuns' /\ ReadRows'
  <2>1. c.no \in 1..listsMade /\ listsMade \in Nat BY <1>0 DEF ListNumbers
  <2>2. \A d \in lists' : d.no # c.no /\ d.since # c.no BY <1>0, <1>5 DEF ListNumbers
  <2>3. ListNumbers'
    <3>1. shown'.no \in 0..listsMade BY <1>0, <1>5, <2>1 DEF ListNumbers
    <3> QED BY <1>0, <1>5, <2>2, <3>1 DEF ListNumbers
  <2>4. ScannedAfter' BY <1>0, <1>5, <2>2 DEF ScannedAfter
  <2> QED BY <1>0, <1>5, <2>3, <2>4 DEF TraceOfRuns, Written, ReadRows
<1>6. ASSUME NEW c \in lists, ListAnswered(c) PROVE RunsInv' /\ ListStep
  <2> DEFINE named == {r.run : r \in c.rows}
  <2>0. PICK listed \in Listing(c.rows) :
            shown' = [no |-> c.no, since |-> c.since, complete |-> c.left = {},
                      error |-> FALSE, loading |-> FALSE,
                      status |-> [run \in listed |-> StatusOf(RowsOf(c.rows, run), second)],
                      records |-> [run \in listed |-> RowsOf(c.rows, run)]]
    BY <1>6 DEF ListAnswered
  <2> DEFINE next == [no |-> c.no, since |-> c.since, complete |-> c.left = {},
                      error |-> FALSE, loading |-> FALSE,
                      status |-> [run \in listed |-> StatusOf(RowsOf(c.rows, run), second)],
                      records |-> [run \in listed |-> RowsOf(c.rows, run)]]
  <2>1. shown' = next /\ lists' = lists \ {c} /\ UNCHANGED <<trace, gone, second, listsMade>>
    BY <1>6, <2>0 DEF ListAnswered, tableVars
  <2>2. /\ IsShown(next) /\ next.no = c.no /\ next.since = c.since /\ (next.complete <=> c.left = {})
        /\ DOMAIN next.status = listed
        /\ \A run \in listed : /\ next.records[run] = RowsOf(c.rows, run)
                               /\ next.status[run] = StatusOf(RowsOf(c.rows, run), second)
    BY DEF IsShown
  <2>3. /\ listed \subseteq named /\ (listed # named => Cardinality(listed) = ListLimit)
        /\ \A a \in listed, b \in named \ listed : NoEarlier(RowsOf(c.rows, a), RowsOf(c.rows, b))
    BY DEF Listing
  <2> HIDE DEF next
  <2>4. ListNumbers' /\ ScannedAfter' /\ TraceOfRuns' /\ ReadRows' BY <1>5, <2>1, <2>2
  <2>5. ShownRuns'
    <3>1. c.rows \subseteq Written BY <1>0 DEF ReadRows
    <3>2. ASSUME NEW run \in listed
          PROVE  /\ next.records[run] # {} /\ next.records[run] \subseteq Written
                 /\ \A r \in next.records[run] : r.run = run
                 /\ next.status[run] = "completed" =>
                        \E r \in next.records[run] : r.action = "stop_session"
                 /\ NoEarlier(RowsOf(trace, run), next.records[run])
      <4>1. /\ RowsOf(c.rows, run) # {} /\ RowsOf(c.rows, run) \subseteq Written
            /\ \A r \in RowsOf(c.rows, run) : r.run = run
        BY <2>3, <3>1 DEF RowsOf
      <4>2. next.status[run] = StatusOf(RowsOf(c.rows, run), second)
            /\ next.records[run] = RowsOf(c.rows, run)
        BY <2>2
      <4>3. run \in TracedRuns BY <1>0, <4>1 DEF TraceOfRuns
      <4>4. NoEarlier(RowsOf(trace, run), RowsOf(c.rows, run)) BY <1>0, <4>1, <4>3 DEF ReadRows
      <4> QED BY <4>1, <4>2, <4>4, CompletedIsStopped
    <3>3. Written' = Written BY <2>1 DEF Written
    <3> QED BY <2>1, <2>2, <3>2, <3>3 DEF ShownRuns
  <2>6. ListStep
    <3> SUFFICES ASSUME shown.complete, next.complete, next.since = shown.no,
                        NEW run \in DOMAIN shown.status \ {r.run : r \in gone}
                 PROVE  IF run \in listed
                        THEN /\ shown.records[run] \subseteq next.records[run]
                             /\ shown.status[run] = "completed" => next.status[run] = "completed"
                        ELSE /\ Cardinality(listed) = ListLimit
                             /\ \A o \in listed : NoEarlier(next.records[o], shown.records[run])
      BY <2>1, <2>2 DEF ListStep
    <3>1. /\ shown.records[run] # {} /\ \A r \in shown.records[run] : r.run = run
          /\ shown.status[run] = "completed" =>
                \E r \in shown.records[run] : r.action = "stop_session"
      BY <1>0 DEF ShownRuns
    <3>2. /\ shown.records[run] \subseteq c.rows \cup gone
          /\ NoEarlier(RowsOf(c.rows, run), shown.records[run])
      BY <1>0, <2>2 DEF ScannedAfter
    <3>3. shown.records[run] \subseteq RowsOf(c.rows, run) /\ run \in named
      BY <3>1, <3>2 DEF RowsOf
    <3>4. CASE run \in listed
      <4>1. next.status[run] = StatusOf(RowsOf(c.rows, run), second)
            /\ next.records[run] = RowsOf(c.rows, run)
        BY <2>2, <3>4
      <4> QED BY <3>1, <3>3, <3>4, <4>1, CompletedIsStopped
    <3>5. CASE run \notin listed
      <4>1. ASSUME NEW o \in listed PROVE NoEarlier(next.records[o], shown.records[run])
        <5>1. NoEarlier(RowsOf(c.rows, o), RowsOf(c.rows, run)) BY <2>3, <3>3, <3>5
        <5>2. \A r \in c.rows : r.at \in Nat BY <1>0 DEF ReadRows, TraceOfRuns
        <5>3. \A r \in shown.records[run] : r.at \in Nat BY <1>0 DEF ShownRuns, TraceOfRuns
        <5>4. next.records[o] = RowsOf(c.rows, o) BY <2>2
        <5>5. \A other : RowsOf(c.rows, other) \subseteq c.rows BY DEF RowsOf
        <5> QED BY <3>2, <5>1, <5>2, <5>3, <5>4, <5>5 DEF NoEarlier
      <4> QED BY <2>3, <3>3, <3>5, <4>1
    <3> QED BY <3>4, <3>5
  <2> QED BY <2>4, <2>5, <2>6 DEF RunsInv
<1>7. ASSUME NEW c \in lists, ListFails(c) PROVE RunsInv' /\ ListStep
  <2>1. lists' = lists \ {c} /\ UNCHANGED <<trace, gone, second, listsMade>>
    BY <1>7 DEF ListFails, tableVars
  <2>2. CASE shown' = NothingListed(c.no, FALSE)
    <3>1. IsShown(shown') /\ shown'.no = c.no /\ ~shown'.complete
      BY <2>2 DEF NothingListed, IsShown
    <3>2. ListNumbers' /\ ScannedAfter' /\ TraceOfRuns' /\ ReadRows' BY <1>5, <2>1, <3>1
    <3>3. ShownRuns' /\ ListStep BY <3>1 DEF ShownRuns, ListStep
    <3> QED BY <3>2, <3>3 DEF RunsInv
  <2>3. CASE shown' = [shown EXCEPT !.error = TRUE, !.loading = FALSE]
    <3>1. /\ IsShown(shown') /\ shown'.no = shown.no /\ shown'.complete = shown.complete
          /\ shown'.status = shown.status /\ shown'.records = shown.records
      BY <1>0, <2>3 DEF IsShown
    <3>2. ListNumbers' /\ ScannedAfter' /\ TraceOfRuns' /\ ReadRows' BY <1>5, <2>1, <3>1
    <3>3. ShownRuns' BY <1>0, <2>1, <3>1 DEF ShownRuns, Written
    <3>4. ListStep BY <1>0, <3>1 DEF ListStep, ShownRuns
    <3> QED BY <3>2, <3>3, <3>4 DEF RunsInv
  <2> QED BY <1>7, <2>2, <2>3 DEF ListFails
<1>8. CASE SecondPasses
  <2>1. second' = second + 1 /\ UNCHANGED <<trace, gone, lists, listsMade, shown>>
    BY <1>8 DEF SecondPasses, pageVars
  <2>2. TraceOfRuns' /\ Written' = Written BY <1>0, <2>1 DEF TraceOfRuns, Written
  <2> QED BY <1>0, <2>1, <2>2, RunsStay
<1>9. ASSUME NEW r \in trace, RecordDeleted(r) PROVE RunsInv' /\ ListStep
  <2>1. /\ trace' = trace \ {r} /\ gone' = gone \cup {r}
        /\ UNCHANGED <<second, lists, listsMade, shown>>
    BY <1>9 DEF RecordDeleted, pageVars
  <2>2. Written' = Written BY <2>1 DEF Written
  <2>3. TraceOfRuns' BY <1>0, <2>1, <2>2 DEF TraceOfRuns
  <2> QED BY <1>0, <2>1, <2>2, <2>3, RunsStay
<1>10. CASE TraceAnswered \/ CloseTrace BY <1>0, <1>1, <1>10 DEF TraceAnswered, CloseTrace, tableVars
<1>11. ASSUME NEW k \in Statuses, Toggle(k) PROVE RunsInv' /\ ListStep
  BY <1>0, <1>1, <1>11 DEF Toggle, tableVars
<1>12. ASSUME NEW run \in TracedRuns, OpenTrace(run) PROVE RunsInv' /\ ListStep
  BY <1>0, <1>1, <1>12 DEF OpenTrace, tableVars
<1>13. CASE UNCHANGED runsVars BY <1>0, <1>1, <1>13 DEF runsVars
<1> QED BY <1>2, <1>3, <1>4, <1>6, <1>7, <1>8, <1>9, <1>10, <1>11, <1>12, <1>13 DEF RunsStep

-----------------------------------------------------------------------------
(* The traversals behind a thread *)

\* The first paths of a traversal, up to m hops.
PathsUpTo(g, x, dir, rels, labels, m, f) ==
    f = [n \in 0..m |-> IF n = 0 THEN {<<x>>} ELSE Longer(g, dir, rels, labels, f[n - 1])]

LEMMA PathsUpToExist ==
    ASSUME NEW g, NEW x, NEW dir, NEW rels, NEW labels
    PROVE  \A m \in Nat : \E f : PathsUpTo(g, x, dir, rels, labels, m, f)
<1> DEFINE Upto(m, f) == PathsUpTo(g, x, dir, rels, labels, m, f)
           More(P) == Longer(g, dir, rels, labels, P)
           T == {m \in Nat : ~ \E f : Upto(m, f)}
<1>0. \A m \in Nat : \A f :
        Upto(m, f) <=> f = [n \in 0..m |-> IF n = 0 THEN {<<x>>} ELSE More(f[n - 1])]
  BY DEF PathsUpTo
<1>1. SUFFICES ASSUME T # {} PROVE FALSE OBVIOUS
<1>2. PICK m \in T : \A k \in T : m <= k
  <2>1. T \subseteq Nat OBVIOUS
  <2> QED BY <1>1, <2>1, LeastNumber
<1>3. m \in Nat /\ \A f : ~Upto(m, f) OBVIOUS
<1>4. m # 0
  <2> DEFINE f == [n \in 0..0 |-> {<<x>>}]
  <2>1. f = [n \in 0..0 |-> IF n = 0 THEN {<<x>>} ELSE More(f[n - 1])] OBVIOUS
  <2> HIDE DEF f, More, Upto
  <2>2. Upto(0, f) BY <1>0, <2>1, ZenonT(30)
  <2> QED BY <1>3, <2>2
<1>5. PICK f : Upto(m - 1, f)
  <2>1. m - 1 \in Nat /\ m - 1 \notin T BY <1>2, <1>3, <1>4
  <2> QED BY <2>1
<1> HIDE DEF Upto, More, T
<1>6. f = [n \in 0..(m - 1) |-> IF n = 0 THEN {<<x>>} ELSE More(f[n - 1])]
  <2>1. m - 1 \in Nat BY <1>3, <1>4
  <2> QED BY <1>0, <1>5, <2>1
<1> DEFINE h == [n \in 0..m |-> IF n = 0 THEN {<<x>>} ELSE More(f[n - 1])]
<1>7. \A n \in 0..(m - 1) : h[n] = f[n]
  <2>1. \A n \in 0..(m - 1) : f[n] = IF n = 0 THEN {<<x>>} ELSE More(f[n - 1]) BY <1>6
  <2>2. \A n \in 0..m : h[n] = IF n = 0 THEN {<<x>>} ELSE More(f[n - 1]) OBVIOUS
  <2>3. \A n \in 0..(m - 1) : n \in 0..m BY <1>3
  <2> HIDE DEF h
  <2> QED BY <2>1, <2>2, <2>3
<1>8. h = [n \in 0..m |-> IF n = 0 THEN {<<x>>} ELSE More(h[n - 1])]
  <2>1. \A n \in 0..m : n # 0 => n - 1 \in 0..(m - 1) BY <1>3
  <2>2. \A n \in 0..m : n # 0 => More(h[n - 1]) = More(f[n - 1]) BY <1>7, <2>1
  <2> QED BY <2>2
<1> HIDE DEF h
<1>9. Upto(m, h) BY <1>0, <1>3, <1>8
<1> QED BY <1>3, <1>9

LEMMA PathsUpToAgree ==
    ASSUME NEW g, NEW x, NEW dir, NEW rels, NEW labels,
           NEW j \in Nat, NEW k \in Nat, NEW f, NEW h,
           PathsUpTo(g, x, dir, rels, labels, j, f), PathsUpTo(g, x, dir, rels, labels, k, h)
    PROVE  \A n \in Nat : n <= j /\ n <= k => f[n] = h[n]
<1> DEFINE More(P) == Longer(g, dir, rels, labels, P)
           T == {n \in Nat : n <= j /\ n <= k /\ f[n] # h[n]}
<1>1. /\ f = [n \in 0..j |-> IF n = 0 THEN {<<x>>} ELSE More(f[n - 1])]
      /\ h = [n \in 0..k |-> IF n = 0 THEN {<<x>>} ELSE More(h[n - 1])]
  BY DEF PathsUpTo
<1> HIDE DEF More
<1>2. /\ \A n \in 0..j : f[n] = IF n = 0 THEN {<<x>>} ELSE More(f[n - 1])
      /\ \A n \in 0..k : h[n] = IF n = 0 THEN {<<x>>} ELSE More(h[n - 1])
  BY <1>1
<1>3. SUFFICES ASSUME T # {} PROVE FALSE OBVIOUS
<1>4. PICK m \in T : \A n \in T : m <= n
  <2>1. T \subseteq Nat OBVIOUS
  <2> QED BY <1>3, <2>1, LeastNumber
<1>5. m \in 0..j /\ m \in 0..k /\ f[m] # h[m] OBVIOUS
<1>6. m # 0 BY <1>2, <1>5
<1>7. m - 1 \in Nat /\ m - 1 \notin T BY <1>4, <1>5, <1>6
<1>8. f[m - 1] = h[m - 1] BY <1>5, <1>7
<1> QED BY <1>2, <1>5, <1>6, <1>8

\* The recursive function of PathEnds is there.
ArePaths(g, x, dir, rels, labels, f) ==
    f = [n \in Nat |-> IF n = 0 THEN {<<x>>} ELSE Longer(g, dir, rels, labels, f[n - 1])]

LEMMA PathsExist ==
    ASSUME NEW g, NEW x, NEW dir, NEW rels, NEW labels
    PROVE  \E f : ArePaths(g, x, dir, rels, labels, f)
<1> DEFINE Upto(m, f) == PathsUpTo(g, x, dir, rels, labels, m, f)
           More(P) == Longer(g, dir, rels, labels, P)
           some(m) == CHOOSE f : Upto(m, f)
           all == [n \in Nat |-> some(n)[n]]
<1>1. \A m \in Nat : Upto(m, some(m)) BY PathsUpToExist
<1>2. ASSUME NEW m \in Nat, NEW n \in 0..m
      PROVE  some(m)[n] = IF n = 0 THEN {<<x>>} ELSE More(some(m)[n - 1])
  <2>1. PICK f : f = some(m) OBVIOUS
  <2>2. Upto(m, f) BY <1>1, <2>1
  <2> HIDE DEF some
  <2>3. f = [i \in 0..m |-> IF i = 0 THEN {<<x>>} ELSE More(f[i - 1])] BY <2>2 DEF PathsUpTo
  <2> HIDE DEF More
  <2>4. f[n] = IF n = 0 THEN {<<x>>} ELSE More(f[n - 1]) BY <2>3
  <2> QED BY <2>1, <2>4
<1> HIDE DEF some, More
<1>3. ASSUME NEW m \in Nat
      PROVE  all[m] = IF m = 0 THEN {<<x>>} ELSE More(all[m - 1])
  <2>1. some(m)[m] = IF m = 0 THEN {<<x>>} ELSE More(some(m)[m - 1]) BY <1>2
  <2>2. CASE m = 0 BY <2>1, <2>2
  <2>3. CASE m # 0
    <3>1. m - 1 \in Nat BY <2>3
    <3>2. Upto(m, some(m)) /\ Upto(m - 1, some(m - 1)) BY <1>1, <3>1
    <3>3. some(m)[m - 1] = some(m - 1)[m - 1]
      <4>1. \A n \in Nat : n <= m /\ n <= m - 1 => some(m)[n] = some(m - 1)[n]
        BY <3>1, <3>2, PathsUpToAgree
      <4> QED BY <3>1, <4>1
    <3> QED BY <2>1, <2>3, <3>1, <3>3
  <2> QED BY <2>2, <2>3
<1>4. all = [n \in Nat |-> IF n = 0 THEN {<<x>>} ELSE More(all[n - 1])] BY <1>3
<1> QED BY <1>4 DEF More, ArePaths
\* The paths of n hops in both directions.
Paths(g, x) == CHOOSE f : ArePaths(g, x, "both", {}, {}, f)

LEMMA PathsAre ==
    ASSUME NEW g, NEW x
    PROVE  /\ Paths(g, x)[0] = {<<x>>}
           /\ Paths(g, x)[1] = Longer(g, "both", {}, {}, Paths(g, x)[0])
           /\ Paths(g, x)[2] = Longer(g, "both", {}, {}, Paths(g, x)[1])
           /\ Paths(g, x)[3] = Longer(g, "both", {}, {}, Paths(g, x)[2])
<1> DEFINE More(P) == Longer(g, "both", {}, {}, P)
           paths == Paths(g, x)
<1>1. paths = [n \in Nat |-> IF n = 0 THEN {<<x>>} ELSE More(paths[n - 1])]
  <2>1. ArePaths(g, x, "both", {}, {}, paths) BY PathsExist DEF Paths
  <2> HIDE DEF paths
  <2> QED BY <2>1 DEF ArePaths
<1> HIDE DEF paths, More
<1>2. \A n \in Nat : paths[n] = IF n = 0 THEN {<<x>>} ELSE More(paths[n - 1]) BY <1>1
<1>3. /\ paths[0] = {<<x>>} /\ paths[1] = More(paths[0]) /\ paths[2] = More(paths[1])
      /\ paths[3] = More(paths[2])
  BY <1>2
<1> QED BY <1>3 DEF paths, More

LEMMA ThreadNodesAre ==
    ASSUME NEW g, NEW sn
    PROVE  ThreadNodes(g, sn) =
            UNION {{Last(p) : p \in Paths(g, Sublot(sn))[n]} : n \in 1..3}
BY DEF ThreadNodes, Walk, PathEnds, Paths, ArePaths, ThreadDepth

\* One more hop: to an end of an edge of the last vertex.
LEMMA LongerIs ==
    ASSUME NEW g, NEW P
    PROVE  Longer(g, "both", {}, {}, P) =
            UNION {{Append(p, y) : y \in Hops(g, Last(p), "both", {}) \ ToSet(p)} : p \in P}
<1>1. \A S : {y \in S : In(Label(y), {})} = S BY DEF In
<1> QED BY <1>1 DEF Longer

LEMMA HopsAre ==
    ASSUME NEW g, NEW x
    PROVE  Hops(g, x, "both", {}) =
            {e.tgt : e \in {f \in g.e : f.src = x}} \cup {e.src : e \in {f \in g.e : f.tgt = x}}
<1>1. {e \in g.e : In(e.rel, {})} = g.e BY DEF In
<1> QED BY <1>1 DEF Hops

LEMMA LongerGrows ==
    ASSUME NEW g, NEW h, g.e \subseteq h.e, NEW P, NEW Q, P \subseteq Q
    PROVE  Longer(g, "both", {}, {}, P) \subseteq Longer(h, "both", {}, {}, Q)
<1>1. \A x : Hops(g, x, "both", {}) \subseteq Hops(h, x, "both", {}) BY HopsAre
<1>2. /\ Longer(g, "both", {}, {}, P) =
            UNION {{Append(p, y) : y \in Hops(g, Last(p), "both", {}) \ ToSet(p)} : p \in P}
      /\ Longer(h, "both", {}, {}, Q) =
            UNION {{Append(p, y) : y \in Hops(h, Last(p), "both", {}) \ ToSet(p)} : p \in Q}
  BY LongerIs
<1> QED BY <1>1, <1>2

\* A thread only grows with the graph.
LEMMA ThreadGrows ==
    ASSUME NEW g, NEW h, g.e \subseteq h.e, NEW sn
    PROVE  ThreadNodes(g, sn) \subseteq ThreadNodes(h, sn)
<1> DEFINE x == Sublot(sn)
<1>1. Paths(g, x)[0] \subseteq Paths(h, x)[0] BY PathsAre
<1>2. Paths(g, x)[1] \subseteq Paths(h, x)[1] BY <1>1, PathsAre, LongerGrows
<1>3. Paths(g, x)[2] \subseteq Paths(h, x)[2] BY <1>2, PathsAre, LongerGrows
<1>4. Paths(g, x)[3] \subseteq Paths(h, x)[3] BY <1>3, PathsAre, LongerGrows
<1> HIDE DEF x
<1>5. \A n \in 1..3 : Paths(g, x)[n] \subseteq Paths(h, x)[n] BY <1>2, <1>3, <1>4
<1> QED BY <1>5, ThreadNodesAre DEF x

\* Every vertex of a thread has an edge to another one or to the serial number.
LEMMA ThreadIsConnected ==
    ASSUME NEW g, NEW sn, NEW y \in ThreadNodes(g, sn)
    PROVE  \E e \in g.e : y \in {e.src, e.tgt} /\ {e.src, e.tgt} \subseteq {Sublot(sn)} \cup ThreadNodes(g, sn)
<1> DEFINE x == Sublot(sn)
           V == {x} \cup UNION {{e.src, e.tgt} : e \in g.e}
           P(n) == Paths(g, x)[n]
<1>1. ASSUME NEW S, S \subseteq Seq(V)
      PROVE  \A p \in Longer(g, "both", {}, {}, S) :
                /\ p \in Seq(V)
                /\ \E q \in S : \E e \in g.e : {e.src, e.tgt} = {Last(q), Last(p)}
  <2> SUFFICES ASSUME NEW p \in Longer(g, "both", {}, {}, S)
               PROVE  p \in Seq(V) /\ \E q \in S : \E e \in g.e : {e.src, e.tgt} = {Last(q), Last(p)}
    OBVIOUS
  <2>0. PICK q \in S : \E z \in Hops(g, Last(q), "both", {}) : p = Append(q, z)
    <3>1. p \in UNION {{Append(q, z) : z \in Hops(g, Last(q), "both", {}) \ ToSet(q)} : q \in S}
      BY LongerIs
    <3> QED BY <3>1
  <2>1. PICK z \in Hops(g, Last(q), "both", {}) : p = Append(q, z) BY <2>0
  <2>2. PICK e \in g.e : {e.src, e.tgt} = {Last(q), z} BY HopsAre
  <2>3. q \in Seq(V) /\ z \in V BY <1>1, <2>2
  <2> HIDE DEF V
  <2>4. p \in Seq(V) /\ Last(p) = z BY <2>1, <2>3 DEF Last
  <2> QED BY <2>2, <2>4
<1>2. P(0) \subseteq Seq(V) /\ \A q \in P(0) : Last(q) = x
  <2>1. x \in V OBVIOUS
  <2> HIDE DEF V, x
  <2>2. <<x>> \in Seq(V) /\ Last(<<x>>) = x BY <2>1 DEF Last
  <2> QED BY <2>2, PathsAre
<1> HIDE DEF V, x
<1>6. ThreadNodes(g, sn) = UNION {{Last(p) : p \in P(n)} : n \in 1..3} BY ThreadNodesAre DEF x
<1>11. /\ P(1) = Longer(g, "both", {}, {}, P(0)) /\ P(2) = Longer(g, "both", {}, {}, P(1))
       /\ P(3) = Longer(g, "both", {}, {}, P(2))
  BY PathsAre
<1> HIDE DEF P
<1>3. \A p \in P(1) : /\ p \in Seq(V)
                      /\ \E q \in P(0) : \E e \in g.e : {e.src, e.tgt} = {Last(q), Last(p)}
  BY <1>1, <1>2, <1>11
<1>12. P(1) \subseteq Seq(V) BY <1>3
<1>4. \A p \in P(2) : /\ p \in Seq(V)
                      /\ \E q \in P(1) : \E e \in g.e : {e.src, e.tgt} = {Last(q), Last(p)}
  BY <1>1, <1>12, <1>11
<1>13. P(2) \subseteq Seq(V) BY <1>4
<1>5. \A p \in P(3) : /\ p \in Seq(V)
                      /\ \E q \in P(2) : \E e \in g.e : {e.src, e.tgt} = {Last(q), Last(p)}
  BY <1>1, <1>13, <1>11
<1>7. \A n \in 1..3 : \A p \in P(n) : Last(p) \in ThreadNodes(g, sn) BY <1>6
<1>10. PICK n \in 1..3 : \E p \in P(n) : y = Last(p) BY <1>6
<1>8. PICK p \in P(n) : y = Last(p) BY <1>10
<1>9. \E q : \E e \in g.e : /\ Last(q) \in {x} \cup ThreadNodes(g, sn)
                            /\ {e.src, e.tgt} = {Last(q), y}
  <2>1. CASE n = 1
    <3>1. PICK q \in P(0) : \E e \in g.e : {e.src, e.tgt} = {Last(q), y} BY <1>3, <1>8, <2>1
    <3> QED BY <1>2, <3>1
  <2>2. CASE n = 2
    <3>1. PICK q \in P(1) : \E e \in g.e : {e.src, e.tgt} = {Last(q), y} BY <1>4, <1>8, <2>2
    <3> QED BY <1>7, <3>1
  <2>3. CASE n = 3
    <3>1. PICK q \in P(2) : \E e \in g.e : {e.src, e.tgt} = {Last(q), y} BY <1>5, <1>8, <2>3
    <3> QED BY <1>7, <3>1
  <2> QED BY <2>1, <2>2, <2>3
<1> QED BY <1>9 DEF x

-----------------------------------------------------------------------------
(* How far away a vertex is *)

\* From x to y in n hops in any direction, some of them perhaps on the spot.
Near(g, x, n, y) ==
    \E p : /\ p[0] = x /\ p[n] = y
           /\ \A i \in 1..n : p[i] = p[i - 1] \/ p[i] \in Hops(g, p[i - 1], "both", {})

LEMMA NearGrows ==
    ASSUME NEW g, NEW h, g.e \subseteq h.e, NEW x, NEW n, NEW y, Near(g, x, n, y)
    PROVE  Near(h, x, n, y)
<1>1. \A z : Hops(g, z, "both", {}) \subseteq Hops(h, z, "both", {}) BY HopsAre
<1> QED BY <1>1 DEF Near

LEMMA NearAtHome ==
    ASSUME NEW g, NEW x, NEW n \in Nat
    PROVE  Near(g, x, n, x)
<1> DEFINE p == [i \in 0..n |-> x]
<1>1. \A i \in 0..n : p[i] = x OBVIOUS
<1>2. 0 \in 0..n /\ n \in 0..n /\ \A i \in 1..n : i \in 0..n /\ i - 1 \in 0..n OBVIOUS
<1> HIDE DEF p
<1>3. p[0] = x /\ p[n] = x /\ \A i \in 1..n : p[i] = p[i - 1] BY <1>1, <1>2
<1> QED BY <1>3 DEF Near

\* One way after the other.
LEMMA NearOnward ==
    ASSUME NEW g, NEW x, NEW z, NEW y, NEW n \in Nat, NEW m \in Nat, NEW k, k = n + m,
           Near(g, x, n, z), Near(g, z, m, y)
    PROVE  Near(g, x, k, y)
<1> DEFINE Step(a, b) == b = a \/ b \in Hops(g, a, "both", {})
<1>1. PICK p : p[0] = x /\ p[n] = z /\ \A i \in 1..n : Step(p[i - 1], p[i]) BY DEF Near
<1>2. PICK q : q[0] = z /\ q[m] = y /\ \A i \in 1..m : Step(q[i - 1], q[i]) BY DEF Near
<1> DEFINE r == [i \in 0..k |-> IF i <= n THEN p[i] ELSE q[i - n]]
<1>3. \A i \in 0..k : r[i] = IF i <= n THEN p[i] ELSE q[i - n] OBVIOUS
<1> HIDE DEF r, Step
<1>4. r[0] = x BY <1>1, <1>3
<1>5. r[k] = y
  <2>1. k \in 0..k OBVIOUS
  <2>2. CASE m = 0 BY <1>1, <1>2, <1>3, <2>1, <2>2
  <2>3. CASE m # 0
    <3>1. ~(k <= n) /\ k - n = m BY <2>3
    <3> QED BY <1>2, <1>3, <2>1, <3>1
  <2> QED BY <2>2, <2>3
<1>6. ASSUME NEW i \in 1..k PROVE Step(r[i - 1], r[i])
  <2>1. i \in 0..k /\ i - 1 \in 0..k OBVIOUS
  <2>2. CASE i <= n
    <3>1. i \in 1..n /\ i - 1 <= n BY <2>2
    <3> QED BY <1>1, <1>3, <2>1, <3>1
  <2>3. CASE ~(i <= n)
    <3>1. PICK j \in 1..m : j = i - n BY <2>3
    <3>2. r[i] = q[j] BY <1>3, <2>1, <2>3, <3>1
    <3>3. r[i - 1] = q[j - 1]
      <4>1. CASE j = 1
        <5>1. i - 1 = n /\ n <= n /\ j - 1 = 0 BY <3>1, <4>1
        <5>2. r[n] = p[n] BY <1>3, <2>1, <5>1
        <5> QED BY <1>1, <1>2, <5>1, <5>2
      <4>2. CASE j # 1
        <5>1. ~(i - 1 <= n) /\ (i - 1) - n = j - 1 BY <3>1, <4>2
        <5> QED BY <1>3, <2>1, <5>1
      <4> QED BY <4>1, <4>2
    <3> QED BY <1>2, <3>2, <3>3
  <2> QED BY <2>2, <2>3
<1> QED BY <1>4, <1>5, <1>6 DEF Near, Step

LEMMA HopsAreNear ==
    ASSUME NEW g, NEW x, NEW dir, NEW rels, NEW y \in Hops(g, x, dir, rels)
    PROVE  Near(g, x, 1, y)
<1>0. PICK e \in g.e : (e.src = x /\ y = e.tgt) \/ (e.tgt = x /\ y = e.src) BY DEF Hops
<1>1. y \in Hops(g, x, "both", {}) BY <1>0, HopsAre
<1> DEFINE p == [i \in 0..1 |-> IF i = 0 THEN x ELSE y]
<1>2. p[0] = x /\ p[1] = y /\ \A i \in 1..1 : i = 1 /\ i - 1 = 0 OBVIOUS
<1> HIDE DEF p
<1> QED BY <1>1, <1>2 DEF Near

\* The vertices of the edges, and x.
VerticesAnd(g, x) == {x} \cup {e.src : e \in g.e} \cup {e.tgt : e \in g.e}

\* The function of PathEnds, hop by hop.
LEMMA PathsHopByHop ==
    ASSUME NEW g, NEW x, NEW dir, NEW rels, NEW labels, NEW f, ArePaths(g, x, dir, rels, labels, f)
    PROVE  /\ f[0] = {<<x>>}
           /\ \A m \in Nat : m # 0 => f[m] = Longer(g, dir, rels, labels, f[m - 1])
<1> DEFINE More(P) == Longer(g, dir, rels, labels, P)
<1>1. f = [m \in Nat |-> IF m = 0 THEN {<<x>>} ELSE More(f[m - 1])] BY DEF ArePaths
<1> HIDE DEF More
<1>2. \A m \in Nat : f[m] = IF m = 0 THEN {<<x>>} ELSE More(f[m - 1]) BY <1>1
<1> QED BY <1>2 DEF More

LEMMA FirstPath ==
    ASSUME NEW V, NEW x \in V, NEW s, s = <<x>>
    PROVE  s \in Seq(V) /\ Last(s) = x /\ ToSet(s) = {x}
<1>2. s \in Seq(V) /\ Len(s) = 1 /\ s[1] = x /\ DOMAIN s = 1..1 OBVIOUS
<1>3. Last(s) = x BY <1>2 DEF Last
<1>4. ToSet(s) = {x} BY <1>2 DEF ToSet
<1> QED BY <1>2, <1>3, <1>4

\* A path that goes on to y.
GoesOn(V, s, y, t) ==
    /\ t \in Seq(V) /\ Last(t) = y
    /\ \A z \in ToSet(t) : z \in ToSet(s) \/ z = y

LEMMA PathAndHop ==
    ASSUME NEW V, NEW s \in Seq(V), NEW y \in V
    PROVE  GoesOn(V, s, y, Append(s, y))
<1>0. PICK t : t = Append(s, y) OBVIOUS
<1>1. PICK n \in Nat : n = Len(s) OBVIOUS
<1>2. PICK m \in Nat : m = n + 1 OBVIOUS
<1>3. t \in Seq(V) /\ Len(t) = m /\ t[m] = y /\ \A i \in 1..n : t[i] = s[i]
  BY <1>0, <1>1, <1>2
<1>4. DOMAIN t = 1..m /\ DOMAIN s = 1..n /\ \A i \in 1..m : i \in 1..n \/ i = m BY <1>1, <1>2, <1>3
<1>5. 1..n \subseteq 1..m /\ m \in 1..m BY <1>2
<1>6. Last(t) = y BY <1>3 DEF Last
<1>7. \A z \in ToSet(t) : z \in ToSet(s) \/ z = y BY <1>3, <1>4, <1>5 DEF ToSet
<1> QED BY <1>0, <1>3, <1>6, <1>7 DEF GoesOn

\* What a traversal finds is as near as it is deep, whatever it follows.
LEMMA WalkIsNear ==
    ASSUME NEW g, NEW x, NEW dir, NEW rels, NEW labels, NEW n \in Nat,
           NEW y \in Walk(g, x, dir, rels, labels, n)
    PROVE  Near(g, x, n, y)
<1> DEFINE f == CHOOSE h : ArePaths(g, x, dir, rels, labels, h)
<1>1. ArePaths(g, x, dir, rels, labels, f) BY PathsExist
<1>2. Walk(g, x, dir, rels, labels, n) = UNION {{Last(p) : p \in f[m]} : m \in 1..n}
  BY DEF Walk, PathEnds, ArePaths
<1> HIDE DEF f
<1> DEFINE V == VerticesAnd(g, x)
           G == {m \in 0..n : \A p \in f[m] : p \in Seq(V) /\ Near(g, x, m, Last(p))}
<1>3. 0 \in G
  <2>1. x \in V BY DEF VerticesAnd
  <2>2. Near(g, x, 0, x) BY NearAtHome
  <2> HIDE DEF V
  <2>3. \A p \in f[0] : p = <<x>> BY <1>1, PathsHopByHop
  <2>4. \A p \in f[0] : p \in Seq(V) /\ Last(p) = x BY <2>1, <2>3, FirstPath
  <2> QED BY <2>2, <2>4
<1>4. ASSUME NEW k \in 0..n, k < n, k \in G PROVE k + 1 \in G
  <2>1. PICK m : m = k + 1 OBVIOUS
  <2>2. k \in Nat /\ m \in Nat /\ m \in 0..n /\ m # 0 /\ m - 1 = k BY <1>4, <2>1
  <2>3. f[m] = Longer(g, dir, rels, labels, f[k])
    <3>1. f[m] = Longer(g, dir, rels, labels, f[m - 1]) BY <1>1, <2>2, PathsHopByHop
    <3> QED BY <2>2, <3>1
  <2>4. ASSUME NEW p \in f[m] PROVE p \in Seq(V) /\ Near(g, x, m, Last(p))
    <3>1. PICK q \in f[k] : \E z \in Hops(g, Last(q), dir, rels) : p = Append(q, z)
      BY <2>3 DEF Longer
    <3>2. PICK z \in Hops(g, Last(q), dir, rels) : p = Append(q, z) BY <3>1
    <3>3. z \in V BY DEF Hops, VerticesAnd
    <3>4. q \in Seq(V) /\ Near(g, x, k, Last(q)) BY <1>4
    <3>5. Near(g, Last(q), 1, z) BY HopsAreNear
    <3>6. Near(g, x, m, z)
      <4>1. PICK one \in Nat : one = 1 OBVIOUS
      <4>2. Near(g, Last(q), one, z) BY <3>5, <4>1
      <4> QED BY <2>1, <2>2, <3>4, <4>1, <4>2, NearOnward
    <3> HIDE DEF V
    <3>7. p \in Seq(V) /\ Last(p) = z
      <4>1. GoesOn(V, q, z, Append(q, z)) BY <3>3, <3>4, PathAndHop
      <4> QED BY <3>2, <4>1 DEF GoesOn
    <3> QED BY <3>6, <3>7
  <2> QED BY <2>1, <2>2, <2>4
<1>5. \A m \in 0..n : m \in G
  <2> HIDE DEF G
  <2> QED BY <1>3, <1>4, StepByStep
<1>6. PICK m \in 1..n : \E p \in f[m] : y = Last(p) BY <1>2
<1>7. m \in Nat /\ Near(g, x, m, y) BY <1>5, <1>6
<1>8. PICK k \in Nat : k = n - m OBVIOUS
<1>9. n = m + k BY <1>8
<1>10. Near(g, y, k, y) BY NearAtHome
<1> QED BY <1>7, <1>9, <1>10, NearOnward

\* And a traversal of any edges finds everything that is near: a way that
\* comes back to a vertex has a shorter one, and none is left out.
LEMMA NearIsWalked ==
    ASSUME NEW g, NEW x, NEW n \in Nat, NEW y, Near(g, x, n, y)
    PROVE  y \in {x} \cup Walk(g, x, "both", {}, {}, n)
<1> DEFINE f == CHOOSE h : ArePaths(g, x, "both", {}, {}, h)
<1>1. ArePaths(g, x, "both", {}, {}, f) BY PathsExist
<1>2. Walk(g, x, "both", {}, {}, n) = UNION {{Last(r) : r \in f[m]} : m \in 1..n}
  BY DEF Walk, PathEnds, ArePaths
<1> HIDE DEF f
<1>3. PICK p : /\ p[0] = x /\ p[n] = y
               /\ \A i \in 1..n : p[i] = p[i - 1] \/ p[i] \in Hops(g, p[i - 1], "both", {})
  BY DEF Near
<1> DEFINE V == VerticesAnd(g, x)
           Found(i) == \E j \in 0..i : \E r \in f[j] :
                          /\ r \in Seq(V) /\ Last(r) = p[i]
                          /\ \A z \in ToSet(r) : \E t \in 0..i : z = p[t]
           G == {k \in 0..n : \A i \in 0..k : Found(i)}
<1>4. 0 \in G
  <2>1. x \in V BY DEF VerticesAnd
  <2> HIDE DEF V
  <2>2. PICK r : r = <<x>> OBVIOUS
  <2>3. r \in f[0] BY <1>1, <2>2, PathsHopByHop
  <2>4. r \in Seq(V) /\ Last(r) = p[0] /\ \A z \in ToSet(r) : z = p[0]
    BY <1>3, <2>1, <2>2, FirstPath
  <2>5. 0 \in 0..0 /\ 0 \in 0..n /\ \A i \in 0..0 : i = 0 OBVIOUS
  <2>6. Found(0) BY <2>3, <2>4, <2>5
  <2> HIDE DEF Found
  <2> QED BY <2>5, <2>6
<1>5. ASSUME NEW k \in 0..n, k < n, k \in G PROVE k + 1 \in G
  <2>1. PICK m : m = k + 1 OBVIOUS
  <2>2. /\ k \in Nat /\ m \in Nat /\ m \in 0..n /\ m \in 1..n /\ m - 1 = k /\ k \in 0..k
        /\ \A i \in 0..m : i \in 0..k \/ i = m
        /\ \A i \in 0..k : i \in 0..m
    BY <1>5, <2>1
  <2>3. \A i \in 0..k : Found(i) BY <1>5
  <2>4. p[m] = p[k] \/ p[m] \in Hops(g, p[k], "both", {}) BY <1>3, <2>2
  <2>5. ASSUME NEW i \in 0..k, p[m] = p[i] PROVE Found(m)
    <3>1. PICK j \in 0..i : \E r \in f[j] :
            /\ r \in Seq(V) /\ Last(r) = p[i]
            /\ \A z \in ToSet(r) : \E t \in 0..i : z = p[t]
      BY <2>3
    <3>2. j \in 0..m /\ \A t \in 0..i : t \in 0..m BY <2>2
    <3> QED BY <2>5, <3>1, <3>2
  <2>6. ASSUME \A i \in 0..k : p[m] # p[i] PROVE Found(m)
    <3>1. PICK j \in 0..k : \E r \in f[j] :
            /\ r \in Seq(V) /\ Last(r) = p[k]
            /\ \A z \in ToSet(r) : \E t \in 0..k : z = p[t]
      BY <2>2, <2>3
    <3>2. PICK r \in f[j] : /\ r \in Seq(V) /\ Last(r) = p[k]
                            /\ \A z \in ToSet(r) : \E t \in 0..k : z = p[t]
      BY <3>1
    <3>3. p[m] \in Hops(g, p[k], "both", {}) BY <2>2, <2>4, <2>6
    <3>4. p[m] \in V BY <3>3 DEF Hops, VerticesAnd
    <3>5. p[m] \notin ToSet(r) BY <2>6, <3>2
    <3>6. PICK s : s = Append(r, p[m]) OBVIOUS
    <3> HIDE DEF V
    <3>7. s \in Seq(V) /\ Last(s) = p[m] /\ \A z \in ToSet(s) : z \in ToSet(r) \/ z = p[m]
      <4>1. GoesOn(V, r, p[m], Append(r, p[m])) BY <3>2, <3>4, PathAndHop
      <4> QED BY <3>6, <4>1 DEF GoesOn
    <3>8. PICK l \in Nat : l = j + 1 OBVIOUS
    <3>9. l \in 0..m /\ l # 0 /\ l - 1 = j BY <2>1, <3>8
    <3>10. s \in f[l]
      <4>1. f[l] = Longer(g, "both", {}, {}, f[j]) BY <1>1, <3>9, PathsHopByHop
      <4>2. f[l] = UNION {{Append(q, z) : z \in Hops(g, Last(q), "both", {}) \ ToSet(q)} : q \in f[j]}
        BY <4>1, LongerIs
      <4>3. p[m] \in Hops(g, Last(r), "both", {}) \ ToSet(r) BY <3>2, <3>3, <3>5
      <4> QED BY <3>6, <4>2, <4>3
    <3>11. m \in 0..m BY <2>2
    <3>12. \A z \in ToSet(s) : \E t \in 0..m : z = p[t] BY <2>2, <3>2, <3>7, <3>11
    <3> QED BY <3>7, <3>9, <3>10, <3>12
  <2>7. Found(m) BY <2>5, <2>6
  <2> HIDE DEF Found
  <2> QED BY <2>1, <2>2, <2>3, <2>7
<1>6. Found(n)
  <2> HIDE DEF Found
  <2>1. n \in 0..n OBVIOUS
  <2>2. n \in G
    <3> HIDE DEF G
    <3> QED BY <1>4, <1>5, <2>1, StepByStep
  <2> QED BY <2>1, <2>2
<1>7. PICK j \in 0..n : \E r \in f[j] : Last(r) = y BY <1>3, <1>6
<1>8. CASE j = 0
  <2>1. x \in V BY DEF VerticesAnd
  <2>2. y = x BY <1>1, <1>7, <1>8, <2>1, PathsHopByHop, FirstPath
  <2> QED BY <2>2
<1>9. CASE j # 0
  <2>1. j \in 1..n BY <1>9
  <2> QED BY <1>2, <1>7, <2>1
<1> QED BY <1>8, <1>9

-----------------------------------------------------------------------------
(* The graph that is drawn *)

LEMMA SublotId == ASSUME NEW sn PROVE Id(Sublot(sn)) = sn
BY DEF Id, Sublot

\* What the page draws of an answer: the serial number, nothing that is not
\* in the answer, and every edge of the answer between what it has asked for.
LEMMA GraphOfAnswer ==
    ASSUME NEW told, NEW kept \in FirstOfEachId(told), NEW raisedBy
    PROVE  LET g == MapNodesToGraph(told, kept, raisedBy)
               known == {told.serial} \cup Ids(told.nodes)
           IN  /\ told.serial \in Ids(g.nodes)
               /\ Ids(g.nodes) \subseteq known \cup Ids(Assessed(told))
               /\ \A e \in told.edges : {e.source, e.target} \subseteq known =>
                    {e.source, e.target} \subseteq Ids(g.nodes) /\ e \in g.edges
<1> DEFINE known == {told.serial} \cup Ids(told.nodes)
           nodes == kept \cup Assessed(told)
           among == {e \in told.edges : {e.source, e.target} \subseteq Ids(nodes)}
           links == LinksToNcr(told.gaps, kept, raisedBy, "CAUSED_BY")
                      \cup LinksToNcr(told.verdicts, kept, raisedBy, "ASSESSES")
           edges == among \cup links
           g == MapNodesToGraph(told, kept, raisedBy)
<1>1. g.nodes = {n \in nodes : Id(n) \in Connected(edges, told.serial)} /\ g.edges = edges
  <2>1. g = [nodes |-> {n \in nodes : Id(n) \in Connected(edges, told.serial)}, edges |-> edges]
    <3>1. edges = among \cup LinksToNcr(told.gaps, kept, raisedBy, "CAUSED_BY")
                    \cup LinksToNcr(told.verdicts, kept, raisedBy, "ASSESSES")
      OBVIOUS
    <3> QED BY <3>1 DEF MapNodesToGraph
  <2> HIDE DEF nodes, edges, g
  <2> QED BY <2>1
<1>2. Ids(kept) = known
  <2> DEFINE rest == {x \in told.nodes : Id(x) # told.serial}
  <2>1. PICK T \in SUBSET rest : kept = {Sublot(told.serial)} \cup T /\ Ids(T) = Ids(rest)
    BY DEF FirstOfEachId
  <2>2. Ids(kept) = {told.serial} \cup Ids(T) BY <2>1, SublotId DEF Ids
  <2>3. {told.serial} \cup Ids(rest) = known BY DEF Ids
  <2> QED BY <2>1, <2>2, <2>3
<1>3. Ids(nodes) = known \cup Ids(Assessed(told))
  <2>1. Ids(nodes) = Ids(kept) \cup Ids(Assessed(told)) BY DEF Ids
  <2> QED BY <1>2, <2>1
<1>6. \A e \in edges : {e.source, e.target} \subseteq Connected(edges, told.serial)
  BY DEF Connected
<1>7. among \subseteq edges OBVIOUS
<1> HIDE DEF edges, g
<1>8. ASSUME NEW i \in Ids(nodes), i \in Connected(edges, told.serial)
      PROVE  i \in Ids(g.nodes)
  BY <1>1, <1>8 DEF Ids
<1>9. told.serial \in Ids(g.nodes)
  <2>1. told.serial \in Connected(edges, told.serial) BY DEF Connected
  <2>2. told.serial \in Ids(nodes)
    <3> HIDE DEF nodes
    <3> QED BY <1>3
  <2> QED BY <1>8, <2>1, <2>2
<1>10. Ids(g.nodes) \subseteq Ids(nodes) BY <1>1 DEF Ids
<1>11. ASSUME NEW e \in told.edges, {e.source, e.target} \subseteq known
       PROVE  {e.source, e.target} \subseteq Ids(g.nodes) /\ e \in g.edges
  <2>1. {e.source, e.target} \subseteq Ids(nodes) BY <1>3, <1>11
  <2>2. e \in edges BY <1>7, <1>11, <2>1
  <2> QED BY <1>1, <1>6, <1>8, <2>1, <2>2
<1> HIDE DEF nodes, known
<1>12. /\ told.serial \in Ids(g.nodes) /\ Ids(g.nodes) \subseteq known \cup Ids(Assessed(told))
       /\ \A e \in told.edges : {e.source, e.target} \subseteq known =>
            {e.source, e.target} \subseteq Ids(g.nodes) /\ e \in g.edges
  BY <1>3, <1>9, <1>10, <1>11
<1> QED BY <1>12 DEF g, known

-----------------------------------------------------------------------------
(* The writers *)

\* A graph, the facts the slow consumer wrote to it, and when it writes.
IsGraph(g) == g = [v |-> g.v, e |-> g.e, facts |-> g.facts]
Wrote(g, S) == \A n \in S : Fact(n, NcrSerial, NcrEvent) \in g.facts
Writing == {"verdict", "gaps", "asBuilt", "mark"}

\* What the slow consumer is past it has written, and with it everything
\* that a mark stands for.
WriterInv ==
    /\ IsGraph(kg)
    /\ slow = [pc |-> slow.pc, gaps |-> slow.gaps, faults |-> slow.faults]
    /\ slow.pc \in SlowIdle \cup Writing \cup {"commit"}
    /\ slow.gaps \subseteq {Gap}
    /\ slow.pc \in Writing => marked = {}
    /\ slow.pc \in {"gaps", "asBuilt", "mark"} => Wrote(kg, {Verdict})
    /\ slow.pc \in {"asBuilt", "mark"} => Wrote(kg, slow.gaps)
    /\ slow.pc = "mark" => Wrote(kg, {AsBuilt})
    /\ \A gaps \in marked : gaps \subseteq {Gap} /\ Wrote(kg, {Verdict, AsBuilt}) /\ Wrote(kg, gaps)

\* Nothing that is read of a graph is ever taken back.
GraphGrows == kg.e \subseteq kg'.e /\ kg.facts \subseteq kg'.facts /\ marked \subseteq marked'

LEMMA WritersStart ==
    ASSUME ThreadInit \/ ThreadIdle
    PROVE  WriterInv
<1>1. slow = [pc |-> "away", gaps |-> {}, faults |-> 0] /\ marked = {}
  BY DEF ThreadInit, ThreadIdle, NothingRead
<1>2. IsGraph(kg)
  <2>1. CASE ThreadIdle BY <2>1 DEF ThreadIdle, IsGraph
  <2>2. CASE ThreadInit BY <2>2, ThreadAssumption DEF ThreadInit, IsGraph
  <2> QED BY <2>1, <2>2
<1>3. /\ slow = [pc |-> slow.pc, gaps |-> slow.gaps, faults |-> slow.faults]
      /\ slow.pc = "away" /\ slow.gaps = {}
  BY <1>1
<1> QED BY <1>1, <1>2, <1>3 DEF WriterInv, SlowIdle, Writing

LEMMA ApplyGrows ==
    ASSUME NEW g, IsGraph(g), NEW s
    PROVE  IsGraph(Apply(g, s)) /\ g.e \subseteq Apply(g, s).e /\ g.facts \subseteq Apply(g, s).facts
<1>1. CASE s.op = "upsert_edge"
  <2> DEFINE e == g.e \cup {e \in {[src |-> s.src, rel |-> s.rel, tgt |-> s.tgt]} :
                                   {s.src, s.tgt} \subseteq g.v}
  <2>1. Apply(g, s) = [g EXCEPT !.e = e] BY <1>1 DEF Apply
  <2>2. g.e \subseteq e OBVIOUS
  <2> HIDE DEF e
  <2> QED BY <2>1, <2>2 DEF IsGraph
<1>2. CASE s.op # "upsert_edge"
  <2> DEFINE v == g.v \cup {s.src}
             facts == g.facts \cup {f \in {Fact(s.src, NcrSerial, NcrEvent)} :
                                       s.sets /\ Label(s.src) = "OperationsPerformance"}
  <2>1. Apply(g, s) = [g EXCEPT !.v = v, !.facts = facts] BY <1>2 DEF Apply
  <2>2. g.facts \subseteq facts OBVIOUS
  <2> HIDE DEF v, facts
  <2> QED BY <2>1, <2>2 DEF IsGraph
<1> QED BY <1>1, <1>2

\* The order of the calls of write_verdict.
LEMMA NextCall ==
    ASSUME NEW i \in 1..5
    PROVE  (CHOOSE j \in DOMAIN WriteVerdictOrder : WriteVerdictOrder[j] = WriteVerdictOrder[i]) = i
<1>1. /\ DOMAIN WriteVerdictOrder = 1..5
      /\ \A j, k \in 1..5 : WriteVerdictOrder[j] = WriteVerdictOrder[k] => j = k
  BY DEF WriteVerdictOrder
<1>2. \A j \in 1..5 : WriteVerdictOrder[j] = WriteVerdictOrder[i] => j = i BY <1>1
<1> QED BY <1>1, <1>2

LEMMA WritersStep ==
    ASSUME WriterInv, ThreadWriters
    PROVE  WriterInv' /\ GraphGrows /\ UNCHANGED <<load, thread, found>>
<1>0. /\ IsGraph(kg) /\ slow = [pc |-> slow.pc, gaps |-> slow.gaps, faults |-> slow.faults]
      /\ slow.pc \in SlowIdle \cup Writing \cup {"commit"} /\ slow.gaps \subseteq {Gap}
  BY DEF WriterInv
<1> USE DEF loadVars
<1>1. ASSUME NEW t \in DOMAIN todo, WriteNext(t)
      PROVE  WriterInv' /\ GraphGrows /\ UNCHANGED <<load, thread, found>>
  <2>1. kg' = Apply(kg, Head(todo[t])) /\ UNCHANGED <<slow, marked, load, thread, found>>
    BY <1>1 DEF WriteNext
  <2>2. IsGraph(kg') /\ kg.e \subseteq kg'.e /\ kg.facts \subseteq kg'.facts
    BY <1>0, <2>1, ApplyGrows
  <2>3. \A S : Wrote(kg, S) => Wrote(kg', S) BY <2>2 DEF Wrote
  <2>4. WriterInv' BY <2>1, <2>2, <2>3 DEF WriterInv
  <2> QED BY <2>1, <2>2, <2>4 DEF GraphGrows
<1>2. CASE Assess
  <2>1. UNCHANGED <<kg, marked, load, thread, found>> BY <1>2 DEF Assess
  <2>2. /\ slow' = [pc |-> slow'.pc, gaps |-> slow'.gaps, faults |-> slow'.faults]
        /\ \/ slow'.pc = "commit" /\ slow'.gaps = slow.gaps
           \/ slow'.pc = "verdict" /\ slow'.gaps \subseteq {Gap} /\ marked = {}
    <3>1. CASE slow' = [slow EXCEPT !.pc = "commit"] BY <1>0, <3>1
    <3>2. ASSUME marked = {}, NEW gaps \in SUBSET {Gap},
                 slow' = [slow EXCEPT !.pc = WriteVerdictOrder[1], !.gaps = gaps]
          PROVE  /\ slow' = [pc |-> slow'.pc, gaps |-> slow'.gaps, faults |-> slow'.faults]
                 /\ slow'.pc = "verdict" /\ slow'.gaps \subseteq {Gap} /\ marked = {}
      <4>1. WriteVerdictOrder[1] = "verdict" BY DEF WriteVerdictOrder
      <4>2. slow' = [slow EXCEPT !.pc = "verdict", !.gaps = gaps] BY <3>2, <4>1
      <4> QED BY <1>0, <3>2, <4>2
    <3> QED BY <1>2, <3>1, <3>2 DEF Assess
  <2>3. WriterInv' BY <1>0, <2>1, <2>2 DEF WriterInv, Writing, SlowIdle
  <2> QED BY <2>1, <2>3 DEF GraphGrows
<1>3. CASE SlowStep
  <2> DEFINE i == CHOOSE j \in DOMAIN WriteVerdictOrder : WriteVerdictOrder[j] = slow.pc
             pc1 == IF i = Len(WriteVerdictOrder) THEN "done" ELSE WriteVerdictOrder[i + 1]
             v == kg.v \cup SlowNodes(slow.pc)
             facts == kg.facts \cup {Fact(n, NcrSerial, NcrEvent) : n \in SlowNodes(slow.pc)}
  <2>1. /\ slow' = [slow EXCEPT !.pc = pc1] /\ kg' = [kg EXCEPT !.v = v, !.facts = facts]
        /\ marked' = IF slow.pc = "mark" THEN {slow.gaps} ELSE marked
        /\ UNCHANGED <<load, thread, found>>
    BY <1>3 DEF SlowStep
  <2>2. slow.pc \in Writing \cup {"commit"} BY <1>0, <1>3 DEF SlowStep
  <2>3. PICK n \in 1..5 : slow.pc = WriteVerdictOrder[n]
    BY <2>2 DEF Writing, WriteVerdictOrder
  <2>4. i = n BY <2>3, NextCall
  <2> HIDE DEF i
  <2>5. pc1 = IF slow.pc = "verdict" THEN "gaps" ELSE IF slow.pc = "gaps" THEN "asBuilt"
             ELSE IF slow.pc = "asBuilt" THEN "mark" ELSE IF slow.pc = "mark" THEN "commit"
             ELSE "done"
    BY <2>3, <2>4 DEF WriteVerdictOrder
  <2>6. SlowNodes(slow.pc) = IF slow.pc = "verdict" THEN {Verdict} ELSE IF slow.pc = "gaps" THEN slow.gaps
             ELSE IF slow.pc = "asBuilt" THEN {AsBuilt} ELSE {}
    BY <2>2 DEF SlowNodes, Writing
  <2>7. kg.facts \subseteq facts /\ \A m \in SlowNodes(slow.pc) : Fact(m, NcrSerial, NcrEvent) \in facts
    OBVIOUS
  <2> HIDE DEF pc1, v, facts
  <2>8. /\ slow' = [pc |-> slow'.pc, gaps |-> slow'.gaps, faults |-> slow'.faults]
        /\ slow'.pc = pc1 /\ slow'.gaps = slow.gaps
    BY <1>0, <2>1
  <2>9. IsGraph(kg') /\ kg'.e = kg.e /\ kg'.facts = facts BY <1>0, <2>1 DEF IsGraph
  <2>10. /\ \A S : Wrote(kg, S) => Wrote(kg', S)
         /\ Wrote(kg', SlowNodes(slow.pc))
    BY <2>7, <2>9 DEF Wrote
  <2>11. Wrote(kg', {Verdict}) /\ Wrote(kg', {AsBuilt}) => Wrote(kg', {Verdict, AsBuilt}) BY DEF Wrote
  <2>12. slow'.pc \in SlowIdle \cup Writing \cup {"commit"} BY <2>5, <2>8 DEF SlowIdle, Writing
  <2>13. slow'.pc \in Writing => marked' = {}
    BY <2>1, <2>2, <2>5, <2>8 DEF WriterInv, Writing
  <2>14. /\ slow'.pc \in {"gaps", "asBuilt", "mark"} => Wrote(kg', {Verdict})
         /\ slow'.pc \in {"asBuilt", "mark"} => Wrote(kg', slow'.gaps)
         /\ slow'.pc = "mark" => Wrote(kg', {AsBuilt})
    BY <2>2, <2>5, <2>6, <2>8, <2>10 DEF WriterInv, Writing
  <2>15. \A gaps \in marked' :
            gaps \subseteq {Gap} /\ Wrote(kg', {Verdict, AsBuilt}) /\ Wrote(kg', gaps)
    <3>1. CASE slow.pc = "mark" BY <1>0, <2>1, <2>10, <2>11, <3>1 DEF WriterInv
    <3>2. CASE slow.pc # "mark" BY <2>1, <2>10, <3>2 DEF WriterInv
    <3> QED BY <3>1, <3>2
  <2>16. WriterInv' BY <1>0, <2>8, <2>9, <2>12, <2>13, <2>14, <2>15 DEF WriterInv
  <2>17. marked \subseteq marked' BY <2>1 DEF WriterInv, Writing
  <2> QED BY <2>1, <2>7, <2>9, <2>16, <2>17 DEF GraphGrows
<1>4. ASSUME NEW pc1 \in SlowIdle, UNCHANGED <<kg, marked, load, thread, found>>,
             slow' = [slow EXCEPT !.pc = pc1, !.faults = slow.faults + 1]
               \/ slow' = [slow EXCEPT !.pc = pc1]
      PROVE  WriterInv' /\ GraphGrows /\ UNCHANGED <<load, thread, found>>
  <2>1. /\ slow' = [pc |-> slow'.pc, gaps |-> slow'.gaps, faults |-> slow'.faults]
        /\ slow'.pc = pc1 /\ slow'.gaps = slow.gaps
    BY <1>0, <1>4
  <2>2. pc1 \notin Writing BY DEF SlowIdle, Writing
  <2>3. WriterInv' BY <1>0, <1>4, <2>1, <2>2 DEF WriterInv, Writing
  <2> QED BY <1>4, <2>3 DEF GraphGrows
<1>5. {"away", "passed", "done"} \subseteq SlowIdle BY DEF SlowIdle
<1>6. CASE SlowRaises BY <1>4, <1>5, <1>6 DEF SlowRaises, SlowFault
<1>7. CASE PassedOver BY <1>4, <1>5, <1>7 DEF PassedOver
<1>8. CASE SlowRestarts BY <1>4, <1>5, <1>8 DEF SlowRestarts, SlowFault
<1> QED BY <1>1, <1>2, <1>3, <1>6, <1>7, <1>8 DEF ThreadWriters

-----------------------------------------------------------------------------
(* What a load has read, and what is shown of it *)

\* A request in flight, field by field.
IsLoad(l) ==
    l = [at |-> l.at, serial |-> l.serial, nodes |-> l.nodes, raised |-> l.raised,
         edges |-> l.edges, gaps |-> l.gaps, verdicts |-> l.verdicts, asBuilt |-> l.asBuilt,
         edgesRead |-> l.edgesRead, reached |-> l.reached, marked |-> l.marked,
         known |-> l.known]

\* What the navigator has found is as near as it thinks, and its edges are
\* those of the graph.
Knows(known, g) ==
    /\ \A k \in known.nodes : k.hops \in Nat /\ Near(g, Sublot(NcrSerial), k.hops, k.node)
    /\ \A link \in known.links : \E e \in g.e : link = Link(e)

\* So the load has reached what it had found of the path.
PathIsReached(l) ==
    l.serial = NcrSerial =>
        \A k \in l.known.nodes : k.hops <= ThreadDepth => Id(k.node) \in {l.serial} \cup l.reached
PathIsRead(l) ==
    l.at > 3 /\ l.edgesRead =>
        \A link \in l.known.links :
            {link.source, link.target} \subseteq {l.serial} \cup l.reached => link \in l.edges

\* What was reached when the load began still is, and hangs together.
ReachedStill(l, g) ==
    /\ l.nodes \subseteq ThreadNodes(g, l.serial)
    /\ l.reached \subseteq Ids(ThreadNodes(g, l.serial))
    /\ \A r \in l.reached : \E e \in g.e :
          r \in {Id(e.src), Id(e.tgt)} /\ {Id(e.src), Id(e.tgt)} \subseteq {l.serial} \cup l.reached

\* After the edges are read, an edge of the answer ends at each of them.
ReachedIsRead(l) ==
    /\ l.at > 2 => l.reached \subseteq Ids(l.nodes)
    /\ l.at > 3 /\ l.edgesRead =>
         \A r \in l.reached : \E e \in l.edges :
            r \in {e.source, e.target} /\ {e.source, e.target} \subseteq {l.serial} \cup Ids(l.nodes)

\* Of an assessment that was marked before the load, what is read so far.
AssessmentIsRead(l) ==
    l.serial = NcrSerial =>
        \A gaps \in l.marked :
            /\ l.at > 4 => gaps \subseteq {f.node : f \in l.gaps}
            /\ l.at > 5 => Verdict \in {f.node : f \in l.verdicts}
            /\ l.at > 6 => l.asBuilt

\* A load of graph g while the verdicts m are marked.
ReadSoFar(l, g, m) ==
    /\ IsLoad(l) /\ l.at \in 1..7 /\ l.marked \subseteq m
    /\ ReachedStill(l, g) /\ ReachedIsRead(l) /\ AssessmentIsRead(l)
    /\ Knows(l.known, g) /\ PathIsReached(l) /\ PathIsRead(l)

\* The load in flight, and the thread that is shown.
LoadInv == load # None => ReadSoFar(load, kg, marked)

PathIsShown ==
    (thread.answer.edgesRead /\ thread.answer.serial = NcrSerial) =>
        PathIds \subseteq Ids(thread.graph.nodes) /\ PathLinks \subseteq thread.graph.edges

ThreadShows ==
    thread # None =>
    /\ thread.answer.edgesRead => thread.answer.reached \subseteq Ids(thread.graph.nodes)
    /\ Ids(thread.graph.nodes) \subseteq {thread.answer.serial} \cup Ids(thread.answer.nodes)
                                           \cup Ids(Assessed(thread.answer))
    /\ thread.answer.nodes \subseteq ThreadNodes(kg, thread.answer.serial)
    /\ AssessedIsShown
    /\ PathIsShown

\* The thread's inductive invariant.
ThreadInv == WriterInv /\ LoadInv /\ ThreadShows /\ Knows(found, kg)

LEMMA ThreadStarts ==
    ASSUME ThreadInit \/ ThreadIdle
    PROVE  ThreadInv
<1>1. load = None /\ thread = None /\ found = NothingFound
  BY DEF ThreadInit, ThreadIdle, NothingRead, NoLoadedThread
<1>2. Knows(found, kg) BY <1>1 DEF Knows, NothingFound
<1> QED BY <1>1, <1>2, WritersStart DEF ThreadInv, LoadInv, ThreadShows

LEMMA KnowsStill ==
    ASSUME NEW known, NEW g, NEW h, g.e \subseteq h.e, Knows(known, g)
    PROVE  Knows(known, h)
BY NearGrows DEF Knows

\* The graph grows under what was read of it.
LEMMA GrowsUnder ==
    ASSUME ThreadInv, WriterInv', GraphGrows, UNCHANGED <<load, thread, found>>
    PROVE  ThreadInv'
<1>1. \A sn : ThreadNodes(kg, sn) \subseteq ThreadNodes(kg', sn)
  BY ThreadGrows DEF GraphGrows
<1>2. \A sn : Ids(ThreadNodes(kg, sn)) \subseteq Ids(ThreadNodes(kg', sn)) BY <1>1 DEF Ids
<1>3. ASSUME load # None PROVE ReadSoFar(load, kg', marked')
  <2>1. ReadSoFar(load, kg, marked) BY <1>3 DEF ThreadInv, LoadInv
  <2>2. ReachedStill(load, kg')
    <3>1. ReachedStill(load, kg) BY <2>1 DEF ReadSoFar
    <3> QED BY <1>1, <1>2, <3>1 DEF ReachedStill, GraphGrows
  <2>3. Knows(load.known, kg') BY <2>1, KnowsStill DEF ReadSoFar, GraphGrows
  <2> QED BY <2>1, <2>2, <2>3 DEF ReadSoFar, GraphGrows
<1>4. LoadInv' BY <1>3 DEF LoadInv
<1>5. ThreadShows' BY <1>1 DEF ThreadInv, ThreadShows, AssessedIsShown, PathIsShown, PathIds, PathLinks
<1>6. Knows(found', kg') BY KnowsStill DEF ThreadInv, GraphGrows
<1> QED BY <1>4, <1>5, <1>6 DEF ThreadInv

\* What is within three hops a load reaches.
LEMMA PathIsWithin ==
    ASSUME NEW g, NEW known, Knows(known, g), NEW k \in known.nodes, k.hops <= ThreadDepth
    PROVE  Id(k.node) \in {NcrSerial} \cup Ids(ThreadNodes(g, NcrSerial))
<1>1. PICK n \in Nat : n = k.hops BY DEF Knows
<1>2. PICK x : x = Sublot(NcrSerial) OBVIOUS
<1>3. Near(g, x, n, k.node) BY <1>1, <1>2 DEF Knows
<1>4. PICK m \in Nat : m = ThreadDepth /\ n <= m BY <1>1 DEF ThreadDepth
<1>5. PICK j \in Nat : j = m - n BY <1>1, <1>4
<1>6. m = n + j BY <1>1, <1>4, <1>5
<1>7. Near(g, k.node, j, k.node) BY NearAtHome
<1>8. Near(g, x, m, k.node) BY <1>3, <1>6, <1>7, NearOnward
<1>9. k.node \in {x} \cup Walk(g, x, "both", {}, {}, m) BY <1>8, NearIsWalked
<1>10. k.node \in {x} \cup ThreadNodes(g, NcrSerial) BY <1>2, <1>4, <1>9 DEF ThreadNodes
<1> QED BY <1>2, <1>10, SublotId DEF Ids

LEMMA LoadBegins ==
    ASSUME WriterInv, Knows(found, kg), NEW sn, LoadThread(sn)
    PROVE  LoadInv' /\ UNCHANGED <<kg, marked, thread, found>>
<1> DEFINE reached == {Id(x) : x \in ThreadNodes(kg, sn)}
<1>1. /\ load' = [at |-> 1, serial |-> sn, nodes |-> {}, raised |-> {}, edges |-> {},
                  gaps |-> {}, verdicts |-> {}, asBuilt |-> FALSE, edgesRead |-> TRUE,
                  reached |-> reached, marked |-> marked, known |-> found]
      /\ UNCHANGED <<kg, marked, thread, found>>
  BY DEF LoadThread, writerVars
<1>2. \A r \in reached : \E e \in kg.e :
         r \in {Id(e.src), Id(e.tgt)} /\ {Id(e.src), Id(e.tgt)} \subseteq {sn} \cup reached
  <2> SUFFICES ASSUME NEW r \in reached
               PROVE  \E e \in kg.e : /\ r \in {Id(e.src), Id(e.tgt)}
                                      /\ {Id(e.src), Id(e.tgt)} \subseteq {sn} \cup reached
    OBVIOUS
  <2>1. PICK y \in ThreadNodes(kg, sn) : r = Id(y) OBVIOUS
  <2>2. PICK e \in kg.e : /\ y \in {e.src, e.tgt}
                          /\ {e.src, e.tgt} \subseteq {Sublot(sn)} \cup ThreadNodes(kg, sn)
    BY ThreadIsConnected
  <2>3. \A x \in {Sublot(sn)} \cup ThreadNodes(kg, sn) : Id(x) \in {sn} \cup reached BY SublotId
  <2> QED BY <2>1, <2>2, <2>3
<1>3. reached = Ids(ThreadNodes(kg, sn)) BY DEF Ids
<1> HIDE DEF reached
<1>4. IsLoad(load') BY <1>1 DEF IsLoad
<1>5. ReachedStill(load', kg) BY <1>1, <1>2, <1>3 DEF ReachedStill
<1>6. ReachedIsRead(load') /\ AssessmentIsRead(load') BY <1>1 DEF ReachedIsRead, AssessmentIsRead
<1>7. Knows(load'.known, kg) /\ PathIsRead(load') BY <1>1 DEF PathIsRead
<1>8. PathIsReached(load') BY <1>1, <1>3, PathIsWithin DEF PathIsReached
<1> QED BY <1>1, <1>4, <1>5, <1>6, <1>7, <1>8 DEF LoadInv, ReadSoFar

\* A query adds to the answer what it finds and goes on to the next one.
LEMMA LoadReads ==
    ASSUME ThreadInv, ReadThread \/ EdgesNotRead
    PROVE  LoadInv' /\ UNCHANGED <<kg, marked, thread, found>>
<1> DEFINE l == load
           Same(r) == /\ IsLoad(r) /\ r.at = l.at + 1 /\ r.serial = l.serial
                      /\ r.reached = l.reached /\ r.marked = l.marked /\ r.known = l.known
           SameButNodes(r) == /\ Same(r) /\ r.edges = l.edges /\ r.gaps = l.gaps
                              /\ r.verdicts = l.verdicts /\ r.asBuilt = l.asBuilt
                              /\ r.edgesRead = l.edgesRead
<1>0. /\ l # None /\ IsLoad(l) /\ l.at \in 1..6 /\ l.marked \subseteq marked
      /\ ReachedStill(l, kg) /\ ReachedIsRead(l) /\ AssessmentIsRead(l)
      /\ Knows(l.known, kg) /\ PathIsReached(l) /\ PathIsRead(l)
  <2>1. l # None /\ l.at \in DOMAIN ThreadReads BY DEF ReadThread, EdgesNotRead
  <2>2. DOMAIN ThreadReads = 1..6 BY DEF ThreadReads
  <2> QED BY <2>1, <2>2 DEF ThreadInv, LoadInv, ReadSoFar
<1>1. UNCHANGED <<kg, marked, thread, found>> BY DEF ReadThread, EdgesNotRead, writerVars
<1>2. ASSUME Same(load'), ReachedStill(load', kg), ReachedIsRead(load'), AssessmentIsRead(load'),
             PathIsRead(load')
      PROVE  LoadInv' /\ UNCHANGED <<kg, marked, thread, found>>
  <2>1. load'.at \in 1..7 /\ load'.marked \subseteq marked BY <1>0, <1>2
  <2>3. Knows(load'.known, kg) /\ PathIsReached(load') BY <1>0, <1>2 DEF PathIsReached
  <2>2. ReadSoFar(load', kg', marked') BY <1>1, <1>2, <2>1, <2>3 DEF ReadSoFar
  <2> QED BY <1>1, <2>2 DEF LoadInv
<1>3. ReachedStill(l, kg) /\ (\A r : Same(r) /\ r.nodes = l.nodes => ReachedStill(r, kg))
  BY <1>0 DEF ReachedStill
<1>4. CASE EdgesNotRead
  <2>1. l.at = 3 BY <1>0, <1>4 DEF EdgesNotRead, ThreadReads
  <2>2. load' = [[l EXCEPT !.edgesRead = FALSE] EXCEPT !.at = @ + 1]
    BY <1>4 DEF EdgesNotRead, NextRead
  <2>3. Same(load') /\ load'.nodes = l.nodes /\ load'.edgesRead = FALSE
    BY <1>0, <2>2 DEF IsLoad
  <2>4. ReachedIsRead(load') BY <1>0, <2>1, <2>3 DEF ReachedIsRead
  <2>5. AssessmentIsRead(load') BY <2>1, <2>3 DEF AssessmentIsRead
  <2>6. PathIsRead(load') BY <2>3 DEF PathIsRead
  <2> QED BY <1>2, <1>3, <2>3, <2>4, <2>5, <2>6
<1>5. CASE ReadThread
  <2> DEFINE n == ThreadReads[l.at]
             sn == l.serial
  <2>0. load' = [Read(n) EXCEPT !.at = @ + 1] BY <1>5 DEF ReadThread, NextRead
  <2>1. CASE l.at = 1
    <3>1. Read(n) = l BY <2>1 DEF Read, ThreadReads
    <3>2. SameButNodes(load') /\ load'.nodes = l.nodes BY <1>0, <2>0, <3>1 DEF IsLoad
    <3>3. ReachedIsRead(load') BY <2>1, <3>2 DEF ReachedIsRead
    <3>4. AssessmentIsRead(load') BY <2>1, <3>2 DEF AssessmentIsRead
    <3>5. PathIsRead(load') BY <2>1, <3>2 DEF PathIsRead
    <3> QED BY <1>2, <1>3, <3>2, <3>3, <3>4, <3>5
  <2>2. CASE l.at = 2
    <3> DEFINE nodes == ThreadNodes(kg, sn)
               raised == {<<f.node, f.event>> : f \in kg.facts}
    <3>1. Read(n) = [l EXCEPT !.nodes = nodes, !.raised = raised]
      BY <2>2 DEF Read, ThreadReads
    <3> HIDE DEF nodes, raised
    <3>2. SameButNodes(load') /\ load'.nodes = nodes
      <4> DEFINE r0 == [l EXCEPT !.nodes = nodes]
                 r1 == [r0 EXCEPT !.raised = raised]
      <4>0. /\ IsLoad(r0) /\ r0.at = l.at /\ r0.serial = l.serial /\ r0.nodes = nodes
            /\ r0.edges = l.edges /\ r0.gaps = l.gaps /\ r0.verdicts = l.verdicts
            /\ r0.asBuilt = l.asBuilt /\ r0.edgesRead = l.edgesRead
            /\ r0.reached = l.reached /\ r0.marked = l.marked /\ r0.known = l.known
        BY <1>0 DEF IsLoad
      <4>3. Read(n) = r1 BY <1>0, <3>1 DEF IsLoad
      <4> HIDE DEF r0
      <4>1. /\ IsLoad(r1) /\ r1.at = l.at /\ r1.serial = l.serial /\ r1.nodes = nodes
            /\ r1.edges = l.edges /\ r1.gaps = l.gaps /\ r1.verdicts = l.verdicts
            /\ r1.asBuilt = l.asBuilt /\ r1.edgesRead = l.edgesRead
            /\ r1.reached = l.reached /\ r1.marked = l.marked /\ r1.known = l.known
        BY <4>0 DEF IsLoad
      <4>2. load' = [r1 EXCEPT !.at = l.at + 1] BY <2>0, <4>1, <4>3
      <4> HIDE DEF r1
      <4> QED BY <4>1, <4>2 DEF IsLoad
    <3>3. ReachedStill(load', kg) BY <1>0, <3>2 DEF ReachedStill, nodes
    <3>4. ReachedIsRead(load') BY <1>0, <2>2, <3>2 DEF ReachedIsRead, ReachedStill, nodes
    <3>5. AssessmentIsRead(load') BY <2>2, <3>2 DEF AssessmentIsRead
    <3>6. PathIsRead(load') BY <2>2, <3>2 DEF PathIsRead
    <3> QED BY <1>2, <3>2, <3>3, <3>4, <3>5, <3>6
  <2>3. CASE l.at = 3
    <3> DEFINE edges == EdgesAmong(kg, {sn} \cup Ids(l.nodes))
    <3>1. Read(n) = [l EXCEPT !.edges = edges] BY <2>3 DEF Read, ThreadReads
    <3>0. \A r \in l.reached : \E e \in edges : /\ r \in {e.source, e.target}
                                                /\ {e.source, e.target} \subseteq {sn} \cup Ids(l.nodes)
      <4> SUFFICES ASSUME NEW r \in l.reached
                   PROVE  \E e \in edges : /\ r \in {e.source, e.target}
                                           /\ {e.source, e.target} \subseteq {sn} \cup Ids(l.nodes)
        OBVIOUS
      <4>1. l.reached \subseteq Ids(l.nodes) BY <1>0, <2>3 DEF ReachedIsRead
      <4>2. PICK e \in kg.e : /\ r \in {Id(e.src), Id(e.tgt)}
                              /\ {Id(e.src), Id(e.tgt)} \subseteq {sn} \cup l.reached
        BY <1>0 DEF ReachedStill
      <4> DEFINE d == Link(e)
      <4>3. d \in edges BY <4>1, <4>2 DEF EdgesAmong
      <4>4. r \in {d.source, d.target} /\ {d.source, d.target} \subseteq {sn} \cup Ids(l.nodes)
        BY <4>1, <4>2 DEF Link
      <4> QED BY <4>3, <4>4
    <3>6. ASSUME NEW link \in l.known.links, {link.source, link.target} \subseteq {sn} \cup l.reached
          PROVE  link \in edges
      <4>1. PICK e \in kg.e : link = Link(e) BY <1>0 DEF Knows
      <4>2. link.source = Id(e.src) /\ link.target = Id(e.tgt) BY <4>1 DEF Link
      <4>3. l.reached \subseteq Ids(l.nodes) BY <1>0, <2>3 DEF ReachedIsRead
      <4> QED BY <3>6, <4>1, <4>2, <4>3 DEF EdgesAmong
    <3> HIDE DEF edges
    <3>2. Same(load') /\ load'.nodes = l.nodes /\ load'.edges = edges
      BY <1>0, <2>0, <3>1 DEF IsLoad
    <3>4. ReachedIsRead(load') BY <1>0, <2>3, <3>0, <3>2 DEF ReachedIsRead
    <3>5. AssessmentIsRead(load') BY <2>3, <3>2 DEF AssessmentIsRead
    <3>7. PathIsRead(load') BY <3>2, <3>6 DEF PathIsRead
    <3> QED BY <1>2, <1>3, <3>2, <3>4, <3>5, <3>7
  <2>6. ASSUME l.serial = NcrSerial, NEW gaps \in l.marked
        PROVE  /\ gaps \subseteq {f.node : f \in FactsOf(kg, "ThreadGap", sn)}
               /\ Verdict \in {f.node : f \in FactsOf(kg, "CoherenceVerdict", sn)}
               /\ FactsOf(kg, "AsBuiltRecord", sn) # {}
    <3>1. gaps \subseteq {Gap} /\ Wrote(kg, {Verdict, AsBuilt}) /\ Wrote(kg, gaps)
      BY <1>0, <2>6 DEF ThreadInv, WriterInv
    <3>2. ASSUME NEW x, NEW label, Fact(x, NcrSerial, NcrEvent) \in kg.facts, Label(x) = label
          PROVE  x \in {f.node : f \in FactsOf(kg, label, sn)}
      <4>1. Fact(x, NcrSerial, NcrEvent) \in FactsOf(kg, label, sn)
        BY <2>6, <3>2 DEF FactsOf, Fact
      <4>2. Fact(x, NcrSerial, NcrEvent).node = x BY DEF Fact
      <4> QED BY <4>1, <4>2
    <3>3. Label(Gap) = "ThreadGap" /\ Label(Verdict) = "CoherenceVerdict" /\ Label(AsBuilt) = "AsBuiltRecord"
      BY DEF Label, Gap, Verdict, AsBuilt
    <3>4. AsBuilt \in {f.node : f \in FactsOf(kg, "AsBuiltRecord", sn)} BY <3>1, <3>2, <3>3 DEF Wrote
    <3>5. Verdict \in {f.node : f \in FactsOf(kg, "CoherenceVerdict", sn)} BY <3>1, <3>2, <3>3 DEF Wrote
    <3>6. gaps \subseteq {f.node : f \in FactsOf(kg, "ThreadGap", sn)}
      BY <3>1, <3>2, <3>3 DEF Wrote
    <3> QED BY <3>4, <3>5, <3>6
  <2>7. ASSUME l.at \in 4..6, SameButNodes(load') \/ Same(load'), load'.nodes = l.nodes,
               load'.edges = l.edges, load'.edgesRead = l.edgesRead
        PROVE  ReachedStill(load', kg) /\ ReachedIsRead(load') /\ PathIsRead(load')
    BY <1>0, <1>3, <2>7 DEF ReachedIsRead, PathIsRead
  <2>8. CASE l.at = 4
    <3> DEFINE gaps == FactsOf(kg, "ThreadGap", sn)
    <3>1. Read(n) = [l EXCEPT !.gaps = gaps] BY <2>8 DEF Read, ThreadReads
    <3> HIDE DEF gaps
    <3>2. /\ Same(load') /\ load'.nodes = l.nodes /\ load'.edges = l.edges
          /\ load'.edgesRead = l.edgesRead /\ load'.gaps = gaps
      BY <1>0, <2>0, <3>1 DEF IsLoad
    <3>3. AssessmentIsRead(load') BY <2>6, <2>8, <3>2 DEF AssessmentIsRead, gaps
    <3> QED BY <1>2, <2>7, <2>8, <3>2, <3>3
  <2>9. CASE l.at = 5
    <3> DEFINE verdicts == FactsOf(kg, "CoherenceVerdict", sn)
    <3>1. Read(n) = [l EXCEPT !.verdicts = verdicts] BY <2>9 DEF Read, ThreadReads
    <3> HIDE DEF verdicts
    <3>2. /\ Same(load') /\ load'.nodes = l.nodes /\ load'.edges = l.edges
          /\ load'.edgesRead = l.edgesRead /\ load'.gaps = l.gaps /\ load'.verdicts = verdicts
      BY <1>0, <2>0, <3>1 DEF IsLoad
    <3>3. AssessmentIsRead(load') BY <1>0, <2>6, <2>9, <3>2 DEF AssessmentIsRead, verdicts
    <3> QED BY <1>2, <2>7, <2>9, <3>2, <3>3
  <2>10. CASE l.at = 6
    <3> DEFINE asBuilt == FactsOf(kg, "AsBuiltRecord", sn) # {}
    <3>1. Read(n) = [l EXCEPT !.asBuilt = asBuilt] BY <2>10 DEF Read, ThreadReads
    <3> HIDE DEF asBuilt
    <3>2. /\ Same(load') /\ load'.nodes = l.nodes /\ load'.edges = l.edges
          /\ load'.edgesRead = l.edgesRead /\ load'.gaps = l.gaps
          /\ load'.verdicts = l.verdicts /\ load'.asBuilt = asBuilt
      BY <1>0, <2>0, <3>1 DEF IsLoad
    <3>3. (l.serial = NcrSerial /\ l.marked # {}) => asBuilt = TRUE BY <2>6 DEF asBuilt
    <3>4. (l.serial = NcrSerial /\ l.marked # {}) => load'.asBuilt BY <3>2, <3>3
    <3>5. AssessmentIsRead(load') BY <1>0, <2>10, <3>2, <3>4 DEF AssessmentIsRead
    <3> QED BY <1>2, <2>7, <2>10, <3>2, <3>5
  <2> QED BY <1>0, <2>1, <2>2, <2>3, <2>8, <2>9, <2>10
<1> QED BY <1>4, <1>5

\* The page shows what it has read.
LEMMA LoadIsShown ==
    ASSUME ThreadInv, ThreadShown
    PROVE  LoadInv' /\ ThreadShows' /\ UNCHANGED <<kg, marked, found>>
<1>1. PICK kept \in FirstOfEachId(load) :
        thread' = [graph |-> MapNodesToGraph(load, kept, load.raised), answer |-> load]
  BY DEF ThreadShown
<1> DEFINE g == MapNodesToGraph(load, kept, load.raised)
<1>2. load # None /\ load.at = 7 /\ load' = None /\ UNCHANGED <<kg, marked, found>>
  BY DEF ThreadShown, ThreadReads, writerVars
<1>3. ReadSoFar(load, kg, marked) BY <1>2 DEF ThreadInv, LoadInv
<1>4. /\ load.serial \in Ids(g.nodes)
      /\ Ids(g.nodes) \subseteq {load.serial} \cup Ids(load.nodes) \cup Ids(Assessed(load))
      /\ \A e \in load.edges : {e.source, e.target} \subseteq {load.serial} \cup Ids(load.nodes) =>
           {e.source, e.target} \subseteq Ids(g.nodes) /\ e \in g.edges
  BY GraphOfAnswer
<1> HIDE DEF g
<1>5. load.edgesRead => load.reached \subseteq Ids(g.nodes)
  BY <1>2, <1>3, <1>4 DEF ReadSoFar, ReachedIsRead
<1>6. (load.serial = NcrSerial /\ load.marked # {}) =>
        /\ Verdict \in {f.node : f \in load.verdicts} /\ load.asBuilt
        /\ UNION load.marked \subseteq {f.node : f \in load.gaps}
  BY <1>2, <1>3 DEF ReadSoFar, AssessmentIsRead
<1>7. thread'.graph = g /\ thread'.answer = load BY <1>1 DEF g
<1>8. load.nodes \subseteq ThreadNodes(kg, load.serial) BY <1>3 DEF ReadSoFar, ReachedStill
<1>9. AssessedIsShown' BY <1>6, <1>7 DEF AssessedIsShown
<1>11. ASSUME load.edgesRead, load.serial = NcrSerial
       PROVE  PathIds' \subseteq Ids(g.nodes) /\ PathLinks' \subseteq g.edges
  <2>1. PathIsReached(load) /\ PathIsRead(load) /\ ReachedIsRead(load) BY <1>3 DEF ReadSoFar
  <2>2. PathIds' = {NcrSerial} \cup Ids({k.node : k \in {j \in load.known.nodes : j.hops <= ThreadDepth}})
    BY <1>7 DEF PathIds
  <2>3. PathIds' \subseteq {load.serial} \cup load.reached BY <1>11, <2>1, <2>2 DEF PathIsReached, Ids
  <2>4. PathIds' \subseteq Ids(g.nodes) BY <1>4, <1>5, <1>11, <2>3
  <2>5. ASSUME NEW link \in PathLinks' PROVE link \in g.edges
    <3>1. link \in load.known.links /\ {link.source, link.target} \subseteq PathIds'
      BY <1>7 DEF PathLinks
    <3>2. {link.source, link.target} \subseteq {load.serial} \cup load.reached BY <2>3, <3>1
    <3>3. link \in load.edges BY <1>2, <1>11, <2>1, <3>1, <3>2 DEF PathIsRead
    <3>4. {link.source, link.target} \subseteq {load.serial} \cup Ids(load.nodes)
      BY <1>2, <2>1, <3>2 DEF ReachedIsRead
    <3> QED BY <1>4, <3>3, <3>4
  <2> QED BY <2>4, <2>5
<1>12. PathIsShown' BY <1>7, <1>11 DEF PathIsShown
<1>10. ThreadShows' BY <1>2, <1>4, <1>5, <1>7, <1>8, <1>9, <1>12 DEF ThreadShows
<1> QED BY <1>2, <1>10 DEF LoadInv

\* One more answer of the tool.
LEMMA NavigatorLearns ==
    ASSUME ThreadInv, NavigatorStep
    PROVE  Knows(found', kg') /\ UNCHANGED <<kg, slow, marked, load, thread>>
<1> DEFINE sublot == Sublot(NcrSerial)
<1>1. ASSUME NEW k \in Known, NEW nodes, NEW links, NEW hops \in Nat, Learn(k, nodes, links, hops),
             \A y \in nodes : Near(kg, k.node, hops, y), links \subseteq kg.e
      PROVE  Knows(found', kg') /\ UNCHANGED <<kg, slow, marked, load, thread>>
  <2>1. /\ found' = [nodes |-> found.nodes \cup {[node |-> y, hops |-> k.hops + hops] : y \in nodes},
                     links |-> found.links \cup {Link(e) : e \in links}, asked |-> found.asked + 1]
        /\ UNCHANGED <<kg, slow, marked, load, thread>>
    BY <1>1 DEF Learn, writerVars
  <2>2. Knows(found, kg) BY DEF ThreadInv
  <2>3. k.hops \in Nat /\ Near(kg, sublot, k.hops, k.node)
    <3>1. CASE k \in found.nodes BY <2>2, <3>1 DEF Knows
    <3>2. CASE k = [node |-> sublot, hops |-> 0]
      <4>1. PICK n \in Nat : n = 0 OBVIOUS
      <4>2. k.node = sublot /\ k.hops = n BY <3>2, <4>1
      <4>3. Near(kg, sublot, n, sublot) BY NearAtHome
      <4> QED BY <4>2, <4>3
    <3> QED BY <3>1, <3>2 DEF Known
  <2>4. PICK n \in Nat : n = k.hops BY <2>3
  <2>5. PICK m \in Nat : m = n + hops OBVIOUS
  <2>6. \A y \in nodes : Near(kg, sublot, m, y) BY <1>1, <2>3, <2>4, <2>5, NearOnward
  <2>7. \A j \in found'.nodes : j \in found.nodes \/ \E y \in nodes : j = [node |-> y, hops |-> m]
    BY <2>1, <2>4, <2>5
  <2>8. ASSUME NEW j \in found'.nodes PROVE j.hops \in Nat /\ Near(kg, sublot, j.hops, j.node)
    <3>1. CASE j \in found.nodes BY <2>2, <3>1 DEF Knows
    <3>2. CASE \E y \in nodes : j = [node |-> y, hops |-> m] BY <2>6, <3>2
    <3> QED BY <2>7, <3>1, <3>2
  <2>9. ASSUME NEW link \in found'.links PROVE \E e \in kg.e : link = Link(e)
    BY <1>1, <2>1, <2>2 DEF Knows
  <2> QED BY <2>1, <2>8, <2>9 DEF Knows
<1>2. PICK k \in Known :
        \/ AskNode(k) \/ AskNodeEdges(k)
        \/ \E q \in Questions : AskNeighbors(k, q) \/ AskTraverse(k, q)
  BY DEF NavigatorStep
<1> DEFINE z == k.node
<1>3. CASE AskNode(k)
  <2> DEFINE nodes == NodeNeighbors(kg, z)
  <2>1. nodes = Hops(kg, z, "both", {}) BY DEF NodeNeighbors
  <2>9. PICK links : links = {} OBVIOUS
  <2>2. Learn(k, nodes, links, 1) BY <1>3, <2>9 DEF AskNode
  <2> HIDE DEF nodes
  <2>3. \A y \in nodes : Near(kg, z, 1, y) BY <2>1, HopsAreNear
  <2>4. links \subseteq kg.e BY <2>9
  <2>5. PICK one \in Nat : one = 1 OBVIOUS
  <2>6. Learn(k, nodes, links, one) /\ \A y \in nodes : Near(kg, k.node, one, y) BY <2>2, <2>3, <2>5
  <2> HIDE DEF z
  <2> QED BY <1>1, <2>4, <2>6
<1>4. ASSUME NEW q \in Questions, AskNeighbors(k, q)
      PROVE  Knows(found', kg') /\ UNCHANGED <<kg, slow, marked, load, thread>>
  <2> DEFINE nodes == QueryNeighbors(kg, z, {}, q.labels)
  <2>1. nodes \subseteq Hops(kg, z, "both", {}) BY DEF QueryNeighbors
  <2>2. PICK links : links = {} OBVIOUS
  <2>3. Learn(k, nodes, links, 1) BY <1>4, <2>2 DEF AskNeighbors
  <2> HIDE DEF nodes
  <2>4. \A y \in nodes : Near(kg, z, 1, y) BY <2>1, HopsAreNear
  <2>5. PICK one \in Nat : one = 1 OBVIOUS
  <2>6. Learn(k, nodes, links, one) /\ \A y \in nodes : Near(kg, k.node, one, y) BY <2>3, <2>4, <2>5
  <2>7. links \subseteq kg.e BY <2>2
  <2> HIDE DEF z
  <2> QED BY <1>1, <2>6, <2>7
<1>5. ASSUME NEW q \in Questions, AskTraverse(k, q)
      PROVE  Knows(found', kg') /\ UNCHANGED <<kg, slow, marked, load, thread>>
  <2> DEFINE nodes == Traverse(kg, z, q.dir, {}, q.labels, q.depth)
  <2>1. PICK hops \in Nat : hops = q.depth /\ hops <= 5 BY ThreadAssumption
  <2>2. nodes \subseteq Walk(kg, z, q.dir, {}, q.labels, hops)
    <3>1. (IF q.depth < 5 THEN q.depth ELSE 5) = hops BY <2>1
    <3> QED BY <3>1 DEF Traverse
  <2>3. PICK links : links = {} OBVIOUS
  <2>4. Learn(k, nodes, links, hops) BY <1>5, <2>1, <2>3 DEF AskTraverse
  <2> HIDE DEF nodes
  <2>5. \A y \in nodes : Near(kg, z, hops, y) BY <2>2, WalkIsNear
  <2>6. links \subseteq kg.e BY <2>3
  <2> QED BY <1>1, <2>4, <2>5, <2>6
<1>6. CASE AskNodeEdges(k)
  <2> DEFINE links == NodeEdges(kg, z)
  <2>1. links \subseteq kg.e BY DEF NodeEdges
  <2>2. PICK nodes : nodes = {} OBVIOUS
  <2>3. PICK none \in Nat : none = 0 OBVIOUS
  <2> HIDE DEF links
  <2>4. Learn(k, nodes, links, none) BY <1>6, <2>2, <2>3 DEF AskNodeEdges, links
  <2>5. \A y \in nodes : Near(kg, k.node, none, y) BY <2>2
  <2> HIDE DEF z
  <2> QED BY <1>1, <2>1, <2>4, <2>5
<1> QED BY <1>2, <1>3, <1>4, <1>5, <1>6

LEMMA ThreadInvStep ==
    ASSUME ThreadInv,
           ThreadWriters \/ ThreadPageStep \/ PlanStep \/ NavigatorStep \/ UNCHANGED threadVars
    PROVE  ThreadInv'
<1>0. WriterInv /\ LoadInv /\ ThreadShows /\ Knows(found, kg) BY DEF ThreadInv
<1>1. UNCHANGED <<kg, slow, marked>> => WriterInv' BY <1>0 DEF WriterInv
<1>2. UNCHANGED <<kg, thread>> => ThreadShows'
  BY <1>0 DEF ThreadShows, AssessedIsShown, PathIsShown, PathIds, PathLinks
<1>3. UNCHANGED <<kg, marked, load>> => LoadInv' BY <1>0 DEF LoadInv
<1>4. CASE ThreadWriters BY <1>0, <1>4, WritersStep, GrowsUnder
<1>5. CASE PlanStep
  <2>1. UNCHANGED <<kg, slow, marked, load, thread, found>>
    BY <1>5 DEF PlanStep, AskPlan, ReadPlan, PlanAnswered, writerVars, loadVars
  <2> QED BY <1>0, <1>1, <1>2, <1>3, <2>1 DEF ThreadInv
<1>6. CASE UNCHANGED threadVars
  <2>1. UNCHANGED <<kg, slow, marked, load, thread, found>> BY <1>6 DEF threadVars
  <2> QED BY <1>0, <1>1, <1>2, <1>3, <2>1 DEF ThreadInv
<1>8. CASE NavigatorStep BY <1>1, <1>2, <1>3, <1>8, NavigatorLearns DEF ThreadInv
<1>7. CASE ThreadPageStep
  <2>1. UNCHANGED <<kg, slow, marked>>
    BY <1>7 DEF ThreadPageStep, LoadThread, ReadThread, EdgesNotRead, NoThreadFound, LoadFails,
                ThreadShown, writerVars
  <2> DEFINE Keeps == found' = found \/ found' = NothingFound
  <2>2. ASSUME NEW sn, LoadThread(sn) PROVE LoadInv' /\ ThreadShows' /\ Keeps
    BY <1>0, <1>2, <2>2, LoadBegins
  <2>3. ASSUME ReadThread \/ EdgesNotRead PROVE LoadInv' /\ ThreadShows' /\ Keeps
    BY <1>2, <2>3, LoadReads
  <2>4. ASSUME NoThreadFound \/ LoadFails PROVE LoadInv' /\ ThreadShows' /\ Keeps
    <3>1. load' = None /\ (thread' = None \/ UNCHANGED <<kg, thread>>) /\ Keeps
      BY <2>1, <2>4 DEF NoThreadFound, LoadFails
    <3> QED BY <1>2, <3>1 DEF LoadInv, ThreadShows
  <2>5. ASSUME ThreadShown PROVE LoadInv' /\ ThreadShows' /\ Keeps
    BY <2>5, LoadIsShown
  <2>6. LoadInv' /\ ThreadShows' /\ Keeps
    BY <1>7, <2>2, <2>3, <2>4, <2>5 DEF ThreadPageStep
  <2>7. Knows(found', kg) BY <1>0, <2>6 DEF Knows, NothingFound
  <2> QED BY <1>1, <2>1, <2>6, <2>7 DEF ThreadInv
<1> QED BY <1>4, <1>5, <1>6, <1>7, <1>8

LEMMA ThreadInvSays ==
    ASSUME ThreadInv
    PROVE  PathIsDrawn /\ AssessedIsShown /\ ThreadIsBetween
<1>0. CASE thread = None BY <1>0 DEF PathIsDrawn, AssessedIsShown, ThreadIsBetween
<1>1. CASE thread # None
  <2>1. ThreadShows BY DEF ThreadInv
  <2>2. PathIsDrawn
    <3>1. PathIsShown BY <1>1, <2>1 DEF ThreadShows
    <3>2. ASSUME thread.answer.edgesRead, thread.answer.serial = NcrSerial, NEW d
          PROVE  LET drawn == OnPath(NavigatorGraph(thread.graph, d), PathIds)
                 IN  PathIds \subseteq Ids(drawn.nodes) /\ PathLinks \subseteq drawn.edges
      <4>1. PathIds \subseteq Ids(thread.graph.nodes) /\ PathLinks \subseteq thread.graph.edges
        BY <3>1, <3>2 DEF PathIsShown
      <4>2. \A link \in PathLinks : {link.source, link.target} \subseteq PathIds BY DEF PathLinks
      <4> QED BY <4>1, <4>2 DEF OnPath, NavigatorGraph, Ids
    <3> QED BY <3>2 DEF PathIsDrawn
  <2>3. AssessedIsShown BY <1>1, <2>1 DEF ThreadShows
  <2>4. Ids(thread.answer.nodes) \subseteq Ids(ThreadNodes(kg, thread.answer.serial))
    BY <1>1, <2>1 DEF ThreadShows, Ids
  <2>5. ThreadIsBetween BY <1>1, <2>1, <2>4 DEF ThreadShows, ThreadIsBetween, ShownIds
  <2> QED BY <2>2, <2>3, <2>5
<1> QED BY <1>0, <1>1

-----------------------------------------------------------------------------
(* The comparison of plan and actual *)

AreCalls(left) == \A t \in DOMAIN left : \E S : left[t] \in Seq(S)

\* While the comparison is read: a response that was found stays, and the
\* plan that was read after it is the plan.
PlanRead ==
    plan # None =>
    /\ plan = [at |-> plan.at, response |-> plan.response, requested |-> plan.requested,
               executed |-> plan.executed]
    /\ plan.at \in 2..5
    /\ plan.response # {} => Responses(kg, WorkOrder) # {}
    /\ plan.at > 3 /\ plan.response # {} => plan.requested = Requested(kg, WorkOrder)

\* No plan is added to once there is a response.
PlanInv == WriterInv /\ AreCalls(todo) /\ PlannedFirst(kg, todo) /\ PlanRead

\* The step that PlanDiffIsExact allows.
DiffStep ==
    (diff' # diff /\ diff'.hasResponse) =>
        diff'.of = PlanDiff(Requested(kg, WorkOrder), Executed(kg, WorkOrder))

LEMMA PlanStarts ==
    ASSUME ThreadInit \/ ThreadIdle
    PROVE  PlanInv
<1>1. plan = None BY DEF ThreadInit, ThreadIdle, NothingRead
<1>2. AreCalls(todo) /\ PlannedFirst(kg, todo)
  <2>1. CASE ThreadIdle
    <3>1. DOMAIN todo = {} BY <2>1 DEF ThreadIdle
    <3> QED BY <3>1 DEF AreCalls, PlannedFirst
  <2>2. CASE ThreadInit
    <3>1. PICK s \in Scenarios : kg = s.kg /\ todo = s.todo BY <2>2 DEF ThreadInit
    <3> QED BY <3>1, PlanAssumption DEF AreCalls
  <2> QED BY <2>1, <2>2
<1> QED BY <1>1, <1>2, WritersStart DEF PlanInv, PlanRead

\* What is read of the work order depends on the edges alone.
LEMMA HopsOut ==
    ASSUME NEW g, NEW rels, NEW x, rels # {}
    PROVE  \A y : y \in Hops(g, x, "out", rels) <=>
                   \E e \in g.e : e.rel \in rels /\ e.src = x /\ y = e.tgt
BY DEF Hops, In

LEMMA SameEdges ==
    ASSUME NEW g, NEW h, g.e = h.e
    PROVE  /\ Responses(g, WorkOrder) = Responses(h, WorkOrder)
           /\ Requested(g, WorkOrder) = Requested(h, WorkOrder)
BY DEF Responses, Requested, Hops

LEMMA ResponsesGrow ==
    ASSUME NEW g, NEW h, g.e \subseteq h.e
    PROVE  Responses(g, WorkOrder) \subseteq Responses(h, WorkOrder)
<1>1. \A x : Hops(g, x, "out", {"requestsExecution"}) \subseteq Hops(h, x, "out", {"requestsExecution"})
  BY DEF Hops
<1> QED BY <1>1 DEF Responses, Labelled

\* A call that adds no segment leaves the plan, one that adds no response
\* leaves the responses.
LEMMA ApplyLeaves ==
    ASSUME NEW g, IsGraph(g), NEW s
    PROVE  /\ ~AddsSegment(s) => Requested(Apply(g, s), WorkOrder) = Requested(g, WorkOrder)
           /\ ~AddsResponse(s) => Responses(Apply(g, s), WorkOrder) = Responses(g, WorkOrder)
<1>1. CASE s.op = "upsert_edge"
  <2> DEFINE new == {e \in {[src |-> s.src, rel |-> s.rel, tgt |-> s.tgt]} :
                                   {s.src, s.tgt} \subseteq g.v}
             all == g.e \cup new
             h == Apply(g, s)
  <2>1. h = [g EXCEPT !.e = all] BY <1>1 DEF Apply
  <2>2. \A e \in new : e.src = s.src /\ e.rel = s.rel OBVIOUS
  <2> HIDE DEF new, h
  <2>3. h.e = g.e \cup new BY <2>1 DEF IsGraph
  <2>4. ASSUME NEW rels, rels # {}, ~(s.src = JobOrder(WorkOrder) /\ s.rel \in rels)
        PROVE  Hops(h, JobOrder(WorkOrder), "out", rels) = Hops(g, JobOrder(WorkOrder), "out", rels)
    <3>1. PICK x, k : x = JobOrder(WorkOrder) /\ k = h OBVIOUS
    <3>2. \A y : (\E e \in k.e : e.rel \in rels /\ e.src = x /\ y = e.tgt)
                  <=> (\E e \in g.e : e.rel \in rels /\ e.src = x /\ y = e.tgt)
      BY <2>2, <2>3, <2>4, <3>1
    <3>3. ASSUME NEW y PROVE y \in Hops(k, x, "out", rels) <=> y \in Hops(g, x, "out", rels)
      BY <2>4, <3>2, HopsOut
    <3>4. Hops(k, x, "out", rels) = Hops(g, x, "out", rels) BY <3>3
    <3> QED BY <3>1, <3>4
  <2> DEFINE segments == {"requestsSegment"}
             responses == {"requestsExecution"}
  <2>5. segments # {} /\ responses # {} OBVIOUS
  <2>6. /\ ~AddsSegment(s) => ~(s.src = JobOrder(WorkOrder) /\ s.rel \in segments)
        /\ ~AddsResponse(s) => ~(s.src = JobOrder(WorkOrder) /\ s.rel \in responses)
    BY <1>1 DEF AddsSegment, AddsResponse
  <2>7. \A k : /\ Requested(k, WorkOrder) = Labelled(Hops(k, JobOrder(WorkOrder), "out", segments), "ProcessSegment")
               /\ Responses(k, WorkOrder) = Labelled(Hops(k, JobOrder(WorkOrder), "out", responses), "JobResponse")
    BY DEF Requested, Responses
  <2> HIDE DEF segments, responses
  <2> QED BY <2>4, <2>5, <2>6, <2>7 DEF h
<1>2. CASE s.op # "upsert_edge"
  <2> DEFINE v == g.v \cup {s.src}
             facts == g.facts \cup {f \in {Fact(s.src, NcrSerial, NcrEvent)} :
                                       s.sets /\ Label(s.src) = "OperationsPerformance"}
  <2>1. Apply(g, s) = [g EXCEPT !.v = v, !.facts = facts] BY <1>2 DEF Apply
  <2> HIDE DEF v, facts
  <2>2. Apply(g, s).e = g.e BY <2>1 DEF IsGraph
  <2> QED BY <2>2, SameEdges
<1> QED BY <1>1, <1>2

\* A call is made: what is left of the calls is still in order.
LEMMA CallsGoOn ==
    ASSUME PlanInv, NEW t \in DOMAIN todo, WriteNext(t)
    PROVE  /\ AreCalls(todo') /\ PlannedFirst(kg', todo')
           /\ Responses(kg, WorkOrder) # {} => Requested(kg', WorkOrder) = Requested(kg, WorkOrder)
<1> DEFINE s == Head(todo[t])
<1>1. /\ todo[t] # <<>> /\ kg' = Apply(kg, s)
      /\ todo' = [todo EXCEPT ![t] = Tail(todo[t])]
  BY DEF WriteNext
<1>2. IsGraph(kg) /\ AreCalls(todo) /\ PlannedFirst(kg, todo) BY DEF PlanInv, WriterInv
<1>3. PICK S : todo[t] \in Seq(S) BY <1>2 DEF AreCalls
<1>4. /\ Tail(todo[t]) \in Seq(S) /\ 1 \in DOMAIN todo[t] /\ todo[t][1] = s
      /\ \A i \in DOMAIN Tail(todo[t]) :
            i \in Nat /\ i + 1 \in DOMAIN todo[t] /\ Tail(todo[t])[i] = todo[t][i + 1]
  BY <1>1, <1>3
<1>5. DOMAIN todo' = DOMAIN todo /\ \A u \in DOMAIN todo : todo'[u] = IF u = t THEN Tail(todo[t]) ELSE todo[u]
  BY <1>1
<1>6. AreCalls(todo') BY <1>2, <1>4, <1>5 DEF AreCalls
<1> HIDE DEF s
<1>7. Responses(kg, WorkOrder) # {} => Requested(kg', WorkOrder) = Requested(kg, WorkOrder)
  <2>1. AddsSegment(s) => Responses(kg, WorkOrder) = {} BY <1>2, <1>4 DEF PlannedFirst
  <2> QED BY <1>1, <1>2, <2>1, ApplyLeaves
<1>8. ASSUME NEW u \in DOMAIN todo, NEW j \in DOMAIN todo'[u], AddsSegment(todo'[u][j])
      PROVE  /\ Responses(kg', WorkOrder) = {}
             /\ \A r \in DOMAIN todo : \A i \in DOMAIN todo'[r] :
                    AddsResponse(todo'[r][i]) => r = u /\ j < i
  <2> DEFINE J == IF u = t THEN j + 1 ELSE j
  <2>1. J \in DOMAIN todo[u] /\ todo[u][J] = todo'[u][j] BY <1>4, <1>5
  <2>2. /\ Responses(kg, WorkOrder) = {}
        /\ \A r \in DOMAIN todo : \A i \in DOMAIN todo[r] :
                AddsResponse(todo[r][i]) => r = u /\ J < i
    BY <1>2, <1>8, <2>1 DEF PlannedFirst
  <2>3. ~AddsResponse(s)
    <3>1. CASE u = t
      <4>1. j \in Nat BY <1>4, <1>5, <3>1
      <4>2. ~(J < 1) BY <3>1, <4>1
      <4> HIDE DEF J
      <4> QED BY <1>4, <2>2, <4>2
    <3>2. CASE u # t BY <1>4, <2>2, <3>2
    <3> QED BY <3>1, <3>2
  <2>4. Responses(kg', WorkOrder) = {} BY <1>1, <1>2, <2>2, <2>3, ApplyLeaves
  <2>5. ASSUME NEW r \in DOMAIN todo, NEW i \in DOMAIN todo'[r], AddsResponse(todo'[r][i])
        PROVE  r = u /\ j < i
    <3> DEFINE I == IF r = t THEN i + 1 ELSE i
    <3>1. I \in DOMAIN todo[r] /\ todo[r][I] = todo'[r][i] BY <1>4, <1>5
    <3>2. r = u /\ J < I BY <2>2, <2>5, <3>1
    <3>3. CASE r = t
      <4>1. i \in Nat /\ j \in Nat BY <1>4, <1>5, <3>2, <3>3
      <4> QED BY <3>2, <3>3, <4>1
    <3>4. CASE r # t BY <3>2, <3>4
    <3> QED BY <3>3, <3>4
  <2> QED BY <2>4, <2>5
<1>9. PlannedFirst(kg', todo') BY <1>5, <1>8 DEF PlannedFirst
<1> QED BY <1>6, <1>7, <1>9

LEMMA PlanInvStep ==
    ASSUME PlanInv,
           ThreadWriters \/ ThreadPageStep \/ PlanStep \/ NavigatorStep \/ UNCHANGED threadVars
    PROVE  PlanInv' /\ (DiffStep \/ UNCHANGED threadVars)
<1>0. WriterInv /\ AreCalls(todo) /\ PlannedFirst(kg, todo) /\ PlanRead BY DEF PlanInv
<1>1. UNCHANGED <<kg, slow, marked>> => WriterInv' BY <1>0 DEF WriterInv
<1>2. ASSUME UNCHANGED <<kg, slow, marked, todo, plan>>
      PROVE  PlanInv'
  BY <1>0, <1>1, <1>2 DEF PlanInv, PlanRead
<1>3. diff' = diff => DiffStep BY DEF DiffStep
<1>4. CASE UNCHANGED threadVars BY <1>2, <1>4 DEF threadVars
<1>5. CASE ThreadPageStep
  <2>1. UNCHANGED <<kg, slow, marked, todo, plan, diff>>
    BY <1>5 DEF ThreadPageStep, LoadThread, ReadThread, EdgesNotRead, NoThreadFound, LoadFails,
                ThreadShown, writerVars, planVars
  <2> QED BY <1>2, <1>3, <2>1
<1>8. CASE NavigatorStep
  <2>1. UNCHANGED <<kg, slow, marked, todo, plan, diff>>
    BY <1>8 DEF NavigatorStep, AskNode, AskNodeEdges, AskNeighbors, AskTraverse, Learn, writerVars, planVars
  <2> QED BY <1>2, <1>3, <2>1
<1>6. CASE ThreadWriters
  <2>1. WriterInv' /\ GraphGrows BY <1>0, <1>6, WritersStep
  <2>2. UNCHANGED <<plan, diff>>
    BY <1>6 DEF ThreadWriters, WriteNext, Assess, SlowStep, SlowRaises, SlowRestarts, SlowFault,
                PassedOver, planVars
  <2>3. /\ AreCalls(todo') /\ PlannedFirst(kg', todo')
        /\ Responses(kg, WorkOrder) # {} => Requested(kg', WorkOrder) = Requested(kg, WorkOrder)
    <3>1. ASSUME NEW t \in DOMAIN todo, WriteNext(t)
          PROVE  /\ AreCalls(todo') /\ PlannedFirst(kg', todo')
                 /\ Responses(kg, WorkOrder) # {} => Requested(kg', WorkOrder) = Requested(kg, WorkOrder)
      BY <3>1, CallsGoOn
    <3>2. ASSUME Assess \/ SlowStep \/ SlowRaises \/ PassedOver \/ SlowRestarts
          PROVE  /\ AreCalls(todo') /\ PlannedFirst(kg', todo')
                 /\ Responses(kg, WorkOrder) # {} => Requested(kg', WorkOrder) = Requested(kg, WorkOrder)
      <4>1. todo' = todo
        BY <3>2 DEF Assess, SlowStep, SlowRaises, SlowRestarts, SlowFault, PassedOver
      <4>2. kg'.e = kg.e
        <5>1. CASE SlowStep
          <6> DEFINE v == kg.v \cup SlowNodes(slow.pc)
                     facts == kg.facts \cup {Fact(n, NcrSerial, NcrEvent) : n \in SlowNodes(slow.pc)}
          <6>1. kg' = [kg EXCEPT !.v = v, !.facts = facts] BY <5>1 DEF SlowStep
          <6> HIDE DEF v, facts
          <6> QED BY <1>0, <6>1 DEF WriterInv, IsGraph
        <5>2. CASE ~SlowStep
          BY <3>2, <5>2 DEF Assess, SlowRaises, SlowRestarts, SlowFault, PassedOver
        <5> QED BY <5>1, <5>2
      <4>3. /\ Responses(kg', WorkOrder) = Responses(kg, WorkOrder)
            /\ Requested(kg', WorkOrder) = Requested(kg, WorkOrder)
        BY <4>2, SameEdges
      <4> QED BY <1>0, <4>1, <4>3 DEF PlannedFirst
    <3> QED BY <1>6, <3>1, <3>2 DEF ThreadWriters
  <2>4. Responses(kg, WorkOrder) \subseteq Responses(kg', WorkOrder)
    BY <2>1, ResponsesGrow DEF GraphGrows
  <2>5. PlanRead' BY <1>0, <2>2, <2>3, <2>4 DEF PlanRead
  <2> QED BY <1>3, <2>1, <2>2, <2>3, <2>5 DEF PlanInv
<1>7. CASE PlanStep
  <2>1. UNCHANGED <<kg, slow, marked, todo>>
    BY <1>7 DEF PlanStep, AskPlan, ReadPlan, PlanAnswered, writerVars
  <2>2. ASSUME PlanRead' PROVE PlanInv' BY <1>0, <1>1, <2>1, <2>2 DEF PlanInv
  <2>3. CASE AskPlan
    <3>1. /\ plan' = [at |-> 2, response |-> {}, requested |-> {}, executed |-> {}]
          /\ diff' = diff
      BY <2>3 DEF AskPlan
    <3>2. PlanRead' BY <3>1 DEF PlanRead
    <3> QED BY <1>3, <2>2, <3>1, <3>2
  <2>4. CASE PlanAnswered
    <3>1. plan' = None /\ diff' = diff BY <2>4 DEF PlanAnswered
    <3> QED BY <1>3, <2>2, <3>1 DEF PlanRead
  <2>5. CASE ReadPlan
    <3> DEFINE next == [plan EXCEPT !.at = @ + 1]
    <3>1. plan # None /\ plan.at \in 2..4
      <4>1. plan # None /\ plan.at \in DOMAIN PlanReads BY <2>5 DEF ReadPlan
      <4>2. DOMAIN PlanReads = 1..4 BY DEF PlanReads
      <4> QED BY <1>0, <4>1, <4>2 DEF PlanRead
    <3>2. /\ next = [at |-> plan.at + 1, response |-> plan.response,
                     requested |-> plan.requested, executed |-> plan.executed]
          /\ plan.response # {} => Responses(kg, WorkOrder) # {}
          /\ plan.at > 3 /\ plan.response # {} => plan.requested = Requested(kg, WorkOrder)
      BY <1>0, <3>1 DEF PlanRead
    <3>3. /\ plan.at = 2 => plan' = [next EXCEPT !.response = Responses(kg, WorkOrder)]
          /\ plan.at = 3 => plan' = [next EXCEPT !.requested = Requested(kg, WorkOrder)]
          /\ plan.at = 4 => plan' = [next EXCEPT !.executed =
                IF plan.response # {} THEN Executed(kg, WorkOrder) ELSE {}]
      BY <2>5 DEF ReadPlan, PlanReads
    <3>4. diff' = IF plan'.at \in DOMAIN PlanReads THEN diff
                  ELSE [of |-> PlanDiff(plan'.requested, plan'.executed),
                        hasResponse |-> plan'.response # {}]
      BY <2>5 DEF ReadPlan
    <3> HIDE DEF next
    <3>5. CASE plan.at = 2
      <4>1. plan' = [at |-> 3, response |-> Responses(kg, WorkOrder),
                     requested |-> plan.requested, executed |-> plan.executed]
        BY <3>2, <3>3, <3>5
      <4>2. diff' = diff BY <3>4, <4>1 DEF PlanReads
      <4>3. PlanRead' BY <2>1, <4>1 DEF PlanRead
      <4> QED BY <1>3, <2>2, <4>2, <4>3
    <3>6. CASE plan.at = 3
      <4>1. plan' = [at |-> 4, response |-> plan.response,
                     requested |-> Requested(kg, WorkOrder), executed |-> plan.executed]
        BY <3>2, <3>3, <3>6
      <4>2. diff' = diff BY <3>4, <4>1 DEF PlanReads
      <4>3. PlanRead' BY <2>1, <3>2, <4>1 DEF PlanRead
      <4> QED BY <1>3, <2>2, <4>2, <4>3
    <3>7. CASE plan.at = 4
      <4> DEFINE done == IF plan.response # {} THEN Executed(kg, WorkOrder) ELSE {}
      <4>1. plan' = [at |-> 5, response |-> plan.response,
                     requested |-> plan.requested, executed |-> done]
        BY <3>2, <3>3, <3>7
      <4> HIDE DEF done
      <4>2. diff' = [of |-> PlanDiff(plan.requested, done), hasResponse |-> plan.response # {}]
        BY <3>4, <4>1 DEF PlanReads
      <4>3. PlanRead' BY <2>1, <3>2, <3>7, <4>1 DEF PlanRead
      <4>4. DiffStep
        <5>1. SUFFICES ASSUME diff'.hasResponse
                       PROVE  diff'.of = PlanDiff(Requested(kg, WorkOrder), Executed(kg, WorkOrder))
          BY DEF DiffStep
        <5>2. plan.response # {} BY <4>2, <5>1
        <5>3. done = Executed(kg, WorkOrder) /\ plan.requested = Requested(kg, WorkOrder)
          BY <3>2, <3>7, <5>2 DEF done
        <5> QED BY <4>2, <5>3
      <4> QED BY <2>2, <4>3, <4>4
    <3> QED BY <3>1, <3>5, <3>6, <3>7
  <2> QED BY <1>7, <2>3, <2>4, <2>5 DEF PlanStep
<1> QED BY <1>4, <1>5, <1>6, <1>7, <1>8

-----------------------------------------------------------------------------
(* The concatenation of a conversation's turns *)

\* The first m sequences of a concatenation.
FlatUpTo(ss, m, f) ==
    f = [i \in 1..m |-> IF i = 1 THEN ss[i] ELSE f[i - 1] \o ss[i]]

LEMMA FlatUpToExists ==
    ASSUME NEW ss
    PROVE  \A m \in Nat : \E f : FlatUpTo(ss, m, f)
<1> DEFINE Upto(m, f) == FlatUpTo(ss, m, f)
           T == {m \in Nat : ~ \E f : Upto(m, f)}
<1>0. \A m \in Nat : \A f :
        Upto(m, f) <=> f = [i \in 1..m |-> IF i = 1 THEN ss[i] ELSE f[i - 1] \o ss[i]]
  BY DEF FlatUpTo
<1>1. SUFFICES ASSUME T # {} PROVE FALSE OBVIOUS
<1>2. PICK m \in T : \A k \in T : m <= k
  <2>1. T \subseteq Nat OBVIOUS
  <2> QED BY <1>1, <2>1, LeastNumber
<1>3. m \in Nat /\ \A f : ~Upto(m, f) OBVIOUS
<1>4. m # 0
  <2> DEFINE f == [i \in 1..0 |-> ss[i]]
  <2>1. f = [i \in 1..0 |-> IF i = 1 THEN ss[i] ELSE f[i - 1] \o ss[i]] OBVIOUS
  <2> HIDE DEF f, Upto
  <2>2. Upto(0, f) BY <1>0, <2>1, ZenonT(30)
  <2> QED BY <1>3, <2>2
<1>5. PICK f : Upto(m - 1, f)
  <2>1. m - 1 \in Nat /\ m - 1 \notin T BY <1>2, <1>3, <1>4
  <2> QED BY <2>1
<1> HIDE DEF Upto, T
<1>6. f = [i \in 1..(m - 1) |-> IF i = 1 THEN ss[i] ELSE f[i - 1] \o ss[i]]
  <2>1. m - 1 \in Nat BY <1>3, <1>4
  <2> QED BY <1>0, <1>5, <2>1
<1> DEFINE h == [i \in 1..m |-> IF i = 1 THEN ss[i] ELSE f[i - 1] \o ss[i]]
<1>7. \A i \in 1..(m - 1) : h[i] = f[i]
  <2>1. \A i \in 1..(m - 1) : f[i] = IF i = 1 THEN ss[i] ELSE f[i - 1] \o ss[i] BY <1>6
  <2>2. \A i \in 1..m : h[i] = IF i = 1 THEN ss[i] ELSE f[i - 1] \o ss[i] OBVIOUS
  <2>3. \A i \in 1..(m - 1) : i \in 1..m BY <1>3
  <2> HIDE DEF h
  <2> QED BY <2>1, <2>2, <2>3
<1>8. h = [i \in 1..m |-> IF i = 1 THEN ss[i] ELSE h[i - 1] \o ss[i]]
  <2>1. \A i \in 1..m : i # 1 => i - 1 \in 1..(m - 1) BY <1>3
  <2>2. \A i \in 1..m : i # 1 => h[i - 1] = f[i - 1] BY <1>7, <2>1
  <2> QED BY <2>2
<1> HIDE DEF h
<1>9. Upto(m, h) BY <1>0, <1>3, <1>8
<1> QED BY <1>3, <1>9

\* Two of them agree as far as their sequences do.
LEMMA FlatUpToAgree ==
    \A ss, tt, f, h : \A j, k \in Nat :
        j <= k /\ FlatUpTo(ss, j, f) /\ FlatUpTo(tt, k, h) /\ (\A i \in 1..j : ss[i] = tt[i])
          => \A i \in 1..j : f[i] = h[i]
<1> SUFFICES ASSUME NEW ss, NEW tt, NEW f, NEW h, NEW j \in Nat, NEW k \in Nat, j <= k,
                    FlatUpTo(ss, j, f), FlatUpTo(tt, k, h), \A i \in 1..j : ss[i] = tt[i]
             PROVE  \A i \in 1..j : f[i] = h[i]
  OBVIOUS
<1> DEFINE T == {n \in Nat : n \in 1..j /\ f[n] # h[n]}
<1>1. /\ f = [i \in 1..j |-> IF i = 1 THEN ss[i] ELSE f[i - 1] \o ss[i]]
      /\ h = [i \in 1..k |-> IF i = 1 THEN tt[i] ELSE h[i - 1] \o tt[i]]
  BY DEF FlatUpTo
<1>2. /\ \A i \in 1..j : f[i] = IF i = 1 THEN ss[i] ELSE f[i - 1] \o ss[i]
      /\ \A i \in 1..k : h[i] = IF i = 1 THEN tt[i] ELSE h[i - 1] \o tt[i]
  BY <1>1
<1>3. SUFFICES ASSUME T # {} PROVE FALSE
  <2>1. \A i \in 1..j : i \in Nat OBVIOUS
  <2> QED BY <2>1
<1>4. PICK m \in T : \A n \in T : m <= n
  <2>1. T \subseteq Nat OBVIOUS
  <2> QED BY <1>3, <2>1, LeastNumber
<1>5. m \in 1..j /\ m \in 1..k /\ f[m] # h[m] OBVIOUS
<1>6. m # 1 BY <1>2, <1>5
<1>7. m - 1 \in 1..j /\ m - 1 \in Nat /\ m - 1 \notin T BY <1>4, <1>5, <1>6
<1>8. f[m - 1] = h[m - 1] BY <1>7
<1> QED BY <1>2, <1>5, <1>6, <1>8

\* What FlattenSeq computes.
Flats(ss) == CHOOSE f : FlatUpTo(ss, Len(ss), f)

LEMMA FlattenIs ==
    ASSUME NEW ss, Len(ss) \in Nat
    PROVE  /\ FlatUpTo(ss, Len(ss), Flats(ss))
           /\ FlattenSeq(ss) = IF Len(ss) = 0 THEN ss ELSE Flats(ss)[Len(ss)]
<1>1. \E f : FlatUpTo(ss, Len(ss), f) BY FlatUpToExists
<1>2. FlatUpTo(ss, Len(ss), Flats(ss)) BY <1>1 DEF Flats
<1>3. Flats(ss) = CHOOSE f : f = [i \in 1..Len(ss) |-> IF i = 1 THEN ss[i] ELSE f[i - 1] \o ss[i]]
  BY DEF Flats, FlatUpTo
<1> QED BY <1>2, <1>3 DEF FlattenSeq

\* One more sequence is put at the end.
LEMMA FlattenAppend ==
    ASSUME NEW S, NEW ss \in Seq(Seq(S)), NEW s \in Seq(S), NEW w, Extends(w, ss, s)
    PROVE  /\ FlattenSeq(ss) \in Seq(S)
           /\ FlattenSeq(w) = FlattenSeq(ss) \o s
<1>a. w = Append(ss, s) BY DEF Extends
<1> DEFINE n == Len(ss)
           tt == Append(ss, s)
<1>1. /\ n \in Nat /\ tt \in Seq(Seq(S)) /\ Len(tt) = n + 1 /\ tt[n + 1] = s
      /\ \A i \in 1..n : tt[i] = ss[i] /\ ss[i] \in Seq(S)
  OBVIOUS
<1> HIDE DEF tt
<1>2. /\ FlatUpTo(ss, n, Flats(ss)) /\ FlatUpTo(tt, n + 1, Flats(tt))
      /\ FlattenSeq(ss) = IF n = 0 THEN ss ELSE Flats(ss)[n]
      /\ FlattenSeq(tt) = Flats(tt)[n + 1]
  <2>1. Len(ss) \in Nat /\ Len(tt) \in Nat /\ Len(tt) # 0 BY <1>1
  <2> QED BY <1>1, <2>1, FlattenIs
<1>3. PICK f, h : f = Flats(ss) /\ h = Flats(tt) OBVIOUS
<1>4. \A i \in 1..n : f[i] = h[i]
  <2>1. PICK j, k : j = n /\ k = n + 1 OBVIOUS
  <2>2. j \in Nat /\ k \in Nat /\ j <= k BY <1>1, <2>1
  <2>3. FlatUpTo(ss, j, f) /\ FlatUpTo(tt, k, h) BY <1>2, <1>3, <2>1
  <2>4. \A i \in 1..j : ss[i] = tt[i] BY <1>1, <2>1
  <2>5. PICK t : t = tt OBVIOUS
  <2>6. FlatUpTo(t, k, h) /\ \A i \in 1..j : ss[i] = t[i] BY <2>3, <2>4, <2>5
  <2>7. \A i \in 1..j : f[i] = h[i] BY <2>2, <2>3, <2>6, FlatUpToAgree
  <2> QED BY <2>1, <2>7
<1>5. \A i \in 1..(n + 1) : h[i] = IF i = 1 THEN tt[i] ELSE h[i - 1] \o tt[i]
  BY <1>2, <1>3 DEF FlatUpTo
<1>6. \A i \in 1..n : f[i] = IF i = 1 THEN ss[i] ELSE f[i - 1] \o ss[i]
  BY <1>2, <1>3 DEF FlatUpTo
<1>7. \A i \in 1..n : f[i] \in Seq(S)
  <2> DEFINE T == {i \in Nat : i \in 1..n /\ f[i] \notin Seq(S)}
  <2>1. SUFFICES ASSUME T # {} PROVE FALSE
    <3>1. \A i \in 1..n : i \in Nat OBVIOUS
    <3> QED BY <3>1
  <2>2. PICK m \in T : \A i \in T : m <= i
    <3>1. T \subseteq Nat OBVIOUS
    <3> QED BY <2>1, <3>1, LeastNumber
  <2>3. m \in 1..n /\ f[m] \notin Seq(S) OBVIOUS
  <2>4. ss[m] \in Seq(S) BY <1>1, <2>3
  <2>5. m # 1 BY <1>6, <2>3, <2>4
  <2>6. m - 1 \in 1..n /\ m - 1 \in Nat /\ m - 1 \notin T BY <1>1, <2>2, <2>3, <2>5
  <2>7. f[m - 1] \in Seq(S) BY <2>6
  <2>8. f[m - 1] \o ss[m] \in Seq(S) BY <2>4, <2>7, ConcatProperties
  <2> QED BY <1>6, <2>3, <2>5, <2>8
<1>8. CASE n = 0
  <2>1. ss = <<>> BY <1>8
  <2>2. FlattenSeq(ss) = <<>> BY <1>2, <1>8, <2>1
  <2>3. FlattenSeq(tt) = s BY <1>1, <1>2, <1>3, <1>5, <1>8
  <2>4. <<>> \in Seq(S) /\ <<>> \o s = s OBVIOUS
  <2> QED BY <1>a, <2>2, <2>3, <2>4 DEF tt
<1>9. CASE n # 0
  <2>1. n \in 1..n /\ n + 1 \in 1..(n + 1) /\ n + 1 # 1 /\ (n + 1) - 1 = n BY <1>1, <1>9
  <2>2. h[n + 1] = h[n] \o s BY <1>1, <1>5, <2>1
  <2>3. FlattenSeq(ss) = f[n] /\ FlattenSeq(tt) = h[n + 1] BY <1>2, <1>3, <1>9
  <2> QED BY <1>a, <1>4, <1>7, <2>1, <2>2, <2>3 DEF tt
<1> QED BY <1>8, <1>9

-----------------------------------------------------------------------------
(* What the agent is sent *)

Messages ==
    {x \in [role : {"user", "assistant", "tool"}, run : Nat, content : BOOLEAN, calls : BOOLEAN] :
        x.calls => x.role = "assistant"}
Talks(x) == x.role = "user" \/ (x.role = "assistant" /\ ~x.calls /\ x.content)

LEMMA MessagesAre ==
    ASSUME NEW n \in Nat
    PROVE  /\ Question(n) \in Messages /\ Talks(Question(n)) /\ ~Question(n).calls
           /\ Question(n).role = "user"
           /\ Reply(n) \in Messages /\ Talks(Reply(n)) /\ Reply(n).role = "assistant"
           /\ ToolCall(n) \in Messages /\ ~Talks(ToolCall(n)) /\ ToolCall(n).run = n
           /\ ToolCall(n).calls
           /\ ToolResult(n) \in Messages /\ ~Talks(ToolResult(n)) /\ ToolResult(n).run = n
           /\ ToolResult(n).role = "tool"
BY DEF Messages, Talks, Message, Question, Reply, ToolCall, ToolResult

\* One more message: a tool call or a result leaves the history as it is.
LEMMA HistoryGrows ==
    ASSUME NEW m \in Seq(Messages), NEW x \in Messages, NEW w, Extends(w, m, x)
    PROVE  /\ ConversationalHistory(m) \in Seq(Messages)
           /\ IF Talks(x)
              THEN Extends(ConversationalHistory(w), ConversationalHistory(m), x)
              ELSE ConversationalHistory(w) = ConversationalHistory(m)
<1> DEFINE I == {k \in DOMAIN m : Talks(m[k])}
           t == Append(m, x)
           J == {k \in DOMAIN t : Talks(t[k])}
           last == Len(m) + 1
<1>11. w = t BY DEF Extends
<1>1. /\ Len(m) \in Nat /\ DOMAIN m = 1..Len(m) /\ DOMAIN t = 1..last /\ t[last] = x
      /\ \A k \in 1..Len(m) : t[k] = m[k]
  OBVIOUS
<1>2. I \subseteq 1..Len(m) BY <1>1
<1>3. ConversationalHistory(m) = Kept(m, I) /\ ConversationalHistory(t) = Kept(t, J)
  BY DEF ConversationalHistory, Talks
<1>4. J = IF Talks(x) THEN I \cup {last} ELSE I
  <2>1. \A k \in 1..last : k \in 1..Len(m) \/ k = last BY <1>1
  <2>2. last \in 1..last /\ \A k \in 1..Len(m) : k \in 1..last BY <1>1
  <2> HIDE DEF t, last
  <2> QED BY <1>1, <2>1, <2>2
<1>5. PICK K : K = I OBVIOUS
<1>6. PICK L : L = I \cup {last} OBVIOUS
<1>7. PICK u : u = t OBVIOUS
<1>8. Indices(K, m) /\ WithNext(L, K, m) /\ Extends(u, m, x)
  BY <1>2, <1>5, <1>6, <1>7 DEF Indices, WithNext, Extends
<1>9. Kept(m, K) \in Seq(Messages) /\ Kept(u, K) = Kept(m, K) /\ Extends(Kept(u, L), Kept(m, K), x)
  BY <1>8, KeptAppend
<1> HIDE DEF I, J, t
<1>10. IF Talks(x) THEN Extends(Kept(t, J), Kept(m, I), x) ELSE Kept(t, J) = Kept(m, I)
  BY <1>4, <1>5, <1>6, <1>7, <1>9
<1> QED BY <1>3, <1>5, <1>7, <1>9, <1>10, <1>11

\* What is a history already stays one.
LEMMA HistoryOfHistory ==
    ASSUME NEW m \in Seq(Messages)
    PROVE  /\ ConversationalHistory(m) \in Seq(Messages)
           /\ \A k \in DOMAIN ConversationalHistory(m) : Talks(ConversationalHistory(m)[k])
           /\ ConversationalHistory(ConversationalHistory(m)) = ConversationalHistory(m)
<1> DEFINE I == {k \in DOMAIN m : Talks(m[k])}
           h == ConversationalHistory(m)
<1>1. h \in Seq(Messages) /\ h = Kept(m, I)
  <2>2. PICK x, w : x \in Messages /\ w = Append(m, x)
    <3>1. 0 \in Nat OBVIOUS
    <3>2. Question(0) \in Messages BY <3>1, MessagesAre
    <3> QED BY <3>2
  <2>3. Extends(w, m, x) BY <2>2 DEF Extends
  <2> QED BY <2>2, <2>3, HistoryGrows DEF ConversationalHistory, Talks
<1>2. IsFiniteSet(I) /\ I \subseteq Int
  <2>1. DOMAIN m = 1..Len(m) /\ Len(m) \in Nat OBVIOUS
  <2>2. I \subseteq 1..Len(m) /\ IsFiniteSet(1..Len(m)) BY <2>1, FS_Interval
  <2> QED BY <2>2, FS_Subset
<1>3. \A k \in I : Talks(m[k]) OBVIOUS
<1> HIDE DEF I
<1>4. PICK at \in [1..Cardinality(I) -> I] : Kept(m, I) = [n \in 1..Cardinality(I) |-> m[at[n]]]
  <2>1. \E k \in [1..Cardinality(I) -> I] :
            /\ Kept(m, I) = [n \in 1..Cardinality(I) |-> m[k[n]]]
            /\ \A i \in I : \E n \in 1..Cardinality(I) : k[n] = i
            /\ \A i, n \in 1..Cardinality(I) : i < n => k[i] < k[n]
    BY <1>2, KeptInOrder
  <2> QED BY <2>1
<1>5. \A k \in DOMAIN h : Talks(h[k]) BY <1>1, <1>3, <1>4
<1> HIDE DEF h
<1>6. {k \in DOMAIN h : Talks(h[k])} = 1..Len(h)
  <2>1. DOMAIN h = 1..Len(h) BY <1>1
  <2> QED BY <1>5, <2>1
<1>7. ConversationalHistory(h) = h BY <1>1, <1>6, KeptAll DEF ConversationalHistory, Talks
<1> QED BY <1>1, <1>5, <1>7 DEF h

\* One more block of a turn: a widget is not spoken.
LEMMA ProseGrows ==
    ASSUME NEW turn \in TurnTypes, NEW b \in Blocks, NEW next \in TurnTypes,
           next.blocks = Append(turn.blocks, b)
    PROVE  /\ ProseOf(turn) \in Seq(Blocks)
           /\ IF b.kind = "prose" THEN Extends(ProseOf(next), ProseOf(turn), b)
                                  ELSE ProseOf(next) = ProseOf(turn)
<1> DEFINE m == turn.blocks
           I == {k \in DOMAIN m : m[k].kind = "prose"}
           t == Append(m, b)
           J == {k \in DOMAIN t : t[k].kind = "prose"}
           last == Len(m) + 1
<1>0. m \in Seq(Blocks) BY DEF TurnTypes
<1> HIDE DEF m
<1>1. /\ Len(m) \in Nat /\ DOMAIN m = 1..Len(m) /\ DOMAIN t = 1..last /\ t[last] = b
      /\ \A k \in 1..Len(m) : t[k] = m[k]
  BY <1>0
<1>2. I \subseteq 1..Len(m) BY <1>1
<1>3. ProseOf(turn) = Kept(m, I) /\ ProseOf(next) = Kept(t, J) BY DEF ProseOf, m
<1>4. J = IF b.kind = "prose" THEN I \cup {last} ELSE I
  <2>1. \A k \in 1..last : k \in 1..Len(m) \/ k = last BY <1>1
  <2>2. last \in 1..last /\ \A k \in 1..Len(m) : k \in 1..last BY <1>1
  <2> HIDE DEF t, last
  <2> QED BY <1>1, <2>1, <2>2
<1>5. PICK K, s : K = I /\ s = m OBVIOUS
<1>6. PICK L, u : L = I \cup {last} /\ u = t OBVIOUS
<1>7. s \in Seq(Blocks) /\ Indices(K, s) /\ WithNext(L, K, s) /\ Extends(u, s, b)
  BY <1>0, <1>2, <1>5, <1>6 DEF Indices, WithNext, Extends
<1>8. Kept(s, K) \in Seq(Blocks) /\ Kept(u, K) = Kept(s, K) /\ Extends(Kept(u, L), Kept(s, K), b)
  BY <1>7, KeptAppend
<1> HIDE DEF I, J, t
<1> QED BY <1>3, <1>4, <1>5, <1>6, <1>8

\* What is said in a turn, when the runs in w called a tool from their prose.
SaidIn(turn, w) ==
    <<Question(turn.run)>>
        \o (IF turn.run \in w THEN <<>> ELSE [k \in DOMAIN ProseOf(turn) |-> Reply(turn.run)])

LEMMA SaidInTurn ==
    ASSUME NEW turn \in TurnTypes, NEW w
    PROVE  /\ SaidIn(turn, w) \in Seq(Messages)
           /\ (turn.run \in w \/ Len(ProseOf(turn)) = 0) => SaidIn(turn, w) = <<Question(turn.run)>>
           /\ (turn.run \notin w /\ Len(ProseOf(turn)) = 1) =>
                SaidIn(turn, w) = Append(<<Question(turn.run)>>, Reply(turn.run))
<1> DEFINE user == Question(turn.run)
           reply == Reply(turn.run)
           replies == [k \in DOMAIN ProseOf(turn) |-> reply]
<1>1. user \in Messages /\ reply \in Messages
  <2>1. turn.run \in Nat BY DEF TurnTypes
  <2> QED BY <2>1, MessagesAre
<1>2. SaidIn(turn, w) = <<user>> \o (IF turn.run \in w THEN <<>> ELSE replies) BY DEF SaidIn
<1>3. ProseOf(turn) \in Seq(Blocks)
  <2>1. turn.blocks \in Seq(Blocks) BY DEF TurnTypes
  <2>2. PICK b : b \in Blocks
    <3>1. [kind |-> "prose", run |-> 0] \in Blocks BY DEF Blocks
    <3> QED BY <3>1
  <2>3. PICK m : m = Append(turn.blocks, b) OBVIOUS
  <2>4. m \in Seq(Blocks) BY <2>1, <2>2, <2>3
  <2>5. PICK next : next = [id |-> turn.id, run |-> turn.run, blocks |-> m] OBVIOUS
  <2>6. next \in TurnTypes /\ next.blocks = Append(turn.blocks, b) BY <2>3, <2>4, <2>5 DEF TurnTypes
  <2> QED BY <2>2, <2>6, ProseGrows
<1>4. PICK n \in Nat : n = Len(ProseOf(turn)) BY <1>3
<1>5. replies = [k \in 1..n |-> reply] BY <1>3, <1>4
<1> HIDE DEF user, reply, replies
<1>6. replies \in [1..n -> Messages] BY <1>1, <1>5
<1>7. replies \in Seq(Messages) BY <1>6
<1>8. n = 0 => replies = <<>> BY <1>5
<1>9. n = 1 => replies = <<reply>> BY <1>5
<1>10. <<user>> \in Seq(Messages) /\ <<>> \in Seq(Messages) BY <1>1
<1>11. <<user>> \o <<>> = <<user>> /\ <<user>> \o <<reply>> = Append(<<user>>, reply)
  <2>1. PICK u : u = <<user>> OBVIOUS
  <2>2. u \in Seq(Messages) /\ u \o <<>> = u BY <1>10, <2>1
  <2>3. u \o <<reply>> = Append(u, reply) BY <1>1, <2>2, AppendIsConcat
  <2> QED BY <2>1, <2>2, <2>3
<1>12. SaidIn(turn, w) \in Seq(Messages) BY <1>2, <1>7, <1>10, ConcatProperties
<1>13. CASE turn.run \in w BY <1>2, <1>11, <1>12, <1>13 DEF user
<1>14. CASE turn.run \notin w
  <2>1. SaidIn(turn, w) = <<user>> \o replies BY <1>2, <1>14
  <2>2. n = 0 => SaidIn(turn, w) = <<user>> BY <1>8, <1>11, <2>1
  <2>3. n = 1 => SaidIn(turn, w) = Append(<<user>>, reply) BY <1>9, <1>11, <2>1
  <2> QED BY <1>4, <1>12, <1>14, <2>2, <2>3 DEF user, reply
<1> QED BY <1>13, <1>14

\* The conversation of some turns, and of one more.
Conversation(ts, w) == FlattenSeq([i \in DOMAIN ts |-> SaidIn(ts[i], w)])

LEMMA ConversationGrows ==
    ASSUME NEW ts \in Seq(TurnTypes), NEW turn \in TurnTypes, NEW u, Extends(u, ts, turn), NEW w
    PROVE  /\ Conversation(ts, w) \in Seq(Messages)
           /\ Conversation(u, w) = Conversation(ts, w) \o SaidIn(turn, w)
<1>1. Len(ts) \in Nat /\ DOMAIN ts = 1..Len(ts) /\ \A i \in 1..Len(ts) : ts[i] \in TurnTypes OBVIOUS
<1>2. PICK n, f : n = Len(ts) /\ f = [i \in 1..n |-> SaidIn(ts[i], w)] OBVIOUS
<1>3. \A t \in TurnTypes : SaidIn(t, w) \in Seq(Messages) BY SaidInTurn
<1>4. n \in Nat /\ f \in [1..n -> Seq(Messages)] BY <1>1, <1>2, <1>3
<1>5. PICK s : s = SaidIn(turn, w) OBVIOUS
<1>6. s \in Seq(Messages) BY <1>3, <1>5
<1>7. f \in Seq(Seq(Messages)) /\ [i \in 1..(n + 1) |-> IF i = n + 1 THEN s ELSE f[i]] = Append(f, s)
  BY <1>4, <1>6, ExtendedByOne
<1>8. PICK g : g = [i \in 1..(n + 1) |-> SaidIn(u[i], w)] OBVIOUS
<1>9. DOMAIN u = 1..(n + 1) /\ u[n + 1] = turn /\ \A i \in 1..n : u[i] = ts[i]
  BY <1>1, <1>2 DEF Extends
<1>10. g = Append(f, s)
  <2>1. \A i \in 1..(n + 1) : i # n + 1 => i \in 1..n BY <1>4
  <2>2. \A i \in 1..(n + 1) : SaidIn(u[i], w) = IF i = n + 1 THEN s ELSE f[i]
    BY <1>2, <1>5, <1>9, <2>1
  <2>3. g = [i \in 1..(n + 1) |-> IF i = n + 1 THEN s ELSE f[i]] BY <1>8, <2>2
  <2> QED BY <1>7, <2>3
<1>11. Extends(g, f, s) BY <1>10 DEF Extends
<1>12. FlattenSeq(f) \in Seq(Messages) /\ FlattenSeq(g) = FlattenSeq(f) \o s
  BY <1>6, <1>7, <1>11, FlattenAppend
<1>13. Conversation(ts, w) = FlattenSeq(f) /\ Conversation(u, w) = FlattenSeq(g)
  BY <1>1, <1>2, <1>8, <1>9 DEF Conversation
<1> QED BY <1>5, <1>12, <1>13

\* A run of another turn that calls a tool from its prose changes nothing.
LEMMA ConversationOfOthers ==
    ASSUME NEW ts, NEW w, NEW v, \A i \in DOMAIN ts : ts[i].run \in v <=> ts[i].run \in w
    PROVE  Conversation(ts, v) = Conversation(ts, w)
<1>1. \A i \in DOMAIN ts : SaidIn(ts[i], v) = SaidIn(ts[i], w) BY DEF SaidIn
<1> QED BY <1>1 DEF Conversation

\* The agent has heard what is on the screen, the one run is the last
\* turn's, its tool calls are the only ones that were not yet dropped, and
\* its prose is a message of its own until it calls a tool from it.
RunIsLast(r) ==
    /\ turns # <<>> /\ turns[Len(turns)].id = r.turn /\ turns[Len(turns)].run = r.run
    /\ \A i \in 1..Len(turns) : i # Len(turns) => turns[i].id # r.turn /\ turns[i].run # r.run
    /\ r.agent = agent.no /\ r.run = asked
    /\ \A k \in DOMAIN agent.messages :
        (agent.messages[k].role = "tool" \/ agent.messages[k].calls) => agent.messages[k].run = asked
ProseIsReply(r) ==
    /\ agent.messages # <<>>
    /\ agent.messages[Len(agent.messages)] = Reply(r.run) => "prose" \in r.drawn /\ r.run \notin withCall
    /\ "prose" \in r.drawn => Len(ProseOf(turns[Len(turns)])) = 1
    /\ "prose" \notin r.drawn => Len(ProseOf(turns[Len(turns)])) = 0 /\ r.run \notin withCall
HeardInv ==
    ~overlapped =>
    /\ agent = [no |-> agent.no, messages |-> agent.messages]
    /\ agent.messages \in Seq(Messages)
    /\ ConversationalHistory(agent.messages) = Conversation(turns, withCall)
    /\ \A r \in runs : RunIsLast(r) /\ ProseIsReply(r)

LEMMA HeardInvSays == HeardInv => AgentKnowsConversation
<1> SUFFICES ASSUME HeardInv, runs # {}, ~overlapped
             PROVE  /\ ConversationalHistory(agent.messages) =
                        FlattenSeq([i \in DOMAIN turns |-> Spoken(turns[i])])
                    /\ \A k \in DOMAIN agent.messages :
                        (agent.messages[k].role = "tool" \/ agent.messages[k].calls) =>
                            agent.messages[k].run = asked
  BY DEF AgentKnowsConversation
<1>1. /\ ConversationalHistory(agent.messages) = Conversation(turns, withCall)
      /\ \A r \in runs : RunIsLast(r)
  BY DEF HeardInv
<1>2. \A k \in DOMAIN agent.messages :
        (agent.messages[k].role = "tool" \/ agent.messages[k].calls) => agent.messages[k].run = asked
  BY <1>1 DEF RunIsLast
<1>3. \A i \in DOMAIN turns : SaidIn(turns[i], withCall) = Spoken(turns[i]) BY DEF SaidIn, Spoken
<1>4. Conversation(turns, withCall) = FlattenSeq([i \in DOMAIN turns |-> Spoken(turns[i])])
  BY <1>3 DEF Conversation
<1> QED BY <1>1, <1>2, <1>4

\* A new conversation, and no agent.
LEMMA NothingSaid ==
    ASSUME NEW w
    PROVE  Conversation(<<>>, w) = <<>> /\ ConversationalHistory(<<>>) = <<>>
<1>1. PICK none : none = <<>> OBVIOUS
<1>2. DOMAIN none = {} /\ none \in Seq(Messages) /\ Len(none) = 0 BY <1>1
<1>3. [i \in DOMAIN none |-> SaidIn(none[i], w)] = none
  <2>1. [i \in DOMAIN none |-> SaidIn(none[i], w)] = [i \in DOMAIN none |-> none[i]] BY <1>2
  <2>2. none = [i \in DOMAIN none |-> none[i]] BY <1>2
  <2> QED BY <2>1, <2>2
<1>4. Conversation(none, w) = none BY <1>2, <1>3, FlattenIs DEF Conversation
<1>5. {k \in DOMAIN none : Talks(none[k])} = 1..Len(none) BY <1>2
<1>6. ConversationalHistory(none) = none BY <1>2, <1>5, KeptAll DEF ConversationalHistory, Talks
<1> QED BY <1>1, <1>4, <1>6

LEMMA HeardStarts == AskInit => HeardInv
<1> SUFFICES ASSUME AskInit PROVE HeardInv OBVIOUS
<1>1. turns = <<>> /\ agent = [no |-> 0, messages |-> <<>>] /\ runs = {} BY DEF AskInit, NoAgent
<1>2. agent.messages = <<>> /\ agent.no = 0 BY <1>1
<1>3. ConversationalHistory(agent.messages) = Conversation(turns, withCall) BY <1>1, <1>2, NothingSaid
<1>4. agent.messages \in Seq(Messages) BY <1>2
<1> QED BY <1>1, <1>2, <1>3, <1>4 DEF HeardInv

\* All but the last, and the last.
LEMMA FrontAndLast ==
    ASSUME NEW S, NEW s \in Seq(S), s # <<>>
    PROVE  \E f \in Seq(S) :
            /\ Extends(s, f, s[Len(s)])
            /\ \A t \in Seq(S) :
                Len(t) = Len(s) /\ (\A i \in 1..Len(s) : i # Len(s) => t[i] = s[i])
                  => Extends(t, f, t[Len(s)])
<1>1. PICK n, f : n = Len(s) - 1 /\ f = [i \in 1..n |-> s[i]] OBVIOUS
<1>2. n \in Nat /\ Len(s) = n + 1 /\ DOMAIN s = 1..(n + 1) /\ \A i \in 1..(n + 1) : s[i] \in S
  BY <1>1
<1>3. \A i \in 1..n : i \in 1..(n + 1) /\ i # n + 1 BY <1>2
<1>4. f \in [1..n -> S] BY <1>1, <1>2, <1>3
<1>5. ASSUME NEW t \in Seq(S), Len(t) = Len(s), \A i \in 1..Len(s) : i # Len(s) => t[i] = s[i]
      PROVE  f \in Seq(S) /\ Extends(t, f, t[Len(s)])
  <2>1. PICK x : x = t[n + 1] OBVIOUS
  <2>2. x \in S
    <3>1. n + 1 \in 1..Len(t) BY <1>2, <1>5
    <3> QED BY <2>1, <3>1
  <2>3. f \in Seq(S) /\ [i \in 1..(n + 1) |-> IF i = n + 1 THEN x ELSE f[i]] = Append(f, x)
    BY <1>2, <1>4, <2>2, ExtendedByOne
  <2>4. \A i \in 1..(n + 1) : i # n + 1 => i \in 1..n BY <1>2
  <2>5. \A i \in 1..(n + 1) : t[i] = IF i = n + 1 THEN x ELSE f[i]
    BY <1>1, <1>2, <1>5, <2>1, <2>4
  <2>6. t = [i \in 1..(n + 1) |-> t[i]] BY <1>2, <1>5
  <2>7. t = Append(f, x) BY <2>3, <2>5, <2>6
  <2> QED BY <1>2, <2>1, <2>3, <2>7 DEF Extends
<1>6. f \in Seq(S) /\ Extends(s, f, s[Len(s)]) BY <1>5
<1> QED BY <1>5, <1>6

LEMMA HeardBegins ==
    ASSUME AskInv, HeardInv, BeginRun
    PROVE  HeardInv'
<1> SUFFICES ASSUME ~overlapped' PROVE HeardInv' BY DEF HeardInv
<1>0. ~overlapped BY DEF BeginRun
<1> DEFINE h == ConversationalHistory(agent.messages)
           n == asked + 1
           q == Question(asked + 1)
           turn == [id |-> seq, run |-> asked + 1, blocks |-> <<>>]
           run == [run |-> asked + 1, turn |-> seq, agent |-> agent'.no, drawn |-> {}]
<1>1. /\ turns \in Seq(TurnTypes) /\ seq \in Nat /\ asked \in Nat /\ withCall \subseteq 0..asked
      /\ \A i \in 1..Len(turns) : turns[i].id < seq /\ turns[i].run <= asked
  BY DEF AskInv, AskTypes
<1>2. agent.messages \in Seq(Messages) BY <1>0 DEF HeardInv
<1>3. /\ asked' = asked + 1 /\ turns' = Append(turns, turn) /\ runs' = runs \cup {run}
      /\ overlapped' = (overlapped \/ runs # {}) /\ withCall' = withCall
      /\ agent' = [no |-> agent'.no, messages |-> Append(h, q)]
  <2>1. agent' = [no |-> IF agent.no = 0 THEN agents' ELSE agent.no,
                  messages |-> Append(h, Question(asked'))]
    BY DEF BeginRun
  <2> QED BY <2>1 DEF BeginRun
<1>4. h \in Seq(Messages) /\ ConversationalHistory(h) = h /\ \A k \in DOMAIN h : Talks(h[k])
  BY <1>2, HistoryOfHistory
<1>5. q \in Messages /\ Talks(q) /\ q.role = "user" /\ ~q.calls
  <2>1. n \in Nat BY <1>1
  <2>2. PICK m : m = n OBVIOUS
  <2> QED BY <2>1, <2>2, MessagesAre
<1>6. turn \in TurnTypes /\ turn.blocks = <<>> /\ turn.id = seq /\ turn.run = n
  <2>1. <<>> \in Seq(Blocks) OBVIOUS
  <2> QED BY <1>1, <2>1 DEF TurnTypes
<1>7. run.turn = seq /\ run.run = n /\ run.agent = agent'.no /\ run.drawn = {} OBVIOUS
<1>8. PICK w : w = agent'.messages OBVIOUS
<1>9. w = Append(h, q) BY <1>3, <1>8
<1>10. PICK m : m = h OBVIOUS
<1>18. q = Question(n) /\ asked' = n BY <1>3
<1> HIDE DEF q, turn, run, h, n
<1>11. w \in Seq(Messages) BY <1>4, <1>5, <1>9
<1>12. SUFFICES /\ ConversationalHistory(w) = Conversation(turns', withCall)
                /\ \A r \in runs' : RunIsLast(r)' /\ ProseIsReply(r)'
  BY <1>3, <1>8, <1>11 DEF HeardInv
<1>13. runs' = {run} /\ h = Conversation(turns, withCall) BY <1>0, <1>3 DEF HeardInv, h
<1>14. ConversationalHistory(w) = Append(h, q)
  <2>1. Extends(w, m, q) /\ m \in Seq(Messages) BY <1>4, <1>9, <1>10 DEF Extends
  <2>3. Extends(ConversationalHistory(w), ConversationalHistory(m), q)
    BY <1>5, <2>1, HistoryGrows
  <2> QED BY <1>4, <1>10, <2>3 DEF Extends
<1>19. Len(ProseOf(turn)) = 0
  <2>1. DOMAIN turn.blocks = {} BY <1>6
  <2>2. {k \in DOMAIN turn.blocks : turn.blocks[k].kind = "prose"} = {} BY <2>1
  <2>3. ProseOf(turn) = Kept(turn.blocks, {}) BY <2>2 DEF ProseOf
  <2>4. IsFiniteSet({}) /\ {} \subseteq Int BY FS_EmptySet
  <2>5. Kept(turn.blocks, {}) = <<>> BY <2>4, LastKept
  <2> QED BY <2>3, <2>5
<1>15. Conversation(turns', withCall) = Append(h, q)
  <2>1. SaidIn(turn, withCall) = <<q>> BY <1>6, <1>18, <1>19, SaidInTurn
  <2>2. PICK t : t = turns' OBVIOUS
  <2>3. Extends(t, turns, turn) BY <1>3, <2>2 DEF Extends
  <2>4. Conversation(t, withCall) = Conversation(turns, withCall) \o SaidIn(turn, withCall)
    BY <1>1, <1>6, <2>3, ConversationGrows
  <2>5. Conversation(t, withCall) = h \o <<q>> BY <1>13, <2>1, <2>4
  <2>6. h \o <<q>> = Append(h, q) BY <1>4, <1>5
  <2> QED BY <2>2, <2>5, <2>6
<1>20. /\ Len(turns) \in Nat /\ Len(turns') = Len(turns) + 1 /\ turns'[Len(turns')] = turn
       /\ \A i \in 1..Len(turns) : turns'[i] = turns[i] /\ turns[i] \in TurnTypes
  BY <1>1, <1>3, <1>6
<1>21. DOMAIN w = 1..(Len(h) + 1) /\ w[Len(h) + 1] = q /\ DOMAIN h = 1..Len(h) /\ Len(h) \in Nat
       /\ Len(w) = Len(h) + 1 /\ \A k \in 1..Len(h) : w[k] = h[k]
  BY <1>4, <1>5, <1>9
<1>17. PICK r : r = run OBVIOUS
<1>16. RunIsLast(r)'
  <2>2. turns' # <<>> BY <1>1, <1>3
  <2>3. \A i \in 1..Len(turns') : i # Len(turns') => turns'[i].id # seq /\ turns'[i].run # n
    <3>1. \A i \in 1..Len(turns') : i # Len(turns') => i \in 1..Len(turns) BY <1>20
    <3>2. \A i \in 1..Len(turns) : turns[i].id # seq /\ turns[i].run # n
      <4>1. \A i \in 1..Len(turns) : turns[i].id \in Nat /\ turns[i].run \in Nat
        BY <1>20 DEF TurnTypes
      <4> QED BY <1>1, <4>1 DEF n
    <3> QED BY <1>20, <3>1, <3>2
  <2>4. \A k \in DOMAIN w : ~(w[k].role = "tool" \/ w[k].calls)
    <3>1. \A k \in 1..(Len(h) + 1) : k \in 1..Len(h) \/ k = Len(h) + 1 BY <1>21
    <3>2. ASSUME NEW k \in 1..Len(h) PROVE ~(h[k].role = "tool" \/ h[k].calls)
      <4>1. Talks(h[k]) /\ h[k] \in Messages BY <1>4, <1>21, <3>2
      <4> QED BY <4>1 DEF Talks, Messages
    <3> QED BY <1>5, <1>21, <3>1, <3>2
  <2> QED BY <1>3, <1>6, <1>7, <1>8, <1>17, <1>18, <1>20, <2>2, <2>3, <2>4 DEF RunIsLast
<1>22. ProseIsReply(r)'
  <2>1. w # <<>> /\ w[Len(w)] = q BY <1>21
  <2>2. q # Reply(n)
    <3>1. n \in Nat BY <1>1 DEF n
    <3>2. Reply(n).role = "assistant" BY <3>1, MessagesAre
    <3> QED BY <1>5, <3>2
  <2>3. n \notin withCall BY <1>1 DEF n
  <2>4. r.run = n /\ r.drawn = {} BY <1>7, <1>17
  <2>5. Len(ProseOf(turns'[Len(turns')])) = 0 BY <1>19, <1>20
  <2> QED BY <1>3, <1>8, <2>1, <2>2, <2>3, <2>4, <2>5 DEF ProseIsReply, ProseOf
<1> QED BY <1>13, <1>14, <1>15, <1>16, <1>17, <1>22

\* A patched turn is the last one, and the others stay.
LEMMA LastTurnGrows ==
    ASSUME AskInv, NEW r \in runs, RunIsLast(r), NEW what \in {"prose", "graph"},
           turns' = Patched(r, what)
    PROVE  /\ turns' \in Seq(TurnTypes) /\ Len(turns') = Len(turns) /\ turns' # <<>>
           /\ \A i \in 1..Len(turns) : turns'[i].id = turns[i].id /\ turns'[i].run = turns[i].run
           /\ turns[Len(turns)] \in TurnTypes /\ turns'[Len(turns)] \in TurnTypes
           /\ \E b \in Blocks : /\ b.kind = what
                                /\ turns'[Len(turns)].blocks = Append(turns[Len(turns)].blocks, b)
           /\ \E f \in Seq(TurnTypes) : /\ Extends(turns, f, turns[Len(turns)])
                                        /\ Extends(turns', f, turns'[Len(turns)])
<1> DEFINE block == [kind |-> what, run |-> r.run]
           n == Len(turns)
<1>1. turns \in Seq(TurnTypes) /\ r.run \in Nat BY DEF AskInv, AskTypes
<1>2. /\ turns # <<>> /\ turns[n].id = r.turn
      /\ \A i \in 1..n : i # n => turns[i].id # r.turn
  BY DEF RunIsLast
<1>3. /\ turns' \in Seq(TurnTypes) /\ Len(turns') = n
      /\ \A i \in 1..n : turns'[i].id = turns[i].id /\ turns'[i].run = turns[i].run
  BY BlockLands
<1>4. \A i \in 1..n : turns'[i] = IF turns[i].id = r.turn
                                 THEN [turns[i] EXCEPT !.blocks = Append(turns[i].blocks, block)]
                                 ELSE turns[i]
  <2>1. DOMAIN turns = 1..n BY <1>1
  <2> QED BY <2>1 DEF Patched
<1>5. block \in Blocks /\ block.kind = what BY <1>1 DEF Blocks
<1> HIDE DEF block
<1>6. n \in 1..n
  <2>1. n \in Nat /\ n # 0 BY <1>1, <1>2
  <2> QED BY <2>1
<1>7. /\ turns'[n] \in TurnTypes /\ turns[n] \in TurnTypes
      /\ turns'[n].blocks = Append(turns[n].blocks, block)
      /\ \A i \in 1..n : i # n => turns'[i] = turns[i]
  <2>1. turns'[n] \in TurnTypes /\ turns[n] \in TurnTypes BY <1>1, <1>3, <1>6
  <2>2. turns'[n] = [turns[n] EXCEPT !.blocks = Append(turns[n].blocks, block)] BY <1>2, <1>4, <1>6
  <2>3. turns'[n].blocks = Append(turns[n].blocks, block) BY <2>1, <2>2 DEF TurnTypes
  <2> QED BY <1>2, <1>4, <2>1, <2>3
<1>8. PICK f \in Seq(TurnTypes) :
        /\ Extends(turns, f, turns[Len(turns)])
        /\ \A u \in Seq(TurnTypes) :
            Len(u) = Len(turns) /\ (\A i \in 1..Len(turns) : i # Len(turns) => u[i] = turns[i])
              => Extends(u, f, u[Len(turns)])
  BY <1>1, <1>2, FrontAndLast
<1>9. Extends(turns', f, turns'[n])
  <2>1. PICK t : t = turns' OBVIOUS
  <2>2. t \in Seq(TurnTypes) /\ Len(t) = Len(turns)
        /\ \A i \in 1..Len(turns) : i # Len(turns) => t[i] = turns[i]
    BY <1>3, <1>7, <2>1
  <2>3. Extends(t, f, t[Len(turns)]) BY <1>8, <2>2
  <2> QED BY <2>1, <2>3
<1>10. turns' # <<>>
  <2>1. Len(turns') # 0 BY <1>3, <1>6
  <2> QED BY <2>1
<1> QED BY <1>3, <1>5, <1>7, <1>8, <1>9, <1>10

\* A concatenation and one more.
Reassociates(c, s, x) == Append(c \o s, x) = c \o Append(s, x)

LEMMA AppendToConcat ==
    ASSUME NEW S, NEW c \in Seq(S), NEW s \in Seq(S), NEW x \in S
    PROVE  Reassociates(c, s, x)
<1>1. PICK e, u : e = <<x>> /\ u = c \o s OBVIOUS
<1>2. e \in Seq(S) /\ u \in Seq(S) BY <1>1, ConcatProperties
<1>3. Append(u, x) = u \o e /\ Append(s, x) = s \o e BY <1>1, <1>2, AppendIsConcat
<1>4. (c \o s) \o e = c \o (s \o e) BY <1>2, ConcatAssociative
<1> QED BY <1>1, <1>3, <1>4 DEF Reassociates

LEMMA HeardProse ==
    ASSUME AskInv, HeardInv, NEW r \in runs, StreamsProse(r)
    PROVE  HeardInv'
<1> SUFFICES ASSUME ~overlapped PROVE HeardInv' BY DEF StreamsProse, HeardInv
<1> DEFINE next == [r EXCEPT !.drawn = r.drawn \cup {"prose"}]
           n == Len(turns)
<1>1. /\ turns \in Seq(TurnTypes) /\ IsRun(r) /\ r.run \in Nat /\ asked \in Nat /\ runs = {r}
  BY DEF AskInv, AskTypes, OneRun
<1>2. agent.messages \in Seq(Messages) /\ agent = [no |-> agent.no, messages |-> agent.messages]
  BY DEF HeardInv
<1>3. /\ runs' = (runs \ {r}) \cup {next} /\ turns' = Patched(r, "prose") /\ "prose" \notin r.drawn
      /\ UNCHANGED <<asked, overlapped, withCall>>
      /\ agent' = IF agent.no = r.agent
                  THEN [no |-> agent.no, messages |-> Append(agent.messages, Reply(r.run))] ELSE agent
  <2>1. agent' = IF agent.no = r.agent
                 THEN [agent EXCEPT !.messages = Append(agent.messages, Reply(r.run))] ELSE agent
    BY DEF StreamsProse, Heard
  <2>2. [agent EXCEPT !.messages = Append(agent.messages, Reply(r.run))]
          = [no |-> agent.no, messages |-> Append(agent.messages, Reply(r.run))]
    BY <1>2
  <2> QED BY <2>1, <2>2 DEF StreamsProse
<1>4. next.run = r.run /\ next.turn = r.turn /\ next.agent = r.agent /\ "prose" \in next.drawn
  BY <1>1 DEF IsRun
<1>5. PICK x : x = Reply(r.run) OBVIOUS
<1>6. x \in Messages /\ Talks(x) /\ x.role = "assistant" /\ ~x.calls
  <2>1. Reply(r.run) \in Messages /\ Talks(Reply(r.run)) /\ Reply(r.run).role = "assistant"
    BY <1>1, MessagesAre
  <2> QED BY <1>5, <2>1 DEF Talks
<1> HIDE DEF next
<1>7. agent'.messages \in Seq(Messages) /\ agent' = [no |-> agent'.no, messages |-> agent'.messages]
  <2>1. Append(agent.messages, Reply(r.run)) \in Seq(Messages) BY <1>2, <1>5, <1>6
  <2> QED BY <1>2, <1>3, <2>1
<1>8. SUFFICES /\ ConversationalHistory(agent'.messages) = Conversation(turns', withCall)
               /\ \A s \in runs' : RunIsLast(s)' /\ ProseIsReply(s)'
  BY <1>3, <1>7 DEF HeardInv
<1>9. /\ ConversationalHistory(agent.messages) = Conversation(turns, withCall)
      /\ RunIsLast(r) /\ ProseIsReply(r) /\ runs' = {next}
  BY <1>1, <1>3 DEF HeardInv
<1>10. /\ turns[n].id = r.turn /\ turns[n].run = r.run /\ r.agent = agent.no
       /\ \A i \in 1..n : i # n => turns[i].id # r.turn /\ turns[i].run # r.run
       /\ r.run = asked
       /\ \A k \in DOMAIN agent.messages :
            (agent.messages[k].role = "tool" \/ agent.messages[k].calls) => agent.messages[k].run = asked
  BY <1>9 DEF RunIsLast
<1>11. Len(ProseOf(turns[n])) = 0 /\ r.run \notin withCall BY <1>3, <1>9 DEF ProseIsReply
<1>12. PICK m, w : m = agent.messages /\ w = agent'.messages OBVIOUS
<1>13. w = Append(m, x) /\ m \in Seq(Messages) BY <1>2, <1>3, <1>5, <1>10, <1>12
<1>14. PICK t, old, new : t = turns' /\ old = turns[n] /\ new = turns'[n] OBVIOUS
<1>15. /\ t \in Seq(TurnTypes) /\ Len(t) = n /\ t # <<>> /\ n \in Nat
       /\ \A i \in 1..n : t[i].id = turns[i].id /\ t[i].run = turns[i].run
       /\ old \in TurnTypes /\ new \in TurnTypes
       /\ \E b \in Blocks : b.kind = "prose" /\ new.blocks = Append(old.blocks, b)
       /\ \E f \in Seq(TurnTypes) : Extends(turns, f, old) /\ Extends(t, f, new)
  BY <1>1, <1>3, <1>9, <1>14, LastTurnGrows
<1>16. n \in 1..n
  <2>1. n # 0 BY <1>15
  <2> QED BY <1>15, <2>1
<1>17. PICK b \in Blocks : b.kind = "prose" /\ new.blocks = Append(old.blocks, b) BY <1>15
<1>18. PICK f \in Seq(TurnTypes) : Extends(turns, f, old) /\ Extends(t, f, new) BY <1>15
<1>19. Len(ProseOf(new)) = 1
  <2>1. ProseOf(old) \in Seq(Blocks) /\ Extends(ProseOf(new), ProseOf(old), b)
    BY <1>15, <1>17, ProseGrows
  <2>2. Len(ProseOf(old)) = 0 BY <1>11, <1>14
  <2> QED BY <2>1, <2>2 DEF Extends
<1>20. PICK q : q = <<Question(r.run)>> OBVIOUS
<1>21. SaidIn(old, withCall) = q /\ SaidIn(new, withCall) = Append(q, x) /\ q \in Seq(Messages)
  <2>1. old.run = r.run /\ new.run = r.run BY <1>10, <1>14, <1>15, <1>16
  <2>2. SaidIn(old, withCall) = <<Question(r.run)>> /\ SaidIn(old, withCall) \in Seq(Messages)
    BY <1>11, <1>14, <1>15, <2>1, SaidInTurn
  <2>3. SaidIn(new, withCall) = Append(<<Question(r.run)>>, Reply(r.run))
    BY <1>11, <1>15, <1>19, <2>1, SaidInTurn
  <2> QED BY <1>5, <1>20, <2>2, <2>3
<1>22. ConversationalHistory(w) = Conversation(t, withCall)
  <2>1. PICK c : c = Conversation(f, withCall) OBVIOUS
  <2>2. /\ Conversation(turns, withCall) = c \o q /\ Conversation(t, withCall) = c \o Append(q, x)
        /\ c \in Seq(Messages)
    <3>1. /\ Conversation(f, withCall) \in Seq(Messages)
          /\ Conversation(turns, withCall) = Conversation(f, withCall) \o SaidIn(old, withCall)
          /\ Conversation(t, withCall) = Conversation(f, withCall) \o SaidIn(new, withCall)
      <4>1. PICK u, v : u = turns /\ v = withCall OBVIOUS
      <4>2. Extends(u, f, old) /\ Extends(t, f, new) BY <1>18, <4>1
      <4>3. Conversation(f, v) \in Seq(Messages) /\ Conversation(u, v) = Conversation(f, v) \o SaidIn(old, v)
        BY <1>15, <4>2, ConversationGrows
      <4>4. Conversation(t, v) = Conversation(f, v) \o SaidIn(new, v) BY <1>15, <4>2, ConversationGrows
      <4> QED BY <4>1, <4>3, <4>4
    <3> QED BY <1>21, <2>1, <3>1
  <2>3. Extends(w, m, x) BY <1>13 DEF Extends
  <2>4. ConversationalHistory(w) = Append(ConversationalHistory(m), x)
    BY <1>6, <1>13, <2>3, HistoryGrows DEF Extends
  <2>5. Reassociates(c, q, x) BY <1>6, <1>21, <2>2, AppendToConcat
  <2> QED BY <1>9, <1>12, <2>2, <2>4, <2>5 DEF Reassociates
<1>23. PICK s : s = next OBVIOUS
<1>24. DOMAIN w = 1..(Len(m) + 1) /\ w[Len(m) + 1] = x /\ DOMAIN m = 1..Len(m) /\ Len(m) \in Nat
       /\ Len(w) = Len(m) + 1 /\ \A k \in 1..Len(m) : w[k] = m[k]
  BY <1>6, <1>13
<1>25. RunIsLast(s)'
  <2>1. agent'.no = agent.no BY <1>3
  <2>2. \A k \in DOMAIN w : (w[k].role = "tool" \/ w[k].calls) => w[k].run = asked
    <3>1. \A k \in 1..(Len(m) + 1) : k \in 1..Len(m) \/ k = Len(m) + 1 BY <1>24
    <3>2. \A k \in 1..Len(m) : (m[k].role = "tool" \/ m[k].calls) => m[k].run = asked
      BY <1>10, <1>12, <1>24
    <3> QED BY <1>6, <1>24, <3>1, <3>2
  <2>3. /\ turns' # <<>> /\ turns'[Len(turns')].id = r.turn /\ turns'[Len(turns')].run = r.run
        /\ \A i \in 1..Len(turns') : i # Len(turns') => turns'[i].id # r.turn /\ turns'[i].run # r.run
    BY <1>10, <1>14, <1>15, <1>16
  <2> QED BY <1>3, <1>4, <1>10, <1>12, <1>23, <2>1, <2>2, <2>3 DEF RunIsLast
<1>26. ProseIsReply(s)'
  <2>1. w # <<>> BY <1>24
  <2>2. Len(ProseOf(turns'[Len(turns')])) = 1 BY <1>14, <1>15, <1>19
  <2> QED BY <1>3, <1>4, <1>11, <1>12, <1>23, <2>1, <2>2 DEF ProseIsReply, ProseOf
<1> QED BY <1>9, <1>12, <1>14, <1>22, <1>23, <1>25, <1>26

\* What can be put at the end is determined, and so is what was there.
LEMMA AppendsEqual ==
    ASSUME NEW S, NEW s \in Seq(S), NEW t \in Seq(S), NEW x \in S, NEW u, Extends(u, s, x), Extends(u, t, x)
    PROVE  s = t
<1>1. Append(s, x) = Append(t, x) BY DEF Extends
<1>2. Len(s) = Len(t) /\ Len(s) \in Nat
  <2>1. Len(Append(s, x)) = Len(s) + 1 /\ Len(Append(t, x)) = Len(t) + 1 OBVIOUS
  <2> QED BY <1>1, <2>1
<1>3. \A i \in 1..Len(s) : s[i] = t[i]
  <2>1. \A i \in 1..Len(s) : Append(s, x)[i] = s[i] /\ Append(t, x)[i] = t[i] BY <1>2
  <2> QED BY <1>1, <2>1
<1> QED BY <1>2, <1>3

\* What a call and its result do to the messages: a call in a message of its
\* own leaves the history as it is, one from the prose takes that out of it.
WithOwnCall(m, n) == Append(m, ToolCall(n))
WithResult(m, n, tool) == m \o (IF tool = "query" THEN <<ToolResult(n)>> ELSE <<>>)

CallMade(m, n, own, mid) ==
    /\ m # <<>> /\ (own \/ m[Len(m)] = Reply(n))
    /\ mid = IF own THEN WithOwnCall(m, n) ELSE Attached(m)
CallIsIn(m, n, own, mid) ==
    /\ mid \in Seq(Messages) /\ mid # <<>> /\ mid[Len(mid)] # Reply(n)
    /\ \A k \in DOMAIN mid : mid[k].run = n \/ \E j \in DOMAIN m : mid[k] = m[j]
    /\ IF own THEN ConversationalHistory(mid) = ConversationalHistory(m)
       ELSE Extends(ConversationalHistory(m), ConversationalHistory(mid), Reply(n))
    /\ ConversationalHistory(mid) \in Seq(Messages)

LEMMA CallHeard ==
    ASSUME NEW m \in Seq(Messages), NEW n \in Nat, NEW own \in BOOLEAN, NEW mid,
           CallMade(m, n, own, mid)
    PROVE  CallIsIn(m, n, own, mid)
<1> SUFFICES ASSUME m # <<>>, own \/ m[Len(m)] = Reply(n),
                    mid = IF own THEN WithOwnCall(m, n) ELSE Attached(m)
             PROVE  /\ mid \in Seq(Messages) /\ mid # <<>> /\ mid[Len(mid)] # Reply(n)
                    /\ \A k \in DOMAIN mid : mid[k].run = n \/ \E j \in DOMAIN m : mid[k] = m[j]
                    /\ IF own THEN ConversationalHistory(mid) = ConversationalHistory(m)
                       ELSE Extends(ConversationalHistory(m), ConversationalHistory(mid), Reply(n))
                    /\ ConversationalHistory(mid) \in Seq(Messages)
  BY DEF CallMade, CallIsIn
<1> DEFINE Good(x, f) ==
        /\ x \in Messages /\ ~Talks(x) /\ x.run = n /\ f \in Seq(Messages) /\ Extends(mid, f, x)
        /\ \A k \in DOMAIN f : k \in DOMAIN m /\ f[k] = m[k]
<1>0. Reply(n) \in Messages /\ Talks(Reply(n)) /\ Reply(n).run = n /\ ToolCall(n) \in Messages
      /\ ~Talks(ToolCall(n)) /\ ToolCall(n).run = n
  <2>1. Reply(n).run = n BY DEF Reply, Message
  <2> QED BY <2>1, MessagesAre
<1>1. ASSUME NEW x, NEW f, Good(x, f)
      PROVE  /\ mid \in Seq(Messages) /\ mid # <<>> /\ mid[Len(mid)] # Reply(n)
             /\ \A k \in DOMAIN mid : mid[k].run = n \/ \E j \in DOMAIN m : mid[k] = m[j]
             /\ ConversationalHistory(mid) = ConversationalHistory(f)
             /\ ConversationalHistory(f) \in Seq(Messages)
  <2>1. mid = Append(f, x) /\ f \in Seq(Messages) /\ x \in Messages BY <1>1 DEF Extends
  <2>2. /\ mid \in Seq(Messages) /\ Len(mid) = Len(f) + 1 /\ Len(f) \in Nat /\ mid[Len(mid)] = x
        /\ DOMAIN mid = 1..(Len(f) + 1) /\ DOMAIN f = 1..Len(f) /\ \A k \in 1..Len(f) : mid[k] = f[k]
    <3>1. PICK g, y, S : g = f /\ y = x /\ S = Messages OBVIOUS
    <3>2. g \in Seq(S) /\ y \in S /\ mid = Append(g, y) BY <2>1, <3>1
    <3>3. mid \in Seq(S) /\ Len(mid) = Len(g) + 1 /\ Len(g) \in Nat BY <3>2
    <3>4. mid[Len(mid)] = y BY <3>2, <3>3
    <3>5. DOMAIN mid = 1..(Len(g) + 1) /\ DOMAIN g = 1..Len(g) BY <3>2, <3>3
    <3>6. \A k \in 1..Len(g) : mid[k] = g[k] BY <3>2
    <3> QED BY <3>1, <3>3, <3>4, <3>5, <3>6
  <2>3. mid # <<>> BY <2>2
  <2>4. x # Reply(n) BY <1>0, <1>1
  <2>5. ASSUME NEW k \in DOMAIN mid PROVE mid[k].run = n \/ \E j \in DOMAIN m : mid[k] = m[j]
    <3>1. k \in 1..Len(f) \/ k = Len(mid) BY <2>2
    <3> QED BY <1>1, <2>2, <3>1
  <2>6. ConversationalHistory(mid) = ConversationalHistory(f) /\ ConversationalHistory(f) \in Seq(Messages)
    BY <1>1, HistoryGrows
  <2> QED BY <2>2, <2>3, <2>4, <2>5, <2>6
<1>2. CASE own
  <2>1. Good(ToolCall(n), m) BY <1>0, <1>2 DEF WithOwnCall, Extends
  <2> HIDE DEF Good
  <2> QED BY <1>1, <1>2, <2>1
<1>3. CASE ~own
  <2>1. PICK f \in Seq(Messages) : Extends(m, f, m[Len(m)]) BY FrontAndLast
  <2>2. m = Append(f, Reply(n)) BY <1>3, <2>1 DEF Extends
  <2>3. PICK x : x = [Reply(n) EXCEPT !.calls = TRUE] OBVIOUS
  <2>4. x \in Messages /\ ~Talks(x) /\ x.run = n BY <2>3 DEF Messages, Talks, Reply, Message
  <2>5. Len(m) = Len(f) + 1 /\ Len(f) \in Nat /\ \A k \in 1..Len(f) : m[k] = f[k] BY <1>0, <2>2
  <2>6. Front(m) = f
    <3>1. PICK i : i = Len(f) OBVIOUS
    <3>2. Front(m) = SubSeq(m, 1, i)
      <4>1. Len(m) - 1 = i BY <2>5, <3>1
      <4> QED BY <4>1 DEF Front
    <3>3. SubSeq(m, 1, i) = [k \in 1..i |-> m[k]] BY <2>5, <3>1
    <3>4. f = [k \in 1..i |-> f[k]] BY <3>1
    <3> QED BY <2>5, <3>1, <3>2, <3>3, <3>4
  <2>7. mid = Append(f, x) BY <1>3, <2>3, <2>6 DEF Attached, Last
  <2>8. DOMAIN f = 1..Len(f) /\ DOMAIN m = 1..Len(m) OBVIOUS
  <2>9. Good(x, f) BY <2>4, <2>5, <2>7, <2>8 DEF Extends
  <2> HIDE DEF Good
  <2>10. /\ mid \in Seq(Messages) /\ mid # <<>> /\ mid[Len(mid)] # Reply(n)
         /\ \A k \in DOMAIN mid : mid[k].run = n \/ \E j \in DOMAIN m : mid[k] = m[j]
         /\ ConversationalHistory(mid) = ConversationalHistory(f)
         /\ ConversationalHistory(f) \in Seq(Messages)
    BY <1>1, <2>9
  <2>11. PICK y : y = Reply(n) OBVIOUS
  <2>12. Extends(m, f, y) /\ y \in Messages /\ Talks(y) BY <1>0, <2>2, <2>11 DEF Extends
  <2>13. Extends(ConversationalHistory(m), ConversationalHistory(f), y) BY <2>12, HistoryGrows
  <2> QED BY <1>3, <2>10, <2>11, <2>13
<1> QED BY <1>2, <1>3

LEMMA ResultHeard ==
    ASSUME NEW mid \in Seq(Messages), mid # <<>>, NEW n \in Nat, mid[Len(mid)] # Reply(n), NEW tool,
           NEW w, w = WithResult(mid, n, tool)
    PROVE  /\ w \in Seq(Messages) /\ w # <<>> /\ w[Len(w)] # Reply(n)
           /\ \A k \in DOMAIN w : w[k].run = n \/ \E j \in DOMAIN mid : w[k] = mid[j]
           /\ ConversationalHistory(w) = ConversationalHistory(mid)
<1>1. CASE tool # "query"
  <2>1. mid \o <<>> = mid OBVIOUS
  <2> QED BY <1>1, <2>1 DEF WithResult
<1>2. CASE tool = "query"
  <2>1. PICK x : x = ToolResult(n) OBVIOUS
  <2>2. x \in Messages /\ ~Talks(x) /\ x.run = n /\ x # Reply(n)
    <3>1. ToolResult(n) # Reply(n) BY MessagesAre
    <3> QED BY <2>1, <3>1, MessagesAre
  <2>3. w = Append(mid, x)
    <3>1. w = mid \o <<x>> BY <1>2, <2>1 DEF WithResult
    <3>2. Append(mid, x) = mid \o <<x>> BY <2>2, AppendIsConcat
    <3> QED BY <3>1, <3>2
  <2>4. /\ w \in Seq(Messages) /\ Len(w) = Len(mid) + 1 /\ Len(mid) \in Nat /\ w[Len(w)] = x
        /\ DOMAIN w = 1..(Len(mid) + 1) /\ DOMAIN mid = 1..Len(mid)
        /\ \A k \in 1..Len(mid) : w[k] = mid[k]
    BY <2>2, <2>3
  <2>5. w # <<>> BY <2>4
  <2>6. ASSUME NEW k \in DOMAIN w PROVE w[k].run = n \/ \E j \in DOMAIN mid : w[k] = mid[j]
    <3>1. k \in 1..Len(mid) \/ k = Len(w) BY <2>4
    <3> QED BY <2>2, <2>4, <3>1
  <2>7. ConversationalHistory(w) = ConversationalHistory(mid)
    <3>1. Extends(w, mid, x) BY <2>3 DEF Extends
    <3> QED BY <2>2, <3>1, HistoryGrows
  <2> QED BY <2>2, <2>4, <2>5, <2>6, <2>7
<1> QED BY <1>1, <1>2

LEMMA HeardCalls ==
    ASSUME AskInv, HeardInv, NEW r \in runs, NEW tool \in {"graph", "query"}, CallsTool(r, tool)
    PROVE  HeardInv'
<1> SUFFICES ASSUME ~overlapped PROVE HeardInv' BY DEF CallsTool, HeardInv
<1> DEFINE next == [r EXCEPT !.drawn = r.drawn \cup {tool}]
           n == Len(turns)
<1>1. /\ turns \in Seq(TurnTypes) /\ IsRun(r) /\ r.run \in Nat /\ asked \in Nat /\ runs = {r}
  BY DEF AskInv, AskTypes, OneRun
<1>2. /\ agent.messages \in Seq(Messages) /\ agent = [no |-> agent.no, messages |-> agent.messages]
      /\ ConversationalHistory(agent.messages) = Conversation(turns, withCall)
      /\ RunIsLast(r) /\ ProseIsReply(r)
  BY DEF HeardInv
<1>3. /\ runs' = (runs \ {r}) \cup {next} /\ UNCHANGED <<asked, overlapped>>
      /\ turns' = IF tool = "graph" THEN Patched(r, tool) ELSE turns
  BY DEF CallsTool
<1>4. PICK own \in {TRUE, ~AfterProse(r)} :
        /\ agent' = Heard(r, (IF own THEN Append(agent.messages, ToolCall(r.run))
                                     ELSE Attached(agent.messages))
                               \o (IF tool = "query" THEN <<ToolResult(r.run)>> ELSE <<>>))
        /\ withCall' = IF own THEN withCall ELSE withCall \cup {r.run}
  BY DEF CallsTool
<1>5. PICK m, mid, w : /\ m = agent.messages
                       /\ mid = IF own THEN WithOwnCall(m, r.run) ELSE Attached(m)
                       /\ w = WithResult(mid, r.run, tool)
  OBVIOUS
<1>6. agent' = IF agent.no = r.agent THEN [no |-> agent.no, messages |-> w] ELSE agent
  <2>1. agent' = Heard(r, w) BY <1>4, <1>5 DEF WithOwnCall, WithResult
  <2>2. [agent EXCEPT !.messages = w] = [no |-> agent.no, messages |-> w] BY <1>2
  <2> QED BY <2>1, <2>2 DEF Heard
<1>7. /\ next.run = r.run /\ next.turn = r.turn /\ next.agent = r.agent
      /\ "prose" \in next.drawn <=> "prose" \in r.drawn
  BY <1>1 DEF IsRun
<1> HIDE DEF next
<1>8. own \in BOOLEAN /\ (~own => AfterProse(r)) BY <1>4
<1>9. m \in Seq(Messages) /\ r.run \in Nat BY <1>1, <1>2, <1>5
<1>10. /\ turns[n].id = r.turn /\ turns[n].run = r.run /\ r.agent = agent.no
       /\ \A i \in 1..n : i # n => turns[i].id # r.turn /\ turns[i].run # r.run
       /\ r.run = asked /\ turns # <<>>
       /\ \A k \in DOMAIN m : (m[k].role = "tool" \/ m[k].calls) => m[k].run = asked
  BY <1>2, <1>5 DEF RunIsLast
<1>11. own \/ m[Len(m)] = Reply(r.run) BY <1>5, <1>8 DEF AfterProse, Last
<1>12. m # <<>> BY <1>2, <1>5 DEF ProseIsReply
<1>13. /\ mid \in Seq(Messages) /\ mid # <<>> /\ mid[Len(mid)] # Reply(r.run)
       /\ \A k \in DOMAIN mid : mid[k].run = r.run \/ \E j \in DOMAIN m : mid[k] = m[j]
       /\ IF own THEN ConversationalHistory(mid) = ConversationalHistory(m)
          ELSE Extends(ConversationalHistory(m), ConversationalHistory(mid), Reply(r.run))
       /\ ConversationalHistory(mid) \in Seq(Messages)
  <2>1. CallMade(m, r.run, own, mid) BY <1>5, <1>11, <1>12 DEF CallMade
  <2>2. CallIsIn(m, r.run, own, mid) BY <1>8, <1>9, <2>1, CallHeard
  <2> QED BY <2>2 DEF CallIsIn
<1>14. /\ w \in Seq(Messages) /\ w # <<>> /\ w[Len(w)] # Reply(r.run)
       /\ \A k \in DOMAIN w : w[k].run = r.run \/ \E j \in DOMAIN mid : w[k] = mid[j]
       /\ ConversationalHistory(w) = ConversationalHistory(mid)
  BY <1>5, <1>9, <1>13, ResultHeard
<1>15. agent'.messages = w /\ agent'.no = agent.no /\ agent' = [no |-> agent'.no, messages |-> agent'.messages]
  BY <1>6, <1>10
<1>16. runs' = {next} BY <1>1, <1>3
<1>17. SUFFICES /\ ConversationalHistory(w) = Conversation(turns', withCall')
                /\ RunIsLast(next)' /\ ProseIsReply(next)'
  <2>1. PICK s : s = next OBVIOUS
  <2> QED BY <1>14, <1>15, <1>16, <2>1 DEF HeardInv
<1>18. PICK t, old, new : t = turns' /\ old = turns[n] /\ new = turns'[n] OBVIOUS
<1>19. /\ t \in Seq(TurnTypes) /\ Len(t) = n /\ t # <<>> /\ n \in Nat
       /\ \A i \in 1..n : t[i].id = turns[i].id /\ t[i].run = turns[i].run
       /\ old \in TurnTypes /\ new \in TurnTypes /\ ProseOf(new) = ProseOf(old)
       /\ \E f \in Seq(TurnTypes) : Extends(turns, f, old) /\ Extends(t, f, new)
  <2>1. CASE tool = "graph"
    <3>1. turns' = Patched(r, "graph") BY <1>3, <2>1
    <3>2. /\ t \in Seq(TurnTypes) /\ Len(t) = n /\ t # <<>> /\ n \in Nat
          /\ \A i \in 1..n : t[i].id = turns[i].id /\ t[i].run = turns[i].run
          /\ old \in TurnTypes /\ new \in TurnTypes
          /\ \E b \in Blocks : b.kind = "graph" /\ new.blocks = Append(old.blocks, b)
          /\ \E f \in Seq(TurnTypes) : Extends(turns, f, old) /\ Extends(t, f, new)
      BY <1>1, <1>2, <1>18, <3>1, LastTurnGrows
    <3>3. PICK b \in Blocks : b.kind = "graph" /\ new.blocks = Append(old.blocks, b) BY <3>2
    <3>4. ProseOf(new) = ProseOf(old) BY <3>2, <3>3, ProseGrows
    <3> QED BY <3>2, <3>4
  <2>2. CASE tool # "graph"
    <3>1. t = turns /\ new = old BY <1>3, <1>18, <2>2
    <3>2. n \in Nat /\ n # 0 /\ n \in 1..n
      <4>1. n \in Nat /\ n # 0 BY <1>1, <1>10
      <4> QED BY <4>1
    <3>3. old \in TurnTypes BY <1>1, <1>18, <3>2
    <3>4. PICK f \in Seq(TurnTypes) : Extends(turns, f, turns[Len(turns)])
      BY <1>1, <1>10, FrontAndLast
    <3> QED BY <1>1, <1>10, <1>18, <3>1, <3>2, <3>3, <3>4
  <2> QED BY <2>1, <2>2
<1>20. n \in 1..n
  <2>1. n # 0 BY <1>19
  <2> QED BY <1>19, <2>1
<1>21. PICK f \in Seq(TurnTypes) : Extends(turns, f, old) /\ Extends(t, f, new) BY <1>19
<1>22. old.run = r.run /\ new.run = r.run BY <1>10, <1>18, <1>19, <1>20
<1>23. PICK c, u, v, u2 : c = Conversation(f, withCall) /\ u = withCall /\ v = withCall' /\ u2 = turns OBVIOUS
<1>24. /\ c \in Seq(Messages) /\ Conversation(u2, u) = c \o SaidIn(old, u)
       /\ Conversation(t, v) = Conversation(f, v) \o SaidIn(new, v)
  <2>1. Extends(u2, f, old) /\ Extends(t, f, new) BY <1>21, <1>23
  <2>2. Conversation(f, u) \in Seq(Messages) /\ Conversation(u2, u) = Conversation(f, u) \o SaidIn(old, u)
    BY <1>19, <2>1, ConversationGrows
  <2>3. Conversation(t, v) = Conversation(f, v) \o SaidIn(new, v) BY <1>19, <2>1, ConversationGrows
  <2> QED BY <1>23, <2>2, <2>3
<1>25. Conversation(f, v) = c
  <2>1. \A i \in DOMAIN f : f[i].run # r.run
    <3>1. turns = Append(f, old) BY <1>21 DEF Extends
    <3>2. n = Len(f) + 1 /\ Len(f) \in Nat /\ DOMAIN f = 1..Len(f) /\ \A i \in 1..Len(f) : turns[i] = f[i]
      BY <1>19, <3>1
    <3>3. \A i \in 1..Len(f) : i \in 1..n /\ i # n BY <3>2
    <3> QED BY <1>10, <3>2, <3>3
  <2>2. \A i \in DOMAIN f : f[i].run \in v <=> f[i].run \in u BY <1>4, <1>23, <2>1
  <2>3. Conversation(f, v) = Conversation(f, u) BY <2>2, ConversationOfOthers
  <2> QED BY <1>23, <2>3
<1>26. ConversationalHistory(m) = Conversation(u2, u) BY <1>2, <1>5, <1>23
<1>27. ConversationalHistory(w) = Conversation(turns', withCall')
  <2>1. CASE own
    <3>1. v = u BY <1>4, <1>23, <2>1
    <3>2. SaidIn(new, v) = SaidIn(old, u) BY <1>19, <1>22, <3>1 DEF SaidIn
    <3>3. Conversation(t, v) = Conversation(u2, u) BY <1>24, <1>25, <3>2
    <3>4. ConversationalHistory(w) = ConversationalHistory(m) BY <1>13, <1>14, <2>1
    <3> QED BY <1>18, <1>23, <1>26, <3>3, <3>4
  <2>2. CASE ~own
    <3>1. v = u \cup {r.run} BY <1>4, <1>23, <2>2
    <3>2. "prose" \in r.drawn /\ r.run \notin withCall
      BY <1>2, <1>5, <1>11, <2>2 DEF ProseIsReply
    <3>3. Len(ProseOf(old)) = 1 BY <1>2, <1>18, <3>2 DEF ProseIsReply
    <3>4. PICK q, x, h, e : /\ q = <<Question(r.run)>> /\ x = Reply(r.run)
                            /\ h = ConversationalHistory(mid) /\ e = ConversationalHistory(m)
      OBVIOUS
    <3>5. SaidIn(old, u) = Append(q, x) /\ SaidIn(new, v) = q
      <4>1. r.run \notin u /\ r.run \in v BY <1>23, <3>1, <3>2
      <4>2. SaidIn(old, u) = Append(<<Question(old.run)>>, Reply(old.run))
        BY <1>19, <1>22, <3>3, <4>1, SaidInTurn
      <4>3. SaidIn(new, v) = <<Question(new.run)>> BY <1>19, <1>22, <4>1, SaidInTurn
      <4> QED BY <1>22, <3>4, <4>2, <4>3
    <3>6. q \in Seq(Messages) /\ x \in Messages
      <4>1. Question(r.run) \in Messages /\ Reply(r.run) \in Messages BY <1>1, MessagesAre
      <4> QED BY <3>4, <4>1
    <3>7. Reassociates(c, q, x) BY <1>24, <3>6, AppendToConcat
    <3>8. PICK s : s = c \o q OBVIOUS
    <3>9. s \in Seq(Messages) BY <1>24, <3>6, <3>8, ConcatProperties
    <3>10. Extends(e, s, x) BY <1>24, <1>26, <3>4, <3>5, <3>7, <3>8 DEF Extends, Reassociates
    <3>11. Extends(e, h, x) /\ h \in Seq(Messages) BY <1>13, <2>2, <3>4
    <3>12. h = s BY <3>6, <3>9, <3>10, <3>11, AppendsEqual
    <3> QED BY <1>14, <1>18, <1>23, <1>24, <1>25, <3>4, <3>5, <3>8, <3>12
  <2> QED BY <2>1, <2>2
<1>28. RunIsLast(next)'
  <2>1. \A k \in DOMAIN w : (w[k].role = "tool" \/ w[k].calls) => w[k].run = asked
    BY <1>10, <1>13, <1>14
  <2>2. /\ turns' # <<>> /\ turns'[Len(turns')].id = r.turn /\ turns'[Len(turns')].run = r.run
        /\ \A i \in 1..Len(turns') : i # Len(turns') => turns'[i].id # r.turn /\ turns'[i].run # r.run
    BY <1>10, <1>18, <1>19, <1>20
  <2>3. PICK s : s = next OBVIOUS
  <2>4. RunIsLast(s)' BY <1>3, <1>7, <1>10, <1>15, <2>1, <2>2, <2>3 DEF RunIsLast
  <2> QED BY <2>3, <2>4
<1>29. ProseIsReply(next)'
  <2>1. PICK s : s = next OBVIOUS
  <2>2. /\ "prose" \in r.drawn => Len(ProseOf(turns'[Len(turns')])) = 1
        /\ "prose" \notin r.drawn => Len(ProseOf(turns'[Len(turns')])) = 0
    BY <1>2, <1>18, <1>19 DEF ProseIsReply
  <2>3. "prose" \notin r.drawn => r.run \notin withCall'
    <3>1. CASE own BY <1>2, <1>4, <3>1 DEF ProseIsReply
    <3>2. CASE ~own BY <1>2, <1>5, <1>11, <3>2 DEF ProseIsReply
    <3> QED BY <3>1, <3>2
  <2>4. ProseIsReply(s)' BY <1>7, <1>14, <1>15, <2>1, <2>2, <2>3 DEF ProseIsReply, ProseOf
  <2> QED BY <2>1, <2>4
<1> QED BY <1>27, <1>28, <1>29

LEMMA HeardInvStep ==
    ASSUME AskInv, HeardInv, AskStep \/ UNCHANGED chatVars
    PROVE  HeardInv'
<1>1. CASE UNCHANGED chatVars BY <1>1 DEF chatVars, HeardInv, RunIsLast, ProseIsReply, ProseOf
<1>2. CASE ClickAsk BY <1>2 DEF ClickAsk, HeardInv, RunIsLast, ProseIsReply, ProseOf
<1>3. CASE BeginRun BY <1>3, HeardBegins
<1>4. CASE NewConversation
  <2>1. /\ turns' = <<>> /\ agent' = [no |-> 0, messages |-> <<>>] /\ overlapped' = (runs # {})
        /\ runs' = runs /\ withCall' = withCall
    BY <1>4 DEF NewConversation, NoAgent
  <2>2. agent'.messages = <<>> /\ agent'.no = 0 BY <2>1
  <2>3. ConversationalHistory(agent'.messages) = Conversation(turns', withCall') BY <2>1, <2>2, NothingSaid
  <2>4. agent'.messages \in Seq(Messages) BY <2>2
  <2> QED BY <2>1, <2>2, <2>3, <2>4 DEF HeardInv
<1>5. ASSUME NEW r \in runs, RunFinished(r) \/ RunError(r) \/ StreamCloses(r) PROVE HeardInv'
  <2>1. runs' = runs \ {r} /\ UNCHANGED <<turns, agent, asked, overlapped, withCall>>
    BY <1>5 DEF RunFinished, RunError, StreamCloses
  <2> QED BY <2>1 DEF HeardInv, RunIsLast, ProseIsReply, ProseOf
<1>6. ASSUME NEW r \in runs, StreamsProse(r) PROVE HeardInv' BY <1>6, HeardProse
<1>7. ASSUME NEW r \in runs, NEW tool \in {"graph", "query"}, CallsTool(r, tool) PROVE HeardInv'
  BY <1>7, HeardCalls
<1> QED BY <1>1, <1>2, <1>3, <1>4, <1>5, <1>6, <1>7 DEF AskStep

-----------------------------------------------------------------------------
(* The application *)

\* At the beginning every part is at its own beginning or idle.
LEMMA PartsStart ==
    ASSUME BrowserInit
    PROVE  /\ ThreadInv /\ PlanInv /\ AskInv /\ HeardInv
           /\ PanelInv /\ SqlInv /\ RunsInv /\ SystemInv /\ ShopFloorInv
<1>1. /\ ThreadInit \/ ThreadIdle
      /\ PanelInit({part}) \/ PanelIdle
      /\ SystemInit \/ SystemIdle
      /\ ShopFloorInit \/ ShopFloorIdle
      /\ AskInit /\ SqlInit /\ RunsIdle
  BY DEF BrowserInit
<1> QED BY <1>1, ThreadStarts, PlanStarts, AskStarts, HeardStarts, PanelStarts, SqlInvInit, RunsStart, SystemStarts,
           ShopFloorStarts

\* Athena is given only statements the guard has let through, and answers a
\* generated one only if it names no unknown field (athena-query).
THEOREM GuardedSqlRuns == BrowserSpec => []OnlyGuardedSqlRuns
<1>1. BrowserInit => SqlInv BY PartsStart
<1>2. SqlInv /\ [BrowserNext]_browserVars => SqlInv' BY PartSteps, SqlInvStep
<1> QED BY <1>1, <1>2, SqlInvSays, PTL DEF BrowserSpec

\* The shop floor's inductive invariant holds.
LEMMA ShopFloorInvHolds == BrowserSpec => []ShopFloorInv
<1>1. BrowserInit => ShopFloorInv BY PartsStart
<1>2. ShopFloorInv /\ [BrowserNext]_browserVars => ShopFloorInv' BY PartSteps, ShopFloorInvStep
<1> QED BY <1>1, <1>2, PTL DEF BrowserSpec

\* A card shows the newest reading of its machine and kind that is in the
\* list, whatever clients older pages have left (useShopFloorTelemetry).
THEOREM CardsShowReadings == BrowserSpec => []CardsAgreeWithReadings
BY ShopFloorInvHolds, ShopFloorInvSays, PTL

\* No message is in the list twice, although the clients of left pages get
\* it too (useShopFloorTelemetry).
THEOREM ReadingsOnce == BrowserSpec => []NoReadingTwice
BY ShopFloorInvHolds, ShopFloorInvSays, PTL

\* A page that is loaded to its end and waits for nothing shows every record
\* of the table but those put behind its scan while no notice of them reached
\* it (SystemPageLayout).
THEOREM TablesAreComplete == BrowserSpec => []LoadedPageIsComplete
<1>1. BrowserInit => SystemInv BY PartsStart
<1>2. SystemInv /\ [BrowserNext]_browserVars => SystemInv' BY PartSteps, SystemInvStep
<1> QED BY <1>1, <1>2, SystemInvSays, PTL DEF BrowserSpec

\* A panel with no request in flight shows the answer for what is chosen, or
\* an error, unless an older answer came last (useDatalake,
\* useHistoricalData, useDrawingUrl).
THEOREM QuietPanels == BrowserSpec => []QuietPanelIsRight
<1>1. BrowserInit => PanelInv BY PartsStart
<1>2. PanelInv /\ [BrowserNext]_browserVars => PanelInv' BY PartSteps, PanelInvStep
<1> QED BY <1>1, <1>2, PanelInvSays, PTL DEF BrowserSpec

\* The blocks of a turn come from the run its question started, unless two
\* runs overlapped (useAgUiStream, AskThreadNavigator).
THEOREM BlocksOfTheirTurn == BrowserSpec => []BlocksInTheirTurn
<1>1. BrowserInit => AskInv BY PartsStart
<1>2. AskInv /\ [BrowserNext]_browserVars => AskInv' BY PartSteps, AskInvStep
<1>3. AskInv => BlocksInTheirTurn BY DEF AskInv
<1> QED BY <1>1, <1>2, <1>3, PTL DEF BrowserSpec

\* The console waits for a run that is over only after a stream closed
\* without its last event, and unless runs overlapped for every one
\* (useAgUiStream).
THEOREM WaitsForARun == BrowserSpec => []RunningHasRun
<1>1. BrowserInit => AskInv BY PartsStart
<1>2. AskInv /\ [BrowserNext]_browserVars => AskInv' BY PartSteps, AskInvStep
<1>3. AskInv => RunningHasRun BY DEF AskInv
<1> QED BY <1>1, <1>2, <1>3, PTL DEF BrowserSpec

\* The agent is sent the conversation on the screen, question by question and
\* reply by reply but for those that called a tool, and no tool call of an
\* earlier turn, unless two runs overlapped (conversationalHistory and ask of
\* useAgUiStream).
THEOREM AgentsKnowConversation == BrowserSpec => []AgentKnowsConversation
<1>1. BrowserInit => AskInv /\ HeardInv BY PartsStart
<1>2. AskInv /\ HeardInv /\ [BrowserNext]_browserVars => (AskInv /\ HeardInv)'
  BY PartSteps, AskInvStep, HeardInvStep
<1>3. HeardInv => AgentKnowsConversation BY HeardInvSays
<1> QED BY <1>1, <1>2, <1>3, PTL DEF BrowserSpec

\* From one complete listing to the next a run whose records are not deleted
\* loses none of them and is not open again, and it leaves the list only when
\* that is full of runs that are no older (hitl-query, AgentObservabilityPage).
THEOREM ListingsGrow == BrowserSpec => ListingGrows
<1>1. BrowserInit => RunsInv BY PartsStart
<1>2. RunsInv /\ [BrowserNext]_browserVars => RunsInv' /\ [ListStep]_runsVars
  BY PartSteps, RunsInvStep
<1>3. ListStep <=> ((shown.complete /\ shown'.complete /\ shown'.since = shown.no) =>
        \A run \in DOMAIN shown.status \ {r.run : r \in gone'} :
            IF run \in DOMAIN shown'.status
            THEN /\ shown.records[run] \subseteq shown'.records[run]
                 /\ shown.status[run] = "completed" => shown'.status[run] = "completed"
            ELSE /\ Cardinality(DOMAIN shown'.status) = ListLimit
                 /\ \A o \in DOMAIN shown'.status :
                     NoEarlier(shown'.records[o], shown.records[run]))
  BY DEF ListStep
<1> QED BY <1>1, <1>2, <1>3, PTL DEF BrowserSpec, ListingGrows

\* The thread's inductive invariant holds.
LEMMA ThreadInvHolds == BrowserSpec => []ThreadInv
<1>1. BrowserInit => ThreadInv BY PartsStart
<1>2. ThreadInv /\ [BrowserNext]_browserVars => ThreadInv' BY PartSteps, ThreadInvStep
<1> QED BY <1>1, <1>2, PTL DEF BrowserSpec

\* Between the moment its load began and now: the thread shows everything
\* that was within three hops then, if its edges were read, and nothing that
\* is not there now (neptune-query, DigitalThreadPage).
THEOREM ThreadsAreBetween == BrowserSpec => []ThreadIsBetween
BY ThreadInvHolds, ThreadInvSays, PTL

\* A thread loaded again draws the path the navigator had found before, every
\* vertex and edge of it, whatever the domain (AskThreadNavigator,
\* DigitalThreadPage, neptune-query).
THEOREM PathsAreDrawn == BrowserSpec => []PathIsDrawn
BY ThreadInvHolds, ThreadInvSays, PTL

\* What the slow consumer has marked as assessed, a thread that is loaded
\* afterwards shows (slow-consumer, neptune-query).
THEOREM AssessedAreShown == BrowserSpec => []AssessedIsShown
BY ThreadInvHolds, ThreadInvSays, PTL

\* Plan and actual are compared as they are at the moment of the answer,
\* although they were read one after the other (neptune-query, mes.py).
THEOREM ComparisonsAreExact == BrowserSpec => PlanDiffIsExact
<1>1. BrowserInit => PlanInv BY PartsStart
<1>2. PlanInv /\ [BrowserNext]_browserVars => PlanInv' /\ [DiffStep]_threadVars
  BY PartSteps, PlanInvStep
<1>3. DiffStep <=> ((diff' # diff /\ diff'.hasResponse) =>
        diff'.of = PlanDiff(Requested(kg, WorkOrder), Executed(kg, WorkOrder)))
  BY DEF DiffStep
<1> QED BY <1>1, <1>2, <1>3, PTL DEF BrowserSpec, PlanDiffIsExact

-----------------------------------------------------------------------------
(* The swim lanes of a trace *)

\* A record of the table: some session's, of a kind, at a time.
IsRecord(r) ==
    /\ r = [run |-> r.run, session |-> r.session, agent |-> r.agent, action |-> r.action, at |-> r.at]
    /\ \E s \in Sessions : r.run = s.run /\ r.session = s.no /\ r.agent = s.agent
    /\ \E i \in DOMAIN Actions : r.action = Actions[i]
    /\ r.at \in Nat

LEMMA PositionIs ==
    ASSUME NEW i \in DOMAIN Actions
    PROVE  Position(Actions[i]) \in Nat /\ Actions[Position(Actions[i])] = Actions[i]
<1>1. DOMAIN Actions \subseteq Nat BY DEF Actions
<1> QED BY <1>1 DEF Position

\* Before compares any two records.
LEMMA RecordsCompare ==
    ASSUME NEW r, NEW q, IsRecord(r), IsRecord(q)
    PROVE  /\ r.at \in Nat /\ r.session \in Nat /\ Position(r.action) \in Nat
           /\ r.at = q.at /\ r.session = q.session /\ Position(r.action) = Position(q.action) => r = q
<1>1. PICK s \in Sessions : r.run = s.run /\ r.session = s.no /\ r.agent = s.agent BY DEF IsRecord
<1>2. PICK t \in Sessions : q.run = t.run /\ q.session = t.no /\ q.agent = t.agent BY DEF IsRecord
<1>3. /\ r.at \in Nat /\ r.session \in Nat /\ Position(r.action) \in Nat
      /\ Actions[Position(r.action)] = r.action /\ Actions[Position(q.action)] = q.action
  BY <1>1, PositionIs, RunsAssumption DEF IsRecord
<1>4. ASSUME r.at = q.at, r.session = q.session, Position(r.action) = Position(q.action) PROVE r = q
  <2>1. r.action = q.action BY <1>3, <1>4
  <2>2. s = t
    <3>1. s.no = t.no BY <1>1, <1>2, <1>4
    <3>2. \A a, b \in Sessions : a.no = b.no => a = b BY RunsAssumption
    <3> QED BY <3>1, <3>2
  <2>3. r.run = q.run /\ r.agent = q.agent BY <1>1, <1>2, <2>2
  <2> QED BY <1>4, <2>1, <2>3 DEF IsRecord
<1> QED BY <1>3, <1>4

\* The records in the order of their keys.
LEMMA RecordsInOrder ==
    ASSUME NEW R, IsFiniteSet(R), \A r \in R : IsRecord(r)
    PROVE  /\ Cardinality(R) \in Nat
           /\ InOrder(R) \in [1..Cardinality(R) -> R]
           /\ \A r \in R : \E n \in 1..Cardinality(R) : InOrder(R)[n] = r
           /\ \A m, n \in 1..Cardinality(R) : m < n =>
                InOrder(R)[m].at <= InOrder(R)[n].at /\ InOrder(R)[m] # InOrder(R)[n]
<1> DEFINE upto == [r \in R |-> {q \in R : q = r \/ Before(q, r)}]
<1>1. \A r, q \in R : q \in upto[r] <=> q = r \/ Before(q, r) OBVIOUS
<1>2. upto \in [R -> SUBSET R] OBVIOUS
<1>3. InOrder(R) = Listed(upto) BY DEF InOrder
<1> HIDE DEF upto
<1>4. \A r \in R : r \in upto[r] BY <1>1
<1>5. \A r, q \in R : r \in upto[q] \/ q \in upto[r]
  BY <1>1, RecordsCompare DEF Before
<1>6. \A r, q \in R : r \in upto[q] => upto[r] \subseteq upto[q]
  <2> SUFFICES ASSUME NEW r \in R, NEW q \in R, r \in upto[q], NEW t \in upto[r] PROVE t \in upto[q]
    OBVIOUS
  <2>1. t \in R BY <1>2
  <2>2. (r = q \/ Before(r, q)) /\ (t = r \/ Before(t, r)) BY <1>1, <2>1
  <2>3. Before(r, q) /\ Before(t, r) => Before(t, q)
    BY <2>1, RecordsCompare DEF Before
  <2> QED BY <1>1, <2>1, <2>2, <2>3
<1>7. \A r, q \in R : r \in upto[q] /\ q \in upto[r] => r = q
  BY <1>1, RecordsCompare DEF Before
<1>8. \A r, q \in R : r \in upto[q] => r.at <= q.at
  BY <1>1, RecordsCompare DEF Before
<1>9. /\ Cardinality(R) \in Nat
      /\ Listed(upto) \in [1..Cardinality(R) -> R]
      /\ \A r \in R : \E n \in 1..Cardinality(R) : Listed(upto)[n] = r
      /\ \A m, n \in 1..Cardinality(R) : m < n =>
           Listed(upto)[m] \in upto[Listed(upto)[n]] /\ Listed(upto)[m] # Listed(upto)[n]
  BY <1>2, <1>4, <1>5, <1>6, <1>7, ListedInOrder
<1>10. PICK l \in [1..Cardinality(R) -> R] : l = InOrder(R) BY <1>3, <1>9
<1>11. \A m, n \in 1..Cardinality(R) : m < n => l[m].at <= l[n].at /\ l[m] # l[n]
  BY <1>3, <1>8, <1>9, <1>10
<1> QED BY <1>3, <1>9, <1>10, <1>11

\* The records of a sequence are pairwise different.
Distinct(w, n) == \A i, j \in 1..n : i < j => w[i] # w[j]

\* Rows of records are the first m records, each in one row.
EachOnce(w, m, slots) ==
    /\ \A i \in DOMAIN slots : \A k \in DOMAIN slots[i] : \E l \in 1..m : slots[i][k] = w[l]
    /\ \A l \in 1..m : \E i \in DOMAIN slots : \E k \in DOMAIN slots[i] : slots[i][k] = w[l]
    /\ \A i, j \in DOMAIN slots : \A k \in DOMAIN slots[i] : \A l \in DOMAIN slots[j] :
            slots[i][k] = slots[j][l] => i = j

\* Rows are apart by more than the span, and none is longer than it.
GoodSlots(R, w, m, slots) ==
    /\ slots \in Seq(Seq(R))
    /\ \A i \in DOMAIN slots : Len(slots[i]) > 0
    /\ EachOnce(w, m, slots)
    /\ \A i, j \in DOMAIN slots : i < j => slots[i][1].at + SlotSpan < slots[j][1].at
    /\ \A i \in DOMAIN slots : \A k \in DOMAIN slots[i] :
            slots[i][k].at \in slots[i][1].at..(slots[i][1].at + SlotSpan)

\* Rows t are the rows slots and the record r, at the end of row d.
OneMore(R, slots, t, d, r) ==
    /\ t \in Seq(Seq(R))
    /\ d \in DOMAIN t
    /\ \A i \in DOMAIN t : Len(t[i]) > 0
    /\ \A i \in DOMAIN slots : /\ i \in DOMAIN t
                               /\ \A k \in DOMAIN slots[i] : k \in DOMAIN t[i] /\ t[i][k] = slots[i][k]
    /\ \A i \in DOMAIN t : \A k \in DOMAIN t[i] :
            \/ i \in DOMAIN slots /\ k \in DOMAIN slots[i] /\ t[i][k] = slots[i][k]
            \/ i = d /\ t[i][k] = r
    /\ \E k \in DOMAIN t[d] : t[d][k] = r

LEMMA OneMoreIsGood ==
    ASSUME NEW R, NEW n \in Nat, NEW w \in [1..n -> R], NEW m \in 0..n, NEW p \in 1..n, p = m + 1,
           Distinct(w, n),
           NEW slots, NEW t, NEW d, NEW r, r = w[p],
           EachOnce(w, m, slots), OneMore(R, slots, t, d, r)
    PROVE  EachOnce(w, p, t)
<1>1. p = m + 1 /\ \A i, j \in 1..n : i < j => w[i] # w[j] BY DEF Distinct
<1>2. p \in 1..n /\ p \in 1..p /\ w[p] = r /\ \A l \in 1..m : l \in 1..p /\ l \in 1..n /\ w[l] # r
  BY <1>1
<1>3. \A l \in 1..p : l = p \/ l \in 1..m BY <1>1
<1>4. \A i \in DOMAIN t : \A k \in DOMAIN t[i] : \E l \in 1..p : t[i][k] = w[l]
  BY <1>2 DEF EachOnce, OneMore
<1>5. \A l \in 1..p : \E i \in DOMAIN t : \E k \in DOMAIN t[i] : t[i][k] = w[l]
  <2> SUFFICES ASSUME NEW l \in 1..p
               PROVE  \E i \in DOMAIN t : \E k \in DOMAIN t[i] : t[i][k] = w[l]
    OBVIOUS
  <2>1. CASE l = p BY <1>2, <2>1 DEF OneMore
  <2>2. CASE l \in 1..m
    <3>1. PICK i \in DOMAIN slots : \E k \in DOMAIN slots[i] : slots[i][k] = w[l]
      BY <2>2 DEF EachOnce
    <3>2. PICK k \in DOMAIN slots[i] : slots[i][k] = w[l] BY <3>1
    <3>3. i \in DOMAIN t /\ k \in DOMAIN t[i] /\ t[i][k] = w[l] BY <3>2 DEF OneMore
    <3> QED BY <3>3
  <2> QED BY <1>3, <2>1, <2>2
<1>6. \A i \in DOMAIN slots : \A k \in DOMAIN slots[i] : slots[i][k] # r
  BY <1>2 DEF EachOnce
<1>7. ASSUME NEW i \in DOMAIN t, NEW j \in DOMAIN t, NEW k \in DOMAIN t[i], NEW l \in DOMAIN t[j],
             t[i][k] = t[j][l]
      PROVE  i = j
  <2>1. \/ i \in DOMAIN slots /\ k \in DOMAIN slots[i] /\ t[i][k] = slots[i][k]
        \/ i = d /\ t[i][k] = r
    BY DEF OneMore
  <2>2. \/ j \in DOMAIN slots /\ l \in DOMAIN slots[j] /\ t[j][l] = slots[j][l]
        \/ j = d /\ t[j][l] = r
    BY DEF OneMore
  <2> QED BY <1>6, <1>7, <2>1, <2>2 DEF EachOnce
<1> QED BY <1>4, <1>5, <1>7 DEF EachOnce

LEMMA RowsStayRows ==
    ASSUME NEW R, NEW slots \in Seq(Seq(R)), NEW r \in R
    PROVE  WithRecord(slots, r) \in Seq(Seq(R))
<1>1. PICK c : c = Len(slots) OBVIOUS
<1>2. c \in Nat BY <1>1
<1>3. PICK one : one = <<r>> OBVIOUS
<1>4. one \in Seq(R) BY <1>3
<1>5. Append(slots, one) \in Seq(Seq(R)) BY <1>4
<1>6. ASSUME slots # <<>> PROVE [slots EXCEPT ![c] = Append(slots[c], r)] \in Seq(Seq(R))
  <2>1. c \in 1..c /\ slots \in [1..c -> Seq(R)] BY <1>1, <1>6
  <2>2. PICK u \in Seq(R) : u = slots[c] BY <2>1
  <2>3. PICK v : v = Append(u, r) OBVIOUS
  <2>6. v \in Seq(R) BY <2>2, <2>3
  <2>4. [slots EXCEPT ![c] = v] \in [1..c -> Seq(R)] BY <2>1, <2>6
  <2>5. [slots EXCEPT ![c] = v] \in Seq(Seq(R)) BY <1>2, <2>4
  <2> QED BY <2>2, <2>3, <2>5
<1> QED BY <1>1, <1>3, <1>5, <1>6 DEF WithRecord

LEMMA NextRecord ==
    ASSUME NEW R, \A r \in R : r.at \in Nat,
           NEW n \in Nat, NEW w \in [1..n -> R],
           \A i, j \in 1..n : i < j => w[i].at <= w[j].at /\ w[i] # w[j],
           NEW m \in 0..n, m < n, NEW slots, GoodSlots(R, w, m, slots)
    PROVE  GoodSlots(R, w, m + 1, WithRecord(slots, w[m + 1]))
<1>1. PICK p : p = m + 1 OBVIOUS
<1>2. p \in 1..n /\ w[p] \in R BY <1>1
<1>3. PICK r \in R : r = w[p] BY <1>2
<1>4. PICK t : t = WithRecord(slots, r) OBVIOUS
<1>5. PICK c : c = Len(slots) OBVIOUS
<1>6. c \in Nat /\ DOMAIN slots = 1..c /\ slots \in Seq(Seq(R)) /\ r.at \in Nat
  BY <1>5 DEF GoodSlots
<1>7. \A i \in 1..c : /\ slots[i] \in Seq(R) /\ Len(slots[i]) \in Nat /\ Len(slots[i]) > 0
                      /\ DOMAIN slots[i] = 1..Len(slots[i]) /\ 1 \in DOMAIN slots[i]
                      /\ Head(slots[i]) = slots[i][1] /\ slots[i][1] \in R /\ slots[i][1].at \in Nat
  <2> SUFFICES ASSUME NEW i \in 1..c
               PROVE  /\ slots[i] \in Seq(R) /\ Len(slots[i]) \in Nat /\ Len(slots[i]) > 0
                      /\ DOMAIN slots[i] = 1..Len(slots[i]) /\ 1 \in DOMAIN slots[i]
                      /\ Head(slots[i]) = slots[i][1] /\ slots[i][1] \in R /\ slots[i][1].at \in Nat
    OBVIOUS
  <2>1. PICK s \in Seq(R) : s = slots[i] BY <1>6
  <2>2. Len(s) > 0 BY <1>6, <2>1 DEF GoodSlots
  <2> QED BY <2>1, <2>2
<1>8. SlotSpan \in Nat BY RunsAssumption
<1>9. /\ \A i, j \in 1..c : i < j => slots[i][1].at + SlotSpan < slots[j][1].at
      /\ \A i \in 1..c : \A k \in DOMAIN slots[i] :
            slots[i][k].at \in slots[i][1].at..(slots[i][1].at + SlotSpan)
      /\ \A i \in 1..c : \A k \in DOMAIN slots[i] : slots[i][k].at <= r.at
  <2>1. \A l \in 1..m : w[l].at <= r.at BY <1>1, <1>2, <1>3
  <2>2. \A i \in 1..c : \A k \in DOMAIN slots[i] : \E l \in 1..m : slots[i][k] = w[l]
    <3>1. EachOnce(w, m, slots) BY DEF GoodSlots
    <3>2. \A i \in DOMAIN slots : \A k \in DOMAIN slots[i] : \E l \in 1..m : slots[i][k] = w[l]
      BY <3>1 DEF EachOnce
    <3> QED BY <1>6, <3>2
  <2>3. \A i \in 1..c : \A k \in DOMAIN slots[i] : slots[i][k].at <= r.at BY <2>1, <2>2
  <2> QED BY <1>6, <2>3 DEF GoodSlots
<1>12. Distinct(w, n) /\ EachOnce(w, m, slots) BY DEF Distinct, GoodSlots
<1> DEFINE Fits == c # 0 /\ r.at - slots[c][1].at <= SlotSpan
<1>10. CASE Fits
  <2>1. slots # <<>> /\ Last(slots) = slots[c] /\ c \in 1..c BY <1>5, <1>6, <1>10 DEF Last
  <2>2. t = [slots EXCEPT ![c] = Append(slots[c], r)]
    BY <1>4, <1>5, <1>7, <1>10, <2>1 DEF WithRecord, InSlot
  <2>3. PICK u \in Seq(R) : u = slots[c] BY <1>7, <2>1
  <2>4. PICK v : v = Append(u, r) OBVIOUS
  <2>5. PICK q : q = Len(u) OBVIOUS
  <2>6. /\ v \in Seq(R) /\ Len(v) = q + 1 /\ DOMAIN v = 1..(q + 1) /\ q \in Nat /\ q > 0
        /\ v[q + 1] = r /\ \A k \in 1..q : v[k] = u[k]
    BY <1>7, <2>1, <2>3, <2>4, <2>5
  <2>7. t \in Seq(Seq(R)) /\ DOMAIN t = 1..c /\ t[c] = v /\ \A i \in 1..c : i # c => t[i] = slots[i]
    BY <1>6, <2>1, <2>2, <2>3, <2>4, <2>6
  <2>8. OneMore(R, slots, t, c, r)
    <3>0. \A i \in 1..c : (i = c /\ t[i] = v /\ slots[i] = u) \/ t[i] = slots[i] BY <2>3, <2>7
    <3>10. Len(v) > 0 /\ DOMAIN u = 1..q BY <2>3, <2>5, <2>6
    <3>1. \A i \in 1..c : Len(t[i]) > 0 BY <1>7, <3>0, <3>10
    <3>2. \A i \in 1..c : \A k \in DOMAIN slots[i] : k \in DOMAIN t[i] /\ t[i][k] = slots[i][k]
      <4> SUFFICES ASSUME NEW i \in 1..c, NEW k \in DOMAIN slots[i]
                   PROVE  k \in DOMAIN t[i] /\ t[i][k] = slots[i][k]
        OBVIOUS
      <4>1. CASE t[i] = v /\ slots[i] = u BY <2>6, <3>10, <4>1
      <4> QED BY <3>0, <4>1
    <3>3. \A i \in 1..c : \A k \in DOMAIN t[i] :
            \/ k \in DOMAIN slots[i] /\ t[i][k] = slots[i][k]
            \/ i = c /\ t[i][k] = r
      <4> SUFFICES ASSUME NEW i \in 1..c, NEW k \in DOMAIN t[i]
                   PROVE  \/ k \in DOMAIN slots[i] /\ t[i][k] = slots[i][k]
                          \/ i = c /\ t[i][k] = r
        OBVIOUS
      <4>1. CASE i = c /\ t[i] = v /\ slots[i] = u
        <5>1. k \in 1..q \/ k = q + 1 BY <2>6, <4>1
        <5> QED BY <2>6, <3>10, <4>1, <5>1
      <4> QED BY <3>0, <4>1
    <3>4. \E k \in DOMAIN t[c] : t[c][k] = r
      <4>1. q + 1 \in DOMAIN t[c] BY <2>6, <2>7
      <4> QED BY <2>6, <2>7, <4>1
    <3>5. t \in Seq(Seq(R)) /\ DOMAIN t = 1..c /\ DOMAIN slots = 1..c /\ c \in 1..c
      BY <1>6, <2>1, <2>7
    <3> QED BY <3>1, <3>2, <3>3, <3>4, <3>5 DEF OneMore
  <2>9. \A i \in 1..c : t[i][1] = slots[i][1]
    <3>1. v[1] = u[1] BY <2>6
    <3>2. t[c][1] = slots[c][1] BY <2>3, <2>7, <3>1
    <3> QED BY <2>7, <3>2
  <2>10. \A i \in 1..c : \A k \in DOMAIN t[i] : t[i][k].at \in t[i][1].at..(t[i][1].at + SlotSpan)
    <3> SUFFICES ASSUME NEW i \in 1..c, NEW k \in DOMAIN t[i]
                 PROVE  t[i][k].at \in slots[i][1].at..(slots[i][1].at + SlotSpan)
      BY <2>9
    <3>1. \/ k \in DOMAIN slots[i] /\ t[i][k] = slots[i][k]
          \/ i = c /\ t[i][k] = r
      BY <1>6, <2>7, <2>8 DEF OneMore
    <3>2. slots[c][1].at <= r.at /\ slots[c][1].at \in Nat BY <1>7, <1>9, <2>1
    <3>3. CASE i = c /\ t[i][k] = r
      <4>1. PICK a \in Nat : a = slots[c][1].at BY <3>2
      <4>2. r.at - a <= SlotSpan /\ a <= r.at BY <1>10, <3>2, <4>1
      <4>3. r.at \in a..(a + SlotSpan) BY <1>6, <1>8, <4>2
      <4> QED BY <3>3, <4>1, <4>3
    <3>4. CASE k \in DOMAIN slots[i] /\ t[i][k] = slots[i][k] BY <1>9, <3>4
    <3> QED BY <3>1, <3>3, <3>4
  <2>11. \A i, j \in 1..c : i < j => t[i][1].at + SlotSpan < t[j][1].at BY <1>9, <2>9
  <2>12. EachOnce(w, p, t)
    BY <1>1, <1>2, <1>3, <1>12, <2>8, OneMoreIsGood
  <2>13. GoodSlots(R, w, p, t)
    BY <2>7, <2>8, <2>10, <2>11, <2>12 DEF GoodSlots, OneMore
  <2> QED BY <1>1, <1>3, <1>4, <2>13
<1>11. CASE ~Fits
  <2>0. PICK one : one = <<r>> OBVIOUS
  <2>1. one \in Seq(R) /\ Len(one) = 1 /\ one[1] = r /\ DOMAIN one = 1..1 BY <2>0
  <2>2. t = Append(slots, one)
    <3>1. CASE c = 0
      <4>1. slots = <<>> BY <1>5, <1>6, <3>1
      <4> QED BY <1>4, <2>0, <4>1 DEF WithRecord
    <3>2. CASE c # 0
      <4>1. Last(slots) = slots[c] /\ c \in 1..c BY <1>5, <1>6, <3>2 DEF Last
      <4>2. ~InSlot(Last(slots), r) BY <1>7, <1>11, <3>2, <4>1 DEF InSlot
      <4> QED BY <1>4, <2>0, <4>2 DEF WithRecord
    <3> QED BY <3>1, <3>2
  <2>3. PICK d : d = c + 1 OBVIOUS
  <2>4. /\ t \in Seq(Seq(R)) /\ DOMAIN t = 1..d /\ t[d] = one
        /\ \A i \in 1..c : t[i] = slots[i] /\ i \in 1..d
        /\ d \in 1..d /\ \A i \in 1..d : i = d \/ i \in 1..c
    BY <1>5, <1>6, <2>1, <2>2, <2>3
  <2>5. OneMore(R, slots, t, d, r)
    <3>1. \A i \in 1..d : Len(t[i]) > 0
      <4> SUFFICES ASSUME NEW i \in 1..d PROVE Len(t[i]) > 0 OBVIOUS
      <4>1. CASE i = d
        <5>1. t[i] = one BY <2>4, <4>1
        <5>2. Len(one) = 1 BY <2>1
        <5>3. Len(t[i]) = 1 BY <5>1, <5>2
        <5> QED BY <5>3
      <4>2. CASE i \in 1..c BY <1>7, <2>4, <4>2
      <4> QED BY <2>4, <4>1, <4>2
    <3>2. \A i \in 1..c : i \in 1..d /\ \A k \in DOMAIN slots[i] : k \in DOMAIN t[i] /\ t[i][k] = slots[i][k]
      BY <2>4
    <3>3. \A i \in 1..d : \A k \in DOMAIN t[i] :
            \/ i \in 1..c /\ k \in DOMAIN slots[i] /\ t[i][k] = slots[i][k]
            \/ i = d /\ t[i][k] = r
      BY <2>1, <2>4
    <3>4. \E k \in DOMAIN t[d] : t[d][k] = r
      <4>1. 1 \in DOMAIN t[d] BY <2>1, <2>4
      <4> QED BY <2>1, <2>4, <4>1
    <3> QED BY <1>6, <2>4, <3>1, <3>2, <3>3, <3>4 DEF OneMore
  <2>6. \A i \in 1..d : \A k \in DOMAIN t[i] : t[i][k].at \in t[i][1].at..(t[i][1].at + SlotSpan)
    <3> SUFFICES ASSUME NEW i \in 1..d, NEW k \in DOMAIN t[i]
                 PROVE  t[i][k].at \in t[i][1].at..(t[i][1].at + SlotSpan)
      OBVIOUS
    <3>1. CASE i = d
      <4>1. t[i][k] = r /\ t[i][1] = r BY <2>1, <2>4, <3>1
      <4> QED BY <1>6, <1>8, <4>1
    <3>2. CASE i \in 1..c BY <1>9, <2>4, <3>2
    <3> QED BY <2>4, <3>1, <3>2
  <2>7. \A i, j \in 1..d : i < j => t[i][1].at + SlotSpan < t[j][1].at
    <3>1. \A i \in 1..c : slots[i][1].at + SlotSpan < r.at
      <4> SUFFICES ASSUME NEW i \in 1..c PROVE slots[i][1].at + SlotSpan < r.at OBVIOUS
      <4>1. c \in 1..c /\ c # 0 /\ (i = c \/ i < c) BY <1>6
      <4>2. slots[c][1].at + SlotSpan < r.at BY <1>6, <1>7, <1>8, <1>11, <4>1
      <4>3. i < c => slots[i][1].at + SlotSpan < slots[c][1].at BY <1>9, <4>1
      <4>4. PICK a \in Nat : a = slots[i][1].at BY <1>7
      <4>5. PICK b \in Nat : b = slots[c][1].at BY <1>7, <4>1
      <4>6. PICK e \in Nat : e = r.at BY <1>6
      <4>7. b + SlotSpan < e /\ (i = c => a = b) /\ (i < c => a + SlotSpan < b)
        BY <4>2, <4>3, <4>4, <4>5, <4>6
      <4>8. a + SlotSpan < e BY <1>8, <4>1, <4>7
      <4> QED BY <4>4, <4>6, <4>8
    <3>2. \A i, j \in 1..d : i < j => i \in 1..c BY <1>6, <2>3
    <3> QED BY <1>9, <2>1, <2>4, <3>1, <3>2
  <2>8. EachOnce(w, p, t)
    BY <1>1, <1>2, <1>3, <1>12, <2>5, OneMoreIsGood
  <2>9. GoodSlots(R, w, p, t)
    BY <2>4, <2>5, <2>6, <2>7, <2>8 DEF GoodSlots, OneMore
  <2> QED BY <1>1, <1>3, <1>4, <2>9
<1> QED BY <1>10, <1>11

\* The rows that TimeSlots makes of the records.
LEMMA TimeSlotsAre ==
    ASSUME NEW R, IsFiniteSet(R), \A r \in R : IsRecord(r)
    PROVE  GoodSlots(R, InOrder(R), Cardinality(R), TimeSlots(R))
<1>1. PICK n : n = Cardinality(R) OBVIOUS
<1>2. PICK w : w = InOrder(R) OBVIOUS
<1>3. /\ n \in Nat /\ w \in [1..n -> R]
      /\ \A i, j \in 1..n : i < j => w[i].at <= w[j].at /\ w[i] # w[j]
  BY <1>1, <1>2, RecordsInOrder
<1>4. Len(w) = n BY <1>3
<1>5. \A r \in R : r.at \in Nat BY DEF IsRecord
<1> DEFINE X == Seq(Seq(R))
           next == [q \in X \X (1..n) |-> WithRecord(q[1], w[q[2]])]
<1>6. ASSUME NEW slots \in X, NEW k \in 1..n
      PROVE  WithRecord(slots, w[k]) \in X
  <2>1. w[k] \in R BY <1>3
  <2> QED BY <2>1, RowsStayRows
<1>7. next \in [X \X (1..n) -> X]
  <2> SUFFICES ASSUME NEW q \in X \X (1..n) PROVE WithRecord(q[1], w[q[2]]) \in X OBVIOUS
  <2>1. q[1] \in X /\ q[2] \in 1..n OBVIOUS
  <2> HIDE DEF X
  <2> QED BY <1>6, <2>1
<1>8. PICK none \in X : none = <<>>
  <2>1. <<>> \in X OBVIOUS
  <2> HIDE DEF X
  <2> QED BY <2>1
<1>9. \A slots \in X : \A k \in 1..n : next[<<slots, k>>] = WithRecord(slots, w[k]) OBVIOUS
<1> HIDE DEF X, next
<1>10. PICK f \in [0..n -> X] : f[0] = <<>> /\ \A k \in 1..n : f[k] = next[<<f[k - 1], k>>]
  <2>1. PICK f : Iterates(f, X, none, n, next) BY <1>3, <1>7, IteratesExist
  <2> QED BY <1>8, <2>1 DEF Iterates
<1>11. f = [k \in 0..n |-> IF k = 0 THEN <<>> ELSE WithRecord(f[k - 1], w[k])]
  <2>1. \A k \in 0..n : k = 0 \/ (k \in 1..n /\ k # 0 /\ k - 1 \in 0..n) BY <1>3
  <2>2. \A k \in 0..n : f[k] = IF k = 0 THEN <<>> ELSE WithRecord(f[k - 1], w[k])
    BY <1>9, <1>10, <2>1
  <2> QED BY <1>10, <2>2
<1> DEFINE Fills(g) == g = [k \in 0..n |-> IF k = 0 THEN <<>> ELSE WithRecord(g[k - 1], w[k])]
           g == CHOOSE h : Fills(h)
<1>12. TimeSlots(R) = g[n] BY <1>2, <1>4 DEF TimeSlots
<1>13. Fills(g) BY <1>11
<1> HIDE DEF g
<1>14. \A k \in 0..n : g[k] = IF k = 0 THEN <<>> ELSE WithRecord(g[k - 1], w[k]) BY <1>13
<1> DEFINE G == {k \in 0..n : GoodSlots(R, w, k, g[k])}
<1>15. 0 \in G
  <2>1. g[0] = <<>> BY <1>3, <1>14
  <2>2. PICK s : s = g[0] OBVIOUS
  <2>3. s \in Seq(Seq(R)) /\ DOMAIN s = {} BY <2>1, <2>2
  <2>4. \A l \in 1..0 : FALSE OBVIOUS
  <2>5. GoodSlots(R, w, 0, s) BY <2>3, <2>4 DEF GoodSlots, EachOnce
  <2> QED BY <1>3, <2>2, <2>5
<1>16. ASSUME NEW k \in 0..n, k < n, k \in G PROVE k + 1 \in G
  <2>1. PICK s : s = g[k] OBVIOUS
  <2>2. PICK m : m = k + 1 OBVIOUS
  <2>3. m \in 0..n /\ m # 0 /\ m - 1 = k BY <1>3, <1>16, <2>2
  <2>4. GoodSlots(R, w, k, s) BY <1>16, <2>1
  <2>5. GoodSlots(R, w, k + 1, WithRecord(s, w[k + 1])) BY <1>3, <1>5, <1>16, <2>4, NextRecord
  <2>6. g[m] = WithRecord(s, w[m]) BY <1>14, <2>1, <2>3
  <2>7. GoodSlots(R, w, m, g[m]) BY <2>2, <2>5, <2>6
  <2> QED BY <2>2, <2>3, <2>7
<1>17. n \in G
  <2> HIDE DEF G
  <2>1. \A k \in 0..n : k \in G BY <1>3, <1>15, <1>16, StepByStep
  <2> QED BY <1>3, <2>1
<1> QED BY <1>1, <1>2, <1>12, <1>17

\* The table is a finite set of records, and the drawer shows some of them.
TraceInv ==
    /\ second \in Nat /\ IsFiniteSet(trace) /\ \A r \in trace : IsRecord(r)
    /\ drawer # NoTrace => IsFiniteSet(drawer.records) /\ \A r \in drawer.records : IsRecord(r)
    /\ drawer # NoTrace => drawer = [run |-> drawer.run, loading |-> drawer.loading,
                                     records |-> drawer.records]

LEMMA TraceInvStart == RunsIdle => TraceInv
BY FS_EmptySet DEF RunsIdle, TraceInv

LEMMA TraceInvStep ==
    ASSUME TraceInv, RunsStep \/ UNCHANGED runsVars
    PROVE  TraceInv'
<1>1. ASSUME NEW s \in Sessions, NEW i \in DOMAIN Actions, WriteTrace(s, Actions[i])
      PROVE  TraceInv'
  <2>1. PICK r : r = [run |-> s.run, session |-> s.no, agent |-> s.agent,
                      action |-> Actions[i], at |-> second]
    OBVIOUS
  <2>2. r.run = s.run /\ r.session = s.no /\ r.agent = s.agent /\ r.action = Actions[i] /\ r.at = second
    BY <2>1
  <2>3. r = [run |-> r.run, session |-> r.session, agent |-> r.agent, action |-> r.action, at |-> r.at]
    BY <2>1, <2>2
  <2>4. IsRecord(r) BY <2>2, <2>3 DEF IsRecord, TraceInv
  <2>5. trace' = trace \cup {r} \/ trace' = trace BY <1>1, <2>1 DEF WriteTrace
  <2>6. IsFiniteSet(trace \cup {r}) BY FS_AddElement DEF TraceInv
  <2>7. second' = second /\ drawer' = drawer BY <1>1 DEF WriteTrace, pageVars
  <2>8. IsFiniteSet(trace') /\ trace \subseteq trace' /\ \A q \in trace' : IsRecord(q)
    BY <2>4, <2>5, <2>6 DEF TraceInv
  <2> QED BY <2>7, <2>8 DEF TraceInv
<1>2. CASE SecondPasses BY <1>2 DEF SecondPasses, TraceInv, pageVars
<1>3. CASE LoadRuns BY <1>3 DEF LoadRuns, TraceInv, tableVars
<1>4. CASE TraceAnswered
  <2>1. PICK recs \in {RowsOf(trace, drawer.run), {}} :
            drawer' = [drawer EXCEPT !.loading = FALSE, !.records = recs]
    BY <1>4 DEF TraceAnswered
  <2>2. IsFiniteSet(recs) /\ \A r \in recs : IsRecord(r)
    <3>1. recs \in SUBSET trace BY DEF RowsOf
    <3>2. IsFiniteSet(recs) BY <3>1, FS_Subset DEF TraceInv
    <3> QED BY <3>1, <3>2 DEF TraceInv
  <2>3. PICK run : run = drawer.run OBVIOUS
  <2>4. drawer' = [run |-> run, loading |-> FALSE, records |-> recs]
    <3>1. PICK loading, records : drawer = [run |-> run, loading |-> loading, records |-> records]
      BY <1>4, <2>3 DEF TraceAnswered, TraceInv
    <3> QED BY <2>1, <3>1
  <2> QED BY <1>4, <2>2, <2>4 DEF TraceAnswered, TraceInv, tableVars
<1>5. CASE CloseTrace BY <1>5 DEF CloseTrace, TraceInv, tableVars
<1>6. ASSUME NEW c \in lists, ScanPage(c) \/ ListAnswered(c) \/ ListFails(c) PROVE TraceInv'
  BY <1>6 DEF ScanPage, ListAnswered, ListFails, TraceInv, tableVars
<1>7. ASSUME NEW k \in Statuses, Toggle(k) PROVE TraceInv'
  BY <1>7 DEF Toggle, TraceInv, tableVars
<1>8. ASSUME NEW run \in TracedRuns, OpenTrace(run) PROVE TraceInv'
  <2>1. drawer' = [run |-> run, loading |-> TRUE, records |-> {}] BY <1>8 DEF OpenTrace
  <2>2. PICK none : none = {} OBVIOUS
  <2>3. IsFiniteSet(none) BY <2>2, FS_EmptySet
  <2>4. drawer' = [run |-> run, loading |-> TRUE, records |-> none] BY <2>1, <2>2
  <2> QED BY <1>8, <2>2, <2>3, <2>4 DEF OpenTrace, TraceInv, tableVars
<1>10. ASSUME NEW r \in trace, RecordDeleted(r) PROVE TraceInv'
  <2>1. second' = second /\ drawer' = drawer /\ trace' \in SUBSET trace
    BY <1>10 DEF RecordDeleted, pageVars
  <2>2. IsFiniteSet(trace') BY <2>1, FS_Subset DEF TraceInv
  <2> QED BY <2>1, <2>2 DEF TraceInv
<1>9. CASE UNCHANGED runsVars BY <1>9 DEF runsVars, TraceInv
<1> QED BY <1>1, <1>2, <1>3, <1>4, <1>5, <1>6, <1>7, <1>8, <1>9, <1>10 DEF RunsStep

LEMMA TraceInvSays == TraceInv => LanesShowEveryRecord
<1> SUFFICES ASSUME TraceInv, drawer # NoTrace, drawer.records # {}
             PROVE  LanesShowEveryRecord
  BY DEF LanesShowEveryRecord
<1>1. PICK R : R = drawer.records OBVIOUS
<1>2. IsFiniteSet(R) /\ \A r \in R : IsRecord(r) BY <1>1 DEF TraceInv
<1>3. PICK slots : slots = TimeSlots(R) OBVIOUS
<1>4. PICK w : w = InOrder(R) OBVIOUS
<1>5. PICK n : n = Cardinality(R) OBVIOUS
<1>6. GoodSlots(R, w, n, slots) BY <1>2, <1>3, <1>4, <1>5, TimeSlotsAre
<1>7. \A r \in R : \E l \in 1..n : w[l] = r BY <1>2, <1>4, <1>5, RecordsInOrder
<1>8. \A i \in DOMAIN slots : Head(slots[i]) = slots[i][1]
  <2> SUFFICES ASSUME NEW i \in DOMAIN slots PROVE Head(slots[i]) = slots[i][1] OBVIOUS
  <2>1. PICK s \in Seq(R) : s = slots[i] BY <1>6 DEF GoodSlots
  <2>2. Len(s) > 0 BY <1>6, <2>1 DEF GoodSlots
  <2> QED BY <2>1, <2>2
<1>9. ASSUME NEW r \in R
      PROVE  Cardinality({p \in (DOMAIN slots) \X Lanes(R) : r \in Cell(slots[p[1]], p[2])}) = 1
  <2> DEFINE C == {p \in (DOMAIN slots) \X Lanes(R) : r \in Cell(slots[p[1]], p[2])}
  <2>1. PICK l \in 1..n : w[l] = r BY <1>7
  <2>2. PICK i \in DOMAIN slots : \E k \in DOMAIN slots[i] : slots[i][k] = r
    BY <1>6, <2>1 DEF GoodSlots, EachOnce
  <2>3. PICK a : a = r.agent OBVIOUS
  <2>4. a \in Lanes(R) BY <2>3 DEF Lanes
  <2>5. \A j \in DOMAIN slots : (\E k \in DOMAIN slots[j] : slots[j][k] = r) => j = i
    BY <1>6, <2>2 DEF GoodSlots, EachOnce
  <2>6. \A j \in DOMAIN slots : \A b : r \in Cell(slots[j], b) <=>
            b = a /\ \E k \in DOMAIN slots[j] : slots[j][k] = r
    BY <2>3 DEF Cell, ToSet
  <2>7. PICK q : q = <<i, a>> OBVIOUS
  <2>8. q \in C BY <2>2, <2>4, <2>6, <2>7
  <2>9. \A p \in C : p = q
    <3> SUFFICES ASSUME NEW p \in C PROVE p = q OBVIOUS
    <3>1. p = <<p[1], p[2]>> /\ p[1] \in DOMAIN slots /\ r \in Cell(slots[p[1]], p[2]) OBVIOUS
    <3> QED BY <2>5, <2>6, <2>7, <3>1
  <2> HIDE DEF C
  <2>10. C = {q} BY <2>8, <2>9
  <2>11. Cardinality(C) = 1 BY <2>10, FS_Singleton
  <2> QED BY <2>11 DEF C
<1>10. \A i, j \in DOMAIN slots : i < j => Head(slots[i]).at + SlotSpan < Head(slots[j]).at
  BY <1>6, <1>8 DEF GoodSlots
<1>11. \A i \in DOMAIN slots : \A k \in DOMAIN slots[i] :
        slots[i][k].at \in Head(slots[i]).at..(Head(slots[i]).at + SlotSpan)
  BY <1>6, <1>8 DEF GoodSlots
<1> QED BY <1>1, <1>3, <1>9, <1>10, <1>11 DEF LanesShowEveryRecord

\* The lanes of an open trace show each of its records once, in rows in the
\* order of time (TraceDrawer).
THEOREM LanesShowTraces == BrowserSpec => []LanesShowEveryRecord
<1>1. BrowserInit => TraceInv BY TraceInvStart DEF BrowserInit
<1>2. TraceInv /\ [BrowserNext]_browserVars => TraceInv' BY PartSteps, TraceInvStep
<1> QED BY <1>1, <1>2, TraceInvSays, PTL DEF BrowserSpec

-----------------------------------------------------------------------------
(* The earned-value chart *)

\* The records of a window, the newest first.
LEMMA ProgramEvIs ==
    ASSUME NEW c
    PROVE  ProgramEV(c) \in Seq({e \in Lake : e.type = "EV_UPDATED"})
<1> DEFINE read == InWindow("EV_UPDATED", c, 30)
           newer(a, b) == a.age < b.age \/ (a.age = b.age /\ a.id > b.id)
           upto == [e \in read |-> {f \in read : f = e \/ newer(f, e)}]
           E == {e \in Lake : e.type = "EV_UPDATED"}
<1>1. read \in SUBSET Lake /\ read \subseteq E BY DEF InWindow
<1>2. IsFiniteSet(read) BY <1>1, FS_Subset, PanelAssumption
<1>3. ProgramEV(c) = Cut(Listed(upto)) BY DEF ProgramEV
<1>4. \A e, f \in read : f \in upto[e] <=> f = e \/ newer(f, e) OBVIOUS
<1>5. upto \in [read -> SUBSET read] OBVIOUS
<1>6. \A e, f \in read : e.age \in Nat /\ e.id \in Nat /\ (e.id = f.id => e = f)
  BY <1>1, PanelAssumption
<1> HIDE DEF read, upto, E
<1>7. \A e \in read : e \in upto[e] BY <1>4
<1>8. \A e, f \in read : e \in upto[f] \/ f \in upto[e]
  <2> SUFFICES ASSUME NEW e \in read, NEW f \in read PROVE e \in upto[f] \/ f \in upto[e]
    OBVIOUS
  <2>1. e.age \in Nat /\ f.age \in Nat /\ e.id \in Nat /\ f.id \in Nat BY <1>6
  <2>2. e.id = f.id => e = f BY <1>6
  <2>3. e = f \/ newer(e, f) \/ newer(f, e) BY <2>1, <2>2
  <2> QED BY <1>4, <2>3
<1>9. \A e, f \in read : e \in upto[f] => upto[e] \subseteq upto[f]
  <2> SUFFICES ASSUME NEW e \in read, NEW f \in read, e \in upto[f], NEW g \in upto[e]
               PROVE  g \in upto[f]
    OBVIOUS
  <2>1. g \in read BY <1>5
  <2>2. (e = f \/ newer(e, f)) /\ (g = e \/ newer(g, e)) BY <1>4, <2>1
  <2>3. /\ e.age \in Nat /\ f.age \in Nat /\ g.age \in Nat
        /\ e.id \in Nat /\ f.id \in Nat /\ g.id \in Nat
    BY <1>6, <2>1
  <2>4. newer(e, f) /\ newer(g, e) => newer(g, f) BY <2>3
  <2> QED BY <1>4, <2>1, <2>2, <2>4
<1>10. \A e, f \in read : e \in upto[f] /\ f \in upto[e] => e = f
  <2> SUFFICES ASSUME NEW e \in read, NEW f \in read, e \in upto[f], f \in upto[e] PROVE e = f
    OBVIOUS
  <2>1. e.age \in Nat /\ f.age \in Nat /\ e.id \in Nat /\ f.id \in Nat BY <1>6
  <2>2. ~(newer(e, f) /\ newer(f, e)) BY <2>1
  <2> QED BY <1>4, <2>2
<1>11. Cardinality(read) \in Nat /\ Listed(upto) \in [1..Cardinality(read) -> read]
  BY <1>2, <1>5, <1>7, <1>8, <1>9, <1>10, ListedInOrder
<1>12. PICK n \in Nat : n = Cardinality(read) BY <1>11
<1>13. PICK l : l = Listed(upto) OBVIOUS
<1>14. l \in [1..n -> E] BY <1>1, <1>11, <1>12, <1>13
<1>15. l \in Seq(E) BY <1>14
<1>16. Cut(l) \in Seq(E)
  <2>1. PICK k : k = IF Len(l) < RowLimit THEN Len(l) ELSE RowLimit OBVIOUS
  <2>2. k \in Nat /\ k <= Len(l) /\ Len(l) \in Nat BY <1>15, <2>1, PanelAssumption
  <2>3. Cut(l) = SubSeq(l, 1, k) BY <2>1 DEF Cut
  <2>4. SubSeq(l, 1, k) \in Seq(E) BY <1>15, <2>2
  <2> QED BY <2>3, <2>4
<1> QED BY <1>3, <1>13, <1>16 DEF E

\* A series has a point for each period of the first m rows, the newest.
GoodSeries(rows, m, s) ==
    /\ \A i \in 1..m : rows[i].period \in DOMAIN s /\ s[rows[i].period] >= rows[i].stamp
    /\ \A p \in DOMAIN s : \E i \in 1..m : rows[i].period = p /\ rows[i].stamp = s[p]

LEMMA NextPoint ==
    ASSUME NEW n \in Nat, NEW rows, \A i \in 1..n : rows[i].stamp \in Nat,
           NEW m \in 0..n, m < n, NEW s, GoodSeries(rows, m, s)
    PROVE  GoodSeries(rows, m + 1, WithPoint(s, rows[m + 1]))
<1>1. PICK k : k = m + 1 OBVIOUS
<1>2. /\ k \in 1..n /\ k \in 1..k /\ \A i \in 1..k : i = k \/ i \in 1..m
      /\ \A i \in 1..m : i \in 1..n /\ i \in 1..k
  BY <1>1
<1>3. PICK r : r = rows[k] OBVIOUS
<1>4. r.stamp \in Nat BY <1>2, <1>3
<1>5. PICK t : t = WithPoint(s, r) OBVIOUS
<1>6. \A p \in DOMAIN s : s[p] \in Nat BY <1>2 DEF GoodSeries
<1>7. CASE r.period \in DOMAIN s /\ s[r.period] >= r.stamp
  <2>1. t = s BY <1>5, <1>7 DEF WithPoint
  <2>2. GoodSeries(rows, k, t) BY <1>2, <1>3, <1>7, <2>1 DEF GoodSeries
  <2> QED BY <1>1, <1>3, <1>5, <2>2
<1>8. CASE ~(r.period \in DOMAIN s /\ s[r.period] >= r.stamp)
  <2>1. t = [p \in DOMAIN s \cup {r.period} |-> IF p = r.period THEN r.stamp ELSE s[p]]
    BY <1>5, <1>8 DEF WithPoint
  <2>2. /\ DOMAIN t = DOMAIN s \cup {r.period} /\ t[r.period] = r.stamp
        /\ \A p \in DOMAIN s : p # r.period => t[p] = s[p]
    BY <2>1
  <2>3. r.period \in DOMAIN s => s[r.period] < r.stamp BY <1>4, <1>6, <1>8
  <2>4. \A i \in 1..k : rows[i].period \in DOMAIN t /\ t[rows[i].period] >= rows[i].stamp
    <3> SUFFICES ASSUME NEW i \in 1..k
                 PROVE  rows[i].period \in DOMAIN t /\ t[rows[i].period] >= rows[i].stamp
      OBVIOUS
    <3>1. CASE i = k BY <1>3, <1>4, <2>2, <3>1
    <3>2. CASE i \in 1..m
      <4>1. rows[i].period \in DOMAIN s /\ s[rows[i].period] >= rows[i].stamp
            /\ rows[i].stamp \in Nat
        BY <1>2, <3>2 DEF GoodSeries
      <4> QED BY <1>4, <1>6, <2>2, <2>3, <4>1
    <3> QED BY <1>2, <3>1, <3>2
  <2>5. \A p \in DOMAIN t : \E i \in 1..k : rows[i].period = p /\ rows[i].stamp = t[p]
    <3> SUFFICES ASSUME NEW p \in DOMAIN t
                 PROVE  \E i \in 1..k : rows[i].period = p /\ rows[i].stamp = t[p]
      OBVIOUS
    <3>1. CASE p = r.period BY <1>2, <1>3, <2>2, <3>1
    <3>2. CASE p # r.period BY <1>2, <2>2, <3>2 DEF GoodSeries
    <3> QED BY <3>1, <3>2
  <2>6. GoodSeries(rows, k, t) BY <2>4, <2>5 DEF GoodSeries
  <2> QED BY <1>1, <1>3, <1>5, <2>6
<1> QED BY <1>7, <1>8

LEMMA LatestPerPeriodIs ==
    ASSUME NEW E, \A e \in E : e.stamp \in Nat, NEW rows \in Seq(E)
    PROVE  GoodSeries(rows, Len(rows), LatestPerPeriod(rows))
<1>1. PICK n : n = Len(rows) OBVIOUS
<1>2. n \in Nat /\ \A i \in 1..n : rows[i] \in E /\ rows[i].stamp \in Nat BY <1>1
<1> DEFINE P == {e.period : e \in E}
           X == UNION {[D -> Nat] : D \in SUBSET P}
           next == [q \in X \X (1..n) |-> WithPoint(q[1], rows[q[2]])]
<1>3. ASSUME NEW s \in X, NEW k \in 1..n PROVE WithPoint(s, rows[k]) \in X
  <2>1. PICK D \in SUBSET P : s \in [D -> Nat] OBVIOUS
  <2>2. PICK r \in E : r = rows[k] BY <1>2
  <2>3. PICK F : F = D \cup {r.period} OBVIOUS
  <2>4. F \in SUBSET P BY <2>2, <2>3
  <2>5. [p \in F |-> IF p = r.period THEN r.stamp ELSE s[p]] \in [F -> Nat]
    BY <1>2, <2>1, <2>2, <2>3
  <2>6. WithPoint(s, r) \in [D -> Nat] \/ WithPoint(s, r) \in [F -> Nat]
    BY <2>1, <2>3, <2>5 DEF WithPoint
  <2> HIDE DEF P
  <2>7. WithPoint(s, r) \in X BY <2>4, <2>6
  <2> QED BY <2>2, <2>7
<1>4. next \in [X \X (1..n) -> X]
  <2> SUFFICES ASSUME NEW q \in X \X (1..n) PROVE WithPoint(q[1], rows[q[2]]) \in X OBVIOUS
  <2> HIDE DEF X
  <2>1. q[1] \in X /\ q[2] \in 1..n OBVIOUS
  <2> QED BY <1>3, <2>1
<1>5. PICK none \in X : none = <<>>
  <2>1. <<>> \in [{} -> Nat] OBVIOUS
  <2>2. <<>> \in X BY <2>1
  <2> HIDE DEF X
  <2> QED BY <2>2
<1>6. \A s \in X : \A k \in 1..n : next[<<s, k>>] = WithPoint(s, rows[k]) OBVIOUS
<1> HIDE DEF X, next
<1>7. PICK f \in [0..n -> X] : f[0] = <<>> /\ \A k \in 1..n : f[k] = next[<<f[k - 1], k>>]
  <2>1. PICK f : Iterates(f, X, none, n, next) BY <1>2, <1>4, IteratesExist
  <2> QED BY <1>5, <2>1 DEF Iterates
<1>8. f = [k \in 0..n |-> IF k = 0 THEN <<>> ELSE WithPoint(f[k - 1], rows[k])]
  <2>1. \A k \in 0..n : k = 0 \/ (k \in 1..n /\ k # 0 /\ k - 1 \in 0..n) BY <1>2
  <2>2. \A k \in 0..n : f[k] = IF k = 0 THEN <<>> ELSE WithPoint(f[k - 1], rows[k])
    BY <1>6, <1>7, <2>1
  <2> QED BY <1>7, <2>2
<1> DEFINE Fills(g) == g = [k \in 0..n |-> IF k = 0 THEN <<>> ELSE WithPoint(g[k - 1], rows[k])]
           g == CHOOSE h : Fills(h)
<1>9. LatestPerPeriod(rows) = g[n] BY <1>1 DEF LatestPerPeriod
<1>10. Fills(g) BY <1>8
<1> HIDE DEF g
<1>11. \A k \in 0..n : g[k] = IF k = 0 THEN <<>> ELSE WithPoint(g[k - 1], rows[k]) BY <1>10
<1> DEFINE G == {k \in 0..n : GoodSeries(rows, k, g[k])}
<1>12. 0 \in G
  <2>1. g[0] = <<>> BY <1>2, <1>11
  <2>2. PICK s : s = g[0] OBVIOUS
  <2>3. DOMAIN s = {} BY <2>1, <2>2
  <2>4. \A l \in 1..0 : FALSE OBVIOUS
  <2>5. GoodSeries(rows, 0, s) BY <2>3, <2>4 DEF GoodSeries
  <2> QED BY <1>2, <2>2, <2>5
<1>13. ASSUME NEW k \in 0..n, k < n, k \in G PROVE k + 1 \in G
  <2>1. PICK s : s = g[k] OBVIOUS
  <2>2. PICK m : m = k + 1 OBVIOUS
  <2>3. m \in 0..n /\ m # 0 /\ m - 1 = k BY <1>2, <1>13, <2>2
  <2>4. GoodSeries(rows, k, s) BY <1>13, <2>1
  <2>5. GoodSeries(rows, k + 1, WithPoint(s, rows[k + 1])) BY <1>2, <1>13, <2>4, NextPoint
  <2>6. g[m] = WithPoint(s, rows[m]) BY <1>11, <2>1, <2>3
  <2>7. GoodSeries(rows, m, g[m]) BY <2>2, <2>5, <2>6
  <2> QED BY <2>2, <2>3, <2>7
<1>14. n \in G
  <2> HIDE DEF G
  <2>1. \A k \in 0..n : k \in G BY <1>2, <1>12, <1>13, StepByStep
  <2> QED BY <1>2, <2>1
<1> QED BY <1>1, <1>9, <1>14

-----------------------------------------------------------------------------
(* The NCR trend *)

\* The sum of the counts of groups is the number of what is in them.
LEMMA SumIsSize ==
    ASSUME NEW N, IsFiniteSet(N), NEW groups, NEW grp \in [N -> groups],
           \A g \in groups : g.cnt = Cardinality({e \in N : grp[e] = g}),
           NEW some, some \subseteq groups
    PROVE  SumCnt(some) = Cardinality({e \in N : grp[e] \in some})
<1> DEFINE Of(g) == {e \in N : grp[e] = g}
           M == {e \in N : grp[e] \in some}
           U == UNION {{r} \X (1..r.cnt) : r \in some}
           numbering == [g \in groups |-> CHOOSE b : b \in Bijection(1..g.cnt, Of(g))]
           count == [u \in U |-> numbering[u[1]][u[2]]]
<1>1. ASSUME NEW g \in groups
      PROVE  /\ numbering[g] \in Bijection(1..g.cnt, Of(g))
  <2>1. Of(g) \in SUBSET N OBVIOUS
  <2>2. IsFiniteSet(Of(g)) BY <2>1, FS_Subset
  <2>3. ExistsBijection(1..g.cnt, Of(g)) BY <2>2, FS_CardinalityType
  <2> HIDE DEF Of
  <2> QED BY <2>3 DEF ExistsBijection
<1>2. ASSUME NEW g \in groups
      PROVE  /\ numbering[g] \in [1..g.cnt -> Of(g)]
             /\ \A i, j \in 1..g.cnt : numbering[g][i] = numbering[g][j] => i = j
             /\ \A e \in Of(g) : \E i \in 1..g.cnt : numbering[g][i] = e
  <2> HIDE DEF Of, numbering
  <2> QED BY <1>1 DEF Bijection, Injection, Surjection, IsInjective
<1>3. \A u \in U : u[1] \in some /\ u[2] \in 1..u[1].cnt /\ u = <<u[1], u[2]>> OBVIOUS
<1>4. \A r \in some : \A i \in 1..r.cnt : <<r, i>> \in U OBVIOUS
<1>5. M \in SUBSET N OBVIOUS
<1>6. \A g \in groups : \A e \in N : e \in Of(g) <=> grp[e] = g OBVIOUS
<1>7. \A e \in N : e \in M <=> grp[e] \in some OBVIOUS
<1>8. count = [u \in U |-> numbering[u[1]][u[2]]] OBVIOUS
<1>9. SumCnt(some) = Cardinality(U) BY DEF SumCnt
<1>10. \A g \in groups : \A e \in Of(g) : e \in N OBVIOUS
<1> HIDE DEF Of, M, U, numbering, count
<1>11. ASSUME NEW u \in U
       PROVE  count[u] \in M /\ grp[count[u]] = u[1] /\ count[u] = numbering[u[1]][u[2]]
  <2>1. PICK g \in groups : g = u[1] BY <1>3
  <2>2. PICK i \in 1..g.cnt : i = u[2] BY <1>3, <2>1
  <2>3. numbering[g][i] \in Of(g) BY <1>2
  <2> QED BY <1>3, <1>6, <1>7, <1>8, <1>10, <2>1, <2>2, <2>3
<1>12. count \in [U -> M] BY <1>8, <1>11
<1>13. ASSUME NEW u \in U, NEW v \in U, count[u] = count[v] PROVE u = v
  <2>1. u[1] = v[1] BY <1>11, <1>13
  <2>2. PICK g \in groups : g = u[1] BY <1>3
  <2>3. u[2] \in 1..g.cnt /\ v[2] \in 1..g.cnt /\ numbering[g][u[2]] = numbering[g][v[2]]
    BY <1>3, <1>11, <1>13, <2>1, <2>2
  <2>4. u[2] = v[2] BY <1>2, <2>3
  <2> QED BY <1>3, <2>1, <2>4
<1>14. count \in Injection(U, M) BY <1>12, <1>13, Fun_IsInj DEF Injection, IsInjective
<1>15. ASSUME NEW e \in M PROVE \E u \in U : count[u] = e
  <2>1. e \in N BY <1>5
  <2>2. PICK g \in groups : g = grp[e] BY <2>1
  <2>3. g \in some /\ e \in Of(g) BY <1>6, <1>7, <2>1, <2>2
  <2>4. PICK i \in 1..g.cnt : numbering[g][i] = e BY <1>2, <2>3
  <2>5. PICK u : u = <<g, i>> OBVIOUS
  <2>6. u \in U /\ u[1] = g /\ u[2] = i BY <1>4, <2>3, <2>5
  <2> QED BY <1>8, <2>4, <2>6
<1>16. count \in Surjection(U, M) BY <1>12, <1>15 DEF Surjection
<1>17. IsFiniteSet(M) BY <1>5, FS_Subset
<1>18. Cardinality(U) = Cardinality(M) BY <1>14, <1>16, <1>17, FS_Injection
<1> QED BY <1>9, <1>18 DEF M

Ncrs(c) == InWindow("NON_CONFORMANCE_RAISED", c, 7)
Group(c, e) ==
    [age |-> e.age, severity |-> e.severity,
     cnt |-> Cardinality({f \in Ncrs(c) : f.age = e.age /\ f.severity = e.severity})]

\* What a trend shows of a day that is not its newest.
CountsDays(rows) ==
    \A p \in rows :
        (\E q \in rows : q.age < p.age) =>
            /\ p.total = Cardinality(NcrsOn(p.age))
            /\ \A c \in Columns : p.column[c] = Cardinality({e \in NcrsOn(p.age) : e.severity = c})

\* Rows begin with one of the oldest day, and end with a whole day: what is
\* as old as one of them, and older than another, is among them.
LEMMA WholeDays ==
    ASSUME NEW c, NEW rows \in NcrTrend(c)
    PROVE  /\ ToSet(rows) \subseteq {Group(c, e) : e \in Ncrs(c)}
           /\ \A e \in Ncrs(c) : \A r \in ToSet(rows) : r.age < e.age => Group(c, e) \in ToSet(rows)
           /\ rows # <<>> => /\ rows[1] \in ToSet(rows)
                             /\ \A r \in ToSet(rows) : r.age <= rows[1].age
<1> DEFINE groups == {Group(c, e) : e \in Ncrs(c)}
<1>1. PICK s \in SetToSeqs(groups) : /\ rows = Cut(s)
                                     /\ \A i, j \in DOMAIN s : i < j => s[i].age >= s[j].age
  BY DEF NcrTrend, Ncrs, Group
<1>2. IsFiniteSet(groups)
  <2>1. PICK grp : grp = [e \in Ncrs(c) |-> Group(c, e)] OBVIOUS
  <2>2. grp \in Surjection(Ncrs(c), groups) BY <2>1 DEF Surjection
  <2>3. Ncrs(c) \in SUBSET Lake BY DEF Ncrs, InWindow
  <2>4. IsFiniteSet(Ncrs(c)) BY <2>3, FS_Subset, PanelAssumption
  <2> HIDE DEF groups
  <2> QED BY <2>2, <2>4, FS_Surjection
<1>3. \A e \in Ncrs(c) : Group(c, e) \in groups /\ Group(c, e).age = e.age BY DEF Group
<1>4. \A e \in Ncrs(c) : e.age \in Nat BY PanelAssumption DEF Ncrs, InWindow
<1>5. \A g \in groups : g.age \in Nat BY <1>3, <1>4
<1> HIDE DEF groups
<1>6. PICK n \in Nat : n = Cardinality(groups) BY <1>2, FS_CardinalityType
<1>7. s \in [1..n -> groups] /\ \A i, j \in 1..n : i # j => s[i] # s[j]
  BY <1>1, <1>6 DEF SetToSeqs
<1>8. \A g \in groups : \E i \in 1..n : s[i] = g
  <2>1. IsFiniteSet(1..n) /\ Cardinality(1..n) = n BY FS_Interval
  <2>2. s \in Injection(1..n, groups) BY <1>7, Fun_IsInj DEF Injection, IsInjective
  <2>3. s \in Surjection(1..n, groups) BY <1>2, <1>6, <2>1, <2>2, FS_Injection
  <2> QED BY <2>3 DEF Surjection
<1>9. PICK k : k = IF Len(s) < RowLimit THEN Len(s) ELSE RowLimit OBVIOUS
<1>10. Len(s) = n /\ k \in Nat /\ k <= n BY <1>7, <1>9, PanelAssumption
<1>11. rows = SubSeq(s, 1, k) BY <1>1, <1>9 DEF Cut
<1>12. DOMAIN rows = 1..k /\ \A i \in 1..k : rows[i] = s[i] /\ i \in 1..n
  <2>1. s \in Seq(groups) BY <1>7
  <2> QED BY <1>10, <1>11, <2>1
<1>13. \A r : r \in ToSet(rows) <=> \E i \in 1..k : s[i] = r BY <1>12 DEF ToSet
<1>14. ToSet(rows) \subseteq groups BY <1>7, <1>12, <1>13
<1>15. ASSUME NEW e \in Ncrs(c), NEW r \in ToSet(rows), r.age < e.age
       PROVE  Group(c, e) \in ToSet(rows)
  <2>1. PICK j \in 1..k : s[j] = r BY <1>13
  <2>2. PICK g \in groups : g = Group(c, e) BY <1>3
  <2>3. PICK i \in 1..n : s[i] = g BY <1>8
  <2>4. j \in 1..n /\ r \in groups /\ DOMAIN s = 1..n BY <1>7, <1>12, <2>1
  <2>5. g.age \in Nat /\ r.age \in Nat /\ r.age < g.age BY <1>3, <1>5, <1>15, <2>2, <2>4
  <2>6. ~(j < i) BY <1>1, <2>1, <2>3, <2>4, <2>5
  <2>7. i \in 1..k BY <1>10, <2>6
  <2> QED BY <1>13, <2>2, <2>3, <2>7
<1>16. ASSUME rows # <<>>
       PROVE  rows[1] \in ToSet(rows) /\ \A r \in ToSet(rows) : r.age <= rows[1].age
  <2>1. k # 0
    <3>1. s \in Seq(groups) /\ DOMAIN s = 1..n BY <1>7
    <3>2. ASSUME k = 0 PROVE FALSE
      <4>1. rows = SubSeq(s, 1, 0) BY <1>11, <3>2
      <4> QED BY <1>16, <3>1, <4>1
    <3> QED BY <3>2
  <2>2. 1 \in 1..k BY <1>10, <2>1
  <2>3. rows[1] = s[1] /\ 1 \in 1..n BY <1>12, <2>2
  <2>4. rows[1] \in ToSet(rows) BY <1>13, <2>2, <2>3
  <2>5. ASSUME NEW r \in ToSet(rows) PROVE r.age <= rows[1].age
    <3>1. PICK j \in 1..k : s[j] = r BY <1>13
    <3>2. j \in 1..n /\ DOMAIN s = 1..n /\ r \in groups /\ s[1] \in groups
      BY <1>7, <1>12, <2>3, <3>1
    <3>3. r.age \in Nat /\ s[1].age \in Nat BY <1>5, <3>2
    <3>4. CASE j = 1 BY <2>3, <3>1, <3>3, <3>4
    <3>5. CASE j # 1
      <4>1. 1 < j BY <1>10, <3>1, <3>5
      <4>2. s[1].age >= s[j].age BY <1>1, <2>3, <3>2, <4>1
      <4> QED BY <2>3, <3>1, <3>3, <4>2
    <3> QED BY <3>4, <3>5
  <2> QED BY <2>4, <2>5
<1> QED BY <1>14, <1>15, <1>16 DEF groups

LEMMA TrendCounts ==
    ASSUME NEW c, NEW rows \in NcrTrend(c), ~PassThrough(rows)
    PROVE  CountsDays(PivotBySeverity(rows))
<1> DEFINE ncrs == Ncrs(c)
           groups == {Group(c, e) : e \in ncrs}
           grp == [e \in ncrs |-> Group(c, e)]
           on(age) == {r \in ToSet(rows) : r.age = age}
           columns(age) == [k \in Columns |-> SumCnt({q \in on(age) : q.severity = k})]
           pivot == PivotBySeverity(rows)
<1>1. ncrs \in SUBSET Lake /\ IsFiniteSet(ncrs)
  <2>1. ncrs \in SUBSET Lake BY DEF Ncrs, InWindow
  <2> QED BY <2>1, FS_Subset, PanelAssumption
<1>2. \A e \in ncrs : /\ Group(c, e) \in groups /\ grp[e] = Group(c, e)
                      /\ Group(c, e).age = e.age /\ Group(c, e).severity = e.severity
  BY DEF Group
<1>3. grp \in [ncrs -> groups] OBVIOUS
<1>4. \A g \in groups : g.cnt = Cardinality({e \in ncrs : grp[e] = g})
  <2> SUFFICES ASSUME NEW e \in ncrs
               PROVE  Group(c, e).cnt = Cardinality({f \in ncrs : grp[f] = Group(c, e)})
    OBVIOUS
  <2>1. Group(c, e).cnt = Cardinality({f \in ncrs : f.age = e.age /\ f.severity = e.severity})
    BY DEF Group
  <2>2. ASSUME NEW f \in ncrs
        PROVE  grp[f] = Group(c, e) <=> f.age = e.age /\ f.severity = e.severity
    <3>1. grp[f] = Group(c, f) /\ Group(c, f).age = f.age /\ Group(c, f).severity = f.severity
          /\ Group(c, e).age = e.age /\ Group(c, e).severity = e.severity
      BY <1>2
    <3>2. f.age = e.age /\ f.severity = e.severity => Group(c, f) = Group(c, e) BY DEF Group
    <3> QED BY <3>1, <3>2
  <2> HIDE DEF grp
  <2>3. {f \in ncrs : grp[f] = Group(c, e)} = {f \in ncrs : f.age = e.age /\ f.severity = e.severity}
    BY <2>2
  <2> QED BY <2>1, <2>3
<1>5. ToSet(rows) \subseteq groups /\ \A e \in ncrs : \A r \in ToSet(rows) :
        r.age < e.age => Group(c, e) \in ToSet(rows)
  BY WholeDays
<1>6. pivot = {[age |-> r.age, total |-> SumCnt(on(r.age)), column |-> columns(r.age)]
               : r \in ToSet(rows)}
  <2>1. \A a : on(a) = {r \in ToSet(rows) : r.age = a /\ ~PassThrough(rows)} OBVIOUS
  <2> HIDE DEF on
  <2> QED BY <2>1 DEF PivotBySeverity, Total
<1>7. \A a : \A r : r \in on(a) <=> r \in ToSet(rows) /\ r.age = a OBVIOUS
<1>8. \A a : \A k \in Columns : columns(a)[k] = SumCnt({q \in on(a) : q.severity = k}) OBVIOUS
<1> HIDE DEF groups, grp, on, columns, pivot
<1> SUFFICES ASSUME NEW p \in pivot, NEW q \in pivot, q.age < p.age
             PROVE  /\ p.total = Cardinality(NcrsOn(p.age))
                    /\ \A k \in Columns :
                        p.column[k] = Cardinality({e \in NcrsOn(p.age) : e.severity = k})
  BY DEF CountsDays, pivot
<1> DEFINE all == NcrsOn(p.age)
<1>9. PICK r \in ToSet(rows) : p.age = r.age /\ p.total = SumCnt(on(r.age)) /\ p.column = columns(r.age)
  BY <1>6
<1>10. PICK t \in ToSet(rows) : q.age = t.age BY <1>6
<1>11. PICK a : a = p.age OBVIOUS
<1>12. p.total = SumCnt(on(a)) /\ p.column = columns(a) /\ r.age = a /\ t.age < a
  BY <1>9, <1>10, <1>11
<1>13. PICK x \in ncrs : r = Group(c, x) BY <1>5, <1>9 DEF groups
<1>14. \A e : e \in all <=> e \in ncrs /\ e.age = a
  <2>1. x.age = a /\ x \in ncrs BY <1>2, <1>12, <1>13
  <2>2. \A e : e \in ncrs <=> /\ e \in Lake /\ e.type = "NON_CONFORMANCE_RAISED"
                              /\ e.age <= SafeInt(c, 7, MaxDays)
    BY DEF Ncrs, InWindow
  <2> QED BY <1>11, <2>1, <2>2 DEF NcrsOn
<1>15. \A e \in ncrs : grp[e] \in on(a) <=> e.age = a
  <2> SUFFICES ASSUME NEW e \in ncrs PROVE grp[e] \in on(a) <=> e.age = a OBVIOUS
  <2>1. grp[e] = Group(c, e) /\ grp[e].age = e.age BY <1>2
  <2>2. e.age = a => Group(c, e) \in ToSet(rows) BY <1>5, <1>12
  <2> QED BY <1>7, <2>1, <2>2
<1>16. on(a) \subseteq groups BY <1>5, <1>7
<1> HIDE DEF all, ncrs
<1>17. p.total = Cardinality(all)
  <2>1. SumCnt(on(a)) = Cardinality({e \in ncrs : grp[e] \in on(a)})
    BY <1>1, <1>3, <1>4, <1>16, SumIsSize
  <2>2. {e \in ncrs : grp[e] \in on(a)} = all BY <1>14, <1>15
  <2> QED BY <1>12, <2>1, <2>2
<1>18. ASSUME NEW k \in Columns
       PROVE  p.column[k] = Cardinality({e \in all : e.severity = k})
  <2> DEFINE some == {g \in on(a) : g.severity = k}
  <2>1. some \subseteq groups BY <1>16
  <2>2. \A e \in ncrs : grp[e].severity = e.severity BY <1>2
  <2>3. \A g : g \in some <=> g \in on(a) /\ g.severity = k OBVIOUS
  <2>4. p.column[k] = SumCnt(some) BY <1>8, <1>12
  <2> HIDE DEF some
  <2>5. SumCnt(some) = Cardinality({e \in ncrs : grp[e] \in some})
    BY <1>1, <1>3, <1>4, <2>1, SumIsSize
  <2>6. {e \in ncrs : grp[e] \in some} = {e \in all : e.severity = k}
    BY <1>14, <1>15, <2>2, <2>3
  <2> QED BY <2>4, <2>5, <2>6
<1> QED BY <1>17, <1>18 DEF all

-----------------------------------------------------------------------------
(* What the panels show *)

\* The rows of a panel are an answer, or none.
RowsInv ==
    /\ \A c \in calls : kind # "drawing" => c.choice \in Windows
    /\ (kind = "ev" /\ ~panel.loading /\ ~panel.error) =>
            panel.rows = LatestPerPeriod(ProgramEV(panel.of))
    /\ kind = "trend" => panel.rows = {} \/ \E c \in Windows : panel.rows \in Trends[c]

LEMMA NoTrendRows == kind = "trend" => NoRows = {}
<1> DEFINE nothing == ""
<1>1. NoRows = CASE kind = "ev" -> <<>> [] kind = "trend" -> {} [] kind = "drawing" -> nothing
  BY Zenon DEF NoRows
<1> HIDE DEF nothing
<1> QED BY <1>1

LEMMA FirstWindows == kind \in {"ev", "trend"} => FirstChoices(kind) \subseteq Windows
BY DEF FirstChoices, Windows

\* A panel whose rows were forgotten, with a request for a window.
LEMMA RowsForgotten ==
    ASSUME kind \in {"ev", "trend", "drawing"}, choice \in FirstChoices(kind),
           NEW n, calls = {NewCall(n, choice)}, panel = Fresh(choice)
    PROVE  RowsInv
<1>1. /\ panel.loading /\ panel.rows = NoRows
      /\ \A c \in calls : c.choice = choice
  BY DEF Fresh, NewCall
<1>2. kind # "drawing" => choice \in Windows BY FirstWindows
<1> QED BY <1>1, <1>2, NoTrendRows DEF RowsInv

LEMMA RowsStart ==
    ASSUME (part \in {"ev", "trend", "drawing"} /\ PanelInit({part})) \/ PanelIdle
    PROVE  RowsInv
<1>1. CASE PanelIdle
  <2>1. kind = "drawing" /\ calls = {} BY <1>1, Zenon DEF PanelIdle
  <2> QED BY <2>1 DEF RowsInv
<1>2. CASE part \in {"ev", "trend", "drawing"} /\ PanelInit({part})
  BY <1>2, RowsForgotten DEF PanelInit
<1> QED BY <1>1, <1>2

LEMMA RowsStep ==
    ASSUME RowsInv, PanelInv, kind \in Kinds, PanelStep \/ UNCHANGED panelVars
    PROVE  RowsInv'
<1> USE DEF RowsInv
<1>1. CASE Reopen
  <2>1. kind' = kind /\ kind = "trend" /\ choice' \in FirstChoices(kind)
        /\ calls' = {NewCall(requested', choice')} /\ panel' = Fresh(choice')
    BY <1>1 DEF Reopen
  <2>2. PICK c : c = choice' OBVIOUS
  <2>3. /\ \A d \in calls' : d.choice = c
        /\ panel'.rows = NoRows
    BY <2>1, <2>2 DEF NewCall, Fresh
  <2>4. c \in Windows BY <2>1, <2>2, FirstWindows
  <2> QED BY <2>1, <2>3, <2>4, NoTrendRows
<1>2. ASSUME NEW c \in Offered(kind), Select(c) PROVE RowsInv'
  <2>1. /\ kind' = kind /\ calls' = calls \cup {NewCall(requested', AsksFor(choice, c))}
        /\ panel' = [panel EXCEPT !.loading = TRUE, !.error = FALSE]
    BY <1>2 DEF Select
  <2>2. PICK n : n = requested' OBVIOUS
  <2>3. NewCall(n, AsksFor(choice, c)).choice = c BY DEF NewCall, AsksFor
  <2>4. kind # "drawing" => c \in Windows BY DEF Offered
  <2>5. panel = [rows |-> panel.rows, of |-> panel.of, loading |-> panel.loading, error |-> panel.error]
    BY DEF PanelInv, PanelShows
  <2>6. panel'.loading /\ panel'.rows = panel.rows BY <2>1, <2>5
  <2> QED BY <2>1, <2>2, <2>3, <2>4, <2>6
<1>3. ASSUME NEW c \in calls, AthenaEnds(c) \/ PollGoesOn(c) PROVE RowsInv'
  <2>1. c = [no |-> c.no, choice |-> c.choice, polls |-> c.polls, athena |-> c.athena]
    BY DEF PanelInv, PanelCalls
  <2>2. PICK d : calls' = (calls \ {c}) \cup {d} /\ d.choice = c.choice
    <3>1. CASE AthenaEnds(c)
      <4>1. PICK state : calls' = (calls \ {c}) \cup {[c EXCEPT !.athena = state]}
        BY <3>1 DEF AthenaEnds
      <4>2. PICK d : d = [c EXCEPT !.athena = state] OBVIOUS
      <4>3. d.choice = c.choice BY <2>1, <4>2
      <4> QED BY <4>1, <4>2, <4>3
    <3>2. CASE PollGoesOn(c)
      <4>1. PICK d : d = [c EXCEPT !.polls = @ + 1] OBVIOUS
      <4>2. d.choice = c.choice BY <2>1, <4>1
      <4> QED BY <3>2, <4>1, <4>2 DEF PollGoesOn
    <3> QED BY <1>3, <3>1, <3>2
  <2>3. kind' = kind /\ panel' = panel BY <1>3 DEF AthenaEnds, PollGoesOn
  <2> QED BY <2>2, <2>3
<1>4. ASSUME NEW c \in calls, Failed(c) PROVE RowsInv'
  <2>1. panel = [rows |-> panel.rows, of |-> panel.of, loading |-> panel.loading, error |-> panel.error]
    BY DEF PanelInv, PanelShows
  <2>2. /\ kind' = kind /\ calls' = calls \ {c}
        /\ panel' = [panel EXCEPT !.rows = IF kind = "ev" THEN NoRows ELSE @,
                                  !.loading = FALSE, !.error = TRUE]
    BY <1>4 DEF Failed, Comes
  <2>3. panel'.error /\ (kind # "ev" => panel'.rows = panel.rows) BY <2>1, <2>2
  <2> QED BY <2>2, <2>3
<1>5. ASSUME NEW c \in calls, PollSucceeds(c) PROVE RowsInv'
  <2>1. PICK rows \in Answers(c.choice) :
            Comes(c, [rows |-> rows, of |-> c.choice, loading |-> FALSE, error |-> FALSE])
    BY <1>5 DEF PollSucceeds
  <2>2. /\ kind' = kind /\ calls' = calls \ {c}
        /\ panel'.rows = rows /\ panel'.of = c.choice
    BY <2>1 DEF Comes
  <2>3. kind = "ev" => rows = LatestPerPeriod(ProgramEV(c.choice)) BY <2>1 DEF Answers
  <2>4. kind = "trend" => c.choice \in Windows /\ rows \in Trends[c.choice] BY <2>1 DEF Answers
  <2> QED BY <2>2, <2>3, <2>4
<1>6. CASE UNCHANGED panelVars BY <1>6 DEF panelVars
<1> QED BY <1>1, <1>2, <1>3, <1>4, <1>5, <1>6 DEF PanelStep, PollFails, RequestFails

LEMMA RowsSay == RowsInv => TrendCountsDays /\ EvIsLatest
<1> SUFFICES ASSUME RowsInv PROVE TrendCountsDays /\ EvIsLatest OBVIOUS
<1>1. TrendCountsDays
  <2>1. ASSUME kind = "trend",
               \A p \in panel.rows : (\A q \in panel.rows : q.age <= p.age) =>
                   \A e \in NcrsOn(p.age) : e.severity # NoSeverity
        PROVE  CountsDays(panel.rows)
    <3>1. CASE panel.rows = {} BY <3>1 DEF CountsDays
    <3>2. CASE panel.rows # {}
      <4>1. PICK c \in Windows : panel.rows \in Trends[c] BY <2>1, <3>2 DEF RowsInv
      <4>2. PICK rows \in NcrTrend(c) : panel.rows = PivotBySeverity(rows) BY <4>1 DEF Trends
      <4>3. CASE rows = <<>>
        <5>1. ToSet(rows) = {} BY <4>3 DEF ToSet
        <5> QED BY <3>2, <4>2, <5>1 DEF PivotBySeverity
      <4>4. CASE rows # <<>>
        <5>1. PICK e \in Ncrs(c) : rows[1] = Group(c, e) BY <4>4, WholeDays
        <5>2. PICK first \in ToSet(rows) : first = rows[1] BY <4>4, WholeDays
        <5>3. \A r \in ToSet(rows) : r.age <= first.age BY <4>4, <5>2, WholeDays
        <5>4. /\ \A q \in panel.rows : \E r \in ToSet(rows) : q.age = r.age
              /\ \E p \in panel.rows : p.age = first.age
          <6> DEFINE counted(age) == {r \in ToSet(rows) : r.age = age /\ ~PassThrough(rows)}
                     total(r) == Total(counted(r.age))
                     column(r) ==
                         [k \in Columns |-> SumCnt({q \in counted(r.age) : q.severity = k})]
          <6>1. panel.rows = {[age |-> r.age, total |-> total(r), column |-> column(r)]
                              : r \in ToSet(rows)}
            BY <4>2, Zenon DEF PivotBySeverity
          <6> HIDE DEF total, column
          <6>2. \A q \in panel.rows : \E r \in ToSet(rows) : q.age = r.age BY <6>1
          <6>3. [age |-> first.age, total |-> total(first), column |-> column(first)]
                  \in panel.rows
            BY <5>2, <6>1
          <6> QED BY <6>2, <6>3
        <5>5. PICK p \in panel.rows : p.age = first.age BY <5>4
        <5>6. \A q \in panel.rows : q.age <= p.age BY <5>3, <5>4, <5>5
        <5>7. first.age = e.age /\ first.severity = e.severity BY <5>1, <5>2 DEF Group
        <5>8. e \in NcrsOn(p.age) BY <5>5, <5>7 DEF NcrsOn, Ncrs, InWindow
        <5>9. first.severity # NoSeverity BY <2>1, <5>6, <5>7, <5>8
        <5>10. ~PassThrough(rows) BY <4>4, <5>2, <5>9 DEF PassThrough
        <5> QED BY <4>2, <5>10, TrendCounts
      <4> QED BY <4>3, <4>4
    <3> QED BY <3>1, <3>2
  <2> QED BY <2>1 DEF TrendCountsDays, CountsDays
<1>2. EvIsLatest
  <2> SUFFICES ASSUME kind = "ev", ~panel.loading, ~panel.error PROVE EvIsLatest
    BY DEF EvIsLatest
  <2> DEFINE E == {e \in Lake : e.type = "EV_UPDATED"}
  <2>1. PICK rows \in Seq(E) : rows = ProgramEV(panel.of) BY ProgramEvIs
  <2>2. panel.rows = LatestPerPeriod(rows) BY <2>1 DEF RowsInv
  <2>3. \A e \in E : e.stamp \in Nat BY PanelAssumption
  <2> HIDE DEF E
  <2>4. GoodSeries(rows, Len(rows), panel.rows) BY <2>2, <2>3, LatestPerPeriodIs
  <2>5. \A e : e \in ToSet(rows) <=> \E i \in 1..Len(rows) : rows[i] = e BY DEF ToSet
  <2>6. PICK read : read = ToSet(rows) OBVIOUS
  <2>7. /\ \A e \in read : e.period \in DOMAIN panel.rows /\ panel.rows[e.period] >= e.stamp
        /\ \A p \in DOMAIN panel.rows : \E e \in read : e.period = p /\ e.stamp = panel.rows[p]
    BY <2>4, <2>5, <2>6 DEF GoodSeries
  <2>8. DOMAIN panel.rows = {e.period : e \in read} BY <2>7
  <2> QED BY <2>1, <2>6, <2>7, <2>8 DEF EvIsLatest
<1> QED BY <1>1, <1>2

LEMMA KindHolds ==
    ASSUME kind \in Kinds, PanelStep \/ UNCHANGED panelVars PROVE kind' \in Kinds
BY DEF PanelStep, Reopen, Select, AthenaEnds, PollGoesOn, PollFails, PollSucceeds, RequestFails,
       Failed, Comes, panelVars

\* The panels' invariants hold.
LEMMA RowsInvHolds == BrowserSpec => []RowsInv
<1>1. BrowserInit => PanelInv /\ RowsInv /\ kind \in Kinds
  <2> SUFFICES ASSUME BrowserInit PROVE PanelInv /\ RowsInv /\ kind \in Kinds OBVIOUS
  <2>1. PanelInv BY PartsStart
  <2>2. (part \in {"ev", "trend", "drawing"} /\ PanelInit({part})) \/ PanelIdle BY DEF BrowserInit
  <2>3. RowsInv BY <2>2, RowsStart
  <2>4. kind \in Kinds
    <3>1. PanelIdle => kind = "drawing" BY Zenon DEF PanelIdle
    <3> QED BY <2>2, <3>1 DEF PanelInit, Kinds
  <2> QED BY <2>1, <2>3, <2>4
<1>2. PanelInv /\ RowsInv /\ kind \in Kinds /\ [BrowserNext]_browserVars =>
        (PanelInv /\ RowsInv /\ kind \in Kinds)'
  BY PartSteps, PanelInvStep, RowsStep, KindHolds
<1> QED BY <1>1, <1>2, PTL DEF BrowserSpec

\* The chart of NCRs counts each NCR of a day it shows whole, whatever its
\* severity, when those of its oldest day have one (useHistoricalData,
\* athena-query).
THEOREM TrendsCountDays == BrowserSpec => []TrendCountsDays
BY RowsInvHolds, RowsSay, PTL

\* The chart of earned value has a point for each period that was read, of
\* its newest record (businessPanels).
THEOREM EvShowsLatest == BrowserSpec => []EvIsLatest
BY RowsInvHolds, RowsSay, PTL

=============================================================================
