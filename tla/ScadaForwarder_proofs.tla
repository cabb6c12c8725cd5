------------------------ MODULE ScadaForwarder_proofs ------------------------
(***************************************************************************)
(* Proofs about ScadaForwarder, for every set of readings, every cooldown  *)
(* and every bound on calls, time and faults.                              *)
(*                                                                         *)
(* Flood control cannot be proved from the topic alone: between the put on *)
(* the debounce table and the send, what was let through is only in the    *)
(* memory of an invocation.  The invariant therefore speaks of what was    *)
(* let through and is held or sent, and ties it to the row.                *)
(***************************************************************************)
EXTENDS ScadaForwarder, TLAPS

Entries == [key : Keys, at : Nat, granted : BOOLEAN]
CallRecords ==
    [key : Keys, pc : {"check", "send", "sent", "suppressed", "failed"},
     at : Nat, tries : Nat, granted : BOOLEAN]

\* Every variable has its type.
ForwarderTypes ==
    /\ now \in Nat /\ faults \in Nat
    /\ row \in [Keys -> Nat \cup {NoRow}]
    /\ calls \in [Calls -> CallRecords \cup {NoCall}]
    /\ topic \in Seq(Entries)

\* A call is one of the records, not the empty sequence.
LEMMA StartedCall ==
    ASSUME ForwarderTypes, NEW c \in Calls, calls[c] # NoCall
    PROVE  calls[c] \in CallRecords /\ calls[c].key \in Keys
BY DEF ForwarderTypes, CallRecords

\* A change of a call's fields, with the call's type.
LEMMA CallChange ==
    ASSUME ForwarderTypes, NEW c \in Calls, calls[c] # NoCall,
           NEW r \in CallRecords, calls' = [calls EXCEPT ![c] = r]
    PROVE  /\ calls' \in [Calls -> CallRecords \cup {NoCall}]
           /\ calls'[c] = r /\ \A d \in Calls : d # c => calls'[d] = calls[d]
BY DEF ForwarderTypes

\* What the table's answer does to the call.
Answered(c, pc, granted) ==
    [calls[c] EXCEPT !.pc = pc, !.at = now, !.granted = granted]

LEMMA AnsweredCall ==
    ASSUME ForwarderTypes, NEW c \in Calls, calls[c] # NoCall,
           NEW pc \in {"send", "suppressed"}, NEW g \in BOOLEAN
    PROVE  /\ Answered(c, pc, g) \in CallRecords
           /\ Answered(c, pc, g).key = calls[c].key /\ Answered(c, pc, g).pc = pc
           /\ Answered(c, pc, g).at = now /\ Answered(c, pc, g).granted = g
<1>1. calls[c] \in CallRecords /\ now \in Nat BY StartedCall DEF ForwarderTypes
<1> QED BY <1>1 DEF Answered, CallRecords

\* The steps of a call that is being checked, in the words of CallChange.
LEMMA CheckedCall ==
    ASSUME ForwarderTypes, NEW c \in Calls,
           Grant(c) \/ Suppress(c) \/ FailOpen(c) \/ RefusedByOwnRow(c)
    PROVE  /\ calls[c] # NoCall /\ calls[c].pc = "check" /\ UNCHANGED <<now, topic>>
           /\ \E pc \in {"send", "suppressed"}, g \in BOOLEAN :
                /\ calls' = [calls EXCEPT ![c] = Answered(c, pc, g)]
                /\ Grant(c) => pc = "send" /\ g = TRUE
                /\ ~Grant(c) /\ pc = "send" => g = FALSE
                /\ FailOpen(c) /\ ~Grant(c) => pc = "send"
           /\ row' \in {row, [row EXCEPT ![calls[c].key] = now]}
<1>1. calls[c] # NoCall /\ calls[c] \in CallRecords /\ calls[c].pc = "check"
      /\ UNCHANGED <<now, topic>>
  BY StartedCall DEF Grant, Suppress, FailOpen, RefusedByOwnRow, At
<1>2. row' \in {row, [row EXCEPT ![calls[c].key] = now]}
  BY DEF Grant, Suppress, FailOpen, RefusedByOwnRow, RowAfterRefusal
<1>3. CASE Grant(c)
  <2>1. calls' = [calls EXCEPT ![c] = Answered(c, "send", TRUE)]
    BY <1>1, <1>3 DEF Grant, Answered, ForwarderTypes, CallRecords
  <2> QED BY <1>1, <1>2, <1>3, <2>1
<1>4. CASE ~Grant(c) /\ FailOpen(c)
  <2>1. calls' = [calls EXCEPT ![c] = Answered(c, "send", FALSE)]
    BY <1>1, <1>4 DEF FailOpen, Answered, ForwarderTypes, CallRecords
  <2> QED BY <1>1, <1>2, <1>4, <2>1
<1>5. CASE ~Grant(c) /\ ~FailOpen(c)
  <2>1. calls' = [calls EXCEPT ![c] = Answered(c, "suppressed", calls[c].granted)]
    BY <1>1, <1>5 DEF Suppress, RefusedByOwnRow, Answered, ForwarderTypes, CallRecords
  <2>2. calls[c].granted \in BOOLEAN BY <1>1 DEF CallRecords
  <2> QED BY <1>1, <1>2, <1>5, <2>1, <2>2
<1> QED BY <1>3, <1>4, <1>5

\* A send that succeeds, fails, or fails after the event arrived.
LEMMA SendingCall ==
    ASSUME ForwarderTypes, NEW c \in Calls, Send(c) \/ SendFails(c)
    PROVE  /\ calls[c] # NoCall /\ calls[c].pc = "send" /\ UNCHANGED <<now, row>>
           /\ Entry(c) \in Entries
           /\ topic' \in {topic, Append(topic, Entry(c))}
           /\ \E r \in CallRecords :
                /\ calls' = [calls EXCEPT ![c] = r]
                /\ r.pc \in {"sent", "check", "failed"} /\ r.key = calls[c].key
           /\ SendFails(c) => faults' = faults + 1
           /\ Send(c) => faults' = faults /\ topic' = Append(topic, Entry(c))
<1>1. calls[c] # NoCall /\ calls[c] \in CallRecords /\ calls[c].pc = "send"
      /\ UNCHANGED <<now, row>>
  BY StartedCall DEF Send, SendFails, At
<1>2. Entry(c) \in Entries BY <1>1 DEF Entry, Entries, CallRecords
<1>3. CASE Send(c)
  <2> DEFINE r == [calls[c] EXCEPT !.pc = "sent"]
  <2>1. r \in CallRecords /\ r.pc = "sent" /\ r.key = calls[c].key BY <1>1 DEF CallRecords
  <2>2. calls' = [calls EXCEPT ![c] = r] BY <1>3 DEF Send
  <2>3. topic' = Append(topic, Entry(c)) /\ faults' = faults BY <1>3 DEF Send
  <2>4. ~SendFails(c) BY <2>3 DEF SendFails, Fault, ForwarderTypes
  <2> HIDE DEF r
  <2> QED BY <1>1, <1>2, <2>1, <2>2, <2>3, <2>4
<1>4. CASE SendFails(c)
  <2> DEFINE pc == IF calls[c].tries < LambdaRetries THEN "check" ELSE "failed"
             r == [calls[c] EXCEPT !.tries = @ + 1, !.pc = pc]
  <2>0. pc \in {"check", "failed"} OBVIOUS
  <2>a. r = [calls[c] EXCEPT !.tries = calls[c].tries + 1, !.pc = pc]
    BY <1>1 DEF CallRecords
  <2>1. r \in CallRecords /\ r.pc \in {"check", "failed"} /\ r.key = calls[c].key
    <3> HIDE DEF pc, r
    <3>1. calls[c].tries + 1 \in Nat BY <1>1 DEF CallRecords
    <3> DEFINE n == calls[c].tries + 1
    <3> HIDE DEF n
    <3>2. r = [calls[c] EXCEPT !.tries = n, !.pc = pc] BY <2>a DEF n
    <3>3. n \in Nat BY <3>1 DEF n
    <3> QED BY <1>1, <2>0, <3>2, <3>3 DEF CallRecords
  <2>2. calls' = [calls EXCEPT ![c] = r] BY <1>1, <1>4 DEF SendFails, ForwarderTypes, CallRecords
  <2>3. topic' \in {topic, Append(topic, Entry(c))} /\ faults' = faults + 1
    BY <1>4 DEF SendFails, Fault
  <2>4. ~Send(c) BY <2>3 DEF Send, ForwarderTypes
  <2> HIDE DEF r
  <2> QED BY <1>1, <1>2, <2>1, <2>2, <2>3, <2>4
<1> QED BY <1>3, <1>4

\* ForwarderTypes is inductive.
LEMMA InitTypes == Init => ForwarderTypes
BY ScadaAssumption DEF Init, ForwarderTypes, NoRow

LEMMA NextTypes == ForwarderTypes /\ [Next]_vars => ForwarderTypes'
<1> SUFFICES ASSUME ForwarderTypes, [Next]_vars PROVE ForwarderTypes'
  OBVIOUS
<1>0. faults' \in Nat
  <2>1. faults' = faults \/ Fault("put") \/ Fault("send")
    BY DEF Next, Read, Tick, Grant, Suppress, FailOpen, RefusedByOwnRow, Send,
       SendFails, RowExpires, vars
  <2> QED BY <2>1 DEF ForwarderTypes, Fault
<1>1. CASE Read
  <2>1. PICK c \in Calls, r \in Readings :
          calls' = [calls EXCEPT ![c] = [key |-> KeyOf(r), pc |-> "check", at |-> now,
                                         tries |-> 0, granted |-> FALSE]]
    BY <1>1 DEF Read
  <2>2. KeyOf(r) \in Keys BY DEF Keys
  <2> QED BY <1>0, <1>1, <2>1, <2>2 DEF Read, ForwarderTypes, CallRecords
<1>2. CASE Tick BY <1>0, <1>2 DEF Tick, ForwarderTypes
<1>3. ASSUME NEW c \in Calls, Grant(c) \/ Suppress(c) \/ FailOpen(c) \/ RefusedByOwnRow(c)
      PROVE  ForwarderTypes'
  <2>1. PICK pc \in {"send", "suppressed"}, g \in BOOLEAN :
          calls' = [calls EXCEPT ![c] = Answered(c, pc, g)]
    BY <1>3, CheckedCall
  <2>2. calls[c] # NoCall /\ UNCHANGED <<now, topic>>
        /\ row' \in {row, [row EXCEPT ![calls[c].key] = now]}
    BY <1>3, CheckedCall
  <2>3. calls' \in [Calls -> CallRecords \cup {NoCall}]
    BY <2>1, <2>2, AnsweredCall, CallChange
  <2>4. row' \in [Keys -> Nat \cup {NoRow}] BY <2>2, StartedCall DEF ForwarderTypes
  <2> QED BY <1>0, <2>2, <2>3, <2>4 DEF ForwarderTypes
<1>4. ASSUME NEW c \in Calls, Send(c) \/ SendFails(c) PROVE ForwarderTypes'
  <2>1. PICK r \in CallRecords : calls' = [calls EXCEPT ![c] = r] BY <1>4, SendingCall
  <2>2. /\ UNCHANGED <<now, row>> /\ Entry(c) \in Entries
        /\ topic' \in {topic, Append(topic, Entry(c))}
    BY <1>4, SendingCall
  <2>3. topic' \in Seq(Entries) BY <2>2 DEF ForwarderTypes
  <2> QED BY <1>0, <2>1, <2>2, <2>3 DEF ForwarderTypes
<1>5. ASSUME NEW k \in Keys, RowExpires(k) PROVE ForwarderTypes'
  BY <1>0, <1>5 DEF RowExpires, ForwarderTypes
<1>6. CASE UNCHANGED vars BY <1>6 DEF vars, ForwarderTypes
<1> QED BY <1>1, <1>2, <1>3, <1>4, <1>5, <1>6 DEF Next

-----------------------------------------------------------------------------
(* AtMostOnePerWindow *)

\* The invocation holds an event that the table let through.
Holds(c) == At(c, "send") /\ calls[c].granted

\* What was let through at time t is older than any later grant can be: the
\* row is at least as young, or the cooldown is over.
Bounded(k, t) ==
    t <= now /\ IF row[k] = NoRow THEN t + Cooldown <= now ELSE t <= row[k]
Apart(s, t) == s + Cooldown <= t \/ t + Cooldown <= s

SentBounded ==
    \A i \in DOMAIN topic : topic[i].granted => Bounded(topic[i].key, topic[i].at)
HeldBounded == \A c \in Calls : Holds(c) => Bounded(calls[c].key, calls[c].at)
HeldApart ==
    \A c, d \in Calls : c # d /\ Holds(c) /\ Holds(d) /\ calls[c].key = calls[d].key =>
        Apart(calls[c].at, calls[d].at)
HeldFromSent ==
    \A c \in Calls : \A i \in DOMAIN topic :
        Holds(c) /\ topic[i].granted /\ topic[i].key = calls[c].key =>
            Apart(topic[i].at, calls[c].at)
WindowInv == SentBounded /\ HeldBounded /\ HeldApart /\ HeldFromSent /\ AtMostOnePerWindow

\* What is in the topic has the type of an entry.
LEMMA SentEntry ==
    ASSUME ForwarderTypes, NEW i \in DOMAIN topic
    PROVE  topic[i] \in Entries /\ topic[i].key \in Keys /\ topic[i].at \in Nat
<1>1. topic \in Seq(Entries) BY DEF ForwarderTypes
<1>2. topic[i] \in Entries BY <1>1
<1> QED BY <1>2 DEF Entries

\* Time, a row that is removed, and a row that is written after its condition
\* held keep what is bounded so.
LEMMA BoundedStays ==
    ASSUME ForwarderTypes, NEW k \in Keys, NEW t \in Nat, Bounded(k, t), NEW q \in Keys,
           \/ now' = now + 1 /\ row' = row
           \/ now' = now /\ row' = row
           \/ now' = now /\ row' = [row EXCEPT ![q] = now]
           \/ now' = now /\ row[q] # NoRow /\ row[q] + Cooldown <= now
                /\ row' = [row EXCEPT ![q] = NoRow]
    PROVE  Bounded(k, t)'
<1>1. /\ now \in Nat /\ row \in [Keys -> Nat \cup {NoRow}] /\ Cooldown \in Nat
      /\ NoRow \notin Nat
  BY ScadaAssumption DEF ForwarderTypes, NoRow
<1>2. row[k] = NoRow \/ row[k] \in Nat BY <1>1
<1>3. CASE row' = row BY <1>1, <1>2, <1>3 DEF Bounded
<1>4. CASE now' = now /\ row' = [row EXCEPT ![q] = now]
  <2>1. row'[k] = IF k = q THEN now ELSE row[k] BY <1>1, <1>4
  <2> QED BY <1>1, <1>2, <1>4, <2>1 DEF Bounded
<1>5. CASE /\ now' = now /\ row[q] # NoRow /\ row[q] + Cooldown <= now
           /\ row' = [row EXCEPT ![q] = NoRow]
  <2>1. row'[k] = IF k = q THEN NoRow ELSE row[k] BY <1>1, <1>5
  <2> QED BY <1>1, <1>2, <1>5, <2>1 DEF Bounded
<1> QED BY <1>3, <1>4, <1>5

\* A grant now is a cooldown after whatever was let through before.
LEMMA GrantApart ==
    ASSUME ForwarderTypes, NEW k \in Keys, NEW t \in Nat, Bounded(k, t), CanPut(k)
    PROVE  t + Cooldown <= now
<1>1. now \in Nat /\ Cooldown \in Nat /\ (row[k] = NoRow \/ row[k] \in Nat)
  BY ScadaAssumption DEF ForwarderTypes
<1> QED BY <1>1 DEF CanPut, Bounded

\* A step that sends nothing and after which nothing new is held.
LEMMA WindowFrame ==
    ASSUME ForwarderTypes, ForwarderTypes', WindowInv, topic' = topic,
           \A k \in Keys, t \in Nat : Bounded(k, t) => Bounded(k, t)',
           \A c \in Calls : Holds(c)' => Holds(c) /\ calls'[c] = calls[c]
    PROVE  WindowInv'
<1>1. SentBounded'
  <2> SUFFICES ASSUME NEW i \in DOMAIN topic, topic[i].granted
               PROVE  Bounded(topic[i].key, topic[i].at)'
    BY DEF SentBounded
  <2>1. topic[i].key \in Keys /\ topic[i].at \in Nat BY SentEntry
  <2>2. Bounded(topic[i].key, topic[i].at) BY DEF WindowInv, SentBounded
  <2> QED BY <2>1, <2>2 DEF Bounded
<1>2. HeldBounded'
  <2> SUFFICES ASSUME NEW c \in Calls, Holds(c)' PROVE Bounded(calls[c].key, calls[c].at)'
    BY DEF HeldBounded
  <2>1. Holds(c) /\ calls'[c] = calls[c] OBVIOUS
  <2>2. calls[c].key \in Keys /\ calls[c].at \in Nat
    BY <2>1, StartedCall DEF Holds, At, CallRecords
  <2>3. Bounded(calls[c].key, calls[c].at) BY <2>1 DEF WindowInv, HeldBounded
  <2> QED BY <2>1, <2>2, <2>3 DEF Bounded
<1>3. HeldApart' BY DEF WindowInv, HeldApart, Apart
<1>4. HeldFromSent' BY DEF WindowInv, HeldFromSent, Apart
<1>5. AtMostOnePerWindow' BY DEF WindowInv, AtMostOnePerWindow
<1> QED BY <1>1, <1>2, <1>3, <1>4, <1>5 DEF WindowInv

\* The table's answer: a grant is apart from all that was let through before.
LEMMA CheckedWindow ==
    ASSUME ForwarderTypes, ForwarderTypes', WindowInv, NEW c \in Calls,
           Grant(c) \/ Suppress(c) \/ FailOpen(c) \/ RefusedByOwnRow(c)
    PROVE  WindowInv'
<1>1. PICK pc \in {"send", "suppressed"}, g \in BOOLEAN :
        /\ calls' = [calls EXCEPT ![c] = Answered(c, pc, g)]
        /\ Grant(c) => pc = "send" /\ g = TRUE
        /\ ~Grant(c) /\ pc = "send" => g = FALSE
  BY CheckedCall
<1>2. /\ calls[c] # NoCall /\ calls[c].pc = "check" /\ UNCHANGED <<now, topic>>
      /\ row' \in {row, [row EXCEPT ![calls[c].key] = now]}
      /\ calls[c].key \in Keys /\ now \in Nat
  BY CheckedCall, StartedCall DEF ForwarderTypes
<1>3. /\ calls'[c].key = calls[c].key /\ calls'[c].pc = pc /\ calls'[c].granted = g
      /\ calls'[c].at = now
      /\ \A d \in Calls : d # c => calls'[d] = calls[d]
  <2> DEFINE r == Answered(c, pc, g)
  <2>1. r \in CallRecords /\ r.key = calls[c].key /\ r.pc = pc /\ r.at = now /\ r.granted = g
    BY <1>2, AnsweredCall
  <2>2. calls' = [calls EXCEPT ![c] = r] BY <1>1
  <2> HIDE DEF r
  <2>3. calls'[c] = r /\ \A d \in Calls : d # c => calls'[d] = calls[d]
    BY <1>2, <2>1, <2>2, CallChange
  <2> QED BY <2>1, <2>3
<1>4. ASSUME NEW k \in Keys, NEW t \in Nat, Bounded(k, t) PROVE Bounded(k, t)'
  BY <1>2, <1>4, BoundedStays
<1>5. CASE ~Grant(c)
  <2>1. \A d \in Calls : Holds(d)' => Holds(d) /\ calls'[d] = calls[d]
    BY <1>1, <1>3, <1>5 DEF Holds, At
  <2> QED BY <1>2, <1>4, <2>1, WindowFrame
<1>6. CASE Grant(c)
  <2>1. CanPut(calls[c].key) /\ row' = [row EXCEPT ![calls[c].key] = now]
    BY <1>6 DEF Grant
  <2>2. ASSUME NEW d \in Calls, d # c, Holds(d)'
        PROVE  Holds(d) /\ calls'[d] = calls[d] /\ calls[d].key \in Keys /\ calls[d].at \in Nat
    <3>1. Holds(d) /\ calls'[d] = calls[d] BY <1>3, <2>2 DEF Holds, At
    <3> QED BY <3>1, StartedCall DEF Holds, At, CallRecords
  <2>3. ASSUME NEW i \in DOMAIN topic
        PROVE  topic[i].key \in Keys /\ topic[i].at \in Nat
    BY SentEntry
  <2>4. SentBounded'
    <3> SUFFICES ASSUME NEW i \in DOMAIN topic, topic[i].granted
                 PROVE  Bounded(topic[i].key, topic[i].at)'
      BY <1>2 DEF SentBounded
    <3>1. Bounded(topic[i].key, topic[i].at) BY DEF WindowInv, SentBounded
    <3> QED BY <1>2, <1>4, <2>3, <3>1 DEF Bounded
  <2>5. HeldBounded'
    <3> SUFFICES ASSUME NEW d \in Calls, Holds(d)' PROVE Bounded(calls[d].key, calls[d].at)'
      BY DEF HeldBounded
    <3>1. CASE d = c
      <4>1. row'[calls[c].key] = now BY <1>2, <2>1 DEF ForwarderTypes
      <4>2. now # NoRow BY <1>2 DEF NoRow
      <4> QED BY <1>2, <1>3, <3>1, <4>1, <4>2 DEF Bounded
    <3>2. CASE d # c
      <4>1. Bounded(calls[d].key, calls[d].at) BY <2>2, <3>2 DEF WindowInv, HeldBounded
      <4> QED BY <1>4, <2>2, <3>2, <4>1 DEF Bounded
    <3> QED BY <3>1, <3>2
  <2>6. ASSUME NEW d \in Calls, d # c, Holds(d)', calls[d].key = calls[c].key
        PROVE  Apart(calls[d].at, now) /\ Apart(now, calls[d].at)
    <3>1. Bounded(calls[d].key, calls[d].at) BY <2>2, <2>6 DEF WindowInv, HeldBounded
    <3>2. calls[d].at + Cooldown <= now BY <2>1, <2>2, <2>6, <3>1, GrantApart
    <3> QED BY <3>2 DEF Apart
  <2>7. HeldApart'
    <3> SUFFICES ASSUME NEW a \in Calls, NEW b \in Calls, a # b, Holds(a)', Holds(b)',
                        calls'[a].key = calls'[b].key
                 PROVE  Apart(calls'[a].at, calls'[b].at)
      BY DEF HeldApart, Apart
    <3>1. CASE a # c /\ b # c BY <2>2, <3>1 DEF WindowInv, HeldApart
    <3>2. CASE a = c BY <1>3, <2>2, <2>6, <3>2
    <3>3. CASE b = c BY <1>3, <2>2, <2>6, <3>3
    <3> QED BY <3>1, <3>2, <3>3
  <2>8. HeldFromSent'
    <3> SUFFICES ASSUME NEW d \in Calls, NEW i \in DOMAIN topic, Holds(d)', topic[i].granted,
                        topic[i].key = calls'[d].key
                 PROVE  Apart(topic[i].at, calls'[d].at)
      BY <1>2 DEF HeldFromSent, Apart
    <3>1. CASE d = c
      <4>1. Bounded(topic[i].key, topic[i].at) BY DEF WindowInv, SentBounded
      <4>2. topic[i].at + Cooldown <= now BY <1>3, <2>1, <2>3, <3>1, <4>1, GrantApart
      <4> QED BY <1>3, <3>1, <4>2 DEF Apart
    <3>2. CASE d # c BY <2>2, <3>2 DEF WindowInv, HeldFromSent
    <3> QED BY <3>1, <3>2
  <2>9. AtMostOnePerWindow' BY <1>2 DEF WindowInv, AtMostOnePerWindow
  <2> QED BY <2>4, <2>5, <2>7, <2>8, <2>9 DEF WindowInv
<1> QED BY <1>5, <1>6

\* A send puts into the topic what was held, and the call holds it no longer.
LEMMA SendingWindow ==
    ASSUME ForwarderTypes, ForwarderTypes', WindowInv, NEW c \in Calls,
           Send(c) \/ SendFails(c)
    PROVE  WindowInv'
<1>1. PICK r \in CallRecords :
        calls' = [calls EXCEPT ![c] = r] /\ r.pc \in {"sent", "check", "failed"}
  BY SendingCall
<1>2. /\ calls[c] # NoCall /\ calls[c].pc = "send" /\ UNCHANGED <<now, row>>
      /\ topic' \in {topic, Append(topic, Entry(c))} /\ Entry(c) \in Entries
  BY SendingCall
<1>3. \A d \in Calls : Holds(d)' => d # c /\ Holds(d) /\ calls'[d] = calls[d]
  BY <1>1, <1>2, CallChange DEF Holds, At
<1>4. CASE topic' = topic
  BY <1>2, <1>3, <1>4, WindowFrame DEF Bounded
<1>5. CASE topic' = Append(topic, Entry(c))
  <2>0. topic \in Seq(Entries) /\ Len(topic) \in Nat BY DEF ForwarderTypes
  <2>1. /\ DOMAIN topic = 1 .. Len(topic) /\ DOMAIN topic' = 1 .. (Len(topic) + 1)
        /\ topic'[Len(topic) + 1] = Entry(c)
        /\ \A i \in 1 .. Len(topic) : topic'[i] = topic[i]
    BY <1>2, <1>5, <2>0
  <2>2. /\ Entry(c).key = calls[c].key /\ Entry(c).at = calls[c].at
        /\ Entry(c).granted = calls[c].granted
    BY DEF Entry
  <2>3. ASSUME NEW i \in DOMAIN topic'
        PROVE  \/ i \in DOMAIN topic /\ topic'[i] = topic[i]
               \/ i = Len(topic) + 1 /\ topic'[i] = Entry(c)
    BY <2>0, <2>1
  <2>4. Entry(c).granted => Holds(c) BY <1>2, <2>2 DEF Holds, At
  <2>5. SentBounded'
    <3> SUFFICES ASSUME NEW i \in DOMAIN topic', topic'[i].granted
                 PROVE  Bounded(topic'[i].key, topic'[i].at)
      BY <1>2 DEF SentBounded, Bounded
    <3> QED BY <2>2, <2>3, <2>4 DEF WindowInv, SentBounded, HeldBounded
  <2>6. HeldBounded' BY <1>2, <1>3 DEF WindowInv, HeldBounded, Bounded
  <2>7. HeldApart' BY <1>3 DEF WindowInv, HeldApart, Apart
  <2>8. HeldFromSent'
    <3> SUFFICES ASSUME NEW d \in Calls, NEW i \in DOMAIN topic', Holds(d)', topic'[i].granted,
                        topic'[i].key = calls'[d].key
                 PROVE  Apart(topic'[i].at, calls'[d].at)
      BY DEF HeldFromSent, Apart
    <3>1. d # c /\ Holds(d) /\ calls'[d] = calls[d] BY <1>3
    <3>2. CASE i \in DOMAIN topic /\ topic'[i] = topic[i]
      BY <3>1, <3>2 DEF WindowInv, HeldFromSent
    <3>3. CASE topic'[i] = Entry(c)
      BY <2>2, <2>4, <3>1, <3>3 DEF WindowInv, HeldApart
    <3> QED BY <2>3, <3>2, <3>3
  <2>9. AtMostOnePerWindow'
    <3> SUFFICES ASSUME NEW i \in DOMAIN topic', NEW j \in DOMAIN topic', i < j,
                        topic'[i].key = topic'[j].key, topic'[i].granted, topic'[j].granted
                 PROVE  Apart(topic'[i].at, topic'[j].at)
      BY DEF AtMostOnePerWindow, Apart
    <3>1. i \in DOMAIN topic /\ topic'[i] = topic[i] BY <2>0, <2>1
    <3>2. CASE j \in DOMAIN topic /\ topic'[j] = topic[j]
      BY <3>1, <3>2 DEF WindowInv, AtMostOnePerWindow, Apart
    <3>3. CASE topic'[j] = Entry(c)
      BY <2>2, <2>4, <3>1, <3>3 DEF WindowInv, HeldFromSent
    <3> QED BY <2>3, <3>2, <3>3
  <2> QED BY <2>5, <2>6, <2>7, <2>8, <2>9 DEF WindowInv
<1> QED BY <1>2, <1>4, <1>5

\* WindowInv is inductive relative to ForwarderTypes.
LEMMA NextWindow == ForwarderTypes /\ WindowInv /\ [Next]_vars => WindowInv'
<1> SUFFICES ASSUME ForwarderTypes, WindowInv, [Next]_vars PROVE WindowInv'
  OBVIOUS
<1>0. ForwarderTypes' BY NextTypes
<1>1. CASE Read
  <2>1. PICK c \in Calls, r \in Readings :
          /\ calls[c] = NoCall
          /\ calls' = [calls EXCEPT ![c] = [key |-> KeyOf(r), pc |-> "check", at |-> now,
                                            tries |-> 0, granted |-> FALSE]]
    BY <1>1 DEF Read
  <2>2. \A d \in Calls : Holds(d)' => Holds(d) /\ calls'[d] = calls[d]
    BY <2>1 DEF Holds, At, ForwarderTypes
  <2> QED BY <1>0, <1>1, <2>2, WindowFrame DEF Read, Bounded
<1>2. CASE Tick
  <2>1. \A k \in Keys, t \in Nat : Bounded(k, t) => Bounded(k, t)'
    BY <1>2, BoundedStays DEF Tick
  <2> QED BY <1>0, <1>2, <2>1, WindowFrame DEF Tick, Holds, At
<1>3. ASSUME NEW c \in Calls, Grant(c) \/ Suppress(c) \/ FailOpen(c) \/ RefusedByOwnRow(c)
      PROVE  WindowInv'
  BY <1>0, <1>3, CheckedWindow
<1>4. ASSUME NEW c \in Calls, Send(c) \/ SendFails(c) PROVE WindowInv'
  BY <1>0, <1>4, SendingWindow
<1>5. ASSUME NEW q \in Keys, RowExpires(q) PROVE WindowInv'
  <2>1. \A k \in Keys, t \in Nat : Bounded(k, t) => Bounded(k, t)'
    BY <1>5, BoundedStays DEF RowExpires
  <2> QED BY <1>0, <1>5, <2>1, WindowFrame DEF RowExpires, Holds, At
<1>6. CASE UNCHANGED vars
  BY <1>0, <1>6, WindowFrame DEF vars, Holds, At, Bounded
<1> QED BY <1>1, <1>2, <1>3, <1>4, <1>5, <1>6 DEF Next

\* Events of one machine and type that the table let through are a cooldown
\* apart, whatever is retried, fails or runs at the same time.
THEOREM FloodControl == Spec => []AtMostOnePerWindow
<1>1. Init => WindowInv
  BY DEF Init, WindowInv, SentBounded, HeldBounded, HeldApart, HeldFromSent,
     AtMostOnePerWindow, Holds, At
<1>2. ForwarderTypes /\ WindowInv /\ [Next]_vars => (ForwarderTypes /\ WindowInv)'
  BY NextTypes, NextWindow
<1>3. WindowInv => AtMostOnePerWindow BY DEF WindowInv
<1> QED BY InitTypes, <1>1, <1>2, <1>3, PTL DEF Spec

-----------------------------------------------------------------------------
(* SuppressedIsCovered *)

\* An event of the key was let through at time t, and is sent or about to be.
Published(k, t) ==
    \/ \E i \in DOMAIN topic : topic[i].key = k /\ topic[i].at = t
    \/ \E d \in Calls : At(d, "send") /\ calls[d].key = k /\ calls[d].at = t

RowIsPublished ==
    \A k \in Keys : row[k] # NoRow => Published(k, row[k]) /\ row[k] <= now
SuppressedIsPublished ==
    \A c \in Calls : At(c, "suppressed") =>
        \E t \in Nat : /\ Published(calls[c].key, t)
                       /\ t <= calls[c].at /\ calls[c].at <= t + Cooldown
CoverInv == faults = 0 => RowIsPublished /\ SuppressedIsPublished

\* What is let through stays so while nothing fails.
LEMMA PublishedStays ==
    ASSUME ForwarderTypes,
           \/ topic' = topic /\ \A d \in Calls : At(d, "send") => calls'[d] = calls[d]
           \/ \E c \in Calls : Send(c)
    PROVE  \A k, t : Published(k, t) => Published(k, t)'
<1>1. CASE topic' = topic /\ \A d \in Calls : At(d, "send") => calls'[d] = calls[d]
  BY <1>1 DEF Published, At
<1>2. ASSUME NEW c \in Calls, Send(c), NEW k, NEW t, Published(k, t)
      PROVE  Published(k, t)'
  <2>0. topic \in Seq(Entries) /\ Len(topic) \in Nat BY DEF ForwarderTypes
  <2>1. topic' = Append(topic, Entry(c)) BY <1>2 DEF Send
  <2>2. /\ DOMAIN topic = 1 .. Len(topic) /\ DOMAIN topic' = 1 .. (Len(topic) + 1)
        /\ topic'[Len(topic) + 1] = Entry(c)
        /\ \A i \in 1 .. Len(topic) : topic'[i] = topic[i]
    <3>1. Entry(c) \in Entries BY <1>2, SendingCall
    <3> QED BY <2>0, <2>1, <3>1
  <2>3. CASE \E i \in DOMAIN topic : topic[i].key = k /\ topic[i].at = t
    BY <2>0, <2>2, <2>3 DEF Published
  <2>4. ASSUME NEW d \in Calls, At(d, "send"), calls[d].key = k, calls[d].at = t
        PROVE  Published(k, t)'
    <3>1. CASE d = c
      <4>1. Entry(c).key = k /\ Entry(c).at = t BY <2>4, <3>1 DEF Entry
      <4>2. Len(topic) + 1 \in DOMAIN topic' BY <2>0, <2>2
      <4> QED BY <2>2, <4>1, <4>2 DEF Published
    <3>2. CASE d # c
      <4>1. calls'[d] = calls[d] BY <1>2, <3>2 DEF Send, ForwarderTypes
      <4> QED BY <2>4, <4>1 DEF Published, At
    <3> QED BY <3>1, <3>2
  <2> QED BY <1>2, <2>3, <2>4 DEF Published
<1> QED BY <1>1, <1>2

\* A step that suppresses nothing and writes no row.
LEMMA CoverFrame ==
    ASSUME ForwarderTypes, RowIsPublished, SuppressedIsPublished,
           now' \in {now, now + 1}, \A k \in Keys : row'[k] # NoRow => row'[k] = row[k],
           \A k, t : Published(k, t) => Published(k, t)',
           \A c \in Calls : At(c, "suppressed")' => At(c, "suppressed") /\ calls'[c] = calls[c]
    PROVE  RowIsPublished' /\ SuppressedIsPublished'
<1>1. RowIsPublished'
  <2> SUFFICES ASSUME NEW k \in Keys, row'[k] # NoRow
               PROVE  Published(k, row[k])' /\ row'[k] <= now'
    BY DEF RowIsPublished, Published
  <2>1. row'[k] = row[k] /\ row[k] # NoRow OBVIOUS
  <2>2. Published(k, row[k]) /\ row[k] <= now BY <2>1 DEF RowIsPublished
  <2>3. now \in Nat /\ row[k] \in Nat BY <2>1 DEF ForwarderTypes
  <2>4. Published(k, row[k])'
    <3> DEFINE t == row[k]
    <3>1. Published(k, t) /\ row'[k] = t BY <2>1, <2>2
    <3> HIDE DEF t
    <3> QED BY <3>1 DEF Published
  <2> QED BY <2>1, <2>2, <2>3, <2>4
<1>2. SuppressedIsPublished'
  <2> SUFFICES ASSUME NEW c \in Calls, At(c, "suppressed")'
               PROVE  \E t \in Nat : /\ Published(calls[c].key, t)'
                                     /\ t <= calls'[c].at /\ calls'[c].at <= t + Cooldown
    BY DEF SuppressedIsPublished
  <2>1. At(c, "suppressed") /\ calls'[c] = calls[c] OBVIOUS
  <2>2. PICK t \in Nat : /\ Published(calls[c].key, t)
                         /\ t <= calls[c].at /\ calls[c].at <= t + Cooldown
    BY <2>1 DEF SuppressedIsPublished
  <2>3. Published(calls[c].key, t)'
    <3> DEFINE k == calls[c].key
    <3>1. Published(k, t) /\ calls'[c].key = k BY <2>1, <2>2
    <3> HIDE DEF k
    <3> QED BY <3>1 DEF Published
  <2> QED BY <2>1, <2>2, <2>3
<1> QED BY <1>1, <1>2

\* The table answers while nothing fails: a new row is published by the call
\* that holds the event, and a refusal names a row within the cooldown.
LEMMA CheckedCover ==
    ASSUME ForwarderTypes, RowIsPublished, SuppressedIsPublished, NEW c \in Calls,
           Grant(c) \/ Suppress(c)
    PROVE  RowIsPublished' /\ SuppressedIsPublished'
<1>0. /\ At(c, "check") /\ calls[c] # NoCall /\ UNCHANGED <<now, topic>> /\ now \in Nat
      /\ calls[c].key \in Keys
  BY StartedCall DEF Grant, Suppress, At, ForwarderTypes
<1>1. \A d \in Calls : d # c => calls'[d] = calls[d]
  BY DEF Grant, Suppress, ForwarderTypes
<1>2. \A k, t : Published(k, t) => Published(k, t)'
  <2>1. \A d \in Calls : At(d, "send") => calls'[d] = calls[d] BY <1>0, <1>1 DEF At
  <2> QED BY <1>0, <2>1, PublishedStays
<1>3. CASE Suppress(c)
  <2>1. /\ row' = row /\ calls'[c].key = calls[c].key /\ calls'[c].at = now
    BY <1>0, <1>3, StartedCall DEF Suppress, RowAfterRefusal, ForwarderTypes, CallRecords
  <2>0. PICK k \in Keys : k = calls[c].key BY <1>0
  <2>10. PICK t \in Nat : t = row[k]
    <3>1. row[k] # NoRow BY <1>3, <2>0 DEF Suppress, CanPut
    <3> QED BY <3>1 DEF ForwarderTypes
  <2>2. t # NoRow /\ now <= t + Cooldown /\ t \in Nat /\ t <= now /\ Published(k, t)
    <3>1. t # NoRow /\ ~(t < now - Cooldown)
      BY <1>3, <2>0, <2>10 DEF Suppress, CanPut
    <3>2. Published(k, t) /\ t <= now BY <2>10, <3>1 DEF RowIsPublished
    <3> QED BY <1>0, <3>1, <3>2, ScadaAssumption
  <2>3. calls'[c].key = k BY <2>0, <2>1
  <2>4. Published(k, t)' BY <1>2, <2>2
  <2>5. RowIsPublished'
    <3>1. \A q \in Keys : row[q] # NoRow => Published(q, row[q]) /\ row[q] <= now
      BY DEF RowIsPublished
    <3>2. ASSUME NEW q \in Keys, row[q] # NoRow PROVE Published(q, row[q])'
      <4>0. PICK u \in Nat : u = row[q] BY <3>2 DEF ForwarderTypes
      <4>1. Published(q, u) /\ row'[q] = u BY <2>1, <3>1, <3>2, <4>0
      <4>2. Published(q, u)' BY <1>2, <4>1
      <4> QED BY <4>1, <4>2 DEF Published
    <3> QED BY <1>0, <2>1, <3>1, <3>2 DEF RowIsPublished, Published
  <2>6. SuppressedIsPublished'
    <3> SUFFICES ASSUME NEW d \in Calls, At(d, "suppressed")'
                 PROVE  \E u \in Nat : /\ Published(calls[d].key, u)'
                                       /\ u <= calls'[d].at /\ calls'[d].at <= u + Cooldown
      BY DEF SuppressedIsPublished
    <3>1. CASE d = c
      <4>1. Published(calls[c].key, t)' BY <2>3, <2>4 DEF Published
      <4> QED BY <1>0, <2>1, <2>2, <3>1, <4>1
    <3>2. CASE d # c
      <4>1. At(d, "suppressed") /\ calls'[d] = calls[d] BY <1>1, <3>2 DEF At
      <4>2. PICK u \in Nat : /\ Published(calls[d].key, u)
                             /\ u <= calls[d].at /\ calls[d].at <= u + Cooldown
        BY <4>1 DEF SuppressedIsPublished
      <4>3. PICK q : q = calls[d].key OBVIOUS
      <4>4. Published(q, u) /\ calls'[d].key = q BY <4>1, <4>2, <4>3
      <4>5. Published(q, u)' BY <1>2, <4>4
      <4>6. Published(calls[d].key, u)' BY <4>4, <4>5 DEF Published
      <4> QED BY <4>1, <4>2, <4>6
    <3> QED BY <3>1, <3>2
  <2> QED BY <2>5, <2>6
<1>4. CASE Grant(c)
  <2>1. /\ row' = [row EXCEPT ![calls[c].key] = now]
        /\ calls'[c].key = calls[c].key /\ calls'[c].at = now /\ At(c, "send")'
    <3>1. /\ row' = [row EXCEPT ![calls[c].key] = now]
          /\ calls' = [calls EXCEPT ![c] = Answered(c, "send", TRUE)]
      BY <1>0, <1>4, StartedCall DEF Grant, Answered, ForwarderTypes, CallRecords
    <3> DEFINE r == Answered(c, "send", TRUE)
    <3>2. r \in CallRecords /\ r.key = calls[c].key /\ r.pc = "send" /\ r.at = now
      BY <1>0, AnsweredCall
    <3>3. r # NoCall
      <4>1. DOMAIN r # {} BY <3>2 DEF CallRecords
      <4>2. DOMAIN NoCall = {} BY DEF NoCall
      <4> QED BY <4>1, <4>2
    <3>4. calls' = [calls EXCEPT ![c] = r] BY <3>1
    <3> HIDE DEF r
    <3>5. calls'[c] = r BY <1>0, <3>2, <3>4, CallChange
    <3> QED BY <3>1, <3>2, <3>3, <3>5 DEF At
  <2>2. RowIsPublished'
    <3> SUFFICES ASSUME NEW q \in Keys, row'[q] # NoRow
                 PROVE  Published(q, row[q])' /\ row'[q] <= now
      BY <1>0 DEF RowIsPublished, Published
    <3>1. CASE q = calls[c].key
      <4>1. row'[q] = now BY <2>1, <3>1 DEF ForwarderTypes
      <4> QED BY <1>0, <2>1, <3>1, <4>1 DEF Published
    <3>2. CASE q # calls[c].key
      <4>0. row'[q] = row[q] BY <2>1, <3>2 DEF ForwarderTypes
      <4>1. PICK u \in Nat : u = row[q] /\ row'[q] = u BY <4>0 DEF ForwarderTypes
      <4>2. Published(q, u) /\ u <= now BY <4>1 DEF RowIsPublished
      <4>3. Published(q, u)' BY <1>2, <4>2
      <4> QED BY <4>1, <4>2, <4>3 DEF Published
    <3> QED BY <3>1, <3>2
  <2>3. SuppressedIsPublished'
    <3> SUFFICES ASSUME NEW d \in Calls, At(d, "suppressed")'
                 PROVE  \E u \in Nat : /\ Published(calls[d].key, u)'
                                       /\ u <= calls'[d].at /\ calls'[d].at <= u + Cooldown
      BY DEF SuppressedIsPublished
    <3>1. d # c BY <2>1 DEF At
    <3>2. At(d, "suppressed") /\ calls'[d] = calls[d] BY <1>1, <3>1 DEF At
    <3>3. PICK u \in Nat : /\ Published(calls[d].key, u)
                           /\ u <= calls[d].at /\ calls[d].at <= u + Cooldown
      BY <3>2 DEF SuppressedIsPublished
    <3> DEFINE q == calls[d].key
    <3>4. Published(q, u) /\ calls'[d].key = q BY <3>2, <3>3
    <3> HIDE DEF q
    <3>5. Published(calls[d].key, u)' BY <1>2, <3>4 DEF Published
    <3> QED BY <3>2, <3>3, <3>5
  <2> QED BY <2>2, <2>3
<1> QED BY <1>3, <1>4

\* CoverInv is inductive relative to ForwarderTypes: no step with a failure
\* leaves the count of failures at zero.
LEMMA NextCover == ForwarderTypes /\ CoverInv /\ [Next]_vars => CoverInv'
<1> SUFFICES ASSUME ForwarderTypes, CoverInv, [Next]_vars, faults' = 0
             PROVE  RowIsPublished' /\ SuppressedIsPublished'
  BY DEF CoverInv
<1>1. \A call : ~Fault(call) BY DEF Fault, ForwarderTypes
<1>2. faults = 0
  BY <1>1 DEF Next, Read, Tick, Grant, Suppress, FailOpen, RefusedByOwnRow, Send, SendFails,
     RowExpires, vars
<1>3. RowIsPublished /\ SuppressedIsPublished BY <1>2 DEF CoverInv
<1>4. CASE Read
  <2>1. PICK c \in Calls, r \in Readings :
          /\ calls[c] = NoCall
          /\ calls' = [calls EXCEPT ![c] = [key |-> KeyOf(r), pc |-> "check", at |-> now,
                                            tries |-> 0, granted |-> FALSE]]
    BY <1>4 DEF Read
  <2>2. /\ \A d \in Calls : At(d, "send") => calls'[d] = calls[d]
        /\ \A d \in Calls : At(d, "suppressed")' => At(d, "suppressed") /\ calls'[d] = calls[d]
    BY <2>1 DEF At, ForwarderTypes
  <2>3. \A k, t : Published(k, t) => Published(k, t)' BY <1>4, <2>2, PublishedStays DEF Read
  <2> QED BY <1>3, <1>4, <2>2, <2>3, CoverFrame DEF Read
<1>5. CASE Tick
  <2>1. \A k, t : Published(k, t) => Published(k, t)' BY <1>5, PublishedStays DEF Tick
  <2> QED BY <1>3, <1>5, <2>1, CoverFrame DEF Tick, At
<1>6. ASSUME NEW c \in Calls, Grant(c) \/ Suppress(c)
      PROVE  RowIsPublished' /\ SuppressedIsPublished'
  BY <1>3, <1>6, CheckedCover
<1>7. ASSUME NEW c \in Calls, Send(c)
      PROVE  RowIsPublished' /\ SuppressedIsPublished'
  <2>1. \A k, t : Published(k, t) => Published(k, t)' BY <1>7, PublishedStays
  <2>2. \A d \in Calls : At(d, "suppressed")' => At(d, "suppressed") /\ calls'[d] = calls[d]
    <3>1. calls' = [calls EXCEPT ![c].pc = "sent"] BY <1>7 DEF Send
    <3>2. calls[c] \in CallRecords BY <1>7, StartedCall DEF Send, At
    <3>3. calls'[c].pc = "sent" BY <3>1, <3>2 DEF ForwarderTypes, CallRecords
    <3>4. \A d \in Calls : d # c => calls'[d] = calls[d] BY <3>1 DEF ForwarderTypes
    <3> QED BY <3>3, <3>4 DEF At
  <2> QED BY <1>3, <1>7, <2>1, <2>2, CoverFrame DEF Send
<1>8. ASSUME NEW q \in Keys, RowExpires(q) PROVE RowIsPublished' /\ SuppressedIsPublished'
  <2>1. \A k, t : Published(k, t) => Published(k, t)' BY <1>8, PublishedStays DEF RowExpires
  <2>2. \A k \in Keys : row'[k] # NoRow => row'[k] = row[k]
    BY <1>8 DEF RowExpires, ForwarderTypes
  <2> QED BY <1>3, <1>8, <2>1, <2>2, CoverFrame DEF RowExpires, At
<1>9. CASE UNCHANGED vars
  <2>1. \A k, t : Published(k, t) => Published(k, t)' BY <1>9, PublishedStays DEF vars
  <2> QED BY <1>3, <1>9, <2>1, CoverFrame DEF vars, At
<1> QED
  BY <1>1, <1>4, <1>5, <1>6, <1>7, <1>8, <1>9 DEF Next, FailOpen, RefusedByOwnRow, SendFails

\* While nothing fails, no reading is suppressed without an event of its
\* machine and type within the cooldown before it.
THEOREM SuppressedCovered == Spec => []SuppressedIsCovered
<1>1. Init => CoverInv
  BY DEF Init, CoverInv, RowIsPublished, SuppressedIsPublished, At
<1>2. ForwarderTypes /\ CoverInv /\ [Next]_vars => (ForwarderTypes /\ CoverInv)'
  BY NextTypes, NextCover
<1>3. CoverInv => SuppressedIsCovered
  <2> SUFFICES ASSUME CoverInv, faults = 0, NEW c \in Calls, At(c, "suppressed")
               PROVE  \/ \E i \in DOMAIN topic : topic[i].key = calls[c].key
                            /\ topic[i].at <= calls[c].at /\ calls[c].at <= topic[i].at + Cooldown
                      \/ \E d \in Calls : At(d, "send") /\ calls[d].key = calls[c].key
                            /\ calls[d].at <= calls[c].at /\ calls[c].at <= calls[d].at + Cooldown
    BY DEF SuppressedIsCovered
  <2> QED BY DEF CoverInv, SuppressedIsPublished, Published
<1> QED BY InitTypes, <1>1, <1>2, <1>3, PTL DEF Spec
=============================================================================
