------------------------------ MODULE HumanLoop ------------------------------
(***************************************************************************)
(* Questions an agent asks a person: the row in the hitl-questions table,  *)
(* the tool that puts it there (through AppSync, or directly when that     *)
(* fails), the answers written to it, and the table's stream, which every  *)
(* agent's trigger reads to resume the session that asked.                 *)
(***************************************************************************)
EXTENDS Integers, Sequences, SequencesExt, FiniteSets

CONSTANTS
    Questions, Agents,
    AskerOf,        \* the agent that asks the question
    Options,        \* what may be answered
    StreamRetries,  \* retryAttempts of a trigger's stream mapping
    MaxAnswers,     \* bound: answers stored for a question
    MaxFaults       \* bound: failing calls, in the whole system

ASSUME HumanLoopAssumption ==
    /\ AskerOf \in [Questions -> Agents] /\ StreamRetries \in Nat
    /\ MaxAnswers \in Nat /\ MaxFaults \in Nat

NoRow == [status |-> "NONE", answer |-> "", asker |-> ""]
Pending(q) == [status |-> "PENDING", answer |-> "", asker |-> AskerOf[q]]

VARIABLES
    asking,     \* how far ask_human is: "no", "call", "fallback", "asked"
    row,        \* the question's row
    changes,    \* its stream records [old, new]
    seen,       \* seen[a][q]: stream records agent a's trigger is done with
    tries,      \* tries[a][q]: failed attempts at the next one
    heard,      \* the answers with which sessions were resumed [agent, answer]
    unheard,    \* questions of which a resume was given up
    twice,      \* questions of which a record was delivered again
    wire,       \* AppSync notifications on their way to the dashboard
    faults

askVars == <<asking, row, changes>>
triggerVars == <<seen, tries, heard, unheard, twice>>
humanVars == <<askVars, triggerVars, wire, faults>>

HumanInit ==
    /\ asking = [q \in Questions |-> "no"] /\ row = [q \in Questions |-> NoRow]
    /\ changes = [q \in Questions |-> <<>>]
    /\ seen = [a \in Agents |-> [q \in Questions |-> 0]] /\ tries = seen
    /\ heard = [q \in Questions |-> <<>>] /\ unheard = {} /\ twice = {}
    /\ wire = {} /\ faults = 0

Fault == faults < MaxFaults /\ faults' = faults + 1
Note(feed, item, n) == [feed |-> feed, item |-> item, n |-> n]

Store(q, new) ==
    /\ row' = [row EXCEPT ![q] = new]
    /\ changes' = [changes EXCEPT ![q] = Append(@, [old |-> row[q], new |-> new])]

-----------------------------------------------------------------------------
(* ask_human *)

\* The createHITLQuestion mutation stores the row and notifies.
Ask(q) ==
    /\ asking[q] = "no"
    /\ Store(q, Pending(q)) /\ wire' = wire \cup {Note("created", q, 0)}
    /\ asking' = [asking EXCEPT ![q] = "asked"]
    /\ UNCHANGED <<triggerVars, faults>>

\* It fails, or its answer does not come within 15 seconds.
AskFails(q) ==
    /\ asking[q] = "no" /\ Fault
    /\ \/ UNCHANGED <<row, changes, wire>>
       \/ Store(q, Pending(q)) /\ wire' = wire \cup {Note("created", q, 0)}
    /\ asking' = [asking EXCEPT ![q] = "fallback"]
    /\ UNCHANGED triggerVars

\* The fallback puts the row itself: nobody is notified, and what the row
\* already says is replaced.
Fallback(q) ==
    /\ asking[q] = "fallback"
    /\ Store(q, Pending(q)) /\ asking' = [asking EXCEPT ![q] = "asked"]
    /\ UNCHANGED <<triggerVars, wire, faults>>

-----------------------------------------------------------------------------
(* Answers *)

Answers(q) == Cardinality({i \in DOMAIN changes[q] : changes[q][i].new.status = "ANSWERED"})

\* The update has no condition.
StoreAnswer(q, option) ==
    /\ Answers(q) < MaxAnswers
    /\ Store(q, [row[q] EXCEPT !.status = "ANSWERED", !.answer = option])

\* Another dashboard's answerHITLQuestion.
AnswerElsewhere(q) ==
    /\ row[q] # NoRow
    /\ \E option \in Options : StoreAnswer(q, option)
    /\ wire' = wire \cup {Note("answered", q, 0)}
    /\ UNCHANGED <<asking, triggerVars, faults>>

\* The answer operation of the HTTP API updates the table: no notification.
AnswerByApi(q) ==
    /\ row[q] # NoRow
    /\ \E option \in Options : StoreAnswer(q, option)
    /\ UNCHANGED <<asking, triggerVars, wire, faults>>

-----------------------------------------------------------------------------
(* The triggers: one stream mapping per agent, one record at a time *)

NextChange(a, q) == changes[q][seen[a][q] + 1]
HasChange(a, q) == seen[a][q] < Len(changes[q])

\* (mutant) the old status is not looked at.
ResumesOnAnyAnswer(a, c) == c.old # NoRow /\ c.new.status = "ANSWERED" /\ c.new.asker = a

\* A record resumes a session when it turns PENDING to ANSWERED and the
\* trigger is that of the agent that asked.
Resumes(a, c) ==
    /\ c.old # NoRow
    /\ c.old.status = "PENDING" /\ c.new.status = "ANSWERED"
    /\ c.new.asker = a

Done(a, q) ==
    /\ seen' = [seen EXCEPT ![a][q] = @ + 1] /\ tries' = [tries EXCEPT ![a][q] = 0]

Skip(a, q) ==
    /\ HasChange(a, q) /\ ~Resumes(a, NextChange(a, q))
    /\ Done(a, q)
    /\ UNCHANGED <<askVars, heard, unheard, twice, wire, faults>>

Hear(a, q) == heard' = [heard EXCEPT ![q] = Append(@, [agent |-> a, answer |-> NextChange(a, q).new.answer])]

Resume(a, q) ==
    /\ HasChange(a, q) /\ Resumes(a, NextChange(a, q))
    /\ Hear(a, q) /\ Done(a, q)
    /\ UNCHANGED <<askVars, unheard, twice, wire, faults>>

\* The mapping delivers at least once: the record may come again.
ResumeAgain(a, q) ==
    /\ HasChange(a, q) /\ Resumes(a, NextChange(a, q)) /\ Fault
    /\ Hear(a, q) /\ twice' = twice \cup {q}
    /\ UNCHANGED <<askVars, seen, tries, unheard, wire>>

\* The invocation fails, or there is no token: logged, and the record done.
ResumeFails(a, q) ==
    /\ HasChange(a, q) /\ Resumes(a, NextChange(a, q)) /\ Fault
    /\ unheard' = unheard \cup {q} /\ Done(a, q)
    /\ UNCHANGED <<askVars, heard, twice, wire>>

\* (mutant) a record whose handler raised is not retried.
RetryOrGiveUpAtOnce(a, q) == Done(a, q) /\ UNCHANGED unheard

\* The mapping retries the record, and passes over it after its retries.
RetryOrGiveUp(a, q) ==
    \/ /\ tries[a][q] < StreamRetries
       /\ tries' = [tries EXCEPT ![a][q] = @ + 1] /\ UNCHANGED <<seen, unheard>>
    \/ tries[a][q] = StreamRetries /\ Done(a, q) /\ unheard' = unheard \cup {q}

\* The handler raises: the client's secret cannot be read.
TriggerRaises(a, q) ==
    /\ HasChange(a, q) /\ Resumes(a, NextChange(a, q)) /\ Fault
    /\ RetryOrGiveUp(a, q)
    /\ UNCHANGED <<askVars, heard, twice, wire>>

HumanStep ==
    \/ \E q \in Questions :
        Ask(q) \/ AskFails(q) \/ Fallback(q) \/ AnswerElsewhere(q) \/ AnswerByApi(q)
    \/ \E a \in Agents, q \in Questions :
        \/ Skip(a, q) \/ Resume(a, q) \/ ResumeAgain(a, q)
        \/ ResumeFails(a, q) \/ TriggerRaises(a, q)

\* The loop without the dashboard, whose answers are those of AnswerElsewhere.
HumanSpec == HumanInit /\ [][HumanStep]_humanVars

-----------------------------------------------------------------------------
Puts(q) == Cardinality({i \in DOMAIN changes[q] : changes[q][i].new.status = "PENDING"})

\* However often a question is answered, by whom and from where, only the
\* agent that asked it is resumed, and at most once for each time it was put
\* unless the stream delivered a record twice.
ResumedOncePerAsk ==
    \A q \in Questions :
        /\ q \notin twice => Len(heard[q]) <= Puts(q)
        /\ \A i \in DOMAIN heard[q] : heard[q][i].agent = AskerOf[q]

CaughtUp(q) == \A a \in Agents : ~HasChange(a, q)

\* No answer is passed over: when the triggers have caught up, the agent of
\* an answered question was resumed, unless its resume was given up.
AnsweredIsHeard ==
    \A q \in Questions :
        (CaughtUp(q) /\ row[q].status = "ANSWERED") => heard[q] # <<>> \/ q \in unheard
=============================================================================
