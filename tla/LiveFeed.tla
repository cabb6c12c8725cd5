------------------------------ MODULE LiveFeed ------------------------------
(***************************************************************************)
(* The dashboard's lists (EventProvider) over the questions of HumanLoop,  *)
(* the agents' findings and the domain events: each list is filled by one  *)
(* query at page load, except that of the events, and then kept by AppSync *)
(* subscriptions.  Query and subscriptions start together and neither      *)
(* waits for the other; what is notified while nobody subscribes is gone.  *)
(***************************************************************************)
EXTENDS HumanLoop, Subsequences

CONSTANTS
    Findings, Events,
    DomainOf,       \* the domain of the event
    ViewSize,       \* MAX_EVENTS
    ScanLimit,      \* items a list query reads before it filters
    LambdaRetries,  \* of the publisher, an asynchronous invocation
    MaxLoads        \* bound: page loads

ASSUME LiveFeedAssumption ==
    /\ ViewSize \in Nat \ {0} /\ ScanLimit \in Nat \ {0}
    /\ LambdaRetries \in Nat /\ MaxLoads \in Nat

\* The publisher's CHANNEL_MAP; a domain without an entry has no list.
Channel(d) ==
    CASE d \in {"QMS", "DHR"} -> "quality"
      [] d \in {"MES", "SCADA"} -> "shop-floor"
      [] d \in {"PLM", "PROGRAM"} -> "program"
      [] d \in {"ERP", "WMS", "SRM"} -> "supply-chain"
      [] d = "INSERVICE" -> "in-service"
      [] OTHER -> "none"

Channels == {"quality", "shop-floor", "supply-chain", "program", "in-service"}
Lists == {"questions", "findings"} \cup Channels
NoResult == <<>>

VARIABLES
    findings,   \* findings in the table
    published,  \* the publisher's attempts for an event so far, or "done"
    live,       \* the subscriptions are established
    load,       \* the initial query of a list: "no", "sent", "answered"
    result,     \* its answer
    shown,      \* the lists on the page, newest first
    click,      \* the answer being sent, and whether it is stored
    loads,
    misled      \* items a race or a failure may have misrepresented

viewVars == <<live, load, result, shown, click, loads>>
sourceVars == <<findings, published>>
vars == <<humanVars, sourceVars, viewVars, misled>>

NoClick == [option |-> "", stored |-> FALSE]
Queried == {"questions", "findings"}

Init ==
    /\ HumanInit
    /\ findings = {} /\ published = [e \in Events |-> 0]
    /\ live = FALSE /\ load = [l \in Queried |-> "sent"]
    /\ result = [l \in Queried |-> NoResult]
    /\ shown = [l \in Lists |-> <<>>]
    /\ click = [q \in Questions |-> NoClick] /\ loads = 0 /\ misled = {}

\* Changes that the query did not see and the subscription may not keep.
Raced(l, items) == IF load[l] = "answered" \/ ~live THEN items ELSE {}

-----------------------------------------------------------------------------
(* What happens to the questions, seen from the page *)

Changed == {q \in Questions : row'[q] # row[q]}
Unnotified == {q \in Questions : asking[q] = "fallback" /\ asking'[q] = "asked"}

\* A question that changes while the page loads, of which the page is not
\* told, or whose earlier notifications are still on their way, may mislead.
Human ==
    /\ HumanStep
    /\ misled' = misled \cup Raced("questions", Changed) \cup Unnotified
                        \cup {q \in Changed : wire' = wire}
                        \cup {q \in Changed : \E n \in wire : n.item = q}
    /\ UNCHANGED <<sourceVars, viewVars>>

-----------------------------------------------------------------------------
(* Findings and events *)

\* createAgentFinding stores the finding and notifies.
PublishFinding(f) ==
    /\ f \notin findings
    /\ findings' = findings \cup {f} /\ wire' = wire \cup {Note("findings", f, 0)}
    /\ misled' = misled \cup Raced("findings", {f})
    /\ UNCHANGED <<askVars, triggerVars, faults, published, viewVars>>

EventNote(e) == Note(Channel(DomainOf[e]), e, published[e])

\* The publisher's mutation reaches AppSync.
Publish(e) ==
    /\ published[e] \in 0..LambdaRetries
    /\ wire' = wire \cup {EventNote(e)}
    /\ published' = [published EXCEPT ![e] = LambdaRetries + 1]
    /\ UNCHANGED <<askVars, triggerVars, faults, findings, viewVars, misled>>

\* AppSync answers with errors: they are logged.
PublishRefused(e) ==
    /\ published[e] \in 0..LambdaRetries /\ Fault
    /\ published' = [published EXCEPT ![e] = LambdaRetries + 1] /\ misled' = misled \cup {e}
    /\ UNCHANGED <<askVars, triggerVars, wire, findings, viewVars>>

\* The call raises, whether or not it arrived: Lambda invokes again, with
\* the same event, until its retries are used up.
PublishThrows(e) ==
    /\ published[e] \in 0..LambdaRetries /\ Fault
    /\ wire' \in {wire, wire \cup {EventNote(e)}}
    /\ published' = [published EXCEPT ![e] = @ + 1]
    /\ misled' = IF published[e] = LambdaRetries THEN misled \cup {e} ELSE misled
    /\ UNCHANGED <<askVars, triggerVars, findings, viewVars>>

-----------------------------------------------------------------------------
(* The page *)

\* The page is loaded again.
Reload ==
    /\ loads < MaxLoads /\ loads' = loads + 1
    /\ live' = FALSE /\ load' = [l \in Queried |-> "sent"]
    /\ result' = [l \in Queried |-> NoResult]
    /\ shown' = [l \in Lists |-> <<>>]
    /\ click' = [q \in Questions |-> NoClick]
    /\ wire' = {}
    /\ misled' = {e \in Events : published[e] # 0}
    /\ UNCHANGED <<askVars, triggerVars, faults, sourceVars>>

\* The subscriptions are established: what was notified before is not for
\* them.
Subscribed ==
    /\ ~live /\ live' = TRUE
    /\ wire' = {} /\ misled' = misled \cup {n.item : n \in wire}
    /\ UNCHANGED <<askVars, triggerVars, faults, sourceVars, load, result, shown, click, loads>>

Stored(l) == IF l = "questions" THEN {q \in Questions : row[q] # NoRow} ELSE findings
Passes(l, i) == l = "questions" => row[i].status = "PENDING"

\* The scan reads at most ScanLimit rows and then filters.  The order of the
\* sorted answer does not matter here.
Query(l) ==
    /\ load[l] = "sent"
    /\ \E page \in SUBSET Stored(l) :
        /\ Cardinality(page) <= ScanLimit
        /\ Cardinality(page) < ScanLimit => page = Stored(l)
        /\ result' = [result EXCEPT ![l] = SetToSeq({i \in page : Passes(l, i)})]
        /\ misled' = misled \cup (Stored(l) \ page)
    /\ load' = [load EXCEPT ![l] = "answered"]
    /\ UNCHANGED <<humanVars, sourceVars, live, shown, click, loads>>

QueryFails(l) ==
    /\ load[l] = "sent" /\ Fault
    /\ load' = [load EXCEPT ![l] = "no"] /\ misled' = misled \cup Stored(l)
    /\ UNCHANGED <<askVars, triggerVars, wire, sourceVars, live, result, shown, click, loads>>

\* The answer replaces the list.
Loaded(l) ==
    /\ load[l] = "answered"
    /\ shown' = [shown EXCEPT ![l] = result[l]]
    /\ load' = [load EXCEPT ![l] = "no"] /\ result' = [result EXCEPT ![l] = NoResult]
    /\ UNCHANGED <<humanVars, sourceVars, live, click, loads, misled>>

\* [item, ...prev].slice(0, MAX_EVENTS), and what falls off its end.
Shown(l, item) == SubSeq(<<item>> \o shown[l], 1, Min({ViewSize, Len(shown[l]) + 1}))
Cut(l) == {shown[l][k] : k \in ViewSize..Len(shown[l])}
Without(q) ==
    LET s == shown["questions"] IN Kept(s, {k \in DOMAIN s : s[k] # q})

\* (mutant) another dashboard's answer does not remove the question.
AfterAnsweredStays(q) == shown["questions"]
AfterAnswered(q) == Without(q)

ListOf(feed) == IF feed \in {"created", "answered"} THEN "questions" ELSE feed

\* A notification arrives; those of different subscriptions in any order.
Notify(n) ==
    /\ live /\ wire' = wire \ {n}
    /\ LET l == ListOf(n.feed) IN
        CASE n.feed = "answered" ->
                shown' = [shown EXCEPT ![l] = AfterAnswered(n.item)] /\ UNCHANGED misled
          [] n.feed # "answered" /\ l \in Lists ->
                /\ shown' = [shown EXCEPT ![l] = Shown(l, n.item)]
                /\ misled' = misled \cup Cut(l)
          [] l \notin Lists -> UNCHANGED <<shown, misled>>
    /\ UNCHANGED <<askVars, triggerVars, faults, sourceVars, live, load, result, click, loads>>

\* The connection drops a notification.
Lose(n) ==
    /\ Fault /\ wire' = wire \ {n} /\ misled' = misled \cup {n.item}
    /\ UNCHANGED <<askVars, triggerVars, sourceVars, viewVars>>

\* An option is clicked: the mutation is stored and notified.
Click(q) ==
    /\ click[q] = NoClick /\ \E i \in DOMAIN shown["questions"] : shown["questions"][i] = q
    /\ \E option \in Options :
        /\ StoreAnswer(q, option)
        /\ click' = [click EXCEPT ![q] = [option |-> option, stored |-> TRUE]]
    /\ wire' = wire \cup {Note("answered", q, 0)}
    /\ misled' = misled \cup Raced("questions", {q}) \cup {i \in {q} : \E n \in wire : n.item = i}
    /\ UNCHANGED <<asking, triggerVars, faults, sourceVars, live, load, result, shown, loads>>

\* The mutation's answer removes the question.
Removed(q) ==
    /\ click[q].stored
    /\ shown' = [shown EXCEPT !["questions"] = Without(q)]
    /\ click' = [click EXCEPT ![q] = NoClick]
    /\ UNCHANGED <<humanVars, sourceVars, live, load, result, loads, misled>>

\* It fails, though stored: the question stays until its notification.
ClickFails(q) ==
    /\ click[q].stored /\ Fault /\ click' = [click EXCEPT ![q] = NoClick]
    /\ UNCHANGED <<askVars, triggerVars, wire, sourceVars, live, load, result, shown, loads, misled>>

Page ==
    \/ Reload \/ Subscribed
    \/ \E l \in Queried : Query(l) \/ QueryFails(l) \/ Loaded(l)
    \/ \E n \in wire : Notify(n) \/ Lose(n)
    \/ \E q \in Questions : Click(q) \/ Removed(q) \/ ClickFails(q)

Next ==
    \/ Human \/ Page
    \/ \E f \in Findings : PublishFinding(f)
    \/ \E e \in Events : Publish(e) \/ PublishRefused(e) \/ PublishThrows(e)

Spec == Init /\ [][Next]_vars

-----------------------------------------------------------------------------
Quiet ==
    /\ live /\ wire = {} /\ \A l \in Queried : load[l] = "no"
    /\ \A q \in Questions : click[q] = NoClick /\ asking[q] # "fallback"
    /\ \A e \in Events : published[e] \in {0, LambdaRetries + 1}

IsShown(l, i) == \E k \in DOMAIN shown[l] : shown[l][k] = i

\* When nothing is on its way, the lists are right about every item that no
\* race and no failure touched: the pending questions, the stored findings,
\* the published events in the list of their channel and in no other.
QuietListsAreRight ==
    Quiet =>
    /\ \A q \in Questions \ misled : IsShown("questions", q) <=> row[q].status = "PENDING"
    /\ \A f \in Findings \ misled : IsShown("findings", f) <=> f \in findings
    /\ \A e \in Events \ misled, c \in Channels :
        IsShown(c, e) <=> (published[e] # 0 /\ c = Channel(DomainOf[e]))

\* What the hook's comment says: no question is lost.  While nothing fails
\* and nothing is on its way, every pending question is in the list.
NoQuestionLost ==
    (Quiet /\ faults = 0) =>
    \A q \in Questions : row[q].status = "PENDING" => IsShown("questions", q)
=============================================================================
