------------------------------ MODULE AgentRuns ------------------------------
(***************************************************************************)
(* The trace that agents leave and the observability page over it: the     *)
(* agent-trace table, the list-runs and query-trace operations of the      *)
(* hitl-query function, the table of runs and the trace drawer.            *)
(***************************************************************************)
EXTENDS Integers, FiniteSets, Sequences, FiniteSetsExt, SequencesExt, Subsequences

CONSTANTS
    Sessions,       \* [no, run, agent, entry]
    StaleAge,       \* 600 seconds
    SlotSpan,       \* 3 seconds
    ScanLimit,      \* 20000 rows
    ListLimit,      \* 300 runs
    MaxSeconds, MaxRecords, MaxLists, MaxLostRecords, MaxGone     \* bounds

ASSUME RunsAssumption ==
    /\ \A s, t \in Sessions : s.no \in Nat /\ (s.no = t.no => s = t)
    /\ \A s \in Sessions : \E t \in Sessions : t.run = s.run /\ t.entry
    /\ StaleAge \in Nat /\ SlotSpan \in Nat /\ {ScanLimit, ListLimit} \subseteq Nat \ {0}
    /\ {MaxSeconds, MaxRecords, MaxLists, MaxLostRecords, MaxGone} \subseteq Nat

VARIABLES
    second,     \* the clock
    trace,      \* the table: [run, session, agent, action, at]
    lost,       \* records that were not written
    gone,       \* history: records that were deleted
    lists,      \* list-runs in flight: [no, since, left: runs to read, rows]
    listsMade,
    shown,      \* the page: [no, since, status: run -> status, records: run -> records,
                \*            error, loading]
    active,     \* the chips that are on
    drawer      \* the open trace: [run, loading, records]

runsVars == <<second, trace, lost, gone, lists, listsMade, shown, active, drawer>>
tableVars == <<second, trace, lost, gone>>
pageVars == <<lists, listsMade, shown, active, drawer>>

\* As the sort key orders the records of one second and one session: the
\* trigger's have no action in their key.
Actions == <<"invoked", "hitl_resume", "ask_human", "call_agent", "publish_finding", "stop_session">>
Statuses == {"completed", "awaiting_human", "in_flight", "stalled"}
TracedRuns == {s.run : s \in Sessions}
NoTrace == [run |-> ""]

-----------------------------------------------------------------------------
(* Agents write their trace *)

Did(s, action) == \E r \in trace \cup gone : r.session = s.no /\ r.action = action

\* An entry session was opened by the agent's trigger: for each agent whose
\* rule matches the event, and again when its queue delivers the event again.
\* Any other was called by a session of the run.  Their records may be lost.
MayWrite(s, action) ==
    /\ action = "invoked" => s.entry
    /\ action # "invoked" =>
        \/ lost > 0
        \/ s.entry /\ Did(s, "invoked")
        \/ ~s.entry /\ \E r \in trace \cup gone : r.run = s.run /\ r.action = "call_agent"
    /\ action = "hitl_resume" =>
        \E r \in trace \cup gone : r.session = s.no /\ r.action = "ask_human" /\ r.at < second
    /\ Did(s, "stop_session") => action = "hitl_resume"

\* write_trace: a second record of a kind in the same second replaces the
\* first; a failure is logged and the agent goes on.
WriteTrace(s, action) ==
    /\ MayWrite(s, action) /\ Cardinality(trace) < MaxRecords
    /\ LET record == [run |-> s.run, session |-> s.no, agent |-> s.agent, action |-> action, at |-> second]
       IN  \/ trace' = trace \cup {record} /\ UNCHANGED lost
           \/ /\ lost < MaxLostRecords
              /\ lost' = lost + 1 /\ UNCHANGED trace
    /\ UNCHANGED <<second, gone, pageVars>>

\* The table deletes a record a week after it was written, and the reset of
\* the demo one record after the other, at any time.
RecordDeleted(r) ==
    /\ Cardinality(gone) < MaxGone
    /\ trace' = trace \ {r} /\ gone' = gone \cup {r}
    /\ UNCHANGED <<second, lost, pageVars>>

SecondPasses ==
    /\ second < MaxSeconds /\ second' = second + 1
    /\ UNCHANGED <<trace, lost, gone, pageVars>>

-----------------------------------------------------------------------------
(* list-runs *)

Position(action) == CHOOSE i \in DOMAIN Actions : Actions[i] = action
Before(a, b) ==
    \/ a.at < b.at
    \/ a.at = b.at /\ a.session < b.session
    \/ a.at = b.at /\ a.session = b.session /\ Position(a.action) < Position(b.action)
InOrder(records) == Listed([r \in records |-> {q \in records : q = r \/ Before(q, r)}])

\* (mutant) a run is over when its last record says so.
StatusOfLast(records, t) ==
    LET last == Last(InOrder(records)) IN
    CASE last.action = "stop_session" -> "completed"
      [] last.action = "ask_human" -> "awaiting_human"
      [] OTHER -> IF t - last.at < StaleAge THEN "in_flight" ELSE "stalled"

\* One agent of the run has stopped, or the last of its records decides.
StatusOf(records, t) ==
    LET last == Last(InOrder(records)) IN
    CASE \E r \in records : r.action = "stop_session" -> "completed"
      [] (\A r \in records : r.action # "stop_session") /\ last.action = "ask_human" -> "awaiting_human"
      [] OTHER -> IF t - last.at < StaleAge THEN "in_flight" ELSE "stalled"

\* The page is opened or refreshed: the table is scanned page by page.
LoadRuns ==
    /\ listsMade < MaxLists /\ listsMade' = listsMade + 1
    /\ lists' = lists \cup {[no |-> listsMade', since |-> shown.no, left |-> TracedRuns, rows |-> {}]}
    /\ shown' = [shown EXCEPT !.loading = TRUE]
    /\ UNCHANGED <<tableVars, active, drawer>>

\* The next rows are those of one run; the pages come in no order.
ScanPage(c) ==
    /\ Cardinality(c.rows) < ScanLimit
    /\ \E run \in c.left :
        lists' = (lists \ {c}) \cup {[c EXCEPT !.left = @ \ {run},
                                               !.rows = @ \cup {r \in trace : r.run = run}]}
    /\ UNCHANGED <<tableVars, listsMade, shown, active, drawer>>

RowsOf(rows, run) == {r \in rows : r.run = run}

\* No record of the one is before all of the other.
NoEarlier(records, others) == \A r \in records : \E q \in others : q.at <= r.at

\* The runs that are listed: those that started last, in any order of those
\* that started together.
Listing(rows) ==
    LET runs == {r.run : r \in rows} IN
    {some \in SUBSET runs :
        /\ Cardinality(some) <= ListLimit /\ (some # runs => Cardinality(some) = ListLimit)
        /\ \A a \in some, b \in runs \ some : NoEarlier(RowsOf(rows, a), RowsOf(rows, b))}

\* The answer replaces what is shown, also when it is not the newest.
ListAnswered(c) ==
    /\ c.left = {} \/ Cardinality(c.rows) >= ScanLimit
    /\ \E runs \in Listing(c.rows) :
       shown' = [no |-> c.no, since |-> c.since, complete |-> c.left = {},
                 error |-> FALSE, loading |-> FALSE,
                 status |-> [run \in runs |-> StatusOf(RowsOf(c.rows, run), second)],
                 records |-> [run \in runs |-> RowsOf(c.rows, run)]]
    /\ lists' = lists \ {c}
    /\ UNCHANGED <<tableVars, listsMade, active, drawer>>

NothingListed(no, loading) ==
    [no |-> no, since |-> 0, complete |-> FALSE, error |-> FALSE, loading |-> loading,
     status |-> <<>>, records |-> <<>>]

\* The function fails: its answer has no runs and the page does not look at
\* the code.  The request fails: the runs stay and an error is shown.
ListFails(c) ==
    /\ \/ shown' = NothingListed(c.no, FALSE)
       \/ shown' = [shown EXCEPT !.error = TRUE, !.loading = FALSE]
    /\ lists' = lists \ {c}
    /\ UNCHANGED <<tableVars, listsMade, active, drawer>>

\* toggle: no chip left means all of them.
Toggle(k) ==
    /\ LET next == IF k \in active THEN active \ {k} ELSE active \cup {k}
       IN  active' = IF next = {} THEN Statuses ELSE next
    /\ UNCHANGED <<tableVars, lists, listsMade, shown, drawer>>

Filtered == {run \in DOMAIN shown.status : shown.status[run] \in active}

-----------------------------------------------------------------------------
(* The trace drawer *)

\* A row of the table is clicked, which is there unless runs are loading or
\* could not be loaded.
OpenTrace(run) ==
    /\ ~shown.loading /\ ~shown.error
    /\ run \in Filtered /\ drawer = NoTrace
    /\ drawer' = [run |-> run, loading |-> TRUE, records |-> {}]
    /\ UNCHANGED <<tableVars, lists, listsMade, shown, active>>

\* query-trace answers; without records when the request or the function fails.
TraceAnswered ==
    /\ drawer # NoTrace /\ drawer.loading
    /\ \E found \in {RowsOf(trace, drawer.run), {}} :
        drawer' = [drawer EXCEPT !.loading = FALSE, !.records = found]
    /\ UNCHANGED <<tableVars, lists, listsMade, shown, active>>

CloseTrace ==
    /\ drawer # NoTrace /\ drawer' = NoTrace
    /\ UNCHANGED <<tableVars, lists, listsMade, shown, active>>

\* (mutant) the span is counted from the last record of the row.
InSlotOfLast(slot, r) == r.at - Last(slot).at <= SlotSpan
InSlot(slot, r) == r.at - Head(slot).at <= SlotSpan

\* Rows of the swim lanes: a record that is later than the first of the row
\* by more than the span opens a new one.
WithRecord(slots, r) ==
    IF slots # <<>> /\ InSlot(Last(slots), r)
    THEN [slots EXCEPT ![Len(slots)] = Append(@, r)] ELSE Append(slots, <<r>>)
TimeSlots(records) ==
    LET rows == InOrder(records)
        slots[n \in 0..Len(rows)] == IF n = 0 THEN <<>> ELSE WithRecord(slots[n - 1], rows[n])
    IN  slots[Len(rows)]

Lanes(records) == {r.agent : r \in records}
Cell(slot, lane) == {r \in ToSet(slot) : r.agent = lane}

-----------------------------------------------------------------------------
RunsIdle ==
    /\ second = 0 /\ trace = {} /\ lost = 0 /\ gone = {}
    /\ lists = {} /\ listsMade = 0 /\ shown = NothingListed(0, TRUE)
    /\ active = Statuses /\ drawer = NoTrace

RunsStep ==
    \/ \E s \in Sessions, i \in DOMAIN Actions : WriteTrace(s, Actions[i])
    \/ SecondPasses \/ LoadRuns \/ TraceAnswered \/ CloseTrace
    \/ \E r \in trace : RecordDeleted(r)
    \/ \E c \in lists : ScanPage(c) \/ ListAnswered(c) \/ ListFails(c)
    \/ \E k \in Statuses : Toggle(k)
    \/ \E run \in TracedRuns : OpenTrace(run)

-----------------------------------------------------------------------------
(* Properties *)

\* What a complete list has shown, one asked for after it still shows, but
\* for runs whose records were deleted: a run loses no records, and one that
\* is completed is not anything else again, although agents of the run go on
\* and the scan is not a snapshot; it leaves the list only when that is full
\* of runs that started no earlier (hitl-query 129-192, trace_writer 35-45,
\* AgentObservabilityPage 58-65).
ListingGrows ==
    [][(shown.complete /\ shown'.complete /\ shown'.since = shown.no) =>
        \A run \in DOMAIN shown.status \ {r.run : r \in gone'} :
            IF run \in DOMAIN shown'.status
            THEN /\ shown.records[run] \subseteq shown'.records[run]
                 /\ shown.status[run] = "completed" => shown'.status[run] = "completed"
            ELSE /\ Cardinality(DOMAIN shown'.status) = ListLimit
                 /\ \A o \in DOMAIN shown'.status :
                     NoEarlier(shown'.records[o], shown.records[run])]_runsVars

\* The swim lanes show every record of the trace exactly once, in rows that
\* are in the order of time and no longer than the span (TraceDrawer 119-200).
LanesShowEveryRecord ==
    (drawer # NoTrace /\ drawer.records # {}) =>
    LET slots == TimeSlots(drawer.records) IN
    /\ \A r \in drawer.records :
        Cardinality({p \in (DOMAIN slots) \X Lanes(drawer.records) : r \in Cell(slots[p[1]], p[2])}) = 1
    /\ \A i, j \in DOMAIN slots : i < j => Head(slots[i]).at + SlotSpan < Head(slots[j]).at
    /\ \A i \in DOMAIN slots : \A k \in DOMAIN slots[i] :
        slots[i][k].at \in Head(slots[i]).at..(Head(slots[i]).at + SlotSpan)
=============================================================================
