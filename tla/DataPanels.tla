----------------------------- MODULE DataPanels -----------------------------
(***************************************************************************)
(* The panels that ask for something each time a choice changes and show   *)
(* the answer: a datalake panel and the NCR trend over an Athena query of  *)
(* a window of days, and the drawing of a selected part.  Nothing cancels  *)
(* an older request.                                                       *)
(*                                                                         *)
(* A day is its age, 0 is today.  An event of the lake is [id, age, type]  *)
(* with the payload fields a panel reads.                                  *)
(***************************************************************************)
EXTENDS Integers, FiniteSets, Sequences, FiniteSetsExt, SequencesExt, Subsequences

CONSTANTS
    Lake,           \* the archived events
    Keys,           \* drawing keys; those under drawings/ are in GoodKeys
    GoodKeys,
    RowLimit,       \* LIMIT when the page gives none
    MaxPolls, MaxCalls      \* bounds: polls of a query, requests

ASSUME PanelAssumption ==
    /\ IsFiniteSet(Lake) /\ \A e, f \in Lake : e.age \in Nat /\ e.id \in Nat /\ (e.id = f.id => e = f)
    /\ \A e \in Lake : e.type = "EV_UPDATED" => e.stamp \in Nat
    /\ GoodKeys \subseteq Keys
    /\ RowLimit \in Nat \ {0} /\ MaxPolls \in Nat \ {0} /\ MaxCalls \in Nat

Kinds == {"ev", "trend", "drawing"}
Windows == {7, 30, 90}
MaxDays == 90

VARIABLES
    kind,       \* which panel this is
    choice,     \* the window or the key selected
    calls,      \* requests in flight: [no, choice, athena, polls]
    panel,      \* [rows, loading, error], what it shows
    requested,  \* requests made
    latest,     \* history: the newest request answered
    disordered  \* history: an older answer came after a newer one

panelVars == <<kind, choice, calls, panel, requested, latest, disordered>>

-----------------------------------------------------------------------------
(* The named queries *)

\* What is not a positive number is the fallback.
SafeInt(n, fallback, max) == IF n < 1 THEN fallback ELSE IF n > max THEN max ELSE n

InWindow(type, days, fallback) ==
    {e \in Lake : e.type = type /\ e.age <= SafeInt(days, fallback, MaxDays)}

Cut(rows) == SubSeq(rows, 1, IF Len(rows) < RowLimit THEN Len(rows) ELSE RowLimit)

\* programEV: the newest first; events of a day in the order of their ids.
ProgramEV(days) ==
    LET newer(a, b) == a.age < b.age \/ (a.age = b.age /\ a.id > b.id)
        found == InWindow("EV_UPDATED", days, 30)
    IN  Cut(Listed([e \in found |-> {f \in found : f = e \/ newer(f, e)}]))

\* ncrTrend: a count for each date and severity, the oldest date first and
\* the severities of a date in any order.
NcrTrend(days) ==
    LET ncrs == InWindow("NON_CONFORMANCE_RAISED", days, 7)
        groups == {[age |-> e.age, severity |-> e.severity,
                    cnt |-> Cardinality({f \in ncrs : f.age = e.age /\ f.severity = e.severity})]
                   : e \in ncrs}
    IN  {Cut(s) : s \in {t \in SetToSeqs(groups) :
                            \A i, j \in DOMAIN t : i < j => t[i].age >= t[j].age}}

-----------------------------------------------------------------------------
(* What a panel makes of its rows *)

\* ProgramEvPanel: one point for each period, that of the newest record.
\* (mutant) the last one in the order of the rows.
LatestPerPeriodLast(rows) ==
    [p \in {rows[i].period : i \in DOMAIN rows} |->
        rows[Max({i \in DOMAIN rows : rows[i].period = p})].stamp]
WithPoint(series, r) ==
    IF r.period \in DOMAIN series /\ series[r.period] >= r.stamp THEN series
    ELSE [p \in DOMAIN series \cup {r.period} |-> IF p = r.period THEN r.stamp ELSE series[p]]
LatestPerPeriod(rows) ==
    LET series[n \in 0..Len(rows)] == IF n = 0 THEN <<>> ELSE WithPoint(series[n - 1], rows[n])
    IN  series[Len(rows)]

Columns == {"MINOR", "MAJOR", "CRITICAL"}
\* Of an event whose payload has none.
NoSeverity == "NONE"
\* A count counts so many units; a sum is the size of all units.
SumCnt(rows) == Cardinality(UNION {{r} \X (1..r.cnt) : r \in rows})
\* (mutant) what has no column is not counted.
TotalOfColumns(rows) == SumCnt({r \in rows : r.severity \in Columns})
Total(rows) == SumCnt(rows)

\* pivotBySeverity: rows that begin with one without a severity pass as they
\* are, and have neither a total nor a column.
PassThrough(rows) == rows = <<>> \/ rows[1].severity = NoSeverity
PivotBySeverity(rows) ==
    LET counted(age) == {r \in ToSet(rows) : r.age = age /\ ~PassThrough(rows)}
    IN  {[age |-> r.age, total |-> Total(counted(r.age)),
          column |-> [c \in Columns |-> SumCnt({q \in counted(r.age) : q.severity = c})]]
         : r \in ToSet(rows)}

Trends == [d \in Windows |-> {PivotBySeverity(rows) : rows \in NcrTrend(d)}]

\* What the answer for a choice may show.
Answers(c) ==
    CASE kind = "ev" -> {LatestPerPeriod(ProgramEV(c))}
      [] kind = "trend" -> Trends[c]
      [] kind = "drawing" -> {c}

-----------------------------------------------------------------------------
(* The panel *)

NewCall(no, c) ==
    [no |-> no, choice |-> c, polls |-> 0,
     athena |-> IF kind = "drawing" THEN "SUCCEEDED" ELSE "RUNNING"]

\* (mutant) the request is made with the choice before the click.
AsksForOld(old, new) == old
AsksFor(old, new) == new

NoRows == CASE kind = "ev" -> <<>> [] kind = "trend" -> {} [] kind = "drawing" -> ""
Offered(k) == IF k = "drawing" THEN Keys ELSE Windows

FirstChoices(k) == CASE k = "ev" -> {90} [] k = "trend" -> {7} [] k = "drawing" -> Keys
Fresh(c) == [rows |-> NoRows, of |-> c, loading |-> TRUE, error |-> FALSE]

PanelInit(kinds) ==
    /\ kind \in kinds /\ choice \in FirstChoices(kind)
    /\ calls = {NewCall(1, choice)} /\ requested = 1
    /\ panel = Fresh(choice)
    /\ latest = 0 /\ disordered = FALSE

PanelIdle ==
    /\ kind = "drawing" /\ choice = "" /\ calls = {} /\ requested = 0
    /\ panel = [rows |-> "", of |-> "", loading |-> FALSE, error |-> FALSE]
    /\ latest = 0 /\ disordered = FALSE

\* Another window or another part is selected: the effect asks again.
Select(c) ==
    /\ c # choice /\ requested < MaxCalls
    /\ choice' = c /\ requested' = requested + 1
    /\ calls' = calls \cup {NewCall(requested', AsksFor(choice, c))}
    /\ panel' = [panel EXCEPT !.loading = TRUE, !.error = FALSE]
    /\ UNCHANGED <<kind, latest, disordered>>

\* Live and back to Historical: a new chart asks anew, and what the old one
\* asked for is answered to nobody.
Reopen ==
    /\ kind = "trend" /\ requested < MaxCalls
    /\ choice' \in FirstChoices(kind) /\ requested' = requested + 1
    /\ calls' = {NewCall(requested', choice')} /\ panel' = Fresh(choice')
    /\ disordered' = FALSE
    /\ UNCHANGED <<kind, latest>>

\* The query ends in Athena.
AthenaEnds(c) ==
    /\ c.athena = "RUNNING"
    /\ \E state \in {"SUCCEEDED", "FAILED"} :
        calls' = (calls \ {c}) \cup {[c EXCEPT !.athena = state]}
    /\ UNCHANGED <<kind, choice, panel, requested, latest, disordered>>

\* The hook replaces its state with whatever comes.
Comes(c, shown) ==
    /\ calls' = calls \ {c} /\ panel' = shown
    /\ latest' = Max({latest, c.no})
    /\ disordered' = IF c.no > latest THEN FALSE ELSE TRUE
    /\ UNCHANGED <<kind, choice, requested>>

\* useDatalake forgets its rows, the other hooks keep what they have.
Failed(c) == Comes(c, [panel EXCEPT !.rows = IF kind = "ev" THEN NoRows ELSE @,
                                    !.loading = FALSE, !.error = TRUE])

\* executeQuery asks for the state: when its polls are used up it asks for
\* the result of a query that is still running, which fails.
PollGoesOn(c) ==
    /\ c.athena = "RUNNING" /\ c.polls + 1 < MaxPolls
    /\ calls' = (calls \ {c}) \cup {[c EXCEPT !.polls = @ + 1]}
    /\ UNCHANGED <<kind, choice, panel, requested, latest, disordered>>
PollFails(c) ==
    /\ \/ c.athena = "FAILED"
       \/ c.athena = "RUNNING" /\ c.polls + 1 = MaxPolls
       \/ kind = "drawing" /\ c.choice \notin GoodKeys
    /\ Failed(c)
PollSucceeds(c) ==
    /\ c.athena = "SUCCEEDED" /\ (kind = "drawing" => c.choice \in GoodKeys)
    /\ \E rows \in Answers(c.choice) :
        Comes(c, [rows |-> rows, of |-> c.choice, loading |-> FALSE, error |-> FALSE])

\* The request itself fails.
RequestFails(c) == Failed(c)

PanelStep ==
    \/ Reopen \/ \E c \in Offered(kind) : Select(c)
    \/ \E c \in calls : AthenaEnds(c) \/ PollGoesOn(c) \/ PollFails(c) \/ PollSucceeds(c)
                          \/ RequestFails(c)

-----------------------------------------------------------------------------
(* Properties *)

\* When nothing is on its way the panel shows the answer for its choice, or
\* an error, unless an older answer came after a newer one; and it does not
\* spin (useDatalake 22-56, useHistoricalData 26-81, useDrawingUrl 20-60).
QuietPanelIsRight ==
    calls = {} =>
    /\ ~panel.loading
    /\ panel.error \/ disordered \/ panel.of = choice

NcrsOn(age) == {e \in Lake : e.type = "NON_CONFORMANCE_RAISED" /\ e.age = age}

\* The chart counts every NCR of every day it shows, whatever its severity,
\* but perhaps of the newest: the query's limit cuts the newest dates off
\* (useHistoricalData 87-100, athena-query 37-47); unless an NCR of the oldest
\* day has no severity, for then its row may come first and all rows pass as
\* they are.
TrendCountsDays ==
    (kind = "trend"
        /\ \A p \in panel.rows : (\A q \in panel.rows : q.age <= p.age) =>
               \A e \in NcrsOn(p.age) : e.severity # NoSeverity) =>
    \A p \in panel.rows :
        (\E q \in panel.rows : q.age < p.age) =>
            /\ p.total = Cardinality(NcrsOn(p.age))
            /\ \A c \in Columns : p.column[c] = Cardinality({e \in NcrsOn(p.age) : e.severity = c})

\* The earned-value chart shows the newest record of each period among those
\* it read, in whatever order they were archived (businessPanels 18-46).
EvIsLatest ==
    (kind = "ev" /\ ~panel.loading /\ ~panel.error /\ calls = {}) =>
    LET read == ToSet(ProgramEV(panel.of)) IN
    /\ DOMAIN panel.rows = {e.period : e \in read}
    /\ \A e \in read : panel.rows[e.period] >= e.stamp
    /\ \A p \in DOMAIN panel.rows : \E e \in read : e.period = p /\ e.stamp = panel.rows[p]
=============================================================================
