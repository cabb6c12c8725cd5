------------------------------ MODULE MCBrowser ------------------------------
\* Instances of the application's pages.
EXTENDS Browser, TLC

P == INSTANCE EventPlans

\* The store calls of a handler, the RDF copy left out.
Store(domain, type, entity, ids) ==
    LET NotRdf(s) == s.op # "rdf"
    IN  SelectSeq(P!Plan([id |-> "e", domain |-> domain, type |-> type, entity |-> entity, ids |-> ids]), NotRdf)

\* A work order from its release to its first operation, then an NCR.
Mes ==
    Store("mes", "WORK_ORDER_RELEASED", "WO",
          [partNumber |-> "PN", operationNumber |-> "OP", serialNumber |-> "SN"])
      \o Store("mes", "WORK_ORDER_STARTED", "WO", [serialNumber |-> "SN", cell |-> "C1"])
      \o Store("mes", "OPERATION_COMPLETED", "WO", [partNumber |-> "PN", operationNumber |-> "OP"])
Qms == Store("qms", "NON_CONFORMANCE_RAISED", "NCR", [serialNumber |-> "SN", partNumber |-> "PN"])
PartOf(x, y) == [src |-> x, rel |-> "partOf", tgt |-> y]
Seeded == [v |-> {<<"WorkCenter", "C1">>, <<"Area", "A">>, <<"Site", "S">>}, facts |-> {},
           e |-> {PartOf(<<"WorkCenter", "C1">>, <<"Area", "A">>), PartOf(<<"Area", "A">>, <<"Site", "S">>)}]
\* From the seed on, and after the work order was done.
MCScenarios == {[kg |-> Seeded, todo |-> [mes |-> Mes]],
                [kg |-> FoldLeft(Apply, Seeded, Mes), todo |-> [qms |-> Qms]]}

MCQuestions == {[dir |-> "both", labels |-> {}, depth |-> 3]}

Ncr(id, age, severity) == [id |-> id, age |-> age, type |-> "NON_CONFORMANCE_RAISED", severity |-> severity]
Ev(id, age, period, stamp) == [id |-> id, age |-> age, type |-> "EV_UPDATED", period |-> period, stamp |-> stamp]
MCLake ==
    {Ncr(1, 80, "MINOR"), Ncr(2, 80, "MINOR"), Ncr(3, 80, "UNKNOWN"), Ncr(4, 20, "MAJOR"),
     Ncr(8, 20, NoSeverity), Ncr(5, 5, "MAJOR"), Ncr(6, 5, "CRITICAL"), Ncr(7, 0, "MINOR"),
     Ev(16, 85, "2026-01", 1), Ev(11, 60, "2026-01", 2), Ev(12, 50, "2026-01", 2), Ev(13, 6, "2026-02", 5),
     Ev(14, 3, "2026-01", 3), Ev(15, 0, "2026-02", 4)}

\* The event of r1 is delivered twice to a1, which calls a2.
SessionOf(n, r, a, first) == [no |-> n, run |-> r, agent |-> a, entry |-> first]
MCSessions == {SessionOf(1, "r1", "a1", TRUE), SessionOf(2, "r1", "a2", FALSE),
               SessionOf(3, "r2", "a1", TRUE), SessionOf(4, "r1", "a1", TRUE),
               SessionOf(5, "r3", "a1", TRUE)}
MCStored == {{}, {1, 3}, {2, 3, 4}}

MCOpened == {<<"#/digital-thread", "thread">>, <<"#/digital-thread", "navigator">>,
             <<"#/digital-thread", "ask">>, <<"#/datalake", "ev">>,
             <<"#/datalake", "sql">>, <<"", "trend">>, <<"#/agent-observability", "runs">>,
             <<"#/systems/plm", "drawing">>, <<"#/systems/wms", "table">>,
             <<"#/dashboard/shop-floor", "machines">>}

-----------------------------------------------------------------------------
(* Constraints: what need not be looked at together *)

\* The load and the comparison only read; neither changes what the other sees.
ThreadApart ==
    /\ loads = 0 \/ plans = 0
    /\ part = "thread" => loads <= 1
    /\ part = "navigator" => "qms" \in DOMAIN todo /\ slow.pc = "away"
    /\ found.asked > 0 =>
        /\ found.asked = 1 => found.links = {}
        /\ loads = 1 => thread.answer.raised = {} /\ thread.answer.edgesRead
    /\ loads > 1 =>
        /\ found.asked = MaxQueries /\ (load # None => load.known = found)
        /\ found.links # {} /\ "OperationsPerformance" \in {Label(k.node) : k \in found.nodes}
    /\ ("mes" \in DOMAIN todo \/ plans > 0) => slow.pc = "away"

\* All that a run does in the first one; later ones do less, least when they
\* overlap.
AskApart ==
    /\ overlapped => \A r \in runs : "query" \notin r.drawn /\ (asked > 2 => r.drawn = {})
    /\ \A r \in runs : Cardinality(r.drawn) <= 5 - r.run

\* The form is one more way to create; a lost subscription and a failed first
\* page over one put.
TableApart ==
    /\ form = "open" => (puts = 0 /\ sub = "on" /\ listing = "none")
    /\ (sub = "ended" \/ failed) => puts <= 1

\* Two lists at once, failures and chips over the first record of a trace;
\* full traces with one list after the other.  A third run once each has been
\* invoked, and a deleted record with short traces, where there are only lists.
FewRecords == Cardinality(trace) <= 1 /\ second = 0 /\ gone = {}
OneOfEach ==
    /\ second <= 1
    /\ \A r \in trace : r.action = "invoked" /\ r.session \in {1, 3, 5}
    /\ \A q, r \in trace : q.session < r.session => q.at <= r.at
OnlyListed == drawer = NoTrace /\ active = Statuses /\ Cardinality(lists) <= 1 /\ lost = 0 /\ ~shown.error
RunsApart ==
    /\ (Cardinality(lists) > 1 \/ active # Statuses \/ lost > 0) => FewRecords
    /\ active # Statuses => drawer = NoTrace
    /\ listsMade > 1 => (drawer = NoTrace /\ active = Statuses /\ (shown.error => FewRecords))
    /\ \A r \in trace : r.session > 2 => r.action = "invoked"
    /\ (listsMade > 0 /\ ~FewRecords /\ gone = {}) =>
        (Cardinality(trace) >= MaxRecords - 1 \/ (OneOfEach /\ OnlyListed /\ Cardinality(trace) = 2))
    /\ (\E r \in trace : r.run = "r3") =>
        (OneOfEach /\ OnlyListed /\ listsMade > 0 /\ Cardinality(trace) = 3)
    /\ \A c \in lists : ("r3" \in c.left /\ c.left # TracedRuns) => \E r \in trace : r.run = "r3"
    /\ gone # {} => (OneOfEach /\ OnlyListed /\ listsMade > 0 /\ Cardinality(trace) <= 2)
=============================================================================
