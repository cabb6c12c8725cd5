----------------------------- MODULE SystemPages -----------------------------
(***************************************************************************)
(* A source system's page over its table: the list it loads page by page,  *)
(* the records the subscription brings, and the form that creates one, by  *)
(* the page's own user or by another's.  Others put into the table and     *)
(* delete from it without AppSync: nobody is notified of that.  A record   *)
(* is [key, no]: no tells the puts of one key apart.                       *)
(***************************************************************************)
EXTENDS Integers, FiniteSets, Sequences, SequencesExt, Subsequences

CONSTANTS
    RecordKeys,         \* keys 1, 2, ... in the order of a scan
    Stored,             \* the keys the table may hold when the page is opened
    FirstLimit,         \* 200 records at first
    MoreLimit,          \* 50 with each "Load more"
    MaxPuts             \* bound: records put

ASSUME SystemAssumption ==
    /\ RecordKeys \subseteq Nat \ {0}
    /\ \A keys \in Stored : keys \subseteq RecordKeys /\ IsFiniteSet(keys)
    /\ FirstLimit \in Nat \ {0} /\ MoreLimit \in Nat \ {0} /\ MaxPuts \in Nat

VARIABLES
    table,          \* the table: set of records, one for a key
    puts,           \* records put so far
    sub,            \* the subscription: "off", "on", "ended"
    notices,        \* what the subscription will deliver
    items,          \* what the page shows
    nextToken,      \* where the next page begins: a key, 0 for null
    listing,        \* the list request: "none", "first", "more"
    answer,         \* what its scan has found: [items, nextToken]
    form,           \* the form: "closed", "open"
    missed,         \* history: records put behind the scan whose notice never
                    \* came, or came before the first page
    failed          \* history: the first page was not loaded

systemVars ==
    <<table, puts, sub, notices, items, nextToken, listing, answer, form, missed, failed>>
tableState == <<table, puts>>
noticeState == <<sub, notices>>
listState == <<items, nextToken, listing, answer, failed>>

NoPage == [items |-> <<>>, nextToken |-> -1]
Record(key, no) == [key |-> key, no |-> no]

-----------------------------------------------------------------------------
(* The resolvers *)

\* PutItem without a condition: what has the key is replaced.
PutRecord(record) == {r \in table : r.key # record.key} \cup {record}

\* A Scan from a key on: its records, and the key to go on from when the
\* limit was reached before the end of the table.
ScanFrom(start, limit) ==
    LET keys == {r.key : r \in {s \in table : s.key > start}}
        rest == Kept([k \in keys |-> CHOOSE r \in table : r.key = k], keys)
    IN  IF Len(rest) < limit THEN [items |-> rest, nextToken |-> 0]
        ELSE [items |-> SubSeq(rest, 1, limit), nextToken |-> rest[limit].key]

-----------------------------------------------------------------------------
(* Who puts and deletes *)

\* The pages that were scanned have the key's place.
Scanned(key) ==
    LET last == IF answer # NoPage THEN answer.nextToken ELSE nextToken
    IN  (listing # "first" \/ answer # NoPage) /\ (last = 0 \/ key <= last)

Put(key, notify) ==
    /\ puts < MaxPuts /\ puts' = puts + 1
    /\ LET record == Record(key, puts') IN
       /\ table' = PutRecord(record)
       /\ notices' = IF notify THEN notices \cup {record} ELSE notices
       /\ missed' = IF ~notify /\ Scanned(key) THEN missed \cup {record} ELSE missed
    /\ UNCHANGED <<sub, listState>>

\* A create mutation: the key is the form's, a random work order number or
\* a new one, and everyone who has subscribed is notified.
Create(key) == Put(key, sub = "on")

CreateElsewhere ==
    /\ \E key \in RecordKeys : Create(key)
    /\ UNCHANGED form

\* The generator and the injected dramas put into the table itself.
PutDirectly ==
    /\ \E key \in RecordKeys : Put(key, FALSE)
    /\ UNCHANGED form

\* The reset of the demo deletes one record after the other.
ResetDeletes ==
    /\ \E record \in table : table' = table \ {record}
    /\ UNCHANGED <<puts, noticeState, listState, form, missed>>

-----------------------------------------------------------------------------
(* The subscription *)

\* It is asked for beside the first page, and takes effect some time later.
Subscribed ==
    /\ sub = "off" /\ sub' = "on"
    /\ UNCHANGED <<tableState, notices, listState, form, missed>>

\* It fails, at first or later: an error is logged, and what was on its way is lost.
SubscriptionEnds ==
    /\ sub # "ended" /\ sub' = "ended" /\ notices' = {}
    /\ missed' = missed \cup {record \in notices : Scanned(record.key)}
    /\ UNCHANGED <<tableState, listState, form>>

\* The subscription's next.
RecordArrives(record) ==
    /\ items' = <<record>> \o items /\ notices' = notices \ {record}
    /\ UNCHANGED <<tableState, sub, nextToken, listing, answer, form, missed, failed>>

-----------------------------------------------------------------------------
(* The page *)

\* (mutant) what was loaded before is forgotten.
AppendedOnlyNew(old, new) == new
Appended(old, new) == old \o new

\* The table is scanned for the request.
ScansFor ==
    /\ listing # "none" /\ answer = NoPage
    /\ answer' = IF listing = "first" THEN ScanFrom(0, FirstLimit) ELSE ScanFrom(nextToken, MoreLimit)
    /\ UNCHANGED <<tableState, noticeState, items, nextToken, listing, form, missed, failed>>

Answered(shownItems) ==
    /\ answer # NoPage /\ answer' = NoPage
    /\ items' = shownItems /\ nextToken' = answer.nextToken /\ listing' = "none"
    /\ UNCHANGED <<tableState, noticeState, form, failed>>

\* The first page replaces what the page shows, also what came with a notice.
FirstPage ==
    /\ listing = "first" /\ Answered(answer.items)
    /\ missed' = missed \cup {record \in ToSet(items) \ ToSet(answer.items) : Scanned(record.key)}

LoadMore ==
    /\ nextToken # 0 /\ listing # "more" /\ listing' = "more"
    /\ UNCHANGED <<tableState, noticeState, items, nextToken, answer, form, missed, failed>>

MorePage ==
    /\ listing = "more" /\ Answered(Appended(items, answer.items))
    /\ UNCHANGED missed

\* A list request fails, before its scan or after: what is shown stays.
PageFails ==
    /\ listing # "none" /\ listing' = "none" /\ answer' = NoPage
    /\ failed' = (failed \/ listing = "first")
    /\ UNCHANGED <<tableState, noticeState, items, nextToken, form, missed>>

OpenForm ==
    /\ form = "closed" /\ form' = "open"
    /\ UNCHANGED <<tableState, noticeState, listState, missed>>
CancelForm ==
    /\ form # "closed" /\ form' = "closed"
    /\ UNCHANGED <<tableState, noticeState, listState, missed>>

\* handleCreate: the page waits for its notice to show the record.
CreateRecord ==
    /\ form = "open" /\ form' = "closed"
    /\ \E key \in RecordKeys : Create(key)
\* The mutation fails: the form stays.
CreateFails ==
    /\ form = "open" /\ UNCHANGED systemVars

NothingLoaded ==
    /\ puts = 0 /\ sub = "off" /\ notices = {} /\ items = <<>> /\ nextToken = 0
    /\ listing = "first" /\ answer = NoPage /\ form = "closed" /\ missed = {} /\ failed = FALSE

SystemIdle == table = {} /\ NothingLoaded

SystemInit ==
    /\ \E keys \in Stored : table = {Record(key, 0) : key \in keys}
    /\ NothingLoaded

SystemStep ==
    \/ ScansFor \/ FirstPage \/ LoadMore \/ MorePage \/ PageFails
    \/ Subscribed \/ SubscriptionEnds \/ \E record \in notices : RecordArrives(record)
    \/ CreateElsewhere \/ PutDirectly \/ ResetDeletes
    \/ OpenForm \/ CancelForm \/ CreateRecord \/ CreateFails

-----------------------------------------------------------------------------
\* A page that has been loaded to its end and waits for nothing shows every
\* record of the table, also those put while it was loading page by page,
\* but for those put where it had scanned already that no notice brought
\* after its first page (SystemPageLayout 57-105, genericList,
\* listWorkOrders).
LoadedPageIsComplete ==
    (listing = "none" /\ nextToken = 0 /\ notices = {} /\ ~failed) =>
        table \subseteq ToSet(items) \cup missed
=============================================================================
