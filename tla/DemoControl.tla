----------------------------- MODULE DemoControl -----------------------------
(***************************************************************************)
(* The demo's controls: the demo-control table (settings, scenario lock,   *)
(* seed status), the generator tasks that obey it, the pages that write it *)
(* and the reset that wipes everything.  Nobody owns the table: a page     *)
(* writes the whole settings item from what it shows, the lock is checked  *)
(* and taken in two calls, and the reset runs beside all of them.          *)
(***************************************************************************)
EXTENDS Integers, Sequences, FiniteSets

CONSTANTS
    Tasks,              \* containers of the generator service
    Operators,          \* open pages
    SeedItems, LiveItems,   \* numbers of items of the scenario file
    StaleAfter,         \* LOCK_STALE_SECONDS
    RunTime,            \* what a seeding or a replay takes at most, in the same unit
    ScenarioTime,       \* what both take in one run
    Modes, Autos,       \* what the buttons offer
    Requests,           \* of "drama", "baseline": what may be asked for
    MaxClicks, MaxFaults, MaxRequests, MaxResets    \* bounds

ASSUME DemoAssumption ==
    /\ SeedItems \in Nat \ {0} /\ LiveItems \in Nat \ {0}
    /\ StaleAfter \in Nat /\ RunTime \in Nat /\ ScenarioTime \in Nat /\ Autos \subseteq Nat
    /\ MaxClicks \in Nat /\ MaxFaults \in Nat /\ MaxRequests \in Nat /\ MaxResets \in Nat

NoItem == [mode |-> "none", auto |-> -1]
NoLock == -1
Items(what) == {<<what, i>> : i \in 1..(IF what = "seed" THEN SeedItems ELSE LiveItems)}
NoPage == [load |-> "closed", mode |-> "DRAMA", auto |-> 8, seen |-> "none", read |-> NoItem]
Off == [pc |-> "off", what |-> "seed", both |-> FALSE, done |-> 0, spent |-> 0]

VARIABLES
    control,    \* DEMO_CLOCK/STATE
    lock,       \* SCENARIO_LOCK: its age, or NoLock
    seedStatus, \* SEED_STATUS
    desired,    \* desiredCount of the generator service
    task,       \* the containers; both: a replay follows the seeding
    stopping,   \* those ECS has told to stop
    tables,     \* what the source systems' tables hold
    flight,     \* changes are on their way to graph and data lake
    graph, lake,    \* whether they hold anything
    page, writes,   \* the open pages, and their write-control calls under way
    requests,   \* injections and seedings under way
    reset,      \* the reset under way and the keys its scan returned
    clicks, asked, resets, faults,  \* for the bounds
    raced,      \* pages that may show something else than the table
    doubted,    \* the lock's answer could not be relied on
    lost,       \* seed items whose put failed
    disturbed   \* something was written, or failed, while a reset ran

controlVars == <<control, lock, seedStatus>>
taskVars == <<desired, task, stopping>>
dataVars == <<tables, flight, graph, lake>>
pageVars == <<page, writes, requests, clicks, asked, raced>>
demoVars == <<controlVars, taskVars, dataVars, pageVars, reset, resets, faults,
              doubted, lost, disturbed>>

Init ==
    /\ control = NoItem /\ lock = NoLock /\ seedStatus = "none"
    /\ desired = 1 /\ task = [t \in Tasks |-> Off] /\ stopping = {}
    /\ tables = {} /\ flight = FALSE /\ graph = FALSE /\ lake = FALSE
    /\ page = [o \in Operators |-> NoPage] /\ writes = {} /\ requests = {}
    /\ reset = [pc |-> "no", keys |-> {}]
    /\ clicks = 0 /\ asked = 0 /\ resets = 0 /\ faults = 0
    /\ raced = {} /\ doubted = FALSE /\ lost = {} /\ disturbed = FALSE

Fault == faults < MaxFaults /\ faults' = faults + 1
Sound == UNCHANGED faults
At(t, pc) == task[t].pc = pc
Go(t, pc) == task' = [task EXCEPT ![t].pc = pc]
Alive(t) == ~At(t, "off")
Running(t) == task[t].pc \in {"mark", "run", "release"}
\* It has read that nobody runs, and has not yet put its lock.
Deciding(t) == task[t].pc \in {"clear", "take"}
Longest(t) == IF task[t].both THEN ScenarioTime ELSE RunTime
Put(item) == tables' = tables \cup {item} /\ flight' = TRUE

\* read_demo_state: what the item lacks is replaced by the defaults.
Read(item) == IF item = NoItem THEN [mode |-> "DRAMA", auto |-> 8]
              ELSE [item EXCEPT !.auto = IF @ = -1 THEN 8 ELSE @]

-----------------------------------------------------------------------------
(* The service's containers *)

Launch(t) ==
    /\ At(t, "off") /\ desired = 1 /\ \A u \in Tasks : Alive(u) => u \in stopping
    /\ task' = [task EXCEPT ![t] = [Off EXCEPT !.pc = "tick"]]
    /\ UNCHANGED <<desired, stopping, controlVars, dataVars, pageVars, reset, resets, faults, doubted, lost>>

\* A stop, or a deployment that replaces the task: the process does not
\* listen to SIGTERM and works on until it is killed.
TellToStop(t) ==
    /\ Alive(t) /\ t \notin stopping /\ (IF desired = 0 THEN Sound ELSE Fault)
    /\ stopping' = stopping \cup {t}
    /\ UNCHANGED <<desired, task, controlVars, dataVars, pageVars, reset, resets, doubted, lost>>

\* Nothing is released: a killed process runs no finally.
Kill(t) ==
    /\ Alive(t) /\ (IF t \in stopping THEN Sound ELSE Fault)
    /\ task' = [task EXCEPT ![t] = Off] /\ stopping' = stopping \ {t}
    /\ UNCHANGED <<desired, controlVars, dataVars, pageVars, reset, resets, doubted, lost>>

\* The watchdog finds the time up; when it cannot read the item the default
\* holds, and when it cannot scale the service down it exits all the same.
AutoStop(t) ==
    /\ Alive(t)
    /\ \/ Read(control).auto > 0 /\ desired' = 0 /\ Sound
       \/ desired' \in {0, desired} /\ Fault
    /\ task' = [task EXCEPT ![t] = Off] /\ stopping' = stopping \ {t}
    /\ UNCHANGED <<controlVars, dataVars, pageVars, reset, resets, doubted, lost>>

-----------------------------------------------------------------------------
(* The scheduler's loop *)

TaskRest == UNCHANGED <<desired, stopping, graph, lake, pageVars, reset, resets>>

Begin(t, pc, what, both) ==
    /\ task' = [task EXCEPT ![t] = [@ EXCEPT !.pc = pc, !.what = what, !.both = both]]
    /\ UNCHANGED <<tables, flight>>

\* SCENARIO is both in one run; a seeding that is done is done again.
ReadMode(t) ==
    /\ At(t, "tick")
    /\ \E mode \in {Read(control).mode, "DRAMA"} :
        /\ IF mode = Read(control).mode THEN Sound ELSE Fault
        /\ CASE mode = "SEED SCENARIO" -> Begin(t, "seeded?", "seed", FALSE)
             [] mode = "PLAY SCENARIO" -> Begin(t, "locked?", "live", FALSE)
             [] mode = "SCENARIO" -> Begin(t, "locked?", "seed", TRUE)
             [] OTHER -> Put(<<"tick", 1>>) /\ UNCHANGED task
    /\ TaskRest /\ UNCHANGED <<controlVars, doubted, lost>>

\* An error counts as not completed.
CheckSeed(t) ==
    /\ At(t, "seeded?")
    /\ \/ Go(t, IF seedStatus = "COMPLETED" THEN "tick" ELSE "locked?") /\ Sound
       \/ Go(t, "locked?") /\ seedStatus = "COMPLETED" /\ Fault
    /\ TaskRest /\ UNCHANGED <<controlVars, tables, flight, doubted, lost>>

\* (mutant) any lock that has aged is stale.
IsOld(age) == age > 0
IsStale(age) == age > StaleAfter

\* get_item; an error counts as not running.  Nothing keeps two containers
\* from reading that nobody runs before either puts its lock.
CheckLock(t) ==
    /\ At(t, "locked?")
    /\ \/ /\ lock # NoLock /\ ~IsStale(lock)
          /\ Go(t, "tick") /\ Sound /\ UNCHANGED doubted
       \/ /\ lock = NoLock \/ IsStale(lock)
          /\ Go(t, IF lock = NoLock THEN "take" ELSE "clear") /\ Sound
          /\ doubted' = (doubted \/ \E u \in Tasks : Deciding(u))
       \/ Go(t, "take") /\ Fault /\ doubted' = TRUE
    /\ TaskRest /\ UNCHANGED <<controlVars, tables, flight, lost>>

\* delete_item: what was stale when it was read is deleted, whatever it is
\* by now.
ClearStale(t) ==
    /\ At(t, "clear") /\ Go(t, "take")
    /\ \/ lock' = NoLock /\ Sound /\ UNCHANGED doubted
       \/ Fault /\ doubted' = TRUE /\ UNCHANGED lock
    /\ TaskRest /\ UNCHANGED <<control, seedStatus, tables, flight, lost>>

\* An unconditional put, whose failure is only logged.
TakeLock(t) ==
    /\ At(t, "take")
    /\ \/ lock' = 0 /\ Sound /\ UNCHANGED doubted
       \/ Fault /\ doubted' = TRUE /\ UNCHANGED lock
    /\ task' = [task EXCEPT ![t] = [@ EXCEPT !.done = 0, !.spent = 0,
                    !.pc = IF task[t].what = "seed" THEN "mark" ELSE "run"]]
    /\ TaskRest /\ UNCHANGED <<control, seedStatus, tables, flight, lost>>

WriteStatus(s) == (seedStatus' = s /\ Sound) \/ (Fault /\ UNCHANGED seedStatus)

Mark(t) ==
    /\ At(t, "mark") /\ Go(t, "run") /\ WriteStatus("IN_PROGRESS")
    /\ TaskRest /\ UNCHANGED <<control, lock, tables, flight, doubted, lost>>

Size(what) == Cardinality(Items(what))

\* A put that fails is skipped; a seeding reports its progress now and then.
PutItem(t) ==
    LET item == <<task[t].what, task[t].done + 1>> IN
    /\ At(t, "run") /\ task[t].done < Size(task[t].what)
    /\ task' = [task EXCEPT ![t].done = @ + 1]
    /\ \/ Put(item) /\ Sound /\ lost' = lost \ {item}
       \/ Fault /\ lost' = lost \cup {item} /\ UNCHANGED <<tables, flight>>
    /\ seedStatus' \in {seedStatus} \cup (IF task[t].what = "seed" THEN {"IN_PROGRESS"} ELSE {})
    /\ TaskRest /\ UNCHANGED <<control, lock, doubted>>

\* (mutant) the last items are not waited for.
AlmostAll(t) == task[t].done >= Size(task[t].what) - 1
AllPut(t) == task[t].done = Size(task[t].what)

\* A seeding is reported; in SCENARIO the replay follows it.
Complete(t) ==
    /\ At(t, "run") /\ AllPut(t)
    /\ IF task[t].what = "seed" THEN WriteStatus("COMPLETED") ELSE Sound /\ UNCHANGED seedStatus
    /\ IF task[t].both /\ task[t].what = "seed"
       THEN task' = [task EXCEPT ![t] = [@ EXCEPT !.what = "live", !.done = 0]]
       ELSE Go(t, "release")
    /\ TaskRest /\ UNCHANGED <<control, lock, tables, flight, doubted, lost>>

\* The finally clause deletes the lock, whoever's it is.
Release(t) ==
    /\ At(t, "release") /\ Go(t, "tick")
    /\ (lock' = NoLock /\ Sound) \/ (Fault /\ UNCHANGED lock)
    /\ TaskRest /\ UNCHANGED <<control, seedStatus, tables, flight, doubted, lost>>

TaskStep(t) ==
    \/ ReadMode(t) \/ CheckSeed(t) \/ CheckLock(t) \/ ClearStale(t) \/ TakeLock(t)
    \/ Mark(t) \/ PutItem(t) \/ Complete(t) \/ Release(t)

\* Time passes.  A run may outlive its lock.
Outlived(t) == task[t].spent > StaleAfter
Age ==
    /\ lock \in 0..StaleAfter /\ \A t \in Tasks : Running(t) => task[t].spent < Longest(t)
    /\ lock' = lock + 1
    /\ task' = [t \in Tasks |-> IF Running(t) THEN [task[t] EXCEPT !.spent = @ + 1] ELSE task[t]]
    /\ doubted' = (doubted \/ \E t \in Tasks : Running(t) /\ Outlived(t)')
    /\ TaskRest /\ UNCHANGED <<control, seedStatus, tables, flight, faults, lost>>

-----------------------------------------------------------------------------
(* The page *)

PageRest == UNCHANGED <<taskVars, dataVars, reset, resets, doubted, lost>>

Open(o) ==
    /\ page' = [page EXCEPT ![o] = [NoPage EXCEPT !.load = "sent"]] /\ raced' = raced \ {o}
    /\ PageRest /\ UNCHANGED <<controlVars, writes, requests, clicks, asked, faults>>

\* read-control, at the server.
ReadControl(o) ==
    /\ page[o].load = "sent"
    /\ page' = [page EXCEPT ![o] = [@ EXCEPT !.load = "answered", !.read = control]]
    /\ raced' = IF writes # {} THEN raced \cup {o} ELSE raced
    /\ PageRest /\ UNCHANGED <<controlVars, writes, requests, clicks, asked, faults>>

\* The answer replaces the settings it has, whatever was clicked meanwhile.
Loaded(o) ==
    /\ page[o].load = "answered"
    /\ page' = [page EXCEPT ![o] = [page[o] EXCEPT !.load = "done", !.read = NoItem,
                  !.mode = IF page[o].read = NoItem THEN page[o].mode ELSE page[o].read.mode,
                  !.auto = IF page[o].read.auto = -1 THEN page[o].auto ELSE page[o].read.auto]]
    /\ PageRest /\ UNCHANGED <<controlVars, writes, requests, clicks, asked, raced, faults>>

\* (mutant) the settings that were not clicked are left out.
OnlyTheClicked(p) == [mode |-> p.mode, auto |-> -1]
\* The whole item, from what the page shows.
NewState(p) == [mode |-> p.mode, auto |-> p.auto]

\* A button of the settings.  The other pages do not learn of it, and this
\* one does not wait: an earlier click's write may land after this one's.
Click(o, p) ==
    /\ page[o].load # "closed" /\ clicks < MaxClicks /\ clicks' = clicks + 1
    /\ p.mode = "PLAY SCENARIO" /\ page[o].mode # p.mode =>
            page[o].seen \notin {"IN_PROGRESS", "STUCK"}
    /\ page' = [page EXCEPT ![o] = p]
    /\ writes' = writes \cup {[by |-> o, item |-> NewState(p)]}
    /\ raced' = raced \cup (Operators \ {o})
                      \cup (IF writes # {} \/ page[o].load # "done" THEN {o} ELSE {})
    /\ PageRest /\ UNCHANGED <<controlVars, requests, asked, faults>>

ClickMode(o) == \E m \in Modes : Click(o, [page[o] EXCEPT !.mode = m])
ClickAuto(o) == \E h \in Autos : Click(o, [page[o] EXCEPT !.auto = h])

\* write-control called without the page, for the mode no button offers.
SetScenarioMode(o) ==
    /\ clicks < MaxClicks /\ clicks' = clicks + 1 /\ raced' = Operators
    /\ writes' = writes \cup {[by |-> o, item |-> [mode |-> "SCENARIO", auto |-> -1]]}
    /\ PageRest /\ UNCHANGED <<controlVars, page, requests, asked, faults>>

WriteControl(w) ==
    /\ w \in writes /\ writes' = writes \ {w} /\ control' = w.item
    /\ PageRest /\ UNCHANGED <<lock, seedStatus, page, requests, clicks, asked, raced, faults>>

WriteFails(w) ==
    /\ w \in writes /\ Fault /\ writes' = writes \ {w} /\ raced' = raced \cup {w.by}
    /\ PageRest /\ UNCHANGED <<controlVars, page, requests, clicks, asked>>

Seeding == \E t \in Tasks : Running(t) /\ task[t].what = "seed"

\* Every five seconds.  A status that is gone changes nothing on the page;
\* one that has not moved for a minute is shown as stuck.
PollSeed(o) ==
    /\ page[o].load # "closed" /\ seedStatus # "none"
    /\ \E s \in IF seedStatus = "IN_PROGRESS" /\ ~Seeding THEN {seedStatus, "STUCK"} ELSE {seedStatus} :
        page' = [page EXCEPT ![o].seen = s]
    /\ PageRest /\ UNCHANGED <<controlVars, writes, requests, clicks, asked, raced, faults>>

\* Force unlock deletes the lock, then the status.  By then a run may have
\* begun.
ForceUnlock(o) ==
    /\ page[o].seen = "STUCK" /\ page' = [page EXCEPT ![o].seen = "none"]
    /\ lock' = NoLock /\ seedStatus' = "none"
    /\ doubted' = (doubted \/ \E t \in Tasks : Running(t))
    /\ UNCHANGED <<taskVars, dataVars, reset, resets, lost, control, writes, requests, clicks,
                   asked, raced, faults>>

StartOrStop(o, n) ==
    /\ page[o].load # "closed" /\ asked < MaxRequests /\ asked' = asked + 1
    /\ desired # n /\ desired' = n
    /\ UNCHANGED <<task, stopping, dataVars, controlVars, reset, resets, doubted, lost, page,
                   writes, requests, clicks, raced, faults>>

\* inject-drama and seed-baseline.
Request(o, what) ==
    /\ page[o].load # "closed" /\ asked < MaxRequests /\ asked' = asked + 1
    /\ what \notin requests /\ requests' = requests \cup {what}
    /\ PageRest /\ UNCHANGED <<controlVars, page, writes, clicks, raced, faults>>

\* They put their items one after the other; a failure leaves the first ones.
RequestPuts(what) ==
    /\ what \in requests
    /\ \/ Put(<<what, 1>>) /\ requests' \in {requests, requests \ {what}} /\ Sound
       \/ requests' = requests \ {what} /\ Fault /\ UNCHANGED <<tables, flight>>
    /\ UNCHANGED <<controlVars, taskVars, graph, lake, page, writes, clicks, asked, raced, reset,
                   resets, doubted, lost>>

\* The pipeline delivers one change, perhaps the last.
Arrive ==
    /\ flight /\ flight' \in BOOLEAN /\ graph' = TRUE /\ lake' = TRUE
    /\ UNCHANGED <<controlVars, taskVars, tables, pageVars, reset, resets, faults, doubted, lost>>

-----------------------------------------------------------------------------
(* The reset: each step's error is caught, and the next one follows *)

UnderWay == reset.pc \notin {"no", "done"}
ResetTo(pc) == reset' = [reset EXCEPT !.pc = pc]
ResetRest == UNCHANGED <<task, stopping, flight, resets, lost, page, writes, requests, clicks, asked>>

\* The page shows its settings on, although the item will be gone.
ResetDemo(o) ==
    /\ page[o].load # "closed" /\ reset.pc \in {"no", "done"} /\ resets < MaxResets
    /\ resets' = resets + 1 /\ ResetTo("pause") /\ raced' = Operators
    /\ UNCHANGED <<taskVars, dataVars, controlVars, page, writes, requests, clicks, asked, faults,
                   doubted, lost>>

\* It does not wait for the tasks to end.
Pause ==
    /\ reset.pc = "pause" /\ ResetTo("scan")
    /\ (desired' = 0 /\ Sound) \/ (desired' = desired /\ Fault)
    /\ ResetRest /\ UNCHANGED <<tables, graph, lake, controlVars, raced, doubted>>

\* (mutant) only the first page of a scan.
FirstPage == {CHOOSE i \in tables : TRUE}
AllKeys == tables

ScanTables ==
    /\ reset.pc = "scan"
    /\ \/ reset' = [pc |-> "delete", keys |-> IF tables = {} THEN {} ELSE AllKeys] /\ Sound
       \/ reset' = [pc |-> "delete", keys |-> {}] /\ Fault
    /\ ResetRest /\ UNCHANGED <<desired, tables, graph, lake, controlVars, raced, doubted>>

\* Batches of 25: an error leaves the later ones, and items a batch returns as
\* unprocessed are forgotten.
DeleteKeys ==
    /\ reset.pc = "delete" /\ reset' = [pc |-> "control", keys |-> {}]
    /\ \/ tables' = tables \ reset.keys /\ Sound
       \/ tables' \in {tables \ ks : ks \in SUBSET reset.keys} /\ Fault
    /\ ResetRest /\ UNCHANGED <<desired, graph, lake, controlVars, raced, doubted>>

\* demo-control is the last of the tables; a page that was opened again
\* meanwhile has read what now goes.
DeleteControl ==
    /\ reset.pc = "control" /\ ResetTo("graph") /\ raced' = Operators
    /\ \/ control' = NoItem /\ lock' = NoLock /\ seedStatus' = "none" /\ Sound
          /\ doubted' = (doubted \/ \E t \in Tasks : Running(t))
       \/ Fault /\ UNCHANGED <<controlVars, doubted>>
    /\ ResetRest /\ UNCHANGED <<desired, tables, graph, lake>>

DropGraph ==
    /\ reset.pc = "graph" /\ ResetTo("lake")
    /\ (graph' = FALSE /\ Sound) \/ (Fault /\ UNCHANGED graph)
    /\ ResetRest /\ UNCHANGED <<desired, tables, lake, controlVars, raced, doubted>>

\* DELETE FROM domain_events, which may fail or take longer than the minute
\* it is given.
ClearLake ==
    /\ reset.pc = "lake" /\ ResetTo("done")
    /\ (lake' = FALSE /\ Sound) \/ (Fault /\ UNCHANGED lake)
    /\ ResetRest /\ UNCHANGED <<desired, tables, graph, controlVars, raced, doubted>>

\* The Lambda's two minutes are over.
TimeOut ==
    /\ UnderWay /\ Fault /\ ResetTo("done")
    /\ ResetRest /\ UNCHANGED <<desired, tables, graph, lake, controlVars, raced, doubted>>

-----------------------------------------------------------------------------
ResetStep ==
    Pause \/ ScanTables \/ DeleteKeys \/ DeleteControl \/ DropGraph \/ ClearLake \/ TimeOut

PageStep(o) ==
    \/ Open(o) \/ ReadControl(o) \/ Loaded(o) \/ ClickMode(o) \/ ClickAuto(o) \/ PollSeed(o)
    \/ SetScenarioMode(o) \/ ForceUnlock(o) \/ ResetDemo(o)
    \/ \E n \in {0, 1} : StartOrStop(o, n)
    \/ \E what \in Requests : Request(o, what)

\* Somebody may write while the reset runs.
Busy == flight \/ writes # {} \/ requests # {} \/ \E t \in Tasks : Alive(t)
Watch == disturbed' = (disturbed \/ (UnderWay /\ (Busy \/ Busy' \/ faults' # faults)))

Next ==
    /\ \/ \E t \in Tasks : Launch(t) \/ TellToStop(t) \/ Kill(t) \/ AutoStop(t) \/ TaskStep(t)
       \/ Age \/ Arrive \/ ResetStep
       \/ \E o \in Operators : PageStep(o)
       \/ \E w \in writes : WriteControl(w) \/ WriteFails(w)
       \/ \E what \in requests : RequestPuts(what)
    /\ Watch

Spec == Init /\ [][Next]_demoVars

-----------------------------------------------------------------------------
\* The lock keeps runs apart through kills, stale locks and restarts, but for
\* what its two calls cannot do: two tasks are in a run at once only after
\* two of them read the lock before either put it, a run outlived the stale
\* limit, a call about the lock failed, or somebody unlocked or reset the
\* demo during a run (scenario_runner 24-66, 221-322).
RunsExclude ==
    ~doubted => \A t, u \in Tasks : (Running(t) /\ Running(u)) => t = u

\* A seeding that is reported as completed is never repeated: everything it
\* should have put is there, but for the puts that failed, unless a reset
\* met a running system.
SeedCompletedIsThere ==
    (seedStatus = "COMPLETED" /\ ~disturbed /\ ~UnderWay) => Items("seed") \subseteq tables \cup lost

\* A page that nothing raced with shows the settings the generators obey,
\* those it left alone included.
PageIsRight ==
    \A o \in Operators \ raced :
        (page[o].load = "done" /\ writes = {}) =>
            Read(control) = [mode |-> page[o].mode, auto |-> page[o].auto]

\* A reset of a system that is at rest leaves nothing behind.
QuietResetCleans ==
    [][(ClearLake /\ ~disturbed') =>
        /\ tables' = {} /\ ~graph' /\ ~lake'
        /\ control' = NoItem /\ lock' = NoLock /\ seedStatus' = "none"]_demoVars
=============================================================================
