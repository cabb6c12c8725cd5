------------------------- MODULE DemoControl_proofs -------------------------
(***************************************************************************)
(* The scenario lock, the seeding, the settings pages and the reset, for   *)
(* every number of tasks, pages, clicks, items, faults and resets.         *)
(*                                                                         *)
(* Runs exclude each other as long as every answer about the lock could be *)
(* relied on: at most one task decides to run or runs, and while it runs   *)
(* the lock is exactly as old as the run, so it is not found stale before  *)
(* the run has ended or outlived it.  A seeding is what its runs have put  *)
(* so far; a page is its own last click; a reset is what its steps have    *)
(* emptied so far.                                                         *)
(***************************************************************************)
EXTENDS DemoControl, FiniteSetTheorems, TLAPS

\* Where a container is in the scheduler's loop.
TaskStates == {"off", "tick", "seeded?", "locked?", "clear", "take", "mark", "run", "release"}
TaskRecords == [pc : TaskStates, what : {"seed", "live"}, both : BOOLEAN, done : Nat, spent : Nat]

TaskTypes == task \in [Tasks -> TaskRecords] /\ doubted \in BOOLEAN

\* While a task runs, the lock is its own and not stale; and no other task
\* runs or is about to.
LockIsItsOwn ==
    \A t \in Tasks : Running(t) => lock = task[t].spent /\ task[t].spent <= StaleAfter
Holds(t) == Deciding(t) \/ Running(t)
OneHolds == \A t, u \in Tasks : (Holds(t) /\ Holds(u)) => t = u

RunsInv == ~doubted => LockIsItsOwn /\ OneHolds

\* A task's record with another pc.
LEMMA PcChange ==
    ASSUME TaskTypes, NEW t \in Tasks, NEW pc \in TaskStates, Go(t, pc)
    PROVE  /\ task' \in [Tasks -> TaskRecords]
           /\ task'[t].pc = pc /\ task'[t].spent = task[t].spent
           /\ \A u \in Tasks : u # t => task'[u] = task[u]
<1>1. [task[t] EXCEPT !.pc = pc] \in TaskRecords BY DEF TaskTypes, TaskRecords
<1> QED BY <1>1 DEF TaskTypes, Go, TaskRecords

\* A task's record replaced.
LEMMA RecordChange ==
    ASSUME TaskTypes, NEW t \in Tasks, NEW r \in TaskRecords, task' = [task EXCEPT ![t] = r]
    PROVE  /\ task' \in [Tasks -> TaskRecords] /\ task'[t] = r
           /\ \A u \in Tasks : u # t => task'[u] = task[u]
BY DEF TaskTypes

\* A step that begins no run and neither touches the lock nor the time.
LEMMA RunsKept ==
    ASSUME RunsInv, doubted => doubted', lock' = lock,
           \A t \in Tasks : Holds(t)' => Holds(t),
           \A t \in Tasks : Running(t)' => Running(t) /\ task'[t].spent = task[t].spent
    PROVE  RunsInv'
BY DEF RunsInv, LockIsItsOwn, OneHolds

\* A step that moves one task, not towards a run.
LEMMA OneStops ==
    ASSUME TaskTypes, RunsInv, doubted => doubted', lock' = lock, NEW t \in Tasks, ~Holds(t)',
           \A u \in Tasks : u # t => task'[u] = task[u]
    PROVE  RunsInv'
<1>1. \A u \in Tasks : Running(u)' => Running(u) /\ task'[u].spent = task[u].spent
  BY DEF Holds, Running
<1>2. \A u \in Tasks : Holds(u)' => Holds(u) BY DEF Holds, Running, Deciding
<1> QED BY <1>1, <1>2, RunsKept

\* When the lock may change although nobody is in a run.
LEMMA NobodyRuns ==
    ASSUME doubted' \/ (OneHolds' /\ \A t \in Tasks : ~Running(t)')
    PROVE  RunsInv'
BY DEF RunsInv, LockIsItsOwn

\* Both facts in one place: what every step does to the tasks and the lock.
LEMMA ServiceStep ==
    ASSUME TaskTypes, RunsInv, NEW t \in Tasks,
           Launch(t) \/ TellToStop(t) \/ Kill(t) \/ AutoStop(t)
    PROVE  TaskTypes' /\ RunsInv'
<1>1. Off \in TaskRecords /\ [Off EXCEPT !.pc = "tick"] \in TaskRecords
  BY DEF Off, TaskRecords, TaskStates
<1>2. lock' = lock /\ doubted' = doubted
  BY DEF Launch, TellToStop, Kill, AutoStop, controlVars
<1>3. CASE TellToStop(t)
  <2>1. task' = task BY <1>3 DEF TellToStop
  <2> QED BY <1>2, <2>1, RunsKept DEF TaskTypes, Running, Deciding, Holds
<1>4. CASE Launch(t)
  <2> DEFINE r == [Off EXCEPT !.pc = "tick"]
  <2>1. task' = [task EXCEPT ![t] = r] BY <1>4 DEF Launch
  <2>2. r \in TaskRecords /\ r.pc = "tick" BY <1>1 DEF Off
  <2> HIDE DEF r
  <2>3. /\ task' \in [Tasks -> TaskRecords] /\ task'[t] = r
        /\ \A u \in Tasks : u # t => task'[u] = task[u]
    BY <2>1, <2>2, RecordChange
  <2>4. ~Holds(t)' BY <2>2, <2>3 DEF Holds, Running, Deciding
  <2> QED BY <1>2, <2>3, <2>4, OneStops DEF TaskTypes
<1>5. CASE Kill(t) \/ AutoStop(t)
  <2>1. task' = [task EXCEPT ![t] = Off] BY <1>5 DEF Kill, AutoStop
  <2>2. /\ task' \in [Tasks -> TaskRecords] /\ task'[t] = Off
        /\ \A u \in Tasks : u # t => task'[u] = task[u]
    BY <1>1, <2>1, RecordChange
  <2>3. ~Holds(t)' BY <2>2 DEF Holds, Running, Deciding, Off
  <2> QED BY <1>2, <2>2, <2>3, OneStops DEF TaskTypes
<1> QED BY <1>3, <1>4, <1>5

\* The loop up to the lock: the task is not in a run and does not begin one.
LEMMA LoopStep ==
    ASSUME TaskTypes, RunsInv, NEW t \in Tasks, ReadMode(t) \/ CheckSeed(t)
    PROVE  TaskTypes' /\ RunsInv'
<1>1. lock' = lock /\ doubted' = doubted BY DEF ReadMode, CheckSeed, controlVars
<1>2. CASE ReadMode(t)
  <2>1. \/ task' = task
        \/ \E pc \in {"seeded?", "locked?"}, what \in {"seed", "live"}, both \in BOOLEAN :
                Begin(t, pc, what, both)
    <3>1. PICK m \in {Read(control).mode, "DRAMA"} :
            CASE m = "SEED SCENARIO" -> Begin(t, "seeded?", "seed", FALSE)
              [] m = "PLAY SCENARIO" -> Begin(t, "locked?", "live", FALSE)
              [] m = "SCENARIO" -> Begin(t, "locked?", "seed", TRUE)
              [] OTHER -> task' = task
      BY <1>2 DEF ReadMode
    <3>2. \/ Begin(t, "seeded?", "seed", FALSE) \/ Begin(t, "locked?", "live", FALSE)
          \/ Begin(t, "locked?", "seed", TRUE) \/ task' = task
      BY <3>1
    <3> QED BY <3>2
  <2>2. CASE task' = task BY <1>1, <2>2, RunsKept DEF TaskTypes, Running, Deciding, Holds
  <2>3. ASSUME NEW pc \in {"seeded?", "locked?"}, NEW what \in {"seed", "live"},
               NEW both \in BOOLEAN, Begin(t, pc, what, both)
        PROVE  TaskTypes' /\ RunsInv'
    <3> DEFINE r == [task[t] EXCEPT !.pc = pc, !.what = what, !.both = both]
    <3>1. task' = [task EXCEPT ![t] = r] BY <2>3 DEF Begin
    <3>2. r \in TaskRecords /\ r.pc = pc BY DEF TaskTypes, TaskRecords, TaskStates
    <3> HIDE DEF r
    <3>3. /\ task' \in [Tasks -> TaskRecords] /\ task'[t] = r
          /\ \A u \in Tasks : u # t => task'[u] = task[u]
      BY <3>1, <3>2, RecordChange
    <3>4. ~Holds(t)' BY <3>2, <3>3 DEF Holds, Running, Deciding
    <3> QED BY <1>1, <3>3, <3>4, OneStops DEF TaskTypes
  <2> QED BY <2>1, <2>2, <2>3
<1>3. CASE CheckSeed(t)
  <2>1. PICK pc \in {"tick", "locked?"} : Go(t, pc) BY <1>3 DEF CheckSeed
  <2>2. pc \in TaskStates BY DEF TaskStates
  <2>3. /\ task' \in [Tasks -> TaskRecords] /\ task'[t].pc = pc
        /\ \A u \in Tasks : u # t => task'[u] = task[u]
    BY <2>1, <2>2, PcChange
  <2>4. ~Holds(t)' BY <2>3 DEF Holds, Running, Deciding
  <2> QED BY <1>1, <2>3, <2>4, OneStops DEF TaskTypes
<1> QED BY <1>2, <1>3

\* Who finds no lock, or a stale one, meets nobody in a run: a run's lock is
\* as old as the run.  And it is the only one to have looked, or that is known.
LEMMA LockChecked ==
    ASSUME TaskTypes, RunsInv, NEW t \in Tasks, CheckLock(t)
    PROVE  TaskTypes' /\ RunsInv'
<1>1. PICK pc \in {"tick", "clear", "take"} : Go(t, pc) BY DEF CheckLock
<1>2. /\ task' \in [Tasks -> TaskRecords] /\ task'[t].pc = pc
      /\ \A u \in Tasks : u # t => task'[u] = task[u]
  BY <1>1, PcChange DEF TaskStates
<1>3. lock' = lock /\ ~Running(t)' BY <1>2 DEF Running, CheckLock, controlVars
<1>4. CASE lock # NoLock /\ ~IsStale(lock) /\ Go(t, "tick") /\ UNCHANGED doubted
  <2>1. task'[t].pc = "tick" BY <1>4, PcChange DEF TaskStates
  <2>2. ~Holds(t)' BY <2>1 DEF Holds, Running, Deciding
  <2> QED BY <1>2, <1>3, <1>4, <2>2, OneStops DEF TaskTypes
<1>5. CASE doubted' = TRUE BY <1>2, <1>5, NobodyRuns DEF TaskTypes
<1>6. CASE /\ lock = NoLock \/ IsStale(lock)
           /\ doubted' = (doubted \/ \E u \in Tasks : Deciding(u))
  <2>1. doubted' \in BOOLEAN BY <1>6 DEF TaskTypes
  <2>2. ASSUME ~doubted' PROVE OneHolds' /\ \A u \in Tasks : ~Running(u)'
    <3>1. ~doubted /\ \A u \in Tasks : ~Deciding(u) BY <1>6, <2>2
    <3>2. ASSUME NEW u \in Tasks, Running(u) PROVE FALSE
      <4>1. lock = task[u].spent /\ task[u].spent <= StaleAfter
        BY <3>1, <3>2 DEF RunsInv, LockIsItsOwn
      <4>2. task[u].spent \in Nat BY <3>2 DEF TaskTypes, TaskRecords
      <4> QED BY <1>6, <4>1, <4>2, DemoAssumption DEF IsStale, NoLock
    <3>3. \A u \in Tasks : ~Running(u)' BY <1>2, <1>3, <3>2 DEF Running
    <3>4. \A u \in Tasks : Holds(u)' => u = t
      BY <1>2, <3>1, <3>2 DEF Holds, Running, Deciding
    <3> QED BY <3>3, <3>4 DEF OneHolds
  <2> QED BY <1>2, <2>1, <2>2, NobodyRuns DEF TaskTypes
<1> QED BY <1>4, <1>5, <1>6 DEF CheckLock

\* The only one to decide clears the stale lock.
LEMMA LockCleared ==
    ASSUME TaskTypes, RunsInv, NEW t \in Tasks, ClearStale(t)
    PROVE  TaskTypes' /\ RunsInv'
<1>1. Go(t, "take") /\ Deciding(t) /\ ~Running(t) /\ (doubted' = doubted \/ doubted' = TRUE)
  BY DEF ClearStale, At, Deciding, Running
<1>2. /\ task' \in [Tasks -> TaskRecords] /\ task'[t].pc = "take"
      /\ \A u \in Tasks : u # t => task'[u] = task[u]
  BY <1>1, PcChange DEF TaskStates
<1>3. ASSUME ~doubted' PROVE OneHolds' /\ \A u \in Tasks : ~Running(u)'
  <2>1. \A u \in Tasks : Holds(u) => u = t BY <1>1, <1>3 DEF RunsInv, OneHolds, Holds
  <2>2. \A u \in Tasks : Holds(u)' => u = t
    BY <1>2, <2>1 DEF Holds, Running, Deciding
  <2>3. ~Running(t)' BY <1>2 DEF Running
  <2> QED BY <2>2, <2>3 DEF OneHolds, Holds
<1> QED BY <1>1, <1>2, <1>3, NobodyRuns DEF TaskTypes

\* A run begins under its own lock and starts its clock; nobody else is near.
LEMMA LockTaken ==
    ASSUME TaskTypes, RunsInv, NEW t \in Tasks, TakeLock(t)
    PROVE  TaskTypes' /\ RunsInv'
<1>1. PICK pc \in {"mark", "run"} :
        task' = [task EXCEPT ![t] = [task[t] EXCEPT !.done = 0, !.spent = 0, !.pc = pc]]
  BY DEF TakeLock
<1> DEFINE r == [task[t] EXCEPT !.done = 0, !.spent = 0, !.pc = pc]
<1>2. r \in TaskRecords /\ r.spent = 0 BY DEF TaskTypes, TaskRecords, TaskStates
<1> HIDE DEF r
<1>3. /\ task' \in [Tasks -> TaskRecords] /\ task'[t] = r
      /\ \A u \in Tasks : u # t => task'[u] = task[u]
  BY <1>1, <1>2, RecordChange DEF r
<1>4. doubted' \in BOOLEAN /\ Deciding(t) BY DEF TakeLock, TaskTypes, Deciding, At
<1>5. ASSUME ~doubted' PROVE RunsInv'
  <2>1. lock' = 0 /\ ~doubted BY <1>5 DEF TakeLock
  <2>2. \A u \in Tasks : Holds(u) => u = t BY <1>4, <2>1 DEF RunsInv, OneHolds, Holds
  <2>3. \A u \in Tasks : Holds(u)' => u = t BY <1>3, <2>2 DEF Holds, Running, Deciding
  <2>4. 0 <= StaleAfter BY DemoAssumption
  <2>5. LockIsItsOwn' BY <1>2, <1>3, <2>1, <2>3, <2>4 DEF LockIsItsOwn, Holds
  <2> QED BY <2>3, <2>5 DEF RunsInv, OneHolds
<1>6. ASSUME doubted' PROVE RunsInv' BY <1>6, NobodyRuns
<1> QED BY <1>3, <1>4, <1>5, <1>6 DEF TaskTypes

\* The steps of a run keep its clock.
LEMMA RunStep ==
    ASSUME TaskTypes, RunsInv, NEW t \in Tasks, Mark(t) \/ PutItem(t) \/ Complete(t)
    PROVE  TaskTypes' /\ RunsInv'
<1>1. lock' = lock /\ doubted' = doubted /\ Running(t)
  BY DEF Mark, PutItem, Complete, At, Running
<1>2. /\ task' \in [Tasks -> TaskRecords] /\ task'[t].spent = task[t].spent
      /\ \A u \in Tasks : u # t => task'[u] = task[u]
  <2>1. CASE \E pc \in {"run", "release"} : Go(t, pc) BY <2>1, PcChange DEF TaskStates
  <2>2. CASE PutItem(t)
    <3>1. task' = [task EXCEPT ![t] = [task[t] EXCEPT !.done = task[t].done + 1]]
      BY <2>2 DEF PutItem
    <3> DEFINE r == [task[t] EXCEPT !.done = task[t].done + 1]
    <3>2. r \in TaskRecords /\ r.spent = task[t].spent BY DEF TaskTypes, TaskRecords
    <3> HIDE DEF r
    <3> QED BY <3>1, <3>2, RecordChange DEF r
  <2>3. CASE task' = [task EXCEPT ![t] = [task[t] EXCEPT !.what = "live", !.done = 0]]
    <3> DEFINE r == [task[t] EXCEPT !.what = "live", !.done = 0]
    <3>1. r \in TaskRecords /\ r.spent = task[t].spent BY DEF TaskTypes, TaskRecords
    <3> HIDE DEF r
    <3> QED BY <2>3, <3>1, RecordChange DEF r
  <2> QED BY <2>1, <2>2, <2>3 DEF Mark, Complete
<1>3. \A u \in Tasks : Running(u)' => Running(u) /\ task'[u].spent = task[u].spent
  BY <1>1, <1>2 DEF Running
<1>4. \A u \in Tasks : Holds(u)' => Holds(u) BY <1>1, <1>2 DEF Holds, Running, Deciding
<1> QED BY <1>1, <1>2, <1>3, <1>4, RunsKept DEF TaskTypes

\* Whoever releases the lock was the only one to run.
LEMMA LockReleased ==
    ASSUME TaskTypes, RunsInv, NEW t \in Tasks, Release(t)
    PROVE  TaskTypes' /\ RunsInv'
<1>1. Go(t, "tick") /\ Running(t) /\ doubted' = doubted BY DEF Release, At, Running
<1>2. /\ task' \in [Tasks -> TaskRecords] /\ task'[t].pc = "tick"
      /\ \A u \in Tasks : u # t => task'[u] = task[u]
  BY <1>1, PcChange DEF TaskStates
<1>3. ASSUME ~doubted PROVE OneHolds' /\ \A u \in Tasks : ~Running(u)'
  <2>1. \A u \in Tasks : Holds(u) => u = t BY <1>1, <1>3 DEF RunsInv, OneHolds, Holds
  <2>2. ASSUME NEW u \in Tasks PROVE ~Holds(u)'
    BY <1>2, <2>1 DEF Holds, Running, Deciding
  <2> QED BY <2>2 DEF OneHolds, Holds
<1> QED BY <1>1, <1>2, <1>3, NobodyRuns DEF TaskTypes

\* The lock and the run that holds it grow old together; a run that outlives
\* the limit is known.
LEMMA Aged ==
    ASSUME TaskTypes, RunsInv, Age
    PROVE  TaskTypes' /\ RunsInv'
<1>1. /\ lock' = lock + 1 /\ doubted' \in BOOLEAN /\ (doubted => doubted')
      /\ task' = [t \in Tasks |-> IF Running(t) THEN [task[t] EXCEPT !.spent = @ + 1] ELSE task[t]]
  BY DEF Age, TaskTypes
<1>2. ASSUME NEW t \in Tasks
      PROVE  /\ task'[t] \in TaskRecords
             /\ (Running(t)' <=> Running(t)) /\ (Holds(t)' <=> Holds(t))
             /\ Running(t) => task'[t].spent = task[t].spent + 1
  <2>1. task[t] \in TaskRecords BY DEF TaskTypes
  <2>2. CASE ~Running(t) BY <1>1, <2>1, <2>2 DEF Running, Holds, Deciding
  <2>3. CASE Running(t)
    <3> DEFINE r == [task[t] EXCEPT !.spent = task[t].spent + 1]
    <3>1. r \in TaskRecords /\ r.spent = task[t].spent + 1 /\ r.pc = task[t].pc
      BY <2>1 DEF TaskRecords
    <3>2. task'[t] = r BY <1>1, <2>3
    <3> HIDE DEF r
    <3> QED BY <2>3, <3>1, <3>2 DEF Running, Holds, Deciding
  <2> QED BY <2>2, <2>3
<1>3. task' \in [Tasks -> TaskRecords]
  <2>1. DOMAIN task' = Tasks BY <1>1
  <2>2. task' = [t \in Tasks |-> task'[t]] BY <1>1
  <2> QED BY <1>2, <2>2
<1>4. RunsInv'
  <2> SUFFICES ASSUME ~doubted' PROVE LockIsItsOwn' /\ OneHolds' BY DEF RunsInv
  <2>1. LockIsItsOwn'
    <3> SUFFICES ASSUME NEW t \in Tasks, Running(t)
                 PROVE  lock' = task'[t].spent /\ task'[t].spent <= StaleAfter
      BY <1>2 DEF LockIsItsOwn
    <3>1. task[t].spent \in Nat BY DEF TaskTypes, TaskRecords
    <3>2. lock = task[t].spent BY <1>1 DEF RunsInv, LockIsItsOwn
    <3>3. task'[t].spent = task[t].spent + 1 BY <1>2
    <3>4. ~(task'[t].spent > StaleAfter) BY DEF Age, Outlived
    <3> QED BY <1>1, <3>1, <3>2, <3>3, <3>4, DemoAssumption
  <2>2. OneHolds' BY <1>1, <1>2 DEF RunsInv, OneHolds
  <2> QED BY <2>1, <2>2
<1> QED BY <1>1, <1>3, <1>4 DEF TaskTypes

\* The pages, the requests, the pipeline and the reset move no task, and where
\* they touch the lock during a run they say so.
LEMMA OthersStep ==
    ASSUME TaskTypes, RunsInv, task' = task, doubted' \in BOOLEAN, doubted => doubted',
           lock' = lock \/ doubted' = (doubted \/ \E t \in Tasks : Running(t))
    PROVE  TaskTypes' /\ RunsInv'
<1>1. CASE lock' = lock BY <1>1, RunsKept DEF TaskTypes, Running, Holds, Deciding
<1>2. CASE doubted' = (doubted \/ \E t \in Tasks : Running(t))
  <2>1. ~doubted' => OneHolds' /\ \A t \in Tasks : ~Running(t)'
    BY <1>2 DEF RunsInv, OneHolds, Holds, Running, Deciding
  <2> QED BY <2>1, NobodyRuns DEF TaskTypes
<1> QED BY <1>1, <1>2

LEMMA PageSteps ==
    ASSUME TaskTypes, RunsInv, NEW o \in Operators, PageStep(o)
    PROVE  TaskTypes' /\ RunsInv'
<1>1. /\ task' = task
      /\ \/ lock' = lock /\ doubted' = doubted
         \/ doubted' = (doubted \/ \E t \in Tasks : Running(t))
  <2>1. CASE \/ Open(o) \/ ReadControl(o) \/ Loaded(o) \/ PollSeed(o) \/ ResetDemo(o)
             \/ \E n \in {0, 1} : StartOrStop(o, n) \/ \E what \in Requests : Request(o, what)
    BY <2>1 DEF Open, ReadControl, Loaded, PollSeed, ResetDemo, StartOrStop, Request, PageRest,
       taskVars, controlVars
  <2>2. CASE ClickMode(o) \/ ClickAuto(o)
    BY <2>2 DEF ClickMode, ClickAuto, Click, PageRest, taskVars, controlVars
  <2>3. CASE ForceUnlock(o) BY <2>3 DEF ForceUnlock, taskVars
  <2>4. CASE SetScenarioMode(o) BY <2>4 DEF SetScenarioMode, PageRest, taskVars, controlVars
  <2> QED BY <2>1, <2>2, <2>3, <2>4 DEF PageStep
<1> QED BY <1>1, OthersStep DEF TaskTypes

LEMMA QuietSteps ==
    ASSUME TaskTypes, RunsInv,
           \/ Arrive \/ ResetStep \/ UNCHANGED demoVars
           \/ \E w \in writes : WriteControl(w) \/ WriteFails(w)
           \/ \E what \in requests : RequestPuts(what)
    PROVE  TaskTypes' /\ RunsInv'
<1>1. /\ task' = task
      /\ \/ lock' = lock /\ doubted' = doubted
         \/ doubted' = (doubted \/ \E t \in Tasks : Running(t))
  <2>1. CASE Arrive \/ UNCHANGED demoVars
    BY <2>1 DEF Arrive, demoVars, taskVars, controlVars
  <2>2. CASE \E w \in writes : WriteControl(w) \/ WriteFails(w)
    BY <2>2 DEF WriteControl, WriteFails, PageRest, taskVars, controlVars
  <2>3. CASE \E what \in requests : RequestPuts(what)
    BY <2>3 DEF RequestPuts, taskVars, controlVars
  <2>4. CASE ResetStep
    BY <2>4 DEF ResetStep, Pause, ScanTables, DeleteKeys, DeleteControl, DropGraph, ClearLake,
       TimeOut, ResetRest, controlVars
  <2> QED BY <2>1, <2>2, <2>3, <2>4
<1> QED BY <1>1, OthersStep DEF TaskTypes

LEMMA RunsInductive ==
    TaskTypes /\ RunsInv /\ [Next]_demoVars => TaskTypes' /\ RunsInv'
<1> SUFFICES ASSUME TaskTypes, RunsInv, [Next]_demoVars PROVE TaskTypes' /\ RunsInv'
  OBVIOUS
<1>1. CASE \E t \in Tasks : Launch(t) \/ TellToStop(t) \/ Kill(t) \/ AutoStop(t)
  BY <1>1, ServiceStep
<1>2. CASE \E t \in Tasks : TaskStep(t)
  BY <1>2, LoopStep, LockChecked, LockCleared, LockTaken, RunStep, LockReleased DEF TaskStep
<1>3. CASE Age BY <1>3, Aged
<1>4. CASE \E o \in Operators : PageStep(o) BY <1>4, PageSteps
<1>5. CASE \/ Arrive \/ ResetStep \/ UNCHANGED demoVars
           \/ \E w \in writes : WriteControl(w) \/ WriteFails(w)
           \/ \E what \in requests : RequestPuts(what)
  BY <1>5, QuietSteps
<1> QED BY <1>1, <1>2, <1>3, <1>4, <1>5 DEF Next

\* Two runs of the generator overlap only after two containers looked at the
\* lock before either put it, a run outlived the stale limit, a call about the
\* lock failed, or it was taken away during a run; whatever else the tasks,
\* the pages and the reset do, for every length of a run.
THEOREM LockExcludes == Spec => []RunsExclude
<1>1. Init => TaskTypes /\ RunsInv
  <2> SUFFICES ASSUME Init PROVE TaskTypes /\ RunsInv OBVIOUS
  <2>1. task = [t \in Tasks |-> Off] /\ doubted = FALSE BY DEF Init
  <2>2. Off \in TaskRecords BY DEF Off, TaskRecords, TaskStates
  <2>3. \A t \in Tasks : ~Holds(t) BY <2>1 DEF Off, Holds, Running, Deciding
  <2> QED BY <2>1, <2>2, <2>3 DEF TaskTypes, RunsInv, LockIsItsOwn, OneHolds, Holds
<1>2. TaskTypes /\ RunsInv => RunsExclude BY DEF RunsInv, OneHolds, Holds, RunsExclude
<1> QED BY <1>1, <1>2, RunsInductive, PTL DEF Spec

-----------------------------------------------------------------------------
(* The reset *)

\* From the scan on.
Stages == {"scan", "delete", "control", "graph", "lake"}

ResetTypes == faults \in Nat /\ reset = [pc |-> reset.pc, keys |-> reset.keys]

\* What the steps so far have removed.
CleanSoFar ==
    /\ reset.pc = "delete" => reset.keys = tables
    /\ reset.pc \in {"control", "graph", "lake"} => tables = {}
    /\ reset.pc \in {"graph", "lake"} => control = NoItem /\ lock = NoLock /\ seedStatus = "none"
    /\ reset.pc = "lake" => graph = FALSE

\* As long as nothing disturbs the reset, nobody is there who could write.
ResetInv == ResetTypes /\ ((~disturbed /\ reset.pc \in Stages) => ~Busy /\ CleanSoFar)

\* What a step besides the reset's own may do while nobody can write.
Harmless ==
    /\ reset' = reset /\ tables' = tables /\ graph' = graph /\ control' = control
    /\ seedStatus' \in {seedStatus, "none"}
    /\ lock = NoLock => lock' = NoLock

\* Every step counts its failure or has none.
LEMMA FaultsCount ==
    ASSUME ResetTypes, [Next]_demoVars
    PROVE  faults' \in Nat
<1>1. faults' = faults \/ faults' = faults + 1
  <2>1. CASE \E t \in Tasks : Launch(t) \/ TellToStop(t) \/ Kill(t) \/ AutoStop(t)
    BY <2>1 DEF Launch, TellToStop, Kill, AutoStop, Fault, Sound
  <2>2. ASSUME NEW t \in Tasks, TaskStep(t) PROVE faults' = faults \/ faults' = faults + 1
    <3>1. CASE ReadMode(t) \/ CheckSeed(t) \/ CheckLock(t) \/ ClearStale(t) \/ TakeLock(t)
      BY <3>1 DEF ReadMode, CheckSeed, CheckLock, ClearStale, TakeLock, Fault, Sound
    <3>2. CASE Mark(t) \/ PutItem(t) \/ Complete(t) \/ Release(t)
      BY <3>2 DEF Mark, PutItem, Complete, Release, WriteStatus, Fault, Sound
    <3> QED BY <2>2, <3>1, <3>2 DEF TaskStep
  <2>3. CASE Age \/ Arrive \/ UNCHANGED demoVars BY <2>3 DEF Age, Arrive, demoVars
  <2>4. CASE ResetStep
    BY <2>4 DEF ResetStep, Pause, ScanTables, DeleteKeys, DeleteControl, DropGraph, ClearLake,
       TimeOut, Fault, Sound
  <2>5. ASSUME NEW o \in Operators, PageStep(o) PROVE faults' = faults
    BY <2>5 DEF PageStep, Open, ReadControl, Loaded, ClickMode, ClickAuto, Click, SetScenarioMode,
       PollSeed, ForceUnlock, ResetDemo, StartOrStop, Request
  <2>6. CASE \/ \E w \in writes : WriteControl(w) \/ WriteFails(w)
             \/ \E what \in requests : RequestPuts(what)
    BY <2>6 DEF WriteControl, WriteFails, RequestPuts, Fault, Sound
  <2> QED BY <2>1, <2>2, <2>3, <2>4, <2>5, <2>6 DEF Next
<1> QED BY <1>1 DEF ResetTypes

\* A step that leaves an unfinished reset undisturbed met nobody and failed
\* in nothing.
LEMMA Undisturbed ==
    ASSUME UnderWay, Watch, ~disturbed'
    PROVE  ~disturbed /\ ~Busy /\ ~Busy' /\ faults' = faults
BY DEF Watch

\* While nobody is busy, whatever is not a step of the reset is harmless.
LEMMA OthersHarmless ==
    ASSUME Next, ~ResetStep, ~Busy, ~Busy', UnderWay
    PROVE  Harmless
<1>1. CASE \E t \in Tasks : Launch(t) \/ TellToStop(t) \/ Kill(t) \/ AutoStop(t) \/ TaskStep(t)
  <2>1. PICK t \in Tasks : Launch(t) \/ TellToStop(t) \/ Kill(t) \/ AutoStop(t) \/ TaskStep(t)
    BY <1>1
  <2>2. ~Alive(t) BY DEF Busy
  <2>3. CASE Launch(t)
    <3>1. ~Alive(t)' BY DEF Busy
    <3> QED BY <2>2, <2>3, <3>1 DEF Launch, dataVars, controlVars, Harmless
  <2>4. CASE TaskStep(t)
    BY <2>2, <2>4 DEF TaskStep, ReadMode, CheckSeed, CheckLock, ClearStale, TakeLock, Mark, PutItem,
       Complete, Release, At, Alive
  <2> QED BY <2>1, <2>2, <2>3, <2>4 DEF TellToStop, Kill, AutoStop
<1>2. CASE Age
  BY <1>2 DEF Age, TaskRest, NoLock, Harmless
<1>3. CASE \/ Arrive \/ \E w \in writes : WriteControl(w) \/ WriteFails(w)
           \/ \E what \in requests : RequestPuts(what)
  BY <1>3 DEF Arrive, Busy
<1>4. ASSUME NEW o \in Operators, PageStep(o) PROVE Harmless
  <2>1. CASE Open(o) \/ ReadControl(o) \/ Loaded(o) \/ PollSeed(o)
    BY <2>1 DEF Open, ReadControl, Loaded, PollSeed, PageRest, dataVars, controlVars, Harmless
  <2>2. CASE ClickMode(o) \/ ClickAuto(o) \/ SetScenarioMode(o)
    BY <2>2 DEF ClickMode, ClickAuto, Click, SetScenarioMode, PageRest, dataVars, controlVars,
       Harmless
  <2>3. CASE ForceUnlock(o) BY <2>3 DEF ForceUnlock, dataVars, Harmless
  <2>4. CASE ResetDemo(o) BY <2>4 DEF ResetDemo, UnderWay
  <2>5. CASE \/ \E n \in {0, 1} : StartOrStop(o, n) \/ \E what \in Requests : Request(o, what)
    BY <2>5 DEF StartOrStop, Request, PageRest, dataVars, controlVars, Harmless
  <2> QED BY <1>4, <2>1, <2>2, <2>3, <2>4, <2>5 DEF PageStep
<1> QED BY <1>1, <1>2, <1>3, <1>4 DEF Next

\* All that the others do to the reset is to begin it.
LEMMA ResetKept ==
    ASSUME Next, ~ResetStep, ResetTypes
    PROVE  reset' = reset \/ reset' = [pc |-> "pause", keys |-> reset.keys]
<1>1. CASE \E t \in Tasks : Launch(t) \/ TellToStop(t) \/ Kill(t) \/ AutoStop(t)
  BY <1>1 DEF Launch, TellToStop, Kill, AutoStop
<1>2. CASE \E t \in Tasks : TaskStep(t)
  BY <1>2 DEF TaskStep, ReadMode, CheckSeed, CheckLock, ClearStale, TakeLock, Mark, PutItem,
     Complete, Release, TaskRest
<1>3. CASE Age \/ Arrive BY <1>3 DEF Age, Arrive, TaskRest
<1>5. ASSUME NEW o \in Operators, PageStep(o)
      PROVE  reset' = reset \/ reset' = [pc |-> "pause", keys |-> reset.keys]
  <2>1. CASE ResetDemo(o) BY <2>1 DEF ResetDemo, ResetTo, ResetTypes
  <2> QED BY <1>5, <2>1 DEF PageStep, Open, ReadControl, Loaded, ClickMode, ClickAuto, Click,
          SetScenarioMode, PollSeed, ForceUnlock, StartOrStop, Request, PageRest
<1>6. CASE \/ \E w \in writes : WriteControl(w) \/ WriteFails(w)
           \/ \E what \in requests : RequestPuts(what)
  BY <1>6 DEF WriteControl, WriteFails, RequestPuts, PageRest
<1> QED BY <1>1, <1>2, <1>3, <1>5, <1>6 DEF Next

\* The reset's own steps, when they do not fail, each remove their part.
LEMMA ResetCleans ==
    ASSUME ResetTypes, ResetStep, faults' = faults, ~Busy,
           reset.pc \in Stages => CleanSoFar
    PROVE  reset'.pc \in Stages => CleanSoFar'
<1>1. ~Fault BY DEF Fault, ResetTypes
<1>2. \A pc : ResetTo(pc) => reset' = [pc |-> pc, keys |-> reset.keys]
  BY DEF ResetTo, ResetTypes
<1>3. CASE Pause
  <2>1. reset'.pc = "scan" BY <1>2, <1>3 DEF Pause
  <2> QED BY <2>1 DEF CleanSoFar
<1>4. CASE ScanTables
  <2>1. reset' = [pc |-> "delete", keys |-> tables] /\ tables' = tables
    BY <1>1, <1>4 DEF ScanTables, AllKeys
  <2> QED BY <2>1 DEF CleanSoFar
<1>5. CASE DeleteKeys
  <2>1. reset' = [pc |-> "control", keys |-> {}] /\ tables' = tables \ reset.keys
        /\ reset.pc = "delete"
    BY <1>1, <1>5 DEF DeleteKeys
  <2>2. tables' = {} BY <2>1 DEF CleanSoFar, Stages
  <2> QED BY <2>1, <2>2 DEF CleanSoFar
<1>6. CASE DeleteControl
  <2>1. /\ reset.pc = "control" /\ reset'.pc = "graph" /\ tables' = tables
        /\ control' = NoItem /\ lock' = NoLock /\ seedStatus' = "none"
    BY <1>1, <1>2, <1>6 DEF DeleteControl
  <2> QED BY <2>1 DEF CleanSoFar, Stages
<1>7. CASE DropGraph
  <2>1. /\ reset.pc = "graph" /\ reset'.pc = "lake" /\ tables' = tables /\ graph' = FALSE
        /\ control' = control /\ lock' = lock /\ seedStatus' = seedStatus
    BY <1>1, <1>2, <1>7 DEF DropGraph, controlVars
  <2> QED BY <2>1 DEF CleanSoFar, Stages
<1>8. CASE ClearLake \/ TimeOut
  <2>1. reset'.pc = "done" BY <1>2, <1>8 DEF ClearLake, TimeOut
  <2> QED BY <2>1 DEF Stages
<1> QED BY <1>3, <1>4, <1>5, <1>6, <1>7, <1>8 DEF ResetStep

\* The reset's steps keep the shape of its record.
LEMMA ResetShape ==
    ASSUME ResetTypes, ResetStep
    PROVE  reset' = [pc |-> reset'.pc, keys |-> reset'.keys]
<1>1. \A pc : ResetTo(pc) => reset' = [pc |-> pc, keys |-> reset.keys]
  BY DEF ResetTo, ResetTypes
<1> QED BY <1>1 DEF ResetStep, Pause, ScanTables, DeleteKeys, DeleteControl, DropGraph, ClearLake,
        TimeOut

LEMMA ResetInductive == ResetInv /\ [Next]_demoVars => ResetInv'
<1> SUFFICES ASSUME ResetInv, [Next]_demoVars PROVE ResetInv' OBVIOUS
<1> USE DEF ResetInv
<1>1. faults' \in Nat BY FaultsCount
<1>2. CASE UNCHANGED demoVars
  BY <1>2 DEF demoVars, ResetTypes, CleanSoFar, Busy, Alive, At, dataVars, controlVars, pageVars,
     taskVars
<1>3. CASE Next /\ ~UnderWay
  <2>0. ~ResetStep
    BY <1>3 DEF ResetStep, Pause, ScanTables, DeleteKeys, DeleteControl, DropGraph, ClearLake,
       TimeOut, UnderWay
  <2>1. ResetTypes' /\ reset'.pc \in {reset.pc, "pause"}
    BY <1>1, <1>3, <2>0, ResetKept DEF ResetTypes
  <2>2. reset'.pc \notin Stages BY <1>3, <2>1 DEF UnderWay, Stages
  <2> QED BY <2>1, <2>2
<1>4. CASE Next /\ UnderWay /\ ~disturbed'
  <2>1. ~disturbed /\ ~Busy /\ ~Busy' /\ faults' = faults
    BY <1>4, Undisturbed DEF Next
  <2>2. CASE ResetStep
    <3>1. ResetTypes' BY <1>1, <2>2, ResetShape DEF ResetTypes
    <3>2. reset'.pc \in Stages => CleanSoFar' BY <2>1, <2>2, ResetCleans
    <3> QED BY <2>1, <3>1, <3>2
  <2>3. CASE ~ResetStep
    <3>1. Harmless BY <1>4, <2>1, <2>3, OthersHarmless
    <3>2. ResetTypes' BY <1>1, <3>1 DEF Harmless, ResetTypes
    <3>3. reset.pc \in Stages => CleanSoFar' BY <2>1, <3>1 DEF Harmless, CleanSoFar
    <3> QED BY <2>1, <3>1, <3>2, <3>3 DEF Harmless
  <2> QED BY <2>2, <2>3
<1>5. CASE Next /\ UnderWay /\ disturbed'
  <2>1. ResetTypes'
    <3>1. CASE ResetStep BY <1>1, <3>1, ResetShape DEF ResetTypes
    <3>2. CASE ~ResetStep
      <4>1. reset' = reset \/ reset' = [pc |-> "pause", keys |-> reset.keys]
        BY <1>5, <3>2, ResetKept
      <4> QED BY <1>1, <4>1 DEF ResetTypes
    <3> QED BY <3>1, <3>2
  <2> QED BY <1>5, <2>1
<1> QED BY <1>2, <1>3, <1>4, <1>5

\* A reset that runs undisturbed leaves the tables, the graph, the lake and the
\* demo's settings empty, whatever they held before.
THEOREM ResetLeavesNothing == Spec => QuietResetCleans
<1>1. Init => ResetInv
  BY DEF Init, ResetInv, ResetTypes, Stages
<1>2. ResetInv /\ [Next]_demoVars =>
        [(ClearLake /\ ~disturbed') =>
            /\ tables' = {} /\ ~graph' /\ ~lake'
            /\ control' = NoItem /\ lock' = NoLock /\ seedStatus' = "none"]_demoVars
  <2> SUFFICES ASSUME ResetInv, Next, ClearLake, ~disturbed'
               PROVE  /\ tables' = {} /\ ~graph' /\ ~lake'
                      /\ control' = NoItem /\ lock' = NoLock /\ seedStatus' = "none"
    OBVIOUS
  <2>1. UnderWay /\ reset.pc = "lake" BY DEF ClearLake, UnderWay
  <2>2. ~disturbed /\ faults' = faults BY <2>1, Undisturbed DEF Next
  <2>3. CleanSoFar /\ ~Fault
    BY <2>1, <2>2 DEF ResetInv, Stages, Fault, ResetTypes
  <2>4. /\ tables' = tables /\ graph' = graph /\ lake' = FALSE
        /\ control' = control /\ lock' = lock /\ seedStatus' = seedStatus
    BY <2>3 DEF ClearLake, controlVars
  <2> QED BY <2>1, <2>3, <2>4 DEF CleanSoFar
<1> QED BY <1>1, <1>2, ResetInductive, PTL DEF Spec, QuietResetCleans
-----------------------------------------------------------------------------
(* The seeding *)

Known == tables \cup lost

\* What the runs under way have put so far, and a completed seeding all of it.
SeedInv ==
    ~disturbed =>
        /\ (seedStatus = "COMPLETED" /\ reset.pc # "control") => Items("seed") \subseteq Known
        /\ \A t \in Tasks : Running(t) => \A i \in 1..task[t].done : <<task[t].what, i>> \in Known

\* A step that completes no seeding and removes nothing.
LEMMA SeedKept ==
    ASSUME SeedInv, disturbed => disturbed', Known \subseteq Known',
           seedStatus' = "COMPLETED" => seedStatus = "COMPLETED",
           reset.pc = "control" => reset'.pc = "control" \/ seedStatus' # "COMPLETED" \/ disturbed',
           \A t \in Tasks : Running(t)' =>
                \/ Running(t) /\ task'[t].what = task[t].what /\ task'[t].done = task[t].done
                \/ task'[t].done = 0
    PROVE  SeedInv'
<1> SUFFICES ASSUME ~disturbed' PROVE SeedInv' BY DEF SeedInv
<1>1. ~disturbed OBVIOUS
<1>2. (seedStatus' = "COMPLETED" /\ reset'.pc # "control") => Items("seed") \subseteq Known'
  BY <1>1 DEF SeedInv
<1>3. ASSUME NEW t \in Tasks, Running(t)', NEW i \in 1..task'[t].done
      PROVE  <<task'[t].what, i>> \in Known'
  <2>1. CASE task'[t].done = 0 BY <1>3, <2>1
  <2>2. CASE Running(t) /\ task'[t].what = task[t].what /\ task'[t].done = task[t].done
    BY <1>1, <1>3, <2>2 DEF SeedInv
  <2> QED BY <1>3, <2>1, <2>2
<1> QED BY <1>2, <1>3 DEF SeedInv, Items

\* The items of a scenario are as many as its number says.
LEMMA SizeOfSeed == Size("seed") = SeedItems
<1> DEFINE item(i) == <<"seed", i>>
           N == 1..SeedItems
<1>1. SeedItems \in Nat BY DemoAssumption
<1>2. IsFiniteSet(N) /\ Cardinality(N) = SeedItems BY <1>1, FS_Interval
<1>3. [i \in N |-> item(i)] \in Bijection(N, Items("seed"))
  BY <1>1 DEF Items, Bijection, Injection, Surjection, IsInjective
<1>4. Cardinality(N) = Cardinality(Items("seed"))
  <2>1. ExistsBijection(N, Items("seed")) BY <1>3 DEF ExistsBijection
  <2> HIDE DEF N
  <2> QED BY <1>2, <2>1, FS_Bijection
<1> QED BY <1>2, <1>4 DEF Size

\* The steps of the containers that put nothing.
LEMMA SeedServiceStep ==
    ASSUME TaskTypes, SeedInv, disturbed => disturbed', NEW t \in Tasks,
           \/ Launch(t) \/ TellToStop(t) \/ Kill(t) \/ AutoStop(t)
           \/ CheckSeed(t) \/ CheckLock(t) \/ ClearStale(t) \/ Release(t)
    PROVE  SeedInv'
<1>1. Known' = Known /\ seedStatus' = seedStatus /\ reset' = reset
  BY DEF Launch, TellToStop, Kill, AutoStop, CheckSeed, CheckLock, ClearStale, Release, TaskRest,
     Known, dataVars, controlVars
<1>2. CASE TellToStop(t)
  <2>1. task' = task BY <1>2 DEF TellToStop
  <2> QED BY <1>1, <2>1, SeedKept DEF Running
<1>3. CASE \E r \in TaskRecords :
             task' = [task EXCEPT ![t] = r] /\ r.pc \in {"off", "tick", "locked?", "clear", "take"}
  <2>1. PICK r \in TaskRecords :
          task' = [task EXCEPT ![t] = r] /\ r.pc \in {"off", "tick", "locked?", "clear", "take"}
    BY <1>3
  <2>2. task'[t] = r /\ \A u \in Tasks : u # t => task'[u] = task[u] BY <2>1, RecordChange
  <2>3. \A u \in Tasks : Running(u)' => Running(u) /\ task'[u] = task[u]
    BY <2>1, <2>2 DEF Running
  <2> QED BY <1>1, <2>3, SeedKept
<1>4. Off \in TaskRecords /\ [Off EXCEPT !.pc = "tick"] \in TaskRecords
  BY DEF Off, TaskRecords, TaskStates
<1>5. CASE Launch(t) \/ Kill(t) \/ AutoStop(t)
  <2>1. Off.pc = "off" /\ [Off EXCEPT !.pc = "tick"].pc = "tick" BY DEF Off
  <2> QED BY <1>3, <1>4, <1>5, <2>1 DEF Launch, Kill, AutoStop
<1>6. CASE CheckSeed(t) \/ CheckLock(t) \/ ClearStale(t) \/ Release(t)
  <2>1. PICK pc \in {"tick", "locked?", "clear", "take"} : Go(t, pc)
    BY <1>6 DEF CheckSeed, CheckLock, ClearStale, Release
  <2>2. /\ [task[t] EXCEPT !.pc = pc] \in TaskRecords
        /\ [task[t] EXCEPT !.pc = pc].pc = pc
    BY DEF TaskTypes, TaskRecords, TaskStates
  <2> QED BY <1>3, <2>1, <2>2 DEF Go
<1> QED BY <1>2, <1>5, <1>6

\* A tick of the clock mode puts an item; a mode leads on to the lock.
LEMMA SeedReadMode ==
    ASSUME TaskTypes, SeedInv, disturbed => disturbed', NEW t \in Tasks, ReadMode(t)
    PROVE  SeedInv'
<1>1. Known \subseteq Known' /\ seedStatus' = seedStatus /\ reset' = reset
  BY DEF ReadMode, Begin, TaskRest, Known, controlVars, Put
<1>2. CASE task' = task BY <1>1, <1>2, SeedKept DEF Running
<1>3. ASSUME NEW pc \in {"seeded?", "locked?"}, NEW what \in {"seed", "live"},
             NEW both \in BOOLEAN, Begin(t, pc, what, both)
      PROVE  SeedInv'
  <2> DEFINE r == [task[t] EXCEPT !.pc = pc, !.what = what, !.both = both]
  <2>1. task' = [task EXCEPT ![t] = r] BY <1>3 DEF Begin
  <2>2. r \in TaskRecords /\ r.pc = pc BY DEF TaskTypes, TaskRecords, TaskStates
  <2> HIDE DEF r
  <2>3. task'[t] = r /\ \A u \in Tasks : u # t => task'[u] = task[u]
    BY <2>1, <2>2, RecordChange
  <2>4. \A u \in Tasks : Running(u)' => Running(u) /\ task'[u] = task[u]
    BY <2>2, <2>3 DEF Running
  <2> QED BY <1>1, <2>4, SeedKept
<1>4. \/ Begin(t, "seeded?", "seed", FALSE) \/ Begin(t, "locked?", "live", FALSE)
      \/ Begin(t, "locked?", "seed", TRUE) \/ task' = task
  <2>1. PICK m \in {Read(control).mode, "DRAMA"} :
          CASE m = "SEED SCENARIO" -> Begin(t, "seeded?", "seed", FALSE)
            [] m = "PLAY SCENARIO" -> Begin(t, "locked?", "live", FALSE)
            [] m = "SCENARIO" -> Begin(t, "locked?", "seed", TRUE)
            [] OTHER -> task' = task
    BY DEF ReadMode
  <2> QED BY <2>1
<1> QED BY <1>2, <1>3, <1>4

\* A run starts with nothing put.
LEMMA SeedTakeLock ==
    ASSUME TaskTypes, SeedInv, disturbed => disturbed', NEW t \in Tasks, TakeLock(t)
    PROVE  SeedInv'
<1>1. Known' = Known /\ seedStatus' = seedStatus /\ reset' = reset
  BY DEF TakeLock, TaskRest, Known
<1>2. PICK pc \in {"mark", "run"} :
        task' = [task EXCEPT ![t] = [task[t] EXCEPT !.done = 0, !.spent = 0, !.pc = pc]]
  BY DEF TakeLock
<1> DEFINE r == [task[t] EXCEPT !.done = 0, !.spent = 0, !.pc = pc]
<1>3. r \in TaskRecords /\ r.done = 0 BY DEF TaskTypes, TaskRecords, TaskStates
<1> HIDE DEF r
<1>4. task'[t] = r /\ \A u \in Tasks : u # t => task'[u] = task[u]
  BY <1>2, <1>3, RecordChange DEF r
<1>5. \A u \in Tasks : Running(u)' =>
        \/ Running(u) /\ task'[u].what = task[u].what /\ task'[u].done = task[u].done
        \/ task'[u].done = 0
  BY <1>3, <1>4 DEF Running
<1> QED BY <1>1, <1>5, SeedKept

\* Whatever item a run comes to is put, or is known to be lost.
LEMMA SeedPutItem ==
    ASSUME TaskTypes, SeedInv, disturbed => disturbed', NEW t \in Tasks, PutItem(t)
    PROVE  SeedInv'
<1> SUFFICES ASSUME ~disturbed' PROVE SeedInv' BY DEF SeedInv
<1>1. Known' = Known \cup {<<task[t].what, task[t].done + 1>>}
  BY DEF PutItem, Put, Known
<1>2. (seedStatus' = "COMPLETED" => seedStatus = "COMPLETED") /\ reset' = reset /\ Running(t)
  BY DEF PutItem, TaskRest, At, Running
<1> DEFINE r == [task[t] EXCEPT !.done = task[t].done + 1]
<1>3. task' = [task EXCEPT ![t] = r] BY DEF PutItem
<1>4. /\ r \in TaskRecords /\ r.done = task[t].done + 1 /\ r.what = task[t].what
      /\ task[t].done \in Nat
  BY DEF TaskTypes, TaskRecords
<1> HIDE DEF r
<1>5. task'[t] = r /\ \A u \in Tasks : u # t => task'[u] = task[u] BY <1>3, <1>4, RecordChange
<1>6. (seedStatus' = "COMPLETED" /\ reset'.pc # "control") => Items("seed") \subseteq Known'
  BY <1>1, <1>2 DEF SeedInv
<1>7. ASSUME NEW u \in Tasks, Running(u)', NEW i \in 1..task'[u].done
      PROVE  <<task'[u].what, i>> \in Known'
  <2>1. CASE u # t BY <1>1, <1>5, <1>7, <2>1 DEF SeedInv, Running
  <2>2. CASE u = t /\ i = task[t].done + 1 BY <1>1, <1>4, <1>5, <2>2
  <2>3. CASE u = t /\ i # task[t].done + 1
    <3>1. i \in 1..task[t].done BY <1>4, <1>5, <1>7, <2>3
    <3>2. <<task[t].what, i>> \in Known BY <1>2, <3>1 DEF SeedInv
    <3> QED BY <1>1, <1>4, <1>5, <2>3, <3>2
  <2> QED BY <2>1, <2>2, <2>3
<1> QED BY <1>6, <1>7 DEF SeedInv, Items

\* A seeding is reported as completed when it has come to its last item.
LEMMA SeedMarkComplete ==
    ASSUME TaskTypes, SeedInv, disturbed => disturbed', NEW t \in Tasks, Mark(t) \/ Complete(t)
    PROVE  SeedInv'
<1> SUFFICES ASSUME ~disturbed' PROVE SeedInv' BY DEF SeedInv
<1>1. Known' = Known /\ reset' = reset /\ Running(t)
  BY DEF Mark, Complete, TaskRest, Known, At, Running
<1>2. PICK pc \in {"run", "release"} :
        \/ task' = [task EXCEPT ![t] = [task[t] EXCEPT !.pc = pc]]
        \/ task' = [task EXCEPT ![t] = [task[t] EXCEPT !.what = "live", !.done = 0]]
  BY DEF Mark, Complete, Go
<1>3. \E q \in TaskRecords :
        /\ task' = [task EXCEPT ![t] = q]
        /\ q.done = 0 \/ (q.what = task[t].what /\ q.done = task[t].done)
  <2>1. /\ [task[t] EXCEPT !.pc = pc] \in TaskRecords
        /\ [task[t] EXCEPT !.pc = pc].what = task[t].what
        /\ [task[t] EXCEPT !.pc = pc].done = task[t].done
    BY DEF TaskTypes, TaskRecords, TaskStates
  <2>2. /\ [task[t] EXCEPT !.what = "live", !.done = 0] \in TaskRecords
        /\ [task[t] EXCEPT !.what = "live", !.done = 0].done = 0
    BY DEF TaskTypes, TaskRecords
  <2>3. CASE task' = [task EXCEPT ![t] = [task[t] EXCEPT !.pc = pc]] BY <2>1, <2>3
  <2>4. CASE task' = [task EXCEPT ![t] = [task[t] EXCEPT !.what = "live", !.done = 0]]
    BY <2>2, <2>4
  <2> QED BY <1>2, <2>3, <2>4
<1>4. PICK q \in TaskRecords :
        /\ task' = [task EXCEPT ![t] = q]
        /\ q.done = 0 \/ (q.what = task[t].what /\ q.done = task[t].done)
  BY <1>3
<1>5. task'[t] = q /\ \A u \in Tasks : u # t => task'[u] = task[u] BY <1>4, RecordChange
<1>6. \A u \in Tasks : Running(u)' =>
        \/ Running(u) /\ task'[u].what = task[u].what /\ task'[u].done = task[u].done
        \/ task'[u].done = 0
  BY <1>1, <1>4, <1>5 DEF Running
<1>7. CASE seedStatus' = "COMPLETED" => seedStatus = "COMPLETED"
  BY <1>1, <1>6, <1>7, SeedKept
<1>8. CASE Complete(t) /\ task[t].what = "seed"
  <2>1. task[t].done = SeedItems BY <1>8, SizeOfSeed DEF Complete, AllPut
  <2>2. \A i \in 1..SeedItems : <<"seed", i>> \in Known BY <1>1, <1>8, <2>1 DEF SeedInv
  <2>3. Items("seed") \subseteq Known' BY <1>1, <2>2 DEF Items
  <2>4. \A u \in Tasks : Running(u)' => \A i \in 1..task'[u].done : <<task'[u].what, i>> \in Known'
    BY <1>1, <1>6 DEF SeedInv
  <2> QED BY <2>3, <2>4 DEF SeedInv, Items
<1>9. (seedStatus' = "COMPLETED" => seedStatus = "COMPLETED") \/ (Complete(t) /\ task[t].what = "seed")
  BY DEF Mark, Complete, WriteStatus
<1> QED BY <1>7, <1>8, <1>9

\* What the reset removes, it removes when nobody runs, and then the status.
LEMMA SeedResetStep ==
    ASSUME ResetTypes, SeedInv, ResetStep, Watch
    PROVE  SeedInv'
<1> SUFFICES ASSUME ~disturbed' PROVE SeedInv' BY DEF SeedInv
<1>1. UnderWay
  BY DEF ResetStep, Pause, ScanTables, DeleteKeys, DeleteControl, DropGraph, ClearLake, TimeOut,
     UnderWay
<1>2. ~disturbed /\ ~Busy /\ faults' = faults BY <1>1, Undisturbed
<1>3. ~Fault BY <1>2 DEF Fault, ResetTypes
<1>4. task' = task
  BY DEF ResetStep, Pause, ScanTables, DeleteKeys, DeleteControl, DropGraph, ClearLake, TimeOut,
     ResetRest
<1>5. \A t \in Tasks : ~Running(t)' BY <1>2, <1>4 DEF Busy, Alive, At, Running
<1>6. CASE DeleteKeys
  <2>1. reset'.pc = "control" BY <1>6 DEF DeleteKeys
  <2> QED BY <1>5, <2>1 DEF SeedInv
<1>7. CASE DeleteControl
  <2>1. seedStatus' = "none" BY <1>3, <1>7 DEF DeleteControl
  <2> QED BY <1>5, <2>1 DEF SeedInv
<1>8. CASE Pause \/ ScanTables \/ DropGraph \/ ClearLake
  <2>1. Known' = Known /\ seedStatus' = seedStatus /\ reset.pc # "control"
    BY <1>8 DEF Pause, ScanTables, DropGraph, ClearLake, ResetRest, Known, controlVars
  <2> QED BY <1>2, <1>5, <2>1 DEF SeedInv, Items
<1> QED BY <1>3, <1>6, <1>7, <1>8 DEF ResetStep, TimeOut

\* The pages, the requests and the pipeline remove nothing and complete nothing.
LEMMA SeedOthers ==
    ASSUME SeedInv, disturbed => disturbed',
           \/ Arrive \/ UNCHANGED demoVars \/ \E o \in Operators : PageStep(o)
           \/ \E w \in writes : WriteControl(w) \/ WriteFails(w)
           \/ \E what \in requests : RequestPuts(what)
    PROVE  SeedInv'
<1>1. /\ task' = task /\ Known \subseteq Known' /\ seedStatus' \in {seedStatus, "none"}
      /\ reset.pc = "control" => reset' = reset
  <2>1. CASE Arrive \/ UNCHANGED demoVars
    BY <2>1 DEF Arrive, demoVars, controlVars, taskVars, dataVars, Known
  <2>2. CASE \E w \in writes : WriteControl(w) \/ WriteFails(w)
    BY <2>2 DEF WriteControl, WriteFails, PageRest, controlVars, taskVars, dataVars, Known
  <2>3. CASE \E what \in requests : RequestPuts(what)
    BY <2>3 DEF RequestPuts, Put, controlVars, taskVars, Known
  <2>4. ASSUME NEW o \in Operators, PageStep(o)
        PROVE  /\ task' = task /\ Known \subseteq Known' /\ seedStatus' \in {seedStatus, "none"}
               /\ reset.pc = "control" => reset' = reset
    <3>1. CASE \/ Open(o) \/ ReadControl(o) \/ Loaded(o) \/ PollSeed(o)
               \/ ClickMode(o) \/ ClickAuto(o) \/ SetScenarioMode(o)
      BY <3>1 DEF Open, ReadControl, Loaded, PollSeed, ClickMode, ClickAuto, Click, SetScenarioMode,
         PageRest, controlVars, taskVars, dataVars, Known
    <3>2. CASE ForceUnlock(o) BY <3>2 DEF ForceUnlock, taskVars, dataVars, Known
    <3>3. CASE ResetDemo(o) BY <3>3 DEF ResetDemo, taskVars, dataVars, controlVars, Known
    <3>4. CASE \/ \E n \in {0, 1} : StartOrStop(o, n) \/ \E what \in Requests : Request(o, what)
      BY <3>4 DEF StartOrStop, Request, PageRest, taskVars, dataVars, controlVars, Known
    <3> QED BY <2>4, <3>1, <3>2, <3>3, <3>4 DEF PageStep
  <2> QED BY <2>1, <2>2, <2>3, <2>4
<1> QED BY <1>1, SeedKept DEF Running

LEMMA SeedInductive ==
    TaskTypes /\ ResetTypes /\ SeedInv /\ [Next]_demoVars => SeedInv'
<1> SUFFICES ASSUME TaskTypes, ResetTypes, SeedInv, [Next]_demoVars PROVE SeedInv' OBVIOUS
<1>1. disturbed => disturbed' BY DEF Next, Watch, demoVars
<1>2. CASE \E t \in Tasks : Launch(t) \/ TellToStop(t) \/ Kill(t) \/ AutoStop(t) \/ TaskStep(t)
  BY <1>1, <1>2, SeedServiceStep, SeedReadMode, SeedTakeLock, SeedPutItem, SeedMarkComplete
     DEF TaskStep
<1>3. CASE Age
  <2>1. /\ task' = [t \in Tasks |-> IF Running(t) THEN [task[t] EXCEPT !.spent = @ + 1] ELSE task[t]]
        /\ Known' = Known /\ seedStatus' = seedStatus /\ reset' = reset
    BY <1>3 DEF Age, TaskRest, Known
  <2>2. \A t \in Tasks : task[t] \in TaskRecords BY DEF TaskTypes
  <2>3. \A t \in Tasks : /\ task'[t].pc = task[t].pc
                         /\ task'[t].what = task[t].what /\ task'[t].done = task[t].done
    BY <2>1, <2>2 DEF TaskRecords
  <2> QED BY <1>1, <2>1, <2>3, SeedKept DEF Running
<1>4. CASE ResetStep /\ Watch BY <1>4, SeedResetStep
<1>5. CASE \/ Arrive \/ UNCHANGED demoVars \/ \E o \in Operators : PageStep(o)
           \/ \E w \in writes : WriteControl(w) \/ WriteFails(w)
           \/ \E what \in requests : RequestPuts(what)
  BY <1>1, <1>5, SeedOthers
<1> QED BY <1>2, <1>3, <1>4, <1>5 DEF Next

\* A completed seeding has put everything but what failed, whichever tasks were
\* killed or ran twice, and whatever the resets did as long as nothing met them.
THEOREM SeedingIsThere == Spec => []SeedCompletedIsThere
<1>1. Init => TaskTypes /\ RunsInv /\ ResetInv /\ SeedInv
  <2> SUFFICES ASSUME Init PROVE TaskTypes /\ RunsInv /\ ResetInv /\ SeedInv OBVIOUS
  <2>1. task = [t \in Tasks |-> Off] /\ doubted = FALSE BY DEF Init
  <2>2. Off \in TaskRecords BY DEF Off, TaskRecords, TaskStates
  <2>3. \A t \in Tasks : ~Running(t) /\ ~Holds(t) BY <2>1 DEF Off, Holds, Running, Deciding
  <2>4. seedStatus # "COMPLETED" /\ ResetInv BY DEF Init, ResetInv, ResetTypes, Stages
  <2> QED BY <2>1, <2>2, <2>3, <2>4 DEF TaskTypes, RunsInv, LockIsItsOwn, OneHolds, Holds, SeedInv
<1>2. SeedInv => SeedCompletedIsThere
  BY DEF SeedInv, SeedCompletedIsThere, UnderWay, Known, Items
<1>3. ResetInv => ResetTypes BY DEF ResetInv
<1> QED BY <1>1, <1>2, <1>3, RunsInductive, ResetInductive, SeedInductive, PTL DEF Spec

-----------------------------------------------------------------------------
(* The settings pages *)

\* A setting without the hours is not the page's.
Setting(x) ==
    /\ x = [mode |-> x.mode, auto |-> x.auto]
    /\ x.auto \in Nat \/ (x.auto = -1 /\ x.mode = "SCENARIO")
IsItem(x) == x = NoItem \/ Setting(x)

IsPage(p) ==
    /\ p = [load |-> p.load, mode |-> p.mode, auto |-> p.auto, seen |-> p.seen, read |-> p.read]
    /\ p.auto \in Nat /\ IsItem(p.read)

PageTypes ==
    /\ page = [o \in Operators |-> page[o]] /\ \A o \in Operators : IsPage(page[o])
    /\ IsItem(control)
    /\ \A w \in writes : w = [by |-> w.by, item |-> w.item] /\ Setting(w.item)

Fresh(p) == p.mode = "DRAMA" /\ p.auto = 8
Shown(p) == [mode |-> p.mode, auto |-> p.auto]

\* What a page that nothing raced with knows at each stage of its loading: its
\* answer is the item, and the only write under way is its own last click.
PageAgrees(o) ==
    /\ page[o].load = "sent" => Fresh(page[o])
    /\ page[o].load = "answered" => Fresh(page[o]) /\ writes = {} /\ page[o].read = control
    /\ page[o].load = "done" =>
        \/ writes = {} /\ Read(control) = Shown(page[o])
        \/ writes = {[by |-> o, item |-> Shown(page[o])]}

PageInv == PageTypes /\ \A o \in Operators \ raced : PageAgrees(o)

\* Settings that were written are read as they are.
LEMMA ReadBack ==
    /\ Read(NoItem) = [mode |-> "DRAMA", auto |-> 8]
    /\ \A x : Setting(x) =>
        /\ x # NoItem /\ Read(x).mode = x.mode
        /\ Read(x) = [mode |-> x.mode, auto |-> IF x.auto = -1 THEN 8 ELSE x.auto]
<1>1. Read(NoItem) = [mode |-> "DRAMA", auto |-> 8] BY DEF Read
<1>2. ASSUME NEW x, Setting(x)
      PROVE  x # NoItem /\ Read(x) = [mode |-> x.mode, auto |-> IF x.auto = -1 THEN 8 ELSE x.auto]
  <2>1. x # NoItem
    <3>1. NoItem.mode = "none" /\ NoItem.auto = -1 BY DEF NoItem
    <3> QED BY <1>2, <3>1 DEF Setting
  <2>2. Read(x) = [x EXCEPT !.auto = IF x.auto = -1 THEN 8 ELSE x.auto] BY <2>1 DEF Read
  <2> DEFINE a == IF x.auto = -1 THEN 8 ELSE x.auto
             R == [mode : {x.mode}, auto : {x.auto, a}]
  <2>3. x \in R BY <1>2 DEF Setting
  <2>4. [x EXCEPT !.auto = a] = [mode |-> x.mode, auto |-> a]
    <3> HIDE DEF a
    <3> QED BY <2>3
  <2> QED BY <2>1, <2>2, <2>4
<1> QED BY <1>1, <1>2

\* A page's record with an answer.
LEMMA PageAnswer ==
    ASSUME NEW p, IsPage(p), NEW l, NEW i
    PROVE  [p EXCEPT !.load = l, !.read = i]
                = [load |-> l, mode |-> p.mode, auto |-> p.auto, seen |-> p.seen, read |-> i]
<1> DEFINE R == [load : {l, p.load}, mode : {p.mode}, auto : {p.auto},
                 seen : {p.seen}, read : {i, p.read}]
           q == [p EXCEPT !.load = l, !.read = i]
<1>1. p \in R BY DEF IsPage
<1>2. q \in R /\ q.load = l /\ q.read = i BY <1>1
<1>3. q = [load |-> l, mode |-> p.mode, auto |-> p.auto, seen |-> p.seen, read |-> i]
  <2> HIDE DEF q
  <2> QED BY <1>2
<1> QED BY <1>3

\* One page replaced.
LEMMA PageChange ==
    ASSUME PageTypes, NEW o \in Operators, NEW r, IsPage(r), page' = [page EXCEPT ![o] = r]
    PROVE  /\ page' = [q \in Operators |-> page'[q]] /\ \A q \in Operators : IsPage(page'[q])
           /\ page'[o] = r /\ \A q \in Operators : q # o => page'[q] = page[q]
<1>1. DOMAIN page = Operators BY DEF PageTypes
<1>2. page' = [q \in Operators |-> IF q = o THEN r ELSE page[q]] BY <1>1
<1>3. page'[o] = r /\ \A q \in Operators : q # o => page'[q] = page[q] BY <1>2
<1>4. \A q \in Operators : IsPage(page'[q]) BY <1>3 DEF PageTypes
<1>5. page' = [q \in Operators |-> page'[q]] BY <1>2
<1> QED BY <1>3, <1>4, <1>5

\* A page that opens asks for the settings, and shows the defaults until then.
LEMMA PageOpens ==
    ASSUME PageInv, NEW o \in Operators, Open(o)
    PROVE  PageInv'
<1> DEFINE r == [NoPage EXCEPT !.load = "sent"]
<1>1. /\ page' = [page EXCEPT ![o] = r] /\ raced' = raced \ {o}
      /\ control' = control /\ writes' = writes
  BY DEF Open, controlVars
<1>2. IsPage(r) /\ Fresh(r) /\ r.load = "sent" BY DEF NoPage, IsPage, Fresh, IsItem
<1> HIDE DEF r
<1>3. /\ page' = [q \in Operators |-> page'[q]] /\ \A q \in Operators : IsPage(page'[q])
      /\ page'[o] = r /\ \A q \in Operators : q # o => page'[q] = page[q]
  BY <1>1, <1>2, PageChange DEF PageInv
<1>4. PageTypes' BY <1>1, <1>3 DEF PageInv, PageTypes
<1>5. ASSUME NEW q \in Operators, q \notin raced' PROVE PageAgrees(q)'
  <2>1. CASE q = o BY <1>2, <1>3, <2>1 DEF PageAgrees
  <2>2. CASE q # o BY <1>1, <1>3, <1>5, <2>2 DEF PageInv, PageAgrees
  <2> QED BY <2>1, <2>2
<1> QED BY <1>4, <1>5 DEF PageInv

\* The answer is the item as long as no write comes after it.
LEMMA PageReads ==
    ASSUME PageInv, NEW o \in Operators, ReadControl(o)
    PROVE  PageInv'
<1> DEFINE r == [page[o] EXCEPT !.load = "answered", !.read = control]
<1>1. /\ page' = [page EXCEPT ![o] = r] /\ page[o].load = "sent"
      /\ raced' = IF writes # {} THEN raced \cup {o} ELSE raced
      /\ control' = control /\ writes' = writes
  BY DEF ReadControl, controlVars
<1>2. /\ IsPage(r) /\ r.load = "answered" /\ r.read = control
      /\ r.mode = page[o].mode /\ r.auto = page[o].auto
  <2>1. IsPage(page[o]) /\ IsItem(control) BY DEF PageInv, PageTypes
  <2> HIDE DEF r
  <2>2. r = [load |-> "answered", mode |-> page[o].mode, auto |-> page[o].auto,
             seen |-> page[o].seen, read |-> control]
    BY <2>1, PageAnswer DEF r
  <2> QED BY <2>1, <2>2 DEF IsPage
<1> HIDE DEF r
<1>3. /\ page' = [q \in Operators |-> page'[q]] /\ \A q \in Operators : IsPage(page'[q])
      /\ page'[o] = r /\ \A q \in Operators : q # o => page'[q] = page[q]
  BY <1>1, <1>2, PageChange DEF PageInv
<1>4. PageTypes' BY <1>1, <1>3 DEF PageInv, PageTypes
<1>5. ASSUME NEW q \in Operators, q \notin raced' PROVE PageAgrees(q)'
  <2>1. q \notin raced /\ PageAgrees(q) BY <1>1, <1>5 DEF PageInv
  <2>2. CASE q = o BY <1>1, <1>2, <1>3, <1>5, <2>1, <2>2 DEF PageAgrees, Fresh
  <2>3. CASE q # o BY <1>1, <1>3, <2>1, <2>3 DEF PageAgrees
  <2> QED BY <2>2, <2>3
<1> QED BY <1>4, <1>5 DEF PageInv

\* What the item lacks stays at the defaults, as the generators read it.
LEMMA PageLoads ==
    ASSUME PageInv, NEW o \in Operators, Loaded(o)
    PROVE  PageInv'
<1> DEFINE p == page[o]
           m == IF page[o].read = NoItem THEN page[o].mode ELSE page[o].read.mode
           a == IF page[o].read.auto = -1 THEN page[o].auto ELSE page[o].read.auto
           r == [page[o] EXCEPT !.load = "done", !.read = NoItem, !.mode = m, !.auto = a]
<1>1. /\ page' = [page EXCEPT ![o] = r] /\ p.load = "answered"
      /\ raced' = raced /\ control' = control /\ writes' = writes
  BY DEF Loaded, controlVars
<1>2. IsPage(p) /\ IsItem(p.read) BY DEF PageInv, PageTypes, IsPage
<1>3. /\ r.load = "done" /\ IsPage(r)
      /\ r.mode = (IF p.read = NoItem THEN p.mode ELSE p.read.mode)
      /\ r.auto = (IF p.read.auto = -1 THEN p.auto ELSE p.read.auto)
  <2>1. IsItem(NoItem) /\ (p.read.auto = -1 \/ p.read.auto \in Nat)
    BY <1>2 DEF IsItem, NoItem, Setting
  <2>2. r = [load |-> "done", seen |-> p.seen, read |-> NoItem,
             mode |-> IF p.read = NoItem THEN p.mode ELSE p.read.mode,
             auto |-> IF p.read.auto = -1 THEN p.auto ELSE p.read.auto]
    <3> DEFINE R == [load : {"done", p.load}, mode : {m, p.mode}, auto : {a, p.auto},
                     seen : {p.seen}, read : {NoItem, p.read}]
    <3>2. p \in R BY <1>2 DEF IsPage
    <3>3. /\ r \in R /\ r.load = "done" /\ r.read = NoItem /\ r.mode = m /\ r.auto = a
          /\ r.seen = p.seen
      <4> HIDE DEF m, a
      <4> QED BY <3>2
    <3> HIDE DEF r
    <3> QED BY <3>3
  <2> HIDE DEF r
  <2>3. p.auto \in Nat BY <1>2 DEF IsPage
  <2> HIDE DEF p
  <2> QED BY <2>1, <2>2, <2>3 DEF IsPage
<1> HIDE DEF r
<1>4. /\ page' = [q \in Operators |-> page'[q]] /\ \A q \in Operators : IsPage(page'[q])
      /\ page'[o] = r /\ \A q \in Operators : q # o => page'[q] = page[q]
  BY <1>1, <1>3, PageChange DEF PageInv
<1>5. PageTypes' BY <1>1, <1>4 DEF PageInv, PageTypes
<1>6. ASSUME NEW q \in Operators, q \notin raced' PROVE PageAgrees(q)'
  <2>1. PageAgrees(q) BY <1>1, <1>6 DEF PageInv
  <2>2. CASE q # o BY <1>1, <1>4, <2>1, <2>2 DEF PageAgrees
  <2>3. CASE q = o
    <3>1. Fresh(p) /\ writes = {} /\ p.read = control BY <1>1, <2>1, <2>3 DEF PageAgrees
    <3>2. Read(control) = Shown(r)
      <4>1. NoItem.auto = -1 BY DEF NoItem
      <4>2. CASE control = NoItem BY <1>3, <3>1, <4>1, <4>2, ReadBack DEF Fresh, Shown
      <4>3. CASE Setting(control) BY <1>3, <3>1, <4>3, ReadBack DEF Fresh, Shown
      <4> QED BY <1>2, <3>1, <4>2, <4>3 DEF IsItem
    <3> QED BY <1>1, <1>3, <1>4, <2>3, <3>1, <3>2 DEF PageAgrees
  <2> QED BY <2>2, <2>3
<1> QED BY <1>5, <1>6 DEF PageInv

\* A click sends what the page shows; whoever cannot tell what becomes of it has
\* been raced.
LEMMA PageClicks ==
    ASSUME PageInv, NEW o \in Operators, ClickMode(o) \/ ClickAuto(o)
    PROVE  PageInv'
<1>1. PICK r : IsPage(r) /\ r.load = page[o].load /\ Click(o, r)
  <2>1. IsPage(page[o]) BY DEF PageInv, PageTypes
  <2>2. CASE ClickMode(o)
    <3>1. PICK m \in Modes : Click(o, [page[o] EXCEPT !.mode = m]) BY <2>2 DEF ClickMode
    <3>2. IsPage([page[o] EXCEPT !.mode = m]) /\ [page[o] EXCEPT !.mode = m].load = page[o].load
      BY <2>1 DEF IsPage
    <3> QED BY <3>1, <3>2
  <2>3. CASE ClickAuto(o)
    <3>1. PICK h \in Autos : Click(o, [page[o] EXCEPT !.auto = h]) BY <2>3 DEF ClickAuto
    <3>2. h \in Nat BY DemoAssumption
    <3>3. IsPage([page[o] EXCEPT !.auto = h]) /\ [page[o] EXCEPT !.auto = h].load = page[o].load
      BY <2>1, <3>2 DEF IsPage
    <3> QED BY <3>1, <3>3
  <2> QED BY <2>2, <2>3
<1> DEFINE w == [by |-> o, item |-> NewState(r)]
<1>2. /\ page' = [page EXCEPT ![o] = r] /\ writes' = writes \cup {w} /\ control' = control
      /\ raced' = raced \cup (Operators \ {o})
                        \cup (IF writes # {} \/ page[o].load # "done" THEN {o} ELSE {})
  BY <1>1 DEF Click, controlVars
<1>3. /\ page' = [q \in Operators |-> page'[q]] /\ \A q \in Operators : IsPage(page'[q])
      /\ page'[o] = r /\ \A q \in Operators : q # o => page'[q] = page[q]
  BY <1>1, <1>2, PageChange DEF PageInv
<1>4. w = [by |-> w.by, item |-> w.item] /\ Setting(w.item) /\ w.item = Shown(r)
  BY <1>1 DEF Setting, NewState, IsPage, Shown
<1>5. PageTypes'
  <2> HIDE DEF w
  <2> QED BY <1>2, <1>3, <1>4 DEF PageInv, PageTypes
<1>6. ASSUME NEW q \in Operators, q \notin raced' PROVE PageAgrees(q)'
  <2>1. q = o /\ writes = {} /\ page[o].load = "done" BY <1>2, <1>6
  <2>2. writes' = {w} BY <1>2, <2>1
  <2> QED BY <1>1, <1>3, <1>4, <2>1, <2>2 DEF PageAgrees
<1> QED BY <1>5, <1>6 DEF PageInv

\* A write that lands is the page's last; one that fails leaves the page wrong.
LEMMA PageWrites ==
    ASSUME PageInv, NEW w \in writes, WriteControl(w) \/ WriteFails(w)
    PROVE  PageInv'
<1>1. /\ page' = page /\ writes' = writes \ {w}
      /\ \/ control' = w.item /\ raced' = raced
         \/ control' = control /\ raced' = raced \cup {w.by}
  BY DEF WriteControl, WriteFails, PageRest, controlVars
<1>2. Setting(w.item) BY DEF PageInv, PageTypes
<1>3. PageTypes' BY <1>1, <1>2 DEF PageInv, PageTypes, IsItem
<1>4. ASSUME NEW q \in Operators, q \notin raced' PROVE PageAgrees(q)'
  <2>1. PageAgrees(q) BY <1>1, <1>4 DEF PageInv
  <2>2. CASE page[q].load = "done"
    <3>1. w = [by |-> q, item |-> Shown(page[q])] /\ writes' = {} BY <1>1, <2>1, <2>2 DEF PageAgrees
    <3>2. w.by = q /\ w.item = Shown(page[q]) BY <3>1
    <3>3. control' = w.item BY <1>1, <1>4, <3>2
    <3>4. w.item.mode = page[q].mode /\ w.item.auto = page[q].auto /\ page[q].auto # -1
      BY <3>2 DEF Shown, PageInv, PageTypes, IsPage
    <3>5. Read(control') = Shown(page[q]) BY <1>2, <3>3, <3>4, ReadBack DEF Shown
    <3> QED BY <1>1, <2>2, <3>1, <3>5 DEF PageAgrees
  <2>3. CASE page[q].load # "done" BY <1>1, <2>1, <2>3 DEF PageAgrees
  <2> QED BY <2>2, <2>3
<1> QED BY <1>3, <1>4 DEF PageInv

\* A call that no page made races with all of them.
LEMMA PageBypassed ==
    ASSUME PageInv, NEW o \in Operators, SetScenarioMode(o)
    PROVE  PageInv'
<1>1. PICK w : w = [by |-> o, item |-> [mode |-> "SCENARIO", auto |-> -1]] OBVIOUS
<1>2. /\ page' = page /\ control' = control /\ raced' = Operators
      /\ writes' = writes \cup {w}
  BY <1>1 DEF SetScenarioMode, controlVars
<1>3. w = [by |-> w.by, item |-> w.item] /\ Setting(w.item) BY <1>1 DEF Setting
<1>4. PageTypes' BY <1>2, <1>3 DEF PageInv, PageTypes
<1> QED BY <1>2, <1>4 DEF PageInv

\* The seed status a page shows is not one of its settings.
LEMMA PageSeen ==
    ASSUME PageInv, NEW o \in Operators, PollSeed(o) \/ ForceUnlock(o)
    PROVE  PageInv'
<1>1. PICK s : page' = [page EXCEPT ![o].seen = s]
  BY DEF PollSeed, ForceUnlock
<1>2. control' = control /\ writes' = writes /\ raced' = raced
  BY DEF PollSeed, ForceUnlock, controlVars
<1> DEFINE r == [page[o] EXCEPT !.seen = s]
<1>3. page' = [page EXCEPT ![o] = r] BY <1>1
<1>4. IsPage(page[o]) BY DEF PageInv, PageTypes
<1>5. /\ IsPage(r) /\ r.load = page[o].load /\ r.mode = page[o].mode /\ r.auto = page[o].auto
      /\ r.read = page[o].read
  BY <1>4 DEF IsPage
<1> HIDE DEF r
<1>6. /\ page' = [q \in Operators |-> page'[q]] /\ \A q \in Operators : IsPage(page'[q])
      /\ page'[o] = r /\ \A q \in Operators : q # o => page'[q] = page[q]
  BY <1>3, <1>5, PageChange DEF PageInv
<1>7. PageTypes' BY <1>2, <1>6 DEF PageInv, PageTypes
<1>8. ASSUME NEW q \in Operators, q \notin raced' PROVE PageAgrees(q)'
  <2>1. PageAgrees(q) BY <1>2, <1>8 DEF PageInv
  <2>2. Shown(r) = Shown(page[o]) /\ (Fresh(page[o]) => Fresh(r)) BY <1>5 DEF Shown, Fresh
  <2>3. CASE q = o BY <1>2, <1>5, <1>6, <2>1, <2>2, <2>3 DEF PageAgrees
  <2>4. CASE q # o BY <1>2, <1>6, <2>1, <2>4 DEF PageAgrees
  <2> QED BY <2>3, <2>4
<1> QED BY <1>7, <1>8 DEF PageInv

\* The rest changes no settings, or the reset deletes them from under all pages.
LEMMA PageOthers ==
    ASSUME PageInv, page' = page, writes' = writes,
           \/ control' = control /\ raced' = raced
           \/ control' \in {control, NoItem} /\ raced' = Operators
    PROVE  PageInv'
<1>1. PageTypes' BY DEF PageInv, PageTypes, IsItem
<1>2. CASE control' = control /\ raced' = raced BY <1>1, <1>2 DEF PageInv, PageAgrees
<1>3. CASE raced' = Operators BY <1>1, <1>3 DEF PageInv
<1> QED BY <1>2, <1>3

LEMMA PageInductive == PageInv /\ [Next]_demoVars => PageInv'
<1> SUFFICES ASSUME PageInv, [Next]_demoVars PROVE PageInv' OBVIOUS
<1>1. CASE \E t \in Tasks : Launch(t) \/ TellToStop(t) \/ Kill(t) \/ AutoStop(t) \/ TaskStep(t)
  <2>1. page' = page /\ writes' = writes /\ control' = control /\ raced' = raced
    BY <1>1 DEF Launch, TellToStop, Kill, AutoStop, TaskStep, ReadMode, CheckSeed, CheckLock,
       ClearStale, TakeLock, Mark, PutItem, Complete, Release, TaskRest, controlVars, pageVars
  <2> QED BY <2>1, PageOthers
<1>2. CASE Age \/ Arrive \/ UNCHANGED demoVars
  <2>1. page' = page /\ writes' = writes /\ control' = control /\ raced' = raced
    BY <1>2 DEF Age, Arrive, demoVars, TaskRest, controlVars, pageVars
  <2> QED BY <2>1, PageOthers
<1>3. CASE ResetStep
  <2>1. /\ page' = page /\ writes' = writes
        /\ \/ control' = control /\ raced' = raced
           \/ control' \in {control, NoItem} /\ raced' = Operators
    BY <1>3 DEF ResetStep, Pause, ScanTables, DeleteKeys, DeleteControl, DropGraph, ClearLake,
       TimeOut, ResetRest, controlVars
  <2> QED BY <2>1, PageOthers
<1>4. CASE \E what \in requests : RequestPuts(what)
  <2>1. page' = page /\ writes' = writes /\ control' = control /\ raced' = raced
    BY <1>4 DEF RequestPuts, controlVars
  <2> QED BY <2>1, PageOthers
<1>5. CASE \E w \in writes : WriteControl(w) \/ WriteFails(w) BY <1>5, PageWrites
<1>6. ASSUME NEW o \in Operators, PageStep(o) PROVE PageInv'
  <2>1. CASE ResetDemo(o) \/ \E n \in {0, 1} : StartOrStop(o, n) \/ \E what \in Requests : Request(o, what)
    <3>1. /\ page' = page /\ writes' = writes /\ control' = control
          /\ raced' = raced \/ raced' = Operators
      BY <2>1 DEF ResetDemo, StartOrStop, Request, PageRest, controlVars
    <3> QED BY <3>1, PageOthers
  <2> QED BY <1>6, <2>1, PageOpens, PageReads, PageLoads, PageClicks, PageBypassed, PageSeen
         DEF PageStep
<1> QED BY <1>1, <1>2, <1>3, <1>4, <1>5, <1>6 DEF Next

\* A page that nothing raced with shows what the generators obey, although each
\* page writes the whole item from what it shows.
THEOREM SettingsAreShown == Spec => []PageIsRight
<1>1. Init => PageInv
  <2> SUFFICES ASSUME Init PROVE PageInv OBVIOUS
  <2>1. page = [o \in Operators |-> NoPage] /\ writes = {} /\ control = NoItem BY DEF Init
  <2>2. IsPage(NoPage) /\ NoPage.load = "closed" BY DEF NoPage, IsPage, IsItem
  <2>3. \A o \in Operators : page[o] = NoPage BY <2>1
  <2>4. PageTypes BY <2>1, <2>2, <2>3 DEF PageTypes, IsItem
  <2> QED BY <2>2, <2>3, <2>4 DEF PageInv, PageAgrees
<1>2. PageInv => PageIsRight
  <2> SUFFICES ASSUME PageInv, NEW o \in Operators \ raced, page[o].load = "done", writes = {}
               PROVE  Read(control) = [mode |-> page[o].mode, auto |-> page[o].auto]
    BY DEF PageIsRight
  <2> QED BY DEF PageInv, PageAgrees, Shown
<1> QED BY <1>1, <1>2, PageInductive, PTL DEF Spec
=============================================================================
