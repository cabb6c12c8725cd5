------------------------------ MODULE AskAgent ------------------------------
(***************************************************************************)
(* A conversation with an agent on a page (useAgUiStream and the two       *)
(* consoles that use it): questions, the runs they start, and the blocks   *)
(* that the runs stream into their turns.  A run is named by the number of *)
(* its question.  The button's closure holds the `running` of the last     *)
(* render, and a question waits for a token before it starts: two clicks   *)
(* before the first one starts begin two runs.  A message of the agent's   *)
(* list has a role and a run, and says whether it has any text and whether *)
(* it carries tool calls.                                                  *)
(***************************************************************************)
EXTENDS Naturals, Sequences, SequencesExt, Subsequences

CONSTANTS MaxAsks       \* bound: questions

ASSUME AskAssumption == MaxAsks \in Nat

VARIABLES
    turns,      \* [id, run, blocks: sequence of [kind, run]]
    running,
    seq,        \* seq.current: numbers turns and widgets
    waiting,    \* clicks that wait for their token
    asked,      \* questions begun
    runs,       \* live runs: [run, turn, agent, drawn: kinds of blocks so far]
    agent,      \* agentRef: [no, messages], no = 0 for null
    agents,     \* agents made
    overlapped, \* history: a run began while another was live
    withCall,   \* history: runs that called a tool from their prose
    cut         \* history: a stream closed without its last event, none ended since

chatVars ==
    <<turns, running, seq, waiting, asked, runs, agent, agents, overlapped, withCall, cut>>

NoAgent == [no |-> 0, messages |-> <<>>]
Message(role, run, content, calls) ==
    [role |-> role, run |-> run, content |-> content, calls |-> calls]
Question(run) == Message("user", run, TRUE, FALSE)
Reply(run) == Message("assistant", run, TRUE, FALSE)
ToolCall(run) == Message("assistant", run, FALSE, TRUE)
ToolResult(run) == Message("tool", run, TRUE, FALSE)

AskInit ==
    /\ turns = <<>> /\ running = FALSE /\ seq = 0 /\ waiting = 0 /\ asked = 0
    /\ runs = {} /\ agent = NoAgent /\ agents = 0 /\ overlapped = FALSE
    /\ withCall = {} /\ cut = FALSE

\* run(): ignored while a run is rendered as running.
ClickAsk ==
    /\ ~running /\ asked + waiting < MaxAsks
    /\ waiting' = waiting + 1
    /\ UNCHANGED <<turns, running, seq, asked, runs, agent, agents, overlapped, withCall, cut>>

\* (mutant) tool calls stay in the transcript.
ConversationalHistoryKeepsAll(messages) == messages

\* conversationalHistory: the questions, and the agent's messages that have
\* text and carry no tool call.
ConversationalHistory(messages) ==
    Kept(messages, {k \in DOMAIN messages :
        \/ messages[k].role = "user"
        \/ messages[k].role = "assistant" /\ ~messages[k].calls /\ messages[k].content})

\* (mutant) only widgets count.
AfterTurnSame(n) == n
AfterTurn(n) == n + 1

\* ask(), with the token: a new turn, one agent for the conversation.
BeginRun ==
    /\ waiting > 0 /\ waiting' = waiting - 1
    /\ asked' = asked + 1 /\ running' = TRUE
    /\ turns' = Append(turns, [id |-> seq, run |-> asked', blocks |-> <<>>])
    /\ seq' = AfterTurn(seq)
    /\ agents' = IF agent.no = 0 THEN agents + 1 ELSE agents
    /\ agent' = [no |-> IF agent.no = 0 THEN agents' ELSE agent.no,
                 messages |-> Append(ConversationalHistory(agent.messages), Question(asked'))]
    /\ runs' = runs \cup {[run |-> asked', turn |-> seq, agent |-> agent'.no, drawn |-> {}]}
    /\ overlapped' = (overlapped \/ runs # {})
    /\ UNCHANGED <<withCall, cut>>

\* patchTurn: whatever turn has the id.
Patched(r, kind) ==
    [i \in DOMAIN turns |->
        IF turns[i].id = r.turn
        THEN [turns[i] EXCEPT !.blocks = Append(@, [kind |-> kind, run |-> r.run])]
        ELSE turns[i]]
Heard(r, messages) ==
    IF agent.no = r.agent THEN [agent EXCEPT !.messages = messages] ELSE agent

\* A message begins to stream in (what follows replaces its text).  One of
\* each kind for a run is enough, here and below.
StreamsProse(r) ==
    /\ "prose" \notin r.drawn
    /\ runs' = (runs \ {r}) \cup {[r EXCEPT !.drawn = @ \cup {"prose"}]}
    /\ turns' = Patched(r, "prose")
    /\ agent' = Heard(r, Append(agent.messages, Reply(r.run)))
    /\ UNCHANGED <<running, seq, waiting, asked, agents, overlapped, withCall, cut>>

\* The run's prose is the last message: its call goes into that message.
AfterProse(r) == agent.no = r.agent /\ Last(agent.messages) = Reply(r.run)
Attached(messages) ==
    Append(Front(messages), [Last(messages) EXCEPT !.calls = TRUE])

\* A tool is called, in the message of the prose before it or in one of its
\* own: a widget ("graph"), which is drawn and has no result, or a query of
\* the agent's ("query"), which is not drawn.
CallsTool(r, kind) ==
    /\ kind \notin r.drawn
    /\ runs' = (runs \ {r}) \cup {[r EXCEPT !.drawn = @ \cup {kind}]}
    /\ turns' = IF kind = "graph" THEN Patched(r, kind) ELSE turns
    /\ \E own \in {TRUE, ~AfterProse(r)} :
        /\ agent' = Heard(r, (IF own THEN Append(agent.messages, ToolCall(r.run))
                                     ELSE Attached(agent.messages))
                               \o (IF kind = "query" THEN <<ToolResult(r.run)>> ELSE <<>>))
        /\ withCall' = IF own THEN withCall ELSE withCall \cup {r.run}
    /\ seq' = seq + 1
    /\ UNCHANGED <<running, waiting, asked, agents, overlapped, cut>>

\* (mutant) an error leaves the console waiting.
AfterErrorStillRunning == running
AfterError == FALSE

RunFinished(r) ==
    /\ running' = FALSE /\ runs' = runs \ {r} /\ cut' = FALSE
    /\ UNCHANGED <<turns, seq, waiting, asked, agent, agents, overlapped, withCall>>
\* RUN_ERROR, and the catch of a failed request.
RunError(r) ==
    /\ running' = AfterError /\ runs' = runs \ {r} /\ cut' = FALSE
    /\ UNCHANGED <<turns, seq, waiting, asked, agent, agents, overlapped, withCall>>
\* The stream closes without either: runAgent returns, and nothing is done.
StreamCloses(r) ==
    /\ runs' = runs \ {r} /\ cut' = TRUE
    /\ UNCHANGED <<turns, running, seq, waiting, asked, agent, agents, overlapped, withCall>>

\* reset(): a run that still streams keeps its turn's id.
NewConversation ==
    /\ turns # <<>> /\ ~running
    /\ turns' = <<>> /\ seq' = 0 /\ agent' = NoAgent
    /\ overlapped' = (runs # {})
    /\ UNCHANGED <<running, waiting, asked, runs, agents, withCall, cut>>

AskStep ==
    \/ ClickAsk \/ BeginRun \/ NewConversation
    \/ \E r \in runs :
        \/ StreamsProse(r) \/ RunFinished(r) \/ RunError(r) \/ StreamCloses(r)
        \/ \E kind \in {"graph", "query"} : CallsTool(r, kind)

-----------------------------------------------------------------------------
(* Properties *)

\* What a run streams lands in the turn of its own question, as long as no
\* two runs overlapped: a turn's id is used again after a reset, and the
\* reset waits for the run (useAgUiStream 58-75, AskThreadNavigator 162-166).
BlocksInTheirTurn ==
    ~overlapped =>
    \A i \in DOMAIN turns : \A k \in DOMAIN turns[i].blocks : turns[i].blocks[k].run = turns[i].run

ProseOf(turn) ==
    Kept(turn.blocks, {k \in DOMAIN turn.blocks : turn.blocks[k].kind = "prose"})
Spoken(turn) ==
    <<Question(turn.run)>>
        \o (IF turn.run \in withCall THEN <<>>
                ELSE [k \in DOMAIN ProseOf(turn) |-> Reply(turn.run)])

\* The agent is sent the conversation on the screen in its order: every
\* question, every reply but those that called a tool, and no tool call or
\* result of an earlier turn (useAgUiStream 31-40, 66-100), as long as no two
\* runs overlapped.
AgentKnowsConversation ==
    (runs # {} /\ ~overlapped) =>
    /\ ConversationalHistory(agent.messages) =
         FlattenSeq([i \in DOMAIN turns |-> Spoken(turns[i])])
    /\ \A k \in DOMAIN agent.messages :
        (agent.messages[k].role = "tool" \/ agent.messages[k].calls) => agent.messages[k].run = asked

\* The console waits for a run that is over only after a stream that closed
\* without its last event; and unless runs overlapped or a stream closed so
\* it waits for every one (useAgUiStream 66-141).
RunningHasRun ==
    /\ running => (runs # {} \/ cut)
    /\ runs # {} => (running \/ overlapped)
=============================================================================
