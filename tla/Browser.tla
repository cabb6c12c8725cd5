------------------------------- MODULE Browser -------------------------------
(***************************************************************************)
(* The single-page application: the sign-in, the router, and the pages     *)
(* behind it.  A page's parts keep their own state and make their own      *)
(* requests, so one part at a time is looked at; the live feed and the     *)
(* demo control page have modules of their own (LiveFeed, DemoControl).    *)
(***************************************************************************)
EXTENDS ThreadPage, AskAgent, DataPanels, SqlConsole, AgentRuns, SystemPages, ShopFloor

CONSTANTS Opened        \* <<hash, part>>: what is looked at

VARIABLES
    authenticated,  \* "unknown" until Amplify answers, then "yes" or "no"
    login,          \* the sign-in form: [loading, error, needsNewPassword]
    route, part     \* the hash, and the part of its page that is looked at

appVars == <<authenticated, login, route, part>>
pagesVars == <<threadVars, chatVars, panelVars, sqlVars, runsVars, systemVars, shopVars>>
browserVars == <<appVars, pagesVars>>

\* Router: the parts of the page of a hash; an unknown hash is the quality
\* dashboard.
SystemHashes == {"#/systems/qms", "#/systems/mes", "#/systems/erp", "#/systems/srm", "#/systems/wms",
                 "#/systems/dhr", "#/systems/program", "#/systems/inservice"}
Parts(hash) ==
    CASE hash = "#/dashboard/shop-floor" -> {"machines"}
      [] hash = "#/digital-thread" -> {"thread", "navigator", "ask"}
      [] hash = "#/datalake" -> {"ev", "sql", "ask"}
      [] hash = "#/agent-observability" -> {"runs"}
      [] hash = "#/systems/plm" -> {"table", "drawing"}
      [] hash \in SystemHashes -> {"table"}
      [] OTHER -> {"trend"}

ASSUME BrowserAssumption == \A o \in Opened : o[2] \in Parts(o[1])

-----------------------------------------------------------------------------
(* Signing in *)

NotAsked == [loading |-> FALSE, error |-> FALSE, needsNewPassword |-> FALSE]

CurrentUser ==
    /\ authenticated = "unknown" /\ authenticated' \in {"yes", "no"}
    /\ UNCHANGED <<login, route, part, pagesVars>>

\* The password, or the new one, is sent.
Submit ==
    /\ authenticated = "no" /\ ~login.loading
    /\ login' = [login EXCEPT !.loading = TRUE, !.error = FALSE]
    /\ UNCHANGED <<authenticated, route, part, pagesVars>>

\* Cognito answers: signed in, a new password is needed, an error, or a step
\* that the form does not know.
SignInAnswered ==
    /\ authenticated = "no" /\ login.loading
    /\ \/ authenticated' = "yes" /\ login' = NotAsked
       \/ /\ authenticated' = "no"
          /\ \/ ~login.needsNewPassword /\ login' = [NotAsked EXCEPT !.needsNewPassword = TRUE]
             \/ \E error \in BOOLEAN : login' = [login EXCEPT !.loading = FALSE, !.error = error]
    /\ UNCHANGED <<route, part, pagesVars>>

-----------------------------------------------------------------------------
BrowserInit ==
    /\ authenticated = "unknown" /\ login = NotAsked
    /\ \E o \in Opened : route = o[1] /\ part = o[2]
    /\ IF part \in {"thread", "navigator"} THEN ThreadInit ELSE ThreadIdle
    /\ IF part \in {"ev", "trend", "drawing"} THEN PanelInit({part}) ELSE PanelIdle
    /\ IF part = "table" THEN SystemInit ELSE SystemIdle
    /\ IF part = "machines" THEN ShopFloorInit ELSE ShopFloorIdle
    /\ AskInit /\ SqlInit /\ RunsIdle

Viewing(p) == authenticated = "yes" /\ part = p /\ UNCHANGED appVars

ThreadViewed ==
    /\ \/ Viewing("thread") /\ (ThreadWriters \/ ThreadPageStep \/ PlanStep)
       \/ Viewing("navigator") /\ (ThreadWriters \/ ThreadPageStep \/ NavigatorStep)
    /\ UNCHANGED <<chatVars, panelVars, sqlVars, runsVars, systemVars, shopVars>>
ConversationHeld ==
    /\ Viewing("ask") /\ AskStep
    /\ UNCHANGED <<threadVars, panelVars, sqlVars, runsVars, systemVars, shopVars>>
PanelViewed ==
    /\ \E p \in {"ev", "trend", "drawing"} : Viewing(p)
    /\ PanelStep
    /\ UNCHANGED <<threadVars, chatVars, sqlVars, runsVars, systemVars, shopVars>>
SqlAsked ==
    /\ Viewing("sql") /\ SqlStep
    /\ UNCHANGED <<threadVars, chatVars, panelVars, runsVars, systemVars, shopVars>>
RunsViewed ==
    /\ Viewing("runs") /\ RunsStep
    /\ UNCHANGED <<threadVars, chatVars, panelVars, sqlVars, systemVars, shopVars>>
TableViewed ==
    /\ Viewing("table") /\ SystemStep
    /\ UNCHANGED <<threadVars, chatVars, panelVars, sqlVars, runsVars, shopVars>>
MachinesViewed ==
    /\ Viewing("machines") /\ ShopFloorStep
    /\ UNCHANGED <<threadVars, chatVars, panelVars, sqlVars, runsVars, systemVars>>

BrowserNext ==
    \/ CurrentUser \/ Submit \/ SignInAnswered
    \/ ThreadViewed \/ ConversationHeld \/ PanelViewed \/ SqlAsked
    \/ RunsViewed \/ TableViewed \/ MachinesViewed

BrowserSpec == BrowserInit /\ [][BrowserNext]_browserVars
=============================================================================
