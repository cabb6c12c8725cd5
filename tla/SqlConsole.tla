----------------------------- MODULE SqlConsole -----------------------------
(***************************************************************************)
(* The operations of the athena-query function that run SQL it did not     *)
(* write itself: freeformSql runs a given statement, text2sql one that a   *)
(* model wrote for a question.                                             *)
(***************************************************************************)
EXTENDS Naturals

\* A statement: its first word, where it names the table, whether it has a
\* word that writes, a second statement, unknown payload fields.  How many
\* rows it limits itself to, if any, does not matter here.
Statements ==
    [head : {"SELECT", "WITH", "OTHER"}, table : {"code", "comment", "no"},
     writes : BOOLEAN, second : BOOLEAN, unknown : BOOLEAN]

VARIABLES
    query,      \* the operation asked for, "" when none is
    sql,        \* its statement
    pc,         \* "idle", "generate", "guard", "run", "answer"
    status,     \* the status of the answer
    athenaRan   \* the last statement that Athena was given

sqlVars == <<query, sql, pc, status, athenaRan>>

NoSql == [head |-> "none"]

SqlInit ==
    /\ query = "" /\ sql = NoSql /\ pc = "idle" /\ status = 0 /\ athenaRan = NoSql

Answer(code) == pc' = "answer" /\ status' = code

\* A request with its statement, or with a question for the model.
SubmitSql ==
    /\ pc \in {"idle", "answer"}
    /\ query' \in {"freeformSql", "text2sql"}
    /\ IF query' = "text2sql" THEN sql' = NoSql /\ pc' = "generate"
       ELSE sql' \in Statements /\ pc' = "guard"
    /\ status' = 0 /\ UNCHANGED athenaRan

\* The text is missing, or the operation is not one of these.
RejectSql ==
    /\ pc \in {"idle", "answer"} /\ query' = "" /\ sql' = NoSql /\ Answer(400)
    /\ UNCHANGED athenaRan

\* The model writes whatever it writes, without a final semicolon.
GenerateSql ==
    /\ pc = "generate" /\ sql' \in Statements /\ pc' = "guard"
    /\ UNCHANGED <<query, status, athenaRan>>

\* The model is throttled or denied, or fails.
GenerateFails ==
    /\ pc = "generate" /\ \E code \in {500, 503} : Answer(code)
    /\ UNCHANGED <<query, sql, athenaRan>>

\* (mutant) comments are not stripped first.
ValidateFreeformSqlRaw(s) == s.head # "OTHER" /\ s.table # "no" /\ ~s.writes

\* The checks that both operations make.
ValidateFreeformSql(s) == s.head # "OTHER" /\ s.table = "code" /\ ~s.writes
\* Those that only a generated statement must pass as well.
ValidateGenerated(s) == ~s.second /\ ~s.unknown

GuardSql ==
    /\ pc = "guard"
    /\ IF ValidateFreeformSql(sql) /\ (query = "text2sql" => ValidateGenerated(sql))
       THEN pc' = "run" /\ UNCHANGED status
       ELSE Answer(400)
    /\ UNCHANGED <<query, sql, athenaRan>>

\* Athena refuses a second statement; the query may fail or not end in time.
RunSql ==
    /\ pc = "run" /\ athenaRan' = sql
    /\ \/ Answer(500)
       \/ ~sql.second /\ Answer(200)
    /\ UNCHANGED <<query, sql>>

SqlStep == SubmitSql \/ RejectSql \/ GenerateSql \/ GenerateFails \/ GuardSql \/ RunSql

-----------------------------------------------------------------------------
\* What Athena is given, by a user or by the model, only reads and reads the
\* events, in its code and not in a comment; what is answered from the
\* model's text has no payload field that is not in the catalog
\* (athena-query 224-298, 346-382).
OnlyGuardedSqlRuns ==
    /\ athenaRan # NoSql =>
        athenaRan.head # "OTHER" /\ ~athenaRan.writes /\ athenaRan.table = "code"
    /\ (pc = "answer" /\ status = 200) =>
        sql = athenaRan /\ ~sql.second /\ (query = "text2sql" => ~sql.unknown)
=============================================================================
