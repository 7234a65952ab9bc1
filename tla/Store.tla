------------------------------- MODULE Store -------------------------------
(***************************************************************************)
(* The SQLite store of sctp-probe (sctp_probe/store.py).                   *)
(*                                                                         *)
(* Every public method runs one _*_sync function in a worker thread, and   *)
(* every _*_sync function holds _conn_lock from its first statement to its *)
(* commit.  One method is therefore one atomic step on the database, and   *)
(* this module gives that step for each of them; the modules that EXTEND   *)
(* it say who takes the step and when.                                     *)
(*                                                                         *)
(* A table is a function from row ids to rows.  AUTOINCREMENT keeps the    *)
(* largest id ever given out, so ids grow and are never given out twice,   *)
(* not even after a DELETE.  The column rules.active is left out: no       *)
(* endpoint can write anything but its default 1.                          *)
(***************************************************************************)
EXTENDS Integers, FiniteSets

CONSTANT MaxLimit  \* most rows get_messages gives, 1000 in the source

ASSUME MaxLimitAssumption == MaxLimit \in Nat \ {0}

VARIABLES
    messages,       \* the messages table: id -> row
    lastMessageId,  \* sqlite_sequence of messages
    rules,          \* the rules table: id -> [body, fired]
    lastRuleId,     \* sqlite_sequence of rules
    session         \* the value of meta.session_id; a fresh uuid is a new number

storeVars == <<messages, lastMessageId, rules, lastRuleId, session>>

\* Table t with row stored under id, and table t without the rows in ids.
InsertRow(t, id, row) == [i \in DOMAIN t \cup {id} |-> IF i = id THEN row ELSE t[i]]
DeleteRows(t, ids) == [i \in DOMAIN t \ ids |-> t[i]]

NoRows == [i \in {} |-> 0]

\* init_db on a new file: empty tables and a first session id.
InitDb ==
    /\ messages = NoRows
    /\ lastMessageId = 0
    /\ rules = NoRows
    /\ lastRuleId = 0
    /\ session = 0

\* init_db on the file of an earlier run: CREATE IF NOT EXISTS and INSERT OR
\* IGNORE change nothing, the tables and the session survive a restart.
ReopenDb == UNCHANGED storeVars

-----------------------------------------------------------------------------
(* messages *)

\* Mutant: without AUTOINCREMENT the id is one more than the largest in the table.
NextMessageId_Reused == CHOOSE n \in 1..lastMessageId + 1 :
    (n = 1 \/ n - 1 \in DOMAIN messages) /\ \A i \in DOMAIN messages : i < n

\* The id the next INSERT gets.
NextMessageId == lastMessageId + 1

\* save_message: INSERT, commit, and the saved row read back under its new id.
SaveMessage(row) ==
    /\ messages' = InsertRow(messages, NextMessageId, row)
    /\ lastMessageId' = NextMessageId
    /\ UNCHANGED <<rules, lastRuleId, session>>

\* Mutant: no lower bound on the limit.
PageSize_NoFloor(limit) == IF limit > MaxLimit THEN MaxLimit ELSE limit

\* min(max(1, limit), 1000)
PageSize(limit) ==
    IF limit < 1 THEN 1 ELSE IF limit > MaxLimit THEN MaxLimit ELSE limit

\* Mutant: WHERE id >= since
Newer_Inclusive(since, direction) ==
    {i \in DOMAIN messages : i >= since /\ direction \in {"any", messages[i].direction}}

\* WHERE id > since AND direction = ...; direction None is no condition.
Newer(since, direction) ==
    {i \in DOMAIN messages : i > since /\ direction \in {"any", messages[i].direction}}

\* Mutant: ORDER BY id DESC, the newest rows fill the page.
GetMessages_Newest(since, direction, limit) ==
    LET hits == Newer(since, direction)
    IN  {i \in hits : Cardinality({j \in hits : j > i}) < PageSize(limit)}

\* get_messages: the ids of the page, ORDER BY id ASC LIMIT PageSize(limit).
GetMessages(since, direction, limit) ==
    LET hits == Newer(since, direction)
    IN  {i \in hits : Cardinality({j \in hits : j < i}) < PageSize(limit)}

DeleteAllMessages ==
    /\ messages' = NoRows
    /\ UNCHANGED <<lastMessageId, rules, lastRuleId, session>>

-----------------------------------------------------------------------------
(* rules *)

\* Mutant: without AUTOINCREMENT the id of the last rule is given out again.
NextRuleId_Reused == CHOOSE n \in 1..lastRuleId + 1 :
    (n = 1 \/ n - 1 \in DOMAIN rules) /\ \A r \in DOMAIN rules : r < n

\* The id the next rule gets.
NextRuleId == lastRuleId + 1

\* save_rule: the columns of the request body, fired = 0.
SaveRule(body) ==
    /\ rules' = InsertRow(rules, NextRuleId, [body |-> body, fired |-> 0])
    /\ lastRuleId' = NextRuleId
    /\ UNCHANGED <<messages, lastMessageId, session>>

DeleteRule(id) ==
    /\ rules' = DeleteRows(rules, {id})
    /\ UNCHANGED <<messages, lastMessageId, lastRuleId, session>>

DeleteAllRules ==
    /\ rules' = NoRows
    /\ UNCHANGED <<messages, lastMessageId, lastRuleId, session>>

\* UPDATE rules SET fired = fired + 1 WHERE id = ?: nothing when the rule is gone.
IncrementFired(id) ==
    /\ rules' = [r \in DOMAIN rules |->
                    IF r = id THEN [rules[r] EXCEPT !.fired = @ + 1] ELSE rules[r]]
    /\ UNCHANGED <<messages, lastMessageId, lastRuleId, session>>

-----------------------------------------------------------------------------
(* session *)

\* reset_session: a new session id and DELETE FROM rules in one transaction.
\* The messages are counted for the answer and stay in the table.
ResetSession ==
    /\ session' = session + 1
    /\ rules' = NoRows
    /\ UNCHANGED <<messages, lastMessageId, lastRuleId>>
=============================================================================
