---------------------------- MODULE ChatSessions ----------------------------
(***************************************************************************)
(* The chat sessions of the management service: sessions and messages in   *)
(* SQLite, and in memory one background task per message and the latest    *)
(* task of each session.  The event loop runs the tasks and the request    *)
(* for a message; requests that create or delete a session run in other    *)
(* threads.  Identifiers are SQLite rowids, one above the largest in the   *)
(* table, so that a deleted one may be given again.  What a task does until *)
(* it answers is in EvidenceBundle; the events it puts on its session's    *)
(* queue are left out: a task that waits for room in it just waits.        *)
(***************************************************************************)
EXTENDS Naturals

CONSTANTS
  Actor,     \* authenticated users
  Nobody,    \* no actor: there is no such row
  Sessions,  \* bound: the largest session identifier
  Messages   \* bound: messages asked

SessionsAssumption == Sessions \in Nat /\ Messages \in Nat /\ Nobody \notin Actor

VARIABLES
  owner,     \* chat_sessions: the actor of a session, or Nobody
  rows,      \* chat_messages: questions and answers, with the message they belong to
  asked,     \* messages asked so far
  admitted,  \* the session of a request that has passed its checks, 0 for none
  task,      \* the background task of a message and the session it was asked in
  current,   \* active_chat_tasks: the message last asked in a session, 0 for none
  uprooted   \* history: messages whose session was deleted before their task ended

chatVars == <<owner, rows, asked, admitted, task, current, uprooted>>

Session == 1..Sessions
Message == 1..Messages
RowId == 1..(2 * Messages)
Row == [id : RowId, session : Session, message : Message, answer : BOOLEAN]

Running(m) == task[m].step \in {"working", "rendering"}

(* Nothing is under way on the event loop: neither a request nor the part  *)
(* of a task from reading the bundle to its answer, which never waits.     *)
LoopFree == admitted = 0 /\ \A m \in Message : task[m].step # "rendering"

ChatInit ==
  /\ owner = [s \in Session |-> Nobody]
  /\ rows = {} /\ asked = 0 /\ admitted = 0
  /\ task = [m \in Message |-> [step |-> "none", session |-> 0]]
  /\ current = [s \in Session |-> 0]
  /\ uprooted = {}

(* The rowid SQLite gives the next session, and the next message.          *)
NextSession(s) ==
  /\ \A t \in Session : t >= s => owner[t] = Nobody
  /\ s > 1 => owner[s - 1] # Nobody

NextRow(n) ==
  /\ \A r \in rows : r.id < n
  /\ n = 1 \/ \E r \in rows : r.id = n - 1

Insert(message, session, answer) ==
  \E n \in RowId :
    /\ NextRow(n)
    /\ rows' = rows \cup {[id |-> n, session |-> session, message |-> message, answer |-> answer]}

Create ==
  /\ \E s \in Session, actor \in Actor :
       /\ NextSession(s)
       /\ owner' = [owner EXCEPT ![s] = actor]
  /\ UNCHANGED <<rows, asked, admitted, task, current, uprooted>>

(* A request for a message: the session is its actor's and its latest task *)
(* is done.                                                                *)
Admit ==
  /\ LoopFree /\ asked < Messages
  /\ \E s \in Session :
       /\ owner[s] # Nobody
       /\ current[s] # 0 => ~Running(current[s])
       /\ admitted' = s
  /\ UNCHANGED <<owner, rows, asked, task, current, uprooted>>

(* The rest of the request: the row, its bundle and its task.  A thread    *)
(* may have deleted the session since.                                     *)
Ask ==
  /\ admitted # 0
  /\ Insert(asked + 1, admitted, FALSE)
  /\ task' = [task EXCEPT ![asked + 1] = [step |-> "working", session |-> admitted]]
  /\ current' = [current EXCEPT ![admitted] = asked + 1]
  /\ asked' = asked + 1
  /\ admitted' = 0
  /\ UNCHANGED <<owner, uprooted>>

(* Mutant: with the session goes its place in active_chat_tasks.           *)
DeleteForgetting ==
  /\ \E s \in Session :
       /\ owner[s] # Nobody
       /\ owner' = [owner EXCEPT ![s] = Nobody]
       /\ rows' = {r \in rows : r.session # s}
       /\ current' = [current EXCEPT ![s] = 0]
       /\ uprooted' = uprooted \cup {m \in Message : Running(m) /\ task[m].session = s}
  /\ UNCHANGED <<asked, admitted, task>>

(* The session and its rows go; its task and its place in                  *)
(* active_chat_tasks stay.                                                 *)
Delete ==
  /\ \E s \in Session :
       /\ owner[s] # Nobody
       /\ owner' = [owner EXCEPT ![s] = Nobody]
       /\ rows' = {r \in rows : r.session # s}
       /\ uprooted' = uprooted \cup {m \in Message : Running(m) /\ task[m].session = s}
  /\ UNCHANGED <<asked, admitted, task, current>>

(* The agent is done and the task reads the bundle.                        *)
Conclude(m) ==
  /\ LoopFree /\ task[m].step = "working"
  /\ task' = [task EXCEPT ![m].step = "rendering"]
  /\ UNCHANGED <<owner, rows, asked, admitted, current, uprooted>>

(* The verified answer, or the fallback, becomes a row of the session.     *)
Reply(m) ==
  /\ task[m].step = "rendering"
  /\ Insert(m, task[m].session, TRUE)
  /\ task' = [task EXCEPT ![m].step = "done"]
  /\ UNCHANGED <<owner, asked, admitted, current, uprooted>>

(* Any exception ends a task, without an answer.                           *)
TaskFails(m) ==
  /\ task[m].step = "rendering" \/ (LoopFree /\ task[m].step = "working")
  /\ task' = [task EXCEPT ![m].step = "done"]
  /\ UNCHANGED <<owner, rows, asked, admitted, current, uprooted>>

(* The service restarts: its tasks and active_chat_tasks were in memory.   *)
ServiceRestart ==
  /\ admitted' = 0
  /\ task' = [m \in Message |-> IF Running(m) THEN [task[m] EXCEPT !.step = "done"] ELSE task[m]]
  /\ current' = [s \in Session |-> 0]
  /\ UNCHANGED <<owner, rows, asked, uprooted>>

ChatNext ==
  \/ Create \/ Admit \/ Ask \/ Delete \/ ServiceRestart
  \/ \E m \in Message : Conclude(m) \/ Reply(m) \/ TaskFails(m)

ChatSpec == ChatInit /\ [][ChatNext]_chatVars

-----------------------------------------------------------------------------
ChatTypeOK ==
  /\ owner \in [Session -> Actor \cup {Nobody}]
  /\ rows \subseteq Row
  /\ asked \in 0..Messages
  /\ admitted \in Session \cup {0}
  /\ task \in [Message -> [step : {"none", "working", "rendering", "done"}, session : Session \cup {0}]]
  /\ current \in [Session -> Message \cup {0}]
  /\ uprooted \subseteq Message

(* In every session an answer comes right behind the message it answers;   *)
(* only when the session was deleted under its task does it stand alone,   *)
(* and then ahead of all that a later session of that identifier asks.     *)
AnswersFollowMessages ==
  \A r \in rows : r.answer =>
    \/ \E p \in rows :
         /\ p.message = r.message /\ p.session = r.session /\ ~p.answer /\ p.id < r.id
         /\ \A q \in rows : q.session = r.session => q.id <= p.id \/ q.id >= r.id
    \/ /\ r.message \in uprooted
       /\ \A q \in rows : q.session = r.session => q.id >= r.id
=============================================================================
