--------------------------- MODULE PanelRequests ---------------------------
(***************************************************************************)
(* The requests of the panel daemon (opdd) and its SQLite tables.  Every   *)
(* HTTP request runs in a goroutine of its own, every connection of the    *)
(* socket in another (requests of one connection follow one another); both *)
(* deliveries call the same use cases, which hold no lock around what they *)
(* read and write.  A request is a record of `task`; each of its steps is  *)
(* one statement sent to a database, one call of the agent, or one         *)
(* critical section, and the steps of two requests interleave.             *)
(*                                                                         *)
(* A table is a set of rows.  A uuid is the number of the call that        *)
(* created the row, so ids are never reused.                               *)
(***************************************************************************)
EXTENDS Naturals, Sequences, FiniteSets

CONSTANTS
  Tasks,       \* goroutines that serve requests
  Workloads,   \* the kinds of requests that clients mix in one behaviour
  MaxCalls,    \* bound: calls in a behaviour (requests and cron firings)
  MaxFaults    \* bound: failed statements, lost answers, restarts

ASSUME PanelAssumption == MaxCalls \in Nat \ {0} /\ MaxFaults \in Nat

VARIABLES
  clients,     \* the kinds of requests of this behaviour; never changes
  schema,      \* who made the tables: "opdd" or the "goose" migrations
  task,        \* task[t]: the request goroutine t serves
  calls,       \* calls so far
  faults       \* faults so far

requestVars == <<clients, schema, task, calls, faults>>

Kinds == {"server", "schedule", "allocation", "subuser", "database"}
Ids   == 1..MaxCalls

ASSUME WorkloadsAssumption == Workloads \subseteq SUBSET Kinds

Idle == [op |-> "idle", pc |-> "idle", n |-> 0, key |-> 0, held |-> {}, plan |-> <<>>]

(***************************************************************************)
(* SQL.  Select, Update and Delete name a row by its id; an UPDATE or a    *)
(* DELETE that finds no row changes nothing and is no error.  An INSERT    *)
(* fails when rows with the same unique columns exist (`clashing`).  The   *)
(* other form of Update and of Insert is what a mutant uses.               *)
(***************************************************************************)
Select(table, id) == {r \in table : r.id = id}
UpdateOrInsert(table, row) == {r \in table : r.id # row.id} \cup {row}
Update(table, row) == {IF r.id = row.id THEN row ELSE r : r \in table}
Delete(table, id) == {r \in table : r.id # id}
InsertOrReplace(table, row, clashing) == (table \ clashing) \cup {row}
Insert(table, row, clashing) == IF clashing = {} THEN table \cup {row} ELSE table

\* CREATE TABLE IF NOT EXISTS keeps the tables the migrations made.  Only those
\* have the columns that the statements on subusers and server_databases name.
HasColumns == schema = "goose"

(***************************************************************************)
(* The life of a request.                                                  *)
(***************************************************************************)
Arrive(t, kind, req) ==
  /\ kind \in clients
  /\ task[t] = Idle
  /\ calls < MaxCalls
  /\ calls' = calls + 1
  /\ task' = [task EXCEPT ![t] = req]

Request(op, pc, key, held) ==
  [op |-> op, pc |-> pc, n |-> calls + 1, key |-> key, held |-> held, plan |-> <<>>]

At(t, op, pc) == task[t].op = op /\ task[t].pc = pc
Row(t)        == CHOOSE r \in task[t].held : TRUE
Answer(t)     == task' = [task EXCEPT ![t] = Idle]
Goes(t, pc)   == task' = [task EXCEPT ![t].pc = pc]
Holds(t, pc, rows) ==
  task' = [task EXCEPT ![t] = [@ EXCEPT !.pc = pc, !.held = rows]]

\* A handler that looks a row up by the id of the request and goes on with it.
LooksUp(t, table, pc) ==
  LET rows == Select(table, task[t].key)
  IN  IF rows = {} THEN Answer(t) ELSE Holds(t, pc, rows)

Fault == faults < MaxFaults /\ faults' = faults + 1

\* The steps that wait for a database and may get an error: SQLITE_BUSY (two
\* connections, no busy timeout), a cancelled context, MySQL down.  SQLite runs
\* in this process: a statement of it that returns an error has changed nothing.
\* A MySQL statement may have been carried out although its answer is lost.
Statements == {"look", "insert", "get", "write", "delete",
               "mkdb", "mkuser", "grant", "flush"}

\* The error ends the request, except that Create of a server and Add of a
\* subuser drop the error of their look-up and go on to the INSERT.
StatementFails(t) ==
  /\ task[t].pc \in Statements
  /\ Fault
  /\ IF At(t, "create", "look") \/ At(t, "add", "look")
       THEN Goes(t, "insert") ELSE Answer(t)

RequestsInit ==
  /\ clients \in Workloads
  /\ schema \in {"opdd", "goose"}
  /\ task = [t \in Tasks |-> Idle]
  /\ calls = 0
  /\ faults = 0
=============================================================================
