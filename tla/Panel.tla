------------------------------- MODULE Panel -------------------------------
(***************************************************************************)
(* The panel daemon (opdd): game servers (usecase/server.go), schedules    *)
(* (usecase/schedule.go) with the cron library that fires them, the agent  *)
(* both of them call, and the resources of PanelResources, under one bound *)
(* on calls and with restarts of the daemon.                               *)
(*                                                                         *)
(* The agent is seen through its client: it accepts a start or a stop, or  *)
(* refuses it, and its answer may be lost.                                 *)
(***************************************************************************)
EXTENDS PanelResources

CONSTANTS
  Names,       \* names of game servers
  Runs         \* goroutines that execute a schedule

VARIABLES
  servers,     \* rows [id, name, status]
  accepted,    \* accepted[s]: the last power call on s that took effect
  schedules,   \* rows [id, server, enabled, valid, plan]
  cron,        \* entries of the cron library: [eid, row], row a copy
  entries,     \* ScheduleUseCase.entries: schedule id -> entry id, 0 if none
  run,         \* run[g]: [rows, plan] of execute, rows = {} when g is free
  drift,       \* history: servers whose row need not tell what the agent did
  tangled      \* history: schedules whose entry need not tell their row

serverVars   == <<servers, accepted, drift>>
scheduleVars == <<schedules, cron, entries, tangled>>
vars == <<requestVars, resourceVars, serverVars, scheduleVars, run>>

Statuses == {"stopped", "starting", "stopping"}
Power    == {"start", "stop"}

\* The status Start and Stop write; "running" is written by no code.
Status(action) == IF action = "start" THEN "starting" ELSE "stopping"

(***************************************************************************)
(* Game servers.                                                           *)
(***************************************************************************)
SameName(s) == {r \in servers : r.name = s.name}

CallCreate(t) ==
  \E name \in Names :
     /\ Arrive(t, "server", Request("create", "look", 0,
          {[id |-> calls + 1, name |-> name, status |-> "stopped"]}))
     /\ UNCHANGED <<drift, tangled>>

\* Start, Stop and Restart; Restart is Stop and, if it succeeds, Start.
CallPower(t) ==
  \E id \in 1..calls, plan \in {<<"start">>, <<"stop">>, <<"stop", "start">>} :
     /\ Arrive(t, "server", [Request("power", "get", id, {}) EXCEPT !.plan = plan])
     /\ drift' = IF \E u \in Tasks : task[u].op = "power" /\ task[u].key = id
                   THEN drift \cup {id} ELSE drift
     /\ UNCHANGED tangled

CallDelete(t) ==
  \E id \in 1..calls :
     /\ Arrive(t, "server", Request("delete", "get", id, {}))
     /\ UNCHANGED <<drift, tangled>>

Create(t) ==
  \/ /\ At(t, "create", "look")
     /\ IF SameName(Row(t)) = {} THEN Goes(t, "insert") ELSE Answer(t)
     /\ UNCHANGED servers
  \/ /\ At(t, "create", "insert")
     /\ servers' = Insert(servers, Row(t), SameName(Row(t)))
     /\ Answer(t)

GetServer(t) ==
  /\ At(t, "power", "get")
  /\ LET rows == Select(servers, task[t].key)
         stops == Head(task[t].plan) = "stop"
     IN  IF rows = {} \/ (stops /\ \E s \in rows : s.status = "stopped")
           THEN Answer(t) ELSE Holds(t, "agent", rows)

\* The agent's answer: done, refused, or done while the answer is lost (the
\* client's timeout of 30 s, a client that hung up).
AskAgentUnchecked(t) ==
  LET id == task[t].key
      Takes == accepted' = [accepted EXCEPT ![id] = Head(task[t].plan)]
  IN /\ At(t, "power", "agent")
     /\ \/ Takes /\ Goes(t, "write") /\ UNCHANGED <<drift, faults>>
        \/ Goes(t, "write") /\ UNCHANGED <<accepted, drift, faults>>

AskAgent(t) ==
  LET id == task[t].key
      Takes == accepted' = [accepted EXCEPT ![id] = Head(task[t].plan)]
  IN /\ At(t, "power", "agent")
     /\ \/ Takes /\ Goes(t, "write") /\ UNCHANGED <<drift, faults>>
        \/ Answer(t) /\ UNCHANGED <<accepted, drift, faults>>
        \/ Takes /\ Answer(t) /\ Fault /\ drift' = drift \cup {id}

WriteStatus(t) ==
  /\ At(t, "power", "write")
  /\ servers' = Update(servers, [Row(t) EXCEPT !.status = Status(Head(task[t].plan))])
  /\ IF Len(task[t].plan) = 1 THEN Answer(t)
     ELSE task' = [task EXCEPT ![t] = [@ EXCEPT !.pc = "get",
                                               !.plan = Tail(task[t].plan)]]

DeleteServer(t) ==
  \/ /\ At(t, "delete", "get")
     /\ LooksUp(t, servers, "delete")
     /\ UNCHANGED servers
  \/ /\ At(t, "delete", "delete")
     /\ servers' = Delete(servers, task[t].key)
     /\ Answer(t)

ServerStep(t) ==
  /\ \/ Create(t) /\ UNCHANGED <<accepted, drift, faults>>
     \/ GetServer(t) /\ UNCHANGED <<serverVars, faults>>
     \/ AskAgent(t) /\ UNCHANGED servers
     \/ WriteStatus(t) /\ UNCHANGED <<accepted, drift, faults>>
     \/ DeleteServer(t) /\ UNCHANGED <<accepted, drift, faults>>
  /\ UNCHANGED <<calls, scheduleVars, run>>

(***************************************************************************)
(* Schedules.  A body is what Create and Update take: a schedule that does *)
(* nothing but write its row back, one that restarts a server, one that is *)
(* disabled, one whose expression cron does not parse.  Commands and       *)
(* backups change nothing the panel keeps.                                 *)
(***************************************************************************)
Bodies ==
  { [enabled |-> TRUE,  valid |-> TRUE,  plan |-> <<>>],
    [enabled |-> TRUE,  valid |-> TRUE,  plan |-> <<"stop", "start">>],
    [enabled |-> FALSE, valid |-> TRUE,  plan |-> <<>>],
    [enabled |-> TRUE,  valid |-> FALSE, plan |-> <<>>] }

ScheduleRow(id, server, b) ==
  [id |-> id, server |-> server, enabled |-> b.enabled, valid |-> b.valid,
   plan |-> b.plan]

ScheduleOps == {"addSchedule", "updateSchedule", "removeSchedule"}
Handles(t, id) ==
  task[t].op \in ScheduleOps
    /\ (task[t].key = id \/ \E r \in task[t].held : r.id = id)

CallAddSchedule(t) ==
  \E s \in 1..(calls + 1), b \in Bodies :
     /\ Arrive(t, "schedule", Request("addSchedule", "insert", 0,
          {ScheduleRow(calls + 1, s, b)}))
     /\ UNCHANGED <<drift, tangled>>

Tangle(id) ==
  tangled' = IF \E u \in Tasks : Handles(u, id) THEN tangled \cup {id} ELSE tangled

CallUpdateSchedule(t) ==
  \E id \in 1..calls, b \in Bodies :
     /\ Arrive(t, "schedule", Request("updateSchedule", "get", id,
          {ScheduleRow(id, id, b)}))
     /\ Tangle(id)
     /\ UNCHANGED drift

CallRemoveSchedule(t) ==
  \E id \in 1..calls :
     /\ Arrive(t, "schedule", Request("removeSchedule", "unregister", id, {}))
     /\ Tangle(id)
     /\ UNCHANGED drift

CallRunNow(t) ==
  \E id \in 1..calls :
     /\ Arrive(t, "schedule", Request("runSchedule", "get", id, {}))
     /\ UNCHANGED <<drift, tangled>>

InsertSchedule(t) ==
  /\ At(t, "addSchedule", "insert")
  /\ schedules' = schedules \cup {Row(t)}
  /\ IF Row(t).enabled THEN Goes(t, "add") ELSE Answer(t)
  /\ UNCHANGED <<cron, entries, run>>

\* Update keeps the server of the row it read.
GetSchedule(t) ==
  /\ At(t, "updateSchedule", "get")
  /\ LET rows == {[Row(t) EXCEPT !.server = r.server] :
                    r \in Select(schedules, task[t].key)}
     IN  IF rows = {} THEN Answer(t) ELSE Holds(t, "write", rows)
  /\ UNCHANGED <<schedules, cron, entries, run>>

WriteSchedule(t) ==
  /\ At(t, "updateSchedule", "write")
  /\ schedules' = Update(schedules, Row(t))
  /\ Goes(t, "unregister")
  /\ UNCHANGED <<cron, entries, run>>

UnregisterForgets(t) ==
  LET id == task[t].key IN
  /\ task[t].pc = "unregister"
  /\ entries' = [entries EXCEPT ![id] = 0]
  /\ CASE task[t].op = "removeSchedule" -> Goes(t, "delete")
       [] task[t].op = "updateSchedule" ->
            IF Row(t).enabled THEN Goes(t, "add") ELSE Answer(t)
  /\ UNCHANGED <<schedules, cron, run>>

\* unregister, under the mutex; what follows depends on the operation.
Unregister(t) ==
  LET id == task[t].key IN
  /\ task[t].pc = "unregister"
  /\ cron' = {e \in cron : e.eid # entries[id]}
  /\ entries' = [entries EXCEPT ![id] = 0]
  /\ CASE task[t].op = "removeSchedule" -> Goes(t, "delete")
       [] task[t].op = "updateSchedule" ->
            IF Row(t).enabled THEN Goes(t, "add") ELSE Answer(t)
  /\ UNCHANGED <<schedules, run>>

\* register: AddFunc outside the mutex, then the assignment under it.  An
\* expression that does not parse is dropped without an error.
AddFunc(t) ==
  /\ task[t].pc = "add"
  /\ IF Row(t).valid
       THEN cron' = cron \cup {[eid |-> task[t].n, row |-> Row(t)]} /\ Goes(t, "assign")
       ELSE UNCHANGED cron /\ Answer(t)
  /\ UNCHANGED <<schedules, entries, run>>

AssignEntry(t) ==
  /\ task[t].pc = "assign"
  /\ entries' = [entries EXCEPT ![Row(t).id] = task[t].n]
  /\ Answer(t)
  /\ UNCHANGED <<schedules, cron, run>>

RemoveSchedule(t) ==
  /\ At(t, "removeSchedule", "delete")
  /\ schedules' = Delete(schedules, task[t].key)
  /\ Answer(t)
  /\ UNCHANGED <<cron, entries, run>>

FreeRun == [rows |-> {}, plan |-> <<>>]
Executes(g, row) ==
  run[g] = FreeRun /\ run' = [run EXCEPT ![g] = [rows |-> {row}, plan |-> row.plan]]

RunNow(t) ==
  /\ At(t, "runSchedule", "get")
  /\ LET rows == Select(schedules, task[t].key)
     IN  IF rows = {} THEN UNCHANGED run
         ELSE \E g \in Runs, r \in rows : Executes(g, r)
  /\ Answer(t)
  /\ UNCHANGED <<schedules, cron, entries>>

ScheduleStep(t) ==
  /\ \/ InsertSchedule(t) \/ GetSchedule(t) \/ WriteSchedule(t)
     \/ Unregister(t) \/ AddFunc(t) \/ AssignEntry(t)
     \/ RemoveSchedule(t) \/ RunNow(t)
  /\ UNCHANGED <<calls, faults, serverVars, tangled>>

(***************************************************************************)
(* execute: the tasks of the copy it was given, then last_run_at, written  *)
(* together with every other column of the copy.  It calls the agent       *)
(* itself, so the server's row does not follow; errors are ignored.        *)
(***************************************************************************)
Fire ==
  /\ calls < MaxCalls
  /\ calls' = calls + 1
  /\ \E e \in cron, g \in Runs : Executes(g, e.row)
  /\ UNCHANGED <<clients, schema, task, faults, resourceVars, serverVars, scheduleVars>>

RunAsksAgent(g) ==
  /\ run[g].plan # <<>>
  /\ LET id == (CHOOSE r \in run[g].rows : TRUE).server IN
       \/ /\ accepted' = [accepted EXCEPT ![id] = Head(run[g].plan)]
          /\ drift' = drift \cup {id}
       \/ UNCHANGED <<accepted, drift>>
  /\ run' = [run EXCEPT ![g].plan = Tail(@)]
  /\ UNCHANGED <<requestVars, resourceVars, servers, scheduleVars>>

RunEnds(g, ok) ==
  /\ run[g].rows # {} /\ run[g].plan = <<>>
  /\ LET row == CHOOSE r \in run[g].rows : TRUE IN
       IF ok THEN /\ schedules' = Update(schedules, row)
                  /\ tangled' = IF row \in schedules THEN tangled
                                ELSE tangled \cup {row.id}
             ELSE UNCHANGED <<schedules, tangled>>
  /\ run' = [run EXCEPT ![g] = FreeRun]
  /\ IF ok THEN UNCHANGED faults ELSE Fault
  /\ UNCHANGED <<clients, schema, task, calls, resourceVars, serverVars, cron, entries>>

(***************************************************************************)
(* A statement that fails, and a restart of the daemon: SIGTERM ends main  *)
(* with the requests and the runs that are under way, the tables stay, and *)
(* NewScheduleUseCase registers none of the stored schedules.              *)
(***************************************************************************)
StatementError(t) ==
  /\ StatementFails(t)
  /\ drift' = IF At(t, "power", "write") THEN drift \cup {task[t].key} ELSE drift
  /\ tangled' = IF At(t, "removeSchedule", "delete")
                  THEN tangled \cup {task[t].key} ELSE tangled
  /\ UNCHANGED <<clients, schema, calls, resourceVars, servers, accepted,
                 schedules, cron, entries, run>>

Restarted ==
  /\ task' = [t \in Tasks |-> Idle]
  /\ cron' = {}
  /\ entries' = [id \in Ids |-> 0]
  /\ run' = [g \in Runs |-> FreeRun]

Reboot ==
  /\ Fault
  /\ Restarted
  /\ drift' = drift \cup {task[t].key : t \in {u \in Tasks : task[u].op = "power"}}
  /\ tangled' = tangled \cup {s.id : s \in schedules}
  /\ UNCHANGED <<clients, schema, calls, resourceVars, servers, accepted, schedules>>

(***************************************************************************)
(* The specification.                                                      *)
(***************************************************************************)
CallServer(t)   == CallCreate(t) \/ CallPower(t) \/ CallDelete(t)
CallSchedule(t) == \/ CallAddSchedule(t) \/ CallUpdateSchedule(t)
                   \/ CallRemoveSchedule(t) \/ CallRunNow(t)

Call(t) ==
  /\ \/ CallServer(t) \/ CallSchedule(t)
     \/ CallResource(t) /\ UNCHANGED <<drift, tangled>>
  /\ UNCHANGED <<clients, schema, faults, resourceVars, servers, accepted,
                 schedules, cron, entries, run>>

Serve(t) ==
  /\ \/ (ServerStep(t) \/ ScheduleStep(t)) /\ UNCHANGED resourceVars
     \/ ResourceStep(t) /\ UNCHANGED <<serverVars, scheduleVars, run>>
  /\ UNCHANGED <<clients, schema>>

Init ==
  /\ RequestsInit
  /\ ResourcesInit
  /\ servers = {} /\ schedules = {} /\ cron = {}
  /\ accepted = [id \in Ids |-> "none"]
  /\ entries = [id \in Ids |-> 0]
  /\ run = [g \in Runs |-> FreeRun]
  /\ drift = {} /\ tangled = {}

Next ==
  \/ \E t \in Tasks : Call(t) \/ Serve(t) \/ StatementError(t)
  \/ Fire
  \/ \E g \in Runs : RunAsksAgent(g) \/ RunEnds(g, TRUE) \/ RunEnds(g, FALSE)
  \/ Reboot

Spec == Init /\ [][Next]_vars

(***************************************************************************)
(* Properties.                                                             *)
(***************************************************************************)
ServerRows   == [id : Ids, name : Names, status : Statuses]
Plans        == {<<>>, <<"start">>, <<"stop">>, <<"stop", "start">>}
ScheduleRows == [id : Ids, server : Ids, enabled : BOOLEAN, valid : BOOLEAN, plan : Plans]

TypeOK ==
  /\ clients \in SUBSET Kinds
  /\ schema \in {"opdd", "goose"}
  /\ calls \in 0..MaxCalls /\ faults \in 0..MaxFaults
  /\ \A t \in Tasks : /\ task[t].n \in 0..calls /\ task[t].key \in 0..MaxCalls
                      /\ Cardinality(task[t].held) <= 1 /\ task[t].plan \in Plans
  /\ ResourcesTypeOK
  /\ servers \subseteq ServerRows
  /\ schedules \subseteq ScheduleRows
  /\ cron \subseteq [eid : Ids, row : ScheduleRows]
  /\ \A g \in Runs : run[g].rows \subseteq ScheduleRows /\ run[g].plan \in Plans
  /\ accepted \in [Ids -> Power \cup {"none"}]
  /\ entries \in [Ids -> 0..MaxCalls]
  /\ drift \subseteq Ids /\ tangled \subseteq Ids

\* The status of a server's row is that of the last power call the agent carried
\* out (server.go Start and Stop), once no request on the server is under way:
\* unless two of them overlapped, an answer or a write was lost, the daemon was
\* restarted in between, or a schedule moved the server.
RowAgreesWithAgent ==
  \A s \in servers :
    \/ s.id \in drift
    \/ \E t \in Tasks : task[t].op = "power" /\ task[t].key = s.id
    \/ s.status = IF accepted[s.id] = "none" THEN "stopped" ELSE Status(accepted[s.id])

\* The cron library has one entry for every enabled schedule whose expression
\* parses, with the row as it is stored, and none for another or for a deleted
\* one, and the entry is the one `entries` names, so that the next Update or
\* Delete finds it (schedule.go register and unregister): once no request on the
\* schedule is under way, and unless two overlapped, a run wrote an older copy
\* back, a delete failed half-way, or the daemon was restarted.
CronMatchesRows ==
  \A id \in Ids \ tangled :
    \/ \E t \in Tasks : Handles(t, id)
    \/ {[eid |-> entries[id], row |-> s] :
           s \in {r \in schedules : r.id = id /\ r.enabled /\ r.valid}}
         = {e \in cron : e.row.id = id}

\* The unique columns belong to whoever came first: no two rows of a table share
\* them (the name of a server, the port of an allocation, the server and e-mail
\* of a subuser, the name of a database), and no step takes them from a row that
\* has them, or the row itself away, but the DELETE of a request for this row.
\* Create, Assign and Add look first and insert in a later step, so two of them
\* can both see nothing, the more so as errors of their reading are dropped
\* (network.go:31, allocation.go:47, server.go:37, subuser.go:23); and the
\* updates write back every column of a copy read before.
UniqueKeys ==
  /\ \A r, s \in servers : r.id = s.id \/ r.name = s.name => r = s
  /\ \A r, s \in schedules : r.id = s.id => r = s
  /\ \A r, s \in allocations : r.id = s.id \/ r.port = s.port => r = s
  /\ \A r, s \in subusers :
        r.id = s.id \/ (r.server = s.server /\ r.email = s.email) => r = s
  /\ \A r, s \in records : r.id = s.id \/ r.db = s.db => r = s

Deletes(op, id) ==
  \E t \in Tasks : At(t, op, "delete") /\ task[t].key = id
RowsKeepKeys ==
  /\ \A r \in servers :
        \/ Deletes("delete", r.id)
        \/ \E s \in servers' : s.id = r.id /\ s.name = r.name
  /\ \A r \in schedules :
        \/ Deletes("removeSchedule", r.id)
        \/ \E s \in schedules' : s.id = r.id
  /\ \A r \in allocations : Deletes("free", r.id) \/ r \in allocations'
  /\ \A r \in subusers :
        \/ Deletes("unsub", r.id)
        \/ \E s \in subusers' : s.id = r.id /\ s.server = r.server /\ s.email = r.email
  /\ \A r \in records : Deletes("rmdb", r.id) \/ r \in records'
FirstComeKeepsKey == []UniqueKeys /\ [][RowsKeepKeys]_vars

\* Rows come from the requests that create them: none of the writers that hold a
\* copy of a row while another request deletes it (Start and Stop waiting for
\* the agent, a schedule that runs for minutes, UpdatePermissions) brings the
\* row back (server.go:62, schedule.go:117, subuser.go:43).
Creates(table, op) ==
  \A r \in table' : \/ \E s \in table : s.id = r.id
                    \/ \E t \in Tasks : task[t].op = op /\ task[t].n = r.id
DeletedStaysDeleted ==
  [][/\ Creates(servers, "create")
     /\ Creates(schedules, "addSchedule")
     /\ Creates(subusers, "add")
     /\ Creates(allocations, "assign")
     /\ Creates(records, "mkdb")]_vars
=============================================================================
