---------------------------- MODULE PanelProofs ----------------------------
(***************************************************************************)
(* Proofs about Panel, for every set of clients, of resources and of       *)
(* goroutines, and every bound.  The requests hold no lock between their   *)
(* statements, so what keeps the tables in order is what each request      *)
(* knows about the copy it holds: the invariant says it for every step of  *)
(* every request.                                                          *)
(***************************************************************************)
EXTENDS Panel, FiniteSetTheorems, WellFoundedInduction, TLAPS

ServerOps     == {"create", "power", "delete"}
AllocationOps == {"assign", "free"}
SubuserOps    == {"add", "permit", "unsub"}
DatabaseOps   == {"mkdb", "rmdb"}

\* What a request may hold: nothing, or the one row it made or read.
Allocations == [id : Ids, port : Ports]
SubuserRows == [id : Ids, server : Owners, email : Emails, perms : BOOLEAN]
DBRecords   == [id : Ids, server : Owners, db : DBNames, pass : Ids]
AnyRow == ServerRows \cup ScheduleRows \cup Allocations \cup SubuserRows
            \cup DBRecords \cup [perms : BOOLEAN]
Holdings == {{}} \cup {{r} : r \in AnyRow}

Ops == ServerOps \cup ScheduleOps \cup {"runSchedule"} \cup AllocationOps
         \cup SubuserOps \cup DatabaseOps \cup {"idle"}
Pcs == Statements \cup {"idle", "agent", "unregister", "add", "assign", "drop",
                        "dropuser"}

Requests == [op : Ops, pc : Pcs, n : 0..MaxCalls, key : 0..MaxCalls,
             held : Holdings, plan : Plans]

Held(t, rows) == \E r \in rows : task[t].held = {r}
WithId(rows, id) == {r \in rows : r.id = id}

\* Ids are numbers of calls that were made, and no two rows have the same.
Numbered(table) ==
  /\ \A r \in table : r.id \in 1..calls
  /\ \A r, s \in table : r.id = s.id => r = s

\* Every request is a call of its own.
TasksOK ==
  /\ clients \in SUBSET Kinds /\ schema \in {"opdd", "goose"}
  /\ calls \in 0..MaxCalls /\ faults \in 0..MaxFaults
  /\ task \in [Tasks -> Requests]
  /\ \A t \in Tasks : task[t].n \in 0..calls /\ (task[t].op = "idle" <=> task[t].n = 0)
  /\ \A t, u \in Tasks : task[t].n = task[u].n => t = u \/ task[t].n = 0

-----------------------------------------------------------------------------
\* A request to create holds the row it will insert, whose id is in no table and
\* in no other request; a power call holds a copy of the row it asks for, and
\* the name in the copy is the one that is stored.
ServersOK ==
  /\ servers \subseteq ServerRows /\ Numbered(servers)
  /\ \A r, s \in servers : r.name = s.name => r = s
  /\ \A t \in Tasks : task[t].op = "create" =>
       /\ Held(t, {r \in ServerRows : r.id = task[t].n /\ r.status = "stopped"})
       /\ \A s \in servers : s.id # task[t].n
       /\ \A u \in Tasks : task[u].op = "power" =>
            \A r \in task[u].held : r.id # task[t].n
  /\ \A t \in Tasks : task[t].op = "power" =>
       /\ task[t].key \in 1..calls /\ task[t].plan # <<>>
       /\ \/ Held(t, WithId(ServerRows, task[t].key))
          \/ task[t].pc \notin {"agent", "write"} /\ task[t].held = {}
       /\ \A r \in task[t].held, s \in servers : r.id = s.id => r.name = s.name

Wrote(s) == s.status = IF accepted[s.id] = "none" THEN "stopped"
                       ELSE Status(accepted[s.id])

\* The one power call on a server that has not drifted is ahead of its row only
\* between the agent's answer and the statement that writes the status.
Powers(t, id) == task[t].op = "power" /\ task[t].key = id
Ahead(t, id)  == Powers(t, id) /\ task[t].pc = "write"
Follows(id) ==
  /\ \A t, u \in Tasks : Powers(t, id) /\ Powers(u, id) => t = u
  /\ \A t \in Tasks : Ahead(t, id) => accepted[id] = Head(task[t].plan)
  /\ \A s \in servers : s.id = id => Wrote(s) \/ \E t \in Tasks : Ahead(t, id)
  /\ id > calls => accepted[id] = "none"
  /\ \A t \in Tasks :
       task[t].op = "create" /\ task[t].n = id => accepted[id] = "none"

StatusOK ==
  /\ accepted \in [Ids -> Power \cup {"none"}] /\ drift \subseteq Ids
  /\ \A id \in Ids \ drift : Follows(id)

-----------------------------------------------------------------------------
\* The number of a call names at most one entry of cron, and `entries` names it
\* only after the request is through with it.
EntryOfTask(t) ==
  task[t].op \in ScheduleOps =>
    /\ \A id \in Ids : entries[id] # task[t].n
    /\ \A e \in cron : e.eid = task[t].n =>
         task[t].pc = "assign" /\ e.row \in task[t].held

EntriesOK ==
  /\ cron \subseteq [eid : Ids, row : ScheduleRows]
  /\ \A e \in cron : e.eid \in 1..calls /\ e.row.id \in 1..calls
  /\ \A e, f \in cron : e.eid = f.eid => e = f
  /\ entries \in [Ids -> 0..MaxCalls]
  /\ \A id \in Ids : entries[id] \in 0..calls
  /\ \A e \in cron, id \in Ids : entries[id] = e.eid => e.row.id = id
  /\ \A t \in Tasks : EntryOfTask(t)

\* What a request on schedules holds, step by step; the other requests never
\* come to its steps.
ScheduleTask(t) ==
  /\ task[t].op = "addSchedule" =>
       /\ task[t].pc \in {"insert", "add", "assign"} /\ task[t].key = 0
       /\ Held(t, WithId(ScheduleRows, task[t].n))
       /\ task[t].pc = "insert" => \A s \in schedules : s.id # task[t].n
  /\ task[t].op = "updateSchedule" =>
       /\ task[t].pc \in {"get", "write", "unregister", "add", "assign"}
       /\ task[t].key \in 1..calls
       /\ Held(t, WithId(ScheduleRows, task[t].key))
  /\ task[t].op = "removeSchedule" =>
       /\ task[t].pc \in {"unregister", "delete"}
       /\ task[t].key \in 1..calls /\ task[t].held = {}
  /\ task[t].op \notin ScheduleOps =>
       task[t].pc \notin {"unregister", "add", "assign"}

RunsOK ==
  /\ run \in [Runs -> [rows : {{}} \cup {{r} : r \in ScheduleRows}, plan : Plans]]
  /\ \A g \in Runs : \/ run[g].rows = {} /\ run[g].plan = <<>>
                     \/ \E r \in ScheduleRows : run[g].rows = {r} /\ r.id \in 1..calls

SchedulesOK ==
  /\ schedules \subseteq ScheduleRows /\ Numbered(schedules)
  /\ RunsOK
  /\ \A t \in Tasks : ScheduleTask(t)

Due(id)     == {r \in schedules : r.id = id /\ r.enabled /\ r.valid}
Fires(id)   == {e \in cron : e.row.id = id}
Matched(id) == {[eid |-> entries[id], row |-> s] : s \in Due(id)} = Fires(id)

\* How far the one request on a schedule has got.
Progress(t, id) ==
  /\ task[t].pc \in {"insert", "get", "write"} \/ At(t, "removeSchedule", "unregister")
       => Matched(id)
  /\ At(t, "updateSchedule", "write") => Select(schedules, id) # {}
  /\ At(t, "updateSchedule", "unregister") =>
       /\ Select(schedules, id) = task[t].held
       /\ \A e \in Fires(id) : e.eid = entries[id]
  /\ task[t].pc \in {"add", "assign"} =>
       Select(schedules, id) = task[t].held /\ \A r \in task[t].held : r.enabled
  /\ task[t].pc \in {"add", "delete"} => Fires(id) = {}
  /\ task[t].pc = "assign" =>
       /\ \A r \in task[t].held : r.valid
       /\ Fires(id) = {[eid |-> task[t].n, row |-> r] : r \in task[t].held}

OneCron(id) ==
  /\ \A t, u \in Tasks : Handles(t, id) /\ Handles(u, id) => t = u
  /\ (\A t \in Tasks : ~Handles(t, id)) => Matched(id)
  /\ \A t \in Tasks : Handles(t, id) => Progress(t, id)

CronOK == tangled \subseteq Ids /\ \A id \in Ids \ tangled : OneCron(id)

-----------------------------------------------------------------------------
AllocationsOK ==
  /\ allocations \subseteq Allocations /\ Numbered(allocations)
  /\ \A r, s \in allocations : r.port = s.port => r = s
  /\ \A t \in Tasks : task[t].op = "assign" =>
       /\ task[t].pc \in {"look", "insert"}
       /\ task[t].pc = "insert" => Held(t, WithId(Allocations, task[t].n))
       /\ \A s \in allocations : s.id # task[t].n

SubusersOK ==
  /\ subusers \subseteq SubuserRows /\ Numbered(subusers)
  /\ \A r, s \in subusers : r.server = s.server /\ r.email = s.email => r = s
  /\ \A t \in Tasks : task[t].op = "add" =>
       /\ Held(t, WithId(SubuserRows, task[t].n))
       /\ \A s \in subusers : s.id # task[t].n
       /\ \A u \in Tasks : At(u, "permit", "write") =>
            \A r \in task[u].held : r.id # task[t].n
  /\ \A t \in Tasks : task[t].op = "permit" =>
       /\ task[t].pc \in {"get", "write"}
       /\ task[t].pc = "get" => Held(t, [perms : BOOLEAN])
       /\ task[t].pc = "write" =>
            /\ Held(t, {r \in SubuserRows : r.id \in 1..calls})
            /\ \A r \in task[t].held, s \in subusers :
                 r.id = s.id => r.server = s.server /\ r.email = s.email

\* What MySQL has after so many statements of Create: a Delete on a server whose
\* id begins alike undoes any of it.
MakesOK(t) ==
  /\ task[t].pc \in {"mkdb", "mkuser", "grant", "flush", "insert"}
  /\ Held(t, {r \in WithId(DBRecords, task[t].n) : Short[r.server] = r.db.short})
  /\ \A s \in records : s.id # task[t].n
  /\ \A r \in task[t].held :
       /\ task[t].pc \in {"grant", "flush", "insert"} => r.pass \in tried[r.db.short]
       /\ r.db.short \notin dropped =>
            /\ task[t].pc # "mkdb" => r.db \in mysqlDBs
            /\ task[t].pc \in {"flush", "insert"} => r.db \in grants

DropsOK(t) ==
  /\ task[t].pc \in {"get", "drop", "dropuser", "delete"}
  /\ task[t].pc \in {"drop", "dropuser"} =>
       /\ Held(t, {r \in DBRecords : Short[r.server] = r.db.short})
       /\ task[t].pc = "dropuser" => \A r \in task[t].held : r.db.short \in dropped

\* A user has one of the passwords that were offered, and is there once one was.
UsersOK ==
  /\ mysqlUsers \in [Shorts -> 0..MaxCalls] /\ tried \in [Shorts -> SUBSET Ids]
  /\ \A s \in Shorts :
       /\ mysqlUsers[s] # 0 => mysqlUsers[s] \in tried[s]
       /\ s \notin dropped /\ tried[s] # {} => mysqlUsers[s] # 0

RecordOK(r) ==
  /\ Short[r.server] = r.db.short /\ r.pass \in tried[r.db.short]
  /\ r.db.short \notin dropped => r.db \in mysqlDBs /\ r.db \in grants

DatabasesOK ==
  /\ records \subseteq DBRecords /\ Numbered(records)
  /\ mysqlDBs \subseteq DBNames /\ grants \subseteq DBNames /\ dropped \subseteq Shorts
  /\ UsersOK
  /\ \A r, s \in records : r.db = s.db => r = s
  /\ \A r \in records : RecordOK(r)
  /\ \A t \in Tasks : /\ task[t].op = "mkdb" => MakesOK(t)
                      /\ task[t].op = "rmdb" => DropsOK(t)

IInv ==
  /\ TasksOK
  /\ ServersOK /\ StatusOK
  /\ EntriesOK /\ SchedulesOK /\ CronOK
  /\ AllocationsOK /\ SubusersOK /\ DatabasesOK

-----------------------------------------------------------------------------
(***************************************************************************)
(* Rows and requests                                                       *)
(***************************************************************************)
\* A request that holds one row is about that row.
LEMMA TheRow ==
    ASSUME NEW t \in Tasks, NEW r, task[t].held = {r}
    PROVE  Row(t) = r
BY DEF Row

\* A request that holds rows of one kind holds the one that Row names.
LEMMA HeldRow ==
    ASSUME NEW t \in Tasks, NEW rows, Held(t, rows)
    PROVE  Row(t) \in rows /\ task[t].held = {Row(t)}
BY TheRow DEF Held

\* SELECT by id finds one row or none.
LEMMA SelectOne ==
    ASSUME NEW table, Numbered(table), NEW id
    PROVE  \/ Select(table, id) = {}
           \/ \E r \in table : r.id = id /\ Select(table, id) = {r}
BY DEF Numbered, Select

\* UPDATE brings no row that was not there; with ids that are kept.
LEMMA UpdateKeepsIds ==
    ASSUME NEW table, NEW row, NEW r \in Update(table, row)
    PROVE  \E s \in table : /\ s.id = r.id
                            /\ s.id # row.id => s = r
                            /\ s.id = row.id => r = row
BY DEF Update

\* and with it none that was there goes.
LEMMA UpdateKeepsRows ==
    ASSUME NEW table, NEW row, NEW r \in table
    PROVE  \E s \in Update(table, row) : s.id = r.id
<1>1. CASE r.id = row.id
  BY <1>1 DEF Update
<1>2. CASE r.id # row.id
  BY <1>2 DEF Update
<1> QED
  BY <1>1, <1>2

\* An UPDATE of one row leaves ids unique.
LEMMA UpdateOne ==
    ASSUME NEW table, NEW row,
           \A r, s \in table : r.id = s.id => r = s
    PROVE  \A r, s \in Update(table, row) : r.id = s.id => r = s
BY UpdateKeepsIds

\* What a step does to the request that makes it, and to no other.
Alone(t) ==
  /\ task' \in [Tasks -> Requests]
  /\ \A u \in Tasks \ {t} : task'[u] = task[u]

Proceeds(t) ==
  /\ Alone(t)
  /\ \/ task'[t] = Idle
     \/ /\ task'[t].op = task[t].op /\ task'[t].n = task[t].n
        /\ task'[t].key = task[t].key

Begins(t) ==
  /\ Alone(t) /\ task[t] = Idle
  /\ task'[t].n = calls + 1 /\ calls' = calls + 1
  /\ task'[t].op # "idle" /\ task'[t].pc \notin {"add", "assign"}

\* A free goroutine is a request that asks for nothing.
LEMMA IdleIsARequest == Idle \in Requests
<1>1. {} \in Holdings /\ <<>> \in Plans
  BY DEF Holdings, Plans
<1>2. 0 \in 0..MaxCalls
  BY PanelAssumption
<1> QED
  BY <1>1, <1>2 DEF Idle, Requests, Ops, Pcs

\* A request that is answered leaves its goroutine free and the others alone.
LEMMA Answers ==
    ASSUME TasksOK, NEW t \in Tasks, Answer(t)
    PROVE  Proceeds(t) /\ task'[t] = Idle
BY IdleIsARequest DEF TasksOK, Answer, Proceeds, Alone

\* A request that goes on changes nothing but where it is.
LEMMA GoesOn ==
    ASSUME TasksOK, NEW t \in Tasks, NEW pc \in Pcs, Goes(t, pc)
    PROVE  /\ Proceeds(t)
           /\ task'[t].op = task[t].op /\ task'[t].n = task[t].n
           /\ task'[t].key = task[t].key /\ task'[t].pc = pc
           /\ task'[t].held = task[t].held /\ task'[t].plan = task[t].plan
<1>1. task[t] \in Requests
  BY DEF TasksOK
<1> DEFINE new == [task[t] EXCEPT !.pc = pc]
<1>2. task' = [task EXCEPT ![t] = new]
  BY DEF Goes, TasksOK
<1>3. /\ new \in Requests
      /\ new.op = task[t].op /\ new.n = task[t].n
      /\ new.key = task[t].key /\ new.pc = pc
      /\ new.held = task[t].held /\ new.plan = task[t].plan
  BY <1>1 DEF Requests
<1> HIDE DEF new
<1> QED
  BY <1>2, <1>3 DEF TasksOK, Proceeds, Alone

\* A request that goes on with rows it has read keeps what it was asked.
LEMMA HoldsRows ==
    ASSUME TasksOK, NEW t \in Tasks, NEW pc \in Pcs, NEW rows \in Holdings,
           Holds(t, pc, rows)
    PROVE  /\ Proceeds(t)
           /\ task'[t].op = task[t].op /\ task'[t].n = task[t].n
           /\ task'[t].key = task[t].key /\ task'[t].pc = pc
           /\ task'[t].held = rows /\ task'[t].plan = task[t].plan
<1>1. task[t] \in Requests
  BY DEF TasksOK
<1> DEFINE old == task[t]
           new == [op |-> old.op, pc |-> pc, n |-> old.n, key |-> old.key,
                   held |-> rows, plan |-> old.plan]
<1>2. [old EXCEPT !.pc = pc, !.held = rows] = new
  <2> DEFINE mid == [old EXCEPT !.pc = pc]
  <2>1. mid = [op |-> old.op, pc |-> pc, n |-> old.n, key |-> old.key,
               held |-> old.held, plan |-> old.plan]
    BY <1>1 DEF Requests
  <2>2. [old EXCEPT !.pc = pc, !.held = rows] = [mid EXCEPT !.held = rows]
    BY <2>1
  <2> HIDE DEF mid
  <2>3. [mid EXCEPT !.held = rows] = new
    BY <2>1
  <2> QED  BY <2>2, <2>3
<1>3. task' = [task EXCEPT ![t] = new]
  BY <1>2 DEF Holds
<1>4. /\ new \in Requests
      /\ new.op = task[t].op /\ new.n = task[t].n
      /\ new.key = task[t].key /\ new.pc = pc
      /\ new.held = rows /\ new.plan = task[t].plan
  BY <1>1 DEF Requests
<1> HIDE DEF new
<1> QED
  BY <1>3, <1>4 DEF TasksOK, Proceeds, Alone

\* Arriving, with a record that is well formed.
LEMMA Arrives ==
    ASSUME TasksOK, NEW t \in Tasks, NEW kind, NEW req \in Requests,
           Arrive(t, kind, req), req.n = calls + 1,
           req.op # "idle", req.pc \notin {"add", "assign"}
    PROVE  Begins(t) /\ task'[t] = req
BY DEF TasksOK, Arrive, Begins, Alone

\* What every request record has that holds nothing yet.
LEMMA NewRequest ==
    ASSUME NEW op \in Ops, NEW pc \in Pcs, NEW key \in 0..MaxCalls,
           NEW held \in Holdings, calls \in Nat, calls < MaxCalls
    PROVE  /\ Request(op, pc, key, held) \in Requests
           /\ Request(op, pc, key, held).op = op /\ Request(op, pc, key, held).pc = pc
           /\ Request(op, pc, key, held).n = calls + 1
           /\ Request(op, pc, key, held).key = key
           /\ Request(op, pc, key, held).held = held
<1>1. <<>> \in Plans /\ calls + 1 \in 0..MaxCalls
  BY PanelAssumption DEF Plans
<1> QED
  BY <1>1 DEF Request, Requests

\* A request that arrives is numbered after all before it.
LEMMA RequestArrives ==
    ASSUME TasksOK, NEW t \in Tasks, NEW kind, NEW op \in Ops, NEW pc \in Pcs,
           NEW key \in 0..MaxCalls, NEW held \in Holdings,
           Arrive(t, kind, Request(op, pc, key, held)),
           op # "idle", pc \notin {"add", "assign"}
    PROVE  /\ Begins(t) /\ calls \in Nat /\ calls < MaxCalls
           /\ task'[t].op = op /\ task'[t].pc = pc /\ task'[t].n = calls + 1
           /\ task'[t].key = key /\ task'[t].held = held
<1>1. calls \in Nat /\ calls < MaxCalls
  BY DEF TasksOK, Arrive
<1> DEFINE req == Request(op, pc, key, held)
<1>2. req \in Requests /\ req.op = op /\ req.pc = pc /\ req.n = calls + 1
      /\ req.key = key /\ req.held = held
  BY <1>1, NewRequest
<1> HIDE DEF req
<1>3. Begins(t) /\ task'[t] = req
  BY <1>2, Arrives DEF req
<1> QED
  BY <1>1, <1>2, <1>3

\* Something is held, or nothing.
LEMMA NothingHeld == {} \in Holdings
BY DEF Holdings

\* The names of operations and steps are what the type says.
LEMMA OpNames ==
    /\ "create" \in Ops /\ "power" \in Ops /\ "delete" \in Ops
    /\ "addSchedule" \in Ops /\ "updateSchedule" \in Ops /\ "removeSchedule" \in Ops
    /\ "runSchedule" \in Ops /\ "assign" \in Ops /\ "free" \in Ops
    /\ "add" \in Ops /\ "permit" \in Ops /\ "unsub" \in Ops
    /\ "mkdb" \in Ops /\ "rmdb" \in Ops
    /\ "look" \in Pcs /\ "insert" \in Pcs /\ "get" \in Pcs
    /\ "delete" \in Pcs /\ "mkdb" \in Pcs /\ "unregister" \in Pcs
BY DEF Ops, ServerOps, ScheduleOps, AllocationOps, SubuserOps, DatabaseOps, Pcs,
       Statements

-----------------------------------------------------------------------------
(***************************************************************************)
(* Game servers                                                            *)
(***************************************************************************)
\* Requests to create keep what they hold; a power call may read its row again.
ServerTaskStep(u) ==
    /\ task'[u].op = "create" =>
         task[u].op = "create" /\ task'[u].n = task[u].n /\ task'[u].held = task[u].held
    /\ task'[u].op = "power" =>
         /\ task[u].op = "power" /\ task'[u].key = task[u].key
         /\ task'[u].plan # <<>>
         /\ task'[u].held = {} => task'[u].pc \notin {"agent", "write"}
         /\ \/ task'[u].held = task[u].held
            \/ \E r \in servers : r.id = task[u].key /\ task'[u].held = {r}

ServerTasksStep == \A u \in Tasks : ServerTaskStep(u)

\* A request that does not move, ends, or is about another table keeps what
\* ServersOK says of it.
LEMMA ServerTaskStays ==
    ASSUME ServersOK, NEW u \in Tasks,
           task'[u] = task[u] \/ task'[u] = Idle \/ task'[u].op \notin {"create", "power"}
    PROVE  ServerTaskStep(u)
BY DEF ServerTaskStep, ServersOK, Idle, Held

\* So do all requests when only one of them moves.
LEMMA OneServerTask ==
    ASSUME ServersOK, NEW t \in Tasks, Alone(t),
           task'[t] = Idle \/ ServerTaskStep(t)
    PROVE  ServerTasksStep
BY ServerTaskStays DEF ServerTasksStep, Alone

\* No row is new and none gets another name.
LEMMA ServersKeep ==
    ASSUME TasksOK, ServersOK, ServerTasksStep, calls' \in Nat, calls <= calls',
           servers' \subseteq ServerRows,
           \A r \in servers' : \E s \in servers : s.id = r.id /\ s.name = r.name,
           \A r, s \in servers' : r.id = s.id => r = s
    PROVE  ServersOK'
<1> USE DEF ServerTasksStep, ServerTaskStep
<1>1. Numbered(servers)'
  BY DEF ServersOK, Numbered, TasksOK
<1>2. \A r, s \in servers' : r.name = s.name => r = s
  BY DEF ServersOK
<1>3. ASSUME NEW t \in Tasks, task'[t].op = "create"
      PROVE  /\ Held(t, {r \in ServerRows : r.id = task[t].n /\ r.status = "stopped"})'
             /\ \A s \in servers' : s.id # task'[t].n
             /\ \A u \in Tasks : task'[u].op = "power" =>
                  \A r \in task'[u].held : r.id # task'[t].n
  BY <1>3 DEF ServersOK, Held
<1>4. ASSUME NEW t \in Tasks, task'[t].op = "power"
      PROVE  /\ task'[t].key \in 1..calls' /\ task'[t].plan # <<>>
             /\ \/ Held(t, WithId(ServerRows, task[t].key))'
                \/ task'[t].pc \notin {"agent", "write"} /\ task'[t].held = {}
             /\ \A r \in task'[t].held, s \in servers' : r.id = s.id => r.name = s.name
  <2>1. task[t].op = "power" /\ task'[t].key = task[t].key /\ task[t].key \in 1..calls
    BY <1>4 DEF ServersOK
  <2>2. CASE task'[t].held = task[t].held
    BY <1>4, <2>1, <2>2 DEF ServersOK, Held, TasksOK, WithId
  <2>3. CASE task'[t].held # task[t].held
    <3>1. PICK r \in servers : r.id = task[t].key /\ task'[t].held = {r}
      BY <1>4, <2>3
    <3>2. r \in ServerRows /\ task'[t].plan # <<>>
      BY <1>4 DEF ServersOK
    <3>3. \A s \in servers' : r.id = s.id => r.name = s.name
      BY DEF ServersOK, Numbered
    <3> QED  BY <2>1, <3>1, <3>2, <3>3 DEF Held, WithId, TasksOK
  <2> QED  BY <2>2, <2>3
<1> QED
  BY <1>1, <1>2, <1>3, <1>4 DEF ServersOK

\* ServersOK outlives a step that leaves the table of servers alone.
LEMMA ServersQuiet ==
    ASSUME TasksOK, ServersOK, ServerTasksStep, calls' \in Nat, calls <= calls',
           servers' = servers
    PROVE  ServersOK'
<1>1. /\ servers' \subseteq ServerRows
      /\ \A r \in servers' : \E s \in servers : s.id = r.id /\ s.name = r.name
      /\ \A r, s \in servers' : r.id = s.id => r = s
  BY DEF ServersOK, Numbered
<1> QED
  BY <1>1, ServersKeep

\* The requests on servers, step by step.
LEMMA CreateKeeps ==
    ASSUME TasksOK, ServersOK, NEW t \in Tasks, Create(t), calls' = calls
    PROVE  /\ ServersOK' /\ ServerTasksStep /\ Proceeds(t) /\ task[t].op = "create"
           /\ \A r \in servers' : \/ r \in servers
                                  \/ r.id = task[t].n /\ r.status = "stopped"
           /\ task'[t] = Idle \/ task'[t].pc = "insert"
<1>0. calls \in Nat /\ task[t].op = "create"
  BY DEF TasksOK, Create, At
<1>1. CASE At(t, "create", "look") /\ UNCHANGED servers
  <2>1. /\ Proceeds(t)
        /\ \/ task'[t] = Idle
           \/ /\ task'[t].pc = "insert" /\ task'[t].held = task[t].held
              /\ task'[t].op = "create" /\ task'[t].n = task[t].n
    <3>1. Answer(t) \/ Goes(t, "insert")
      BY <1>1 DEF Create, At
    <3>2. "insert" \in Pcs
      BY DEF Pcs, Statements
    <3> QED  BY <1>0, <3>1, <3>2, Answers, GoesOn
  <2>2. ServerTasksStep
    BY <1>0, <2>1, OneServerTask DEF ServerTaskStep, Proceeds
  <2>3. ServersOK'
    BY <1>0, <1>1, <2>2, ServersQuiet
  <2> QED  BY <1>0, <1>1, <2>1, <2>2, <2>3
<1>2. CASE At(t, "create", "insert") /\ servers' = Insert(servers, Row(t), SameName(Row(t)))
             /\ Answer(t)
  <2>1. Proceeds(t) /\ task'[t] = Idle
    BY <1>2, Answers
  <2>2. ServerTasksStep
    BY <2>1, OneServerTask DEF Proceeds
  <2>3. CASE SameName(Row(t)) # {}
    <3>1. servers' = servers
      BY <1>2, <2>3 DEF Insert
    <3>2. ServersOK'
      BY <1>0, <2>2, <3>1, ServersQuiet
    <3> QED
      BY <1>0, <2>1, <2>2, <3>1, <3>2
  <2>4. CASE SameName(Row(t)) = {}
    <3>1. Row(t) \in ServerRows /\ Row(t).id = task[t].n /\ Row(t).status = "stopped"
      <4>1. Held(t, {r \in ServerRows : r.id = task[t].n /\ r.status = "stopped"})
        BY <1>2 DEF ServersOK, At
      <4> QED  BY <4>1, HeldRow
    <3>2. servers' = servers \cup {Row(t)}
      BY <1>2, <2>4 DEF Insert
    <3> DEFINE row == Row(t)
    <3> HIDE DEF row
    <3>3. \A s \in servers : s.id # row.id /\ s.name # row.name
      BY <1>2, <2>4, <3>1 DEF ServersOK, At, SameName, row
    <3>4. row.id \in 1..calls
      BY <3>1 DEF ServerRows, Ids, TasksOK, row
    <3>5. Numbered(servers)' /\ \A r, s \in servers' : r.name = s.name => r = s
      BY <1>0, <3>2, <3>3, <3>4 DEF ServersOK, Numbered, row
    <3>6. \A u \in Tasks : task'[u].op \in {"create", "power"} =>
            u # t /\ task'[u] = task[u]
      BY <2>1 DEF Proceeds, Alone, Idle
    <3>7. ASSUME NEW u \in Tasks, task'[u].op = "create"
          PROVE  /\ Held(u, {r \in ServerRows : r.id = task[u].n /\ r.status = "stopped"})'
                 /\ \A s \in servers' : s.id # task'[u].n
                 /\ \A v \in Tasks : task'[v].op = "power" =>
                      \A r \in task'[v].held : r.id # task'[u].n
      <4>1. task[u].n # task[t].n
        BY <1>2, <3>6, <3>7 DEF TasksOK, At
      <4> QED  BY <3>1, <3>2, <3>6, <3>7, <4>1 DEF ServersOK, Held, row
    <3>8. ASSUME NEW u \in Tasks, task'[u].op = "power"
          PROVE  /\ task'[u].key \in 1..calls' /\ task'[u].plan # <<>>
                 /\ \/ Held(u, WithId(ServerRows, task[u].key))'
                    \/ task'[u].pc \notin {"agent", "write"} /\ task'[u].held = {}
                 /\ \A r \in task'[u].held, s \in servers' : r.id = s.id => r.name = s.name
      BY <1>2, <3>1, <3>2, <3>6, <3>8 DEF ServersOK, Held, row, At
    <3>9. ServersOK'
      BY <1>2, <2>1, <3>1, <3>2, <3>5, <3>7, <3>8 DEF ServersOK, row, At
    <3> QED  BY <1>0, <2>1, <2>2, <3>1, <3>2, <3>9 DEF row
  <2> QED  BY <2>3, <2>4
<1> QED
  BY <1>1, <1>2 DEF Create

\* Copies of a row are requests' to hold.
LEMMA Copies == \A r \in AnyRow : {r} \in Holdings
BY DEF Holdings

\* Each table's rows are rows a request can hold.
LEMMA RowKinds ==
    /\ ServerRows \subseteq AnyRow /\ ScheduleRows \subseteq AnyRow
    /\ Allocations \subseteq AnyRow /\ SubuserRows \subseteq AnyRow
    /\ DBRecords \subseteq AnyRow
BY DEF AnyRow

\* The names of the statements are steps.
LEMMA StepNames ==
    /\ {"agent", "write", "get", "insert", "delete", "drop", "dropuser", "mkuser",
        "grant", "flush", "unregister", "add", "assign"} \subseteq Pcs
BY DEF Pcs, Statements

\* What is left of the plan of a power call.
LEMMA PlanGoesOn ==
    ASSUME NEW plan \in Plans, plan # <<>>
    PROVE  /\ Head(plan) \in Power
           /\ Len(plan) # 1 => Tail(plan) \in Plans /\ Tail(plan) # <<>>
           /\ Tail(plan) \in Plans
<1>1. CASE plan = <<"start">>
  <2>1. Head(plan) = "start" /\ Len(plan) = 1 /\ Tail(plan) = <<>>
    BY <1>1
  <2> QED  BY <2>1 DEF Plans, Power
<1>2. CASE plan = <<"stop">>
  <2>1. Head(plan) = "stop" /\ Len(plan) = 1 /\ Tail(plan) = <<>>
    BY <1>2
  <2> QED  BY <2>1 DEF Plans, Power
<1>3. CASE plan = <<"stop", "start">>
  <2>1. Head(plan) = "stop" /\ Len(plan) = 2 /\ Tail(plan) = <<"start">>
    BY <1>3
  <2> QED  BY <2>1 DEF Plans, Power
<1> QED
  BY <1>1, <1>2, <1>3 DEF Plans

\* Start, Stop and Restart read the row of their server.
LEMMA GetServerKeeps ==
    ASSUME TasksOK, ServersOK, NEW t \in Tasks, calls' = calls,
           GetServer(t), UNCHANGED servers
    PROVE  /\ ServersOK' /\ ServerTasksStep /\ Proceeds(t) /\ task[t].op = "power"
           /\ task'[t] = Idle \/ task'[t].pc = "agent"
<1>0. calls \in Nat /\ task[t].op = "power" /\ task[t].plan # <<>>
  BY DEF TasksOK, GetServer, At, ServersOK
<1>1. CASE Answer(t)
  <2>1. Proceeds(t) /\ task'[t] = Idle
    BY <1>1, Answers
  <2> QED  BY <1>0, <2>1, OneServerTask, ServersQuiet DEF Proceeds
<1>2. CASE ~Answer(t)
  <2> DEFINE rows == Select(servers, task[t].key)
  <2>1. rows # {} /\ Holds(t, "agent", rows)
    BY <1>2 DEF GetServer
  <2>2. PICK r \in servers : r.id = task[t].key /\ rows = {r}
    BY <2>1, SelectOne DEF ServersOK
  <2>3. rows \in Holdings
    BY <2>2, Copies, RowKinds DEF ServersOK
  <2> HIDE DEF rows
  <2>4. /\ Proceeds(t) /\ task'[t].pc = "agent"
        /\ task'[t].held = rows /\ task'[t].plan = task[t].plan
        /\ task'[t].op = task[t].op /\ task'[t].key = task[t].key
    BY <2>1, <2>3, HoldsRows, StepNames
  <2>5. ServerTaskStep(t)
    BY <1>0, <2>2, <2>4 DEF ServerTaskStep
  <2> QED  BY <1>0, <2>4, <2>5, OneServerTask, ServersQuiet DEF Proceeds
<1> QED  BY <1>1, <1>2

\* They call the agent, which answers or not.
LEMMA AskAgentKeeps ==
    ASSUME TasksOK, ServersOK, NEW t \in Tasks, calls' = calls,
           AskAgent(t), UNCHANGED servers
    PROVE  /\ ServersOK' /\ ServerTasksStep /\ Proceeds(t) /\ task[t].op = "power"
           /\ \/ task'[t] = Idle
              \/ task'[t].pc = "write" /\ task'[t].plan = task[t].plan
<1>0. calls \in Nat /\ task[t].op = "power" /\ task[t].plan # <<>>
  BY DEF TasksOK, AskAgent, At, ServersOK
<1>1. CASE Answer(t)
  <2>1. Proceeds(t) /\ task'[t] = Idle
    BY <1>1, Answers
  <2> QED  BY <1>0, <2>1, OneServerTask, ServersQuiet DEF Proceeds
<1>2. CASE Goes(t, "write")
  <2>1. task[t].held # {}
    BY <1>0 DEF AskAgent, At, ServersOK, Held
  <2>2. /\ Proceeds(t) /\ task'[t].pc = "write"
        /\ task'[t].held = task[t].held /\ task'[t].plan = task[t].plan
        /\ task'[t].op = task[t].op /\ task'[t].key = task[t].key
    BY <1>2, GoesOn, StepNames
  <2>3. ServerTaskStep(t)
    BY <1>0, <2>1, <2>2 DEF ServerTaskStep
  <2> QED  BY <1>0, <2>2, <2>3, OneServerTask, ServersQuiet DEF Proceeds
<1> QED  BY <1>1, <1>2 DEF AskAgent

\* They write the status the call was meant to lead to, into their own row only.
LEMMA WriteStatusKeeps ==
    ASSUME TasksOK, ServersOK, NEW t \in Tasks, calls' = calls, WriteStatus(t)
    PROVE  /\ ServersOK' /\ ServerTasksStep /\ Proceeds(t) /\ task[t].op = "power"
           /\ task'[t] = Idle \/ task'[t].pc = "get"
           /\ \A r \in servers' : \E s \in servers :
                /\ s.id = r.id
                /\ s.id # task[t].key => s = r
                /\ s.id = task[t].key => r.status = Status(Head(task[t].plan))
<1>0. calls \in Nat /\ task[t].op = "power" /\ task[t].plan # <<>> /\ task[t] \in Requests
  BY DEF TasksOK, WriteStatus, At, ServersOK
<1>1. Row(t) \in WithId(ServerRows, task[t].key) /\ task[t].held = {Row(t)}
  <2>1. Held(t, WithId(ServerRows, task[t].key))
    BY <1>0 DEF WriteStatus, At, ServersOK
  <2> QED  BY <2>1, HeldRow
<1> DEFINE row == Row(t)
           new == [row EXCEPT !.status = Status(Head(task[t].plan))]
<1>2. servers' = Update(servers, new)
  BY DEF WriteStatus
<1>3. /\ new \in ServerRows /\ new.id = task[t].key /\ new.name = row.name
      /\ new.status = Status(Head(task[t].plan))
  <2> HIDE DEF row
  <2>1. Status(Head(task[t].plan)) \in Statuses
    BY DEF Status, Statuses
  <2> QED  BY <1>1, <2>1 DEF ServerRows, WithId, row
<1> HIDE DEF new
<1>4. ASSUME NEW r \in servers'
      PROVE  \E s \in servers : /\ s.id = r.id /\ s.name = r.name
                                /\ s.id # task[t].key => s = r
                                /\ s.id = task[t].key => r = new
  <2>1. PICK s \in servers : /\ s.id = r.id
                             /\ s.id # new.id => s = r
                             /\ s.id = new.id => r = new
    BY <1>2, UpdateKeepsIds
  <2>2. row.id = s.id => row.name = s.name
    BY <1>0, <1>1 DEF ServersOK
  <2>3. row.id = task[t].key
    BY <1>1 DEF WithId
  <2> HIDE DEF row
  <2>4. s.name = r.name
    BY <1>3, <2>1, <2>2, <2>3
  <2>5. s.id # task[t].key => s = r
    BY <1>3, <2>1
  <2>6. s.id = task[t].key => r = new
    BY <1>3, <2>1
  <2> QED  BY <2>1, <2>4, <2>5, <2>6
<1>5. servers' \subseteq ServerRows
  BY <1>2, <1>3 DEF Update, ServersOK
<1>6. \A r, s \in servers' : r.id = s.id => r = s
  BY <1>2, UpdateOne DEF ServersOK, Numbered
<1>7. Proceeds(t) /\ ServerTasksStep /\ (task'[t] = Idle \/ task'[t].pc = "get")
  <2>1. CASE Answer(t)
    BY <2>1, Answers, OneServerTask DEF Proceeds
  <2>2. CASE ~Answer(t)
    <3> DEFINE old == task[t]
               nxt == [op |-> old.op, pc |-> "get", n |-> old.n, key |-> old.key,
                       held |-> old.held, plan |-> Tail(old.plan)]
    <3>1. /\ task' = [task EXCEPT ![t] = [old EXCEPT !.pc = "get",
                                                   !.plan = Tail(old.plan)]]
          /\ Len(old.plan) # 1
      BY <2>2 DEF WriteStatus
    <3>2. Tail(old.plan) \in Plans /\ Tail(old.plan) # <<>>
      BY <1>0, <3>1, PlanGoesOn DEF Requests
    <3>3. [old EXCEPT !.pc = "get", !.plan = Tail(old.plan)] = nxt
      <4> DEFINE mid == [old EXCEPT !.pc = "get"]
                 rest == Tail(old.plan)
      <4>1. mid = [op |-> old.op, pc |-> "get", n |-> old.n, key |-> old.key,
                   held |-> old.held, plan |-> old.plan]
        BY <1>0 DEF Requests
      <4> HIDE DEF rest
      <4>2. [old EXCEPT !.pc = "get", !.plan = rest] = [mid EXCEPT !.plan = rest]
        BY <4>1
      <4> HIDE DEF mid
      <4>3. [mid EXCEPT !.plan = rest] =
              [op |-> old.op, pc |-> "get", n |-> old.n, key |-> old.key,
               held |-> old.held, plan |-> rest]
        BY <4>1
      <4> QED  BY <4>2, <4>3 DEF rest
    <3>4. task' = [task EXCEPT ![t] = nxt]
      BY <3>1, <3>3
    <3>5. /\ nxt \in Requests /\ nxt.op = "power" /\ nxt.key = old.key /\ nxt.n = old.n
          /\ nxt.held = old.held /\ nxt.plan # <<>> /\ nxt.pc = "get"
      BY <1>0, <3>2, StepNames DEF Requests
    <3> HIDE DEF nxt
    <3>6. /\ Alone(t) /\ task'[t] = nxt
      BY <3>4, <3>5 DEF Alone, TasksOK
    <3>7. Proceeds(t) /\ ServerTaskStep(t)
      BY <1>0, <3>5, <3>6 DEF Proceeds, ServerTaskStep
    <3> QED  BY <3>5, <3>6, <3>7, OneServerTask
  <2> QED  BY <2>1, <2>2
<1>8. ServersOK'
  BY <1>0, <1>4, <1>5, <1>6, <1>7, ServersKeep
<1> QED
  BY <1>0, <1>3, <1>4, <1>7, <1>8

\* Delete only ever takes rows away.
LEMMA DeleteServerKeeps ==
    ASSUME TasksOK, ServersOK, NEW t \in Tasks, calls' = calls, DeleteServer(t)
    PROVE  /\ ServersOK' /\ ServerTasksStep /\ Proceeds(t) /\ task[t].op = "delete"
           /\ servers' \subseteq servers
<1>0. calls \in Nat /\ task[t].op = "delete"
  BY DEF TasksOK, DeleteServer, At
<1>1. servers' \subseteq servers
  BY DEF DeleteServer, Delete
<1>2. Proceeds(t)
  <2>1. CASE Answer(t)
    BY <2>1, Answers
  <2>2. CASE ~Answer(t)
    <3> DEFINE rows == Select(servers, task[t].key)
    <3>1. rows # {} /\ Holds(t, "delete", rows)
      BY <2>2 DEF DeleteServer, LooksUp
    <3>2. rows \in Holdings
      BY <3>1, SelectOne, Copies, RowKinds DEF ServersOK
    <3> HIDE DEF rows
    <3> QED  BY <3>1, <3>2, HoldsRows, StepNames
  <2> QED  BY <2>1, <2>2
<1>3. ServerTasksStep
  <2>1. ServerTaskStep(t)
    BY <1>0, <1>2, ServerTaskStays DEF Proceeds
  <2> QED  BY <1>2, <2>1, OneServerTask DEF Proceeds
<1>4. ServersOK'
  <2>1. /\ servers' \subseteq ServerRows
        /\ \A r \in servers' : \E s \in servers : s.id = r.id /\ s.name = r.name
        /\ \A r, s \in servers' : r.id = s.id => r = s
    BY <1>1 DEF ServersOK, Numbered
  <2> QED  BY <1>0, <1>3, <2>1, ServersKeep
<1> QED
  BY <1>0, <1>1, <1>2, <1>3, <1>4

\* Nothing happens to a server: its row, if there is one, is as it was or new.
LEMMA FollowsStill ==
    ASSUME ServersOK, ServerTasksStep, NEW id \in Ids, Follows(id),
           calls' \in Nat, calls \in Nat, calls <= calls',
           accepted'[id] = accepted[id],
           \A s \in servers' : s.id = id =>
             s \in servers \/ (accepted[id] = "none" /\ s.status = "stopped"),
           \A u \in Tasks : /\ Ahead(u, id)' => Ahead(u, id) /\ task'[u] = task[u]
                            /\ Ahead(u, id) => Ahead(u, id)'
    PROVE  Follows(id)'
<1>1. \A u \in Tasks : Powers(u, id)' => Powers(u, id)
  BY DEF ServerTasksStep, ServerTaskStep, Powers
<1>2. \A t, u \in Tasks : Powers(t, id)' /\ Powers(u, id)' => t = u
  BY <1>1 DEF Follows
<1>3. \A t \in Tasks : Ahead(t, id)' => accepted'[id] = Head(task'[t].plan)
  BY DEF Follows
<1>4. ASSUME NEW s \in servers', s.id = id
      PROVE  Wrote(s)' \/ \E t \in Tasks : Ahead(t, id)'
  BY <1>4 DEF Follows, Wrote
<1>5. id > calls' => accepted'[id] = "none"
  BY DEF Follows, Ids
<1>6. \A t \in Tasks :
        task'[t].op = "create" /\ task'[t].n = id => accepted'[id] = "none"
  BY DEF Follows, ServerTasksStep, ServerTaskStep
<1> QED
  BY <1>2, <1>3, <1>4, <1>5, <1>6 DEF Follows

\* A step of a request that is not between the answer and the write.
LEMMA AheadStill ==
    ASSUME NEW t \in Tasks, Alone(t), NEW id \in Ids,
           ~ Ahead(t, id), ~ Ahead(t, id)'
    PROVE  \A u \in Tasks : /\ Ahead(u, id)' => Ahead(u, id) /\ task'[u] = task[u]
                            /\ Ahead(u, id) => Ahead(u, id)'
BY DEF Alone, Ahead, Powers

\* A Create adds a row whose status nobody has acted on yet.
LEMMA CreateFollows ==
    ASSUME TasksOK, ServersOK, StatusOK, NEW t \in Tasks,
           Create(t), UNCHANGED <<accepted, drift, calls>>
    PROVE  StatusOK'
<1>0. calls \in Nat /\ calls' = calls
  BY DEF TasksOK
<1>1. /\ Alone(t) /\ ServerTasksStep /\ task[t].op = "create"
      /\ \A r \in servers' : \/ r \in servers
                             \/ r.id = task[t].n /\ r.status = "stopped"
  BY CreateKeeps DEF Proceeds
<1>2. ASSUME NEW id \in Ids \ drift  PROVE Follows(id)'
  <2>1. Follows(id)
    BY <1>2 DEF StatusOK
  <2>2. ~ Ahead(t, id) /\ ~ Ahead(t, id)'
    BY <1>1 DEF Ahead, Powers, ServerTasksStep, ServerTaskStep
  <2>3. \A s \in servers' : s.id = id =>
          s \in servers \/ (accepted[id] = "none" /\ s.status = "stopped")
    BY <1>1, <2>1 DEF Follows
  <2> QED  BY <1>0, <1>1, <2>1, <2>2, <2>3, AheadStill, FollowsStill
<1> QED
  BY <1>2 DEF StatusOK

\* A row that has been read agrees with the table as long as its server is
\* nobody else's.
LEMMA GetServerFollows ==
    ASSUME TasksOK, ServersOK, StatusOK, NEW t \in Tasks,
           GetServer(t), UNCHANGED <<servers, accepted, drift, calls>>
    PROVE  StatusOK'
<1>0. calls \in Nat /\ calls' = calls
  BY DEF TasksOK
<1>1. /\ Alone(t) /\ ServerTasksStep
      /\ task'[t] = Idle \/ task'[t].pc = "agent"
  BY GetServerKeeps DEF Proceeds
<1>2. ASSUME NEW id \in Ids \ drift  PROVE Follows(id)'
  <2>1. Follows(id)
    BY <1>2 DEF StatusOK
  <2>2. ~ Ahead(t, id) /\ ~ Ahead(t, id)'
    BY <1>1 DEF Ahead, Powers, Idle, GetServer, At
  <2> QED  BY <1>0, <1>1, <2>1, <2>2, AheadStill, FollowsStill
<1> QED
  BY <1>2 DEF StatusOK

\* A deleted row disagrees with nobody.
LEMMA DeleteServerFollows ==
    ASSUME TasksOK, ServersOK, StatusOK, NEW t \in Tasks,
           DeleteServer(t), UNCHANGED <<accepted, drift, calls>>
    PROVE  StatusOK'
<1>0. calls \in Nat /\ calls' = calls
  BY DEF TasksOK
<1>1. /\ Alone(t) /\ ServerTasksStep /\ task[t].op = "delete"
      /\ servers' \subseteq servers
  BY DeleteServerKeeps DEF Proceeds
<1>2. ASSUME NEW id \in Ids \ drift  PROVE Follows(id)'
  <2>1. Follows(id)
    BY <1>2 DEF StatusOK
  <2>2. ~ Ahead(t, id) /\ ~ Ahead(t, id)'
    BY <1>1 DEF Ahead, Powers, ServerTasksStep, ServerTaskStep
  <2> QED  BY <1>0, <1>1, <2>1, <2>2, AheadStill, FollowsStill
<1> QED
  BY <1>2 DEF StatusOK

\* The agent carries out what it is asked, refuses, or its answer is lost.
LEMMA AskAgentFollows ==
    ASSUME TasksOK, ServersOK, StatusOK, NEW t \in Tasks,
           AskAgent(t), UNCHANGED <<servers, calls>>
    PROVE  StatusOK'
<1>0. calls \in Nat /\ calls' = calls /\ task[t] \in Requests
  BY DEF TasksOK
<1> DEFINE key == task[t].key
           verb == Head(task[t].plan)
<1>1. /\ Alone(t) /\ ServerTasksStep /\ task[t].op = "power"
      /\ task[t].pc = "agent"
      /\ \/ task'[t] = Idle
         \/ /\ task'[t].pc = "write" /\ task'[t].plan = task[t].plan
            /\ task'[t].key = key /\ task'[t].op = "power"
  BY AskAgentKeeps DEF Proceeds, AskAgent, At
<1>2. key \in Ids /\ key \in 1..calls /\ verb \in Power
  <2>1. key \in 1..calls /\ task[t].plan \in Plans /\ task[t].plan # <<>>
    BY <1>0, <1>1 DEF ServersOK, Requests
  <2>2. verb \in Power
    BY <2>1, PlanGoesOn
  <2> HIDE DEF verb
  <2> QED  BY <2>1, <2>2, PanelAssumption DEF TasksOK, Ids
<1>3. \/ /\ accepted' = [accepted EXCEPT ![key] = verb]
         /\ Goes(t, "write") /\ drift' = drift
      \/ UNCHANGED <<accepted, drift>> /\ Answer(t)
      \/ /\ accepted' = [accepted EXCEPT ![key] = verb]
         /\ drift' = drift \cup {key}
  BY DEF AskAgent
<1> HIDE DEF verb
<1>4. accepted' \in [Ids -> Power \cup {"none"}] /\ drift' \subseteq Ids
  BY <1>2, <1>3 DEF StatusOK
<1>5. ASSUME NEW id \in Ids \ drift',
             id # key \/ (accepted' = accepted /\ Answer(t))
      PROVE  Follows(id)'
  <2>0. id \in Ids \ drift
    BY <1>3, <1>5
  <2>1. Follows(id) /\ accepted'[id] = accepted[id]
    BY <1>2, <1>3, <1>5 DEF StatusOK
  <2>2. ~ Ahead(t, id)
    BY <1>1 DEF Ahead
  <2>3. ~ Ahead(t, id)'
    BY <1>1, <1>5, Answers DEF Ahead, Powers, Idle
  <2> QED  BY <1>0, <1>1, <2>1, <2>2, <2>3, AheadStill, FollowsStill
<1>6. ASSUME NEW id \in Ids \ drift', id = key, Goes(t, "write"),
             accepted' = [accepted EXCEPT ![key] = verb]
      PROVE  Follows(id)'
  <2>0. id \in Ids \ drift
    BY <1>3, <1>6
  <2>1. Follows(id) /\ accepted'[id] = verb
    BY <1>2, <1>6, <2>0 DEF StatusOK
  <2>2. Ahead(t, id)' /\ task'[t].plan = task[t].plan
    BY <1>1, <1>6, GoesOn, StepNames DEF Ahead, Powers
  <2>3. Powers(t, id) /\ \A u \in Tasks : Powers(u, id)' => Powers(u, id)
    BY <1>1, <1>6 DEF ServerTasksStep, ServerTaskStep, Powers
  <2>4. \A u \in Tasks : Powers(u, id)' => u = t
    BY <2>1, <2>3 DEF Follows
  <2>5. ASSUME NEW u \in Tasks, task'[u].op = "create"  PROVE task'[u].n # id
    <3>1. Held(t, WithId(ServerRows, key))
      BY <1>1 DEF ServersOK
    <3>2. PICK r : task[t].held = {r} /\ r.id = key
      BY <3>1 DEF Held, WithId
    <3>3. task[u].op = "create" /\ task'[u].n = task[u].n
      BY <1>1, <2>5 DEF ServerTasksStep, ServerTaskStep
    <3>4. r.id # task[u].n
      BY <1>1, <3>2, <3>3 DEF ServersOK
    <3> QED  BY <1>6, <3>2, <3>3, <3>4
  <2> QED  BY <1>0, <1>2, <1>6, <2>1, <2>2, <2>4, <2>5 DEF Follows, Ahead, verb, Ids
<1>7. \A id \in Ids \ drift' : Follows(id)'
  BY <1>3, <1>5, <1>6
<1> QED
  BY <1>4, <1>7 DEF StatusOK

\* The written status is that of the power call the agent carried out last: on a
\* server that has not drifted the writer has no rival.
LEMMA WriteStatusFollows ==
    ASSUME TasksOK, ServersOK, StatusOK, NEW t \in Tasks,
           WriteStatus(t), UNCHANGED <<accepted, drift, calls>>
    PROVE  StatusOK'
<1>0. calls \in Nat /\ calls' = calls /\ task[t] \in Requests
  BY DEF TasksOK
<1> DEFINE key == task[t].key
<1>1. /\ Alone(t) /\ ServerTasksStep /\ Ahead(t, key)
      /\ task[t].plan \in Plans /\ task[t].plan # <<>>
      /\ task'[t] = Idle \/ task'[t].pc = "get"
  BY <1>0, WriteStatusKeeps
     DEF Proceeds, WriteStatus, At, Ahead, Powers, ServersOK, Requests
<1>2. \A r \in servers' : \E s \in servers :
        /\ s.id = r.id
        /\ s.id # key => s = r
        /\ s.id = key => r.status = Status(Head(task[t].plan))
  BY WriteStatusKeeps
<1>3. ASSUME NEW id \in Ids \ drift  PROVE Follows(id)'
  <2>1. Follows(id) /\ ~ Ahead(t, id)'
    BY <1>1, <1>3 DEF StatusOK, Ahead, Powers, Idle
  <2>2. CASE id # key
    <3>1. \A s \in servers' : s.id = id => s \in servers
      BY <1>2, <2>2
    <3>2. ~ Ahead(t, id)
      BY <2>2 DEF Ahead, Powers
    <3> QED  BY <1>0, <1>1, <2>1, <3>1, <3>2, AheadStill, FollowsStill
  <2>3. CASE id = key
    <3>1. accepted[id] = Head(task[t].plan) /\ accepted[id] # "none"
      BY <1>1, <2>1, <2>3, PlanGoesOn DEF Follows, Power
    <3>2. \A s \in servers' : s.id = id => Wrote(s)'
      BY <1>2, <2>3, <3>1 DEF Wrote
    <3>3. \A u \in Tasks : Powers(u, id)' => Powers(u, id)
      BY <1>1 DEF ServerTasksStep, ServerTaskStep, Powers
    <3>4. \A u \in Tasks : ~ Ahead(u, id)'
      BY <1>1, <2>1, <2>3, <3>3 DEF Follows, Ahead
    <3>5. \A u \in Tasks :
            task'[u].op = "create" /\ task'[u].n = id => accepted'[id] = "none"
      BY <1>1, <2>1 DEF Follows, ServerTasksStep, ServerTaskStep
    <3> QED  BY <1>0, <2>1, <3>2, <3>3, <3>4, <3>5 DEF Follows
  <2> QED  BY <2>2, <2>3
<1> QED
  BY <1>3 DEF StatusOK

\* A request on servers, in one step.
LEMMA ServerSteps ==
    ASSUME TasksOK, ServersOK, StatusOK, NEW t \in Tasks, ServerStep(t)
    PROVE  /\ ServersOK' /\ StatusOK' /\ Proceeds(t) /\ calls' = calls
           /\ task[t].op \in ServerOps
           /\ \A r \in servers' : \/ \E s \in servers : s.id = r.id
                                  \/ task[t].op = "create" /\ task[t].n = r.id
<1>0. calls' = calls
  BY DEF ServerStep
<1>1. CASE Create(t) /\ UNCHANGED <<accepted, drift, faults>>
  BY <1>0, <1>1, CreateKeeps, CreateFollows DEF ServerOps
<1>2. CASE GetServer(t) /\ UNCHANGED <<serverVars, faults>>
  BY <1>0, <1>2, GetServerKeeps, GetServerFollows DEF ServerOps, serverVars
<1>3. CASE AskAgent(t) /\ UNCHANGED servers
  BY <1>0, <1>3, AskAgentKeeps, AskAgentFollows DEF ServerOps
<1>4. CASE WriteStatus(t) /\ UNCHANGED <<accepted, drift, faults>>
  <2>1. \A r \in servers' : \E s \in servers : s.id = r.id
    BY <1>0, <1>4, WriteStatusKeeps
  <2> QED  BY <1>0, <1>4, <2>1, WriteStatusKeeps, WriteStatusFollows DEF ServerOps
<1>5. CASE DeleteServer(t) /\ UNCHANGED <<accepted, drift, faults>>
  BY <1>0, <1>5, DeleteServerKeeps, DeleteServerFollows DEF ServerOps
<1> QED
  BY <1>1, <1>2, <1>3, <1>4, <1>5 DEF ServerStep

\* Whatever else happens: requests on servers end or stay as they are, and a
\* server that is moved or whose write is lost has drifted.
LEMMA ServersElse ==
    ASSUME TasksOK, ServersOK, StatusOK, servers' = servers,
           calls' \in Nat, calls <= calls',
           \A u \in Tasks :
             \/ task'[u] = task[u]
             \/ task'[u].op \notin {"create", "power"},
           drift \subseteq drift', drift' \subseteq Ids,
           accepted' \in [Ids -> Power \cup {"none"}],
           \A id \in Ids \ drift' :
             /\ accepted'[id] = accepted[id]
             /\ \A u \in Tasks : Ahead(u, id) => Ahead(u, id)'
    PROVE  ServersOK' /\ StatusOK'
<1>1. ServerTasksStep
  BY ServerTaskStays DEF ServerTasksStep
<1>2. ServersOK'
  BY <1>1, ServersQuiet
<1>3. ASSUME NEW id \in Ids \ drift'  PROVE Follows(id)'
  <2>1. Follows(id)
    BY <1>3 DEF StatusOK
  <2>2. \A u \in Tasks : Ahead(u, id)' => Ahead(u, id) /\ task'[u] = task[u]
    BY DEF Ahead, Powers
  <2>3. calls \in Nat
    BY DEF TasksOK
  <2> QED  BY <1>1, <1>3, <2>1, <2>2, <2>3, FollowsStill
<1> QED
  BY <1>2, <1>3 DEF StatusOK

\* A request to create a server arrives.
LEMMA CreateArrives ==
    ASSUME TasksOK, ServersOK, StatusOK, NEW t \in Tasks, CallCreate(t),
           UNCHANGED <<servers, accepted>>
    PROVE  ServersOK' /\ StatusOK' /\ Begins(t) /\ task'[t].op = "create"
<1>0. calls \in Nat /\ calls < MaxCalls /\ MaxCalls \in Nat
  BY PanelAssumption DEF CallCreate, Arrive, TasksOK
<1>1. PICK name \in Names :
        Arrive(t, "server", Request("create", "look", 0,
          {[id |-> calls + 1, name |-> name, status |-> "stopped"]}))
  BY DEF CallCreate
<1> DEFINE row == [id |-> calls + 1, name |-> name, status |-> "stopped"]
           req == Request("create", "look", 0, {row})
<1>2. row \in ServerRows /\ row.id = calls + 1 /\ row.status = "stopped"
  BY <1>0 DEF ServerRows, Ids, Statuses
<1> HIDE DEF row
<1>3. /\ req \in Requests /\ req.op = "create" /\ req.n = calls + 1
      /\ req.held = {row} /\ req.pc = "look"
  <2>1. {row} \in Holdings /\ <<>> \in Plans /\ calls + 1 \in 0..MaxCalls /\ 0 \in 0..MaxCalls
    BY <1>0, <1>2, Copies, RowKinds DEF Plans
  <2>2. "create" \in Ops /\ "look" \in Pcs
    BY DEF Ops, ServerOps, Pcs, Statements
  <2> QED  BY <2>1, <2>2 DEF Request, Requests
<1>4. Arrive(t, "server", req)
  BY <1>1 DEF row
<1> HIDE DEF req
<1>5. Begins(t) /\ task'[t] = req
  BY <1>3, <1>4, Arrives
<1>6. calls' = calls + 1 /\ (\A u \in Tasks \ {t} : task'[u] = task[u]) /\ task[t] = Idle
  BY <1>5 DEF Begins, Alone
<1>7. ServersOK'
  <2>1. Numbered(servers)'
    BY <1>0, <1>6 DEF ServersOK, Numbered
  <2>2. ASSUME NEW u \in Tasks, task'[u].op = "create"
        PROVE  /\ Held(u, {r \in ServerRows : r.id = task[u].n /\ r.status = "stopped"})'
               /\ \A s \in servers' : s.id # task'[u].n
               /\ \A v \in Tasks : task'[v].op = "power" =>
                    \A r \in task'[v].held : r.id # task'[u].n
    <3>1. \A v \in Tasks : task'[v].op = "power" => task'[v] = task[v]
      BY <1>3, <1>5, <1>6
    <3>2. CASE u = t
      <4>1. /\ Held(u, {r \in ServerRows : r.id = task[u].n /\ r.status = "stopped"})'
            /\ \A s \in servers' : s.id # task'[u].n
        BY <1>0, <1>2, <1>3, <1>5, <3>2 DEF ServersOK, Held, Numbered
      <4>2. ASSUME NEW v \in Tasks, task'[v].op = "power", NEW r \in task'[v].held
            PROVE  r.id # task'[u].n
        <5>1. r.id = task[v].key /\ task[v].key \in 1..calls
          BY <3>1, <4>2 DEF ServersOK, Held, WithId
        <5> QED  BY <1>0, <1>3, <1>5, <3>2, <5>1
      <4> QED  BY <4>1, <4>2
    <3>3. CASE u # t
      BY <1>6, <2>2, <3>1, <3>3 DEF ServersOK, Held
    <3> QED  BY <3>2, <3>3
  <2>3. ASSUME NEW u \in Tasks, task'[u].op = "power"
        PROVE  /\ task'[u].key \in 1..calls' /\ task'[u].plan # <<>>
               /\ \/ Held(u, WithId(ServerRows, task[u].key))'
                  \/ task'[u].pc \notin {"agent", "write"} /\ task'[u].held = {}
               /\ \A r \in task'[u].held, s \in servers' : r.id = s.id => r.name = s.name
    <3>1. task'[u] = task[u]
      BY <1>3, <1>5, <1>6, <2>3
    <3> QED  BY <1>0, <1>6, <2>3, <3>1 DEF ServersOK, Held
  <2> QED  BY <2>1, <2>2, <2>3 DEF ServersOK
<1>8. ASSUME NEW id \in Ids \ drift  PROVE Follows(id)'
  <2>1. Follows(id)
    BY <1>8 DEF StatusOK
  <2>2. \A u \in Tasks : task'[u].op = "power" => task'[u] = task[u]
    BY <1>3, <1>5, <1>6
  <2>3. \A u \in Tasks : Ahead(u, id) <=> Ahead(u, id)'
    BY <1>3, <1>5, <1>6 DEF Ahead, Powers, Idle
  <2>4. \A u \in Tasks :
          task'[u].op = "create" /\ task'[u].n = id => accepted[id] = "none"
    BY <1>0, <1>3, <1>5, <1>6, <2>1 DEF Follows, Ids
  <2>5. \A u, v \in Tasks : Powers(u, id)' /\ Powers(v, id)' => u = v
    BY <2>1, <2>2 DEF Follows, Powers
  <2>6. \A s \in servers' : s.id = id => Wrote(s)' \/ \E u \in Tasks : Ahead(u, id)'
    BY <2>1, <2>3 DEF Follows, Wrote
  <2>7. \A u \in Tasks : Ahead(u, id)' => accepted[id] = Head(task'[u].plan)
    BY <2>1, <2>2, <2>3 DEF Follows, Ahead, Powers
  <2> QED  BY <1>0, <1>6, <2>1, <2>4, <2>5, <2>6, <2>7 DEF Follows, Ids
<1>9. StatusOK'
  BY <1>8 DEF StatusOK, CallCreate
<1> QED
  BY <1>3, <1>5, <1>7, <1>9

\* The row of a power call is not the one a Create is about to insert.
LEMMA HeldIsOld ==
    ASSUME ServersOK, NEW u \in Tasks, NEW v \in Tasks,
           task[u].op = "create", task[v].op = "power", NEW r \in task[v].held
    PROVE  r.id # task[u].n
BY DEF ServersOK

\* A request with another plan, field by field.
LEMMA WithPlan ==
    ASSUME NEW op, NEW pc, NEW n, NEW key, NEW held, NEW none, NEW plan
    PROVE  [[op |-> op, pc |-> pc, n |-> n, key |-> key, held |-> held,
             plan |-> none] EXCEPT !.plan = plan] =
           [op |-> op, pc |-> pc, n |-> n, key |-> key, held |-> held, plan |-> plan]
OBVIOUS

\* A power call arrives; two at once leave the row and the server to chance.
LEMMA PowerArrives ==
    ASSUME TasksOK, ServersOK, StatusOK, NEW t \in Tasks, CallPower(t),
           UNCHANGED <<servers, accepted>>
    PROVE  ServersOK' /\ StatusOK' /\ Begins(t) /\ task'[t].op = "power"
<1>0. calls \in Nat /\ calls < MaxCalls /\ MaxCalls \in Nat
  BY PanelAssumption DEF CallPower, Arrive, TasksOK
<1>1. PICK key \in 1..calls, plan \in {<<"start">>, <<"stop">>, <<"stop", "start">>} :
        /\ Arrive(t, "server", [Request("power", "get", key, {}) EXCEPT !.plan = plan])
        /\ drift' = IF \E u \in Tasks : task[u].op = "power" /\ task[u].key = key
                      THEN drift \cup {key} ELSE drift
  BY DEF CallPower
<1> DEFINE req == [op |-> "power", pc |-> "get", n |-> calls + 1, key |-> key,
                   held |-> {}, plan |-> plan]
<1>2. /\ req \in Requests /\ req.op = "power" /\ req.n = calls + 1 /\ req.key = key
      /\ req.held = {} /\ req.pc = "get" /\ req.plan = plan /\ plan # <<>>
  <2>1. {} \in Holdings /\ plan \in Plans /\ plan # <<>>
    BY DEF Holdings, Plans
  <2>2. "power" \in Ops /\ "get" \in Pcs
    BY DEF Ops, ServerOps, Pcs, Statements
  <2>3. calls + 1 \in 0..MaxCalls /\ key \in 0..MaxCalls
    BY <1>0
  <2> QED  BY <2>1, <2>2, <2>3 DEF Requests
<1>3. [Request("power", "get", key, {}) EXCEPT !.plan = plan] = req
  BY WithPlan DEF Request
<1>4. Arrive(t, "server", req)
  BY <1>1, <1>3
<1> HIDE DEF req
<1>5. Begins(t) /\ task'[t] = req
  BY <1>2, <1>4, Arrives
<1>6. calls' = calls + 1 /\ (\A u \in Tasks \ {t} : task'[u] = task[u]) /\ task[t] = Idle
  BY <1>5 DEF Begins, Alone
<1>7. ServersOK'
  <2>1. Numbered(servers)'
    BY <1>0, <1>6 DEF ServersOK, Numbered
  <2>2. ASSUME NEW u \in Tasks, task'[u].op = "create"
        PROVE  /\ Held(u, {r \in ServerRows : r.id = task[u].n /\ r.status = "stopped"})'
               /\ \A s \in servers' : s.id # task'[u].n
               /\ \A v \in Tasks : task'[v].op = "power" =>
                    \A r \in task'[v].held : r.id # task'[u].n
    <3>1. task'[u] = task[u]
      BY <1>2, <1>5, <1>6, <2>2
    <3>2. ASSUME NEW v \in Tasks, task'[v].op = "power", NEW r \in task'[v].held
          PROVE  r.id # task'[u].n
      <4>1. v # t
        BY <1>2, <1>5, <3>2
      <4>2. task'[v] = task[v]
        BY <1>6, <4>1
      <4> QED  BY <2>2, <3>1, <3>2, <4>2, HeldIsOld
    <3> QED  BY <2>2, <3>1, <3>2 DEF ServersOK, Held
  <2>3. ASSUME NEW u \in Tasks, task'[u].op = "power"
        PROVE  /\ task'[u].key \in 1..calls' /\ task'[u].plan # <<>>
               /\ \/ Held(u, WithId(ServerRows, task[u].key))'
                  \/ task'[u].pc \notin {"agent", "write"} /\ task'[u].held = {}
               /\ \A r \in task'[u].held, s \in servers' : r.id = s.id => r.name = s.name
    <3>1. CASE u = t
      BY <1>0, <1>2, <1>5, <1>6, <3>1
    <3>2. CASE u # t
      BY <1>0, <1>6, <2>3, <3>2 DEF ServersOK, Held
    <3> QED  BY <3>1, <3>2
  <2> QED  BY <2>1, <2>2, <2>3 DEF ServersOK
<1>8. key \in Ids /\ drift \subseteq drift' /\ drift' \subseteq Ids
  BY <1>0, <1>1 DEF StatusOK, Ids
<1>9. ASSUME NEW id \in Ids \ drift'  PROVE Follows(id)'
  <2>1. Follows(id)
    BY <1>8, <1>9 DEF StatusOK
  <2>2. \A u \in Tasks : Powers(u, id)' => Powers(u, id) \/ (u = t /\ id = key)
    BY <1>2, <1>5, <1>6 DEF Powers
  <2>3. \A u \in Tasks : /\ Ahead(u, id) <=> Ahead(u, id)'
                         /\ Ahead(u, id) => task'[u] = task[u]
    BY <1>2, <1>5, <1>6 DEF Ahead, Powers, Idle
  <2>4. \A u \in Tasks :
          task'[u].op = "create" /\ task'[u].n = id => accepted[id] = "none"
    BY <1>2, <1>5, <1>6, <2>1 DEF Follows
  <2>5. \A u, v \in Tasks : Powers(u, id)' /\ Powers(v, id)' => u = v
    <3>1. id = key => \A u \in Tasks : ~ Powers(u, id)
      BY <1>1, <1>9 DEF Powers
    <3> QED  BY <2>1, <2>2, <3>1 DEF Follows
  <2>6. \A s \in servers' : s.id = id => Wrote(s)' \/ \E u \in Tasks : Ahead(u, id)'
    BY <2>1, <2>3 DEF Follows, Wrote
  <2>7. \A u \in Tasks : Ahead(u, id)' => accepted[id] = Head(task'[u].plan)
    BY <2>1, <2>3 DEF Follows
  <2> QED  BY <1>0, <1>6, <2>1, <2>4, <2>5, <2>6, <2>7 DEF Follows, Ids
<1>10. StatusOK'
  BY <1>8, <1>9 DEF StatusOK
<1> QED
  BY <1>2, <1>5, <1>7, <1>10

\* A request to delete a server arrives.
LEMMA DeleteArrives ==
    ASSUME TasksOK, ServersOK, StatusOK, NEW t \in Tasks, CallDelete(t),
           UNCHANGED <<servers, accepted>>
    PROVE  ServersOK' /\ StatusOK' /\ Begins(t) /\ task'[t].op = "delete"
<1>0. calls \in Nat /\ calls < MaxCalls /\ MaxCalls \in Nat
  BY PanelAssumption DEF CallDelete, Arrive, TasksOK
<1>1. PICK key \in 1..calls : Arrive(t, "server", Request("delete", "get", key, {}))
  BY DEF CallDelete
<1> DEFINE req == Request("delete", "get", key, {})
<1>2. /\ req \in Requests /\ req.op = "delete" /\ req.n = calls + 1 /\ req.pc = "get"
  <2>1. {} \in Holdings /\ <<>> \in Plans
    BY DEF Holdings, Plans
  <2>2. "delete" \in Ops /\ "get" \in Pcs
    BY DEF Ops, ServerOps, Pcs, Statements
  <2>3. calls + 1 \in 0..MaxCalls /\ key \in 0..MaxCalls
    BY <1>0
  <2> QED  BY <2>1, <2>2, <2>3 DEF Request, Requests
<1> HIDE DEF req
<1>3. Begins(t) /\ task'[t] = req
  BY <1>1, <1>2, Arrives DEF req
<1>4. /\ calls' = calls + 1 /\ task[t] = Idle
      /\ \A u \in Tasks : task'[u] = task[u] \/ task'[u].op \notin {"create", "power"}
      /\ \A u \in Tasks, id \in Ids : Ahead(u, id) => Ahead(u, id)'
  BY <1>2, <1>3 DEF Begins, Alone, Ahead, Powers, Idle
<1> QED
  BY <1>0, <1>2, <1>3, <1>4, ServersElse DEF StatusOK, CallDelete

-----------------------------------------------------------------------------
(***************************************************************************)
(* Ports                                                                   *)
(***************************************************************************)
\* A set of numbers that is not empty has a least one, so there is a first
\* free port as long as there is a free one.
LEMMA Least ==
    ASSUME NEW S, S \subseteq Nat, S # {}
    PROVE  \E x \in S : \A y \in S : x <= y
<1> DEFINE R == OpToRel(<, Nat)
<1>1. IsWellFoundedOn(R, Nat)
  BY NatLessThanWellFounded
<1>2. \A x, y \in Nat : y < x => <<y, x>> \in R
  BY DEF OpToRel
<1> HIDE DEF R
<1>3. PICK x \in S : \A y \in S : ~ (<<y, x>> \in R)
  BY <1>1, WFMin
<1>4. ASSUME NEW y \in S  PROVE x <= y
  <2>1. x \in Nat /\ y \in Nat
    OBVIOUS
  <2>2. ~ (y < x)
    BY <1>2, <1>3, <2>1
  <2> QED  BY <2>1, <2>2
<1> QED
  BY <1>3, <1>4

\* Assign takes a port, one of which it saw no row.
LEMMA FirstFreeIsFree ==
    ASSUME NEW used, FreePorts(used) # {}
    PROVE  FirstFree(used) \in Ports /\ FirstFree(used) \notin used
<1>1. FreePorts(used) \subseteq Nat
  BY ResourcesAssumption DEF FreePorts, Ports
<1>2. \E p \in FreePorts(used) : \A q \in FreePorts(used) : p <= q
  BY <1>1, Least
<1>3. FirstFree(used) \in FreePorts(used)
  BY <1>2 DEF FirstFree
<1> QED
  BY <1>3 DEF FreePorts

\* Nothing is inserted, and requests end, stay, or go on with the row they made.
LEMMA AllocationsKeep ==
    ASSUME TasksOK, AllocationsOK, calls' \in Nat, calls <= calls',
           allocations' \subseteq allocations,
           \A u \in Tasks :
             \/ task'[u] = task[u]
             \/ task'[u].op # "assign"
             \/ /\ task[u].op = "assign" /\ task'[u].n = task[u].n
                /\ task'[u].pc = "insert" /\ Held(u, WithId(Allocations, task[u].n))'
    PROVE  AllocationsOK'
<1>1. Numbered(allocations)'
  BY DEF AllocationsOK, Numbered, TasksOK
<1>2. ASSUME NEW u \in Tasks, task'[u].op = "assign"
      PROVE  /\ task'[u].pc \in {"look", "insert"}
             /\ task'[u].pc = "insert" => Held(u, WithId(Allocations, task[u].n))'
             /\ \A s \in allocations' : s.id # task'[u].n
  BY <1>2 DEF AllocationsOK, Held
<1> QED
  BY <1>1, <1>2 DEF AllocationsOK

\* The statements of Assign and Free keep ports and ids unique.
LEMMA AllocationSteps ==
    ASSUME TasksOK, AllocationsOK, NEW t \in Tasks, AllocationStep(t)
    PROVE  /\ AllocationsOK' /\ Proceeds(t) /\ calls' = calls
           /\ task[t].op \in AllocationOps
           /\ \A r \in allocations' : \/ \E s \in allocations : s.id = r.id
                                      \/ task[t].op = "assign" /\ task[t].n = r.id
<1>0. calls \in Nat /\ calls' = calls /\ task[t] \in Requests
  BY DEF TasksOK, AllocationStep
<1>1. CASE GetFreePort(t)
  <2>1. task[t].op = "assign" /\ task[t].pc = "look" /\ allocations' = allocations
    BY <1>1 DEF GetFreePort, At
  <2>2. CASE Answer(t)
    <3>1. Proceeds(t) /\ task'[t] = Idle
      BY <2>2, Answers
    <3>2. AllocationsOK'
      BY <1>0, <2>1, <3>1, AllocationsKeep DEF Proceeds, Alone, Idle
    <3> QED  BY <1>0, <2>1, <3>1, <3>2 DEF AllocationOps
  <2>3. CASE ~ Answer(t)
    <3>0. PICK used : /\ FreePorts(used) # {}
                      /\ Holds(t, "insert", {[id |-> task[t].n, port |-> FirstFree(used)]})
      BY <1>1, <2>3 DEF GetFreePort
    <3> DEFINE row == [id |-> task[t].n, port |-> FirstFree(used)]
    <3>1. Holds(t, "insert", {row})
      BY <3>0
    <3>2. task[t].n \in Ids
      BY <1>0, <2>1 DEF TasksOK, Requests, Ids
    <3>3. row \in Allocations /\ row.id = task[t].n
      BY <3>0, <3>2, FirstFreeIsFree DEF Allocations
    <3> HIDE DEF row
    <3>4. {row} \in Holdings
      BY <3>3, Copies, RowKinds
    <3>5. /\ Proceeds(t) /\ task'[t].op = "assign" /\ task'[t].n = task[t].n
          /\ task'[t].pc = "insert" /\ task'[t].held = {row}
      BY <2>1, <3>1, <3>4, HoldsRows, StepNames
    <3>6. Held(t, WithId(Allocations, task[t].n))'
      BY <3>3, <3>5 DEF Held, WithId
    <3>7. AllocationsOK'
      BY <1>0, <2>1, <3>5, <3>6, AllocationsKeep DEF Proceeds, Alone
    <3> QED  BY <1>0, <2>1, <3>5, <3>7 DEF AllocationOps
  <2> QED  BY <2>2, <2>3
<1>2. CASE InsertAllocation(t)
  <2>1. task[t].op = "assign" /\ task[t].pc = "insert"
    BY <1>2 DEF InsertAllocation, At
  <2>2. Proceeds(t) /\ task'[t] = Idle
    BY <1>2, Answers DEF InsertAllocation
  <2> DEFINE row == Row(t)
  <2>3. row \in Allocations /\ row.id = task[t].n
    <3>1. Held(t, WithId(Allocations, task[t].n))
      BY <2>1 DEF AllocationsOK
    <3> QED  BY <3>1, HeldRow DEF WithId
  <2>4. allocations' = Insert(allocations, row, SamePort(row))
    BY <1>2 DEF InsertAllocation
  <2> HIDE DEF row
  <2>5. CASE SamePort(row) # {}
    <3>1. allocations' = allocations
      BY <2>4, <2>5 DEF Insert
    <3>2. AllocationsOK'
      BY <1>0, <2>2, <3>1, AllocationsKeep DEF Proceeds, Alone, Idle
    <3> QED  BY <1>0, <2>1, <2>2, <3>1, <3>2 DEF AllocationOps
  <2>6. CASE SamePort(row) = {}
    <3>1. allocations' = allocations \cup {row}
      BY <2>4, <2>6 DEF Insert
    <3>2. \A s \in allocations : s.id # row.id /\ s.port # row.port
      BY <2>1, <2>3, <2>6 DEF AllocationsOK, SamePort
    <3>3. row.id \in 1..calls
      BY <2>3 DEF Allocations, Ids, TasksOK
    <3>4. /\ Numbered(allocations)' /\ allocations' \subseteq Allocations
          /\ \A r, s \in allocations' : r.port = s.port => r = s
      BY <1>0, <2>3, <3>1, <3>2, <3>3 DEF AllocationsOK, Numbered
    <3>5. ASSUME NEW u \in Tasks, task'[u].op = "assign"
          PROVE  /\ task'[u].pc \in {"look", "insert"}
                 /\ task'[u].pc = "insert" => Held(u, WithId(Allocations, task[u].n))'
                 /\ \A s \in allocations' : s.id # task'[u].n
      <4>1. u # t /\ task'[u] = task[u]
        BY <2>2, <3>5 DEF Proceeds, Alone, Idle
      <4>2. task[u].n # row.id
        BY <2>1, <2>3, <3>5, <4>1 DEF TasksOK
      <4> QED  BY <3>1, <3>5, <4>1, <4>2 DEF AllocationsOK, Held
    <3>6. AllocationsOK'
      BY <3>4, <3>5 DEF AllocationsOK
    <3> QED  BY <1>0, <2>1, <2>2, <2>3, <3>1, <3>6 DEF AllocationOps
  <2> QED  BY <2>5, <2>6
<1>3. CASE Free(t)
  <2>1. task[t].op = "free" /\ allocations' \subseteq allocations
    BY <1>3 DEF Free, At, Delete
  <2>2. Proceeds(t)
    <3>1. CASE Answer(t)
      BY <3>1, Answers
    <3>2. CASE ~ Answer(t)
      <4> DEFINE rows == Select(allocations, task[t].key)
      <4>1. rows # {} /\ Holds(t, "delete", rows)
        BY <1>3, <3>2 DEF Free, LooksUp
      <4>2. rows \in Holdings
        BY <4>1, SelectOne, Copies, RowKinds DEF AllocationsOK
      <4> HIDE DEF rows
      <4> QED  BY <4>1, <4>2, HoldsRows, StepNames
    <3> QED  BY <3>1, <3>2
  <2>3. AllocationsOK'
    BY <1>0, <2>1, <2>2, AllocationsKeep DEF Proceeds, Alone, Idle
  <2> QED  BY <1>0, <2>1, <2>2, <2>3 DEF AllocationOps
<1> QED
  BY <1>1, <1>2, <1>3 DEF AllocationStep


\* So do the requests for them.
LEMMA AllocationCalls ==
    ASSUME TasksOK, AllocationsOK, NEW t \in Tasks, CallAssign(t) \/ CallFree(t),
           UNCHANGED allocations
    PROVE  AllocationsOK' /\ Begins(t) /\ task'[t].op \in AllocationOps
<1>0. calls \in Nat /\ MaxCalls \in Nat /\ calls <= MaxCalls
  BY PanelAssumption DEF TasksOK
<1>1. CASE CallAssign(t)
  <2>0. Arrive(t, "allocation", Request("assign", "look", 0, {}))
    BY <1>1 DEF CallAssign
  <2>a. "assign" \in Ops /\ "look" \in Pcs
    BY OpNames
  <2>b. 0 \in 0..MaxCalls
    BY <1>0
  <2>1. /\ Begins(t) /\ task'[t].op = "assign" /\ task'[t].pc = "look"
        /\ task'[t].n = calls + 1
    BY <2>0, <2>a, <2>b, RequestArrives, NothingHeld
  <2>2. calls' = calls + 1 /\ \A u \in Tasks \ {t} : task'[u] = task[u]
    BY <2>1 DEF Begins, Alone
  <2>3. Numbered(allocations)'
    BY <1>0, <2>2 DEF AllocationsOK, Numbered
  <2>4. ASSUME NEW u \in Tasks, task'[u].op = "assign"
        PROVE  /\ task'[u].pc \in {"look", "insert"}
               /\ task'[u].pc = "insert" => Held(u, WithId(Allocations, task[u].n))'
               /\ \A s \in allocations' : s.id # task'[u].n
    <3>1. CASE u = t
      BY <1>0, <2>1, <3>1 DEF AllocationsOK, Numbered
    <3>2. CASE u # t
      BY <2>2, <2>4, <3>2 DEF AllocationsOK, Held
    <3> QED  BY <3>1, <3>2
  <2>5. AllocationsOK'
    BY <2>3, <2>4 DEF AllocationsOK
  <2> QED  BY <2>1, <2>5 DEF AllocationOps
<1>2. CASE CallFree(t)
  <2>1. PICK id \in 1..calls : Arrive(t, "allocation", Request("free", "get", id, {}))
    BY <1>2 DEF CallFree
  <2>a. "free" \in Ops /\ "get" \in Pcs
    BY OpNames
  <2>2. id \in 0..MaxCalls
    BY <1>0
  <2>3. Begins(t) /\ task'[t].op = "free"
    BY <2>1, <2>2, <2>a, RequestArrives, NothingHeld
  <2>4. AllocationsOK'
    BY <1>0, <2>3, AllocationsKeep DEF Begins, Alone
  <2> QED  BY <2>3, <2>4 DEF AllocationOps
<1> QED  BY <1>1, <1>2

-----------------------------------------------------------------------------
(***************************************************************************)
(* Subusers                                                                *)
(***************************************************************************)
\* A request to add keeps what it holds, one to permit reads a row.
SubuserTaskStep(u) ==
  \/ task'[u] = task[u]
  \/ task'[u].op \notin {"add", "permit"}
  \/ /\ task'[u].op = "add" /\ task[u].op = "add"
     /\ task'[u].n = task[u].n /\ task'[u].held = task[u].held
  \/ /\ task'[u].op = "permit" /\ task'[u].pc = "write"
     /\ \E r \in SubuserRows, s \in subusers :
          /\ task'[u].held = {r} /\ r.id = s.id
          /\ r.server = s.server /\ r.email = s.email

\* No row is new and none goes to another server or another person.
LEMMA SubusersKeep ==
    ASSUME TasksOK, SubusersOK, calls' \in Nat, calls <= calls',
           \A u \in Tasks : SubuserTaskStep(u),
           subusers' \subseteq SubuserRows,
           \A r \in subusers' : \E s \in subusers :
             s.id = r.id /\ s.server = r.server /\ s.email = r.email,
           \A r, s \in subusers' : r.id = s.id => r = s
    PROVE  SubusersOK'
<1> USE DEF SubuserTaskStep
<1>1. Numbered(subusers)'
  BY DEF SubusersOK, Numbered, TasksOK
<1>2. \A r, s \in subusers' : r.server = s.server /\ r.email = s.email => r = s
  BY DEF SubusersOK
<1>3. ASSUME NEW t \in Tasks, task'[t].op = "add"
      PROVE  /\ Held(t, WithId(SubuserRows, task[t].n))'
             /\ \A s \in subusers' : s.id # task'[t].n
             /\ \A u \in Tasks : At(u, "permit", "write")' =>
                  \A r \in task'[u].held : r.id # task'[t].n
  <2>1. task[t].op = "add" /\ task'[t].n = task[t].n /\ task'[t].held = task[t].held
    BY <1>3
  <2>2. /\ Held(t, WithId(SubuserRows, task[t].n))'
        /\ \A s \in subusers : s.id # task'[t].n
    BY <2>1 DEF SubusersOK, Held
  <2>3. ASSUME NEW u \in Tasks, At(u, "permit", "write")', NEW r \in task'[u].held
        PROVE  r.id # task'[t].n
    <3>1. CASE task'[u] = task[u]
      BY <2>1, <2>3, <3>1 DEF SubusersOK, At
    <3>2. CASE task'[u] # task[u]
      BY <2>2, <2>3, <3>2 DEF At
    <3> QED  BY <3>1, <3>2
  <2> QED  BY <2>2, <2>3
<1>4. ASSUME NEW t \in Tasks, task'[t].op = "permit"
      PROVE  /\ task'[t].pc \in {"get", "write"}
             /\ task'[t].pc = "get" => Held(t, [perms : BOOLEAN])'
             /\ task'[t].pc = "write" =>
                  /\ Held(t, {r \in SubuserRows : r.id \in 1..calls})'
                  /\ \A r \in task'[t].held, s \in subusers' :
                       r.id = s.id => r.server = s.server /\ r.email = s.email
  <2>1. CASE task'[t] = task[t]
    BY <1>4, <2>1 DEF SubusersOK, Held, TasksOK
  <2>2. CASE task'[t] # task[t]
    <3>1. PICK r \in SubuserRows, s \in subusers :
            /\ task'[t].held = {r} /\ r.id = s.id
            /\ r.server = s.server /\ r.email = s.email
      BY <1>4, <2>2
    <3>2. task'[t].pc = "write" /\ r.id \in 1..calls'
      BY <1>4, <2>2, <3>1 DEF SubusersOK, Numbered, TasksOK
    <3>3. Held(t, {x \in SubuserRows : x.id \in 1..calls})'
      BY <3>1, <3>2 DEF Held
    <3>4. \A x \in subusers' : r.id = x.id => r.server = x.server /\ r.email = x.email
      <4>1. ASSUME NEW x \in subusers', r.id = x.id
            PROVE  r.server = x.server /\ r.email = x.email
        <5>1. PICK y \in subusers : y.id = x.id /\ y.server = x.server /\ y.email = x.email
          OBVIOUS
        <5>2. y = s
          <6>1. y.id = s.id
            BY <3>1, <4>1, <5>1
          <6>2. \A a, b \in subusers : a.id = b.id => a = b
            BY DEF SubusersOK, Numbered
          <6> QED  BY <6>1, <6>2
        <5> QED  BY <3>1, <5>1, <5>2
      <4> QED  BY <4>1
    <3> QED  BY <3>1, <3>2, <3>3, <3>4
  <2> QED  BY <2>1, <2>2
<1> QED
  BY <1>1, <1>2, <1>3, <1>4 DEF SubusersOK

\* The table stays or loses rows.
LEMMA SubusersQuiet ==
    ASSUME TasksOK, SubusersOK, calls' \in Nat, calls <= calls',
           \A u \in Tasks : SubuserTaskStep(u), subusers' \subseteq subusers
    PROVE  SubusersOK'
<1>1. /\ subusers' \subseteq SubuserRows
      /\ \A r \in subusers' : \E s \in subusers :
           s.id = r.id /\ s.server = r.server /\ s.email = r.email
      /\ \A r, s \in subusers' : r.id = s.id => r = s
  BY DEF SubusersOK, Numbered
<1> QED
  BY <1>1, SubusersKeep

\* Adding a subuser keeps one row for each server and user.
LEMMA AddKeeps ==
    ASSUME TasksOK, SubusersOK, NEW t \in Tasks, Add(t), calls' = calls
    PROVE  /\ SubusersOK' /\ Proceeds(t) /\ task[t].op = "add"
           /\ \A r \in subusers' : \/ \E s \in subusers : s.id = r.id
                                   \/ task[t].n = r.id
<1>0. calls \in Nat /\ task[t].op = "add"
  BY DEF TasksOK, Add, At
<1>1. CASE Answer(t) /\ subusers' = subusers
  <2>1. Proceeds(t) /\ task'[t] = Idle
    BY <1>1, Answers
  <2>2. \A u \in Tasks : SubuserTaskStep(u)
    BY <2>1 DEF SubuserTaskStep, Proceeds, Alone, Idle
  <2> QED  BY <1>0, <1>1, <2>1, <2>2, SubusersQuiet
<1>2. CASE Goes(t, "insert") /\ subusers' = subusers
  <2>1. /\ Proceeds(t) /\ task'[t].op = "add" /\ task'[t].n = task[t].n
        /\ task'[t].held = task[t].held
    BY <1>0, <1>2, GoesOn, StepNames
  <2>2. \A u \in Tasks : SubuserTaskStep(u)
    BY <1>0, <2>1 DEF SubuserTaskStep, Proceeds, Alone
  <2> QED  BY <1>0, <1>2, <2>1, <2>2, SubusersQuiet
<1>3. CASE subusers' # subusers
  <2> DEFINE row == Row(t)
  <2>1. /\ Answer(t) /\ subusers' = Insert(subusers, row, SameAccess(row))
    BY <1>3 DEF Add
  <2>2. Proceeds(t) /\ task'[t] = Idle
    BY <2>1, Answers
  <2>3. row \in SubuserRows /\ row.id = task[t].n
    <3>1. Held(t, WithId(SubuserRows, task[t].n))
      BY <1>0 DEF SubusersOK
    <3> QED  BY <3>1, HeldRow DEF WithId
  <2> HIDE DEF row
  <2>4. subusers' = subusers \cup {row} /\ SameAccess(row) = {}
    BY <1>3, <2>1 DEF Insert
  <2>5. \A s \in subusers : s.id # row.id /\ ~ (s.server = row.server /\ s.email = row.email)
    BY <1>0, <2>3, <2>4 DEF SubusersOK, SameAccess
  <2>6. row.id \in 1..calls
    BY <2>3 DEF SubuserRows, Ids, TasksOK
  <2>7. /\ Numbered(subusers)' /\ subusers' \subseteq SubuserRows
        /\ \A r, s \in subusers' : r.server = s.server /\ r.email = s.email => r = s
    BY <1>0, <2>3, <2>4, <2>5, <2>6 DEF SubusersOK, Numbered
  <2>8. \A u \in Tasks : task'[u].op \in {"add", "permit"} => u # t /\ task'[u] = task[u]
    BY <2>2 DEF Proceeds, Alone, Idle
  <2>9. ASSUME NEW u \in Tasks, task'[u].op = "add"
        PROVE  /\ Held(u, WithId(SubuserRows, task[u].n))'
               /\ \A s \in subusers' : s.id # task'[u].n
               /\ \A v \in Tasks : At(v, "permit", "write")' =>
                    \A r \in task'[v].held : r.id # task'[u].n
    <3>1. task[u].n # row.id
      BY <1>0, <2>3, <2>8, <2>9 DEF TasksOK
    <3> QED  BY <2>4, <2>8, <2>9, <3>1 DEF SubusersOK, Held, At
  <2>10. ASSUME NEW u \in Tasks, task'[u].op = "permit"
         PROVE  /\ task'[u].pc \in {"get", "write"}
                /\ task'[u].pc = "get" => Held(u, [perms : BOOLEAN])'
                /\ task'[u].pc = "write" =>
                     /\ Held(u, {r \in SubuserRows : r.id \in 1..calls})'
                     /\ \A r \in task'[u].held, s \in subusers' :
                          r.id = s.id => r.server = s.server /\ r.email = s.email
    <3>1. task'[u] = task[u] /\ task[u].op = "permit"
      BY <2>8, <2>10
    <3>2. task[u].pc = "write" => \A r \in task[u].held : r.id # row.id
      BY <1>0, <2>3, <3>1 DEF SubusersOK, At
    <3> QED  BY <1>0, <2>4, <3>1, <3>2 DEF SubusersOK, Held
  <2>11. SubusersOK'
    BY <2>7, <2>9, <2>10 DEF SubusersOK
  <2> QED  BY <1>0, <2>2, <2>3, <2>4, <2>11
<1> QED
  BY <1>1, <1>2, <1>3 DEF Add

\* Changing permissions adds no row.
LEMMA UpdatePermissionsKeeps ==
    ASSUME TasksOK, SubusersOK, NEW t \in Tasks, UpdatePermissions(t), calls' = calls
    PROVE  /\ SubusersOK' /\ Proceeds(t) /\ task[t].op = "permit"
           /\ \A r \in subusers' : \E s \in subusers : s.id = r.id
<1>0. calls \in Nat /\ task[t].op = "permit"
  BY DEF TasksOK, UpdatePermissions, At
<1>1. CASE Answer(t) /\ subusers' = subusers
  <2>1. Proceeds(t) /\ task'[t] = Idle
    BY <1>1, Answers
  <2>2. \A u \in Tasks : SubuserTaskStep(u)
    BY <2>1 DEF SubuserTaskStep, Proceeds, Alone, Idle
  <2> QED  BY <1>0, <1>1, <2>1, <2>2, SubusersQuiet
<1>2. CASE At(t, "permit", "get") /\ ~ Answer(t)
  <2> DEFINE flag == Row(t).perms
             rows == {[u EXCEPT !.perms = flag] : u \in Select(subusers, task[t].key)}
  <2>1. rows # {} /\ Holds(t, "write", rows) /\ subusers' = subusers
    BY <1>2 DEF UpdatePermissions, At
  <2>2. flag \in BOOLEAN
    <3>1. Held(t, [perms : BOOLEAN])
      BY <1>2 DEF SubusersOK, At
    <3>2. Row(t) \in [perms : BOOLEAN]
      BY <3>1, HeldRow
    <3> QED  BY <3>2
  <2> HIDE DEF flag
  <2>3. PICK s \in subusers : s.id = task[t].key /\ Select(subusers, task[t].key) = {s}
    BY <2>1, SelectOne DEF SubusersOK
  <2> DEFINE row == [s EXCEPT !.perms = flag]
  <2>4. rows = {row}
    BY <2>3
  <2>5. /\ row \in SubuserRows /\ row.id = s.id /\ row.server = s.server
        /\ row.email = s.email
    <3>1. s \in SubuserRows
      BY DEF SubusersOK
    <3> QED  BY <2>2, <3>1 DEF SubuserRows
  <2> HIDE DEF rows, row
  <2>6. rows \in Holdings
    BY <2>4, <2>5, Copies, RowKinds
  <2>7. /\ Proceeds(t) /\ task'[t].op = "permit" /\ task'[t].pc = "write"
        /\ task'[t].held = {row}
    BY <1>0, <2>1, <2>4, <2>6, HoldsRows, StepNames
  <2>8. \A u \in Tasks : SubuserTaskStep(u)
    BY <2>5, <2>7 DEF SubuserTaskStep, Proceeds, Alone
  <2> QED  BY <1>0, <2>1, <2>7, <2>8, SubusersQuiet
<1>3. CASE At(t, "permit", "write") /\ Answer(t)
  <2> DEFINE row == Row(t)
  <2>1. subusers' = Update(subusers, row)
    BY <1>3 DEF UpdatePermissions, At
  <2>2. row \in {r \in SubuserRows : r.id \in 1..calls} /\ task[t].held = {row}
    <3>1. Held(t, {r \in SubuserRows : r.id \in 1..calls})
      BY <1>3 DEF SubusersOK, At
    <3> QED  BY <3>1, HeldRow
  <2>3. \A s \in subusers : row.id = s.id => row.server = s.server /\ row.email = s.email
    <3>1. task[t].op = "permit" /\ task[t].pc = "write"
      BY <1>3 DEF At
    <3>2. \A r \in task[t].held, s \in subusers :
            r.id = s.id => r.server = s.server /\ r.email = s.email
      BY <3>1 DEF SubusersOK
    <3> QED  BY <2>2, <3>2
  <2> HIDE DEF row
  <2>4. subusers' \subseteq SubuserRows
    BY <2>1, <2>2 DEF Update, SubusersOK
  <2>5. \A r \in subusers' : \E s \in subusers :
          s.id = r.id /\ s.server = r.server /\ s.email = r.email
    BY <2>1, <2>3, UpdateKeepsIds
  <2>6. \A r, s \in subusers' : r.id = s.id => r = s
    BY <2>1, UpdateOne DEF SubusersOK, Numbered
  <2>7. Proceeds(t) /\ task'[t] = Idle
    BY <1>3, Answers
  <2>8. \A u \in Tasks : SubuserTaskStep(u)
    BY <2>7 DEF SubuserTaskStep, Proceeds, Alone, Idle
  <2>9. SubusersOK'
    BY <1>0, <2>4, <2>5, <2>6, <2>8, SubusersKeep
  <2> QED  BY <1>0, <2>5, <2>7, <2>9
<1> QED
  BY <1>1, <1>2, <1>3 DEF UpdatePermissions

\* All statements about subusers keep ids, servers and users unique.
LEMMA SubuserSteps ==
    ASSUME TasksOK, SubusersOK, NEW t \in Tasks, SubuserStep(t)
    PROVE  /\ SubusersOK' /\ Proceeds(t) /\ calls' = calls
           /\ task[t].op \in SubuserOps
           /\ \A r \in subusers' : \/ \E s \in subusers : s.id = r.id
                                   \/ task[t].op = "add" /\ task[t].n = r.id
<1>0. calls \in Nat /\ calls' = calls
  BY DEF TasksOK, SubuserStep
<1>1. CASE Add(t)
  BY <1>0, <1>1, AddKeeps DEF SubuserOps
<1>2. CASE UpdatePermissions(t)
  BY <1>0, <1>2, UpdatePermissionsKeeps DEF SubuserOps
<1>3. CASE Remove(t)
  <2>1. Proceeds(t) /\ task'[t] = Idle
    BY <1>3, Answers DEF Remove
  <2>2. \A u \in Tasks : SubuserTaskStep(u)
    BY <2>1 DEF SubuserTaskStep, Proceeds, Alone, Idle
  <2>3. subusers' \subseteq subusers /\ task[t].op = "unsub"
    BY <1>3 DEF Remove, Delete, At
  <2> QED  BY <1>0, <2>1, <2>2, <2>3, SubusersQuiet DEF SubuserOps
<1> QED
  BY <1>1, <1>2, <1>3 DEF SubuserStep

\* A request on subusers arrives.
LEMMA SubuserCalls ==
    ASSUME TasksOK, SubusersOK, NEW t \in Tasks,
           CallAdd(t) \/ CallSetPermissions(t) \/ CallRemove(t), UNCHANGED subusers
    PROVE  SubusersOK' /\ Begins(t) /\ task'[t].op \in SubuserOps
<1>0. calls \in Nat /\ MaxCalls \in Nat /\ calls <= MaxCalls
  BY PanelAssumption DEF TasksOK
<1>1. CASE CallAdd(t)
  <2>1. PICK s \in Owners, e \in Emails, p \in BOOLEAN :
          Arrive(t, "subuser", Request("add", "look", 0,
            {[id |-> calls + 1, server |-> s, email |-> e, perms |-> p]}))
    BY <1>1 DEF CallAdd
  <2>2. calls < MaxCalls
    BY <2>1 DEF Arrive
  <2> DEFINE row == [id |-> calls + 1, server |-> s, email |-> e, perms |-> p]
  <2>3. row \in SubuserRows /\ row.id = calls + 1
    BY <1>0, <2>2 DEF SubuserRows, Ids
  <2> HIDE DEF row
  <2>4. {row} \in Holdings
    BY <2>3, Copies, RowKinds
  <2>5. Arrive(t, "subuser", Request("add", "look", 0, {row}))
    BY <2>1 DEF row
  <2>6. "add" \in Ops /\ "look" \in Pcs
    BY OpNames
  <2>7. 0 \in 0..MaxCalls
    BY <1>0
  <2>8. /\ Begins(t) /\ task'[t].op = "add" /\ task'[t].n = calls + 1
        /\ task'[t].held = {row}
    BY <2>4, <2>5, <2>6, <2>7, RequestArrives
  <2>9. calls' = calls + 1 /\ \A u \in Tasks \ {t} : task'[u] = task[u]
    BY <2>8 DEF Begins, Alone
  <2>10. Numbered(subusers)'
    BY <1>0, <2>9 DEF SubusersOK, Numbered
  <2>11. ASSUME NEW u \in Tasks, task'[u].op = "add"
         PROVE  /\ Held(u, WithId(SubuserRows, task[u].n))'
                /\ \A s2 \in subusers' : s2.id # task'[u].n
                /\ \A v \in Tasks : At(v, "permit", "write")' =>
                     \A r \in task'[v].held : r.id # task'[u].n
    <3>1. \A v \in Tasks : task'[v].op = "permit" => task'[v] = task[v]
      BY <2>8, <2>9
    <3>2. CASE u = t
      <4>1. /\ Held(u, WithId(SubuserRows, task[u].n))'
            /\ \A s2 \in subusers' : s2.id # task'[u].n
        BY <1>0, <2>3, <2>8, <3>2 DEF SubusersOK, Held, Numbered, WithId
      <4>2. ASSUME NEW v \in Tasks, At(v, "permit", "write")', NEW r \in task'[v].held
            PROVE  r.id # task'[u].n
        <5>1. r.id \in 1..calls
          BY <3>1, <4>2 DEF SubusersOK, Held, At
        <5> QED  BY <1>0, <2>8, <3>2, <5>1
      <4> QED  BY <4>1, <4>2
    <3>3. CASE u # t
      BY <2>9, <2>11, <3>1, <3>3 DEF SubusersOK, Held, At
    <3> QED  BY <3>2, <3>3
  <2>12. ASSUME NEW u \in Tasks, task'[u].op = "permit"
         PROVE  /\ task'[u].pc \in {"get", "write"}
                /\ task'[u].pc = "get" => Held(u, [perms : BOOLEAN])'
                /\ task'[u].pc = "write" =>
                     /\ Held(u, {r \in SubuserRows : r.id \in 1..calls})'
                     /\ \A r \in task'[u].held, s2 \in subusers' :
                          r.id = s2.id => r.server = s2.server /\ r.email = s2.email
    BY <1>0, <2>8, <2>9, <2>12 DEF SubusersOK, Held
  <2>13. SubusersOK'
    BY <2>10, <2>11, <2>12 DEF SubusersOK
  <2> QED  BY <2>8, <2>13 DEF SubuserOps
<1>2. CASE CallSetPermissions(t)
  <2>1. PICK id \in 1..calls, p \in BOOLEAN :
          Arrive(t, "subuser", Request("permit", "get", id, {[perms |-> p]}))
    BY <1>2 DEF CallSetPermissions
  <2> DEFINE row == [perms |-> p]
  <2>2. row \in [perms : BOOLEAN]
    OBVIOUS
  <2> HIDE DEF row
  <2>3. {row} \in Holdings
    BY <2>2, Copies DEF AnyRow
  <2>4. Arrive(t, "subuser", Request("permit", "get", id, {row}))
    BY <2>1 DEF row
  <2>5. "permit" \in Ops /\ "get" \in Pcs
    BY OpNames
  <2>6. id \in 0..MaxCalls
    BY <1>0
  <2>7. /\ Begins(t) /\ task'[t].op = "permit" /\ task'[t].pc = "get"
        /\ task'[t].held = {row}
    BY <2>3, <2>4, <2>5, <2>6, RequestArrives
  <2>8. calls' = calls + 1 /\ \A u \in Tasks \ {t} : task'[u] = task[u]
    BY <2>7 DEF Begins, Alone
  <2>9. Numbered(subusers)'
    BY <1>0, <2>8 DEF SubusersOK, Numbered
  <2>10. ASSUME NEW u \in Tasks, task'[u].op = "add"
         PROVE  /\ Held(u, WithId(SubuserRows, task[u].n))'
                /\ \A s \in subusers' : s.id # task'[u].n
                /\ \A v \in Tasks : At(v, "permit", "write")' =>
                     \A r \in task'[v].held : r.id # task'[u].n
    <3>1. u # t /\ \A v \in Tasks : At(v, "permit", "write")' => v # t
      BY <2>7, <2>10 DEF At
    <3> QED  BY <2>8, <2>10, <3>1 DEF SubusersOK, Held, At
  <2>11. ASSUME NEW u \in Tasks, task'[u].op = "permit"
         PROVE  /\ task'[u].pc \in {"get", "write"}
                /\ task'[u].pc = "get" => Held(u, [perms : BOOLEAN])'
                /\ task'[u].pc = "write" =>
                     /\ Held(u, {r \in SubuserRows : r.id \in 1..calls})'
                     /\ \A r \in task'[u].held, s \in subusers' :
                          r.id = s.id => r.server = s.server /\ r.email = s.email
    <3>1. CASE u = t
      BY <2>2, <2>7, <3>1 DEF Held
    <3>2. CASE u # t
      BY <1>0, <2>8, <2>11, <3>2 DEF SubusersOK, Held
    <3> QED  BY <3>1, <3>2
  <2>12. SubusersOK'
    BY <2>9, <2>10, <2>11 DEF SubusersOK
  <2> QED  BY <2>7, <2>12 DEF SubuserOps
<1>3. CASE CallRemove(t)
  <2>1. PICK id \in 1..calls : Arrive(t, "subuser", Request("unsub", "delete", id, {}))
    BY <1>3 DEF CallRemove
  <2>2. "unsub" \in Ops /\ "delete" \in Pcs
    BY OpNames
  <2>3. id \in 0..MaxCalls
    BY <1>0
  <2>4. Begins(t) /\ task'[t].op = "unsub"
    BY <2>1, <2>2, <2>3, RequestArrives, NothingHeld
  <2>5. calls' = calls + 1 /\ \A u \in Tasks : SubuserTaskStep(u)
    BY <2>4 DEF Begins, Alone, SubuserTaskStep
  <2> QED  BY <1>0, <2>4, <2>5, SubusersQuiet DEF SubuserOps
<1> QED
  BY <1>1, <1>2, <1>3

-----------------------------------------------------------------------------
(***************************************************************************)
(* Databases                                                               *)
(***************************************************************************)
\* MySQL loses nothing but what is named after an id with a database dropped.
Grows ==
  /\ \A s \in Shorts : tried[s] \subseteq tried'[s]
  /\ dropped \subseteq dropped'
  /\ \A d \in mysqlDBs : d.short \notin dropped' => d \in mysqlDBs'
  /\ \A d \in grants : d.short \notin dropped' => d \in grants'

\* A record stays usable while the MySQL server only gains databases, users and
\* grants.
LEMMA RecordStays ==
    ASSUME DatabasesOK, Grows, NEW r \in DBRecords, RecordOK(r)
    PROVE  RecordOK(r)'
BY DEF Grows, RecordOK, DBRecords, DBNames, DatabasesOK

\* The requests that do not move know what they knew.
LEMMA MakerStays ==
    ASSUME DatabasesOK, Grows, NEW u \in Tasks, MakesOK(u), task'[u] = task[u],
           \A s \in records' : s.id # task[u].n
    PROVE  MakesOK(u)'
<1>1. PICK r \in WithId(DBRecords, task[u].n) :
        task[u].held = {r} /\ Short[r.server] = r.db.short
  BY DEF MakesOK, Held
<1>2. Held(u, {x \in WithId(DBRecords, task[u].n) : Short[x.server] = x.db.short})'
  BY <1>1 DEF Held, WithId
<1>3. r.db.short \in Shorts
  BY DEF WithId, DBRecords, DBNames
<1>4. task'[u].pc \in {"grant", "flush", "insert"} => r.pass \in tried'[r.db.short]
  BY <1>1, <1>3 DEF MakesOK, Grows
<1>5. r.db.short \notin dropped' =>
        /\ task'[u].pc # "mkdb" => r.db \in mysqlDBs'
        /\ task'[u].pc \in {"flush", "insert"} => r.db \in grants'
  BY <1>1, <1>3 DEF MakesOK, Grows
<1>6. task'[u].pc \in {"mkdb", "mkuser", "grant", "flush", "insert"}
  BY DEF MakesOK
<1> QED
  BY <1>1, <1>2, <1>4, <1>5, <1>6 DEF MakesOK

\* A Delete of a database that does not move stays what it was.
LEMMA DropperStays ==
    ASSUME Grows, NEW u \in Tasks, DropsOK(u), task'[u] = task[u]
    PROVE  DropsOK(u)'
BY DEF DropsOK, Grows, Held

\* A step that inserts no record.
LEMMA DatabasesKeep ==
    ASSUME TasksOK, DatabasesOK, calls' \in Nat, calls <= calls', Grows, UsersOK',
           records' \subseteq records,
           mysqlDBs' \subseteq DBNames, grants' \subseteq DBNames, dropped' \subseteq Shorts,
           \A u \in Tasks : \/ task'[u] = task[u]
                            \/ task'[u].op \notin {"mkdb", "rmdb"}
                            \/ task'[u].op = "mkdb" /\ MakesOK(u)'
                            \/ task'[u].op = "rmdb" /\ DropsOK(u)'
    PROVE  DatabasesOK'
<1>1. /\ records' \subseteq DBRecords /\ Numbered(records)'
      /\ \A r, s \in records' : r.db = s.db => r = s
  BY DEF DatabasesOK, Numbered, TasksOK
<1>2. \A r \in records' : RecordOK(r)'
  BY RecordStays DEF DatabasesOK
<1>3. ASSUME NEW u \in Tasks, task'[u].op = "mkdb"  PROVE MakesOK(u)'
  <2>1. CASE task'[u] = task[u]
    <3>1. MakesOK(u)
      BY <1>3, <2>1 DEF DatabasesOK
    <3>2. \A s \in records' : s.id # task[u].n
      BY <3>1 DEF MakesOK
    <3> QED  BY <2>1, <3>1, <3>2, MakerStays
  <2> QED  BY <1>3, <2>1
<1>4. ASSUME NEW u \in Tasks, task'[u].op = "rmdb"  PROVE DropsOK(u)'
  <2>1. CASE task'[u] = task[u]
    BY <1>4, <2>1, DropperStays DEF DatabasesOK
  <2> QED  BY <1>4, <2>1
<1> QED
  BY <1>1, <1>2, <1>3, <1>4 DEF DatabasesOK

\* Nothing of MySQL and of the records moves.
LEMMA DatabasesQuiet ==
    ASSUME TasksOK, DatabasesOK, calls' \in Nat, calls <= calls',
           records' \subseteq records,
           UNCHANGED <<mysqlDBs, mysqlUsers, grants, tried, dropped>>,
           \A u \in Tasks : \/ task'[u] = task[u]
                            \/ task'[u].op \notin {"mkdb", "rmdb"}
                            \/ task'[u].op = "mkdb" /\ MakesOK(u)'
                            \/ task'[u].op = "rmdb" /\ DropsOK(u)'
    PROVE  DatabasesOK'
<1>1. /\ Grows /\ UsersOK' /\ mysqlDBs' \subseteq DBNames /\ grants' \subseteq DBNames
      /\ dropped' \subseteq Shorts
  BY DEF Grows, DatabasesOK, UsersOK
<1> QED
  BY <1>1, DatabasesKeep

\* The row that a Create is about, and what it knows of it.
LEMMA Making ==
    ASSUME DatabasesOK, NEW t \in Tasks, task[t].op = "mkdb"
    PROVE  /\ MakesOK(t) /\ task[t].held = {Row(t)} /\ Row(t) \in DBRecords
           /\ Row(t).id = task[t].n /\ Short[Row(t).server] = Row(t).db.short
           /\ Row(t).db.short \in Shorts /\ Row(t).db \in DBNames /\ Row(t).pass \in Ids
<1>1. MakesOK(t)
  BY DEF DatabasesOK
<1>2. Row(t) \in {r \in WithId(DBRecords, task[t].n) : Short[r.server] = r.db.short}
      /\ task[t].held = {Row(t)}
  BY <1>1, HeldRow DEF MakesOK
<1> QED
  BY <1>1, <1>2 DEF WithId, DBRecords, DBNames

\* What is to be shown of a Create that has gone on.
LEMMA MakesOn ==
    ASSUME DatabasesOK, NEW t \in Tasks, task[t].op = "mkdb",
           task'[t].n = task[t].n, task'[t].held = task[t].held, records' = records,
           task'[t].pc \in {"mkuser", "grant", "flush", "insert"},
           task'[t].pc # "mkuser" => Row(t).pass \in tried'[Row(t).db.short],
           Row(t).db.short \notin dropped' => Row(t).db \in mysqlDBs',
           Row(t).db.short \notin dropped' /\ task'[t].pc \in {"flush", "insert"} =>
             Row(t).db \in grants'
    PROVE  MakesOK(t)'
<1> DEFINE row == Row(t)
<1>1. /\ MakesOK(t) /\ task[t].held = {row} /\ row \in DBRecords
      /\ row.id = task[t].n /\ Short[row.server] = row.db.short
  BY Making
<1> HIDE DEF row
<1>2. Held(t, {r \in WithId(DBRecords, task[t].n) : Short[r.server] = r.db.short})'
  BY <1>1 DEF Held, WithId
<1>3. \A s \in records' : s.id # task'[t].n
  BY <1>1 DEF MakesOK
<1>4. \A r \in task'[t].held : r = row
  BY <1>1
<1> QED
  BY <1>2, <1>3, <1>4 DEF MakesOK, row

\* A request that is answered leaves what MySQL has to the others.
LEMMA AnswerKeeps ==
    ASSUME TasksOK, DatabasesOK, NEW t \in Tasks, Answer(t), calls' = calls,
           Grows, UsersOK', records' = records,
           mysqlDBs' \subseteq DBNames, grants' \subseteq DBNames, dropped' \subseteq Shorts
    PROVE  DatabasesOK' /\ Proceeds(t)
<1>1. Proceeds(t) /\ task'[t] = Idle
  BY Answers
<1>2. \A u \in Tasks : task'[u] = task[u] \/ task'[u].op \notin {"mkdb", "rmdb"}
  BY <1>1 DEF Proceeds, Alone, Idle
<1>3. calls \in Nat
  BY DEF TasksOK
<1> QED
  BY <1>1, <1>2, <1>3, DatabasesKeep

\* CREATE DATABASE, the first statement of a Create.
LEMMA CreateDatabaseKeeps ==
    ASSUME TasksOK, DatabasesOK, NEW t \in Tasks, NEW ok \in BOOLEAN,
           CreateDatabase(t, ok), calls' = calls
    PROVE  DatabasesOK' /\ Proceeds(t) /\ task[t].op = "mkdb" /\ records' = records
<1>0. /\ calls \in Nat /\ task[t].op = "mkdb" /\ records' = records
      /\ UNCHANGED <<mysqlUsers, grants, tried, dropped>>
      /\ mysqlDBs' = mysqlDBs \cup {Row(t).db}
  BY DEF TasksOK, CreateDatabase, At
<1>1. Grows /\ UsersOK' /\ mysqlDBs' \subseteq DBNames
  BY <1>0, Making DEF Grows, DatabasesOK, UsersOK
<1>2. grants' \subseteq DBNames /\ dropped' \subseteq Shorts
  BY <1>0 DEF DatabasesOK
<1>3. CASE Answer(t)
  BY <1>0, <1>1, <1>2, <1>3, AnswerKeeps
<1>4. CASE ~ Answer(t)
  <2>1. /\ Proceeds(t) /\ task'[t].n = task[t].n /\ task'[t].held = task[t].held
        /\ task'[t].op = "mkdb" /\ task'[t].pc = "mkuser"
    BY <1>0, <1>4, GoesOn, StepNames DEF CreateDatabase, Answered
  <2>2. MakesOK(t)'
    BY <1>0, <2>1, MakesOn
  <2>3. DatabasesOK'
    BY <1>0, <1>1, <1>2, <2>1, <2>2, DatabasesKeep DEF Proceeds, Alone
  <2> QED  BY <1>0, <2>1, <2>3
<1> QED
  BY <1>3, <1>4

\* CREATE USER IF NOT EXISTS: a user that exists keeps its password.
LEMMA CreateUserKeeps ==
    ASSUME TasksOK, DatabasesOK, NEW t \in Tasks, NEW ok \in BOOLEAN,
           CreateUser(t, ok), calls' = calls
    PROVE  DatabasesOK' /\ Proceeds(t) /\ task[t].op = "mkdb" /\ records' = records
<1> DEFINE s == Row(t).db.short
           pass == Row(t).pass
<1>0. /\ calls \in Nat /\ task[t].op = "mkdb" /\ task[t].pc = "mkuser"
      /\ records' = records /\ UNCHANGED <<mysqlDBs, grants, dropped>>
      /\ mysqlUsers' = [mysqlUsers EXCEPT ![s] = IF @ = 0 THEN pass ELSE @]
      /\ tried' = [tried EXCEPT ![s] = @ \cup {pass}]
  BY DEF TasksOK, CreateUser, At
<1>1. Answer(t) \/ Goes(t, "grant")
  BY DEF CreateUser, Answered
<1>2. s \in Shorts /\ pass \in Ids /\ MakesOK(t) /\ task[t].held = {Row(t)}
  BY <1>0, Making
<1>3. s \notin dropped => Row(t).db \in mysqlDBs
  BY <1>0, <1>2 DEF MakesOK
<1> HIDE DEF s, pass
<1>4. UsersOK /\ tried \in [Shorts -> SUBSET Ids] /\ mysqlUsers \in [Shorts -> 0..MaxCalls]
  BY DEF DatabasesOK, UsersOK
<1>5. /\ tried' \in [Shorts -> SUBSET Ids] /\ tried'[s] = tried[s] \cup {pass}
      /\ \A x \in Shorts : tried[x] \subseteq tried'[x] /\ (x # s => tried'[x] = tried[x])
  BY <1>0, <1>2, <1>4
<1>6. /\ mysqlUsers' \in [Shorts -> 0..MaxCalls]
      /\ mysqlUsers'[s] = IF mysqlUsers[s] = 0 THEN pass ELSE mysqlUsers[s]
      /\ \A x \in Shorts : x # s => mysqlUsers'[x] = mysqlUsers[x]
  BY <1>0, <1>2, <1>4 DEF Ids
<1>7. UsersOK'
  <2>1. ASSUME NEW x \in Shorts
        PROVE  /\ mysqlUsers'[x] # 0 => mysqlUsers'[x] \in tried'[x]
               /\ x \notin dropped' /\ tried'[x] # {} => mysqlUsers'[x] # 0
    <3>1. CASE x = s
      BY <1>0, <1>2, <1>4, <1>5, <1>6, <3>1 DEF UsersOK, Ids
    <3>2. CASE x # s
      BY <1>0, <1>4, <1>5, <1>6, <3>2 DEF UsersOK
    <3> QED  BY <3>1, <3>2
  <2> QED  BY <1>5, <1>6, <2>1 DEF UsersOK
<1>8. Grows
  BY <1>0, <1>5 DEF Grows
<1>9. mysqlDBs' \subseteq DBNames /\ grants' \subseteq DBNames /\ dropped' \subseteq Shorts
  BY <1>0 DEF DatabasesOK
<1>10. CASE Answer(t)
  BY <1>0, <1>7, <1>8, <1>9, <1>10, AnswerKeeps
<1>11. CASE Goes(t, "grant")
  <2>1. /\ Proceeds(t) /\ task'[t].n = task[t].n /\ task'[t].held = task[t].held
        /\ task'[t].op = "mkdb" /\ task'[t].pc = "grant"
    BY <1>0, <1>11, GoesOn, StepNames
  <2>2. pass \in tried'[s]
    BY <1>5
  <2>3. MakesOK(t)'
    BY <1>0, <1>3, <2>1, <2>2, MakesOn DEF s, pass
  <2>4. DatabasesOK'
    BY <1>0, <1>7, <1>8, <1>9, <2>1, <2>3, DatabasesKeep DEF Proceeds, Alone
  <2> QED  BY <1>0, <2>1, <2>4
<1> QED
  BY <1>1, <1>10, <1>11

\* GRANT and FLUSH PRIVILEGES.
LEMMA GrantKeeps ==
    ASSUME TasksOK, DatabasesOK, NEW t \in Tasks, NEW ok \in BOOLEAN,
           Grant(t, ok) \/ FlushPrivileges(t), calls' = calls
    PROVE  DatabasesOK' /\ Proceeds(t) /\ task[t].op = "mkdb" /\ records' = records
<1>0. /\ calls \in Nat /\ task[t].op = "mkdb" /\ task[t].pc \in {"grant", "flush"}
      /\ records' = records /\ UNCHANGED <<mysqlDBs, mysqlUsers, tried, dropped>>
      /\ \/ grants' = grants
         \/ grants' = grants \cup {Row(t).db}
  BY DEF TasksOK, Grant, FlushPrivileges, At, mysqlVars
<1>2. /\ Row(t).db \in DBNames /\ Row(t).db.short \in Shorts
      /\ MakesOK(t) /\ task[t].held = {Row(t)}
  BY <1>0, Making
<1>3. /\ Row(t).pass \in tried[Row(t).db.short]
      /\ Row(t).db.short \notin dropped => Row(t).db \in mysqlDBs
      /\ Row(t).db.short \notin dropped /\ task[t].pc = "flush" => Row(t).db \in grants
  BY <1>0, <1>2 DEF MakesOK
<1>4. Grows /\ UsersOK' /\ grants' \subseteq DBNames
  BY <1>0, <1>2 DEF Grows, DatabasesOK, UsersOK
<1>5. mysqlDBs' \subseteq DBNames /\ dropped' \subseteq Shorts
  BY <1>0 DEF DatabasesOK
<1>6. CASE Answer(t)
  BY <1>0, <1>4, <1>5, <1>6, AnswerKeeps
<1>7. CASE ~ Answer(t)
  <2>1. \/ task[t].pc = "grant" /\ Goes(t, "flush") /\ grants' = grants \cup {Row(t).db}
        \/ task[t].pc = "flush" /\ Goes(t, "insert") /\ grants' = grants
    BY <1>7 DEF Grant, Answered, FlushPrivileges, At, mysqlVars
  <2>2. /\ Proceeds(t) /\ task'[t].n = task[t].n /\ task'[t].held = task[t].held
        /\ task'[t].op = "mkdb" /\ task'[t].pc \in {"flush", "insert"}
    BY <1>0, <2>1, GoesOn, StepNames
  <2>3. Row(t).db.short \notin dropped' => Row(t).db \in grants'
    BY <1>0, <1>3, <2>1
  <2>4. MakesOK(t)'
    BY <1>0, <1>3, <2>2, <2>3, MakesOn
  <2>5. DatabasesOK'
    BY <1>0, <1>4, <1>5, <2>2, <2>4, DatabasesKeep DEF Proceeds, Alone
  <2> QED  BY <1>0, <2>2, <2>5
<1> QED
  BY <1>6, <1>7

\* The record is written last, when database, user and grant are there.
LEMMA InsertRecordKeeps ==
    ASSUME TasksOK, DatabasesOK, NEW t \in Tasks, InsertRecord(t), calls' = calls
    PROVE  /\ DatabasesOK' /\ Proceeds(t) /\ task[t].op = "mkdb"
           /\ \A r \in records' : r \in records \/ r.id = task[t].n
<1> DEFINE row == Row(t)
<1>0. /\ calls \in Nat /\ task[t].op = "mkdb" /\ task[t].pc = "insert" /\ Answer(t)
      /\ UNCHANGED <<mysqlDBs, mysqlUsers, grants, tried, dropped>>
      /\ records' = records \/ (records' = records \cup {row} /\ SameDB(row) = {})
  BY DEF TasksOK, InsertRecord, At, Insert
<1>1. Proceeds(t) /\ task'[t] = Idle
  BY <1>0, Answers
<1>2. /\ MakesOK(t) /\ task[t].held = {row} /\ row \in DBRecords
      /\ row.id = task[t].n /\ Short[row.server] = row.db.short
  BY <1>0, Making
<1> HIDE DEF row
<1>3. CASE records' = records
  <2>1. \A u \in Tasks : task'[u] = task[u] \/ task'[u].op \notin {"mkdb", "rmdb"}
    BY <1>1 DEF Proceeds, Alone, Idle
  <2> QED  BY <1>0, <1>1, <1>3, <2>1, DatabasesQuiet
<1>4. CASE records' = records \cup {row} /\ SameDB(row) = {}
  <2>1. \A s \in records : s.id # row.id /\ s.db # row.db
    BY <1>2, <1>4 DEF MakesOK, SameDB
  <2>2. row.id \in 1..calls
    BY <1>2 DEF DBRecords, Ids, TasksOK
  <2>3. /\ records' \subseteq DBRecords /\ Numbered(records)'
        /\ \A r, s \in records' : r.db = s.db => r = s
    BY <1>0, <1>2, <1>4, <2>1, <2>2 DEF DatabasesOK, Numbered
  <2>4. Grows /\ UsersOK'
    BY <1>0 DEF Grows, DatabasesOK, UsersOK
  <2>5. RecordOK(row)
    BY <1>0, <1>2 DEF MakesOK, RecordOK
  <2>6. \A r \in records' : RecordOK(r)'
    BY <1>2, <1>4, <2>4, <2>5, RecordStays DEF DatabasesOK
  <2>7. \A u \in Tasks : task'[u].op \in {"mkdb", "rmdb"} => u # t /\ task'[u] = task[u]
    BY <1>1 DEF Proceeds, Alone, Idle
  <2>8. ASSUME NEW u \in Tasks, task'[u].op = "mkdb"  PROVE MakesOK(u)'
    <3>1. u # t /\ task'[u] = task[u] /\ task[u].op = "mkdb" /\ MakesOK(u)
      BY <2>7, <2>8 DEF DatabasesOK
    <3>2. task[u].n # row.id
      BY <1>0, <1>2, <3>1 DEF TasksOK
    <3>3. \A s \in records' : s.id # task[u].n
      BY <1>4, <3>1, <3>2 DEF MakesOK
    <3> QED  BY <2>4, <3>1, <3>3, MakerStays
  <2>9. ASSUME NEW u \in Tasks, task'[u].op = "rmdb"  PROVE DropsOK(u)'
    BY <2>4, <2>7, <2>9, DropperStays DEF DatabasesOK
  <2>10. DatabasesOK'
    BY <1>0, <2>3, <2>4, <2>6, <2>8, <2>9 DEF DatabasesOK
  <2> QED  BY <1>0, <1>1, <1>2, <1>4, <2>10
<1> QED
  BY <1>0, <1>3, <1>4

\* Delete reads the record.
LEMMA GetRecordKeeps ==
    ASSUME TasksOK, DatabasesOK, NEW t \in Tasks, GetRecord(t), calls' = calls
    PROVE  DatabasesOK' /\ Proceeds(t) /\ task[t].op = "rmdb" /\ records' = records
<1>0. /\ calls \in Nat /\ task[t].op = "rmdb" /\ records' = records
      /\ UNCHANGED <<mysqlDBs, mysqlUsers, grants, tried, dropped>>
  BY DEF TasksOK, GetRecord, At, mysqlVars
<1>1. CASE Answer(t)
  <2>1. Proceeds(t) /\ task'[t] = Idle
    BY <1>1, Answers
  <2>2. \A u \in Tasks : task'[u] = task[u] \/ task'[u].op \notin {"mkdb", "rmdb"}
    BY <2>1 DEF Proceeds, Alone, Idle
  <2> QED  BY <1>0, <2>1, <2>2, DatabasesQuiet
<1>2. CASE ~ Answer(t)
  <2> DEFINE rows == Select(records, task[t].key)
  <2>1. rows # {} /\ Holds(t, "drop", rows)
    BY <1>2 DEF GetRecord, LooksUp
  <2>2. PICK r \in records : rows = {r}
    BY <2>1, SelectOne DEF DatabasesOK
  <2>3. r \in DBRecords /\ Short[r.server] = r.db.short
    BY DEF DatabasesOK, RecordOK
  <2>4. rows \in Holdings
    BY <2>2, <2>3, Copies, RowKinds
  <2> HIDE DEF rows
  <2>5. Proceeds(t) /\ task'[t].pc = "drop" /\ task'[t].held = {r} /\ task'[t].op = "rmdb"
    BY <1>0, <2>1, <2>2, <2>4, HoldsRows, StepNames
  <2>6. DropsOK(t)'
    BY <2>3, <2>5 DEF DropsOK, Held
  <2>7. DatabasesOK'
    BY <1>0, <2>5, <2>6, DatabasesQuiet DEF Proceeds, Alone
  <2> QED  BY <1>0, <2>5, <2>7
<1> QED
  BY <1>1, <1>2

\* The row that a Delete is about.
LEMMA Dropping ==
    ASSUME DatabasesOK, NEW t \in Tasks, task[t].op = "rmdb",
           task[t].pc \in {"drop", "dropuser"}
    PROVE  /\ DropsOK(t) /\ task[t].held = {Row(t)} /\ Row(t) \in DBRecords
           /\ Short[Row(t).server] = Row(t).db.short /\ Row(t).db.short \in Shorts
<1>1. DropsOK(t)
  BY DEF DatabasesOK
<1>2. Held(t, {r \in DBRecords : Short[r.server] = r.db.short})
  BY <1>1 DEF DropsOK
<1>3. Row(t) \in {r \in DBRecords : Short[r.server] = r.db.short} /\ task[t].held = {Row(t)}
  BY <1>2, HeldRow
<1> QED
  BY <1>1, <1>3 DEF DBRecords, DBNames

\* DROP DATABASE, after which the records of the server are promised nothing.
LEMMA DropDatabaseKeeps ==
    ASSUME TasksOK, DatabasesOK, NEW t \in Tasks, NEW ok \in BOOLEAN,
           DropDatabase(t, ok), calls' = calls
    PROVE  DatabasesOK' /\ Proceeds(t) /\ task[t].op = "rmdb" /\ records' = records
<1> DEFINE row == Row(t)
<1>0. /\ calls \in Nat /\ task[t].op = "rmdb" /\ task[t].pc = "drop"
      /\ records' = records /\ UNCHANGED <<mysqlUsers, grants, tried>>
      /\ mysqlDBs' \in {mysqlDBs, mysqlDBs \ {row.db}}
      /\ dropped' = dropped \cup {row.db.short}
  BY DEF TasksOK, DropDatabase, At
<1>1. /\ Proceeds(t) /\ task'[t].held = task[t].held
      /\ task'[t].op = "rmdb" /\ task'[t].pc = "dropuser"
  BY <1>0, GoesOn, StepNames DEF DropDatabase
<1>2. /\ task[t].held = {row} /\ row \in DBRecords
      /\ Short[row.server] = row.db.short /\ row.db.short \in Shorts
  BY <1>0, Dropping
<1> HIDE DEF row
<1>3. Grows
  BY <1>0, <1>2 DEF Grows
<1>4. UsersOK' /\ dropped' \subseteq Shorts /\ mysqlDBs' \subseteq DBNames
      /\ grants' \subseteq DBNames
  BY <1>0, <1>2 DEF DatabasesOK, UsersOK
<1>5. DropsOK(t)'
  BY <1>0, <1>1, <1>2 DEF DropsOK, Held
<1>6. DatabasesOK'
  BY <1>0, <1>1, <1>3, <1>4, <1>5, DatabasesKeep DEF Proceeds, Alone
<1> QED
  BY <1>0, <1>1, <1>6

\* DROP USER takes the user and every grant it had.
LEMMA DropUserKeeps ==
    ASSUME TasksOK, DatabasesOK, NEW t \in Tasks, NEW ok \in BOOLEAN,
           DropUser(t, ok), calls' = calls
    PROVE  DatabasesOK' /\ Proceeds(t) /\ task[t].op = "rmdb" /\ records' = records
<1> DEFINE s == Row(t).db.short
<1>0. /\ calls \in Nat /\ task[t].op = "rmdb" /\ task[t].pc = "dropuser"
      /\ records' = records /\ UNCHANGED <<mysqlDBs, tried, dropped>>
      /\ \/ /\ mysqlUsers' = [mysqlUsers EXCEPT ![s] = 0]
            /\ grants' = {g \in grants : g.short # s}
         \/ UNCHANGED <<mysqlUsers, grants>>
  BY DEF TasksOK, DropUser, At
<1>1. /\ Proceeds(t) /\ task'[t].op = "rmdb" /\ task'[t].pc = "delete"
  BY <1>0, GoesOn, StepNames DEF DropUser
<1>2. s \in dropped /\ s \in Shorts
  BY <1>0, Dropping DEF DropsOK
<1> HIDE DEF s
<1>3. Grows
  BY <1>0, <1>2 DEF Grows
<1>4. mysqlUsers \in [Shorts -> 0..MaxCalls] /\ UsersOK
  BY DEF DatabasesOK, UsersOK
<1>5. mysqlUsers' \in [Shorts -> 0..MaxCalls]
      /\ \A x \in Shorts : mysqlUsers'[x] = mysqlUsers[x] \/ (x \in dropped /\ mysqlUsers'[x] = 0)
  BY <1>0, <1>2, <1>4, PanelAssumption
<1>6. UsersOK'
  BY <1>0, <1>4, <1>5 DEF UsersOK
<1>7. dropped' \subseteq Shorts /\ mysqlDBs' \subseteq DBNames /\ grants' \subseteq DBNames
  BY <1>0 DEF DatabasesOK
<1>8. DropsOK(t)'
  BY <1>1 DEF DropsOK
<1>9. DatabasesOK'
  BY <1>0, <1>1, <1>3, <1>6, <1>7, <1>8, DatabasesKeep DEF Proceeds, Alone
<1> QED
  BY <1>0, <1>1, <1>9

\* All statements about databases keep the records usable.
LEMMA DatabaseSteps ==
    ASSUME TasksOK, DatabasesOK, NEW t \in Tasks, DatabaseStep(t)
    PROVE  /\ DatabasesOK' /\ Proceeds(t) /\ calls' = calls
           /\ task[t].op \in DatabaseOps
           /\ \A r \in records' : \/ \E s \in records : s.id = r.id
                                  \/ task[t].op = "mkdb" /\ task[t].n = r.id
<1>0. calls \in Nat /\ calls' = calls
  BY DEF TasksOK, DatabaseStep
<1>1. ASSUME NEW ok \in BOOLEAN, Sends(t, ok) \/ FlushPrivileges(t)
      PROVE  /\ DatabasesOK' /\ Proceeds(t) /\ task[t].op \in DatabaseOps
             /\ records' = records
  BY <1>0, <1>1, CreateDatabaseKeeps, CreateUserKeeps, GrantKeeps DEF DatabaseOps, Sends
<1>2. CASE InsertRecord(t)
  BY <1>0, <1>2, InsertRecordKeeps DEF DatabaseOps
<1>3. CASE GetRecord(t)
  BY <1>0, <1>3, GetRecordKeeps DEF DatabaseOps
<1>4. ASSUME NEW ok \in BOOLEAN, DropDatabase(t, ok) \/ DropUser(t, ok)
      PROVE  /\ DatabasesOK' /\ Proceeds(t) /\ task[t].op \in DatabaseOps
             /\ records' = records
  BY <1>0, <1>4, DropDatabaseKeeps, DropUserKeeps DEF DatabaseOps
<1>5. CASE DeleteRecord(t)
  <2>1. /\ task[t].op = "rmdb" /\ records' \subseteq records
        /\ UNCHANGED <<mysqlDBs, mysqlUsers, grants, tried, dropped>>
    BY <1>5 DEF DeleteRecord, At, Delete
  <2>2. Proceeds(t) /\ task'[t] = Idle
    BY <1>5, Answers DEF DeleteRecord
  <2>3. \A u \in Tasks : task'[u] = task[u] \/ task'[u].op \notin {"mkdb", "rmdb"}
    BY <2>2 DEF Proceeds, Alone, Idle
  <2> QED  BY <1>0, <2>1, <2>2, <2>3, DatabasesQuiet DEF DatabaseOps
<1>6. CASE \E ok \in BOOLEAN : \/ Sends(t, ok) \/ FlushPrivileges(t)
                                \/ DropDatabase(t, ok) \/ DropUser(t, ok)
  BY <1>0, <1>1, <1>4, <1>6
<1> QED
  BY <1>2, <1>3, <1>5, <1>6 DEF DatabaseStep, CreateDB

\* A request on databases arrives.
LEMMA DatabaseCalls ==
    ASSUME TasksOK, DatabasesOK, NEW t \in Tasks, CallCreateDB(t) \/ CallDeleteDB(t),
           UNCHANGED mysqlVars
    PROVE  DatabasesOK' /\ Begins(t) /\ task'[t].op \in DatabaseOps
<1>0. calls \in Nat /\ MaxCalls \in Nat /\ calls <= MaxCalls
  BY PanelAssumption DEF TasksOK
<1>1. CASE CallCreateDB(t)
  <2>1. PICK s \in Owners, k \in Slots :
          Arrive(t, "database", Request("mkdb", "mkdb", s,
            {[id |-> calls + 1, server |-> s, db |-> [short |-> Short[s], slot |-> k],
              pass |-> calls + 1]}))
    BY <1>1 DEF CallCreateDB
  <2>2. calls < MaxCalls
    BY <2>1 DEF Arrive
  <2> DEFINE db == [short |-> Short[s], slot |-> k]
             row == [id |-> calls + 1, server |-> s, db |-> db, pass |-> calls + 1]
  <2>3. db \in DBNames /\ db.short = Short[s]
    BY DEF DBNames, Shorts
  <2> HIDE DEF db
  <2>4. row \in DBRecords /\ row.id = calls + 1 /\ Short[row.server] = row.db.short
    BY <1>0, <2>2, <2>3 DEF DBRecords, Ids
  <2> HIDE DEF row
  <2>5. {row} \in Holdings
    BY <2>4, Copies, RowKinds
  <2>6. Arrive(t, "database", Request("mkdb", "mkdb", s, {row}))
    BY <2>1 DEF row, db
  <2>7. "mkdb" \in Ops /\ "mkdb" \in Pcs
    BY OpNames
  <2>8. s \in 0..MaxCalls
    BY <1>0, ResourcesAssumption DEF Ids
  <2>9. /\ Begins(t) /\ task'[t].op = "mkdb" /\ task'[t].n = calls + 1
        /\ task'[t].held = {row} /\ task'[t].pc = "mkdb"
    BY <2>5, <2>6, <2>7, <2>8, RequestArrives
  <2>10. MakesOK(t)'
    <3>1. Held(t, {r \in WithId(DBRecords, task[t].n) : Short[r.server] = r.db.short})'
      BY <2>4, <2>9 DEF Held, WithId
    <3>2. \A x \in records' : x.id # task'[t].n
      BY <1>0, <2>9 DEF DatabasesOK, Numbered, mysqlVars
    <3> QED  BY <2>9, <3>1, <3>2 DEF MakesOK
  <2>11. calls' = calls + 1 /\ \A u \in Tasks \ {t} : task'[u] = task[u]
    BY <2>9 DEF Begins, Alone
  <2>12. \A u \in Tasks : task'[u] = task[u] \/ (task'[u].op = "mkdb" /\ MakesOK(u)')
    BY <2>9, <2>10, <2>11
  <2>13. DatabasesOK'
    BY <1>0, <2>11, <2>12, DatabasesQuiet DEF mysqlVars
  <2> QED  BY <2>9, <2>13 DEF DatabaseOps
<1>2. CASE CallDeleteDB(t)
  <2>1. PICK id \in 1..calls : Arrive(t, "database", Request("rmdb", "get", id, {}))
    BY <1>2 DEF CallDeleteDB
  <2>2. "rmdb" \in Ops /\ "get" \in Pcs
    BY OpNames
  <2>3. id \in 0..MaxCalls
    BY <1>0
  <2>4. Begins(t) /\ task'[t].op = "rmdb" /\ task'[t].pc = "get"
    BY <2>1, <2>2, <2>3, RequestArrives, NothingHeld
  <2>5. DropsOK(t)'
    BY <2>4 DEF DropsOK
  <2>6. calls' = calls + 1 /\ \A u \in Tasks \ {t} : task'[u] = task[u]
    BY <2>4 DEF Begins, Alone
  <2>7. \A u \in Tasks : task'[u] = task[u] \/ (task'[u].op = "rmdb" /\ DropsOK(u)')
    BY <2>4, <2>5, <2>6
  <2>8. DatabasesOK'
    BY <1>0, <2>6, <2>7, DatabasesQuiet DEF mysqlVars
  <2> QED  BY <2>4, <2>8 DEF DatabaseOps
<1> QED
  BY <1>1, <1>2

-----------------------------------------------------------------------------
(***************************************************************************)
(* Schedules: what the requests hold, and the numbers in cron              *)
(***************************************************************************)
\* The id of the schedule a request is about.
Subject(t) == IF task[t].op = "addSchedule" THEN task[t].n ELSE task[t].key

\* Each schedule request is about one schedule: the one it holds, or the one its
\* id names.
LEMMA Subjects ==
    ASSUME TasksOK, SchedulesOK, NEW t \in Tasks, task[t].op \in ScheduleOps
    PROVE  /\ Subject(t) \in 1..calls /\ Subject(t) \in Ids
           /\ \A id \in Ids : Handles(t, id) <=> id = Subject(t)
           /\ task[t].op # "removeSchedule" =>
                /\ task[t].held = {Row(t)} /\ Row(t) \in ScheduleRows
                /\ Row(t).id = Subject(t)
<1>1. task[t] \in Requests /\ task[t].n \in 1..calls /\ calls \in 0..MaxCalls
  <2>1. task[t].op # "idle"
    BY DEF ScheduleOps
  <2>2. task[t].n \in 0..calls /\ task[t].n # 0 /\ calls \in 0..MaxCalls
    BY <2>1 DEF TasksOK
  <2> QED  BY <2>2, PanelAssumption DEF TasksOK
<1>2. ScheduleTask(t) /\ \A k \in 1..calls : k \in Ids
  BY <1>1, PanelAssumption DEF SchedulesOK, Ids
<1>3. CASE task[t].op = "addSchedule"
  <2>1. PICK r \in WithId(ScheduleRows, task[t].n) : task[t].held = {r}
    BY <1>2, <1>3 DEF ScheduleTask, Held
  <2>2. Row(t) = r /\ r \in ScheduleRows /\ r.id = task[t].n /\ task[t].key = 0
    BY <1>2, <1>3, <2>1, TheRow DEF ScheduleTask, WithId
  <2>3. Subject(t) = task[t].n
    BY <1>3 DEF Subject
  <2>4. \A id \in Ids : Handles(t, id) <=> id = Subject(t)
    BY <2>1, <2>2, <2>3 DEF Handles, Ids
  <2> QED  BY <1>1, <1>2, <2>1, <2>2, <2>3, <2>4
<1>4. CASE task[t].op = "updateSchedule"
  <2>1. PICK r \in WithId(ScheduleRows, task[t].key) : task[t].held = {r}
    BY <1>2, <1>4 DEF ScheduleTask, Held
  <2>2. Row(t) = r /\ r \in ScheduleRows /\ r.id = task[t].key
        /\ task[t].key \in 1..calls
    BY <1>2, <1>4, <2>1, TheRow DEF ScheduleTask, WithId
  <2>3. Subject(t) = task[t].key
    BY <1>4 DEF Subject
  <2>4. \A id \in Ids : Handles(t, id) <=> id = Subject(t)
    BY <2>1, <2>2, <2>3 DEF Handles, Ids
  <2> QED  BY <1>1, <1>2, <2>1, <2>2, <2>3, <2>4
<1>5. CASE task[t].op = "removeSchedule"
  <2>1. task[t].held = {} /\ task[t].key \in 1..calls
    BY <1>2, <1>5 DEF ScheduleTask
  <2>2. Subject(t) = task[t].key
    BY <1>5 DEF Subject
  <2>3. \A id \in Ids : Handles(t, id) <=> id = Subject(t)
    BY <2>1, <2>2 DEF Handles
  <2> QED  BY <1>1, <1>2, <1>5, <2>1, <2>2, <2>3
<1> QED
  BY <1>3, <1>4, <1>5 DEF ScheduleOps

\* A request that is not about schedules, or that does not move.
Elsewhere(u) == /\ task'[u].op \notin ScheduleOps
                /\ task'[u].pc \notin {"unregister", "add", "assign"}

\* A goroutine that has become free is about no schedule.
LEMMA IdleIsElsewhere ==
    ASSUME NEW u \in Tasks, task'[u] = Idle
    PROVE  Elsewhere(u)
BY DEF Elsewhere, Idle, ScheduleOps

\* A schedule request that does not move keeps what SchedulesOK says of it.
LEMMA ScheduleTaskStays ==
    ASSUME SchedulesOK, NEW u \in Tasks, task'[u] = task[u] \/ Elsewhere(u),
           calls \in Nat, calls' \in Nat, calls <= calls',
           \A s \in schedules' : \/ \E r \in schedules : r.id = s.id
                                 \/ s.id # task[u].n
    PROVE  ScheduleTask(u)'
<1>1. ScheduleTask(u)
  BY DEF SchedulesOK
<1>2. CASE Elsewhere(u)
  BY <1>2 DEF Elsewhere, ScheduleTask, ScheduleOps
<1>3. CASE task'[u] = task[u]
  <2>1. \A k : k \in 1..calls => k \in 1..calls'
    OBVIOUS
  <2>2. CASE task[u].op = "addSchedule"
    BY <1>1, <1>3, <2>2 DEF ScheduleTask, Held, WithId, ScheduleOps
  <2>3. CASE task[u].op = "updateSchedule"
    BY <1>1, <1>3, <2>1, <2>3 DEF ScheduleTask, Held, WithId, ScheduleOps
  <2>4. CASE task[u].op = "removeSchedule"
    BY <1>1, <1>3, <2>1, <2>4 DEF ScheduleTask, ScheduleOps
  <2>5. CASE task[u].op \notin ScheduleOps
    BY <1>1, <1>3, <2>5 DEF ScheduleTask, ScheduleOps
  <2> QED  BY <2>2, <2>3, <2>4, <2>5 DEF ScheduleOps
<1> QED
  BY <1>2, <1>3

\* The numbers in cron and in `entries`, when a step leaves both alone.
LEMMA EntriesQuiet ==
    ASSUME TasksOK, EntriesOK, cron' = cron, entries' = entries,
           calls' \in Nat, calls <= calls',
           \A u \in Tasks :
             \/ task'[u] = task[u] \/ task'[u].op \notin ScheduleOps
             \/ /\ task[u].op \in ScheduleOps /\ task'[u].n = task[u].n
                /\ task[u].pc # "assign"
             \/ task'[u].n = calls + 1
    PROVE  EntriesOK'
<1>0. calls \in Nat
  BY DEF TasksOK
<1>1. /\ cron' \subseteq [eid : Ids, row : ScheduleRows]
      /\ \A e \in cron' : e.eid \in 1..calls' /\ e.row.id \in 1..calls'
      /\ \A e, f \in cron' : e.eid = f.eid => e = f
  BY <1>0 DEF EntriesOK
<1>2. /\ entries' \in [Ids -> 0..MaxCalls]
      /\ \A id \in Ids : entries'[id] \in 0..calls'
      /\ \A e \in cron', id \in Ids : entries'[id] = e.eid => e.row.id = id
  BY <1>0 DEF EntriesOK
<1>3. ASSUME NEW u \in Tasks
      PROVE  EntryOfTask(u)'
  <2>1. EntryOfTask(u) /\ \A id \in Ids : entries[id] \in 0..calls
    BY DEF EntriesOK
  <2>2. \A e \in cron : e.eid \in 1..calls
    BY DEF EntriesOK
  <2>3. CASE task'[u].n = calls + 1
    BY <1>0, <2>1, <2>2, <2>3 DEF EntryOfTask
  <2>4. CASE task'[u] = task[u] \/ task'[u].op \notin ScheduleOps
    BY <2>1, <2>4 DEF EntryOfTask
  <2>5. CASE /\ task[u].op \in ScheduleOps /\ task'[u].n = task[u].n
             /\ task[u].pc # "assign"
    BY <2>1, <2>5 DEF EntryOfTask
  <2> QED  BY <2>3, <2>4, <2>5
<1> QED
  BY <1>1, <1>2, <1>3 DEF EntriesOK

\* So do the goroutines in execute.
LEMMA RunsStay ==
    ASSUME RunsOK, run' = run, calls' \in Nat, calls \in Nat, calls <= calls'
    PROVE  RunsOK'
BY DEF RunsOK

\* A step without an arrival keeps the count of requests.
LEMMA SameCalls ==
    ASSUME TasksOK, calls' = calls
    PROVE  calls \in Nat /\ calls' \in Nat /\ calls <= calls'
<1>1. calls \in Nat
  BY DEF TasksOK
<1> QED
  BY <1>1

\* A request that goes on is still the same call.
LEMMA OthersStay ==
    ASSUME NEW t \in Tasks, Proceeds(t), task[t].op \in ScheduleOps, task[t].pc # "assign"
    PROVE  \A u \in Tasks :
             \/ task'[u] = task[u] \/ task'[u].op \notin ScheduleOps
             \/ /\ task[u].op \in ScheduleOps /\ task'[u].n = task[u].n
                /\ task[u].pc # "assign"
<1>1. task'[t] = Idle => task'[t].op \notin ScheduleOps
  BY IdleIsElsewhere DEF Elsewhere
<1> QED
  BY <1>1 DEF Proceeds, Alone

\* A step of one request: the others hold what they held.
LEMMA ScheduleMoves ==
    ASSUME TasksOK, SchedulesOK, NEW t \in Tasks, Alone(t), calls' = calls,
           schedules' \subseteq ScheduleRows, Numbered(schedules)', RunsOK',
           ScheduleTask(t)',
           \A s \in schedules' : \/ \E r \in schedules : r.id = s.id
                                 \/ task[t].op = "addSchedule" /\ s.id = task[t].n
    PROVE  SchedulesOK'
<1>1. ASSUME NEW u \in Tasks \ {t}
      PROVE  ScheduleTask(u)'
  <2>1. task[t].op = "addSchedule" => task[t].n # task[u].n
    BY DEF TasksOK
  <2>2. \A s \in schedules' : \/ \E r \in schedules : r.id = s.id
                              \/ s.id # task[u].n
    BY <2>1
  <2>3. task'[u] = task[u]
    BY DEF Alone
  <2>4. calls \in Nat /\ calls' \in Nat /\ calls <= calls'
    BY SameCalls
  <2> QED  BY <2>2, <2>3, <2>4, ScheduleTaskStays
<1>2. \A u \in Tasks : ScheduleTask(u)'
  BY <1>1
<1> QED
  BY <1>2 DEF SchedulesOK

\* An UPDATE of a schedule adds no row and keeps the ids unique.
LEMMA ScheduleUpdate ==
    ASSUME Numbered(schedules), schedules \subseteq ScheduleRows, calls' = calls,
           NEW row \in ScheduleRows, schedules' = Update(schedules, row)
    PROVE  /\ schedules' \subseteq ScheduleRows /\ Numbered(schedules)'
           /\ \A s \in schedules' : \E r \in schedules : r.id = s.id
<1>1. \A r \in schedules' : \E s \in schedules : s.id = r.id
  BY UpdateKeepsIds
<1>2. schedules' \subseteq ScheduleRows
  BY DEF Update
<1>3. \A r, s \in schedules' : r.id = s.id => r = s
  BY UpdateOne DEF Numbered
<1>4. \A r \in schedules' : r.id \in 1..calls'
  BY <1>1 DEF Numbered
<1> QED
  BY <1>1, <1>2, <1>3, <1>4 DEF Numbered

\* Create inserts the row under the number of its request.
LEMMA InsertScheduleKeeps ==
    ASSUME TasksOK, EntriesOK, SchedulesOK, NEW t \in Tasks, InsertSchedule(t),
           calls' = calls
    PROVE  EntriesOK' /\ SchedulesOK' /\ Proceeds(t) /\ task[t].op = "addSchedule"
<1> DEFINE row == Row(t)
<1>0. calls \in Nat /\ calls' \in Nat /\ calls <= calls'
  BY SameCalls
<1>1. /\ task[t].op = "addSchedule" /\ task[t].pc = "insert"
      /\ schedules' = schedules \cup {row} /\ UNCHANGED <<cron, entries, run>>
      /\ \/ row.enabled /\ Goes(t, "add")
         \/ ~ row.enabled /\ Answer(t)
  BY DEF InsertSchedule, At
<1>2. task[t].op \in ScheduleOps
  BY <1>1 DEF ScheduleOps
<1>3. /\ task[t].held = {row} /\ row \in ScheduleRows /\ row.id = task[t].n
      /\ row.id \in 1..calls
  BY <1>1, <1>2, Subjects DEF Subject
<1>4. \A s \in schedules : s.id # row.id
  BY <1>1, <1>3 DEF SchedulesOK, ScheduleTask
<1> HIDE DEF row
<1>5. \/ Proceeds(t) /\ task'[t] = Idle
      \/ /\ Proceeds(t) /\ task'[t].op = "addSchedule" /\ task'[t].pc = "add"
         /\ task'[t].n = task[t].n /\ task'[t].key = task[t].key
         /\ task'[t].held = task[t].held
  BY <1>1, Answers, GoesOn, StepNames
<1>6. schedules' \subseteq ScheduleRows /\ Numbered(schedules)'
  BY <1>1, <1>3, <1>4 DEF SchedulesOK, Numbered
<1>7. RunsOK'
  BY <1>0, <1>1, RunsStay DEF SchedulesOK
<1>8. ScheduleTask(t)'
  <2>1. CASE task'[t] = Idle
    BY <2>1 DEF ScheduleTask, Idle, ScheduleOps
  <2>2. CASE task'[t].pc = "add"
    <3>1. task[t].key = 0
      BY <1>1 DEF SchedulesOK, ScheduleTask
    <3>2. /\ task'[t].op = "addSchedule" /\ task'[t].n = task[t].n
          /\ task'[t].key = 0 /\ task'[t].held = {row}
      <4>1. task'[t] # Idle
        BY <2>2 DEF Idle
      <4> QED  BY <1>3, <1>5, <3>1, <4>1
    <3>3. Held(t, WithId(ScheduleRows, task[t].n))'
      BY <1>3, <3>2 DEF Held, WithId
    <3> QED  BY <2>2, <3>2, <3>3 DEF ScheduleTask, ScheduleOps
  <2> QED  BY <1>5, <2>1, <2>2
<1>9. \A s \in schedules' : \/ \E r \in schedules : r.id = s.id
                            \/ task[t].op = "addSchedule" /\ s.id = task[t].n
  BY <1>1, <1>3
<1>10. SchedulesOK'
  BY <1>1, <1>5, <1>6, <1>7, <1>8, <1>9, ScheduleMoves DEF Proceeds
<1>11. \A u \in Tasks :
         \/ task'[u] = task[u] \/ task'[u].op \notin ScheduleOps
         \/ /\ task[u].op \in ScheduleOps /\ task'[u].n = task[u].n
            /\ task[u].pc # "assign"
  BY <1>1, <1>2, <1>5, OthersStay
<1>12. EntriesOK'
  BY <1>0, <1>1, <1>11, EntriesQuiet
<1> QED
  BY <1>1, <1>5, <1>10, <1>12

\* UPDATE reads its row again, keeps the server of what it read, and writes.
LEMMA GetScheduleKeeps ==
    ASSUME TasksOK, EntriesOK, SchedulesOK, NEW t \in Tasks, GetSchedule(t),
           calls' = calls
    PROVE  /\ EntriesOK' /\ SchedulesOK' /\ Proceeds(t)
           /\ task[t].op = "updateSchedule"
           /\ \/ task'[t] = Idle
              \/ task'[t].pc = "write" /\ Select(schedules, task[t].key) # {}
<1> DEFINE row == Row(t)
           key == task[t].key
           read(r) == [row EXCEPT !.server = r.server]
<1>0. calls \in Nat /\ calls' \in Nat /\ calls <= calls'
  BY SameCalls
<1>1. /\ task[t].op = "updateSchedule" /\ task[t].pc = "get"
      /\ UNCHANGED <<schedules, cron, entries, run>>
  BY DEF GetSchedule, At
<1>2. task[t].op \in ScheduleOps
  BY <1>1 DEF ScheduleOps
<1>3. row \in ScheduleRows /\ row.id = key /\ key \in 1..calls
  BY <1>1, <1>2, Subjects DEF Subject
<1>4. \A r \in schedules : read(r) \in ScheduleRows /\ read(r).id = key
  BY <1>3 DEF SchedulesOK, ScheduleRows
<1>5. \/ Answer(t)
      \/ \E r \in schedules : r.id = key /\ Holds(t, "write", {read(r)})
                              /\ Select(schedules, key) # {}
  <2>1. CASE Select(schedules, key) = {}
    BY <2>1 DEF GetSchedule
  <2>2. ASSUME NEW r \in schedules, r.id = key, Select(schedules, key) = {r}
        PROVE  Holds(t, "write", {read(r)})
    <3>1. {[Row(t) EXCEPT !.server = x.server] : x \in Select(schedules, task[t].key)}
            = {read(r)}
      BY <2>2
    <3> HIDE DEF read
    <3> QED  BY <3>1 DEF GetSchedule
  <2> QED  BY <2>1, <2>2, SelectOne DEF SchedulesOK
<1> HIDE DEF row, read
<1>6. ASSUME NEW r \in schedules, r.id = key, Holds(t, "write", {read(r)})
      PROVE  /\ Proceeds(t) /\ task'[t].op = "updateSchedule" /\ task'[t].pc = "write"
             /\ task'[t].n = task[t].n /\ task'[t].key = key
             /\ task'[t].held = {read(r)}
  <2>1. {read(r)} \in Holdings
    BY <1>4, Copies, RowKinds
  <2> QED  BY <1>1, <1>6, <2>1, HoldsRows, StepNames
<1>7. /\ Proceeds(t)
      /\ \/ task'[t] = Idle
         \/ /\ task'[t].op = "updateSchedule" /\ task'[t].pc = "write"
            /\ task'[t].n = task[t].n /\ task'[t].key = key
            /\ \E r \in ScheduleRows : r.id = key /\ task'[t].held = {r}
            /\ Select(schedules, key) # {}
  BY <1>4, <1>5, <1>6, Answers
<1>8. schedules' \subseteq ScheduleRows /\ Numbered(schedules)' /\ RunsOK'
  BY <1>0, <1>1, RunsStay DEF SchedulesOK, Numbered
<1>9. ScheduleTask(t)'
  <2>1. CASE task'[t] = Idle
    BY <2>1 DEF ScheduleTask, Idle, ScheduleOps
  <2>2. CASE task'[t] # Idle
    <3>1. Held(t, WithId(ScheduleRows, task[t].key))'
      BY <1>7, <2>2 DEF Held, WithId
    <3> QED  BY <1>1, <1>3, <1>7, <2>2, <3>1 DEF ScheduleTask, ScheduleOps
  <2> QED  BY <2>1, <2>2
<1>10. SchedulesOK'
  BY <1>1, <1>7, <1>8, <1>9, ScheduleMoves DEF Proceeds
<1>11. \A u \in Tasks :
         \/ task'[u] = task[u] \/ task'[u].op \notin ScheduleOps
         \/ /\ task[u].op \in ScheduleOps /\ task'[u].n = task[u].n
            /\ task[u].pc # "assign"
  BY <1>1, <1>2, <1>7, OthersStay
<1>12. EntriesOK'
  BY <1>0, <1>1, <1>11, EntriesQuiet
<1> QED
  BY <1>1, <1>7, <1>10, <1>12

\* Update writes the row it has changed.
LEMMA WriteScheduleKeeps ==
    ASSUME TasksOK, EntriesOK, SchedulesOK, NEW t \in Tasks, WriteSchedule(t),
           calls' = calls
    PROVE  /\ EntriesOK' /\ SchedulesOK' /\ Proceeds(t)
           /\ task[t].op = "updateSchedule" /\ task'[t].op = task[t].op
           /\ task'[t].pc = "unregister" /\ task'[t].held = task[t].held
           /\ \A s \in schedules' : \E r \in schedules : r.id = s.id
<1> DEFINE row == Row(t)
<1>0. calls \in Nat /\ calls' \in Nat /\ calls <= calls'
  BY SameCalls
<1>1. /\ task[t].op = "updateSchedule" /\ task[t].pc = "write"
      /\ schedules' = Update(schedules, row) /\ UNCHANGED <<cron, entries, run>>
      /\ Goes(t, "unregister")
  BY DEF WriteSchedule, At
<1>2. task[t].op \in ScheduleOps
  BY <1>1 DEF ScheduleOps
<1>3. /\ task[t].held = {row} /\ row \in ScheduleRows /\ row.id = task[t].key
      /\ task[t].key \in 1..calls
  BY <1>1, <1>2, Subjects DEF Subject
<1> HIDE DEF row
<1>4. /\ Proceeds(t) /\ task'[t].op = "updateSchedule" /\ task'[t].pc = "unregister"
      /\ task'[t].n = task[t].n /\ task'[t].key = task[t].key
      /\ task'[t].held = {row}
  BY <1>1, <1>3, GoesOn, StepNames
<1>5. /\ schedules' \subseteq ScheduleRows /\ Numbered(schedules)'
      /\ \A s \in schedules' : \E r \in schedules : r.id = s.id
  BY <1>1, <1>3, ScheduleUpdate DEF SchedulesOK
<1>6. RunsOK'
  BY <1>0, <1>1, RunsStay DEF SchedulesOK
<1>7. ScheduleTask(t)'
  <2>1. Held(t, WithId(ScheduleRows, task[t].key))'
    BY <1>3, <1>4 DEF Held, WithId
  <2> QED  BY <1>3, <1>4, <2>1 DEF ScheduleTask, ScheduleOps
<1>8. SchedulesOK'
  BY <1>4, <1>5, <1>6, <1>7, ScheduleMoves DEF Proceeds
<1>9. \A u \in Tasks :
        \/ task'[u] = task[u] \/ task'[u].op \notin ScheduleOps
        \/ /\ task[u].op \in ScheduleOps /\ task'[u].n = task[u].n
           /\ task[u].pc # "assign"
  BY <1>1, <1>2, <1>4, OthersStay
<1>10. EntriesOK'
  BY <1>0, <1>1, <1>9, EntriesQuiet
<1> QED
  BY <1>1, <1>3, <1>4, <1>5, <1>8, <1>10

\* Only requests on schedules come to the steps that change cron.
LEMMA OnlySchedules ==
    ASSUME SchedulesOK, NEW t \in Tasks, task[t].pc \in {"unregister", "add", "assign"}
    PROVE  /\ task[t].op \in ScheduleOps /\ ScheduleTask(t)
           /\ task[t].pc = "unregister" =>
                task[t].op \in {"updateSchedule", "removeSchedule"}
           /\ task[t].pc \in {"add", "assign"} =>
                task[t].op \in {"addSchedule", "updateSchedule"}
<1>1. ScheduleTask(t)
  BY DEF SchedulesOK
<1> QED
  BY <1>1 DEF ScheduleTask, ScheduleOps

\* Unregister removes the entry that entries names, and forgets it.
LEMMA UnregisterKeeps ==
    ASSUME TasksOK, EntriesOK, SchedulesOK, NEW t \in Tasks, Unregister(t),
           calls' = calls
    PROVE  /\ EntriesOK' /\ SchedulesOK' /\ Proceeds(t) /\ task[t].op \in ScheduleOps
           /\ task[t].key = Subject(t)
           /\ \/ task'[t].op = "removeSchedule" /\ task'[t].pc = "delete"
              \/ /\ task[t].op = "updateSchedule" /\ Row(t).enabled
                 /\ task'[t].op = task[t].op
                 /\ task'[t].pc = "add" /\ task'[t].held = task[t].held
              \/ task[t].op = "updateSchedule" /\ ~Row(t).enabled /\ task'[t] = Idle
<1> DEFINE row == Row(t)
           key == task[t].key
<1>0. calls \in Nat /\ calls' \in Nat /\ calls <= calls'
  BY SameCalls
<1>1. /\ task[t].pc = "unregister" /\ UNCHANGED <<schedules, run>>
      /\ cron' = {e \in cron : e.eid # entries[key]}
      /\ entries' = [entries EXCEPT ![key] = 0]
  BY DEF Unregister
<1>2. /\ task[t].op \in ScheduleOps
      /\ task[t].op = "updateSchedule" \/ task[t].op = "removeSchedule"
  BY <1>1, OnlySchedules
<1>3. /\ key \in 1..calls /\ Subject(t) = key
      /\ task[t].op = "updateSchedule" =>
           task[t].held = {row} /\ row \in ScheduleRows /\ row.id = key
  BY <1>2, Subjects DEF Subject
<1>4. \/ task[t].op = "removeSchedule" /\ Goes(t, "delete")
      \/ task[t].op = "updateSchedule" /\ row.enabled /\ Goes(t, "add")
      \/ task[t].op = "updateSchedule" /\ ~row.enabled /\ Answer(t)
  BY <1>2 DEF Unregister
<1> HIDE DEF row
<1>5. /\ Proceeds(t)
      /\ \/ task'[t] = Idle
         \/ /\ task'[t].op = task[t].op /\ task'[t].n = task[t].n /\ task'[t].key = key
            /\ task'[t].held = task[t].held
            /\ \/ task[t].op = "removeSchedule" /\ task'[t].pc = "delete"
               \/ task[t].op = "updateSchedule" /\ task'[t].pc = "add"
  BY <1>4, Answers, GoesOn, StepNames
<1>6. schedules' \subseteq ScheduleRows /\ Numbered(schedules)' /\ RunsOK'
  BY <1>0, <1>1, RunsStay DEF SchedulesOK, Numbered
<1>7. ScheduleTask(t)'
  <2>1. CASE task'[t] = Idle
    BY <2>1 DEF ScheduleTask, Idle, ScheduleOps
  <2>2. CASE task[t].op = "removeSchedule" /\ task'[t] # Idle
    <3>1. task[t].held = {}
      BY <1>1, <2>2, OnlySchedules DEF ScheduleTask
    <3> QED  BY <1>3, <1>5, <2>2, <3>1 DEF ScheduleTask, ScheduleOps
  <2>3. CASE task[t].op = "updateSchedule" /\ task'[t] # Idle
    <3>1. Held(t, WithId(ScheduleRows, task[t].key))'
      BY <1>3, <1>5, <2>3 DEF Held, WithId
    <3> QED  BY <1>3, <1>5, <2>3, <3>1 DEF ScheduleTask, ScheduleOps
  <2> QED  BY <1>5, <2>1, <2>2, <2>3
<1>8. SchedulesOK'
  BY <1>1, <1>5, <1>6, <1>7, ScheduleMoves DEF Proceeds
<1>9. \A u \in Tasks :
        \/ task'[u] = task[u] \/ task'[u].op \notin ScheduleOps
        \/ /\ task[u].op \in ScheduleOps /\ task'[u].n = task[u].n
           /\ task[u].pc # "assign"
  BY <1>1, <1>2, <1>5, OthersStay
<1>10. cron' \subseteq cron /\ \A id \in Ids : entries'[id] = 0 \/ entries'[id] = entries[id]
  BY <1>1 DEF EntriesOK
<1>11. ASSUME NEW u \in Tasks
       PROVE  EntryOfTask(u)'
  <2>1. EntryOfTask(u)
    BY DEF EntriesOK
  <2>2. task[u].op \in ScheduleOps => task[u].n # 0
    BY DEF TasksOK, ScheduleOps
  <2> QED  BY <1>9, <1>10, <2>1, <2>2 DEF EntryOfTask
<1>12. EntriesOK'
  <2>1. entries' \in [Ids -> 0..MaxCalls]
    <3>1. 0 \in 0..MaxCalls
      BY PanelAssumption
    <3> QED  BY <1>1, <3>1 DEF EntriesOK
  <2>2. /\ cron' \subseteq [eid : Ids, row : ScheduleRows]
        /\ \A e \in cron' : e.eid \in 1..calls' /\ e.row.id \in 1..calls'
        /\ \A e, f \in cron' : e.eid = f.eid => e = f
    BY <1>10 DEF EntriesOK
  <2>3. \A id \in Ids : entries'[id] \in 0..calls'
    BY <1>0, <1>10 DEF EntriesOK
  <2>4. \A e \in cron', id \in Ids : entries'[id] = e.eid => e.row.id = id
    BY <1>0, <1>10, <2>2 DEF EntriesOK
  <2> QED  BY <1>11, <2>1, <2>2, <2>3, <2>4 DEF EntriesOK
<1> QED
  BY <1>2, <1>3, <1>4, <1>5, <1>8, <1>12, GoesOn, Answers, StepNames DEF row

\* cron.AddFunc adds an entry with a copy of the row, unless the expression does
\* not parse.
LEMMA AddFuncKeeps ==
    ASSUME TasksOK, EntriesOK, SchedulesOK, NEW t \in Tasks, AddFunc(t), calls' = calls
    PROVE  /\ EntriesOK' /\ SchedulesOK' /\ Proceeds(t) /\ task[t].op \in ScheduleOps
           /\ task[t].op # "removeSchedule"
           /\ \/ task'[t] = Idle /\ ~Row(t).valid /\ cron' = cron
              \/ /\ Row(t).valid /\ task'[t].op = task[t].op /\ task'[t].pc = "assign"
                 /\ task'[t].n = task[t].n /\ task'[t].held = task[t].held
                 /\ cron' = cron \cup {[eid |-> task[t].n, row |-> Row(t)]}
<1> DEFINE row == Row(t)
           entry == [eid |-> task[t].n, row |-> row]
<1>0. calls \in Nat /\ calls' \in Nat /\ calls <= calls'
  BY SameCalls
<1>1. /\ task[t].pc = "add" /\ UNCHANGED <<schedules, entries, run>>
      /\ \/ row.valid /\ cron' = cron \cup {entry} /\ Goes(t, "assign")
         \/ ~row.valid /\ cron' = cron /\ Answer(t)
  BY DEF AddFunc
<1>2. /\ task[t].op \in ScheduleOps
      /\ task[t].op = "addSchedule" \/ task[t].op = "updateSchedule"
  BY <1>1, OnlySchedules
<1>3. /\ task[t].held = {row} /\ row \in ScheduleRows /\ row.id = Subject(t)
      /\ Subject(t) \in 1..calls /\ Subject(t) \in Ids
  BY <1>2, Subjects
<1>4. entry.eid = task[t].n /\ entry.row = row
  OBVIOUS
<1>5. task[t].n \in 1..calls /\ task[t].n \in Ids
  <2>1. task[t].n # 0 /\ task[t].n \in 0..calls /\ calls \in 0..MaxCalls
    BY <1>2 DEF TasksOK
  <2> QED  BY <2>1, PanelAssumption DEF Ids
<1>6. entry \in [eid : Ids, row : ScheduleRows]
  BY <1>3, <1>5
<1> HIDE DEF row, entry
<1>7. /\ Proceeds(t)
      /\ \/ task'[t] = Idle /\ ~row.valid /\ cron' = cron
         \/ /\ task'[t].op = task[t].op /\ task'[t].n = task[t].n
            /\ task'[t].key = task[t].key /\ task'[t].held = task[t].held
            /\ task'[t].pc = "assign" /\ row.valid /\ cron' = cron \cup {entry}
  BY <1>1, Answers, GoesOn, StepNames
<1>8. schedules' \subseteq ScheduleRows /\ Numbered(schedules)' /\ RunsOK'
  BY <1>0, <1>1, RunsStay DEF SchedulesOK, Numbered
<1>9. ScheduleTask(t)'
  <2>1. CASE task'[t] = Idle
    BY <2>1 DEF ScheduleTask, Idle, ScheduleOps
  <2>2. CASE task[t].op = "addSchedule" /\ task'[t] # Idle
    <3>1. Held(t, WithId(ScheduleRows, task[t].n))'
      BY <1>3, <1>7, <2>2 DEF Held, WithId, Subject
    <3>2. task[t].key = 0
      BY <1>1, <2>2, OnlySchedules DEF ScheduleTask
    <3> QED  BY <1>7, <2>2, <3>1, <3>2 DEF ScheduleTask, ScheduleOps
  <2>3. CASE task[t].op = "updateSchedule" /\ task'[t] # Idle
    <3>1. Held(t, WithId(ScheduleRows, task[t].key))'
      BY <1>3, <1>7, <2>3 DEF Held, WithId, Subject
    <3>2. task[t].key \in 1..calls
      BY <1>1, <2>3, OnlySchedules DEF ScheduleTask
    <3> QED  BY <1>0, <1>7, <2>3, <3>1, <3>2 DEF ScheduleTask, ScheduleOps
  <2> QED  BY <1>2, <2>1, <2>2, <2>3
<1>10. SchedulesOK'
  BY <1>1, <1>7, <1>8, <1>9, ScheduleMoves DEF Proceeds
<1>11. EntryOfTask(t) /\ \A e \in cron : e.eid # task[t].n
  BY <1>1, <1>2 DEF EntriesOK, EntryOfTask
<1>12. ASSUME NEW u \in Tasks
       PROVE  EntryOfTask(u)'
  <2>1. EntryOfTask(u)
    BY DEF EntriesOK
  <2>2. CASE u = t
    <3>1. CASE task'[t] = Idle
      BY <2>2, <3>1, IdleIsElsewhere DEF EntryOfTask, Elsewhere
    <3>2. CASE task'[t] # Idle
      BY <1>1, <1>2, <1>3, <1>4, <1>7, <1>11, <2>2, <3>2 DEF EntryOfTask
    <3> QED  BY <3>1, <3>2
  <2>3. CASE u # t
    <3>1. task[t].n # task[u].n
      BY <1>2, <2>3 DEF TasksOK, ScheduleOps
    <3>2. task'[u] = task[u]
      BY <1>7, <2>3 DEF Proceeds, Alone
    <3> QED  BY <1>1, <1>4, <2>1, <3>1, <3>2 DEF EntryOfTask
  <2> QED  BY <2>2, <2>3
<1>13. EntriesOK'
  <2>1. /\ cron' \subseteq [eid : Ids, row : ScheduleRows]
        /\ \A e \in cron' : e.eid \in 1..calls' /\ e.row.id \in 1..calls'
    BY <1>0, <1>1, <1>3, <1>4, <1>5, <1>6 DEF EntriesOK
  <2>2. \A e, f \in cron' : e.eid = f.eid => e = f
    BY <1>1, <1>4, <1>11 DEF EntriesOK
  <2>3. /\ entries' \in [Ids -> 0..MaxCalls]
        /\ \A id \in Ids : entries'[id] \in 0..calls'
    BY <1>1 DEF EntriesOK
  <2>4. \A e \in cron', id \in Ids : entries'[id] = e.eid => e.row.id = id
    BY <1>1, <1>2, <1>4, <1>11 DEF EntriesOK, EntryOfTask
  <2> QED  BY <1>12, <2>1, <2>2, <2>3, <2>4 DEF EntriesOK
<1> QED
  BY <1>2, <1>7, <1>10, <1>13 DEF row, entry, ScheduleOps

\* The id of the new entry is stored under that of the schedule.
LEMMA AssignEntryKeeps ==
    ASSUME TasksOK, EntriesOK, SchedulesOK, NEW t \in Tasks, AssignEntry(t),
           calls' = calls
    PROVE  /\ EntriesOK' /\ SchedulesOK' /\ Proceeds(t) /\ task[t].op \in ScheduleOps
           /\ task'[t] = Idle /\ task[t].op # "removeSchedule"
           /\ entries' = [entries EXCEPT ![Subject(t)] = task[t].n]
<1> DEFINE row == Row(t)
           id0 == Subject(t)
<1>0. calls \in Nat /\ calls' \in Nat /\ calls <= calls'
  BY SameCalls
<1>1. /\ task[t].pc = "assign" /\ UNCHANGED <<schedules, cron, run>>
      /\ entries' = [entries EXCEPT ![row.id] = task[t].n] /\ Answer(t)
  BY DEF AssignEntry
<1>2. /\ task[t].op \in ScheduleOps
      /\ task[t].op = "addSchedule" \/ task[t].op = "updateSchedule"
  BY <1>1, OnlySchedules
<1>3. /\ task[t].held = {row} /\ row \in ScheduleRows /\ row.id = id0
      /\ id0 \in 1..calls /\ id0 \in Ids
  BY <1>2, Subjects
<1> HIDE DEF row, id0
<1>4. task[t].n \in 1..calls /\ task[t].n \in 0..MaxCalls
  <2>1. task[t].n # 0 /\ task[t].n \in 0..calls /\ calls \in 0..MaxCalls
    BY <1>2 DEF TasksOK
  <2> QED  BY <2>1, PanelAssumption
<1>5. Proceeds(t) /\ task'[t] = Idle
  BY <1>1, Answers
<1>6. schedules' \subseteq ScheduleRows /\ Numbered(schedules)' /\ RunsOK'
  BY <1>0, <1>1, RunsStay DEF SchedulesOK, Numbered
<1>7. ScheduleTask(t)'
  BY <1>5 DEF ScheduleTask, Idle, ScheduleOps
<1>8. SchedulesOK'
  BY <1>1, <1>5, <1>6, <1>7, ScheduleMoves DEF Proceeds
<1>9. /\ entries' \in [Ids -> 0..MaxCalls] /\ entries'[id0] = task[t].n
      /\ \A id \in Ids : id # id0 => entries'[id] = entries[id]
  BY <1>1, <1>3, <1>4 DEF EntriesOK
<1>10. EntryOfTask(t)
  BY DEF EntriesOK
<1>11. ASSUME NEW u \in Tasks
       PROVE  EntryOfTask(u)'
  <2>1. EntryOfTask(u)
    BY DEF EntriesOK
  <2>2. CASE u = t
    BY <1>5, <2>2, IdleIsElsewhere DEF EntryOfTask, Elsewhere
  <2>3. CASE u # t
    <3>1. task[t].n # task[u].n
      BY <1>2, <2>3 DEF TasksOK, ScheduleOps
    <3>2. task'[u] = task[u]
      BY <1>5, <2>3 DEF Proceeds, Alone
    <3> QED  BY <1>1, <1>9, <2>1, <3>1, <3>2 DEF EntryOfTask
  <2> QED  BY <2>2, <2>3
<1>12. EntriesOK'
  <2>1. \A id \in Ids : entries'[id] \in 0..calls'
    BY <1>0, <1>4, <1>9 DEF EntriesOK
  <2>2. \A e \in cron', id \in Ids : entries'[id] = e.eid => e.row.id = id
    BY <1>1, <1>2, <1>3, <1>9, <1>10 DEF EntriesOK, EntryOfTask
  <2> QED  BY <1>1, <1>9, <1>11, <2>1, <2>2 DEF EntriesOK
<1> QED
  BY <1>1, <1>2, <1>3, <1>5, <1>8, <1>12 DEF id0

\* Delete takes the row away.
LEMMA RemoveScheduleKeeps ==
    ASSUME TasksOK, EntriesOK, SchedulesOK, NEW t \in Tasks, RemoveSchedule(t),
           calls' = calls
    PROVE  /\ EntriesOK' /\ SchedulesOK' /\ Proceeds(t)
           /\ task[t].op = "removeSchedule" /\ task'[t] = Idle
<1>0. calls \in Nat /\ calls' \in Nat /\ calls <= calls'
  BY SameCalls
<1>1. /\ task[t].op = "removeSchedule" /\ task[t].pc = "delete"
      /\ schedules' = Delete(schedules, task[t].key)
      /\ UNCHANGED <<cron, entries, run>> /\ Answer(t)
  BY DEF RemoveSchedule, At
<1>2. task[t].op \in ScheduleOps /\ schedules' \subseteq schedules
  BY <1>1 DEF ScheduleOps, Delete
<1>3. Proceeds(t) /\ task'[t] = Idle
  BY <1>1, Answers
<1>4. schedules' \subseteq ScheduleRows /\ Numbered(schedules)' /\ RunsOK'
  BY <1>0, <1>1, <1>2, RunsStay DEF SchedulesOK, Numbered
<1>5. ScheduleTask(t)'
  BY <1>3 DEF ScheduleTask, Idle, ScheduleOps
<1>6. SchedulesOK'
  BY <1>2, <1>3, <1>4, <1>5, ScheduleMoves DEF Proceeds
<1>7. \A u \in Tasks : task'[u] = task[u] \/ task'[u].op \notin ScheduleOps
  BY <1>3, IdleIsElsewhere DEF Proceeds, Alone, Elsewhere
<1>8. EntriesOK'
  BY <1>0, <1>1, <1>7, EntriesQuiet
<1> QED
  BY <1>1, <1>3, <1>6, <1>8

\* A run is given a copy of a row that is, or was, stored.
LEMMA ExecutesACopy ==
    ASSUME RunsOK, NEW g \in Runs, NEW row \in ScheduleRows, row.id \in 1..calls,
           Executes(g, row), calls \in Nat, calls' \in Nat, calls <= calls'
    PROVE  RunsOK'
<1> DEFINE new == [rows |-> {row}, plan |-> row.plan]
<1>1. run' = [run EXCEPT ![g] = new]
  BY DEF Executes
<1>2. new \in [rows : {{}} \cup {{r} : r \in ScheduleRows}, plan : Plans]
  BY DEF ScheduleRows
<1>3. new.rows = {row}
  OBVIOUS
<1> HIDE DEF new
<1>4. run' \in [Runs -> [rows : {{}} \cup {{r} : r \in ScheduleRows}, plan : Plans]]
  BY <1>1, <1>2 DEF RunsOK
<1>5. row.id \in 1..calls'
  OBVIOUS
<1>6. ASSUME NEW h \in Runs
      PROVE  \/ run'[h].rows = {} /\ run'[h].plan = <<>>
             \/ \E r \in ScheduleRows : run'[h].rows = {r} /\ r.id \in 1..calls'
  <2>1. CASE h = g
    BY <1>1, <1>3, <1>5, <2>1 DEF RunsOK
  <2>2. CASE h # g
    <3>1. run'[h] = run[h]
      BY <1>1, <2>2 DEF RunsOK
    <3>2. \A k : k \in 1..calls => k \in 1..calls'
      OBVIOUS
    <3> QED  BY <3>1, <3>2 DEF RunsOK
  <2> QED  BY <2>1, <2>2
<1> QED
  BY <1>4, <1>6 DEF RunsOK

\* Run reads the row and hands it to a goroutine of its own.
LEMMA RunNowKeeps ==
    ASSUME TasksOK, EntriesOK, SchedulesOK, NEW t \in Tasks, RunNow(t), calls' = calls
    PROVE  /\ EntriesOK' /\ SchedulesOK' /\ Proceeds(t)
           /\ task[t].op = "runSchedule" /\ task'[t] = Idle
<1>0. calls \in Nat /\ calls' \in Nat /\ calls <= calls'
  BY SameCalls
<1>1. /\ task[t].op = "runSchedule" /\ Answer(t)
      /\ UNCHANGED <<schedules, cron, entries>>
      /\ \/ run' = run
         \/ \E g \in Runs, r \in schedules : Executes(g, r)
  BY DEF RunNow, At, Select
<1>2. Proceeds(t) /\ task'[t] = Idle
  BY <1>1, Answers
<1>3. schedules' \subseteq ScheduleRows /\ Numbered(schedules)'
  BY <1>0, <1>1 DEF SchedulesOK, Numbered
<1>4. RunsOK'
  <2>1. CASE run' = run
    BY <1>0, <2>1, RunsStay DEF SchedulesOK
  <2>2. CASE \E g \in Runs, r \in schedules : Executes(g, r)
    BY <1>0, <2>2, ExecutesACopy DEF SchedulesOK, Numbered
  <2> QED  BY <1>1, <2>1, <2>2
<1>5. ScheduleTask(t)'
  BY <1>2 DEF ScheduleTask, Idle, ScheduleOps
<1>6. SchedulesOK'
  BY <1>1, <1>2, <1>3, <1>4, <1>5, ScheduleMoves DEF Proceeds
<1>7. \A u \in Tasks : task'[u] = task[u] \/ task'[u].op \notin ScheduleOps
  BY <1>2, IdleIsElsewhere DEF Proceeds, Alone, Elsewhere
<1>8. EntriesOK'
  BY <1>0, <1>1, <1>7, EntriesQuiet
<1> QED
  BY <1>1, <1>2, <1>6, <1>8

\* Every step of a request on schedules.
LEMMA ScheduleSteps ==
    ASSUME TasksOK, EntriesOK, SchedulesOK, NEW t \in Tasks, ScheduleStep(t)
    PROVE  /\ EntriesOK' /\ SchedulesOK' /\ Proceeds(t) /\ calls' = calls
           /\ task[t].op \in ScheduleOps \cup {"runSchedule"}
           /\ \A r \in schedules' : \/ \E s \in schedules : s.id = r.id
                                    \/ task[t].op = "addSchedule" /\ task[t].n = r.id
<1>0. calls' = calls
  BY DEF ScheduleStep
<1>1. CASE InsertSchedule(t)
  <2>1. task[t].op = "addSchedule" /\ schedules' = schedules \cup {Row(t)}
    BY <1>1 DEF InsertSchedule, At
  <2>2. Row(t).id = task[t].n
    BY <2>1, Subjects DEF Subject, ScheduleOps
  <2> QED  BY <1>0, <1>1, <2>1, <2>2, InsertScheduleKeeps DEF ScheduleOps
<1>2. CASE GetSchedule(t)
  BY <1>0, <1>2, GetScheduleKeeps DEF ScheduleOps, GetSchedule
<1>3. CASE WriteSchedule(t)
  BY <1>0, <1>3, WriteScheduleKeeps DEF ScheduleOps
<1>4. CASE Unregister(t)
  BY <1>0, <1>4, UnregisterKeeps DEF Unregister
<1>5. CASE AddFunc(t)
  BY <1>0, <1>5, AddFuncKeeps DEF AddFunc
<1>6. CASE AssignEntry(t)
  BY <1>0, <1>6, AssignEntryKeeps DEF AssignEntry
<1>7. CASE RemoveSchedule(t)
  BY <1>0, <1>7, RemoveScheduleKeeps DEF ScheduleOps, RemoveSchedule, Delete
<1>8. CASE RunNow(t)
  BY <1>0, <1>8, RunNowKeeps DEF RunNow
<1> QED
  BY <1>1, <1>2, <1>3, <1>4, <1>5, <1>6, <1>7, <1>8 DEF ScheduleStep

\* A request on schedules arrives.
LEMMA ScheduleArrives ==
    ASSUME TasksOK, EntriesOK, SchedulesOK, NEW t \in Tasks, Begins(t),
           UNCHANGED <<schedules, cron, entries, run>>, ScheduleTask(t)'
    PROVE  EntriesOK' /\ SchedulesOK'
<1>1. calls \in Nat
  BY DEF TasksOK
<1>2. calls' = calls + 1 /\ calls' \in Nat /\ calls <= calls'
  BY <1>1 DEF Begins
<1>3. task'[t].n = calls + 1 /\ \A u \in Tasks \ {t} : task'[u] = task[u]
  BY DEF Begins, Alone
<1>4. EntriesOK'
  BY <1>2, <1>3, EntriesQuiet
<1>5. schedules' \subseteq ScheduleRows /\ Numbered(schedules)' /\ RunsOK'
  BY <1>1, <1>2, RunsStay DEF SchedulesOK, Numbered
<1>6. \A u \in Tasks \ {t} : ScheduleTask(u)'
  BY <1>1, <1>2, <1>3, ScheduleTaskStays
<1> QED
  BY <1>4, <1>5, <1>6 DEF SchedulesOK

\* A row made of a body is a row of the table.
LEMMA NewScheduleRow ==
    ASSUME TasksOK, NEW id \in Ids, NEW server \in Ids, NEW b \in Bodies
    PROVE  /\ ScheduleRow(id, server, b) \in ScheduleRows
           /\ ScheduleRow(id, server, b).id = id
<1>1. Bodies \subseteq [enabled : BOOLEAN, valid : BOOLEAN, plan : Plans]
  BY DEF Bodies, Plans
<1> QED
  BY <1>1 DEF ScheduleRow, ScheduleRows

\* The requests about schedules arrive.
LEMMA ScheduleCalls ==
    ASSUME TasksOK, EntriesOK, SchedulesOK, NEW t \in Tasks, CallSchedule(t),
           UNCHANGED <<schedules, cron, entries, run>>
    PROVE  /\ EntriesOK' /\ SchedulesOK' /\ Begins(t)
           /\ task'[t].op \in ScheduleOps \cup {"runSchedule"}
<1>0. calls \in Nat /\ MaxCalls \in Nat
  BY PanelAssumption DEF TasksOK
<1>1. calls < MaxCalls
  BY DEF CallSchedule, CallAddSchedule, CallUpdateSchedule, CallRemoveSchedule,
         CallRunNow, Arrive
<1>2. /\ \A k \in 1..(calls + 1) : k \in Ids
      /\ \A k \in 1..calls : k \in 0..MaxCalls /\ k \in Ids
      /\ 0 \in 0..MaxCalls /\ calls + 1 \in 1..(calls + 1)
  BY <1>0, <1>1 DEF Ids
<1>3. ASSUME NEW s \in 1..(calls + 1), NEW b \in Bodies,
             Arrive(t, "schedule", Request("addSchedule", "insert", 0,
               {ScheduleRow(calls + 1, s, b)}))
      PROVE  Begins(t) /\ ScheduleTask(t)' /\ task'[t].op = "addSchedule"
  <2> DEFINE row == ScheduleRow(calls + 1, s, b)
  <2>1. row \in ScheduleRows /\ row.id = calls + 1
    BY <1>2, NewScheduleRow
  <2> HIDE DEF row
  <2>2. {row} \in Holdings
    BY <2>1, Copies, RowKinds
  <2>3. Arrive(t, "schedule", Request("addSchedule", "insert", 0, {row}))
    BY <1>3 DEF row
  <2>4. "addSchedule" \in Ops /\ "insert" \in Pcs
    BY OpNames
  <2>5. /\ Begins(t) /\ task'[t].op = "addSchedule" /\ task'[t].pc = "insert"
        /\ task'[t].n = calls + 1 /\ task'[t].key = 0 /\ task'[t].held = {row}
    BY <1>2, <2>2, <2>3, <2>4, RequestArrives
  <2>6. Held(t, WithId(ScheduleRows, task[t].n))'
    BY <2>1, <2>5 DEF Held, WithId
  <2>7. \A x \in schedules' : x.id # task'[t].n
    BY <1>0, <2>5 DEF SchedulesOK, Numbered
  <2> QED  BY <2>5, <2>6, <2>7 DEF ScheduleTask, ScheduleOps
<1>4. ASSUME NEW id \in 1..calls, NEW b \in Bodies,
             Arrive(t, "schedule", Request("updateSchedule", "get", id,
               {ScheduleRow(id, id, b)}))
      PROVE  Begins(t) /\ ScheduleTask(t)' /\ task'[t].op = "updateSchedule"
  <2> DEFINE row == ScheduleRow(id, id, b)
  <2>1. row \in ScheduleRows /\ row.id = id
    BY <1>2, NewScheduleRow
  <2> HIDE DEF row
  <2>2. {row} \in Holdings
    BY <2>1, Copies, RowKinds
  <2>3. Arrive(t, "schedule", Request("updateSchedule", "get", id, {row}))
    BY <1>4 DEF row
  <2>4. "updateSchedule" \in Ops /\ "get" \in Pcs
    BY OpNames
  <2>5. /\ Begins(t) /\ task'[t].op = "updateSchedule" /\ task'[t].pc = "get"
        /\ task'[t].key = id /\ task'[t].held = {row}
    BY <1>2, <2>2, <2>3, <2>4, RequestArrives
  <2>6. Held(t, WithId(ScheduleRows, task[t].key))'
    BY <2>1, <2>5 DEF Held, WithId
  <2>7. id \in 1..calls'
    BY <1>0, <2>5 DEF Begins
  <2> QED  BY <2>5, <2>6, <2>7 DEF ScheduleTask, ScheduleOps
<1>5. ASSUME NEW id \in 1..calls,
             Arrive(t, "schedule", Request("removeSchedule", "unregister", id, {}))
      PROVE  Begins(t) /\ ScheduleTask(t)' /\ task'[t].op = "removeSchedule"
  <2>1. "removeSchedule" \in Ops /\ "unregister" \in Pcs
    BY OpNames
  <2>2. /\ Begins(t) /\ task'[t].op = "removeSchedule" /\ task'[t].pc = "unregister"
        /\ task'[t].key = id /\ task'[t].held = {}
    BY <1>2, <1>5, <2>1, NothingHeld, RequestArrives
  <2>3. id \in 1..calls'
    BY <1>0, <2>2 DEF Begins
  <2> QED  BY <2>2, <2>3 DEF ScheduleTask, ScheduleOps
<1>6. ASSUME NEW id \in 1..calls,
             Arrive(t, "schedule", Request("runSchedule", "get", id, {}))
      PROVE  Begins(t) /\ ScheduleTask(t)' /\ task'[t].op = "runSchedule"
  <2>1. "runSchedule" \in Ops /\ "get" \in Pcs
    BY OpNames
  <2>2. Begins(t) /\ task'[t].op = "runSchedule" /\ task'[t].pc = "get"
    BY <1>2, <1>6, <2>1, NothingHeld, RequestArrives
  <2> QED  BY <2>2 DEF ScheduleTask, ScheduleOps
<1>7. /\ Begins(t) /\ ScheduleTask(t)'
      /\ task'[t].op \in ScheduleOps \cup {"runSchedule"}
  BY <1>3, <1>4, <1>5, <1>6
     DEF CallSchedule, CallAddSchedule, CallUpdateSchedule, CallRemoveSchedule,
         CallRunNow, ScheduleOps
<1> QED
  BY <1>7, ScheduleArrives

\* The other steps: requests that are not about schedules, firings, the calls a
\* run makes to the agent.
LEMMA SchedulesElse ==
    ASSUME TasksOK, EntriesOK, SchedulesOK, UNCHANGED <<schedules, cron, entries>>,
           RunsOK', calls' \in Nat, calls <= calls',
           \A u \in Tasks : task'[u] = task[u] \/ Elsewhere(u)
    PROVE  EntriesOK' /\ SchedulesOK'
<1>1. calls \in Nat
  BY DEF TasksOK
<1>2. EntriesOK'
  BY EntriesQuiet DEF Elsewhere
<1>3. schedules' \subseteq ScheduleRows /\ Numbered(schedules)'
  BY <1>1 DEF SchedulesOK, Numbered
<1>4. \A u \in Tasks : ScheduleTask(u)'
  BY <1>1, ScheduleTaskStays
<1> QED
  BY <1>2, <1>3, <1>4 DEF SchedulesOK

\* The cron library starts a goroutine for an entry that is due.
LEMMA FireKeeps ==
    ASSUME TasksOK, EntriesOK, SchedulesOK, Fire
    PROVE  EntriesOK' /\ SchedulesOK' /\ calls' = calls + 1
<1>1. calls \in Nat
  BY DEF TasksOK
<1>2. calls' = calls + 1 /\ calls' \in Nat /\ calls <= calls'
  BY <1>1 DEF Fire
<1>3. PICK e \in cron, g \in Runs : Executes(g, e.row)
  BY DEF Fire
<1>4. e.row \in ScheduleRows /\ e.row.id \in 1..calls
  BY DEF EntriesOK
<1>5. RunsOK'
  BY <1>1, <1>2, <1>3, <1>4, ExecutesACopy DEF SchedulesOK
<1>6. task' = task /\ UNCHANGED <<schedules, cron, entries>>
  BY DEF Fire, scheduleVars
<1> QED
  BY <1>2, <1>5, <1>6, SchedulesElse

\* A goroutine in execute holds one row.
LEMMA TheRun ==
    ASSUME SchedulesOK, NEW g \in Runs, run[g].rows # {}
    PROVE  /\ run[g].rows = {CHOOSE r \in run[g].rows : TRUE}
           /\ (CHOOSE r \in run[g].rows : TRUE) \in ScheduleRows
<1>1. PICK r \in ScheduleRows : run[g].rows = {r}
  BY DEF SchedulesOK, RunsOK
<1> QED
  BY <1>1

\* A goroutine that has ended holds none.
LEMMA FreeIsARun == FreeRun \in [rows : {{}} \cup {{r} : r \in ScheduleRows}, plan : Plans]
BY DEF FreeRun, Plans

\* A run with another plan, field by field.
LEMMA RunWithPlan ==
    ASSUME NEW S, NEW P, NEW rec \in [rows : S, plan : P], NEW plan
    PROVE  [rec EXCEPT !.plan = plan] = [rows |-> rec.rows, plan |-> plan]
OBVIOUS

\* execute calls the agent for the next step of the schedule.
LEMMA RunAsksAgentKeeps ==
    ASSUME TasksOK, EntriesOK, SchedulesOK, NEW g \in Runs, RunAsksAgent(g)
    PROVE  EntriesOK' /\ SchedulesOK'
<1> DEFINE old == run[g]
           new == [rows |-> old.rows, plan |-> Tail(old.plan)]
<1>1. /\ calls' = calls /\ task' = task /\ UNCHANGED <<schedules, cron, entries>>
      /\ old.plan # <<>>
  BY DEF RunAsksAgent, requestVars, scheduleVars
<1>2. calls \in Nat /\ calls' \in Nat /\ calls <= calls'
  BY <1>1, SameCalls
<1>3. /\ old \in [rows : {{}} \cup {{r} : r \in ScheduleRows}, plan : Plans]
      /\ \E r \in ScheduleRows : old.rows = {r} /\ r.id \in 1..calls
  BY <1>1 DEF SchedulesOK, RunsOK
<1>4. run' = [run EXCEPT ![g] = new]
  <2> DEFINE rest == Tail(old.plan)
  <2> HIDE DEF rest
  <2>1. [old EXCEPT !.plan = rest] = [rows |-> old.rows, plan |-> rest]
    BY <1>3, RunWithPlan
  <2>2. run' = [run EXCEPT ![g].plan = Tail(@)]
    BY DEF RunAsksAgent
  <2>3. run' = [run EXCEPT ![g] = [old EXCEPT !.plan = rest]]
    BY <2>2 DEF rest
  <2> QED  BY <2>1, <2>3 DEF rest
<1>5. Tail(old.plan) \in Plans
  BY <1>1, <1>3, PlanGoesOn
<1>6. /\ new \in [rows : {{}} \cup {{r} : r \in ScheduleRows}, plan : Plans]
      /\ new.rows = old.rows
  BY <1>3, <1>5
<1> HIDE DEF new
<1>7. run' \in [Runs -> [rows : {{}} \cup {{r} : r \in ScheduleRows}, plan : Plans]]
  BY <1>4, <1>6 DEF SchedulesOK, RunsOK
<1>8. ASSUME NEW h \in Runs
      PROVE  \/ run'[h].rows = {} /\ run'[h].plan = <<>>
             \/ \E r \in ScheduleRows : run'[h].rows = {r} /\ r.id \in 1..calls'
  <2>1. CASE h = g
    BY <1>1, <1>3, <1>4, <1>6, <2>1 DEF SchedulesOK, RunsOK
  <2>2. CASE h # g
    BY <1>1, <1>4, <2>2 DEF SchedulesOK, RunsOK
  <2> QED  BY <2>1, <2>2
<1>9. RunsOK'
  BY <1>7, <1>8 DEF RunsOK
<1> QED
  BY <1>1, <1>2, <1>9, SchedulesElse

\* execute writes the row it was given, if the schedule is still there.
LEMMA RunEndsKeeps ==
    ASSUME TasksOK, EntriesOK, SchedulesOK, NEW g \in Runs, NEW ok \in BOOLEAN,
           RunEnds(g, ok)
    PROVE  /\ EntriesOK' /\ SchedulesOK' /\ calls' = calls /\ task' = task
           /\ \A s \in schedules' : \E r \in schedules : r.id = s.id
<1> DEFINE row == CHOOSE r \in run[g].rows : TRUE
<1>1. /\ calls' = calls /\ task' = task /\ UNCHANGED <<cron, entries>>
      /\ run[g].rows # {} /\ run' = [run EXCEPT ![g] = FreeRun]
      /\ schedules' = schedules \/ schedules' = Update(schedules, row)
  BY DEF RunEnds
<1>2. row \in ScheduleRows
  BY <1>1, TheRun
<1> HIDE DEF row
<1>3. calls \in Nat /\ calls' \in Nat /\ calls <= calls'
  BY <1>1, SameCalls
<1>4. RunsOK'
  <2>1. run' \in [Runs -> [rows : {{}} \cup {{r} : r \in ScheduleRows}, plan : Plans]]
    BY <1>1, FreeIsARun DEF SchedulesOK, RunsOK
  <2>2. ASSUME NEW h \in Runs
        PROVE  \/ run'[h].rows = {} /\ run'[h].plan = <<>>
               \/ \E r \in ScheduleRows : run'[h].rows = {r} /\ r.id \in 1..calls'
    <3>1. CASE h = g
      BY <1>1, <3>1 DEF SchedulesOK, RunsOK, FreeRun
    <3>2. CASE h # g
      BY <1>1, <3>2 DEF SchedulesOK, RunsOK
    <3> QED  BY <3>1, <3>2
  <2> QED  BY <2>1, <2>2 DEF RunsOK
<1>5. /\ schedules' \subseteq ScheduleRows /\ Numbered(schedules)'
      /\ \A s \in schedules' : \E r \in schedules : r.id = s.id
  <2>1. CASE schedules' = schedules
    BY <1>1, <2>1 DEF SchedulesOK, Numbered
  <2>2. CASE schedules' = Update(schedules, row)
    BY <1>1, <1>2, <2>2, ScheduleUpdate DEF SchedulesOK
  <2> QED  BY <1>1, <2>1, <2>2
<1>6. \A u \in Tasks : ScheduleTask(u)'
  BY <1>1, <1>3, <1>5, ScheduleTaskStays
<1>7. EntriesOK'
  BY <1>1, <1>3, EntriesQuiet
<1> QED
  BY <1>1, <1>4, <1>5, <1>6, <1>7 DEF SchedulesOK

\* After a restart of opdd the cron table is empty and no request is under way.
LEMMA RebootKeeps ==
    ASSUME TasksOK, EntriesOK, SchedulesOK, Reboot
    PROVE  /\ EntriesOK' /\ SchedulesOK' /\ calls' = calls
           /\ \A t \in Tasks : task'[t] = Idle
<1>1. /\ calls' = calls /\ schedules' = schedules /\ cron' = {}
      /\ task' = [t \in Tasks |-> Idle]
      /\ entries' = [id \in Ids |-> 0] /\ run' = [g \in Runs |-> FreeRun]
  BY DEF Reboot, Restarted
<1>2. calls \in Nat /\ calls' \in Nat /\ calls <= calls'
  BY <1>1, SameCalls
<1>3. 0 \in 0..MaxCalls /\ 0 \in 0..calls'
  BY <1>2, PanelAssumption
<1>4. \A t \in Tasks : task'[t] = Idle
  BY <1>1
<1>5. RunsOK'
  BY <1>1, FreeIsARun DEF RunsOK, FreeRun
<1>6. \A t \in Tasks : ScheduleTask(t)' /\ EntryOfTask(t)'
  BY <1>4 DEF ScheduleTask, EntryOfTask, Idle, ScheduleOps
<1>7. EntriesOK'
  BY <1>1, <1>3, <1>6 DEF EntriesOK
<1>8. SchedulesOK'
  BY <1>1, <1>5, <1>6 DEF SchedulesOK, Numbered
<1> QED
  BY <1>1, <1>4, <1>7, <1>8

-----------------------------------------------------------------------------
(***************************************************************************)
(* Schedules: cron and the rows                                            *)
(***************************************************************************)
\* Nothing that concerns the schedule has changed.
Untouched(id) ==
  /\ Select(schedules', id) = Select(schedules, id)
  /\ Fires(id)' = Fires(id) /\ entries'[id] = entries[id]

\* Whether the entries of a schedule match its row depends on nothing else.
LEMMA MatchStays ==
    ASSUME NEW id \in Ids, Untouched(id)
    PROVE  Matched(id)' <=> Matched(id)
<1>1. Due(id)' = Due(id)
  BY DEF Untouched, Due, Select
<1> QED
  BY <1>1 DEF Matched, Untouched

\* Nor does how far its request has come.
LEMMA ProgressStays ==
    ASSUME NEW id \in Ids, Untouched(id), NEW u \in Tasks, task'[u] = task[u],
           Progress(u, id)
    PROVE  Progress(u, id)'
<1>1. Matched(id)' <=> Matched(id)
  BY MatchStays
<1> QED
  BY <1>1 DEF Progress, Untouched, At

\* Nor does that it has one request.
LEMMA OneCronStays ==
    ASSUME NEW id \in Ids, Untouched(id), OneCron(id),
           \A u \in Tasks : \/ task'[u] = task[u]
                            \/ ~Handles(u, id) /\ ~Handles(u, id)'
    PROVE  OneCron(id)'
<1>1. \A u \in Tasks : Handles(u, id)' <=> Handles(u, id)
  BY DEF Handles
<1>2. Matched(id)' <=> Matched(id)
  BY MatchStays
<1>3. ASSUME NEW u \in Tasks, Handles(u, id)
      PROVE  Progress(u, id)'
  <2>1. task'[u] = task[u] /\ Progress(u, id)
    BY <1>3 DEF OneCron
  <2> QED  BY <2>1, ProgressStays
<1> QED
  BY <1>1, <1>2, <1>3 DEF OneCron

\* The request that is alone with a schedule takes a step.
LEMMA OneCronMoves ==
    ASSUME NEW id \in Ids, NEW t \in Tasks,
           \A u \in Tasks \ {t} : ~Handles(u, id) /\ task'[u] = task[u],
           \/ ~Handles(t, id)' /\ Matched(id)'
           \/ Handles(t, id)' /\ Progress(t, id)'
    PROVE  OneCron(id)'
<1>1. \A u \in Tasks \ {t} : ~Handles(u, id)'
  BY DEF Handles
<1> QED
  BY <1>1 DEF OneCron

\* The request is about the same schedule after the step, unless it is over.
LEMMA HandlesNext ==
    ASSUME TasksOK, SchedulesOK, SchedulesOK', NEW t \in Tasks, Proceeds(t),
           task[t].op \in ScheduleOps, NEW k, k = Subject(t)
    PROVE  /\ \A id \in Ids \ {k} : ~Handles(t, id)'
           /\ Handles(t, k)' <=> task'[t] # Idle
<1>1. k \in Ids
  BY Subjects
<1>2. CASE task'[t] = Idle
  BY <1>2 DEF Handles, Idle, ScheduleOps
<1>3. CASE task'[t] # Idle
  <2>1. /\ task'[t].op = task[t].op /\ task'[t].n = task[t].n
        /\ task'[t].key = task[t].key
    BY <1>3 DEF Proceeds
  <2>2. ScheduleTask(t)'
    BY DEF SchedulesOK
  <2>3. CASE task[t].op = "addSchedule"
    <3>1. k = task[t].n /\ task'[t].key = 0
      BY <2>1, <2>2, <2>3 DEF Subject, ScheduleTask
    <3>2. \E r \in ScheduleRows : r.id = k /\ task'[t].held = {r}
      BY <2>1, <2>2, <2>3, <3>1 DEF ScheduleTask, Held, WithId
    <3> QED  BY <1>1, <1>3, <2>1, <2>3, <3>1, <3>2 DEF Handles, Ids
  <2>4. CASE task[t].op = "updateSchedule"
    <3>1. k = task[t].key
      BY <2>4 DEF Subject
    <3>2. \E r \in ScheduleRows : r.id = k /\ task'[t].held = {r}
      BY <2>1, <2>2, <2>4, <3>1 DEF ScheduleTask, Held, WithId
    <3> QED  BY <1>3, <2>1, <2>4, <3>1, <3>2 DEF Handles
  <2>5. CASE task[t].op = "removeSchedule"
    <3>1. k = task[t].key /\ task'[t].held = {}
      BY <2>1, <2>2, <2>5 DEF Subject, ScheduleTask
    <3> QED  BY <1>3, <2>1, <2>5, <3>1 DEF Handles
  <2> QED  BY <2>3, <2>4, <2>5 DEF ScheduleOps
<1> QED
  BY <1>2, <1>3

\* What is known of the only request of a schedule at each of its steps.
LEMMA InProgress ==
    ASSUME TasksOK, SchedulesOK, CronOK, NEW t \in Tasks, task[t].op \in ScheduleOps,
           NEW k, k = Subject(t), k \notin tangled
    PROVE  Progress(t, k)
<1>1. k \in Ids /\ Handles(t, k)
  BY Subjects
<1> QED
  BY <1>1 DEF CronOK, OneCron

\* One step of one request on schedules.
LEMMA CronMoves ==
    ASSUME TasksOK, SchedulesOK, SchedulesOK', CronOK, NEW t \in Tasks, Proceeds(t),
           task[t].op \in ScheduleOps, tangled' = tangled, NEW k, k = Subject(t),
           \A id \in Ids \ {k} : Untouched(id),
           k \notin tangled => IF task'[t] = Idle THEN Matched(k)' ELSE Progress(t, k)'
    PROVE  CronOK'
<1>1. k \in Ids /\ \A id \in Ids : Handles(t, id) <=> id = k
  BY Subjects
<1>2. /\ \A id \in Ids \ {k} : ~Handles(t, id)'
      /\ Handles(t, k)' <=> task'[t] # Idle
  BY HandlesNext
<1>3. \A u \in Tasks \ {t} : task'[u] = task[u]
  BY DEF Proceeds, Alone
<1>4. ASSUME NEW id \in Ids \ tangled
      PROVE  OneCron(id)'
  <2>1. OneCron(id)
    BY DEF CronOK
  <2>2. CASE id = k
    <3>1. \A u \in Tasks \ {t} : ~Handles(u, id)
      BY <1>1, <2>1, <2>2 DEF OneCron
    <3>2. \/ ~Handles(t, id)' /\ Matched(id)'
          \/ Handles(t, id)' /\ Progress(t, id)'
      BY <1>2, <2>2
    <3> QED  BY <1>3, <3>1, <3>2, OneCronMoves
  <2>3. CASE id # k
    <3>1. ~Handles(t, id) /\ ~Handles(t, id)' /\ Untouched(id)
      BY <1>1, <1>2, <2>3
    <3> QED  BY <1>3, <2>1, <3>1, OneCronStays
  <2> QED  BY <2>2, <2>3
<1> QED
  BY <1>4 DEF CronOK

\* A schedule with no row that is due has nothing in cron, and the other way.
LEMMA InsertScheduleMatches ==
    ASSUME TasksOK, EntriesOK, SchedulesOK, CronOK, NEW t \in Tasks, InsertSchedule(t),
           calls' = calls, tangled' = tangled
    PROVE  CronOK'
<1>0. PICK k : k = Subject(t)
  OBVIOUS
<1> DEFINE row == Row(t)
<1>1. /\ task[t].op = "addSchedule" /\ task[t].pc = "insert"
      /\ schedules' = schedules \cup {row} /\ UNCHANGED <<cron, entries>>
      /\ \/ row.enabled /\ Goes(t, "add")
         \/ ~ row.enabled /\ Answer(t)
  BY DEF InsertSchedule, At
<1>2. SchedulesOK' /\ Proceeds(t) /\ task[t].op \in ScheduleOps
  BY <1>1, InsertScheduleKeeps DEF ScheduleOps
<1>3. task[t].held = {row} /\ row.id = k /\ k = task[t].n /\ k \in Ids
  BY <1>0, <1>1, <1>2, Subjects DEF Subject
<1>4. \A s \in schedules : s.id # k
  BY <1>1, <1>3 DEF SchedulesOK, ScheduleTask
<1> HIDE DEF row
<1>5. \/ task'[t] = Idle /\ ~row.enabled
      \/ /\ task'[t].op = "addSchedule" /\ task'[t].pc = "add"
         /\ task'[t].held = {row} /\ row.enabled
  BY <1>1, <1>3, Answers, GoesOn, StepNames
<1>6. \A id \in Ids \ {k} : Untouched(id)
  BY <1>1, <1>3 DEF Untouched, Select, Fires
<1>7. ASSUME k \notin tangled
      PROVE  IF task'[t] = Idle THEN Matched(k)' ELSE Progress(t, k)'
  <2>1. Matched(k)
    BY <1>0, <1>1, <1>2, <1>7, InProgress DEF Progress
  <2>2. Fires(k) = {}
    BY <1>4, <2>1 DEF Matched, Due
  <2>3. Fires(k)' = {} /\ Select(schedules', k) = {row}
    BY <1>1, <1>3, <1>4, <2>2 DEF Fires, Select
  <2>4. CASE task'[t] = Idle
    <3>1. ~row.enabled
      BY <1>5, <2>4 DEF Idle
    <3>2. Due(k)' = {}
      BY <1>1, <1>3, <1>4, <3>1 DEF Due
    <3> QED  BY <2>3, <2>4, <3>2 DEF Matched
  <2>5. CASE task'[t] # Idle
    BY <1>5, <2>3, <2>5 DEF Progress, At
  <2> QED  BY <2>4, <2>5
<1> QED
  BY <1>0, <1>2, <1>6, <1>7, CronMoves

\* Reading a row leaves the entries matching.
LEMMA GetScheduleMatches ==
    ASSUME TasksOK, EntriesOK, SchedulesOK, CronOK, NEW t \in Tasks, GetSchedule(t),
           calls' = calls, tangled' = tangled
    PROVE  CronOK'
<1>0. PICK k : k = Subject(t)
  OBVIOUS
<1>1. /\ task[t].op = "updateSchedule" /\ task[t].pc = "get"
      /\ UNCHANGED <<schedules, cron, entries>>
  BY DEF GetSchedule, At
<1>2. /\ SchedulesOK' /\ Proceeds(t) /\ task[t].op \in ScheduleOps
      /\ \/ task'[t] = Idle
         \/ task'[t].pc = "write" /\ Select(schedules, task[t].key) # {}
  BY <1>1, GetScheduleKeeps DEF ScheduleOps
<1>3. k = task[t].key /\ k \in Ids
  BY <1>0, <1>1, <1>2, Subjects DEF Subject
<1>4. \A id \in Ids : Untouched(id)
  BY <1>1 DEF Untouched, Select, Fires
<1>5. ASSUME k \notin tangled
      PROVE  IF task'[t] = Idle THEN Matched(k)' ELSE Progress(t, k)'
  <2>1. Matched(k)
    BY <1>0, <1>1, <1>2, <1>5, InProgress DEF Progress
  <2>2. Matched(k)'
    BY <1>3, <1>4, <2>1, MatchStays
  <2>3. Select(schedules, k) = Select(schedules', k)
    BY <1>1
  <2> QED  BY <1>2, <1>3, <2>2, <2>3 DEF Progress, At
<1> QED
  BY <1>0, <1>2, <1>4, <1>5, CronMoves

\* The row written is the one whose entry the request is about to replace.
LEMMA WriteScheduleMatches ==
    ASSUME TasksOK, EntriesOK, SchedulesOK, CronOK, NEW t \in Tasks, WriteSchedule(t),
           calls' = calls, tangled' = tangled
    PROVE  CronOK'
<1>0. PICK k : k = Subject(t)
  OBVIOUS
<1> DEFINE row == Row(t)
<1>1. /\ task[t].op = "updateSchedule" /\ task[t].pc = "write"
      /\ schedules' = Update(schedules, row) /\ UNCHANGED <<cron, entries>>
  BY DEF WriteSchedule, At
<1>2. /\ SchedulesOK' /\ Proceeds(t) /\ task[t].op \in ScheduleOps
      /\ task'[t].op = "updateSchedule" /\ task'[t].pc = "unregister"
      /\ task'[t].held = task[t].held
  BY <1>1, WriteScheduleKeeps DEF ScheduleOps
<1>3. task[t].held = {row} /\ row.id = k /\ k \in Ids
  BY <1>0, <1>1, <1>2, Subjects
<1> HIDE DEF row
<1>4. \A id \in Ids \ {k} : Untouched(id)
  BY <1>1, <1>3 DEF Untouched, Select, Fires, Update
<1>5. task'[t] # Idle
  BY <1>2 DEF Idle
<1>6. ASSUME k \notin tangled
      PROVE  Progress(t, k)'
  <2>1. Matched(k) /\ Select(schedules, k) # {}
    BY <1>0, <1>1, <1>2, <1>6, InProgress DEF Progress, At
  <2>2. Select(schedules', k) = {row}
    BY <1>1, <1>3, <2>1 DEF Select, Update
  <2>3. \A e \in Fires(k) : e.eid = entries[k]
    BY <2>1 DEF Matched
  <2>4. Fires(k)' = Fires(k) /\ entries'[k] = entries[k]
    BY <1>1 DEF Fires
  <2> QED  BY <1>2, <1>3, <2>2, <2>3, <2>4 DEF Progress, At
<1> QED
  BY <1>0, <1>2, <1>4, <1>5, <1>6, CronMoves

\* Without its entry a disabled schedule matches; an enabled one has its request
\* still to add one.
LEMMA UnregisterMatches ==
    ASSUME TasksOK, EntriesOK, SchedulesOK, CronOK, NEW t \in Tasks, Unregister(t),
           calls' = calls, tangled' = tangled
    PROVE  CronOK'
<1>0. PICK k : k = Subject(t)
  OBVIOUS
<1> DEFINE row == Row(t)
<1>1. /\ SchedulesOK' /\ Proceeds(t) /\ task[t].op \in ScheduleOps /\ task[t].key = k
      /\ \/ task'[t].op = "removeSchedule" /\ task'[t].pc = "delete"
         \/ /\ task[t].op = "updateSchedule" /\ row.enabled /\ task'[t].op = task[t].op
            /\ task'[t].pc = "add" /\ task'[t].held = task[t].held
         \/ task[t].op = "updateSchedule" /\ ~row.enabled /\ task'[t] = Idle
  BY <1>0, UnregisterKeeps
<1>2. /\ task[t].pc = "unregister" /\ schedules' = schedules
      /\ cron' = {e \in cron : e.eid # entries[k]}
      /\ entries' = [entries EXCEPT ![k] = 0]
      /\ task[t].op = "updateSchedule" \/ task[t].op = "removeSchedule"
  BY <1>1, OnlySchedules DEF Unregister
<1>3. /\ k \in Ids
      /\ task[t].op = "updateSchedule" => task[t].held = {row} /\ row.id = k
  BY <1>0, <1>1, Subjects
<1> HIDE DEF row
<1>4. ASSUME NEW id \in Ids \ {k}
      PROVE  Untouched(id)
  <2>1. \A e \in cron : e.row.id = id => e.eid # entries[k]
    BY <1>3 DEF EntriesOK
  <2>2. Fires(id)' = Fires(id)
    BY <1>2, <2>1 DEF Fires
  <2>3. entries'[id] = entries[id]
    BY <1>2 DEF EntriesOK
  <2> QED  BY <1>2, <2>2, <2>3 DEF Untouched
<1>5. ASSUME k \notin tangled
      PROVE  IF task'[t] = Idle THEN Matched(k)' ELSE Progress(t, k)'
  <2>1. Progress(t, k)
    BY <1>0, <1>1, <1>5, InProgress
  <2>2. \A e \in Fires(k) : e.eid = entries[k]
    <3>1. CASE task[t].op = "removeSchedule"
      <4>1. Matched(k)
        BY <1>2, <2>1, <3>1 DEF Progress, At
      <4> QED  BY <4>1 DEF Matched
    <3>2. CASE task[t].op = "updateSchedule"
      BY <1>2, <2>1, <3>2 DEF Progress, At
    <3> QED  BY <1>2, <3>1, <3>2
  <2>3. Fires(k)' = {}
    BY <1>2, <2>2 DEF Fires
  <2>4. CASE task'[t].op = "removeSchedule" /\ task'[t].pc = "delete"
    BY <2>3, <2>4 DEF Progress, At, Idle
  <2>5. CASE task[t].op = "updateSchedule"
    <3>1. Select(schedules', k) = {row}
      BY <1>2, <1>3, <2>1, <2>5 DEF Progress, At
    <3>2. CASE /\ row.enabled /\ task'[t].op = task[t].op
               /\ task'[t].pc = "add" /\ task'[t].held = task[t].held
      BY <1>3, <2>3, <2>5, <3>1, <3>2 DEF Progress, At, Idle
    <3>3. CASE ~row.enabled /\ task'[t] = Idle
      <4>1. Due(k)' = {}
        BY <3>1, <3>3 DEF Due, Select
      <4> QED  BY <2>3, <3>3, <4>1 DEF Matched
    <3>4. CASE task'[t].op = "removeSchedule" /\ task'[t].pc = "delete"
      BY <2>3, <3>4 DEF Progress, At, Idle
    <3> QED  BY <1>1, <3>2, <3>3, <3>4
  <2> QED  BY <1>1, <2>4, <2>5
<1> QED
  BY <1>0, <1>1, <1>4, <1>5, CronMoves DEF Unregister

\* The entry added holds the row just written.
LEMMA AddFuncMatches ==
    ASSUME TasksOK, EntriesOK, SchedulesOK, CronOK, NEW t \in Tasks, AddFunc(t),
           calls' = calls, tangled' = tangled
    PROVE  CronOK'
<1>0. PICK k : k = Subject(t)
  OBVIOUS
<1> DEFINE row == Row(t)
           entry == [eid |-> task[t].n, row |-> row]
<1>1. /\ SchedulesOK' /\ Proceeds(t) /\ task[t].op \in ScheduleOps
      /\ task[t].op # "removeSchedule"
      /\ \/ task'[t] = Idle /\ ~row.valid /\ cron' = cron
         \/ /\ row.valid /\ task'[t].op = task[t].op /\ task'[t].pc = "assign"
            /\ task'[t].n = task[t].n /\ task'[t].held = task[t].held
            /\ cron' = cron \cup {entry}
  BY AddFuncKeeps
<1>2. task[t].pc = "add" /\ UNCHANGED <<schedules, entries>>
  BY DEF AddFunc
<1>3. task[t].held = {row} /\ row.id = k /\ k \in Ids
  BY <1>0, <1>1, Subjects
<1>4. entry.row = row
  OBVIOUS
<1>5. PICK n : n = task[t].n
  OBVIOUS
<1>6. entry = [eid |-> n, row |-> row]
  BY <1>5
<1> HIDE DEF row, entry
<1>7. \A id \in Ids \ {k} : Untouched(id)
  <2>1. \A id \in Ids \ {k} : Fires(id)' = Fires(id)
    BY <1>1, <1>3, <1>4 DEF Fires
  <2> QED  BY <1>2, <2>1 DEF Untouched
<1>8. ASSUME k \notin tangled
      PROVE  IF task'[t] = Idle THEN Matched(k)' ELSE Progress(t, k)'
  <2>1. Fires(k) = {} /\ Select(schedules, k) = {row} /\ row.enabled
    BY <1>0, <1>1, <1>2, <1>3, <1>8, InProgress DEF Progress
  <2>2. CASE task'[t] = Idle /\ ~row.valid /\ cron' = cron
    <3>1. Due(k)' = {}
      BY <1>2, <2>1, <2>2 DEF Due, Select
    <3>2. Fires(k)' = {}
      BY <2>1, <2>2 DEF Fires
    <3> QED  BY <2>2, <3>1, <3>2 DEF Matched
  <2>3. CASE /\ row.valid /\ task'[t].op = task[t].op /\ task'[t].pc = "assign"
             /\ task'[t].n = task[t].n /\ task'[t].held = task[t].held
             /\ cron' = cron \cup {entry}
    <3>1. Fires(k)' = {entry}
      BY <1>3, <1>4, <2>1, <2>3 DEF Fires
    <3>2. task'[t].n = n /\ task'[t].held = {row} /\ Select(schedules', k) = {row}
      BY <1>2, <1>3, <1>5, <2>1, <2>3
    <3>3. Fires(k)' = {[eid |-> task'[t].n, row |-> r] : r \in task'[t].held}
      BY <1>6, <3>1, <3>2
    <3> QED  BY <2>1, <2>3, <3>2, <3>3 DEF Progress, At, Idle
  <2> QED  BY <1>1, <2>2, <2>3
<1> QED
  BY <1>0, <1>1, <1>7, <1>8, CronMoves

\* Entry and row match when the id is stored.
LEMMA AssignEntryMatches ==
    ASSUME TasksOK, EntriesOK, SchedulesOK, CronOK, NEW t \in Tasks, AssignEntry(t),
           calls' = calls, tangled' = tangled
    PROVE  CronOK'
<1>0. PICK k : k = Subject(t)
  OBVIOUS
<1> DEFINE row == Row(t)
<1>1. /\ SchedulesOK' /\ Proceeds(t) /\ task[t].op \in ScheduleOps
      /\ task[t].op # "removeSchedule" /\ task'[t] = Idle
      /\ entries' = [entries EXCEPT ![k] = task[t].n]
  BY <1>0, AssignEntryKeeps
<1>2. task[t].pc = "assign" /\ UNCHANGED <<schedules, cron>>
  BY DEF AssignEntry
<1>3. task[t].held = {row} /\ row.id = k /\ k \in Ids
  BY <1>0, <1>1, Subjects
<1> HIDE DEF row
<1>4. /\ entries'[k] = task[t].n
      /\ \A id \in Ids \ {k} : entries'[id] = entries[id]
  BY <1>1, <1>3 DEF EntriesOK
<1>5. \A id \in Ids \ {k} : Untouched(id)
  BY <1>2, <1>4 DEF Untouched, Select, Fires
<1>6. ASSUME k \notin tangled
      PROVE  Matched(k)'
  <2>1. /\ Select(schedules, k) = {row} /\ row.enabled /\ row.valid
        /\ Fires(k) = {[eid |-> task[t].n, row |-> r] : r \in {row}}
    BY <1>0, <1>1, <1>2, <1>3, <1>6, InProgress DEF Progress
  <2>2. Due(k)' = {row}
    BY <1>2, <2>1 DEF Due, Select
  <2>3. Fires(k)' = {[eid |-> task[t].n, row |-> r] : r \in {row}}
    BY <1>2, <2>1 DEF Fires
  <2> QED  BY <1>4, <2>2, <2>3 DEF Matched
<1> QED
  BY <1>0, <1>1, <1>5, <1>6, CronMoves

\* A schedule is deleted when its entry is gone.
LEMMA RemoveScheduleMatches ==
    ASSUME TasksOK, EntriesOK, SchedulesOK, CronOK, NEW t \in Tasks, RemoveSchedule(t),
           calls' = calls, tangled' = tangled
    PROVE  CronOK'
<1>0. PICK k : k = Subject(t)
  OBVIOUS
<1>1. /\ task[t].op = "removeSchedule" /\ task[t].pc = "delete"
      /\ schedules' = Delete(schedules, task[t].key) /\ UNCHANGED <<cron, entries>>
  BY DEF RemoveSchedule, At
<1>2. /\ SchedulesOK' /\ Proceeds(t) /\ task[t].op \in ScheduleOps /\ task'[t] = Idle
  BY <1>1, RemoveScheduleKeeps DEF ScheduleOps
<1>3. k = task[t].key /\ k \in Ids
  BY <1>0, <1>1, <1>2, Subjects DEF Subject
<1>4. \A id \in Ids \ {k} : Untouched(id)
  BY <1>1, <1>3 DEF Untouched, Select, Fires, Delete
<1>5. ASSUME k \notin tangled
      PROVE  Matched(k)'
  <2>1. Fires(k) = {}
    BY <1>0, <1>1, <1>2, <1>5, InProgress DEF Progress
  <2>2. Fires(k)' = {} /\ Due(k)' = {}
    BY <1>1, <1>3, <2>1 DEF Fires, Due, Delete
  <2> QED  BY <2>2 DEF Matched
<1> QED
  BY <1>0, <1>2, <1>4, <1>5, CronMoves

\* All statements about schedules keep rows and entries matching.
LEMMA ScheduleStepMatches ==
    ASSUME TasksOK, EntriesOK, SchedulesOK, CronOK, NEW t \in Tasks, ScheduleStep(t)
    PROVE  CronOK'
<1>1. calls' = calls /\ tangled' = tangled
  BY DEF ScheduleStep
<1>2. CASE RunNow(t)
  <2>1. /\ Proceeds(t) /\ task[t].op = "runSchedule" /\ task'[t] = Idle
        /\ UNCHANGED <<schedules, cron, entries>>
    BY <1>1, <1>2, RunNowKeeps DEF RunNow
  <2>2. \A u \in Tasks : task'[u] = task[u] \/ (u = t /\ task'[u] = Idle)
    BY <2>1 DEF Proceeds, Alone
  <2>3. \A id \in Ids : ~Handles(t, id) /\ (task'[t] = Idle => ~Handles(t, id)')
    BY <2>1 DEF Handles, ScheduleOps, Idle
  <2>4. ASSUME NEW id \in Ids \ tangled
        PROVE  OneCron(id)'
    <3>1. Untouched(id) /\ OneCron(id)
      BY <2>1 DEF Untouched, Fires, CronOK
    <3>2. \A u \in Tasks : \/ task'[u] = task[u]
                           \/ ~Handles(u, id) /\ ~Handles(u, id)'
      BY <2>2, <2>3
    <3> QED  BY <3>1, <3>2, OneCronStays
  <2> QED  BY <1>1, <2>4 DEF CronOK
<1> QED
  BY <1>1, <1>2, InsertScheduleMatches, GetScheduleMatches, WriteScheduleMatches,
     UnregisterMatches, AddFuncMatches, AssignEntryMatches, RemoveScheduleMatches
     DEF ScheduleStep

\* The other steps: what cron and the table have stays, more schedules may be
\* tangled, and no request on a schedule that is not moves.
LEMMA CronElse ==
    ASSUME CronOK, UNCHANGED <<schedules, cron, entries>>,
           tangled \subseteq tangled', tangled' \subseteq Ids,
           \A id \in Ids \ tangled', u \in Tasks :
             \/ task'[u] = task[u]
             \/ ~Handles(u, id) /\ ~Handles(u, id)'
    PROVE  CronOK'
<1>1. ASSUME NEW id \in Ids \ tangled'
      PROVE  OneCron(id)'
  <2>1. Untouched(id) /\ OneCron(id)
    BY DEF Untouched, Fires, CronOK
  <2> QED  BY <2>1, OneCronStays
<1> QED
  BY <1>1 DEF CronOK

\* A request on a schedule arrives: the schedule is tangled when another is at it.
LEMMA ScheduleCallMatches ==
    ASSUME TasksOK, EntriesOK, SchedulesOK, CronOK, NEW t \in Tasks, CallSchedule(t),
           UNCHANGED <<schedules, cron, entries, run>>
    PROVE  CronOK'
<1>0. calls \in Nat /\ MaxCalls \in Nat
  BY PanelAssumption DEF TasksOK
<1>1. /\ Begins(t) /\ SchedulesOK' /\ task[t] = Idle
      /\ task'[t].op \in ScheduleOps \cup {"runSchedule"}
      /\ \A u \in Tasks \ {t} : task'[u] = task[u]
  BY ScheduleCalls DEF Begins, Alone
<1>2. \A id \in Ids : ~Handles(t, id) /\ Untouched(id)
  BY <1>1 DEF Handles, Idle, ScheduleOps, Untouched, Fires
<1>3. calls < MaxCalls
  BY DEF CallSchedule, CallAddSchedule, CallUpdateSchedule, CallRemoveSchedule,
         CallRunNow, Arrive
<1>4. PICK k \in Ids :
        /\ \A id \in Ids \ {k} : ~Handles(t, id)'
        /\ \/ ~Handles(t, k)' /\ tangled' = tangled
           \/ task'[t].pc = "insert" /\ k = calls + 1 /\ tangled' = tangled
           \/ /\ \/ task'[t].pc = "get"
                 \/ task'[t].op = "removeSchedule" /\ task'[t].pc = "unregister"
              /\ k \in 1..calls /\ Tangle(k)
  <2>1. ScheduleTask(t)'
    BY <1>1 DEF SchedulesOK
  <2>2. CASE CallAddSchedule(t)
    <3>1. /\ task'[t].op = "addSchedule" /\ task'[t].pc = "insert"
          /\ task'[t].n = calls + 1 /\ tangled' = tangled
      BY <1>1, <2>2 DEF CallAddSchedule, Arrive, Request, Begins, Alone, TasksOK
    <3>2. /\ task'[t].key = 0
          /\ \E r \in ScheduleRows : r.id = calls + 1 /\ task'[t].held = {r}
      BY <2>1, <3>1 DEF ScheduleTask, Held, WithId
    <3>3. calls + 1 \in Ids
      BY <1>0, <1>3 DEF Ids
    <3>4. \A id \in Ids \ {calls + 1} : ~Handles(t, id)'
      BY <3>1, <3>2 DEF Handles, Ids
    <3> QED  BY <3>1, <3>3, <3>4
  <2>3. CASE CallUpdateSchedule(t)
    <3>1. PICK k \in 1..calls, b \in Bodies :
            /\ Arrive(t, "schedule", Request("updateSchedule", "get", k,
                 {ScheduleRow(k, k, b)}))
            /\ Tangle(k)
      BY <2>3 DEF CallUpdateSchedule
    <3>2. /\ task'[t].op = "updateSchedule" /\ task'[t].pc = "get"
          /\ task'[t].key = k
      BY <1>1, <3>1 DEF Arrive, Request, Begins, Alone, TasksOK
    <3>3. \E r \in ScheduleRows : r.id = k /\ task'[t].held = {r}
      BY <2>1, <3>2 DEF ScheduleTask, Held, WithId
    <3>4. k \in Ids
      BY <1>0, <1>3 DEF Ids
    <3>5. \A id \in Ids \ {k} : ~Handles(t, id)'
      BY <3>2, <3>3 DEF Handles
    <3> QED  BY <3>1, <3>2, <3>4, <3>5
  <2>4. CASE CallRemoveSchedule(t)
    <3>1. PICK k \in 1..calls :
            /\ Arrive(t, "schedule", Request("removeSchedule", "unregister", k, {}))
            /\ Tangle(k)
      BY <2>4 DEF CallRemoveSchedule
    <3>2. /\ task'[t].op = "removeSchedule" /\ task'[t].pc = "unregister"
          /\ task'[t].key = k
      BY <1>1, <3>1 DEF Arrive, Request, Begins, Alone, TasksOK
    <3>3. task'[t].held = {}
      BY <2>1, <3>2 DEF ScheduleTask
    <3>4. k \in Ids
      BY <1>0, <1>3 DEF Ids
    <3>5. \A id \in Ids \ {k} : ~Handles(t, id)'
      BY <3>2, <3>3 DEF Handles
    <3> QED  BY <3>1, <3>2, <3>4, <3>5
  <2>5. CASE CallRunNow(t)
    <3>1. task'[t].op = "runSchedule" /\ tangled' = tangled
      BY <1>1, <2>5 DEF CallRunNow, Arrive, Request, Begins, Alone, TasksOK
    <3>2. \A id \in Ids : ~Handles(t, id)'
      BY <3>1 DEF Handles, ScheduleOps
    <3>3. 1 \in Ids
      BY PanelAssumption DEF Ids
    <3> QED  BY <3>1, <3>2, <3>3
  <2> QED  BY <2>2, <2>3, <2>4, <2>5 DEF CallSchedule
<1>5. tangled' \subseteq Ids /\ tangled \subseteq tangled'
  BY <1>4 DEF CronOK, Tangle
<1>6. ASSUME NEW id \in Ids \ tangled'
      PROVE  OneCron(id)'
  <2>1. OneCron(id)
    BY <1>5 DEF CronOK
  <2>2. CASE ~Handles(t, id)'
    BY <1>1, <1>2, <2>1, <2>2, OneCronStays
  <2>3. CASE Handles(t, id)'
    <3>1. id = k
      BY <1>4, <2>3
    <3>2. \A u \in Tasks : ~Handles(u, id)
      <4>1. CASE k = calls + 1
        <5> SUFFICES ASSUME NEW u \in Tasks, Handles(u, id)
                     PROVE  FALSE
          OBVIOUS
        <5>1. task[u].op \in ScheduleOps
          BY DEF Handles
        <5>2. id \in 1..calls
          BY <5>1, Subjects
        <5> QED  BY <1>0, <3>1, <4>1, <5>2
      <4>2. CASE Tangle(k)
        BY <3>1, <4>2 DEF Tangle
      <4> QED  BY <1>4, <2>3, <3>1, <4>1, <4>2
    <3>3. Matched(id)
      BY <2>1, <3>2 DEF OneCron
    <3>4. Matched(id)'
      BY <1>2, <3>3, MatchStays
    <3>5. Progress(t, id)'
      BY <1>4, <2>3, <3>1, <3>4 DEF Progress, At
    <3> QED  BY <1>1, <2>3, <3>2, <3>5, OneCronMoves
  <2> QED  BY <2>2, <2>3
<1> QED
  BY <1>5, <1>6 DEF CronOK

\* A run that ends writes its copy back, over a row that may have changed.
LEMMA RunEndsMatches ==
    ASSUME TasksOK, EntriesOK, SchedulesOK, CronOK, NEW g \in Runs, NEW ok \in BOOLEAN,
           RunEnds(g, ok)
    PROVE  CronOK'
<1> DEFINE row == CHOOSE r \in run[g].rows : TRUE
<1>1. /\ task' = task /\ UNCHANGED <<cron, entries>> /\ run[g].rows # {}
      /\ \/ UNCHANGED <<schedules, tangled>>
         \/ /\ schedules' = Update(schedules, row)
            /\ tangled' = IF row \in schedules THEN tangled ELSE tangled \cup {row.id}
  BY DEF RunEnds
<1>2. row \in ScheduleRows /\ row.id \in Ids
  BY <1>1, TheRun DEF ScheduleRows
<1> HIDE DEF row
<1>3. tangled \subseteq tangled' /\ tangled' \subseteq Ids
  BY <1>1, <1>2 DEF CronOK
<1>4. ASSUME NEW id \in Ids \ tangled'
      PROVE  Select(schedules', id) = Select(schedules, id)
  <2>1. CASE schedules' = schedules
    BY <2>1
  <2>2. CASE schedules' = Update(schedules, row) /\ id # row.id
    BY <2>2 DEF Select, Update
  <2>3. CASE schedules' = Update(schedules, row) /\ row \in schedules
    <3>1. \A r \in schedules : r.id = row.id => r = row
      BY <2>3 DEF SchedulesOK, Numbered
    <3>2. schedules' = schedules
      BY <2>3, <3>1 DEF Update
    <3> QED  BY <3>2
  <2> QED  BY <1>1, <2>1, <2>2, <2>3
<1>5. ASSUME NEW id \in Ids \ tangled'
      PROVE  OneCron(id)'
  <2>1. OneCron(id)
    BY <1>3 DEF CronOK
  <2>2. Untouched(id)
    BY <1>1, <1>4 DEF Untouched, Fires
  <2> QED  BY <1>1, <2>1, <2>2, OneCronStays
<1> QED
  BY <1>3, <1>5 DEF CronOK

\* After a restart no stored schedule is registered.
LEMMA RebootMatches ==
    ASSUME SchedulesOK, CronOK, Reboot
    PROVE  CronOK'
<1>1. /\ cron' = {} /\ schedules' = schedules /\ \A t \in Tasks : task'[t] = Idle
      /\ tangled' = tangled \cup {s.id : s \in schedules}
  BY DEF Reboot, Restarted
<1>2. tangled' \subseteq Ids
  BY <1>1 DEF CronOK, SchedulesOK, ScheduleRows
<1>3. ASSUME NEW id \in Ids \ tangled'
      PROVE  OneCron(id)'
  <2>1. Due(id)' = {} /\ Fires(id)' = {}
    BY <1>1 DEF Due, Fires
  <2>2. Matched(id)'
    BY <2>1 DEF Matched
  <2>3. \A t \in Tasks : ~Handles(t, id)'
    BY <1>1 DEF Handles, Idle, ScheduleOps
  <2> QED  BY <2>2, <2>3 DEF OneCron
<1> QED
  BY <1>2, <1>3 DEF CronOK

\* An error that ends a request leaves cron and the table as they match, unless
\* it is that of the DELETE of a schedule that was unregistered.
LEMMA ErrorMatches ==
    ASSUME TasksOK, SchedulesOK, CronOK, NEW t \in Tasks, StatementError(t), Answer(t)
    PROVE  CronOK'
<1>1. /\ UNCHANGED <<schedules, cron, entries>> /\ task[t].pc \in Statements
      /\ Answer(t)
      /\ tangled' = IF At(t, "removeSchedule", "delete")
                      THEN tangled \cup {task[t].key} ELSE tangled
  BY DEF StatementError, StatementFails
<1>2. Proceeds(t) /\ task'[t] = Idle /\ \A u \in Tasks \ {t} : task'[u] = task[u]
  BY <1>1, Answers DEF Proceeds, Alone
<1>3. \A id \in Ids : Untouched(id) /\ ~Handles(t, id)'
  BY <1>1, <1>2 DEF Untouched, Fires, Handles, Idle, ScheduleOps
<1>4. At(t, "removeSchedule", "delete") =>
        task[t].key = Subject(t) /\ task[t].op \in ScheduleOps
  BY DEF At, Subject, ScheduleOps
<1>5. tangled \subseteq tangled' /\ tangled' \subseteq Ids
  BY <1>1, <1>4, Subjects DEF CronOK
<1>6. ASSUME NEW id \in Ids \ tangled'
      PROVE  OneCron(id)'
  <2>1. OneCron(id)
    BY <1>5 DEF CronOK
  <2>2. CASE ~Handles(t, id)
    BY <1>2, <1>3, <2>1, <2>2, OneCronStays
  <2>3. CASE Handles(t, id)
    <3>1. task[t].op \in ScheduleOps /\ ScheduleTask(t) /\ id = Subject(t)
      <4>1. task[t].op \in ScheduleOps
        BY <2>3 DEF Handles
      <4> QED  BY <2>3, <4>1, Subjects DEF SchedulesOK
    <3>2. task[t].pc \in {"insert", "get", "write"}
      <4>1. task[t].op = "removeSchedule" => task[t].pc # "delete"
        BY <1>1, <1>4, <3>1 DEF At
      <4> QED  BY <1>1, <3>1, <4>1 DEF ScheduleTask, ScheduleOps, Statements
    <3>3. Matched(id)
      BY <2>1, <2>3, <3>2 DEF OneCron, Progress
    <3>4. Matched(id)'
      BY <1>3, <3>3, MatchStays
    <3>5. \A u \in Tasks \ {t} : ~Handles(u, id)
      BY <2>1, <2>3 DEF OneCron
    <3> QED  BY <1>2, <1>3, <3>4, <3>5, OneCronMoves
  <2> QED  BY <2>2, <2>3
<1> QED
  BY <1>5, <1>6 DEF CronOK

-----------------------------------------------------------------------------
(***************************************************************************)
(* All together                                                            *)
(***************************************************************************)
ResourceOps == AllocationOps \cup SubuserOps \cup DatabaseOps

\* What the steps of one component leave to the others.
LEMMA ServersRest ==
    ASSUME TasksOK, ServersOK, StatusOK, UNCHANGED serverVars,
           calls' \in Nat, calls <= calls',
           \A u \in Tasks : \/ task'[u] = task[u]
                            \/ task[u].op # "power" /\ task'[u].op \notin ServerOps
    PROVE  ServersOK' /\ StatusOK'
<1>1. servers' = servers /\ accepted' = accepted /\ drift' = drift
  BY DEF serverVars
<1>2. \A u \in Tasks : task'[u] = task[u] \/ task'[u].op \notin {"create", "power"}
  BY DEF ServerOps
<1>3. drift \subseteq drift' /\ drift' \subseteq Ids
      /\ accepted' \in [Ids -> Power \cup {"none"}]
  BY <1>1 DEF StatusOK
<1>4. \A id \in Ids \ drift' :
        /\ accepted'[id] = accepted[id]
        /\ \A u \in Tasks : Ahead(u, id) => Ahead(u, id)'
  BY <1>1 DEF Ahead, Powers
<1> QED
  BY <1>1, <1>2, <1>3, <1>4, ServersElse

\* A step of something else keeps all there is to say of schedules,
LEMMA SchedulesRest ==
    ASSUME TasksOK, EntriesOK, SchedulesOK, CronOK, UNCHANGED <<scheduleVars, run>>,
           calls' \in Nat, calls <= calls',
           \A u \in Tasks : \/ task'[u] = task[u]
                            \/ task[u].op \notin ScheduleOps /\ Elsewhere(u)
    PROVE  EntriesOK' /\ SchedulesOK' /\ CronOK'
<1>1. UNCHANGED <<schedules, cron, entries, run>> /\ tangled' = tangled
  BY DEF scheduleVars
<1>2. calls \in Nat
  BY DEF TasksOK
<1>3. EntriesOK' /\ SchedulesOK'
  <2>1. RunsOK'
    BY <1>1, <1>2, RunsStay DEF SchedulesOK
  <2> QED  BY <1>1, <2>1, SchedulesElse
<1>4. CronOK'
  <2>1. \A id \in Ids \ tangled', u \in Tasks :
          \/ task'[u] = task[u]
          \/ ~Handles(u, id) /\ ~Handles(u, id)'
    BY DEF Handles, Elsewhere
  <2>2. tangled \subseteq tangled' /\ tangled' \subseteq Ids
    BY <1>1 DEF CronOK
  <2> QED  BY <1>1, <2>1, <2>2, CronElse
<1> QED
  BY <1>3, <1>4

\* of allocations,
LEMMA AllocationsRest ==
    ASSUME TasksOK, AllocationsOK, allocations' = allocations,
           calls' \in Nat, calls <= calls',
           \A u \in Tasks : task'[u] = task[u] \/ task'[u].op \notin AllocationOps
    PROVE  AllocationsOK'
<1>1. \A u \in Tasks : task'[u] = task[u] \/ task'[u].op # "assign"
  BY DEF AllocationOps
<1> QED
  BY <1>1, AllocationsKeep

\* of subusers,
LEMMA SubusersRest ==
    ASSUME TasksOK, SubusersOK, subusers' = subusers,
           calls' \in Nat, calls <= calls',
           \A u \in Tasks : task'[u] = task[u] \/ task'[u].op \notin SubuserOps
    PROVE  SubusersOK'
<1>1. \A u \in Tasks : SubuserTaskStep(u)
  BY DEF SubuserOps, SubuserTaskStep
<1> QED
  BY <1>1, SubusersQuiet

\* of databases,
LEMMA DatabasesRest ==
    ASSUME TasksOK, DatabasesOK, UNCHANGED mysqlVars,
           calls' \in Nat, calls <= calls',
           \A u \in Tasks : task'[u] = task[u] \/ task'[u].op \notin DatabaseOps
    PROVE  DatabasesOK'
<1>1. \A u \in Tasks : task'[u] = task[u] \/ task'[u].op \notin {"mkdb", "rmdb"}
  BY DEF DatabaseOps
<1>2. records' = records /\ UNCHANGED <<mysqlDBs, mysqlUsers, grants, tried, dropped>>
  BY DEF mysqlVars
<1> QED
  BY <1>1, <1>2, DatabasesQuiet

\* and of the three together.
LEMMA ResourcesRest ==
    ASSUME TasksOK, AllocationsOK, SubusersOK, DatabasesOK, UNCHANGED resourceVars,
           calls' \in Nat, calls <= calls',
           \A u \in Tasks : task'[u] = task[u] \/ task'[u].op \notin ResourceOps
    PROVE  AllocationsOK' /\ SubusersOK' /\ DatabasesOK'
<1>1. allocations' = allocations /\ subusers' = subusers /\ UNCHANGED mysqlVars
  BY DEF resourceVars, mysqlVars
<1> QED
  BY <1>1, AllocationsRest, SubusersRest, DatabasesRest DEF ResourceOps

\* No component has a kind of request that another one has.
LEMMA OpsApart ==
    /\ ServerOps \cap (ScheduleOps \cup {"runSchedule"} \cup ResourceOps) = {}
    /\ (ScheduleOps \cup {"runSchedule"}) \cap ResourceOps = {}
    /\ AllocationOps \cap SubuserOps = {} /\ AllocationOps \cap DatabaseOps = {}
    /\ SubuserOps \cap DatabaseOps = {}
    /\ "idle" \notin ServerOps \cup ScheduleOps \cup ResourceOps
    /\ "power" \in ServerOps
BY DEF ServerOps, ScheduleOps, ResourceOps, AllocationOps, SubuserOps, DatabaseOps

\* The table of requests, from one step to the next.
LEMMA TasksProceed ==
    ASSUME TasksOK, NEW t \in Tasks, Proceeds(t), calls' = calls,
           UNCHANGED <<clients, schema>>, faults' \in 0..MaxFaults
    PROVE  TasksOK'
<1>1. /\ clients' \in SUBSET Kinds /\ schema' \in {"opdd", "goose"}
      /\ calls' \in 0..MaxCalls /\ task' \in [Tasks -> Requests]
  BY DEF TasksOK, Proceeds, Alone
<1>2. \/ task'[t].n = task[t].n /\ task'[t].op = task[t].op
      \/ task'[t].n = 0 /\ task'[t].op = "idle"
  BY DEF Proceeds, Idle
<1>3. \A u \in Tasks \ {t} : task'[u] = task[u]
  BY DEF Proceeds, Alone
<1>4. 0 \in 0..calls
  BY DEF TasksOK
<1>5. \A u \in Tasks : task'[u].n \in 0..calls /\ (task'[u].op = "idle" <=> task'[u].n = 0)
  BY <1>2, <1>3, <1>4 DEF TasksOK
<1>6. \A u, v \in Tasks : task'[u].n = task'[v].n => u = v \/ task'[u].n = 0
  BY <1>2, <1>3 DEF TasksOK
<1> QED
  BY <1>1, <1>5, <1>6 DEF TasksOK

\* The requests keep their types when one arrives,
LEMMA TasksBegin ==
    ASSUME TasksOK, NEW t \in Tasks, Begins(t), calls < MaxCalls,
           UNCHANGED <<clients, schema, faults>>
    PROVE  TasksOK'
<1>0. calls \in 0..MaxCalls /\ calls \in Nat /\ MaxCalls \in Nat
  BY PanelAssumption DEF TasksOK
<1>1. calls' = calls + 1 /\ task'[t].n = calls + 1 /\ task'[t].op # "idle"
  BY DEF Begins
<1>2. /\ clients' \in SUBSET Kinds /\ schema' \in {"opdd", "goose"}
      /\ faults' \in 0..MaxFaults /\ task' \in [Tasks -> Requests]
  BY DEF TasksOK, Begins, Alone
<1>3. calls' \in 0..MaxCalls /\ calls + 1 # 0 /\ calls + 1 \in 0..calls'
  BY <1>0, <1>1
<1>4. \A u \in Tasks \ {t} : task'[u] = task[u]
  BY DEF Begins, Alone
<1>5. \A u \in Tasks : task[u].n \in 0..calls
  BY DEF TasksOK
<1>6. \A u \in Tasks \ {t} : task'[u].n \in 0..calls' /\ task'[u].n # calls + 1
  BY <1>0, <1>1, <1>4, <1>5
<1>7. \A u \in Tasks : task'[u].n \in 0..calls'
                       /\ (task'[u].op = "idle" <=> task'[u].n = 0)
  BY <1>1, <1>3, <1>4, <1>6 DEF TasksOK
<1>8. \A u, v \in Tasks : task'[u].n = task'[v].n => u = v \/ task'[u].n = 0
  BY <1>1, <1>4, <1>6 DEF TasksOK
<1> QED
  BY <1>2, <1>3, <1>7, <1>8 DEF TasksOK

\* when none moves,
LEMMA TasksStay ==
    ASSUME TasksOK, task' = task, calls' \in 0..MaxCalls, calls <= calls',
           UNCHANGED <<clients, schema>>, faults' \in 0..MaxFaults
    PROVE  TasksOK'
<1>1. calls \in Nat /\ calls' \in Nat
  BY PanelAssumption DEF TasksOK
<1>2. \A u \in Tasks : task'[u].n \in 0..calls'
  BY <1>1 DEF TasksOK
<1> QED
  BY <1>2 DEF TasksOK

\* and when all of them vanish.
LEMMA TasksReset ==
    ASSUME TasksOK, task' = [t \in Tasks |-> Idle], calls' = calls,
           UNCHANGED <<clients, schema>>, faults' \in 0..MaxFaults
    PROVE  TasksOK'
<1>1. task' \in [Tasks -> Requests]
  BY IdleIsARequest
<1>2. \A u \in Tasks : task'[u].n = 0 /\ task'[u].op = "idle"
  BY DEF Idle
<1>3. 0 \in 0..calls
  BY DEF TasksOK
<1> QED
  BY <1>1, <1>2, <1>3 DEF TasksOK

\* The faults are bounded.
LEMMA FaultsBounded ==
    ASSUME TasksOK, Fault \/ faults' = faults
    PROVE  faults' \in 0..MaxFaults
<1>1. faults \in 0..MaxFaults /\ MaxFaults \in Nat
  BY PanelAssumption DEF TasksOK
<1> QED
  BY <1>1 DEF Fault

\* The steps of the other components are none of those that change cron.
LEMMA ElsewhereSteps ==
    ASSUME TasksOK, NEW t \in Tasks, Proceeds(t), ServerStep(t) \/ ResourceStep(t),
           task[t].op \in ServerOps \cup ResourceOps
    PROVE  Elsewhere(t)
<1> DEFINE Others == {"insert", "agent", "write", "get", "delete", "mkuser", "grant",
                      "flush", "drop", "dropuser"}
<1>1. task \in [Tasks -> Requests]
  BY DEF TasksOK
<1>2. ASSUME NEW pc \in Others, Goes(t, pc)
      PROVE  task'[t].pc = pc
  <2>1. pc \in Pcs
    BY StepNames
  <2> QED  BY <1>2, <2>1, GoesOn
<1>3. ASSUME NEW pc, NEW rows, Holds(t, pc, rows)
      PROVE  task'[t].pc = pc
  <2> DEFINE mid == [task[t] EXCEPT !.pc = pc]
  <2>1. task' = [task EXCEPT ![t] = [mid EXCEPT !.held = rows]]
    BY <1>3 DEF Holds
  <2>2. task'[t] = [mid EXCEPT !.held = rows]
    BY <1>1, <2>1
  <2>3. mid.pc = pc /\ DOMAIN mid = DOMAIN task[t]
    BY <1>1 DEF Requests
  <2> HIDE DEF mid
  <2>4. [mid EXCEPT !.held = rows].pc = pc
    BY <1>1, <2>3 DEF Requests
  <2> QED  BY <2>2, <2>4
<1>4. task'[t] = Idle \/ task'[t].pc \in Others
  <2>1. CASE ServerStep(t)
    <3>1. CASE Create(t) \/ GetServer(t) \/ AskAgent(t) \/ DeleteServer(t)
      BY <1>2, <1>3, <3>1, Answers
         DEF Create, GetServer, AskAgent, DeleteServer, LooksUp
    <3>2. CASE WriteStatus(t)
      <4>1. CASE Answer(t)
        BY <4>1, Answers
      <4>2. CASE task' = [task EXCEPT ![t] = [@ EXCEPT !.pc = "get",
                                                       !.plan = Tail(task[t].plan)]]
        <5> DEFINE mid == [task[t] EXCEPT !.pc = "get"]
        <5>1. mid.pc = "get" /\ DOMAIN mid = DOMAIN task[t]
          BY <1>1 DEF Requests
        <5>2. task'[t] = [mid EXCEPT !.plan = Tail(task[t].plan)]
          BY <1>1, <4>2
        <5> HIDE DEF mid
        <5>3. [mid EXCEPT !.plan = Tail(task[t].plan)].pc = "get"
          BY <1>1, <5>1 DEF Requests
        <5> QED  BY <5>2, <5>3
      <4> QED  BY <3>2, <4>1, <4>2 DEF WriteStatus
    <3> QED  BY <2>1, <3>1, <3>2 DEF ServerStep
  <2>2. CASE AllocationStep(t)
    BY <1>2, <1>3, <2>2, Answers
       DEF AllocationStep, GetFreePort, InsertAllocation, Free, LooksUp
  <2>3. CASE SubuserStep(t)
    BY <1>2, <1>3, <2>3, Answers DEF SubuserStep, Add, UpdatePermissions, Remove
  <2>4. CASE DatabaseStep(t)
    BY <1>2, <1>3, <2>4, Answers
       DEF DatabaseStep, CreateDB, Sends, Answered, CreateDatabase, CreateUser, Grant, FlushPrivileges,
           InsertRecord, GetRecord, DropDatabase, DropUser, DeleteRecord, LooksUp
  <2> QED  BY <2>1, <2>2, <2>3, <2>4 DEF ResourceStep
<1>5. CASE task'[t] = Idle
  BY <1>5, IdleIsElsewhere
<1>6. CASE task'[t] # Idle
  <2>1. task'[t].op = task[t].op
    BY <1>6 DEF Proceeds
  <2>2. task'[t].op \notin ScheduleOps
    BY <2>1, OpsApart
  <2>3. task'[t].pc \notin {"unregister", "add", "assign"}
    BY <1>4, <1>6
  <2> QED  BY <2>2, <2>3 DEF Elsewhere
<1> QED
  BY <1>5, <1>6

\* Requests of the other components arrive elsewhere.
LEMMA ElsewhereCalls ==
    ASSUME TasksOK, NEW t \in Tasks, CallServer(t) \/ CallResource(t),
           task'[t].op \in ServerOps \cup ResourceOps
    PROVE  Elsewhere(t)
<1>1. task'[t].pc \in {"look", "get", "delete", "mkdb"}
  <2>1. task \in [Tasks -> Requests]
    BY DEF TasksOK
  <2>2. ASSUME NEW kind, NEW op, NEW pc, NEW key, NEW held,
               Arrive(t, kind, Request(op, pc, key, held))
        PROVE  task'[t].pc = pc
    BY <2>1, <2>2 DEF Arrive, Request
  <2>3. ASSUME NEW key, NEW plan,
               Arrive(t, "server", [Request("power", "get", key, {}) EXCEPT !.plan = plan])
        PROVE  task'[t].pc = "get"
    <3>1. [Request("power", "get", key, {}) EXCEPT !.plan = plan].pc = "get"
      BY DEF Request
    <3> QED  BY <2>1, <2>3, <3>1 DEF Arrive
  <2>4. CASE CallServer(t)
    BY <2>2, <2>3, <2>4 DEF CallServer, CallCreate, CallPower, CallDelete
  <2>5. CASE CallResource(t)
    BY <2>2, <2>5 DEF CallResource, CallAssign, CallFree, CallAdd, CallSetPermissions,
                      CallRemove, CallCreateDB, CallDeleteDB
  <2> QED  BY <2>4, <2>5
<1> QED
  BY <1>1, OpsApart DEF Elsewhere

\* A request arrives.
LEMMA CallStep ==
    ASSUME IInv, NEW t \in Tasks, Call(t)
    PROVE  IInv'
<1> USE DEF IInv
<1>0. /\ UNCHANGED <<clients, schema, faults, resourceVars, servers, accepted,
                     schedules, cron, entries, run>>
      /\ calls \in Nat
  BY DEF Call, TasksOK
<1>1. CASE CallServer(t)
  <2>1. /\ ServersOK' /\ StatusOK' /\ Begins(t) /\ task'[t].op \in ServerOps
        /\ tangled' = tangled
    BY <1>0, <1>1, CreateArrives, PowerArrives, DeleteArrives
       DEF CallServer, ServerOps, CallCreate, CallPower, CallDelete
  <2>2. calls' = calls + 1 /\ task[t] = Idle /\ \A u \in Tasks \ {t} : task'[u] = task[u]
    BY <2>1 DEF Begins, Alone
  <2>3. calls' \in Nat /\ calls <= calls'
    BY <1>0, <2>2
  <2>4. Elsewhere(t) /\ task[t].op \notin ScheduleOps
    BY <1>1, <2>1, <2>2, ElsewhereCalls, OpsApart DEF Idle
  <2>5. EntriesOK' /\ SchedulesOK' /\ CronOK'
    BY <1>0, <2>1, <2>2, <2>3, <2>4, SchedulesRest DEF scheduleVars
  <2>6. AllocationsOK' /\ SubusersOK' /\ DatabasesOK'
    BY <1>0, <2>1, <2>2, <2>3, OpsApart, ResourcesRest
  <2>7. calls < MaxCalls
    BY <1>1 DEF CallServer, CallCreate, CallPower, CallDelete, Arrive
  <2>8. TasksOK'
    BY <1>0, <2>1, <2>7, TasksBegin
  <2> QED  BY <2>1, <2>5, <2>6, <2>8
<1>2. CASE CallSchedule(t)
  <2>1. /\ EntriesOK' /\ SchedulesOK' /\ Begins(t)
        /\ task'[t].op \in ScheduleOps \cup {"runSchedule"}
    BY <1>0, <1>2, ScheduleCalls
  <2>2. CronOK'
    BY <1>0, <1>2, ScheduleCallMatches
  <2>3. calls' = calls + 1 /\ task[t] = Idle /\ \A u \in Tasks \ {t} : task'[u] = task[u]
    BY <2>1 DEF Begins, Alone
  <2>4. calls' \in Nat /\ calls <= calls'
    BY <1>0, <2>3
  <2>5. drift' = drift
    BY <1>2 DEF CallSchedule, CallAddSchedule, CallUpdateSchedule, CallRemoveSchedule,
                CallRunNow
  <2>6. ServersOK' /\ StatusOK'
    <3>1. task[t].op # "power" /\ task'[t].op \notin ServerOps
      BY <2>1, <2>3, OpsApart DEF Idle
    <3> QED  BY <1>0, <2>3, <2>4, <2>5, <3>1, ServersRest DEF serverVars
  <2>7. AllocationsOK' /\ SubusersOK' /\ DatabasesOK'
    BY <1>0, <2>1, <2>3, <2>4, OpsApart, ResourcesRest
  <2>8. calls < MaxCalls
    BY <1>2 DEF CallSchedule, CallAddSchedule, CallUpdateSchedule, CallRemoveSchedule,
                CallRunNow, Arrive
  <2>9. TasksOK'
    BY <1>0, <2>1, <2>8, TasksBegin
  <2> QED  BY <2>1, <2>2, <2>6, <2>7, <2>9
<1>3. CASE CallResource(t) /\ UNCHANGED <<drift, tangled>>
  <2>1. allocations' = allocations /\ subusers' = subusers /\ UNCHANGED mysqlVars
    BY <1>0 DEF resourceVars, mysqlVars
  <2>2. /\ Begins(t)
        /\ \/ AllocationsOK' /\ task'[t].op \in AllocationOps
           \/ SubusersOK' /\ task'[t].op \in SubuserOps
           \/ DatabasesOK' /\ task'[t].op \in DatabaseOps
    BY <1>3, <2>1, AllocationCalls, SubuserCalls, DatabaseCalls DEF CallResource
  <2>3. calls' = calls + 1 /\ task[t] = Idle /\ \A u \in Tasks \ {t} : task'[u] = task[u]
    BY <2>2 DEF Begins, Alone
  <2>4. calls' \in Nat /\ calls <= calls'
    BY <1>0, <2>3
  <2>5. task'[t].op \in ResourceOps
    BY <2>2 DEF ResourceOps
  <2>6. AllocationsOK' /\ SubusersOK' /\ DatabasesOK'
    BY <2>1, <2>2, <2>3, <2>4, OpsApart, AllocationsRest, SubusersRest, DatabasesRest
  <2>7. ServersOK' /\ StatusOK'
    <3>1. task[t].op # "power" /\ task'[t].op \notin ServerOps
      BY <2>3, <2>5, OpsApart DEF Idle
    <3> QED  BY <1>0, <1>3, <2>3, <2>4, <3>1, ServersRest DEF serverVars
  <2>8. EntriesOK' /\ SchedulesOK' /\ CronOK'
    <3>1. Elsewhere(t) /\ task[t].op \notin ScheduleOps
      BY <1>3, <2>3, <2>5, ElsewhereCalls, OpsApart DEF Idle
    <3> QED  BY <1>0, <1>3, <2>3, <2>4, <3>1, SchedulesRest DEF scheduleVars
  <2>9. calls < MaxCalls
    BY <1>3 DEF CallResource, CallAssign, CallFree, CallAdd, CallSetPermissions,
                CallRemove, CallCreateDB, CallDeleteDB, Arrive
  <2>10. TasksOK'
    BY <1>0, <2>2, <2>9, TasksBegin
  <2> QED  BY <2>6, <2>7, <2>8, <2>10
<1> QED
  BY <1>1, <1>2, <1>3 DEF Call

\* Where the new rows of a step come from.
NewRows(t) ==
  /\ \A r \in servers' : \/ \E s \in servers : s.id = r.id
                         \/ task[t].op = "create" /\ task[t].n = r.id
  /\ \A r \in schedules' : \/ \E s \in schedules : s.id = r.id
                           \/ task[t].op = "addSchedule" /\ task[t].n = r.id
  /\ \A r \in subusers' : \/ \E s \in subusers : s.id = r.id
                          \/ task[t].op = "add" /\ task[t].n = r.id
  /\ \A r \in allocations' : \/ \E s \in allocations : s.id = r.id
                             \/ task[t].op = "assign" /\ task[t].n = r.id
  /\ \A r \in records' : \/ \E s \in records : s.id = r.id
                         \/ task[t].op = "mkdb" /\ task[t].n = r.id

\* A request takes its next step.
LEMMA ServeStep ==
    ASSUME IInv, NEW t \in Tasks, Serve(t)
    PROVE  IInv' /\ NewRows(t)
<1> USE DEF IInv
<1>0. UNCHANGED <<clients, schema>>
  BY DEF Serve
<1>1. CASE ServerStep(t) /\ UNCHANGED resourceVars
  <2>1. /\ ServersOK' /\ StatusOK' /\ Proceeds(t) /\ calls' = calls
        /\ task[t].op \in ServerOps
        /\ \A r \in servers' : \/ \E s \in servers : s.id = r.id
                               \/ task[t].op = "create" /\ task[t].n = r.id
    BY <1>1, ServerSteps
  <2>2. calls' \in Nat /\ calls <= calls'
    BY <2>1, SameCalls
  <2>3. /\ UNCHANGED <<scheduleVars, run>>
        /\ UNCHANGED <<schedules, allocations, subusers, records>>
        /\ Fault \/ faults' = faults
    BY <1>1 DEF ServerStep, scheduleVars, resourceVars, AskAgent
  <2>4. /\ \A u \in Tasks \ {t} : task'[u] = task[u]
        /\ task'[t].op \in ServerOps \cup {"idle"} /\ task[t].op \notin ScheduleOps
        /\ Elsewhere(t)
    BY <1>1, <2>1, OpsApart, ElsewhereSteps DEF Proceeds, Alone, Idle
  <2>5. EntriesOK' /\ SchedulesOK' /\ CronOK'
    BY <2>2, <2>3, <2>4, SchedulesRest
  <2>6. AllocationsOK' /\ SubusersOK' /\ DatabasesOK'
    BY <1>1, <2>2, <2>4, OpsApart, ResourcesRest
  <2>7. TasksOK'
    BY <1>0, <2>1, <2>3, TasksProceed, FaultsBounded
  <2>8. NewRows(t)
    BY <2>1, <2>3 DEF NewRows
  <2> QED  BY <2>1, <2>5, <2>6, <2>7, <2>8
<1>2. CASE ScheduleStep(t) /\ UNCHANGED resourceVars
  <2>1. /\ EntriesOK' /\ SchedulesOK' /\ Proceeds(t) /\ calls' = calls
        /\ task[t].op \in ScheduleOps \cup {"runSchedule"}
        /\ \A r \in schedules' : \/ \E s \in schedules : s.id = r.id
                                 \/ task[t].op = "addSchedule" /\ task[t].n = r.id
    BY <1>2, ScheduleSteps
  <2>2. CronOK'
    BY <1>2, ScheduleStepMatches
  <2>3. calls' \in Nat /\ calls <= calls'
    BY <2>1, SameCalls
  <2>4. /\ UNCHANGED serverVars /\ faults' = faults
        /\ UNCHANGED <<servers, allocations, subusers, records>>
    BY <1>2 DEF ScheduleStep, serverVars, resourceVars
  <2>5. /\ \A u \in Tasks \ {t} : task'[u] = task[u]
        /\ task'[t].op \in ScheduleOps \cup {"runSchedule", "idle"}
        /\ task[t].op \notin ServerOps
    BY <2>1, OpsApart DEF Proceeds, Alone, Idle
  <2>6. ServersOK' /\ StatusOK'
    BY <2>3, <2>4, <2>5, OpsApart, ServersRest
  <2>7. AllocationsOK' /\ SubusersOK' /\ DatabasesOK'
    BY <1>2, <2>3, <2>5, OpsApart, ResourcesRest
  <2>8. TasksOK'
    BY <1>0, <2>1, <2>4, TasksProceed, FaultsBounded
  <2>9. NewRows(t)
    BY <2>1, <2>4 DEF NewRows
  <2> QED  BY <2>1, <2>2, <2>6, <2>7, <2>8, <2>9
<1>3. CASE ResourceStep(t) /\ UNCHANGED <<serverVars, scheduleVars, run>>
  <2>1. /\ Proceeds(t) /\ calls' = calls
        /\ \/ /\ AllocationsOK' /\ task[t].op \in AllocationOps
              /\ subusers' = subusers /\ UNCHANGED mysqlVars
           \/ /\ SubusersOK' /\ task[t].op \in SubuserOps
              /\ allocations' = allocations /\ UNCHANGED mysqlVars
           \/ /\ DatabasesOK' /\ task[t].op \in DatabaseOps
              /\ allocations' = allocations /\ subusers' = subusers
        /\ Fault \/ faults' = faults
    BY <1>3, AllocationSteps, SubuserSteps, DatabaseSteps
       DEF ResourceStep, AllocationStep, GetFreePort, SubuserStep, DatabaseStep
  <2>2. calls' \in Nat /\ calls <= calls'
    BY <2>1, SameCalls
  <2>3. task[t].op \in ResourceOps
    BY <2>1 DEF ResourceOps
  <2>4. /\ \A u \in Tasks \ {t} : task'[u] = task[u]
        /\ task'[t].op = task[t].op \/ task'[t].op = "idle"
        /\ task[t].op \notin ServerOps /\ task[t].op \notin ScheduleOps
        /\ Elsewhere(t)
    BY <1>3, <2>1, <2>3, OpsApart, ElsewhereSteps DEF Proceeds, Alone, Idle
  <2>5. AllocationsOK' /\ SubusersOK' /\ DatabasesOK'
    <3>1. "idle" \notin AllocationOps \cup SubuserOps \cup DatabaseOps
      BY OpsApart DEF ResourceOps
    <3> QED  BY <2>1, <2>2, <2>4, <3>1, OpsApart, AllocationsRest, SubusersRest,
                DatabasesRest
  <2>6. ServersOK' /\ StatusOK'
    BY <1>3, <2>2, <2>4, OpsApart, ServersRest
  <2>7. EntriesOK' /\ SchedulesOK' /\ CronOK'
    BY <1>3, <2>2, <2>4, SchedulesRest
  <2>8. TasksOK'
    BY <1>0, <2>1, TasksProceed, FaultsBounded
  <2>9. NewRows(t)
    <3>1. servers' = servers /\ schedules' = schedules
      BY <1>3 DEF serverVars, scheduleVars
    <3>2. \A r \in allocations' : \/ \E s \in allocations : s.id = r.id
                                  \/ task[t].op = "assign" /\ task[t].n = r.id
      BY <1>3, AllocationSteps DEF ResourceStep, SubuserStep, DatabaseStep
    <3>3. \A r \in subusers' : \/ \E s \in subusers : s.id = r.id
                               \/ task[t].op = "add" /\ task[t].n = r.id
      BY <1>3, SubuserSteps DEF ResourceStep, AllocationStep, DatabaseStep
    <3>4. \A r \in records' : \/ \E s \in records : s.id = r.id
                              \/ task[t].op = "mkdb" /\ task[t].n = r.id
      BY <1>3, DatabaseSteps DEF ResourceStep, AllocationStep, SubuserStep, mysqlVars
    <3> QED  BY <3>1, <3>2, <3>3, <3>4 DEF NewRows
  <2> QED  BY <2>5, <2>6, <2>7, <2>8, <2>9
<1> QED
  BY <1>1, <1>2, <1>3 DEF Serve

\* Steps that add no row to the tables of the other components, or none at all.
SameTables == UNCHANGED <<servers, allocations, subusers, records>>
NoNewSchedule == \A r \in schedules' : \E s \in schedules : s.id = r.id

\* An error of the look-up of Create or Add: the request goes on to the INSERT.
LEMMA DroppedErrorStep ==
    ASSUME IInv, NEW t \in Tasks, StatementError(t), ~ Answer(t)
    PROVE  IInv' /\ SameTables /\ NoNewSchedule
<1> USE DEF IInv
<1>1. /\ UNCHANGED <<clients, schema, calls, resourceVars, servers, accepted,
                     schedules, cron, entries, run>>
      /\ Goes(t, "insert") /\ Fault
      /\ task[t].op \in {"create", "add"} /\ task[t].pc = "look"
      /\ drift' = drift /\ tangled' = tangled
  BY DEF StatementError, StatementFails, At
<1>2. calls' \in Nat /\ calls <= calls' /\ calls \in Nat
  BY <1>1, SameCalls
<1>3. /\ Proceeds(t) /\ \A u \in Tasks \ {t} : task'[u] = task[u]
      /\ task'[t].op = task[t].op /\ task'[t].n = task[t].n
      /\ task'[t].held = task[t].held /\ task'[t].pc = "insert"
  <2>1. "insert" \in Pcs
    BY DEF Pcs, Statements
  <2> QED  BY <1>1, <2>1, GoesOn DEF Proceeds, Alone
<1>4. Elsewhere(t) /\ task[t].op \notin ScheduleOps
  BY <1>1, <1>3 DEF Elsewhere, ScheduleOps
<1>5. TasksOK'
  BY <1>1, <1>3, TasksProceed, FaultsBounded
<1>6. ServersOK' /\ StatusOK'
  <2>1. ServersOK' /\ ServerTasksStep
    <3>1. ServerTaskStep(t)
      BY <1>1, <1>3 DEF ServerTaskStep
    <3>2. ServerTasksStep
      BY <1>3, <3>1, OneServerTask DEF Proceeds
    <3> QED  BY <1>1, <1>2, <3>2, ServersQuiet
  <2>2. ASSUME NEW id \in Ids \ drift'  PROVE Follows(id)'
    <3>1. Follows(id)
      BY <1>1, <2>2 DEF StatusOK
    <3>2. ~ Ahead(t, id) /\ ~ Ahead(t, id)'
      BY <1>1, <1>3 DEF Ahead, Powers
    <3> QED  BY <1>1, <1>2, <1>3, <2>1, <2>2, <3>1, <3>2, AheadStill, FollowsStill
                DEF Proceeds
  <2> QED  BY <1>1, <2>1, <2>2 DEF StatusOK
<1>7. EntriesOK' /\ SchedulesOK' /\ CronOK'
  BY <1>1, <1>2, <1>3, <1>4, SchedulesRest DEF scheduleVars
<1>8. AllocationsOK' /\ SubusersOK' /\ DatabasesOK'
  <2>1. task'[t].op \notin AllocationOps \cup DatabaseOps
    BY <1>1, <1>3 DEF AllocationOps, DatabaseOps
  <2>2. allocations' = allocations /\ subusers' = subusers /\ UNCHANGED mysqlVars
    BY <1>1 DEF resourceVars, mysqlVars
  <2>3. AllocationsOK' /\ DatabasesOK'
    BY <1>2, <1>3, <2>1, <2>2, AllocationsRest, DatabasesRest
  <2>4. \A u \in Tasks : SubuserTaskStep(u)
    BY <1>1, <1>3 DEF SubuserTaskStep
  <2>5. SubusersOK'
    BY <1>2, <2>2, <2>4, SubusersQuiet
  <2> QED  BY <2>3, <2>5
<1> QED
  BY <1>1, <1>5, <1>6, <1>7, <1>8 DEF SameTables, NoNewSchedule, resourceVars

\* An error that is the answer of the request.
LEMMA ErrorAnsweredStep ==
    ASSUME IInv, NEW t \in Tasks, StatementError(t), Answer(t)
    PROVE  IInv' /\ SameTables /\ NoNewSchedule
<1> USE DEF IInv
<1>1. /\ UNCHANGED <<clients, schema, calls, resourceVars, servers, accepted,
                     schedules, cron, entries, run>>
      /\ Answer(t) /\ Fault
      /\ drift' = IF At(t, "power", "write") THEN drift \cup {task[t].key} ELSE drift
  BY DEF StatementError, StatementFails
<1>2. calls' \in Nat /\ calls <= calls' /\ calls \in Nat
  BY <1>1, SameCalls
<1>3. Proceeds(t) /\ task'[t] = Idle /\ \A u \in Tasks \ {t} : task'[u] = task[u]
  BY <1>1, Answers DEF Proceeds, Alone
<1>4. task'[t].op = "idle" /\ Elsewhere(t)
  BY <1>3, IdleIsElsewhere DEF Idle
<1>5. TasksOK'
  BY <1>1, <1>3, TasksProceed, FaultsBounded
<1>6. ServersOK' /\ StatusOK'
  <2>1. drift \subseteq drift' /\ drift' \subseteq Ids
    <3>1. At(t, "power", "write") => task[t].key \in Ids
      <4>1. At(t, "power", "write") => task[t].key \in 1..calls
        BY DEF At, ServersOK
      <4>2. \A k \in 1..calls : k \in Ids
        BY PanelAssumption DEF TasksOK, Ids
      <4> QED  BY <4>1, <4>2
    <3> QED  BY <1>1, <3>1 DEF StatusOK
  <2>2. \A id \in Ids \ drift', u \in Tasks : Ahead(u, id) => Ahead(u, id)'
    BY <1>1, <1>3 DEF Ahead, Powers, At
  <2>3. accepted' \in [Ids -> Power \cup {"none"}]
    BY <1>1 DEF StatusOK
  <2>4. \A u \in Tasks : task'[u] = task[u] \/ task'[u].op \notin {"create", "power"}
    BY <1>3, <1>4
  <2> QED  BY <1>1, <1>2, <2>1, <2>2, <2>3, <2>4, ServersElse
<1>7. EntriesOK' /\ SchedulesOK' /\ CronOK'
  <2>1. RunsOK'
    BY <1>1, <1>2, RunsStay DEF SchedulesOK
  <2>2. EntriesOK' /\ SchedulesOK'
    BY <1>1, <1>2, <1>3, <1>4, <2>1, SchedulesElse
  <2> QED  BY <2>2, ErrorMatches
<1>8. AllocationsOK' /\ SubusersOK' /\ DatabasesOK'
  BY <1>1, <1>2, <1>3, <1>4, OpsApart, ResourcesRest
<1> QED
  BY <1>1, <1>5, <1>6, <1>7, <1>8 DEF SameTables, NoNewSchedule, resourceVars

\* A statement fails.
LEMMA ErrorStep ==
    ASSUME IInv, NEW t \in Tasks, StatementError(t)
    PROVE  IInv' /\ SameTables /\ NoNewSchedule
BY DroppedErrorStep, ErrorAnsweredStep

\* The steps of cron and of the runs: no request moves.
LEMMA FireStep ==
    ASSUME IInv, Fire
    PROVE  IInv' /\ SameTables /\ NoNewSchedule
<1> USE DEF IInv
<1>1. /\ UNCHANGED <<clients, schema, task, faults, resourceVars, serverVars, scheduleVars>>
      /\ calls < MaxCalls /\ calls' = calls + 1
  BY DEF Fire
<1>2. calls \in Nat /\ calls' \in Nat /\ calls <= calls' /\ calls' \in 0..MaxCalls
  BY <1>1, PanelAssumption DEF TasksOK
<1>3. TasksOK'
  BY <1>1, <1>2, TasksStay, FaultsBounded
<1>4. EntriesOK' /\ SchedulesOK'
  BY FireKeeps
<1>5. CronOK'
  <2>1. /\ UNCHANGED <<schedules, cron, entries>> /\ tangled' = tangled
        /\ \A u \in Tasks : task'[u] = task[u]
    BY <1>1 DEF scheduleVars
  <2>2. tangled' \subseteq Ids
    BY <2>1 DEF CronOK
  <2> QED  BY <2>1, <2>2, CronElse
<1>6. ServersOK' /\ StatusOK'
  BY <1>1, <1>2, ServersRest
<1>7. AllocationsOK' /\ SubusersOK' /\ DatabasesOK'
  BY <1>1, <1>2, ResourcesRest
<1> QED
  BY <1>1, <1>3, <1>4, <1>5, <1>6, <1>7
     DEF SameTables, NoNewSchedule, resourceVars, serverVars, scheduleVars

\* A goroutine in execute calls the agent: every part of the invariant.
LEMMA RunAsksStep ==
    ASSUME IInv, NEW g \in Runs, RunAsksAgent(g)
    PROVE  IInv' /\ SameTables /\ NoNewSchedule
<1> USE DEF IInv
<1> DEFINE id0 == (CHOOSE r \in run[g].rows : TRUE).server
<1>1. /\ UNCHANGED <<clients, schema, task, calls, faults>>
      /\ UNCHANGED <<resourceVars, servers, scheduleVars>>
      /\ run[g].plan # <<>>
      /\ \/ /\ accepted' = [accepted EXCEPT ![id0] = Head(run[g].plan)]
            /\ drift' = drift \cup {id0}
         \/ UNCHANGED <<accepted, drift>>
  BY DEF RunAsksAgent, requestVars
<1>2. calls' \in Nat /\ calls <= calls'
  BY <1>1, SameCalls
<1>3. id0 \in Ids /\ Head(run[g].plan) \in Power
  <2>1. run[g].rows # {} /\ run[g].plan \in Plans
    BY <1>1 DEF SchedulesOK, RunsOK
  <2>2. (CHOOSE r \in run[g].rows : TRUE) \in ScheduleRows
    BY <2>1, TheRun
  <2> QED  BY <1>1, <2>1, <2>2, PlanGoesOn DEF ScheduleRows
<1> HIDE DEF id0
<1>4. TasksOK'
  BY <1>1, <1>2, TasksStay, FaultsBounded DEF TasksOK
<1>5. ServersOK' /\ StatusOK'
  <2>1. drift \subseteq drift' /\ drift' \subseteq Ids
    BY <1>1, <1>3 DEF StatusOK
  <2>2. accepted' \in [Ids -> Power \cup {"none"}]
    BY <1>1, <1>3 DEF StatusOK
  <2>3. \A id \in Ids \ drift' :
          /\ accepted'[id] = accepted[id]
          /\ \A u \in Tasks : Ahead(u, id) => Ahead(u, id)'
    BY <1>1 DEF Ahead, Powers, StatusOK
  <2> QED  BY <1>1, <1>2, <2>1, <2>2, <2>3, ServersElse
<1>6. EntriesOK' /\ SchedulesOK'
  BY RunAsksAgentKeeps
<1>7. CronOK'
  <2>1. /\ UNCHANGED <<schedules, cron, entries>> /\ tangled' = tangled
        /\ \A u \in Tasks : task'[u] = task[u]
    BY <1>1 DEF scheduleVars
  <2>2. tangled' \subseteq Ids
    BY <2>1 DEF CronOK
  <2> QED  BY <2>1, <2>2, CronElse
<1>8. AllocationsOK' /\ SubusersOK' /\ DatabasesOK'
  BY <1>1, <1>2, ResourcesRest
<1> QED
  BY <1>1, <1>4, <1>5, <1>6, <1>7, <1>8
     DEF SameTables, NoNewSchedule, resourceVars, scheduleVars

\* A goroutine in execute ends: every part of the invariant.
LEMMA RunEndsStep ==
    ASSUME IInv, NEW g \in Runs, NEW ok \in BOOLEAN, RunEnds(g, ok)
    PROVE  IInv' /\ SameTables /\ NoNewSchedule
<1> USE DEF IInv
<1>1. /\ UNCHANGED <<clients, schema, task, calls, resourceVars, serverVars>>
      /\ Fault \/ faults' = faults
  BY DEF RunEnds
<1>2. calls' \in Nat /\ calls <= calls'
  BY <1>1, SameCalls
<1>3. TasksOK'
  BY <1>1, <1>2, TasksStay, FaultsBounded DEF TasksOK
<1>4. ServersOK' /\ StatusOK'
  BY <1>1, <1>2, ServersRest
<1>5. EntriesOK' /\ SchedulesOK' /\ NoNewSchedule
  BY RunEndsKeeps DEF NoNewSchedule
<1>6. CronOK'
  BY RunEndsMatches
<1>7. AllocationsOK' /\ SubusersOK' /\ DatabasesOK'
  BY <1>1, <1>2, ResourcesRest
<1> QED
  BY <1>1, <1>3, <1>4, <1>5, <1>6, <1>7 DEF SameTables, resourceVars, serverVars

\* The daemon is restarted.
LEMMA RebootStep ==
    ASSUME IInv, Reboot
    PROVE  IInv' /\ SameTables /\ NoNewSchedule
<1> USE DEF IInv
<1>1. /\ UNCHANGED <<clients, schema, calls, resourceVars, servers, accepted, schedules>>
      /\ Fault /\ task' = [t \in Tasks |-> Idle]
      /\ drift' = drift \cup {task[t].key : t \in {u \in Tasks : task[u].op = "power"}}
  BY DEF Reboot, Restarted
<1>2. calls' \in Nat /\ calls <= calls' /\ calls \in Nat
  BY <1>1, SameCalls
<1>3. \A u \in Tasks : task'[u] = Idle /\ task'[u].op = "idle"
  BY <1>1 DEF Idle
<1>4. TasksOK'
  BY <1>1, TasksReset, FaultsBounded
<1>5. ServersOK' /\ StatusOK'
  <2>1. \A k \in 1..calls : k \in Ids
    BY PanelAssumption DEF TasksOK, Ids
  <2>2. \A u \in Tasks : task[u].op = "power" => task[u].key \in Ids
    BY <2>1 DEF ServersOK
  <2>3. drift \subseteq drift' /\ drift' \subseteq Ids
    BY <1>1, <2>2 DEF StatusOK
  <2>4. \A id \in Ids \ drift', u \in Tasks : ~Ahead(u, id)
    BY <1>1 DEF Ahead, Powers
  <2>5. accepted' \in [Ids -> Power \cup {"none"}]
    BY <1>1 DEF StatusOK
  <2> QED  BY <1>1, <1>2, <1>3, <2>3, <2>4, <2>5, ServersElse
<1>6. EntriesOK' /\ SchedulesOK'
  BY RebootKeeps
<1>7. CronOK'
  BY RebootMatches
<1>8. AllocationsOK' /\ SubusersOK' /\ DatabasesOK'
  BY <1>1, <1>2, <1>3, OpsApart, ResourcesRest
<1> QED
  BY <1>1, <1>4, <1>5, <1>6, <1>7, <1>8 DEF SameTables, NoNewSchedule, resourceVars

-----------------------------------------------------------------------------
\* A new database and an empty cron table have the invariant.
LEMMA InitHolds ==
    ASSUME Init
    PROVE  IInv
<1> USE DEF Init
<1>1. 0 \in 0..MaxCalls /\ 0 \in 0..MaxFaults /\ 0 \in Nat
  BY PanelAssumption
<1>2. /\ calls = 0 /\ faults = 0 /\ task = [t \in Tasks |-> Idle]
      /\ schema \in {"opdd", "goose"} /\ clients \in Workloads
  BY DEF RequestsInit
<1>3. \A t \in Tasks :
        /\ task[t] = Idle /\ task[t].op = "idle" /\ task[t].n = 0 /\ task[t].pc = "idle"
  BY <1>2 DEF Idle
<1>4. TasksOK
  <2>1. clients \in SUBSET Kinds
    BY <1>2, WorkloadsAssumption
  <2>2. task \in [Tasks -> Requests]
    BY <1>2, IdleIsARequest
  <2>3. 0 \in 0..calls
    BY <1>2
  <2> QED  BY <1>1, <1>2, <1>3, <2>1, <2>2, <2>3 DEF TasksOK
<1>5. ServersOK
  BY <1>3 DEF ServersOK, Numbered
<1>6. StatusOK
  <2>1. accepted \in [Ids -> Power \cup {"none"}]
    OBVIOUS
  <2>2. \A id \in Ids : Follows(id)
    BY <1>3 DEF Follows, Powers, Ahead
  <2> QED  BY <2>1, <2>2 DEF StatusOK
<1>7. EntriesOK
  <2>1. entries \in [Ids -> 0..MaxCalls] /\ \A id \in Ids : entries[id] \in 0..calls
    BY <1>1, <1>2
  <2>2. \A t \in Tasks : EntryOfTask(t)
    BY <1>3 DEF EntryOfTask, ScheduleOps
  <2> QED  BY <2>1, <2>2 DEF EntriesOK
<1>8. SchedulesOK
  <2>1. \A t \in Tasks : ScheduleTask(t)
    BY <1>3 DEF ScheduleTask, ScheduleOps
  <2>2. RunsOK
    BY FreeIsARun DEF RunsOK, FreeRun
  <2> QED  BY <2>1, <2>2 DEF SchedulesOK, Numbered
<1>9. CronOK
  <2>1. \A id \in Ids : Matched(id)
    BY DEF Matched, Due, Fires
  <2>2. \A id \in Ids, t \in Tasks : ~Handles(t, id)
    BY <1>3 DEF Handles, ScheduleOps
  <2> QED  BY <2>1, <2>2 DEF CronOK, OneCron
<1>10. AllocationsOK /\ SubusersOK
  BY <1>3 DEF ResourcesInit, AllocationsOK, SubusersOK, Numbered, At
<1>11. DatabasesOK
  <2>1. UsersOK
    BY <1>1 DEF ResourcesInit, UsersOK
  <2> QED  BY <1>3, <2>1 DEF ResourcesInit, DatabasesOK, Numbered
<1> QED
  BY <1>4, <1>5, <1>6, <1>7, <1>8, <1>9, <1>10, <1>11 DEF IInv

\* Every step of opdd keeps it.
LEMMA NextHolds ==
    ASSUME IInv, [Next]_vars
    PROVE  IInv'
<1>1. ASSUME NEW t \in Tasks, Call(t) \/ Serve(t) \/ StatementError(t)
      PROVE  IInv'
  BY <1>1, CallStep, ServeStep, ErrorStep
<1>2. CASE Fire
  BY <1>2, FireStep
<1>3. ASSUME NEW g \in Runs, RunAsksAgent(g) \/ RunEnds(g, TRUE) \/ RunEnds(g, FALSE)
      PROVE  IInv'
  BY <1>3, RunAsksStep, RunEndsStep
<1>4. CASE Reboot
  BY <1>4, RebootStep
<1>5. CASE UNCHANGED vars
  <2> USE <1>5 DEF vars, requestVars, resourceVars, serverVars, scheduleVars
  <2>1. TasksOK' <=> TasksOK
    BY DEF TasksOK
  <2>2. (ServersOK' <=> ServersOK) /\ (StatusOK' <=> StatusOK)
    BY DEF ServersOK, Numbered, Held, StatusOK, Follows, Powers, Ahead, Wrote
  <2>3. EntriesOK' <=> EntriesOK
    BY DEF EntriesOK, EntryOfTask
  <2>4. SchedulesOK' <=> SchedulesOK
    BY DEF SchedulesOK, ScheduleTask, RunsOK, Numbered, Held, WithId
  <2>5. CronOK' <=> CronOK
    BY DEF CronOK, OneCron, Progress, Handles, Matched, Due, Fires, At
  <2>6. (AllocationsOK' <=> AllocationsOK) /\ (SubusersOK' <=> SubusersOK)
    BY DEF AllocationsOK, SubusersOK, Numbered, Held, WithId, At
  <2>7. DatabasesOK' <=> DatabasesOK
    BY DEF DatabasesOK, UsersOK, RecordOK, MakesOK, DropsOK, Numbered, Held, WithId
  <2> QED  BY <2>1, <2>2, <2>3, <2>4, <2>5, <2>6, <2>7 DEF IInv
<1> QED
  BY <1>1, <1>2, <1>3, <1>4, <1>5 DEF Next

\* The inductive invariant: what each request knows about the row it holds, at
\* each of its steps, while the others change the tables.
THEOREM PanelInvariance == Spec => []IInv
BY InitHolds, NextHolds, PTL DEF Spec

\* Every table, every request and every run keeps its shape, and a request holds
\* one row at most.
THEOREM PanelTypeCorrect == Spec => []TypeOK
<1>1. IInv => TypeOK
  <2> SUFFICES ASSUME IInv PROVE TypeOK
    OBVIOUS
  <2> USE DEF IInv
  <2>1. ASSUME NEW t \in Tasks
        PROVE  /\ task[t].n \in 0..calls /\ task[t].key \in 0..MaxCalls
               /\ Cardinality(task[t].held) <= 1 /\ task[t].plan \in Plans
    <3>1. /\ task[t].n \in 0..calls /\ task[t].key \in 0..MaxCalls
          /\ task[t].held \in Holdings /\ task[t].plan \in Plans
      BY DEF TasksOK, Requests
    <3>2. task[t].held = {} \/ \E r : task[t].held = {r}
      BY <3>1 DEF Holdings
    <3>3. Cardinality(task[t].held) \in {0, 1}
      BY <3>2, FS_EmptySet, FS_Singleton
    <3> QED  BY <3>1, <3>3
  <2>2. ResourcesTypeOK
    BY DEF ResourcesTypeOK, AllocationsOK, Allocations, SubusersOK, SubuserRows,
           DatabasesOK, DBRecords, UsersOK
  <2>3. \A g \in Runs : run[g].rows \subseteq ScheduleRows /\ run[g].plan \in Plans
    BY DEF SchedulesOK, RunsOK
  <2>4. /\ clients \in SUBSET Kinds /\ schema \in {"opdd", "goose"}
        /\ calls \in 0..MaxCalls /\ faults \in 0..MaxFaults
    BY DEF TasksOK
  <2> QED
    BY <2>1, <2>2, <2>3, <2>4
       DEF TypeOK, ServersOK, StatusOK, EntriesOK, SchedulesOK, CronOK
<1> QED
  BY <1>1, PanelInvariance, PTL

\* A server's row says what the agent last did, whatever the number of requests
\* on other servers that are between the agent's answer and their UPDATE.
THEOREM RowsAgreeWithAgent == Spec => []RowAgreesWithAgent
<1>1. IInv => RowAgreesWithAgent
  <2> SUFFICES ASSUME IInv, NEW s \in servers, s.id \notin drift
               PROVE  \/ \E t \in Tasks : task[t].op = "power" /\ task[t].key = s.id
                      \/ Wrote(s)
    BY DEF RowAgreesWithAgent, Wrote
  <2>1. s.id \in Ids
    BY DEF IInv, ServersOK, ServerRows
  <2>2. Follows(s.id)
    BY <2>1 DEF IInv, StatusOK
  <2> QED  BY <2>2 DEF Follows, Ahead, Powers
<1> QED
  BY <1>1, PanelInvariance, PTL

\* What cron fires is what the table says, between any two requests.
THEOREM CronAlwaysMatchesRows == Spec => []CronMatchesRows
<1>1. IInv => CronMatchesRows
  BY DEF IInv, CronOK, OneCron, CronMatchesRows, Matched, Due, Fires
<1> QED
  BY <1>1, PanelInvariance, PTL

\* A stored database record can be used, whatever statement another Create of
\* the same server, or of the same database, has got to.
THEOREM RecordsStayUsable == Spec => []RecordUsable
<1>1. IInv => RecordUsable
  <2> SUFFICES ASSUME IInv, NEW r \in records, Short[r.server] \notin dropped
               PROVE  /\ r.db \in mysqlDBs
                      /\ mysqlUsers[Short[r.server]] # 0
                      /\ r.db \in grants
                      /\ tried[Short[r.server]] = {r.pass} =>
                           mysqlUsers[Short[r.server]] = r.pass
    BY DEF RecordUsable
  <2> DEFINE x == Short[r.server]
  <2>1. RecordOK(r) /\ UsersOK /\ x = r.db.short /\ x \in Shorts
    BY DEF IInv, DatabasesOK, DBRecords, DBNames, RecordOK
  <2> HIDE DEF x
  <2>2. x \notin dropped
    BY DEF x
  <2>3. r.db \in mysqlDBs /\ r.db \in grants /\ r.pass \in tried[x]
    BY <2>1, <2>2 DEF RecordOK
  <2>4. mysqlUsers[x] # 0 /\ mysqlUsers[x] \in tried[x]
    BY <2>1, <2>2, <2>3 DEF UsersOK
  <2> QED  BY <2>3, <2>4 DEF x
<1> QED
  BY <1>1, PanelInvariance, PTL

\* No writer that holds a copy of a row brings a deleted row back.
THEOREM TheDeletedStayDeleted == Spec => DeletedStaysDeleted
<1> DEFINE OnlyCreated == /\ Creates(servers, "create")
                          /\ Creates(schedules, "addSchedule")
                          /\ Creates(subusers, "add")
                          /\ Creates(allocations, "assign")
                          /\ Creates(records, "mkdb")
<1>1. ASSUME IInv, [Next]_vars
      PROVE  [OnlyCreated]_vars
  <2>1. ASSUME NEW t \in Tasks, NewRows(t)
        PROVE  OnlyCreated
    BY <2>1 DEF NewRows, Creates
  <2>2. ASSUME SameTables, NoNewSchedule
        PROVE  OnlyCreated
    BY <2>2 DEF SameTables, NoNewSchedule, Creates
  <2>3. ASSUME NEW t \in Tasks, Call(t)
        PROVE  OnlyCreated
    <3>1. SameTables /\ NoNewSchedule
      BY <2>3 DEF Call, SameTables, NoNewSchedule, resourceVars
    <3> QED  BY <2>2, <3>1
  <2> HIDE DEF OnlyCreated
  <2>4. ASSUME NEW t \in Tasks, Serve(t) \/ StatementError(t)
        PROVE  OnlyCreated
    BY <1>1, <2>1, <2>2, <2>4, ServeStep, ErrorStep
  <2>5. ASSUME NEW g \in Runs, RunAsksAgent(g) \/ RunEnds(g, TRUE) \/ RunEnds(g, FALSE)
        PROVE  OnlyCreated
    BY <1>1, <2>2, <2>5, RunAsksStep, RunEndsStep
  <2>6. CASE Fire \/ Reboot
    BY <1>1, <2>2, <2>6, FireStep, RebootStep
  <2> QED  BY <1>1, <2>3, <2>4, <2>5, <2>6 DEF Next
<1>2. IInv /\ [Next]_vars => [OnlyCreated]_vars
  BY <1>1
<1> QED
  BY <1>2, PanelInvariance, PTL DEF Spec, DeletedStaysDeleted
-----------------------------------------------------------------------------
(***************************************************************************)
(* Whose the unique columns are                                            *)
(***************************************************************************)
\* Start and Stop write a status into the row that is stored, under its name.
LEMMA ServersKeepKeys ==
    ASSUME IInv, NEW t \in Tasks, ServerStep(t), NEW r \in servers,
           ~ Deletes("delete", r.id)
    PROVE  \E s \in servers' : s.id = r.id /\ s.name = r.name
<1>1. CASE WriteStatus(t)
  <2>1. TasksOK /\ ServersOK /\ task[t].op = "power" /\ task[t].pc = "write"
    BY <1>1 DEF IInv, WriteStatus, At
  <2>2. Row(t) \in WithId(ServerRows, task[t].key) /\ task[t].held = {Row(t)}
    <3>1. Held(t, WithId(ServerRows, task[t].key))
      BY <2>1 DEF ServersOK
    <3> QED  BY <3>1, HeldRow
  <2> DEFINE row == Row(t)
             new == [row EXCEPT !.status = Status(Head(task[t].plan))]
  <2>3. servers' = Update(servers, new)
    BY <1>1 DEF WriteStatus
  <2>4. row.id = r.id => row.name = r.name
    BY <2>1, <2>2 DEF ServersOK
  <2>5. new.id = row.id /\ new.name = row.name
    <3> HIDE DEF row
    <3> QED  BY <2>2 DEF ServerRows, WithId, row
  <2> HIDE DEF new, row
  <2>6. r.id = new.id => new \in servers'
    BY <2>3 DEF Update
  <2>7. r.id # new.id => r \in servers'
    BY <2>3 DEF Update
  <2> QED  BY <2>4, <2>5, <2>6, <2>7
<1>2. CASE ~ WriteStatus(t)
  <2>1. CASE At(t, "delete", "delete") /\ servers' = Delete(servers, task[t].key)
    BY <2>1 DEF Deletes, Delete
  <2>2. CASE servers \subseteq servers'
    BY <2>2
  <2> QED
    BY <1>2, <2>1, <2>2 DEF ServerStep, Create, GetServer, AskAgent, DeleteServer, Insert,
                            serverVars
<1> QED
  BY <1>1, <1>2

\* UPDATE of a schedule keeps its id, and so does the write at the end of a run.
LEMMA SchedulesKeepKeys ==
    ASSUME NEW t \in Tasks, ScheduleStep(t), NEW r \in schedules,
           ~ Deletes("removeSchedule", r.id)
    PROVE  \E s \in schedules' : s.id = r.id
<1>1. CASE At(t, "removeSchedule", "delete") /\ schedules' = Delete(schedules, task[t].key)
  BY <1>1 DEF Deletes, Delete
<1>2. CASE schedules \subseteq schedules'
  BY <1>2
<1>3. CASE schedules' = Update(schedules, Row(t))
  BY <1>3, UpdateKeepsRows
<1> QED
  BY <1>1, <1>2, <1>3
     DEF ScheduleStep, InsertSchedule, GetSchedule, WriteSchedule, Unregister, AddFunc,
         AssignEntry, RemoveSchedule, RunNow

\* An INSERT that a unique column refuses leaves the port to its owner.
LEMMA AllocationsKeepKeys ==
    ASSUME NEW t \in Tasks, AllocationStep(t), NEW r \in allocations,
           ~ Deletes("free", r.id)
    PROVE  r \in allocations'
<1>1. CASE At(t, "free", "delete") /\ allocations' = Delete(allocations, task[t].key)
  BY <1>1 DEF Deletes, Delete
<1>2. CASE allocations \subseteq allocations'
  BY <1>2
<1> QED
  BY <1>1, <1>2 DEF AllocationStep, GetFreePort, InsertAllocation, Free, Insert

\* UpdatePermissions writes the server and the e-mail of the row that is stored.
LEMMA SubusersKeepKeys ==
    ASSUME IInv, NEW t \in Tasks, SubuserStep(t), NEW r \in subusers,
           ~ Deletes("unsub", r.id)
    PROVE  \E s \in subusers' : s.id = r.id /\ s.server = r.server /\ s.email = r.email
<1>1. CASE At(t, "permit", "write") /\ subusers' = Update(subusers, Row(t))
  <2>1. SubusersOK /\ task[t].op = "permit" /\ task[t].pc = "write"
    BY <1>1 DEF IInv, At
  <2>2. task[t].held = {Row(t)}
    <3>1. Held(t, {x \in SubuserRows : x.id \in 1..calls})
      BY <2>1 DEF SubusersOK
    <3> QED  BY <3>1, HeldRow
  <2>3. Row(t).id = r.id => Row(t).server = r.server /\ Row(t).email = r.email
    BY <2>1, <2>2 DEF SubusersOK
  <2> DEFINE row == Row(t)
  <2>4. row.id = r.id => row \in subusers'
    BY <1>1 DEF Update
  <2>5. row.id # r.id => r \in subusers'
    BY <1>1 DEF Update
  <2> QED  BY <2>3, <2>4, <2>5
<1>2. CASE At(t, "unsub", "delete") /\ subusers' = Delete(subusers, task[t].key)
  BY <1>2 DEF Deletes, Delete
<1>3. CASE subusers \subseteq subusers'
  BY <1>3
<1> QED
  BY <1>1, <1>2, <1>3 DEF SubuserStep, Add, UpdatePermissions, Remove, Insert

\* Records only come and go.
LEMMA RecordsKeepKeys ==
    ASSUME NEW t \in Tasks, DatabaseStep(t), NEW r \in records,
           ~ Deletes("rmdb", r.id)
    PROVE  r \in records'
<1>1. CASE At(t, "rmdb", "delete") /\ records' = Delete(records, task[t].key)
  BY <1>1 DEF Deletes, Delete
<1>2. CASE records \subseteq records'
  BY <1>2
<1> QED
  BY <1>1, <1>2 DEF DatabaseStep, CreateDB, Sends, CreateDatabase, CreateUser, Grant,
     FlushPrivileges, InsertRecord, GetRecord, DropDatabase, DropUser, DeleteRecord,
     Insert, mysqlVars

\* A request's step on one table leaves the others alone.
LEMMA ServeKeepsKeys ==
    ASSUME IInv, NEW t \in Tasks, Serve(t)
    PROVE  RowsKeepKeys
<1>1. CASE ServerStep(t) /\ UNCHANGED resourceVars
  <2>1. UNCHANGED <<schedules, allocations, subusers, records>>
    BY <1>1 DEF ServerStep, scheduleVars, resourceVars
  <2> QED  BY <1>1, <2>1, ServersKeepKeys DEF RowsKeepKeys
<1>2. CASE ScheduleStep(t) /\ UNCHANGED resourceVars
  <2>1. UNCHANGED <<servers, allocations, subusers, records>>
    BY <1>2 DEF ScheduleStep, serverVars, resourceVars
  <2> QED  BY <1>2, <2>1, SchedulesKeepKeys DEF RowsKeepKeys
<1>3. CASE ResourceStep(t) /\ UNCHANGED <<serverVars, scheduleVars, run>>
  <2>1. UNCHANGED <<servers, schedules>>
    BY <1>3 DEF serverVars, scheduleVars
  <2>2. CASE AllocationStep(t)
    <3>1. UNCHANGED <<subusers, records>>
      BY <2>2 DEF AllocationStep, mysqlVars
    <3> QED  BY <2>1, <2>2, <3>1, AllocationsKeepKeys DEF RowsKeepKeys
  <2>3. CASE SubuserStep(t)
    <3>1. UNCHANGED <<allocations, records>>
      BY <2>3 DEF SubuserStep, mysqlVars
    <3> QED  BY <2>1, <2>3, <3>1, SubusersKeepKeys DEF RowsKeepKeys
  <2>4. CASE DatabaseStep(t)
    <3>1. UNCHANGED <<allocations, subusers>>
      BY <2>4 DEF DatabaseStep
    <3> QED  BY <2>1, <2>4, <3>1, RecordsKeepKeys DEF RowsKeepKeys
  <2> QED  BY <1>3, <2>2, <2>3, <2>4 DEF ResourceStep
<1> QED
  BY <1>1, <1>2, <1>3 DEF Serve

\* The unique columns of every table belong to the row that had them first,
\* although Create, Assign and Add look in an earlier statement than they insert,
\* drop errors of the look, and the updates write whole copies: two rows never
\* share them, and only the DELETE of a request for a row takes them from it.
THEOREM FirstComersKeepTheirKeys == Spec => FirstComeKeepsKey
<1>1. IInv => UniqueKeys
  BY DEF IInv, UniqueKeys, ServersOK, SchedulesOK, AllocationsOK, SubusersOK,
         DatabasesOK, Numbered
<1>2. ASSUME IInv, [Next]_vars
      PROVE  [RowsKeepKeys]_vars
  <2>1. ASSUME SameTables, \A r \in schedules : \E s \in schedules' : s.id = r.id
        PROVE  RowsKeepKeys
    BY <2>1 DEF SameTables, RowsKeepKeys
  <2>2. ASSUME NEW t \in Tasks, Call(t)
        PROVE  RowsKeepKeys
    <3>1. SameTables /\ schedules' = schedules
      BY <2>2 DEF Call, SameTables, resourceVars
    <3> QED  BY <2>1, <3>1
  <2>3. ASSUME NEW t \in Tasks, StatementError(t)
        PROVE  RowsKeepKeys
    <3>1. SameTables /\ schedules' = schedules
      BY <2>3 DEF StatementError, SameTables, resourceVars
    <3> QED  BY <2>1, <3>1
  <2>4. ASSUME NEW g \in Runs, RunAsksAgent(g) \/ RunEnds(g, TRUE) \/ RunEnds(g, FALSE)
        PROVE  RowsKeepKeys
    <3>1. SameTables
      BY <2>4 DEF RunAsksAgent, RunEnds, SameTables, resourceVars, serverVars
    <3>2. \/ schedules' = schedules
          \/ \E row \in {CHOOSE r \in run[g].rows : TRUE} :
               schedules' = Update(schedules, row)
      BY <2>4 DEF RunAsksAgent, RunEnds, scheduleVars
    <3> QED  BY <2>1, <3>1, <3>2, UpdateKeepsRows
  <2>5. CASE Fire \/ Reboot
    <3>1. SameTables /\ schedules' = schedules
      BY <2>5 DEF Fire, Reboot, SameTables, resourceVars, serverVars, scheduleVars
    <3> QED  BY <2>1, <3>1
  <2> QED  BY <1>2, <2>2, <2>3, <2>4, <2>5, ServeKeepsKeys DEF Next
<1>3. IInv /\ [Next]_vars => [RowsKeepKeys]_vars
  BY <1>2
<1> QED
  BY <1>1, <1>3, PanelInvariance, PTL DEF Spec, FirstComeKeepsKey
=============================================================================
