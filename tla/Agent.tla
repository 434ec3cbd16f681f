------------------------------- MODULE Agent -------------------------------
(***************************************************************************)
(* The supervisor of the agent: the handlers start, stop and restart       *)
(* (api/server.rs), the registry (registry.rs), process::spawn and the     *)
(* watchdog task that every start launches (watchdog.rs).  A task runs     *)
(* alone while it holds the registry's mutex; between two locks any other  *)
(* task may run.  Nothing ever removes an entry, sets the status Running   *)
(* or Crashed, or raises intentional_stop.                                 *)
(***************************************************************************)
EXTENDS Naturals

CONSTANTS
    Ids,     \* server ids
    Tasks,   \* handler tasks: the HTTP requests that may be open at once
    Ops,     \* the requests that clients make: start, stop, restart
    Pids,    \* the processes that may ever be spawned: bounds the spawns
    None     \* no entry, no process, no server

ASSUME NoneAssumption == None \notin Pids /\ None \notin Ids

ASSUME OpsAssumption == Ops \subseteq {"start", "stop", "restart"}

VARIABLES
    registry,   \* ServerRegistry: status and pid of each registered server
    owner,      \* the server a process was spawned for
    running,    \* the processes that exist: is_alive
    task,       \* the request each handler task is in
    dog         \* dog[r]: the watchdog launched by the start that spawned r

vars == <<registry, owner, running, task, dog>>

Entry == [status : {"starting", "stopping", "stopped"},
          pid : Pids \union {None}]

NoEntry == [status |-> "none", pid |-> None]

Task == [op : {"start", "stop", "restart"},
         pc : {"idle", "called", "checked", "spawned"},
         id : Ids \union {None},
         pid : Pids \union {None}]

\* The status a watchdog has seen is that of an entry it has found.
Dog == [pc : {"seen"}, status : {"starting", "stopping", "stopped"},
        pid : Pids \union {None}]
       \union
       [pc : {"off", "sleep", "mark", "backoff", "spawned", "ended"},
        status : {"none"}, pid : Pids \union {None}]

Idle == [op |-> "start", pc |-> "idle", id |-> None, pid |-> None]

DogAt(pc) == [pc |-> pc, status |-> "none", pid |-> None]

\* Also: whenever a watchdog looks its server up it finds an entry (it would
\* end otherwise, watchdog.rs:25, and nobody would notice the next stop), and
\* no server is ever shown as running or crashed.
TypeOK ==
    /\ registry \in [Ids -> Entry \union {NoEntry}]
    /\ owner \in [Pids -> Ids \union {None}]
    /\ running \in SUBSET Pids
    /\ task \in [Tasks -> Task]
    /\ dog \in [Pids -> Dog]

Return(t) == task' = [task EXCEPT ![t] = Idle]

\* process::spawn succeeds.
Spawn(n, id) ==
    /\ owner[n] = None
    /\ owner' = [owner EXCEPT ![n] = id]
    /\ running' = running \union {n}

\* ServerRegistry::insert of a handle as process::spawn returns it.
Insert(id, n) ==
    registry' = [registry EXCEPT ![id] = [status |-> "starting", pid |-> n]]

-----------------------------------------------------------------------------
(***************************************************************************)
(* Handlers                                                                *)
(***************************************************************************)
Request(t, op, id) ==
    /\ task[t].pc = "idle"
    /\ task' = [task EXCEPT ![t] = [op |-> op, pc |-> "called", id |-> id,
                                    pid |-> None]]
    /\ UNCHANGED <<registry, owner, running, dog>>

\* start finds no entry, or one that is neither Running nor Starting.
Check(t) ==
    /\ task[t].op = "start" /\ task[t].pc = "called"
    /\ registry[task[t].id].status # "starting"
    /\ task' = [task EXCEPT ![t].pc = "checked"]
    /\ UNCHANGED <<registry, owner, running, dog>>

\* No configuration, already running, or process::spawn fails.
StartRefused(t) ==
    /\ task[t].op = "start" /\ task[t].pc \in {"called", "checked"}
    /\ Return(t)
    /\ UNCHANGED <<registry, owner, running, dog>>

StartSpawn(t) ==
    /\ task[t].pc = "checked"
    /\ \E n \in Pids :
         /\ Spawn(n, task[t].id)
         /\ task' = [task EXCEPT ![t] = [op |-> "start", pc |-> "spawned",
                                         id |-> task[t].id, pid |-> n]]
    /\ UNCHANGED <<registry, dog>>

\* Mutant of StartInsert: no tokio::spawn(watchdog::watch(...)).
InsertUnwatched(t) ==
    /\ task[t].pc = "spawned"
    /\ Insert(task[t].id, task[t].pid)
    /\ Return(t)
    /\ UNCHANGED <<owner, running, dog>>

\* Insert into the registry, start the watchdog, answer.
StartInsert(t) ==
    /\ task[t].pc = "spawned"
    /\ Insert(task[t].id, task[t].pid)
    /\ dog' = [dog EXCEPT ![task[t].pid] = DogAt("sleep")]
    /\ Return(t)
    /\ UNCHANGED <<owner, running>>

\* The client has gone: the server drops the handler while it waits for the
\* registry.  Dropping a handle does not end its process.
Dropped(t) ==
    /\ task[t].pc \in {"called", "spawned"}
    /\ Return(t)
    /\ UNCHANGED <<registry, owner, running, dog>>

\* stop and restart do the same: "stop" to stdin (try_send may fail, and the
\* process may ignore it) and the status Stopping.
Stop(t) ==
    /\ task[t].op \in {"stop", "restart"} /\ task[t].pc = "called"
    /\ registry' = [registry EXCEPT ![task[t].id] =
                      IF @ = NoEntry THEN NoEntry
                      ELSE [status |-> "stopping", pid |-> @.pid]]
    /\ Return(t)
    /\ UNCHANGED <<owner, running, dog>>

TaskStep(t) ==
    \/ Check(t) \/ StartRefused(t) \/ StartSpawn(t) \/ StartInsert(t)
    \/ Stop(t)

-----------------------------------------------------------------------------
(***************************************************************************)
(* Watchdogs                                                               *)
(***************************************************************************)
\* After 2 s: status and pid, read under the lock, used after it.  There is an
\* entry, or its status would be "none", which is not in Dog.
DogLook(r) ==
    /\ dog[r].pc = "sleep"
    /\ dog' = [dog EXCEPT ![r] = [pc |-> "seen",
                                  status |-> registry[owner[r]].status,
                                  pid |-> registry[owner[r]].pid]]
    /\ UNCHANGED <<registry, owner, running, task>>

\* The status seen is Stopping or Stopped and the process is dead.
DogFindsDead(r) ==
    /\ dog[r].pc = "seen"
    /\ dog[r].status \in {"stopping", "stopped"}
    /\ dog[r].pid \notin running
    /\ dog' = [dog EXCEPT ![r] = DogAt("mark")]
    /\ UNCHANGED <<registry, owner, running, task>>

\* Anything else: around the loop.
DogFindsNothing(r) ==
    /\ dog[r].pc = "seen"
    /\ dog[r].status = "starting" \/ dog[r].pid \in running
    /\ dog' = [dog EXCEPT ![r] = DogAt("sleep")]
    /\ UNCHANGED <<registry, owner, running, task>>

\* Mutants of DogMark: a server that was stopped is called crashed; and the
\* watchdog goes around the loop where it should restart the server.
DogMarksCrashed(r) ==
    /\ dog[r].pc = "mark"
    /\ registry' = [registry EXCEPT ![owner[r]] =
                      [status |-> "crashed", pid |-> None]]
    /\ dog' = [dog EXCEPT ![r] = DogAt("backoff")]
    /\ UNCHANGED <<owner, running, task>>

DogMarksOnly(r) ==
    /\ dog[r].pc = "mark"
    /\ registry' = [registry EXCEPT ![owner[r]] =
                      [status |-> "stopped", pid |-> None]]
    /\ dog' = [dog EXCEPT ![r] = DogAt("sleep")]
    /\ UNCHANGED <<owner, running, task>>

\* The entry, whichever it is by now, becomes Stopped and loses its pid.
DogMark(r) ==
    /\ dog[r].pc = "mark"
    /\ registry' = [registry EXCEPT ![owner[r]] =
                      [status |-> "stopped", pid |-> None]]
    /\ dog' = [dog EXCEPT ![r] = DogAt("backoff")]
    /\ UNCHANGED <<owner, running, task>>

\* After 5 s.
DogRespawn(r) ==
    /\ dog[r].pc = "backoff"
    /\ \E n \in Pids :
         /\ Spawn(n, owner[r])
         /\ dog' = [dog EXCEPT ![r] = [DogAt("spawned") EXCEPT !.pid = n]]
    /\ UNCHANGED <<registry, task>>

DogRespawnFails(r) ==
    /\ dog[r].pc = "backoff"
    /\ dog' = [dog EXCEPT ![r] = DogAt("ended")]
    /\ UNCHANGED <<registry, owner, running, task>>

DogInsert(r) ==
    /\ dog[r].pc = "spawned"
    /\ Insert(owner[r], dog[r].pid)
    /\ dog' = [dog EXCEPT ![r] = DogAt("sleep")]
    /\ UNCHANGED <<owner, running, task>>

DogStep(r) ==
    \/ DogLook(r) \/ DogFindsDead(r) \/ DogFindsNothing(r) \/ DogMark(r)
    \/ DogRespawn(r) \/ DogRespawnFails(r) \/ DogInsert(r)

-----------------------------------------------------------------------------
\* A crash, "stop", or any other end of the Java process.
ProcessExits(p) ==
    /\ p \in running
    /\ running' = running \ {p}
    /\ UNCHANGED <<registry, owner, task, dog>>

Init ==
    /\ registry = [id \in Ids |-> NoEntry]
    /\ owner = [p \in Pids |-> None]
    /\ running = {}
    /\ task = [t \in Tasks |-> Idle]
    /\ dog = [p \in Pids |-> DogAt("off")]

Next ==
    \/ \E t \in Tasks, op \in Ops, id \in Ids :
          Request(t, op, id)
    \/ \E t \in Tasks : TaskStep(t) \/ Dropped(t)
    \/ \E r \in Pids : DogStep(r)
    \/ \E p \in Pids : ProcessExits(p)

Spec == Init /\ [][Next]_vars

\* tokio runs every task that can run, its mutex is fair, and timers fire.
Fairness ==
    /\ \A t \in Tasks : WF_vars(TaskStep(t))
    /\ \A r \in Pids : WF_vars(DogStep(r))

FairSpec == Spec /\ Fairness

-----------------------------------------------------------------------------
\* Watchdogs are launched by starts, but one may end (a respawn that fails)
\* while another has just inserted a process for the same server, and a stale
\* one may overwrite the entry.  Still a server that is registered with a
\* process has a watchdog that will look at it, so a stop or a restart of it
\* is noticed (api/server.rs:202, watchdog.rs:29).
LiveIsWatched ==
    \A id \in Ids :
      registry[id].pid # None =>
        \E r \in Pids : owner[r] = id /\ dog[r].pc \in {"sleep", "seen", "mark"}

\* "Watchdog will auto-restart on process death" (api/server.rs:202): once the
\* process of a server that is stopping has ended, the server is started again,
\* unless a respawn fails, which ends its watchdog.
AutoRestart ==
    \A id \in Ids :
      (/\ registry[id].status = "stopping"
       /\ registry[id].pid \in Pids \ running)
        ~> \/ registry[id].status = "starting"
           \/ \E r \in Pids : owner[r] = id /\ dog[r].pc = "ended"

\* Where clients only start and stop, no process is launched for a server that
\* is stopped and for which no request is open: agent/README.md:24 gives
\* POST /servers/:id/stop as "Graceful stop", another thing than a restart.
StoppedStaysStopped ==
    [][\A id \in Ids :
         (registry[id].status = "stopped" /\ \A t \in Tasks : task[t].id # id)
           => \A p \in Pids : owner'[p] = id => owner[p] = id]_vars
=============================================================================
