----------------------------- MODULE Supervisor -----------------------------
(***************************************************************************)
(* The process supervisor of the opd daemon: Supervisor (supervisor.go),   *)
(* process.Handle (handle.go) and the daemon's start and shutdown          *)
(* (daemon.go).  The goroutines are the callers of Start, Stop and Restart *)
(* (one per connection or HTTP request, and one per server in StopAll),    *)
(* the watcher launched for every registered handle, and the waiter of     *)
(* every spawned process.                                                  *)
(*                                                                         *)
(* A section run under Supervisor.mu is one step.  Everything the code     *)
(* does outside the lock (marking, stopping, waiting, sleeping, spawning)  *)
(* is a step of its own.                                                   *)
(***************************************************************************)
EXTENDS Naturals

CONSTANTS
    Ids,                 \* server ids
    TcpClients,          \* IPC connections: Shutdown waits for them (connWg)
    HttpClients,         \* HTTP requests: Shutdown does not wait for them
    Handles,             \* the handles that may ever be spawned: bounds the spawns
    MaxRespawnAttempts,  \* maxRespawnAttempts
    None                 \* no handle, no server

Clients == TcpClients \union HttpClients

\* The goroutine StopAll starts for the server id is named id itself.
Callers == Clients \union Ids

ASSUME ConstantsAssumption ==
    /\ Clients \intersect Ids = {}
    /\ None \notin Handles
    /\ None \notin Ids
    /\ MaxRespawnAttempts \in Nat

VARIABLES
    servers,    \* Supervisor.servers: the registered handle of a server
    owner,      \* cfg.ID of a handle
    life,       \* the OS process of a handle and its waiter
    status,     \* Handle.status
    stopped,    \* Handle.stopped
    call,       \* the call each caller is in
    watch,      \* watch[h]: the watcher launched when h was registered
    stateFile,  \* the ids in daemon-state.json
    daemon,     \* the phase of the daemon
    toRestore   \* ids RestoreState has still to start

handleVars == <<owner, life, status, stopped>>
daemonVars == <<daemon, toRestore>>
vars == <<servers, handleVars, call, watch, stateFile, daemonVars>>

-----------------------------------------------------------------------------
(***************************************************************************)
(* Types                                                                   *)
(***************************************************************************)
Life == {"unborn",   \* not spawned yet
         "up",       \* the Java process runs
         "exited",   \* it has ended, cmd.Wait has not returned
         "reaped",   \* the waiter has recorded the status
         "done",     \* doneCh is closed
         "orphan",   \* it runs, but the daemon that spawned it is gone
         "gone"}     \* neither the process nor its daemon exist any more

Status == {"none", "running", "stopping", "stopped", "crashed"}

Call == [op : {"start", "stop", "restart"},
         pc : {"idle", "called", "found", "marked", "waiting", "killed",
               "exited", "spawned", "failed"},
         id : Ids \union {None},
         h  : Handles \union {None}]

Watch == [pc : {"off", "lookup", "stable", "wait", "giveup", "backoff",
                "spawned", "failed", "ended"},
          h  : Handles \union {None},
          attempts : 0 .. MaxRespawnAttempts]

Idle == [op |-> "start", pc |-> "idle", id |-> None, h |-> None]

Unwatched == [pc |-> "off", h |-> None, attempts |-> 0]

Ended == [pc |-> "ended", h |-> None, attempts |-> 0]

TypeOK ==
    /\ servers \in [Ids -> Handles \union {None}]
    /\ owner \in [Handles -> Ids \union {None}]
    /\ life \in [Handles -> Life]
    /\ status \in [Handles -> Status]
    /\ stopped \in [Handles -> BOOLEAN]
    /\ call \in [Callers -> Call]
    /\ watch \in [Handles -> Watch]
    /\ stateFile \in SUBSET Ids
    /\ daemon \in {"down", "restoring", "up", "draining", "cleared"}
    /\ toRestore \in SUBSET Ids

-----------------------------------------------------------------------------
(***************************************************************************)
(* Operators                                                               *)
(***************************************************************************)
\* Handle.IsRunning.  The code also accepts "starting", which nothing sets.
IsRunning(h) == status[h] = "running"

\* Supervisor.IsRunning
ServerIsRunning(id) == servers[id] # None /\ IsRunning(servers[id])

\* The Java process of h exists.
Alive(h) == life[h] \in {"up", "orphan"}

\* h was spawned by the daemon that is running now.
Managed(h) == life[h] \in {"up", "exited", "reaped", "done"}

Done(h) == life[h] = "done"

\* Mutant of Persisted: saveState without the IsRunning test.
PersistsEveryEntry(srv, st) == {id \in Ids : srv[id] # None}

\* The ids saveState writes for the server map srv and the statuses st.
Persisted(srv, st) ==
    {id \in Ids : srv[id] # None /\ st[srv[id]] = "running"}

Return(p) == call' = [call EXCEPT ![p] = Idle]

Goto(p, pc) == call' = [call EXCEPT ![p].pc = pc]

WatchGoto(r, pc) == watch' = [watch EXCEPT ![r].pc = pc]

WatchEnds(r) == watch' = [watch EXCEPT ![r] = Ended]

\* process.Spawn succeeds with the new handle h for the server id.
Spawn(h, id) ==
    /\ life[h] = "unborn"
    /\ owner' = [owner EXCEPT ![h] = id]
    /\ life' = [life EXCEPT ![h] = "up"]
    /\ status' = [status EXCEPT ![h] = "running"]
    /\ UNCHANGED stopped

\* s.servers[id] = h (or delete, when h is None) followed by saveState.
Register(id, h) ==
    /\ servers' = [servers EXCEPT ![id] = h]
    /\ stateFile' = Persisted(servers', status')

\* Mutant of Launched: the watcher counts the attempt that its caller counted.
LaunchedOneOn(n) == [pc |-> "lookup", h |-> None, attempts |-> n + 1]

\* A watcher as `go s.watch(id, cfg, n)` launches it.
Launched(n) == [pc |-> "lookup", h |-> None, attempts |-> n]

\* Start once past its checks: spawn, register, save, launch the watcher.
StartServer(id) ==
    /\ ~ServerIsRunning(id)
    /\ \E h \in Handles :
         /\ Spawn(h, id)
         /\ Register(id, h)
         /\ watch' = [watch EXCEPT ![h] = Launched(0)]

-----------------------------------------------------------------------------
(***************************************************************************)
(* Calls                                                                   *)
(***************************************************************************)
\* A request reaches handleConn or handleServerAction.
Request(c, op, id) ==
    /\ daemon = "up"
    /\ call[c].pc = "idle"
    /\ call' = [call EXCEPT ![c] = [op |-> op, pc |-> "called",
                                    id |-> id, h |-> None]]
    /\ UNCHANGED <<servers, handleVars, watch, stateFile, daemonVars>>

Start(p) ==
    /\ call[p].op = "start" /\ call[p].pc = "called"
    /\ StartServer(call[p].id)
    /\ Return(p)
    /\ UNCHANGED daemonVars

\* Already running, no config, no jar, or the spawn fails.
StartFails(p) ==
    /\ call[p].op = "start" /\ call[p].pc = "called"
    /\ Return(p)
    /\ UNCHANGED <<servers, handleVars, watch, stateFile, daemonVars>>

\* Stop and Restart read the handle under RLock.
Lookup(p) ==
    /\ call[p].op \in {"stop", "restart"} /\ call[p].pc = "called"
    /\ servers[call[p].id] # None
    /\ call' = [call EXCEPT ![p].pc = "found", ![p].h = servers[call[p].id]]
    /\ UNCHANGED <<servers, handleVars, watch, stateFile, daemonVars>>

\* The server is not registered, or Restart finds no config or no jar.
LookupFails(p) ==
    /\ call[p].op \in {"stop", "restart"} /\ call[p].pc = "called"
    /\ servers[call[p].id] = None \/ call[p].op = "restart"
    /\ Return(p)
    /\ UNCHANGED <<servers, handleVars, watch, stateFile, daemonVars>>

\* Mutant of MarkStopped: the flag is not set.
MarksNothing(p) ==
    /\ call[p].pc = "found"
    /\ Goto(p, "marked")
    /\ UNCHANGED <<servers, handleVars, watch, stateFile, daemonVars>>

\* Handle.MarkStopped
MarkStopped(p) ==
    /\ call[p].pc = "found"
    /\ stopped' = [stopped EXCEPT ![call[p].h] = TRUE]
    /\ Goto(p, "marked")
    /\ UNCHANGED <<servers, owner, life, status, watch, stateFile, daemonVars>>

\* Handle.Stop sets "stopping", whatever the status was, and writes "stop".
SendStop(p) ==
    /\ call[p].pc = "marked"
    /\ status' = [status EXCEPT ![call[p].h] = "stopping"]
    /\ Goto(p, "waiting")
    /\ UNCHANGED <<servers, owner, life, stopped, watch, stateFile, daemonVars>>

\* Mutant of StopTimesOut: Handle.Stop without its timer.
NeverTimesOut(p) == FALSE

\* The 30 s timer of Handle.Stop fires first: Process.Kill, then <-doneCh.
StopTimesOut(p) ==
    /\ call[p].pc = "waiting"
    /\ Goto(p, "killed")
    /\ UNCHANGED <<servers, handleVars, watch, stateFile, daemonVars>>

\* Handle.Stop returns.
HandleStopped(p) ==
    /\ call[p].pc \in {"waiting", "killed"}
    /\ Done(call[p].h)
    /\ Goto(p, "exited")
    /\ UNCHANGED <<servers, handleVars, watch, stateFile, daemonVars>>

\* The end of Stop: saveState, and only then delete(s.servers, id).
FinishStop(p) ==
    /\ call[p].op = "stop" /\ call[p].pc = "exited"
    /\ stateFile' = Persisted(servers, status)
    /\ servers' = [servers EXCEPT ![call[p].id] = None]
    /\ Return(p)
    /\ UNCHANGED <<handleVars, watch, daemonVars>>

\* Mutant of RestartSpawn: the handle is published as soon as it is spawned.
RestartPublishesEarly(p) ==
    /\ call[p].op = "restart" /\ call[p].pc = "exited"
    /\ \E n \in Handles :
         /\ Spawn(n, call[p].id)
         /\ servers' = [servers EXCEPT ![call[p].id] = n]
         /\ call' = [call EXCEPT ![p].pc = "spawned", ![p].h = n]
    /\ UNCHANGED <<watch, stateFile, daemonVars>>

\* Restart spawns outside the lock.
RestartSpawn(p) ==
    /\ call[p].op = "restart" /\ call[p].pc = "exited"
    /\ \E n \in Handles :
         /\ Spawn(n, call[p].id)
         /\ call' = [call EXCEPT ![p].pc = "spawned", ![p].h = n]
    /\ UNCHANGED <<servers, watch, stateFile, daemonVars>>

RestartSpawnFails(p) ==
    /\ call[p].op = "restart" /\ call[p].pc = "exited"
    /\ Goto(p, "failed")
    /\ UNCHANGED <<servers, handleVars, watch, stateFile, daemonVars>>

\* Mutant of RestartRegister: no `go s.watch`.
RestartWithoutWatcher(p) ==
    /\ call[p].pc = "spawned"
    /\ UNCHANGED <<handleVars, watch, daemonVars>>
    /\ Register(call[p].id, call[p].h)
    /\ Return(p)

RestartRegister(p) ==
    /\ call[p].pc = "spawned"
    /\ UNCHANGED <<handleVars, daemonVars>>
    /\ Register(call[p].id, call[p].h)
    /\ watch' = [watch EXCEPT ![call[p].h] = Launched(0)]
    /\ Return(p)

\* Mutant of RestartUnregister: the error path forgets the delete.
RestartKeepsEntry(p) ==
    /\ call[p].pc = "failed"
    /\ stateFile' = Persisted(servers, status)
    /\ Return(p)
    /\ UNCHANGED <<servers, handleVars, watch, daemonVars>>

RestartUnregister(p) ==
    /\ call[p].pc = "failed"
    /\ UNCHANGED <<handleVars, watch, daemonVars>>
    /\ Register(call[p].id, None)
    /\ Return(p)

CallStep(p) ==
    \/ Start(p) \/ StartFails(p)
    \/ Lookup(p) \/ LookupFails(p)
    \/ MarkStopped(p) \/ SendStop(p) \/ StopTimesOut(p) \/ HandleStopped(p)
    \/ FinishStop(p)
    \/ RestartSpawn(p) \/ RestartSpawnFails(p)
    \/ RestartRegister(p) \/ RestartUnregister(p)

-----------------------------------------------------------------------------
(***************************************************************************)
(* Watchers: watch(id, cfg, attempts) with id = owner[r].  The watcher     *)
(* launched when r was registered looks its handle up in the map, so it    *)
(* may come to watch another one.                                          *)
(***************************************************************************)
WatchLookup(r) ==
    /\ watch[r].pc = "lookup"
    /\ LET h == servers[owner[r]] IN
       IF h = None
       THEN WatchEnds(r)
       ELSE watch' = [watch EXCEPT
                        ![r].h = h,
                        ![r].pc = IF watch[r].attempts > 0 THEN "stable"
                                                           ELSE "wait"]
    /\ UNCHANGED <<servers, handleVars, call, stateFile, daemonVars>>

\* stableAfter elapses: the attempts start again from 0.
WatchStable(r) ==
    /\ watch[r].pc = "stable"
    /\ watch' = [watch EXCEPT ![r] = [pc |-> "wait", h |-> watch[r].h,
                                      attempts |-> 0]]
    /\ UNCHANGED <<servers, handleVars, call, stateFile, daemonVars>>

\* The process ends before stableAfter.
WatchUnstable(r) ==
    /\ watch[r].pc = "stable"
    /\ Done(watch[r].h)
    /\ WatchGoto(r, "wait")
    /\ UNCHANGED <<servers, handleVars, call, stateFile, daemonVars>>

\* Mutant of WatchDecide: giving up leaves the dead entry in the map.
DecideJustLeaves(r) ==
    /\ watch[r].pc = "wait"
    /\ Done(watch[r].h)
    /\ IF stopped[watch[r].h] \/ watch[r].attempts >= MaxRespawnAttempts
       THEN WatchEnds(r)
       ELSE WatchGoto(r, "backoff")
    /\ UNCHANGED <<servers, handleVars, call, stateFile, daemonVars>>

\* <-h.Done(), then leave, give up or back off.
WatchDecide(r) ==
    /\ watch[r].pc = "wait"
    /\ Done(watch[r].h)
    /\ IF stopped[watch[r].h]
       THEN WatchEnds(r)
       ELSE WatchGoto(r, IF watch[r].attempts >= MaxRespawnAttempts
                         THEN "giveup" ELSE "backoff")
    /\ UNCHANGED <<servers, handleVars, call, stateFile, daemonVars>>

\* time.Sleep(delay) is over: spawn outside the lock.
WatchRespawn(r) ==
    /\ watch[r].pc = "backoff"
    /\ \E n \in Handles :
         /\ Spawn(n, owner[r])
         /\ watch' = [watch EXCEPT ![r].pc = "spawned", ![r].h = n]
    /\ UNCHANGED <<servers, call, stateFile, daemonVars>>

WatchRespawnFails(r) ==
    /\ watch[r].pc = "backoff"
    /\ WatchGoto(r, "failed")
    /\ UNCHANGED <<servers, handleVars, call, stateFile, daemonVars>>

\* Mutant of WatchRegister: saveState before the map is updated.
WatchSavesFirst(r) ==
    /\ watch[r].pc = "spawned"
    /\ stateFile' = Persisted(servers, status)
    /\ servers' = [servers EXCEPT ![owner[r]] = watch[r].h]
    /\ watch' = [watch EXCEPT ![r] = Ended,
                              ![watch[r].h] = Launched(watch[r].attempts + 1)]
    /\ UNCHANGED <<handleVars, call, daemonVars>>

WatchRegister(r) ==
    /\ watch[r].pc = "spawned"
    /\ UNCHANGED <<handleVars, call, daemonVars>>
    /\ Register(owner[r], watch[r].h)
    /\ watch' = [watch EXCEPT ![r] = Ended,
                              ![watch[r].h] = Launched(watch[r].attempts + 1)]

WatchUnregister(r) ==
    /\ watch[r].pc \in {"giveup", "failed"}
    /\ UNCHANGED <<handleVars, call, daemonVars>>
    /\ Register(owner[r], None)
    /\ WatchEnds(r)

WatchStep(r) ==
    \/ WatchLookup(r) \/ WatchStable(r) \/ WatchUnstable(r) \/ WatchDecide(r)
    \/ WatchRespawn(r) \/ WatchRespawnFails(r)
    \/ WatchRegister(r) \/ WatchUnregister(r)

-----------------------------------------------------------------------------
(***************************************************************************)
(* Processes and their waiters                                             *)
(***************************************************************************)
\* The Java process ends: a crash, its own shutdown, "stop" or a kill.
ProcessExits(h) ==
    /\ Alive(h)
    /\ life' = [life EXCEPT ![h] = IF life[h] = "up" THEN "exited" ELSE "gone"]
    /\ UNCHANGED <<servers, owner, status, stopped, call, watch, stateFile,
                   daemonVars>>

\* cmd.Wait returns: the waiter records the status under statusMu.
Reap(h) ==
    /\ life[h] = "exited"
    /\ life' = [life EXCEPT ![h] = "reaped"]
    /\ status' = [status EXCEPT ![h] = IF stopped[h] THEN "stopped"
                                                     ELSE "crashed"]
    /\ UNCHANGED <<servers, owner, stopped, call, watch, stateFile, daemonVars>>

\* Mutant of CloseDone: the waiter closes doneCh only after a crash.
CloseDoneIfCrashed(h) ==
    /\ life[h] = "reaped" /\ ~stopped[h]
    /\ life' = [life EXCEPT ![h] = "done"]
    /\ UNCHANGED <<servers, owner, status, stopped, call, watch, stateFile,
                   daemonVars>>

\* close(h.doneCh)
CloseDone(h) ==
    /\ life[h] = "reaped"
    /\ life' = [life EXCEPT ![h] = "done"]
    /\ UNCHANGED <<servers, owner, status, stopped, call, watch, stateFile,
                   daemonVars>>

WaiterStep(h) == Reap(h) \/ CloseDone(h)

-----------------------------------------------------------------------------
(***************************************************************************)
(* The daemon                                                              *)
(***************************************************************************)
\* The daemon process is gone, and with it every goroutine and handle.  The
\* Java processes in survivors keep running.
Halt(survivors) ==
    /\ daemon' = "down"
    /\ toRestore' = {}
    /\ servers' = [id \in Ids |-> None]
    /\ call' = [p \in Callers |-> Idle]
    /\ watch' = [h \in Handles |-> Unwatched]
    /\ life' = [h \in Handles |-> IF life[h] = "unborn" THEN "unborn"
                                  ELSE IF Alive(h) /\ h \in survivors
                                  THEN "orphan"
                                  ELSE "gone"]
    /\ status' = [h \in Handles |-> "none"]
    /\ stopped' = [h \in Handles |-> FALSE]
    /\ UNCHANGED <<owner, stateFile>>

\* New: RestoreState loads the file before any request is served.
Boot ==
    /\ daemon = "down"
    /\ daemon' = "restoring"
    /\ toRestore' = stateFile
    /\ UNCHANGED <<servers, handleVars, call, watch, stateFile>>

Restore(id) ==
    /\ daemon = "restoring" /\ id \in toRestore
    /\ StartServer(id)
    /\ toRestore' = toRestore \ {id}
    /\ UNCHANGED <<call, daemon>>

RestoreFails(id) ==
    /\ daemon = "restoring" /\ id \in toRestore
    /\ toRestore' = toRestore \ {id}
    /\ UNCHANGED <<servers, handleVars, call, watch, stateFile, daemon>>

\* ListenAndServe
Serve ==
    /\ daemon = "restoring" /\ toRestore = {}
    /\ daemon' = "up"
    /\ UNCHANGED <<servers, handleVars, call, watch, stateFile, toRestore>>

\* Shutdown closes the listeners; StopAll starts a Stop for each server.
Shutdown ==
    /\ daemon = "up"
    /\ daemon' = "draining"
    /\ call' = [p \in Callers |->
                  IF p \in Ids /\ servers[p] # None
                  THEN [op |-> "stop", pc |-> "called", id |-> p, h |-> None]
                  ELSE call[p]]
    /\ UNCHANGED <<servers, handleVars, watch, stateFile, toRestore>>

\* Mutant of ClearState: StopAll without wg.Wait.
ClearStateAtOnce ==
    /\ daemon = "draining"
    /\ daemon' = "cleared"
    /\ stateFile' = {}
    /\ UNCHANGED <<servers, handleVars, call, watch, toRestore>>

\* wg.Wait, then state.Save([]string{})
ClearState ==
    /\ daemon = "draining"
    /\ \A id \in Ids : call[id].pc = "idle"
    /\ daemon' = "cleared"
    /\ stateFile' = {}
    /\ UNCHANGED <<servers, handleVars, call, watch, toRestore>>

\* connWg.Wait, then the daemon process ends.
ExitDaemon ==
    /\ daemon = "cleared"
    /\ \A c \in TcpClients : call[c].pc = "idle"
    /\ \E survivors \in SUBSET Handles : Halt(survivors)

\* A signal other than os.Interrupt, a panic, a power failure.
Crash ==
    /\ daemon # "down"
    /\ \E survivors \in SUBSET Handles : Halt(survivors)

DaemonStep ==
    \/ \E id \in Ids : Restore(id) \/ RestoreFails(id)
    \/ Serve \/ ClearState \/ ExitDaemon

-----------------------------------------------------------------------------
Init ==
    /\ servers = [id \in Ids |-> None]
    /\ owner = [h \in Handles |-> None]
    /\ life = [h \in Handles |-> "unborn"]
    /\ status = [h \in Handles |-> "none"]
    /\ stopped = [h \in Handles |-> FALSE]
    /\ call = [p \in Callers |-> Idle]
    /\ watch = [h \in Handles |-> Unwatched]
    /\ stateFile = {}
    /\ daemon = "down"
    /\ toRestore = {}

Next ==
    \/ \E c \in Clients, op \in {"start", "stop", "restart"}, id \in Ids :
          Request(c, op, id)
    \/ \E p \in Callers : CallStep(p)
    \/ \E r \in Handles : WatchStep(r)
    \/ \E h \in Handles : ProcessExits(h) \/ WaiterStep(h)
    \/ Boot \/ Shutdown \/ DaemonStep \/ Crash

Spec == Init /\ [][Next]_vars

\* A caller has given up waiting and killed the process of h.
BeingKilled(h) == \E p \in Callers : call[p].pc = "killed" /\ call[p].h = h

\* The Go scheduler runs every goroutine that can run, timers fire, the RWMutex
\* starves nobody, and the kernel ends a killed process.  Nothing makes a
\* process end by itself, a client call, or the daemon boot or shut down.
Fairness ==
    /\ \A p \in Callers : WF_vars(CallStep(p))
    /\ \A r \in Handles : WF_vars(WatchStep(r))
    /\ \A h \in Handles : WF_vars(WaiterStep(h))
    /\ \A h \in Handles : WF_vars(BeingKilled(h) /\ ProcessExits(h))
    /\ WF_vars(DaemonStep)

FairSpec == Spec /\ Fairness

-----------------------------------------------------------------------------
(***************************************************************************)
(* Safety                                                                  *)
(***************************************************************************)
\* While the daemon has not cleared the file on purpose, every registered
\* server whose handle says "running" is in daemon-state.json, whichever of
\* Start, Stop, Restart and the watchers wrote the file last.
RunningIsPersisted ==
    daemon \in {"restoring", "up", "draining"} =>
        Persisted(servers, status) \subseteq stateFile

\* A registered handle nobody stopped has a watcher of its own, the one
\* launched with it, that has not left and will see its process die: a crash
\* is never overlooked, although watch looks its handle up by id.
RegisteredIsWatched ==
    \A id \in Ids : LET h == servers[id] IN
        h # None /\ ~stopped[h] =>
            \/ watch[h].pc = "lookup"
            \/ watch[h].pc \in {"stable", "wait"} /\ watch[h].h = h
            \/ watch[h].pc \in {"giveup", "backoff", "spawned", "failed"}

\* A registered handle that was marked stopped is in the hands of a Stop or a
\* Restart of its server that will still remove or replace it: no entry is left
\* behind that neither a watcher nor a caller cares for.
MarkedIsInHand ==
    \A id \in Ids : LET h == servers[id] IN
        h # None /\ stopped[h] =>
            \E p \in Callers :
                /\ call[p].id = id
                /\ \/ /\ call[p].pc \in {"marked", "waiting", "killed", "exited"}
                      /\ call[p].h = h
                   \/ call[p].pc \in {"spawned", "failed"}

\* A handle enters the map through one caller or one watcher only: the handle
\* a Restart or a watcher has spawned and not yet registered is held by nobody
\* else, is not in the map, and is not marked stopped.
SpawnedIsPrivate ==
    /\ \A p \in Callers : call[p].pc = "spawned" =>
         /\ \A id \in Ids : servers[id] # call[p].h
         /\ \A q \in Callers \ {p} : call[q].h # call[p].h
         /\ \A r \in Handles : watch[r].h # call[p].h
         /\ ~stopped[call[p].h]
    /\ \A r \in Handles : watch[r].pc = "spawned" =>
         /\ \A id \in Ids : servers[id] # watch[r].h
         /\ \A p \in Callers : call[p].h # watch[r].h
         /\ \A q \in Handles \ {r} : watch[q].h # watch[r].h
         /\ ~stopped[watch[r].h]

-----------------------------------------------------------------------------
(***************************************************************************)
(* Liveness                                                                *)
(***************************************************************************)
\* Every Start, Stop and Restart returns, although Stop waits for a process
\* that may ignore it and several callers may wait for the same one.
EveryCallReturns ==
    \A p \in Callers : call[p].pc # "idle" ~> call[p].pc = "idle"

\* A handle whose process is gone does not stay registered: it is replaced by
\* its watcher or a Restart, or removed by a Stop or by giving up.
DeadHandleLeaves ==
    \A id \in Ids, h \in Handles :
        (servers[id] = h /\ Done(h)) ~> servers[id] # h

\* A shutdown comes to its end, with watchers still respawning servers.
ShutdownEnds == daemon = "draining" ~> daemon = "down"

-----------------------------------------------------------------------------
(***************************************************************************)
(* What the documentation says and the code does not do                    *)
(***************************************************************************)
\* daemon.go answers "<id> stopped" when Stop returns: by then no process of
\* the server is left.  For a single client, so that no Start can interfere.
StopLeavesNoProcess ==
    [][\A p \in Clients :
         FinishStop(p) => ~\E h \in Handles : Alive(h) /\ owner[h] = call[p].id
      ]_vars

\* state.go: "State persists which servers were running so the daemon can
\* restore them on restart".  What RestoreState has still to start is in the
\* file, so that a crash in the middle of it loses nothing.
PendingRestoreIsPersisted ==
    daemon = "restoring" => toRestore \subseteq stateFile
=============================================================================
