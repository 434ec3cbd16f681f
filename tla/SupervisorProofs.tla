-------------------------- MODULE SupervisorProofs --------------------------
(***************************************************************************)
(* Proofs about Supervisor, for every set of servers, callers and handles  *)
(* and every bound on the respawn attempts.  The safety properties are not *)
(* inductive by themselves: they rest on what the goroutines hold (a       *)
(* handle of the right server, spawned by this daemon), on fresh handles   *)
(* being unknown to everybody, and on a daemon that is down having neither *)
(* entries nor goroutines.                                                 *)
(***************************************************************************)
EXTENDS Supervisor, TLAPS

\* A registered handle belongs to its server and to the running daemon.
MapOK ==
    \A id \in Ids : servers[id] # None =>
        owner[servers[id]] = id /\ Managed(servers[id])

\* So does the handle a caller holds.
CallOK ==
    \A p \in Callers :
        /\ call[p].pc # "idle" => call[p].id \in Ids
        /\ call[p].pc \in {"found", "marked", "waiting", "killed", "exited",
                           "spawned"} => call[p].h # None
        /\ call[p].h # None =>
             owner[call[p].h] = call[p].id /\ Managed(call[p].h)

\* And the handle a watcher holds; only a watcher that may still respawn
\* without reaching the limit is on its way to do so.
WatchOK ==
    \A r \in Handles :
        /\ watch[r].pc # "off" => owner[r] \in Ids /\ Managed(r)
        /\ watch[r].pc \in {"stable", "wait", "spawned"} => watch[r].h # None
        /\ watch[r].h # None =>
             /\ watch[r].pc # "off"
             /\ owner[watch[r].h] = owner[r] /\ Managed(watch[r].h)
        /\ watch[r].pc \in {"backoff", "spawned"} =>
             watch[r].attempts < MaxRespawnAttempts

FreshOK == \A h \in Handles : life[h] = "unborn" => ~stopped[h]

\* A daemon that is down has no entries and no goroutines; the goroutines of
\* StopAll exist only while it runs.
DaemonOK ==
    /\ daemon = "down" =>
         /\ \A id \in Ids : servers[id] = None
         /\ \A p \in Callers : call[p] = Idle
         /\ \A r \in Handles : watch[r] = Unwatched
    /\ daemon # "draining" => \A id \in Ids : call[id].pc = "idle"

IInv ==
    /\ TypeOK /\ MapOK /\ CallOK /\ WatchOK /\ FreshOK /\ DaemonOK
    /\ RunningIsPersisted /\ RegisteredIsWatched
    /\ MarkedIsInHand /\ SpawnedIsPrivate

-----------------------------------------------------------------------------
(***************************************************************************)
(* A call                                                                  *)
(***************************************************************************)
\* A caller's steps keep the invariant.  The new handle of Start and Restart is
\* fresh, hence known to nobody (CallOK, WatchOK, MapOK); the handle a Restart
\* registers is private until then.
LEMMA CallStepKeeps ==
    ASSUME IInv, NEW p \in Callers, CallStep(p)
    PROVE  IInv'
<1> USE ConstantsAssumption
    DEF IInv, TypeOK, MapOK, CallOK, WatchOK, FreshOK, DaemonOK,
          RunningIsPersisted, RegisteredIsWatched, MarkedIsInHand, SpawnedIsPrivate,
        Call, Watch, Life, Status, Idle, Unwatched, Managed, Callers, Clients,
        handleVars, daemonVars
<1>1. CASE Start(p)
  <2> USE <1>1 DEF Start, StartServer, ServerIsRunning, IsRunning, Spawn,
                   Register, Return, Launched
  <2>1. TypeOK'
    BY SMTT(60) DEF Persisted
  <2>2. MapOK' /\ CallOK' /\ WatchOK' /\ FreshOK' /\ DaemonOK'
    BY SMTT(60)
  <2>3. RunningIsPersisted' /\ RegisteredIsWatched'
    BY SMTT(60) DEF Persisted
  <2>4. MarkedIsInHand'
    BY SMTT(60)
  <2>5. SpawnedIsPrivate'
    BY SMTT(60)
  <2> QED  BY <2>1, <2>2, <2>3, <2>4, <2>5
<1>2. CASE StartFails(p)
  BY <1>2, SMTT(60) DEF StartFails, Return, Persisted
<1>3. CASE Lookup(p)
  <2>1. /\ servers[call[p].id] \in Handles
        /\ owner[servers[call[p].id]] = call[p].id
        /\ Managed(servers[call[p].id]) /\ call[p].id \in Ids
    BY <1>3 DEF Lookup
  <2> USE <1>3, <2>1 DEF Lookup
  <2>2. TypeOK' /\ MapOK' /\ CallOK' /\ WatchOK' /\ FreshOK' /\ DaemonOK'
    BY SMTT(60)
  <2>3. RunningIsPersisted' /\ RegisteredIsWatched'
    BY SMTT(60) DEF Persisted
  <2>4. MarkedIsInHand'
    BY SMTT(60)
  <2>5. SpawnedIsPrivate'
    BY SMTT(60)
  <2> QED  BY <2>2, <2>3, <2>4, <2>5
<1>4. CASE LookupFails(p)
  BY <1>4 DEF LookupFails, Return, Persisted
<1>5. CASE MarkStopped(p)
  <2> USE <1>5 DEF MarkStopped, Goto
  <2>1. TypeOK' /\ MapOK' /\ CallOK' /\ WatchOK' /\ FreshOK' /\ DaemonOK'
    BY SMTT(60)
  <2>2. RunningIsPersisted' /\ RegisteredIsWatched'
    BY SMTT(60) DEF Persisted
  <2>3. MarkedIsInHand'
    BY SMTT(60)
  <2>4. SpawnedIsPrivate'
    <3>1. /\ call'[p].h = call[p].h /\ call'[p].pc = "marked"
          /\ \A q \in Callers \ {p} : call'[q] = call[q]
      BY SMTT(60)
    <3>2. \A g \in Handles : g # call[p].h => stopped'[g] = stopped[g]
      BY SMTT(60)
    <3> QED  BY <3>1, <3>2, SMTT(60)
  <2> QED  BY <2>1, <2>2, <2>3, <2>4
<1>6. CASE SendStop(p)
  <2> USE <1>6 DEF SendStop, Goto
  <2>1. call[p].h \in Handles
    BY SMTT(60)
  <2>2. TypeOK'
    <3>1. status' \in [Handles -> Status]
      BY SMTT(60)
    <3>2. call' \in [Callers -> Call]
      BY SMTT(60)
    <3> QED  BY <3>1, <3>2
  <2>3. MapOK' /\ CallOK' /\ WatchOK' /\ FreshOK' /\ DaemonOK'
    BY SMTT(60)
  <2>4. RunningIsPersisted' /\ RegisteredIsWatched'
    BY SMTT(60) DEF Persisted
  <2>5. MarkedIsInHand' /\ SpawnedIsPrivate'
    BY SMTT(60)
  <2> QED  BY <2>2, <2>3, <2>4, <2>5
<1>7. CASE StopTimesOut(p)
  BY <1>7, SMTT(60) DEF StopTimesOut, Goto, Persisted
<1>8. CASE HandleStopped(p)
  <2> USE <1>8 DEF HandleStopped, Goto
  <2>1. TypeOK' /\ MapOK' /\ CallOK' /\ WatchOK' /\ FreshOK' /\ DaemonOK'
    BY SMTT(60)
  <2>2. RunningIsPersisted' /\ RegisteredIsWatched'
    BY SMTT(60) DEF Persisted
  <2>3. MarkedIsInHand' /\ SpawnedIsPrivate'
    BY SMTT(60)
  <2> QED  BY <2>1, <2>2, <2>3
<1>9. CASE FinishStop(p)
  BY <1>9, SMTT(60) DEF FinishStop, Return, Persisted
<1>10. CASE RestartSpawn(p)
  BY <1>10, SMTT(60) DEF RestartSpawn, Spawn, Persisted
<1>11. CASE RestartSpawnFails(p)
  BY <1>11, SMTT(60) DEF RestartSpawnFails, Goto, Persisted
<1>12. CASE RestartRegister(p)
  <2> USE <1>12 DEF RestartRegister, Register, Return, Launched
  <2>1. TypeOK'
    BY SMTT(60) DEF Persisted
  <2>2. MapOK' /\ CallOK' /\ WatchOK' /\ FreshOK' /\ DaemonOK'
    BY SMTT(60)
  <2>3. RunningIsPersisted' /\ RegisteredIsWatched'
    BY SMTT(60) DEF Persisted
  <2>4. MarkedIsInHand'
    BY SMTT(60)
  <2>5. SpawnedIsPrivate'
    <3>1. \A q \in Callers :
            /\ call'[q].pc = "spawned" => q # p /\ call'[q] = call[q]
            /\ call'[q].h = call[q].h \/ call'[q].h = None
      BY SMTT(60)
    <3>2. \A r \in Handles :
            /\ watch'[r].pc = "spawned" => watch'[r] = watch[r]
            /\ watch'[r].h = watch[r].h \/ watch'[r].h = None
      BY SMTT(60)
    <3>3. /\ \A id \in Ids : servers'[id] = servers[id]
                                \/ servers'[id] = call[p].h
          /\ call[p].pc = "spawned" /\ call[p].h # None /\ UNCHANGED stopped
      BY SMTT(60)
    <3> QED  BY <3>1, <3>2, <3>3, SMTT(60)
  <2> QED  BY <2>1, <2>2, <2>3, <2>4, <2>5
<1>13. CASE RestartUnregister(p)
  BY <1>13, SMTT(60) DEF RestartUnregister, Register, Return, Persisted
<1> QED
  BY <1>1, <1>2, <1>3, <1>4, <1>5, <1>6, <1>7, <1>8, <1>9, <1>10, <1>11,
     <1>12, <1>13, ZenonT(60) DEF CallStep

-----------------------------------------------------------------------------
(***************************************************************************)
(* A watcher                                                               *)
(***************************************************************************)
\* A watcher may leave when its own handle is not registered any more or was
\* marked stopped.
LEMMA WatchEndsKeeps ==
    ASSUME IInv, NEW r \in Handles, WatchEnds(r), watch[r].pc # "off",
           \A id \in Ids : servers[id] = r => stopped[r],
           UNCHANGED <<servers, handleVars, call, stateFile, daemonVars>>
    PROVE  IInv'
<1> USE ConstantsAssumption
    DEF IInv, TypeOK, MapOK, CallOK, WatchOK, FreshOK, DaemonOK,
          RunningIsPersisted, RegisteredIsWatched, MarkedIsInHand, SpawnedIsPrivate,
        Call, Watch, Life, Status, Idle, Unwatched, Managed, Callers, Clients,
        handleVars, daemonVars, WatchEnds, Ended
<1>1. TypeOK' /\ MapOK' /\ CallOK' /\ WatchOK' /\ FreshOK' /\ DaemonOK'
  BY SMTT(60)
<1>2. RunningIsPersisted' /\ MarkedIsInHand'
  BY SMTT(60) DEF Persisted
<1>3. RegisteredIsWatched'
  BY SMTT(60)
<1>4. SpawnedIsPrivate'
  BY SMTT(60)
<1> QED  BY <1>1, <1>2, <1>3, <1>4

\* A watcher's steps keep the invariant.  The watcher launched with a handle
\* finds that handle as long as it is registered, and it leaves only when the
\* handle was marked stopped or the entry is another's.
LEMMA WatchStepKeeps ==
    ASSUME IInv, NEW r \in Handles, WatchStep(r)
    PROVE  IInv'
<1> USE ConstantsAssumption
    DEF IInv, TypeOK, MapOK, CallOK, WatchOK, FreshOK, DaemonOK,
          RunningIsPersisted, RegisteredIsWatched, MarkedIsInHand, SpawnedIsPrivate,
        Call, Watch, Life, Status, Idle, Unwatched, Managed, Callers, Clients,
        handleVars, daemonVars
<1>1. CASE WatchLookup(r)
  <2> DEFINE h == servers[owner[r]]
  <2>1. owner[r] \in Ids /\ Managed(r)
    BY <1>1 DEF WatchLookup
  <2>2. CASE h = None
    <3>1. ASSUME NEW id \in Ids, servers[id] = r PROVE FALSE
      <4>1. owner[r] = id
        BY <3>1
      <4> QED  BY <2>2, <3>1, <4>1
    <3> QED  BY ONLY IInv, <1>1, <2>2, <3>1, WatchEndsKeeps DEF WatchLookup
  <2>3. CASE h # None
    <3>1. /\ h \in Handles /\ owner[h] = owner[r] /\ Managed(h)
          /\ \A q \in Handles :
               watch[q].pc = "spawned" => watch[q].h # h
          /\ \A q \in Callers : call[q].pc = "spawned" => call[q].h # h
      BY <2>1, <2>3
    <3>2. \E pc \in {"stable", "wait"} :
             watch' = [watch EXCEPT ![r] = [pc |-> pc, h |-> h,
                                        attempts |-> watch[r].attempts]]
      BY <1>1, <2>3 DEF WatchLookup
    <3>3. UNCHANGED <<servers, handleVars, call, stateFile, daemonVars>>
      BY <1>1 DEF WatchLookup
    <3> HIDE DEF h
    <3>4. TypeOK' /\ MapOK' /\ CallOK' /\ FreshOK'
      BY <3>1, <3>2, <3>3
    <3>5. WatchOK' /\ DaemonOK'
      BY <1>1, <2>1, <3>1, <3>2, <3>3 DEF WatchLookup
    <3>6. RunningIsPersisted' /\ RegisteredIsWatched' /\ MarkedIsInHand'
      BY <3>1, <3>2, <3>3, <1>1 DEF Persisted, WatchLookup, h
    <3>7. SpawnedIsPrivate'
      BY <3>1, <3>2, <3>3
    <3> QED  BY <3>4, <3>5, <3>6, <3>7
  <2> QED  BY <2>2, <2>3
<1>2. CASE WatchStable(r)
  <2> USE <1>2 DEF WatchStable
  <2>1. TypeOK' /\ MapOK' /\ CallOK' /\ WatchOK' /\ FreshOK' /\ DaemonOK'
    BY SMTT(60)
  <2>2. RunningIsPersisted' /\ RegisteredIsWatched' /\ MarkedIsInHand'
    BY SMTT(60) DEF Persisted
  <2>3. SpawnedIsPrivate'
    BY SMTT(60)
  <2> QED  BY <2>1, <2>2, <2>3
<1>3. CASE WatchUnstable(r)
  BY <1>3, SMTT(60) DEF WatchUnstable, WatchGoto, Persisted
<1>4. CASE WatchDecide(r)
  <2>1. CASE stopped[watch[r].h]
    <3>1. \A id \in Ids : servers[id] = r => stopped[r]
      BY <1>4, <2>1 DEF WatchDecide
    <3> QED  BY ONLY IInv, <1>4, <2>1, <3>1, WatchEndsKeeps DEF WatchDecide
  <2>2. CASE ~stopped[watch[r].h]
    <3>1. \E pc \in {"giveup", "backoff"} :
            /\ pc = "backoff" => watch[r].attempts < MaxRespawnAttempts
            /\ watch' = [watch EXCEPT ![r] = [pc |-> pc, h |-> watch[r].h,
                                           attempts |-> watch[r].attempts]]
      BY <1>4, <2>2 DEF WatchDecide, WatchGoto
    <3>2. UNCHANGED <<servers, handleVars, call, stateFile, daemonVars>>
      BY <1>4 DEF WatchDecide
    <3>3. TypeOK' /\ MapOK' /\ CallOK' /\ FreshOK'
      BY <3>1, <3>2
    <3>4. WatchOK' /\ DaemonOK'
      BY <1>4, <3>1, <3>2 DEF WatchDecide
    <3>5. RunningIsPersisted' /\ RegisteredIsWatched' /\ MarkedIsInHand'
      BY <3>1, <3>2 DEF Persisted
    <3>6. SpawnedIsPrivate'
      BY <3>1, <3>2
    <3> QED  BY <3>3, <3>4, <3>5, <3>6
  <2> QED  BY <2>1, <2>2
<1>5. CASE WatchRespawn(r)
  BY <1>5, SMTT(60) DEF WatchRespawn, Spawn, Persisted
<1>6. CASE WatchRespawnFails(r)
  BY <1>6, SMTT(60) DEF WatchRespawnFails, WatchGoto, Persisted
<1>7. CASE WatchRegister(r)
  <2> DEFINE n == watch[r].h
             m == watch[r].attempts + 1
  <2>1. /\ n \in Handles /\ owner[n] = owner[r] /\ Managed(n)
        /\ owner[r] \in Ids /\ Managed(r) /\ m \in 0 .. MaxRespawnAttempts
        /\ ~stopped[n] /\ daemon # "down"
    BY <1>7 DEF WatchRegister
  <2>2. /\ servers' = [servers EXCEPT ![owner[r]] = n]
        /\ stateFile' = Persisted(servers', status')
        /\ watch' = [watch EXCEPT ![r] = Ended, ![n] = Launched(m)]
        /\ UNCHANGED <<handleVars, call, daemonVars>>
    BY <1>7 DEF WatchRegister, Register
  <2>3. /\ \A id \in Ids : servers[id] # n
        /\ \A p \in Callers : call[p].h # n
        /\ \A q \in Handles \ {r} : watch[q].h # n
    BY <1>7 DEF WatchRegister
  <2> HIDE DEF n, m
  <2> USE <2>1, <2>2, <2>3 DEF Ended, Launched
  <2>4. TypeOK'
    BY SMTT(60) DEF Persisted
  <2>5. MapOK' /\ CallOK' /\ WatchOK' /\ FreshOK' /\ DaemonOK'
    BY SMTT(60)
  <2>6. RunningIsPersisted' /\ RegisteredIsWatched'
    BY SMTT(60) DEF Persisted
  <2>7. MarkedIsInHand'
    BY SMTT(60)
  <2>8. SpawnedIsPrivate'
    <3>1. \A q \in Handles :
            /\ watch'[q].pc = "spawned" => q # r /\ watch'[q] = watch[q]
            /\ q # r => watch'[q].h # n
            /\ watch'[q].h = watch[q].h \/ watch'[q].h = None
      BY SMTT(60)
    <3>2. \A id \in Ids : servers'[id] = servers[id] \/ servers'[id] = n
      BY SMTT(60)
    <3>3. ASSUME NEW q \in Handles, watch'[q].pc = "spawned"
          PROVE  /\ \A id \in Ids : servers'[id] # watch'[q].h
                 /\ \A p \in Callers : call'[p].h # watch'[q].h
                 /\ \A t \in Handles \ {q} : watch'[t].h # watch'[q].h
                 /\ ~stopped'[watch'[q].h]
      BY <3>1, <3>2, <3>3, SMTT(60)
    <3>4. ASSUME NEW p \in Callers, call'[p].pc = "spawned"
          PROVE  /\ \A id \in Ids : servers'[id] # call'[p].h
                 /\ \A q \in Callers \ {p} : call'[q].h # call'[p].h
                 /\ \A t \in Handles : watch'[t].h # call'[p].h
                 /\ ~stopped'[call'[p].h]
      BY <3>1, <3>2, <3>4, SMTT(60)
    <3> QED  BY <3>3, <3>4
  <2> QED  BY <2>4, <2>5, <2>6, <2>7, <2>8
<1>8. CASE WatchUnregister(r)
  BY <1>8, SMTT(60)
  DEF WatchUnregister, Register, WatchEnds, Ended, Persisted
<1> QED
  BY <1>1, <1>2, <1>3, <1>4, <1>5, <1>6, <1>7, <1>8 DEF WatchStep

-----------------------------------------------------------------------------
(***************************************************************************)
(* Processes and the daemon                                                *)
(***************************************************************************)
\* A status only ever leaves "running", and a process that ends stays managed.
LEMMA ProcessStepKeeps ==
    ASSUME IInv, NEW h \in Handles, ProcessExits(h) \/ WaiterStep(h)
    PROVE  IInv'
<1> USE ConstantsAssumption
    DEF IInv, TypeOK, MapOK, CallOK, WatchOK, FreshOK, DaemonOK,
          RunningIsPersisted, RegisteredIsWatched, MarkedIsInHand, SpawnedIsPrivate,
        Call, Watch, Life, Status, Idle, Unwatched, Managed, Callers, Clients,
        daemonVars
<1>1. CASE ProcessExits(h)
  BY <1>1, SMTT(60) DEF ProcessExits, Alive, Persisted
<1>2. CASE Reap(h)
  BY <1>2, SMTT(60) DEF Reap, Persisted
<1>3. CASE CloseDone(h)
  BY <1>3, SMTT(60) DEF CloseDone, Persisted
<1> QED  BY <1>1, <1>2, <1>3 DEF WaiterStep

\* A request only fills in an idle caller's record.
LEMMA RequestKeeps ==
    ASSUME IInv, NEW c \in Clients, NEW op \in {"start", "stop", "restart"},
           NEW id \in Ids, Request(c, op, id)
    PROVE  IInv'
  BY ConstantsAssumption, SMTT(60)
  DEF IInv, TypeOK, MapOK, CallOK, WatchOK, FreshOK, DaemonOK,
          RunningIsPersisted, RegisteredIsWatched, MarkedIsInHand, SpawnedIsPrivate,
      Call, Watch, Life, Status, Idle, Unwatched, Managed, Callers, Clients,
      Request, Persisted, handleVars, daemonVars

\* A daemon that has halted has no entry and no goroutine left to speak of.
LEMMA HaltKeeps ==
    ASSUME IInv, NEW survivors \in SUBSET Handles, Halt(survivors)
    PROVE  IInv'
  BY ConstantsAssumption, SMTT(60)
  DEF IInv, TypeOK, MapOK, CallOK, WatchOK, FreshOK, DaemonOK,
          RunningIsPersisted, RegisteredIsWatched, MarkedIsInHand, SpawnedIsPrivate,
      Call, Watch, Life, Status, Idle, Unwatched, Managed, Callers, Clients,
      Halt, Alive, Persisted

\* The daemon's own steps: boot, restore, serve, shut down, crash.
LEMMA DaemonKeeps ==
    ASSUME IInv, Boot \/ Shutdown \/ DaemonStep \/ Crash
    PROVE  IInv'
<1> USE ConstantsAssumption
    DEF IInv, TypeOK, MapOK, CallOK, WatchOK, FreshOK, DaemonOK,
          RunningIsPersisted, RegisteredIsWatched, MarkedIsInHand, SpawnedIsPrivate,
        Call, Watch, Life, Status, Idle, Unwatched, Managed, Callers, Clients,
        handleVars, daemonVars
<1>1. CASE Boot
  BY <1>1, SMTT(60) DEF Boot, Persisted
<1>2. CASE Shutdown
  <2>1. UNCHANGED <<servers, handleVars, watch, stateFile, toRestore>>
    BY <1>2 DEF Shutdown
  <2> DEFINE stop(id) == [op |-> "stop", pc |-> "called", id |-> id, h |-> None]
  <2>2. \A id \in Ids :
           /\ stop(id) \in Call
           /\ stop(id).pc = "called" /\ stop(id).id = id /\ stop(id).h = None
    OBVIOUS
  <2>3. \A p \in Callers :
           call'[p] = IF p \in Ids /\ servers[p] # None THEN stop(p) ELSE call[p]
    BY <1>2 DEF Shutdown
  <2>4. daemon = "up" /\ daemon' = "draining" /\ DOMAIN call' = Callers
    BY <1>2 DEF Shutdown
  <2> HIDE DEF stop
  <2>5. call' \in [Callers -> Call]
    BY <1>2, <2>2 DEF Shutdown, stop
  <2>6. \A p \in Callers : call[p].pc # "idle" => call'[p] = call[p]
    BY <2>3, <2>4
  <2>7. \A p \in Callers : call'[p] # call[p] =>
           /\ call'[p].pc = "called" /\ call'[p].id \in Ids
           /\ call'[p].h = None
    BY <2>2, <2>3
  <2>8. TypeOK' /\ MapOK' /\ WatchOK' /\ FreshOK' /\ DaemonOK'
    BY <2>1, <2>4, <2>5
  <2>9. CallOK'
    BY <2>1, <2>5, <2>7
  <2>10. SpawnedIsPrivate'
    BY <2>1, <2>7
  <2>11. RunningIsPersisted' /\ RegisteredIsWatched'
    BY <2>1, <2>4 DEF Persisted
  <2>12. MarkedIsInHand'
    BY <2>1, <2>6
  <2> QED  BY <2>8, <2>9, <2>10, <2>11, <2>12
<1>3. ASSUME NEW id \in Ids, Restore(id)
      PROVE  IInv'
  <2> USE <1>3 DEF Restore, StartServer, ServerIsRunning, IsRunning, Spawn,
                   Register, Launched
  <2>1. TypeOK'
    BY SMTT(60) DEF Persisted
  <2>2. MapOK' /\ CallOK' /\ WatchOK' /\ FreshOK' /\ DaemonOK'
    BY SMTT(60)
  <2>3. RunningIsPersisted' /\ RegisteredIsWatched'
    BY SMTT(60) DEF Persisted
  <2>4. MarkedIsInHand'
    BY SMTT(60)
  <2>5. SpawnedIsPrivate'
    BY SMTT(60)
  <2> QED  BY <2>1, <2>2, <2>3, <2>4, <2>5
<1>4. ASSUME NEW id \in Ids, RestoreFails(id)
      PROVE  IInv'
  BY <1>4, SMTT(60) DEF RestoreFails, Persisted
<1>5. CASE Serve
  BY <1>5, SMTT(60) DEF Serve, Persisted
<1>6. CASE ClearState
  BY <1>6, SMTT(60) DEF ClearState, Persisted
<1>7. CASE ExitDaemon
  BY <1>7, HaltKeeps DEF ExitDaemon
<1>8. CASE Crash
  BY <1>8, HaltKeeps DEF Crash
<1> QED
  BY <1>1, <1>2, <1>3, <1>4, <1>5, <1>6, <1>7, <1>8 DEF DaemonStep

-----------------------------------------------------------------------------
(***************************************************************************)
(* The theorems                                                            *)
(***************************************************************************)
LEMMA InitEstablishes == Init => IInv
  BY ConstantsAssumption
  DEF Init, IInv, TypeOK, MapOK, CallOK, WatchOK, FreshOK, DaemonOK,
          RunningIsPersisted, RegisteredIsWatched, MarkedIsInHand, SpawnedIsPrivate,
      Call, Watch, Life, Status, Idle, Unwatched, Managed, Callers, Clients,
      Persisted

\* A step of something else changes nothing here.
LEMMA StutterKeeps == IInv /\ UNCHANGED vars => IInv'
  BY DEF vars, handleVars, daemonVars, IInv, TypeOK, MapOK, CallOK, WatchOK, FreshOK, DaemonOK,
          RunningIsPersisted, RegisteredIsWatched, MarkedIsInHand, SpawnedIsPrivate,
         Managed, Persisted

\* Every step keeps the inductive invariant.
LEMMA NextKeeps == IInv /\ [Next]_vars => IInv'
<1> SUFFICES ASSUME IInv, [Next]_vars PROVE IInv'
  BY SMTT(60)
<1>1. CASE Next
  BY <1>1, RequestKeeps, CallStepKeeps, WatchStepKeeps, ProcessStepKeeps,
     DaemonKeeps DEF Next
<1>2. CASE UNCHANGED vars
  BY <1>2, StutterKeeps
<1> QED  BY <1>1, <1>2

\* The inductive invariant holds in every reachable state.
THEOREM Invariance == Spec => []IInv
  BY InitEstablishes, NextKeeps, PTL DEF Spec

\* Every variable keeps its type; in particular the attempts of a watcher never
\* exceed maxRespawnAttempts.
THEOREM TypeCorrect == Spec => []TypeOK
  BY Invariance, PTL DEF IInv

\* Every running registered server is in daemon-state.json, however the calls,
\* the watchers and crashes of the daemon interleave.
THEOREM RunningAlwaysPersisted == Spec => []RunningIsPersisted
  BY Invariance, PTL DEF IInv

\* No registered server is left without its own watcher unless somebody stops
\* it, although watchers find their handle through the map.
THEOREM RegisteredAlwaysWatched == Spec => []RegisteredIsWatched
  BY Invariance, PTL DEF IInv

\* A registered handle marked stopped is always in the hands of a caller that
\* will remove or replace it.
THEOREM MarkedAlwaysInHand == Spec => []MarkedIsInHand
  BY Invariance, PTL DEF IInv

\* A spawned handle is nobody else's until it is registered.
THEOREM SpawnedAlwaysPrivate == Spec => []SpawnedIsPrivate
  BY Invariance, PTL DEF IInv
=============================================================================
