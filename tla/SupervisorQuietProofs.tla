------------------------ MODULE SupervisorQuietProofs ------------------------
(***************************************************************************)
(* Proofs about SupervisorQuiet, for every set of servers, callers and     *)
(* handles: in the environment an operator gives it the supervisor         *)
(* implements ServerProcesses.  What the environment assumption buys is    *)
(* that each server has one actor at a time, a caller or the watcher of    *)
(* its registered handle, and that the entry of the server says which      *)
(* process there may be.                                                   *)
(***************************************************************************)
EXTENDS SupervisorQuiet, SupervisorProofs

\* The watcher of r is on its way to change the entry of its server, or has
\* not looked it up yet.
Busy(r) == watch[r].pc \in {"lookup", "giveup", "backoff", "spawned", "failed"}

\* A call is about a server, and no two are about the same.
OneCaller ==
    /\ \A p \in Callers : call[p].pc = "idle" => call[p].id = None
    /\ \A p, q \in Callers : call[p].id # None /\ call[p].id = call[q].id => p = q

\* A busy watcher is that of the registered handle, and no call is under way;
\* once it has looked up, the process has ended.
BusyOK ==
    \A r \in Handles : Busy(r) =>
        /\ servers[owner[r]] = r /\ ~stopped[r]
        /\ \A p \in Callers : call[p].id # owner[r]
        /\ watch[r].pc # "lookup" => Done(r)

\* Any other watcher waits for its own handle, which is registered or was
\* marked stopped.
WaitingOK ==
    \A r \in Handles : watch[r].pc \in {"stable", "wait"} =>
        watch[r].h = r /\ (servers[owner[r]] = r \/ stopped[r])

\* What is registered for the server a caller p is about.
CallerHolds(p, h) ==
    /\ call[p].pc = "called" /\ h # None => life[h] = "up" /\ ~stopped[h]
    /\ call[p].pc \in {"found", "marked", "waiting", "killed", "exited"} =>
         h = call[p].h
    /\ call[p].pc \notin {"idle", "called"} =>
         h # None /\ (stopped[h] <=> call[p].pc # "found")
    /\ call[p].pc \in {"found", "marked"} => life[h] = "up"
    /\ call[p].pc \in {"waiting", "killed", "exited"} => status[h] # "running"
    /\ call[p].pc \in {"exited", "spawned", "failed"} => Done(h)

CallersOK ==
    \A p \in Callers : call[p].pc # "idle" => CallerHolds(p, servers[call[p].id])

\* The caller or the watcher that has spawned h.
SpawnedBy(h) ==
    \/ \E p \in Callers : call[p].pc = "spawned" /\ call[p].h = h
    \/ \E r \in Handles : watch[r].pc = "spawned" /\ watch[r].h = h

\* A process is the one registered for its server, or about to be.
AliveOK ==
    \A h \in Handles : Alive(h) =>
        /\ life[h] = "up" /\ owner[h] \in Ids
        /\ servers[owner[h]] = h \/ SpawnedBy(h)

\* A process nobody stops says running, one that has ended does not.
StatusesOK ==
    \A h \in Handles :
        /\ life[h] = "up" /\ ~stopped[h] => status[h] = "running"
        /\ life[h] \in {"reaped", "done"} => status[h] # "running"

\* While a daemon restores nobody calls, and what it has still to start is not
\* registered.
RestoringOK ==
    daemon = "restoring" =>
        /\ \A p \in Callers : call[p].pc = "idle"
        /\ \A id \in toRestore : servers[id] = None

\* While one shuts down, StopAll alone calls, for each server still registered.
DrainingOK ==
    /\ \A id \in Ids : call[id].pc # "idle" =>
         call[id].id = id /\ call[id].op = "stop" /\ call[id].pc # "spawned"
    /\ daemon \in {"draining", "cleared"} =>
         /\ \A c \in Clients : call[c].pc = "idle"
         /\ \A id \in Ids : servers[id] # None => call[id].pc # "idle"
    /\ daemon = "cleared" => stateFile = {}

QInv ==
    /\ IInv /\ OneCaller /\ BusyOK /\ WaitingOK /\ CallersOK
    /\ AliveOK /\ StatusesOK /\ RestoringOK /\ DrainingOK

-----------------------------------------------------------------------------
(***************************************************************************)
(* A call                                                                  *)
(***************************************************************************)
\* What a caller knows: its server is its own, and nothing else is going on
\* with it.
LEMMA WhoCalls ==
    ASSUME QInv, NEW p \in Callers, call[p].pc # "idle"
    PROVE  /\ call[p].id \in Ids /\ call[p].id # None
           /\ daemon \in {"up", "draining"}
           /\ p \in Ids => /\ call[p].id = p /\ call[p].op = "stop"
                           /\ call[p].pc # "spawned"
           /\ daemon = "draining" => p \in Ids
           /\ \A q \in Callers \ {p} : call[q].id # call[p].id
           /\ \A r \in Handles : Busy(r) => owner[r] # call[p].id
           /\ CallerHolds(p, servers[call[p].id])
<1>1. call[p].id \in Ids /\ call[p].id # None
  BY ConstantsAssumption DEF QInv, IInv, CallOK
<1>2. daemon \in {"up", "draining"} /\ (daemon = "draining" => p \in Ids)
  BY DEF QInv, IInv, TypeOK, DaemonOK, RestoringOK, DrainingOK, Callers, Idle
<1>3. p \in Ids => call[p].id = p /\ call[p].op = "stop" /\ call[p].pc # "spawned"
  BY DEF QInv, DrainingOK
<1>4. \A q \in Callers \ {p} : call[q].id # call[p].id
  BY <1>1 DEF QInv, OneCaller
<1>5. \A r \in Handles : Busy(r) => owner[r] # call[p].id
  BY DEF QInv, BusyOK
<1>6. CallerHolds(p, servers[call[p].id])
  BY DEF QInv, CallersOK
<1> QED  BY <1>1, <1>2, <1>3, <1>4, <1>5, <1>6

\* A step of a call that touches nothing but the caller's record, and neither
\* spawns nor returns.
LEMMA CallGoes ==
    ASSUME QInv, IInv', NEW p \in Callers, call[p].pc \notin {"idle", "spawned"},
           \A q \in Callers \ {p} : call'[q] = call[q],
           call'[p].op = call[p].op, call'[p].id = call[p].id,
           call'[p].pc \notin {"idle", "spawned"},
           UNCHANGED <<servers, handleVars, watch, stateFile, daemonVars>>,
           CallerHolds(p, servers[call[p].id])'
    PROVE  QInv'
<1>1. \A q \in Callers : /\ call'[q].id = call[q].id /\ call'[q].op = call[q].op
                         /\ call'[q].pc = "idle" <=> call[q].pc = "idle"
                         /\ call'[q].pc = "spawned" \/ call[q].pc = "spawned" =>
                              call'[q] = call[q]
  OBVIOUS
<1> USE DEF handleVars, daemonVars
<1>2. OneCaller'
  BY <1>1 DEF QInv, OneCaller
<1>3. BusyOK'
  BY <1>1 DEF QInv, BusyOK, Busy, Done
<1>4. WaitingOK'
  BY DEF QInv, WaitingOK
<1>5. CallersOK'
  <2>1. ASSUME NEW q \in Callers \ {p}, call[q].pc # "idle"
        PROVE  CallerHolds(q, servers[call[q].id])'
    BY <1>1, <2>1 DEF QInv, CallersOK, CallerHolds, Done
  <2> QED  BY <1>1, <2>1 DEF CallersOK
<1>6. AliveOK'
  BY <1>1 DEF QInv, AliveOK, SpawnedBy, Alive
<1>7. StatusesOK' /\ RestoringOK' /\ DrainingOK'
  BY <1>1 DEF QInv, StatusesOK, RestoringOK, DrainingOK, Callers
<1> QED  BY <1>2, <1>3, <1>4, <1>5, <1>6, <1>7 DEF QInv

\* A call returns, and may have deleted the entry of its server, whose process
\* has ended.  StopAll's calls return only when there is no entry.
LEMMA CallEnds ==
    ASSUME QInv, IInv', NEW p \in Callers, call[p].pc \notin {"idle", "spawned"},
           Return(p), UNCHANGED <<handleVars, watch, daemonVars>>,
           \/ servers' = servers
           \/ /\ servers' = [servers EXCEPT ![call[p].id] = None]
              /\ Done(servers[call[p].id]) /\ stopped[servers[call[p].id]],
           p \in Ids => servers'[call[p].id] = None
    PROVE  QInv'
<1>0. PICK id \in Ids : id = call[p].id
  BY WhoCalls
<1>1. /\ call'[p] = Idle /\ \A q \in Callers \ {p} : call'[q] = call[q] /\ call[q].id # id
      /\ Idle.pc = "idle" /\ Idle.id = None
      /\ daemon \in {"up", "draining"} /\ daemon' = daemon
  BY <1>0, WhoCalls DEF QInv, IInv, TypeOK, Return, Idle, daemonVars
<1>2. \A i \in Ids \ {id} : servers'[i] = servers[i]
  BY <1>0 DEF QInv, IInv, TypeOK
<1>3. \A r \in Handles : Busy(r) => owner[r] # id
  BY <1>0, WhoCalls
<1> USE DEF handleVars, daemonVars
<1>4. OneCaller'
  BY <1>0, <1>1 DEF QInv, OneCaller
<1>5. BusyOK'
  BY <1>1, <1>2, <1>3, ConstantsAssumption DEF QInv, IInv, WatchOK, BusyOK, Busy, Done
<1>6. WaitingOK'
  BY <1>0, <1>2 DEF QInv, IInv, WatchOK, WaitingOK
<1>7. CallersOK'
  <2>1. ASSUME NEW q \in Callers \ {p}, call[q].pc # "idle"
        PROVE  CallerHolds(q, servers[call[q].id])'
    <3>1. call[q].id \in Ids \ {id} /\ CallerHolds(q, servers[call[q].id])
      BY <1>1, <2>1, WhoCalls
    <3>2. servers'[call'[q].id] = servers[call[q].id] /\ call'[q] = call[q]
      BY <1>1, <1>2, <3>1
    <3> QED  BY <3>1, <3>2 DEF CallerHolds, Done
  <2> QED  BY <1>1, <2>1 DEF CallersOK
<1>8. AliveOK'
  <2> SUFFICES ASSUME NEW h \in Handles, Alive(h)
               PROVE  /\ life[h] = "up" /\ owner[h] \in Ids
                      /\ servers'[owner[h]] = h \/ SpawnedBy(h)'
    BY DEF AliveOK, Alive
  <2>1. /\ life[h] = "up" /\ owner[h] \in Ids
        /\ servers[owner[h]] = h \/ SpawnedBy(h)
    BY DEF QInv, AliveOK
  <2>2. SpawnedBy(h) => SpawnedBy(h)'
    BY <1>1 DEF SpawnedBy
  <2>3. CASE servers[owner[h]] = h
    <3>1. CASE owner[h] = id
      BY <1>0, <2>1, <2>3, <3>1 DEF Done
    <3>2. CASE owner[h] # id
      BY <1>2, <2>1, <2>3, <3>2
    <3> QED  BY <3>1, <3>2
  <2> QED  BY <2>1, <2>2, <2>3
<1>9. StatusesOK' /\ RestoringOK'
  BY <1>1 DEF QInv, StatusesOK, RestoringOK
<1>10. DrainingOK'
  <2>1. \A i \in Ids : i # p => servers'[i] = servers[i] \/ servers'[i] = None
    BY <1>0, <1>2, <1>1 DEF QInv, IInv, TypeOK
  <2>2. p \in Ids => servers'[p] = None
    BY <1>0, WhoCalls
  <2> QED  BY <1>1, <2>1, <2>2 DEF QInv, DrainingOK, Callers
<1> QED  BY <1>4, <1>5, <1>6, <1>7, <1>8, <1>9, <1>10 DEF QInv

\* A server is started that has no entry and nobody's attention but p's, if
\* anyone's: Start and RestoreState.
LEMMA StartKeeps ==
    ASSUME QInv, IInv', NEW id \in Ids, servers[id] = None,
           NEW h \in Handles, Spawn(h, id), Register(id, h),
           watch' = [watch EXCEPT ![h] = Launched(0)],
           \A q \in Callers : /\ call'[q].id # id
                              /\ \/ call'[q] = call[q]
                                 \/ call[q].pc # "spawned" /\ call'[q] = Idle
    PROVE  BusyOK' /\ WaitingOK' /\ CallersOK' /\ AliveOK' /\ StatusesOK'
<1>1. /\ owner'[h] = id /\ life'[h] = "up" /\ status'[h] = "running"
      /\ life[h] = "unborn" /\ ~Managed(h) /\ ~Done(h) /\ stopped' = stopped /\ ~stopped[h]
  BY DEF QInv, IInv, TypeOK, FreshOK, Spawn, Managed, Done
<1>2. \A g \in Handles \ {h} : /\ owner'[g] = owner[g] /\ life'[g] = life[g]
                               /\ status'[g] = status[g] /\ watch'[g] = watch[g]
  BY DEF QInv, IInv, TypeOK, Spawn
<1>3. /\ servers'[id] = h /\ \A i \in Ids \ {id} : servers'[i] = servers[i] /\ servers[i] # h
      /\ h # None
  BY <1>1, ConstantsAssumption DEF QInv, IInv, TypeOK, MapOK, Register
<1>4. watch'[h].pc = "lookup" /\ watch[h].pc = "off"
  BY <1>1 DEF QInv, IInv, TypeOK, WatchOK, Launched
<1>5. BusyOK'
  <2> SUFFICES ASSUME NEW r \in Handles, Busy(r)'
               PROVE  /\ servers'[owner'[r]] = r /\ ~stopped'[r]
                      /\ \A p \in Callers : call'[p].id # owner'[r]
                      /\ watch'[r].pc # "lookup" => Done(r)'
    BY DEF BusyOK
  <2>1. CASE r = h
    BY <1>1, <1>3, <1>4, <2>1
  <2>2. CASE r # h
    <3>1. /\ servers[owner[r]] = r /\ ~stopped[r] /\ owner[r] \in Ids
          /\ \A p \in Callers : call[p].id # owner[r]
          /\ watch[r].pc # "lookup" => Done(r)
      BY <1>2, <2>2 DEF QInv, IInv, WatchOK, BusyOK, Busy
    <3>2. owner[r] # id
      BY <3>1, ConstantsAssumption
    <3>3. \A p \in Callers : call'[p].id # owner[r]
      BY <3>1, ConstantsAssumption DEF Idle
    <3> QED  BY <1>1, <1>2, <1>3, <2>2, <3>1, <3>2, <3>3 DEF Done
  <2> QED  BY <2>1, <2>2
<1>6. WaitingOK'
  BY <1>1, <1>2, <1>3, <1>4, ConstantsAssumption DEF QInv, IInv, WatchOK, WaitingOK
<1>7. CallersOK'
  <2> SUFFICES ASSUME NEW q \in Callers, call'[q].pc # "idle"
               PROVE  CallerHolds(q, servers[call[q].id])'
    BY DEF CallersOK
  <2>1. /\ call'[q] = call[q] /\ call[q].id \in Ids \ {id}
        /\ CallerHolds(q, servers[call[q].id])
    BY WhoCalls DEF Idle
  <2>2. PICK g \in Handles \union {None} : g = servers[call[q].id] /\ g # h
    BY <1>3, <2>1 DEF QInv, IInv, TypeOK
  <2>3. servers'[call'[q].id] = g
    BY <1>3, <2>1, <2>2
  <2>4. g # None => life'[g] = life[g] /\ status'[g] = status[g]
    BY <1>2, <2>2
  <2> QED  BY <1>1, <2>1, <2>2, <2>3, <2>4 DEF CallerHolds, Done
<1>8. AliveOK'
  <2> SUFFICES ASSUME NEW g \in Handles, Alive(g)'
               PROVE  /\ life'[g] = "up" /\ owner'[g] \in Ids
                      /\ servers'[owner'[g]] = g \/ SpawnedBy(g)'
    BY DEF AliveOK
  <2>1. CASE g = h
    BY <1>1, <1>3, <2>1
  <2>2. CASE g # h
    <3>1. /\ life[g] = "up" /\ owner[g] \in Ids
          /\ servers[owner[g]] = g \/ SpawnedBy(g)
      BY <1>2, <2>2 DEF QInv, AliveOK, Alive
    <3>2. SpawnedBy(g) => SpawnedBy(g)'
      BY <1>2, <1>4 DEF SpawnedBy
    <3>3. servers[owner[g]] = g => owner[g] # id
      BY ConstantsAssumption
    <3> QED  BY <1>2, <1>3, <2>2, <3>1, <3>2, <3>3
  <2> QED  BY <2>1, <2>2
<1>9. StatusesOK'
  BY <1>1, <1>2 DEF QInv, StatusesOK
<1> QED  BY <1>5, <1>6, <1>7, <1>8, <1>9

\* The steps of a call.
LEMMA QuietCallKeeps ==
    ASSUME QInv, IInv', NEW p \in Callers, CallStep(p)
    PROVE  QInv'
<1>0. /\ call[p] \in Call /\ call[p].pc # "idle" /\ UNCHANGED daemonVars
      /\ call \in [Callers -> Call] /\ servers \in [Ids -> Handles \union {None}]
      /\ stopped \in [Handles -> BOOLEAN] /\ status \in [Handles -> Status]
  BY DEF QInv, IInv, TypeOK, daemonVars, CallStep, Start, StartFails, Lookup,
         LookupFails, MarkStopped, SendStop, StopTimesOut, HandleStopped, FinishStop,
         RestartSpawn, RestartSpawnFails, RestartRegister, RestartUnregister
<1>1. PICK id \in Ids : id = call[p].id
  BY <1>0, WhoCalls
<1>2. /\ id # None /\ daemon \in {"up", "draining"}
      /\ p \in Ids => id = p /\ call[p].op = "stop" /\ call[p].pc # "spawned"
      /\ daemon = "draining" => p \in Ids
      /\ \A q \in Callers \ {p} : call[q].id # id
      /\ \A r \in Handles : Busy(r) => owner[r] # id
      /\ CallerHolds(p, servers[id])
  BY <1>0, <1>1, WhoCalls
<1>3. call[p].pc # "spawned" /\ call[p].pc # "called" /\ call[p].pc # "failed" =>
        /\ servers[id] = call[p].h /\ call[p].h \in Handles
  BY <1>0, <1>2 DEF CallerHolds, Call
<1>4. CASE Start(p)
  <2>1. servers[id] = None
    <3>1. ASSUME servers[id] # None  PROVE FALSE
      <4>1. life[servers[id]] = "up" /\ ~stopped[servers[id]] /\ servers[id] \in Handles
        BY <1>0, <1>2, <1>4, <3>1 DEF CallerHolds, Start
      <4>2. status[servers[id]] = "running"
        BY <4>1 DEF QInv, StatusesOK
      <4> QED
        BY <1>1, <1>4, <3>1, <4>2 DEF Start, StartServer, ServerIsRunning, IsRunning
    <3> QED  BY <3>1
  <2>2. PICK h \in Handles : /\ Spawn(h, id) /\ Register(id, h)
                             /\ watch' = [watch EXCEPT ![h] = Launched(0)]
    BY <1>1, <1>4 DEF Start, StartServer
  <2>3. /\ call'[p] = Idle /\ \A q \in Callers \ {p} : call'[q] = call[q]
        /\ p \notin Ids /\ call[p].pc = "called" /\ daemon = "up" /\ daemon' = "up"
    BY <1>0, <1>2, <1>4 DEF Start, Return, daemonVars
  <2>4. \A q \in Callers : /\ call'[q].id # id
                            /\ \/ call'[q] = call[q]
                               \/ call[q].pc # "spawned" /\ call'[q] = Idle
    BY <1>2, <2>3 DEF Idle
  <2>5. BusyOK' /\ WaitingOK' /\ CallersOK' /\ AliveOK' /\ StatusesOK'
    BY ONLY QInv, IInv', <2>1, <2>2, <2>4, StartKeeps
  <2>6. OneCaller' /\ RestoringOK' /\ DrainingOK'
    BY <2>3, ConstantsAssumption DEF QInv, OneCaller, RestoringOK, DrainingOK, Idle, Callers
  <2> QED  BY <2>5, <2>6 DEF QInv
<1>5. CASE StartFails(p)
  BY <1>0, <1>2, <1>5, CallEnds DEF StartFails
<1>6. CASE Lookup(p)
  <2>1. PICK h \in Handles : h = servers[id]
    BY <1>0, <1>1, <1>6 DEF Lookup
  <2>2. /\ call' = [call EXCEPT ![p].pc = "found", ![p].h = h]
        /\ UNCHANGED <<servers, handleVars, watch, stateFile, daemonVars>>
        /\ call[p].pc = "called" /\ h # None
    BY <1>1, <1>6, <2>1 DEF Lookup
  <2>3. /\ call'[p].op = call[p].op /\ call'[p].id = id
        /\ call'[p].pc = "found" /\ call'[p].h = h
        /\ \A q \in Callers \ {p} : call'[q] = call[q]
    BY <1>0, <1>1, <2>2 DEF Call
  <2>4. CallerHolds(p, servers[id])'
    BY <1>1, <1>2, <2>1, <2>2, <2>3 DEF CallerHolds, handleVars
  <2> QED
    BY <1>1, <2>2, <2>3, <2>4, CallGoes
<1>7. CASE LookupFails(p)
  BY <1>0, <1>1, <1>2, <1>7, CallEnds DEF LookupFails
<1>8. CASE StopTimesOut(p) \/ HandleStopped(p) \/ RestartSpawnFails(p)
  <2>1. /\ UNCHANGED <<servers, handleVars, watch, stateFile, daemonVars>>
        /\ call[p].pc \in {"waiting", "killed", "exited"}
    BY <1>8 DEF StopTimesOut, HandleStopped, RestartSpawnFails
  <2>2. /\ call'[p].op = call[p].op /\ call'[p].id = id /\ call'[p].h = call[p].h
        /\ \A q \in Callers \ {p} : call'[q] = call[q]
        /\ \/ call[p].pc = "waiting" /\ call'[p].pc = "killed"
           \/ /\ call[p].pc # "exited" /\ call'[p].pc = "exited" /\ Done(call[p].h)
           \/ call[p].pc = "exited" /\ call'[p].pc = "failed"
    BY <1>0, <1>1, <1>8 DEF StopTimesOut, HandleStopped, RestartSpawnFails, Goto, Call
  <2>3. CallerHolds(p, servers[id])'
    BY <1>1, <1>2, <2>1, <2>2 DEF CallerHolds, handleVars, Done
  <2> QED
    BY <1>1, <2>1, <2>2, <2>3, CallGoes
<1>9. CASE FinishStop(p) \/ RestartUnregister(p)
  <2>1. /\ servers' = [servers EXCEPT ![id] = None] /\ Return(p)
        /\ UNCHANGED <<handleVars, watch, daemonVars>>
        /\ call[p].pc \in {"exited", "failed"}
    BY <1>1, <1>9 DEF FinishStop, RestartUnregister, Register
  <2>2. Done(servers[id]) /\ stopped[servers[id]] /\ servers'[id] = None
    BY <1>0, <1>2, <2>1 DEF CallerHolds
  <2> QED
    BY <1>1, <2>1, <2>2, CallEnds
<1>10. CASE MarkStopped(p) \/ SendStop(p)
  <2>1. PICK h \in Handles : h = call[p].h /\ h = servers[id]
    BY <1>3, <1>10 DEF MarkStopped, SendStop
  <2>2. /\ UNCHANGED <<servers, owner, life, watch, stateFile, daemonVars>>
        /\ \/ /\ call[p].pc = "found" /\ Goto(p, "marked")
              /\ stopped' = [stopped EXCEPT ![h] = TRUE] /\ status' = status
           \/ /\ call[p].pc = "marked" /\ Goto(p, "waiting")
              /\ status' = [status EXCEPT ![h] = "stopping"] /\ stopped' = stopped
    BY <1>10, <2>1 DEF MarkStopped, SendStop
  <2>3. /\ call'[p].op = call[p].op /\ call'[p].id = id /\ call'[p].h = h
        /\ call'[p].pc \in {"marked", "waiting"}
        /\ \A q \in Callers \ {p} : call'[q] = call[q]
        /\ \/ call[p].pc = "found" /\ call'[p].pc = "marked"
           \/ call[p].pc = "marked" /\ call'[p].pc = "waiting"
    <3>1. PICK pc \in {"marked", "waiting"} :
            /\ Goto(p, pc)
            /\ \/ call[p].pc = "found" /\ pc = "marked"
               \/ call[p].pc = "marked" /\ pc = "waiting"
      BY <2>2
    <3>2. call' = [call EXCEPT ![p].pc = pc]
      BY <3>1 DEF Goto
    <3> QED  BY <1>0, <1>1, <2>1, <3>1, <3>2 DEF Call
  <2>4. /\ stopped'[h] /\ life[h] = "up" /\ owner[h] = id
        /\ call'[p].pc = "waiting" => status'[h] # "running"
        /\ \A g \in Handles \ {h} : stopped'[g] = stopped[g] /\ status'[g] = status[g]
    BY <1>0, <1>2, <2>1, <2>2, <2>3 DEF CallerHolds, QInv, IInv, MapOK
  <2> USE <2>2 DEF daemonVars
  <2>5. OneCaller'
    BY <1>0, <1>1, <2>3 DEF QInv, OneCaller
  <2>6. BusyOK'
    BY <1>1, <1>2, <2>1, <2>3, <2>4 DEF QInv, BusyOK, Busy, Done
  <2>7. WaitingOK'
    BY <2>4 DEF QInv, WaitingOK
  <2>8. CallersOK'
    <3>1. CallerHolds(p, servers[id])'
      BY <2>1, <2>3, <2>4, ConstantsAssumption DEF CallerHolds
    <3>2. ASSUME NEW q \in Callers \ {p}, call[q].pc # "idle"
          PROVE  CallerHolds(q, servers[call[q].id])'
      <4>1. PICK g \in Handles \union {None} : g = servers[call[q].id]
        BY <1>0, <3>2, WhoCalls
      <4>2. CallerHolds(q, g) /\ call[q].id \in Ids \ {id}
        BY <1>2, <3>2, <4>1, WhoCalls
      <4>3. g # h
        BY <2>4, <4>1, <4>2, ConstantsAssumption DEF QInv, IInv, MapOK
      <4> QED  BY <2>3, <2>4, <3>2, <4>1, <4>2, <4>3 DEF CallerHolds, Done
    <3> QED  BY <1>1, <2>3, <3>1, <3>2 DEF CallersOK
  <2>9. AliveOK'
    BY <2>2, <2>3 DEF QInv, AliveOK, Alive, SpawnedBy
  <2>10. StatusesOK'
    BY <2>2, <2>4, <1>0 DEF QInv, StatusesOK
  <2>11. RestoringOK' /\ DrainingOK'
    BY <1>0, <1>1, <1>2, <2>2, <2>3 DEF QInv, RestoringOK, DrainingOK, Callers
  <2> QED  BY <2>5, <2>6, <2>7, <2>8, <2>9, <2>10, <2>11 DEF QInv
<1>11. CASE RestartSpawn(p)
  <2>1. PICK n \in Handles :
          /\ Spawn(n, id)
          /\ call' = [call EXCEPT ![p].pc = "spawned", ![p].h = n]
          /\ UNCHANGED <<servers, watch, stateFile, daemonVars>>
          /\ call[p].op = "restart" /\ call[p].pc = "exited"
    BY <1>1, <1>11 DEF RestartSpawn
  <2>2. /\ call'[p].op = "restart" /\ call'[p].id = id /\ call'[p].h = n
        /\ call'[p].pc = "spawned"
        /\ \A q \in Callers \ {p} : call'[q] = call[q]
    BY <1>0, <1>1, <2>1 DEF Call
  <2>3. /\ ~Managed(n) /\ n # None /\ life'[n] = "up" /\ owner'[n] = id
        /\ status'[n] = "running" /\ stopped' = stopped
        /\ \A g \in Handles \ {n} : /\ life'[g] = life[g] /\ owner'[g] = owner[g]
                                    /\ status'[g] = status[g]
    BY <2>1, ConstantsAssumption DEF Spawn, Managed, QInv, IInv, TypeOK
  <2> USE <2>1 DEF daemonVars
  <2>4. OneCaller'
    BY <1>0, <1>1, <2>2 DEF QInv, OneCaller
  <2>5. \A r \in Handles : watch[r].pc # "off" => r # n
    BY <2>3 DEF QInv, IInv, WatchOK
  <2>6. BusyOK' /\ WaitingOK'
    <3>1. \A q \in Callers : call'[q].id = call[q].id
      BY <1>1, <2>2
    <3>2. \A r \in Handles : watch[r].pc # "off" => owner'[r] = owner[r] /\ life'[r] = life[r]
      BY <2>3, <2>5
    <3>3. ASSUME NEW r \in Handles, Busy(r)
          PROVE  /\ servers[owner'[r]] = r /\ ~stopped'[r]
                 /\ \A q \in Callers : call'[q].id # owner'[r]
                 /\ watch[r].pc # "lookup" => life'[r] = "done"
      <4>1. owner'[r] = owner[r] /\ life'[r] = life[r]
        BY <3>2, <3>3 DEF Busy
      <4>2. /\ servers[owner[r]] = r /\ ~stopped[r]
            /\ \A q \in Callers : call[q].id # owner[r]
            /\ watch[r].pc # "lookup" => life[r] = "done"
        BY <3>3 DEF QInv, BusyOK, Done
      <4> QED  BY <2>3, <3>1, <4>1, <4>2
    <3>4. WaitingOK'
      BY <2>3, <3>2 DEF QInv, WaitingOK
    <3> QED  BY <3>3, <3>4 DEF BusyOK, Busy, Done
  <2>7. CallersOK'
    <3>1. ASSUME NEW q \in Callers, call[q].pc # "idle"
          PROVE  /\ CallerHolds(q, servers[call[q].id]) /\ call[q].id \in Ids
                 /\ servers[call[q].id] # n
      BY <1>0, <2>3, <3>1, WhoCalls DEF QInv, IInv, MapOK
    <3>2. ASSUME NEW q \in Callers \ {p}, call[q].pc # "idle"
          PROVE  CallerHolds(q, servers[call[q].id])'
      <4>1. PICK g \in (Handles \union {None}) \ {n} : g = servers[call[q].id]
        BY <1>0, <3>1, <3>2
      <4>2. CallerHolds(q, g)
        BY <3>1, <3>2, <4>1
      <4>3. g # None => life'[g] = life[g] /\ status'[g] = status[g]
        BY <2>3, <4>1
      <4>4. call'[q] = call[q] /\ servers'[call'[q].id] = g
        BY <2>1, <2>2, <3>2, <4>1
      <4> QED  BY <2>3, <4>2, <4>3, <4>4 DEF CallerHolds, Done
    <3>3. CallerHolds(p, servers[id])'
      <4>1. /\ servers[id] \in Handles \ {n} /\ Done(servers[id])
            /\ stopped[servers[id]]
        BY <1>0, <1>1, <1>2, <3>1 DEF CallerHolds
      <4>2. life'[servers[id]] = "done"
        BY <2>3, <4>1 DEF Done
      <4> QED  BY <2>2, <2>3, <4>1, <4>2, ConstantsAssumption DEF CallerHolds, Done
    <3> QED  BY <1>1, <2>2, <3>2, <3>3 DEF CallersOK
  <2>8. AliveOK'
    <3>1. SpawnedBy(n)'
      BY <2>2 DEF SpawnedBy
    <3>2. \A g \in Handles : SpawnedBy(g) => SpawnedBy(g)'
      BY <2>2 DEF SpawnedBy
    <3> QED  BY <1>1, <2>3, <3>1, <3>2 DEF QInv, AliveOK, Alive
  <2>9. StatusesOK'
    BY <2>3 DEF QInv, StatusesOK
  <2>10. RestoringOK' /\ DrainingOK'
    BY <1>0, <1>2, <2>2 DEF QInv, RestoringOK, DrainingOK, Callers
  <2> QED  BY <2>4, <2>6, <2>7, <2>8, <2>9, <2>10 DEF QInv
<1>12. CASE RestartRegister(p)
  <2>1. PICK n \in Handles : n = call[p].h
    BY <1>0, <1>12 DEF RestartRegister, QInv, IInv, CallOK, Call
  <2>2. /\ servers' = [servers EXCEPT ![id] = n]
        /\ watch' = [watch EXCEPT ![n] = Launched(0)]
        /\ UNCHANGED <<handleVars, daemonVars>>
        /\ Return(p) /\ call[p].pc = "spawned" /\ daemon = "up"
    BY <1>0, <1>1, <1>2, <1>12, <2>1 DEF RestartRegister, Register
  <2>3. /\ owner[n] = id /\ ~stopped[n] /\ \A i \in Ids : servers[i] # n
        /\ ~Busy(n) /\ n # None
    BY <1>1, <2>1, <2>2, ConstantsAssumption
    DEF QInv, IInv, CallOK, SpawnedIsPrivate, BusyOK
  <2>4. /\ call'[p] = Idle /\ \A q \in Callers \ {p} : call'[q] = call[q]
        /\ servers'[id] = n /\ \A i \in Ids \ {id} : servers'[i] = servers[i]
        /\ \A r \in Handles \ {n} : watch'[r] = watch[r]
        /\ watch'[n].pc = "lookup"
    BY <1>0, <2>2 DEF Return, Launched, QInv, IInv, TypeOK
  <2>5. Done(servers[id]) /\ stopped[servers[id]]
    BY <1>2, <2>2 DEF CallerHolds
  <2> USE <2>2 DEF handleVars, daemonVars
  <2>6. OneCaller'
    BY <2>4 DEF QInv, OneCaller, Idle
  <2>7. BusyOK'
    <3> SUFFICES ASSUME NEW r \in Handles, Busy(r)'
                 PROVE  /\ servers'[owner[r]] = r /\ ~stopped[r]
                        /\ \A q \in Callers : call'[q].id # owner[r]
                        /\ watch'[r].pc # "lookup" => Done(r)
      BY DEF BusyOK, Done
    <3>1. CASE r = n
      BY <1>2, <2>3, <2>4, <3>1 DEF Idle
    <3>2. CASE r # n
      <4>1. Busy(r) /\ owner[r] \in Ids \ {id}
        BY <1>2, <2>4, <3>2 DEF QInv, IInv, WatchOK, Busy
      <4>2. \A q \in Callers : call'[q].id # owner[r]
        BY <2>4, <4>1, ConstantsAssumption DEF QInv, BusyOK, Idle
      <4> QED  BY <2>4, <3>2, <4>1, <4>2 DEF QInv, BusyOK
    <3> QED  BY <3>1, <3>2
  <2>8. WaitingOK'
    BY <2>4, <2>5 DEF QInv, IInv, WatchOK, WaitingOK
  <2>9. CallersOK'
    <3>1. ASSUME NEW q \in Callers \ {p}, call[q].pc # "idle"
          PROVE  CallerHolds(q, servers[call[q].id])'
      <4>1. CallerHolds(q, servers[call[q].id]) /\ call[q].id \in Ids \ {id}
        BY <1>2, <3>1, WhoCalls
      <4> QED  BY <2>4, <3>1, <4>1 DEF CallerHolds, Done
    <3> QED  BY <2>4, <3>1 DEF CallersOK, Idle
  <2>10. AliveOK'
    <3> SUFFICES ASSUME NEW g \in Handles, Alive(g)
                 PROVE  /\ life[g] = "up" /\ owner[g] \in Ids
                        /\ servers'[owner[g]] = g \/ SpawnedBy(g)'
      BY DEF AliveOK, Alive
    <3>1. /\ life[g] = "up" /\ owner[g] \in Ids
          /\ servers[owner[g]] = g \/ SpawnedBy(g)
      BY DEF QInv, AliveOK
    <3>2. servers[owner[g]] = g => owner[g] # id
      BY <2>5, <3>1 DEF Done
    <3>3. SpawnedBy(g) => g = n \/ SpawnedBy(g)'
      BY <2>1, <2>3, <2>4 DEF SpawnedBy, Busy
    <3> QED  BY <2>3, <2>4, <3>1, <3>2, <3>3
  <2>11. StatusesOK' /\ RestoringOK'
    BY DEF QInv, StatusesOK, RestoringOK
  <2>12. DrainingOK'
    BY <1>2, <2>4 DEF QInv, DrainingOK, Idle, Callers
  <2> QED  BY <2>6, <2>7, <2>8, <2>9, <2>10, <2>11, <2>12 DEF QInv
<1> QED
  BY <1>4, <1>5, <1>6, <1>7, <1>8, <1>9, <1>10, <1>11, <1>12 DEF CallStep

-----------------------------------------------------------------------------
(***************************************************************************)
(* A watcher                                                               *)
(***************************************************************************)
\* What a busy watcher knows: its handle is registered and nobody calls.
LEMMA WhoWatches ==
    ASSUME QInv, NEW r \in Handles, Busy(r)
    PROVE  /\ owner[r] \in Ids /\ r # None /\ servers[owner[r]] = r /\ ~stopped[r]
           /\ \A p \in Callers : call[p].id # owner[r]
           /\ watch[r].pc # "lookup" => Done(r)
           /\ \A q \in Handles \ {r} : Busy(q) => owner[q] # owner[r]
           /\ daemon \in {"restoring", "up"}
<1>1. owner[r] \in Ids /\ r # None
  BY ConstantsAssumption DEF QInv, IInv, WatchOK, Busy
<1>2. /\ servers[owner[r]] = r /\ ~stopped[r]
      /\ \A p \in Callers : call[p].id # owner[r]
      /\ watch[r].pc # "lookup" => Done(r)
  BY DEF QInv, BusyOK
<1>3. \A q \in Handles \ {r} : Busy(q) => owner[q] # owner[r]
  BY <1>2 DEF QInv, BusyOK
<1>4. daemon # "down"
  BY DEF QInv, IInv, DaemonOK, Busy, Unwatched
<1>5. daemon \notin {"draining", "cleared"}
  BY <1>1, <1>2 DEF QInv, DrainingOK, Callers
<1> QED  BY <1>1, <1>2, <1>3, <1>4, <1>5 DEF QInv, IInv, TypeOK

\* A step of a watcher that touches nothing but its own record.
LEMMA WatchGoes ==
    ASSUME QInv, IInv', NEW r \in Handles, watch[r].pc # "spawned",
           \A q \in Handles \ {r} : watch'[q] = watch[q],
           UNCHANGED <<servers, handleVars, call, stateFile, daemonVars>>,
           \/ watch'[r].pc = "ended"
           \/ /\ watch'[r].pc \in {"stable", "wait"} /\ watch'[r].h = r
              /\ servers[owner[r]] = r \/ stopped[r]
           \/ /\ watch'[r].pc \in {"giveup", "backoff", "failed"}
              /\ servers[owner[r]] = r /\ ~stopped[r] /\ Done(r)
              /\ \A p \in Callers : call[p].id # owner[r]
    PROVE  QInv'
<1> USE DEF handleVars, daemonVars
<1>1. OneCaller' /\ StatusesOK' /\ RestoringOK' /\ DrainingOK'
  BY DEF QInv, OneCaller, StatusesOK, RestoringOK, DrainingOK
<1>2. BusyOK'
  BY DEF QInv, BusyOK, Busy, Done
<1>3. WaitingOK'
  BY DEF QInv, WaitingOK
<1>4. CallersOK'
  BY DEF QInv, CallersOK, CallerHolds, Done
<1>5. AliveOK'
  BY DEF QInv, AliveOK, Alive, SpawnedBy
<1> QED  BY <1>1, <1>2, <1>3, <1>4, <1>5 DEF QInv

\* A watcher replaces or removes the entry of its server, whose process has
\* ended: x is the new handle, or None.
LEMMA WatchReplaces ==
    ASSUME QInv, IInv', NEW r \in Handles, Busy(r), watch[r].pc # "lookup",
           NEW x \in Handles \union {None}, servers'[owner[r]] = x,
           \A i \in Ids \ {owner[r]} : servers'[i] = servers[i],
           UNCHANGED <<handleVars, call, daemonVars>>,
           watch'[r] = Ended,
           \A q \in Handles \ {r} : \/ watch'[q] = watch[q]
                                    \/ q = x /\ watch'[q].pc = "lookup" /\ ~Busy(q),
           \A g \in Handles : watch[r].pc = "spawned" /\ watch[r].h = g => g = x,
           \/ x = None
           \/ x # r /\ x \in Handles /\ owner[x] = owner[r] /\ ~stopped[x]
    PROVE  QInv'
<1> USE DEF handleVars, daemonVars
<1>1. PICK id \in Ids : id = owner[r]
  BY WhoWatches
<1>2. /\ servers[id] = r /\ ~stopped[r] /\ Done(r)
      /\ \A p \in Callers : call[p].id # id
      /\ \A q \in Handles \ {r} : Busy(q) => owner[q] # id
      /\ daemon \in {"restoring", "up"}
  BY <1>1, WhoWatches
<1>3. servers'[id] = x /\ \A i \in Ids \ {id} : servers'[i] = servers[i]
  BY <1>1
<1>4. OneCaller' /\ StatusesOK'
  BY DEF QInv, OneCaller, StatusesOK
<1>5. RestoringOK' /\ DrainingOK'
  <2>1. RestoringOK'
    <3> SUFFICES ASSUME daemon = "restoring", NEW i \in toRestore
                 PROVE  servers'[i] = None
      BY DEF QInv, RestoringOK
    <3>1. servers[i] = None /\ i \in Ids
      BY DEF QInv, IInv, TypeOK, RestoringOK
    <3>2. i # id
      BY <1>2, <3>1, WhoWatches
    <3> QED  BY <1>3, <3>1, <3>2
  <2>2. DrainingOK'
    BY <1>2 DEF QInv, DrainingOK
  <2> QED  BY <2>1, <2>2
<1>6. BusyOK'
  <2> SUFFICES ASSUME NEW q \in Handles, Busy(q)'
               PROVE  /\ servers'[owner[q]] = q /\ ~stopped[q]
                      /\ \A p \in Callers : call[p].id # owner[q]
                      /\ watch'[q].pc # "lookup" => Done(q)
    BY DEF BusyOK, Done
  <2>1. q # r
    BY DEF Busy, Ended
  <2>2. CASE q = x /\ watch'[q].pc = "lookup"
    BY <1>1, <1>2, <1>3, <2>2, ConstantsAssumption
  <2>3. CASE watch'[q] = watch[q]
    <3>1. /\ servers[owner[q]] = q /\ ~stopped[q] /\ owner[q] \in Ids \ {id}
          /\ \A p \in Callers : call[p].id # owner[q]
          /\ watch[q].pc # "lookup" => Done(q)
      BY <1>2, <2>1, <2>3, WhoWatches DEF Busy
    <3> QED  BY <1>3, <2>3, <3>1
  <2> QED  BY <2>1, <2>2, <2>3
<1>7. WaitingOK'
  <2> SUFFICES ASSUME NEW q \in Handles, watch'[q].pc \in {"stable", "wait"}
               PROVE  watch'[q].h = q /\ (servers'[owner[q]] = q \/ stopped[q])
    BY DEF WaitingOK
  <2>1. q # r /\ watch'[q] = watch[q]
    BY DEF Ended
  <2>2. watch[q].h = q /\ (servers[owner[q]] = q \/ stopped[q]) /\ owner[q] \in Ids
    BY <2>1 DEF QInv, WaitingOK, IInv, WatchOK
  <2> QED  BY <1>2, <1>3, <2>1, <2>2
<1>8. CallersOK'
  <2>1. ASSUME NEW p \in Callers, call[p].pc # "idle"
        PROVE  CallerHolds(p, servers[call[p].id])'
    <3>1. call[p].id \in Ids \ {id} /\ CallerHolds(p, servers[call[p].id])
      BY <1>2, <2>1, WhoCalls
    <3> QED  BY <1>3, <3>1 DEF CallerHolds, Done
  <2> QED  BY <2>1 DEF CallersOK
<1>9. AliveOK'
  <2> SUFFICES ASSUME NEW g \in Handles, Alive(g)
               PROVE  /\ life[g] = "up" /\ owner[g] \in Ids
                      /\ servers'[owner[g]] = g \/ SpawnedBy(g)'
    BY DEF AliveOK, Alive
  <2>1. /\ life[g] = "up" /\ owner[g] \in Ids
        /\ servers[owner[g]] = g \/ SpawnedBy(g)
    BY DEF QInv, AliveOK
  <2>2. servers[owner[g]] = g => owner[g] # id
    BY <1>2, <2>1 DEF Done
  <2>3. SpawnedBy(g) => g = x \/ SpawnedBy(g)'
    BY DEF SpawnedBy, Busy
  <2>4. g = x => owner[g] = id
    BY <1>1, ConstantsAssumption
  <2> QED  BY <1>3, <2>1, <2>2, <2>3, <2>4
<1> QED  BY <1>4, <1>5, <1>6, <1>7, <1>8, <1>9 DEF QInv

\* The steps of a watcher.
LEMMA QuietWatchKeeps ==
    ASSUME QInv, IInv', NEW r \in Handles, WatchStep(r)
    PROVE  QInv'
<1>0. /\ watch \in [Handles -> Watch] /\ servers \in [Ids -> Handles \union {None}]
      /\ watch[r] \in Watch
  BY DEF QInv, IInv, TypeOK
<1>1. CASE WatchLookup(r)
  <2>1. Busy(r) /\ watch[r].pc = "lookup"
    BY <1>1 DEF WatchLookup, Busy
  <2>2. servers[owner[r]] = r /\ r # None
    BY <2>1, WhoWatches
  <2>3. \E pc \in {"stable", "wait"} : watch' = [watch EXCEPT ![r].h = r, ![r].pc = pc]
    BY <1>1, <2>2 DEF WatchLookup
  <2>4. /\ watch'[r].pc \in {"stable", "wait"} /\ watch'[r].h = r
        /\ \A q \in Handles \ {r} : watch'[q] = watch[q]
    BY <1>0, <2>3 DEF Watch
  <2> QED
    BY <1>1, <2>1, <2>2, <2>4, WatchGoes DEF WatchLookup
<1>2. CASE WatchStable(r) \/ WatchUnstable(r)
  <2>1. /\ watch[r].pc = "stable" /\ watch'[r].pc = "wait" /\ watch'[r].h = watch[r].h
        /\ \A q \in Handles \ {r} : watch'[q] = watch[q]
        /\ UNCHANGED <<servers, handleVars, call, stateFile, daemonVars>>
    BY <1>0, <1>2 DEF WatchStable, WatchUnstable, WatchGoto, Watch
  <2>2. watch[r].h = r /\ (servers[owner[r]] = r \/ stopped[r])
    BY <2>1 DEF QInv, WaitingOK
  <2> QED
    BY <2>1, <2>2, WatchGoes
<1>3. CASE WatchDecide(r)
  <2>1. /\ watch[r].pc = "wait" /\ Done(watch[r].h)
        /\ UNCHANGED <<servers, handleVars, call, stateFile, daemonVars>>
    BY <1>3 DEF WatchDecide
  <2>2. watch[r].h = r /\ (servers[owner[r]] = r \/ stopped[r])
    BY <2>1 DEF QInv, WaitingOK
  <2>3. CASE stopped[r]
    <3>1. watch'[r].pc = "ended" /\ \A q \in Handles \ {r} : watch'[q] = watch[q]
      BY <1>0, <1>3, <2>2, <2>3 DEF WatchDecide, WatchEnds, Ended
    <3> QED  BY <2>1, <3>1, WatchGoes
  <2>4. CASE ~stopped[r]
    <3>1. /\ watch'[r].pc \in {"giveup", "backoff"}
          /\ \A q \in Handles \ {r} : watch'[q] = watch[q]
      BY <1>0, <1>3, <2>2, <2>4 DEF WatchDecide, WatchGoto, Watch
    <3>2. ASSUME NEW p \in Callers, call[p].id = owner[r]  PROVE FALSE
      <4>1. call[p].pc # "idle"
        BY <2>1, <3>2, ConstantsAssumption DEF QInv, OneCaller, IInv, WatchOK
      <4>2. CallerHolds(p, r) /\ r # None /\ life[r] = "done"
        BY <2>1, <2>2, <2>4, <3>2, <4>1, ConstantsAssumption, WhoCalls DEF Done
      <4> QED  BY <2>4, <4>1, <4>2 DEF CallerHolds
    <3> QED  BY <2>1, <2>2, <2>4, <3>1, <3>2, WatchGoes
  <2> QED  BY <2>3, <2>4
<1>4. CASE WatchRespawnFails(r)
  <2>1. /\ watch[r].pc = "backoff" /\ watch'[r].pc = "failed"
        /\ \A q \in Handles \ {r} : watch'[q] = watch[q]
        /\ UNCHANGED <<servers, handleVars, call, stateFile, daemonVars>>
    BY <1>0, <1>4 DEF WatchRespawnFails, WatchGoto, Watch
  <2>2. Busy(r)
    BY <2>1 DEF Busy
  <2> QED
    BY <2>1, <2>2, WhoWatches, WatchGoes
<1>5. CASE WatchUnregister(r)
  <2>1. /\ servers' = [servers EXCEPT ![owner[r]] = None]
        /\ watch'[r] = Ended /\ \A q \in Handles \ {r} : watch'[q] = watch[q]
        /\ watch[r].pc \in {"giveup", "failed"}
        /\ UNCHANGED <<handleVars, call, daemonVars>>
    BY <1>0, <1>5 DEF WatchUnregister, Register, WatchEnds
  <2>2. Busy(r)
    BY <2>1 DEF Busy
  <2>3. servers'[owner[r]] = None /\ \A i \in Ids \ {owner[r]} : servers'[i] = servers[i]
    BY <1>0, <2>1, <2>2, WhoWatches
  <2> QED
    BY <2>1, <2>2, <2>3, WatchReplaces
<1>6. CASE WatchRegister(r)
  <2>1. /\ watch[r].pc = "spawned" /\ watch[r].h \in Handles
        /\ UNCHANGED <<handleVars, call, daemonVars>>
    BY <1>0, <1>6 DEF WatchRegister, QInv, IInv, WatchOK, Watch
  <2>2. PICK n \in Handles : n = watch[r].h
    BY <2>1
  <2>3. Busy(r) /\ servers[owner[r]] = r /\ owner[r] \in Ids
    BY <2>1, WhoWatches DEF Busy
  <2>4. /\ \A i \in Ids : servers[i] # n
        /\ ~stopped[n] /\ owner[n] = owner[r]
    BY <2>1, <2>2, ConstantsAssumption DEF QInv, IInv, WatchOK, SpawnedIsPrivate
  <2>5. n # r /\ ~Busy(n)
    BY <2>3, <2>4 DEF QInv, BusyOK
  <2>6. /\ servers' = [servers EXCEPT ![owner[r]] = n]
        /\ watch' = [watch EXCEPT ![r] = Ended, ![n] = Launched(watch[r].attempts + 1)]
    BY <1>6, <2>2 DEF WatchRegister, Register
  <2>7. /\ watch'[r] = Ended /\ watch'[n].pc = "lookup"
        /\ \A q \in Handles \ {r, n} : watch'[q] = watch[q]
    BY <1>0, <2>5, <2>6 DEF Launched
  <2>8. /\ \A q \in Handles \ {r} : \/ watch'[q] = watch[q]
                                    \/ q = n /\ watch'[q].pc = "lookup" /\ ~Busy(q)
        /\ \A g \in Handles : watch[r].pc = "spawned" /\ watch[r].h = g => g = n
        /\ n \in Handles \ {r} /\ owner[n] = owner[r] /\ ~stopped[n]
    BY <2>1, <2>2, <2>4, <2>5, <2>7
  <2>9. servers'[owner[r]] = n /\ \A i \in Ids \ {owner[r]} : servers'[i] = servers[i]
    BY <1>0, <2>3, <2>6
  <2> QED
    BY <2>1, <2>3, <2>7, <2>8, <2>9, WatchReplaces
<1>7. CASE WatchRespawn(r)
  <2>1. Busy(r) /\ watch[r].pc = "backoff"
    BY <1>7 DEF WatchRespawn, Busy
  <2>2. PICK n \in Handles :
          /\ Spawn(n, owner[r])
          /\ watch' = [watch EXCEPT ![r].pc = "spawned", ![r].h = n]
          /\ UNCHANGED <<servers, call, stateFile, daemonVars>>
    BY <1>7 DEF WatchRespawn
  <2>3. /\ owner[r] \in Ids /\ servers[owner[r]] = r /\ ~stopped[r] /\ Done(r)
        /\ \A p \in Callers : call[p].id # owner[r]
    BY <2>1, WhoWatches
  <2>4. /\ watch'[r].pc = "spawned" /\ watch'[r].h = n
        /\ \A q \in Handles \ {r} : watch'[q] = watch[q]
    BY <1>0, <2>2 DEF Watch
  <2>5. /\ ~Managed(n) /\ n # None /\ life'[n] = "up" /\ owner'[n] = owner[r]
        /\ status'[n] = "running" /\ stopped' = stopped
        /\ \A g \in Handles \ {n} : /\ life'[g] = life[g] /\ owner'[g] = owner[g]
                                    /\ status'[g] = status[g]
    BY <2>2, ConstantsAssumption DEF Spawn, Managed, QInv, IInv, TypeOK
  <2>6. \A q \in Handles : watch[q].pc # "off" => owner'[q] = owner[q] /\ life'[q] = life[q]
    BY <2>5 DEF QInv, IInv, WatchOK
  <2> USE <2>2 DEF daemonVars
  <2>7. OneCaller' /\ RestoringOK' /\ DrainingOK'
    BY DEF QInv, OneCaller, RestoringOK, DrainingOK
  <2>8. BusyOK'
    <3> SUFFICES ASSUME NEW q \in Handles, Busy(q)'
                 PROVE  /\ servers[owner'[q]] = q /\ ~stopped[q]
                        /\ \A p \in Callers : call[p].id # owner'[q]
                        /\ watch'[q].pc # "lookup" => life'[q] = "done"
      BY <2>5 DEF BusyOK, Done
    <3>1. Busy(q)
      BY <2>1, <2>4 DEF Busy
    <3>2. owner'[q] = owner[q] /\ life'[q] = life[q]
      BY <2>6, <3>1 DEF Busy
    <3>3. /\ servers[owner[q]] = q /\ ~stopped[q]
          /\ \A p \in Callers : call[p].id # owner[q]
          /\ watch[q].pc # "lookup" => life[q] = "done"
      BY <3>1, WhoWatches DEF Done
    <3> QED  BY <2>1, <2>4, <3>2, <3>3
  <2>9. WaitingOK'
    BY <2>4, <2>5, <2>6 DEF QInv, WaitingOK
  <2>10. CallersOK'
    <3> SUFFICES ASSUME NEW p \in Callers, call[p].pc # "idle"
                 PROVE  CallerHolds(p, servers[call[p].id])'
      BY DEF CallersOK
    <3>1. /\ CallerHolds(p, servers[call[p].id]) /\ call[p].id \in Ids
          /\ servers[call[p].id] # n
      BY <1>0, <2>5, WhoCalls DEF QInv, IInv, MapOK
    <3>2. PICK g \in (Handles \union {None}) \ {n} : g = servers[call[p].id]
      BY <1>0, <3>1
    <3>3. g # None => life'[g] = life[g] /\ status'[g] = status[g]
      BY <2>5, <3>2
    <3> QED  BY <2>5, <3>1, <3>2, <3>3 DEF CallerHolds, Done
  <2>11. AliveOK'
    <3>1. SpawnedBy(n)'
      BY <2>4 DEF SpawnedBy
    <3>2. \A g \in Handles : SpawnedBy(g) => SpawnedBy(g)'
      BY <2>1, <2>4 DEF SpawnedBy
    <3> QED  BY <2>3, <2>5, <3>1, <3>2 DEF QInv, AliveOK, Alive
  <2>12. StatusesOK'
    BY <2>5 DEF QInv, StatusesOK
  <2> QED  BY <2>7, <2>8, <2>9, <2>10, <2>11, <2>12 DEF QInv
<1> QED
  BY <1>1, <1>2, <1>3, <1>4, <1>5, <1>6, <1>7 DEF WatchStep

-----------------------------------------------------------------------------
(***************************************************************************)
(* Processes, requests and the daemon                                      *)
(***************************************************************************)
\* A process ends when nobody calls or a caller waits for it; its waiter
\* records that afterwards.
LEMMA QuietProcessKeeps ==
    ASSUME QInv, IInv', NEW h \in Handles, QuietExit(h) \/ WaiterStep(h)
    PROVE  QInv'
<1>1. /\ UNCHANGED <<servers, owner, stopped, call, watch, stateFile, daemonVars>>
      /\ life \in [Handles -> Life] /\ status \in [Handles -> Status]
      /\ servers \in [Ids -> Handles \union {None}] /\ None \notin Handles
  BY ConstantsAssumption
  DEF QuietExit, ProcessExits, WaiterStep, Reap, CloseDone, QInv, IInv, TypeOK, Status
<1>2. /\ \A g \in Handles \ {h} : life'[g] = life[g] /\ status'[g] = status[g]
      /\ status'[h] = status[h] \/ status'[h] \in {"stopped", "crashed"}
      /\ life'[h] \in {"exited", "reaped", "done"}
      /\ life'[h] \in {"reaped", "done"} => status'[h] # "running"
      /\ ~Done(h)
  <2>1. CASE QuietExit(h)
    <3>1. life[h] = "up"
      BY <2>1 DEF QuietExit, ProcessExits, QInv, AliveOK
    <3> QED  BY <1>1, <2>1, <3>1 DEF QuietExit, ProcessExits, Done
  <2>2. CASE Reap(h)
    BY <1>1, <2>2 DEF Reap, Done
  <2>3. CASE CloseDone(h)
    BY <1>1, <2>3 DEF CloseDone, Done, QInv, StatusesOK
  <2> QED  BY <2>1, <2>2, <2>3 DEF WaiterStep
<1>3. \A p \in Callers : call[p].id = owner[h] /\ life[h] = "up" =>
          call[p].pc \in {"waiting", "killed"}
  BY DEF QuietExit, WaiterStep, Reap, CloseDone
<1> USE <1>1 DEF daemonVars
<1>4. OneCaller' /\ WaitingOK' /\ RestoringOK' /\ DrainingOK'
  BY DEF QInv, OneCaller, WaitingOK, RestoringOK, DrainingOK
<1>5. BusyOK'
  BY <1>2 DEF QInv, BusyOK, Busy, Done
<1>6. CallersOK'
  <2> SUFFICES ASSUME NEW p \in Callers, call[p].pc # "idle"
               PROVE  CallerHolds(p, servers[call[p].id])'
    BY DEF CallersOK
  <2>1. CallerHolds(p, servers[call[p].id]) /\ call[p].id \in Ids
    BY WhoCalls
  <2>2. CASE servers[call[p].id] = h
    <3>1. owner[h] = call[p].id
      BY <2>1, <2>2 DEF QInv, IInv, MapOK
    <3>2. CASE life[h] = "up"
      BY <1>2, <1>3, <2>1, <2>2, <3>1, <3>2 DEF CallerHolds
    <3>3. CASE life[h] # "up"
      BY <1>2, <2>1, <2>2, <3>3 DEF CallerHolds
    <3> QED  BY <3>2, <3>3
  <2>3. CASE servers[call[p].id] # h
    <3>1. PICK g \in (Handles \union {None}) \ {h} : g = servers[call[p].id]
      BY <2>1, <2>3
    <3>2. g # None => life'[g] = life[g] /\ status'[g] = status[g]
      BY <1>2, <3>1
    <3> QED  BY <2>1, <3>1, <3>2 DEF CallerHolds, Done
  <2> QED  BY <2>2, <2>3
<1>7. AliveOK'
  BY <1>2 DEF QInv, AliveOK, Alive, SpawnedBy
<1>8. StatusesOK'
  BY <1>2 DEF QInv, StatusesOK
<1> QED  BY <1>4, <1>5, <1>6, <1>7, <1>8 DEF QInv

\* Calls arrive for servers nothing is going on with, one for each: from a
\* client, or from StopAll for every server that is registered.
LEMMA CallsArrive ==
    ASSUME QInv, IInv', daemon = "up", daemon' \in {"up", "draining"},
           UNCHANGED <<servers, handleVars, watch, stateFile>>,
           \A p \in Callers :
              \/ call'[p] = call[p]
              \/ /\ call[p].pc = "idle" /\ call'[p].pc = "called"
                 /\ call'[p].id \in Ids /\ Settled(call'[p].id)
                 /\ \A q \in Callers \ {p} : call'[q].id # call'[p].id,
           DrainingOK'
    PROVE  QInv'
<1> USE DEF handleVars
<1>1. OneCaller'
  BY ConstantsAssumption DEF QInv, OneCaller
<1>2. BusyOK'
  <2> SUFFICES ASSUME NEW r \in Handles, Busy(r), NEW p \in Callers, call'[p].id = owner[r]
               PROVE  FALSE
    BY DEF QInv, BusyOK, Busy, Done
  <2>1. call[p].id # owner[r]
    BY WhoWatches
  <2>2. Settled(owner[r])
    BY <2>1
  <2> QED  BY <2>2 DEF Settled, Busy
<1>3. WaitingOK' /\ StatusesOK' /\ RestoringOK'
  BY DEF QInv, WaitingOK, StatusesOK, RestoringOK
<1>4. CallersOK'
  <2>1. ASSUME NEW p \in Callers, call'[p] = call[p], call[p].pc # "idle"
        PROVE  CallerHolds(p, servers[call[p].id])'
    BY <2>1, WhoCalls DEF CallerHolds, Done
  <2>2. ASSUME NEW p \in Callers, call'[p].pc = "called", call'[p].id \in Ids,
               Settled(call'[p].id)
        PROVE  CallerHolds(p, servers[call[p].id])'
    <3>1. PICK id \in Ids : id = call'[p].id
      BY <2>2
    <3>2. servers[id] # None => life[servers[id]] = "up" /\ ~stopped[servers[id]]
      BY <2>2, <3>1 DEF Settled, QInv, IInv, MarkedIsInHand
    <3> QED  BY <2>2, <3>1, <3>2 DEF CallerHolds
  <2> QED  BY <2>1, <2>2 DEF CallersOK
<1>5. AliveOK'
  BY DEF QInv, AliveOK, Alive, SpawnedBy
<1> QED  BY <1>1, <1>2, <1>3, <1>4, <1>5 DEF QInv

\* A client's request, and the calls of StopAll.
LEMMA QuietRequestKeeps ==
    ASSUME QInv, IInv', NEW c \in Clients, NEW op \in {"start", "stop", "restart"},
           NEW id \in Ids, QuietRequest(c, op, id)
    PROVE  QInv'
<1>1. /\ Settled(id) /\ daemon = "up" /\ call[c].pc = "idle" /\ c \in Callers /\ c \notin Ids
      /\ UNCHANGED <<servers, handleVars, watch, stateFile, daemonVars>>
  BY ConstantsAssumption DEF QuietRequest, Request, Callers
<1>2. /\ call'[c].pc = "called" /\ call'[c].id = id
      /\ \A q \in Callers \ {c} : call'[q] = call[q]
  BY <1>1 DEF QuietRequest, Request, QInv, IInv, TypeOK
<1>3. \A q \in Callers \ {c} : call'[q].id # id
  BY <1>1, <1>2 DEF Settled
<1>4. DrainingOK'
  BY <1>1, <1>2 DEF QInv, DrainingOK, Callers, daemonVars
<1> QED
  BY <1>1, <1>2, <1>3, <1>4, CallsArrive DEF daemonVars

\* A Shutdown begins while every server is settled: StopAll then calls for each
\* registered one, and nobody else does.
LEMMA QuietShutdownKeeps ==
    ASSUME QInv, IInv', QuietShutdown
    PROVE  QInv'
<1>1. /\ \A id \in Ids : Settled(id)
      /\ daemon = "up" /\ daemon' = "draining"
      /\ UNCHANGED <<servers, handleVars, watch, stateFile>>
  BY DEF QuietShutdown, Shutdown
<1>2. \A p \in Callers : call[p].pc = "idle"
  <2> SUFFICES ASSUME NEW p \in Callers, call[p].pc # "idle"  PROVE FALSE
    OBVIOUS
  <2>1. call[p].id \in Ids
    BY WhoCalls
  <2> QED  BY <1>1, <2>1 DEF Settled
<1>3. \A p \in Callers :
        IF p \in Ids /\ servers[p] # None
        THEN call'[p].pc = "called" /\ call'[p].id = p /\ call'[p].op = "stop"
        ELSE call'[p] = call[p]
  BY DEF QuietShutdown, Shutdown
<1>4. \A p \in Callers : call[p].id = None
  BY <1>2 DEF QInv, OneCaller
<1>5. DrainingOK'
  BY <1>1, <1>2, <1>3, ConstantsAssumption DEF DrainingOK, Callers
<1>6. ASSUME NEW p \in Callers, p \in Ids, servers[p] # None
      PROVE  \A q \in Callers \ {p} : call'[q].id # call'[p].id
  BY <1>3, <1>4, <1>6, ConstantsAssumption
<1> QED
  BY <1>1, <1>2, <1>3, <1>5, <1>6, CallsArrive

\* The daemon's other steps.  One that has cleared its state has no process
\* left, so that none survives its end.
LEMMA NoneLeft ==
    ASSUME QInv, daemon = "cleared"
    PROVE  stateFile = {} /\ \A h \in Handles : ~Alive(h)
<1>1. \A p \in Callers : call[p].pc = "idle"
  BY DEF QInv, IInv, DaemonOK, DrainingOK, Callers
<1>2. \A id \in Ids : servers[id] = None
  BY <1>1 DEF QInv, DrainingOK, Callers
<1>3. ASSUME NEW h \in Handles, Alive(h)  PROVE FALSE
  <2>1. owner[h] \in Ids /\ (servers[owner[h]] = h \/ SpawnedBy(h))
    BY <1>3 DEF QInv, AliveOK
  <2>2. SpawnedBy(h)
    BY <1>2, <2>1, ConstantsAssumption
  <2>3. PICK r \in Handles : watch[r].pc = "spawned"
    BY <1>1, <2>2 DEF SpawnedBy
  <2> QED  BY <2>3, WhoWatches DEF Busy
<1> QED  BY <1>3 DEF QInv, DrainingOK

\* A daemon ends and leaves nothing behind.
LEMMA QuietHaltKeeps ==
    ASSUME QInv, IInv', NEW survivors \in SUBSET Handles, Halt(survivors),
           \A h \in survivors : ~Alive(h)
    PROVE  QInv'
<1>1. /\ daemon' = "down" /\ toRestore' = {} /\ stopped' = [h \in Handles |-> FALSE]
      /\ \A p \in Callers : call'[p] = Idle
      /\ \A r \in Handles : watch'[r] = Unwatched
      /\ \A h \in Handles : life'[h] \in {"unborn", "gone"}
  BY DEF Halt
<1> QED
  BY <1>1, ConstantsAssumption
  DEF QInv, OneCaller, BusyOK, Busy, WaitingOK, CallersOK, AliveOK, Alive, StatusesOK,
      RestoringOK, DrainingOK, Idle, Unwatched, Callers

\* The other steps of the daemon: boot, restore, serve, clear the file, end, die
\* with its processes.
LEMMA QuietDaemonKeeps ==
    ASSUME QInv, IInv', Boot \/ DaemonStep \/ QuietCrash
    PROVE  QInv'
<1>1. CASE Boot \/ Serve \/ \E id \in Ids : RestoreFails(id)
  <2>1. UNCHANGED <<servers, handleVars, call, watch>>
    BY <1>1 DEF Boot, Serve, RestoreFails
  <2> USE DEF handleVars
  <2>2. OneCaller' /\ BusyOK' /\ WaitingOK' /\ StatusesOK'
    BY <2>1 DEF QInv, OneCaller, BusyOK, Busy, WaitingOK, StatusesOK, Done
  <2>3. CallersOK' /\ AliveOK'
    BY <2>1 DEF QInv, CallersOK, CallerHolds, AliveOK, Alive, SpawnedBy, Done
  <2>4. RestoringOK'
    BY <1>1, <2>1 DEF QInv, RestoringOK, Boot, Serve, RestoreFails, IInv, DaemonOK, TypeOK, Idle
  <2>5. DrainingOK'
    BY <1>1, <2>1 DEF QInv, DrainingOK, Boot, Serve, RestoreFails
  <2> QED  BY <2>2, <2>3, <2>4, <2>5 DEF QInv
<1>2. CASE ClearState
  <2>1. /\ UNCHANGED <<servers, handleVars, call, watch>> /\ stateFile' = {}
        /\ daemon = "draining" /\ daemon' = "cleared"
    BY <1>2 DEF ClearState
  <2> USE DEF handleVars
  <2>2. OneCaller' /\ BusyOK' /\ WaitingOK' /\ StatusesOK'
    BY <2>1 DEF QInv, OneCaller, BusyOK, Busy, WaitingOK, StatusesOK, Done
  <2>3. CallersOK' /\ AliveOK'
    BY <2>1 DEF QInv, CallersOK, CallerHolds, AliveOK, Alive, SpawnedBy, Done
  <2>4. RestoringOK' /\ DrainingOK'
    BY <2>1 DEF QInv, RestoringOK, DrainingOK
  <2> QED  BY <2>2, <2>3, <2>4 DEF QInv
<1>3. ASSUME NEW id \in Ids, Restore(id)  PROVE QInv'
  <2>1. PICK h \in Handles : /\ Spawn(h, id) /\ Register(id, h)
                             /\ watch' = [watch EXCEPT ![h] = Launched(0)]
    BY <1>3 DEF Restore, StartServer
  <2>2. /\ daemon = "restoring" /\ daemon' = daemon /\ call' = call
        /\ id \in toRestore /\ toRestore' = toRestore \ {id}
    BY <1>3 DEF Restore
  <2>3. servers[id] = None /\ \A p \in Callers : call[p].pc = "idle" /\ call[p].id # id
    BY <2>2, ConstantsAssumption DEF QInv, RestoringOK, OneCaller
  <2>4. BusyOK' /\ WaitingOK' /\ CallersOK' /\ AliveOK' /\ StatusesOK'
    BY <2>1, <2>2, <2>3, StartKeeps
  <2>5. \A i \in Ids \ {id} : servers'[i] = servers[i]
    BY <2>1 DEF Register, QInv, IInv, TypeOK
  <2>6. RestoringOK' /\ OneCaller'
    BY <2>2, <2>3, <2>5 DEF QInv, IInv, TypeOK, RestoringOK, OneCaller
  <2>7. DrainingOK'
    BY <2>2, <2>3 DEF DrainingOK, Callers
  <2> QED  BY <2>4, <2>6, <2>7 DEF QInv
<1>4. CASE ExitDaemon
  BY <1>4, NoneLeft, QuietHaltKeeps DEF ExitDaemon
<1>5. CASE QuietCrash
  BY <1>5, QuietHaltKeeps DEF QuietCrash
<1> QED
  BY <1>1, <1>2, <1>3, <1>4, <1>5 DEF DaemonStep

-----------------------------------------------------------------------------
(***************************************************************************)
(* The theorems                                                            *)
(***************************************************************************)
\* Only the environment is restricted.
LEMMA QuietIsASupervisor == QuietNext => Next
<1>1. QuietCrash => Crash
  BY DEF QuietCrash, Crash
<1> QED
  BY <1>1 DEF QuietNext, Next, QuietRequest, QuietExit, QuietShutdown

\* Every step in a quiet environment keeps the invariant.
LEMMA QuietNextKeeps == QInv /\ [QuietNext]_vars => QInv'
<1> SUFFICES ASSUME QInv, [QuietNext]_vars  PROVE QInv'
  OBVIOUS
<1>1. IInv'
  BY QuietIsASupervisor, NextKeeps DEF QInv
<1>2. CASE QuietNext
  BY <1>1, <1>2, QuietRequestKeeps, QuietCallKeeps, QuietWatchKeeps,
     QuietProcessKeeps, QuietShutdownKeeps, QuietDaemonKeeps DEF QuietNext
<1>3. CASE UNCHANGED vars
  BY <1>1, <1>3 DEF vars, handleVars, daemonVars, QInv, OneCaller, BusyOK, Busy,
     WaitingOK, CallersOK, CallerHolds, AliveOK, Alive, SpawnedBy, StatusesOK,
     RestoringOK, DrainingOK, Done
<1> QED  BY <1>2, <1>3

\* A daemon that has not been booted has the invariant.
LEMMA QuietInit == Init => QInv
<1> SUFFICES ASSUME Init  PROVE QInv
  OBVIOUS
<1>1. IInv
  BY InitEstablishes
<1> QED
  BY <1>1, ConstantsAssumption
  DEF Init, QInv, OneCaller, BusyOK, Busy, WaitingOK, CallersOK, AliveOK, Alive,
      StatusesOK, RestoringOK, DrainingOK, Idle, Unwatched, Callers

\* In a quiet environment each server has one actor at a time, the entry of the
\* server tells what that actor holds, and a process runs only for a registered
\* handle or for the one who has just spawned it.
THEOREM QuietInvariance == QuietSpec => []QInv
  BY QuietInit, QuietNextKeeps, PTL DEF QuietSpec

\* In a quiet environment a shutdown leaves nothing running and an empty file.
THEOREM ShutdownLeavesNothing == QuietSpec => []ShutdownIsClean
<1>1. QInv => ShutdownIsClean
  BY NoneLeft DEF ShutdownIsClean
<1> QED
  BY <1>1, QuietInvariance, PTL

\* In a quiet environment a Stop takes its server out of the file.
THEOREM StopsAreRemembered == QuietSpec => StopIsRemembered
<1>1. ASSUME QInv, NEW p \in Callers, FinishStop(p)
      PROVE  call[p].id \notin stateFile'
  <2>1. call[p].pc = "exited" /\ stateFile' = Persisted(servers, status)
    BY <1>1 DEF FinishStop
  <2>2. status[servers[call[p].id]] # "running"
    BY <1>1, <2>1, WhoCalls DEF CallerHolds
  <2> QED  BY <2>1, <2>2 DEF Persisted
<1>2. QInv /\ [QuietNext]_vars =>
        [\A p \in Callers : FinishStop(p) => call[p].id \notin stateFile']_vars
  BY <1>1
<1> QED
  BY <1>2, QuietInvariance, PTL DEF QuietSpec, StopIsRemembered

-----------------------------------------------------------------------------
(***************************************************************************)
(* The refinement                                                          *)
(***************************************************************************)
\* A server has at most one process: the one registered, or one that whoever
\* has the server in hand has spawned when the registered one had ended.
LEMMA OneProcess ==
    ASSUME QInv, NEW g \in Handles, NEW h \in Handles, Alive(g), Alive(h),
           owner[g] = owner[h]
    PROVE  g = h
<1>1. PICK id \in Ids : id = owner[g] /\ id = owner[h]
  BY DEF QInv, AliveOK
<1>2. /\ servers[id] = g \/ SpawnedBy(g)
      /\ servers[id] = h \/ SpawnedBy(h)
      /\ life[g] = "up" /\ life[h] = "up"
  BY <1>1 DEF QInv, AliveOK
<1>3. ASSUME NEW k \in Handles, owner[k] = id, NEW p \in Callers,
             call[p].pc = "spawned", call[p].h = k
      PROVE  call[p].id = id /\ Done(servers[id]) /\ \A r \in Handles : Busy(r) => owner[r] # id
  <2>1. call[p].id = id
    BY <1>3, ConstantsAssumption DEF QInv, IInv, CallOK
  <2> QED  BY <1>3, <2>1, WhoCalls DEF CallerHolds
<1>4. ASSUME NEW k \in Handles, owner[k] = id, NEW r \in Handles,
             watch[r].pc = "spawned", watch[r].h = k
      PROVE  /\ Busy(r) /\ owner[r] = id /\ Done(servers[id])
             /\ \A q \in Handles \ {r} : Busy(q) => owner[q] # id
  <2>1. Busy(r) /\ owner[r] = id
    BY <1>4, ConstantsAssumption DEF QInv, IInv, WatchOK, Busy
  <2> QED  BY <1>4, <2>1, WhoWatches
<1>5. CASE SpawnedBy(g) /\ SpawnedBy(h)
  <2>1. ASSUME NEW p \in Callers, call[p].pc = "spawned", call[p].h = g  PROVE g = h
    <3>1. call[p].id = id /\ \A r \in Handles : Busy(r) => owner[r] # id
      BY <1>1, <1>3, <2>1
    <3>2. PICK q \in Callers : call[q].pc = "spawned" /\ call[q].h = h
      BY <1>1, <1>4, <1>5, <3>1 DEF SpawnedBy
    <3>3. call[q].id = id
      BY <1>1, <1>3, <3>2
    <3> QED  BY <2>1, <3>1, <3>2, <3>3, ConstantsAssumption DEF QInv, OneCaller
  <2>2. ASSUME NEW r \in Handles, watch[r].pc = "spawned", watch[r].h = g  PROVE g = h
    <3>1. /\ Busy(r) /\ owner[r] = id
          /\ \A q \in Handles \ {r} : Busy(q) => owner[q] # id
      BY <1>1, <1>4, <2>2
    <3>2. PICK q \in Handles : watch[q].pc = "spawned" /\ watch[q].h = h
      BY <1>1, <1>3, <1>5, <3>1 DEF SpawnedBy
    <3>3. Busy(q) /\ owner[q] = id
      BY <1>1, <1>4, <3>2
    <3> QED  BY <2>2, <3>1, <3>2, <3>3
  <2> QED  BY <1>5, <2>1, <2>2 DEF SpawnedBy
<1>6. ASSUME NEW k \in Handles, SpawnedBy(k), owner[k] = id  PROVE life[servers[id]] = "done"
  BY <1>3, <1>4, <1>6 DEF SpawnedBy, Done
<1> QED  BY <1>1, <1>2, <1>5, <1>6

\* A server whose registered process has ended, if there was one, and for which
\* nobody has spawned another, has none.
LEMMA NoProcess ==
    ASSUME QInv, NEW id \in Ids, servers[id] # None => Done(servers[id]),
           \A p \in Callers : call[p].id = id => call[p].pc # "spawned",
           \A r \in Handles : owner[r] = id => watch[r].pc # "spawned"
    PROVE  procs[id] = {}
<1> SUFFICES ASSUME NEW h \in Handles, Alive(h), owner[h] = id  PROVE FALSE
  BY DEF procs
<1>1. life[h] = "up" /\ (servers[id] = h \/ SpawnedBy(h))
  BY DEF QInv, AliveOK
<1>2. servers[id] # h
  BY <1>1, ConstantsAssumption DEF Done
<1>3. ~SpawnedBy(h)
  BY ConstantsAssumption DEF SpawnedBy, QInv, IInv, CallOK, WatchOK
<1> QED  BY <1>1, <1>2, <1>3

\* The processes of an operator's view before and after a step.
LEMMA ProcsSame ==
    ASSUME UNCHANGED owner, \A h \in Handles : Alive(h)' <=> Alive(h)
    PROVE  procs' = procs
BY DEF procs

\* A spawn for a server without a process is the launch an operator sees.
LEMMA ProcsLaunch ==
    ASSUME QInv, NEW id \in Ids, NEW h \in Handles, Spawn(h, id), procs[id] = {}
    PROVE  Promised!Launch(id, h)
<1>1. /\ life[h] = "unborn" /\ life'[h] = "up" /\ owner'[h] = id
      /\ \A g \in Handles \ {h} : life'[g] = life[g] /\ owner'[g] = owner[g]
  BY DEF Spawn, QInv, IInv, TypeOK
<1>2. ASSUME NEW i \in Ids
      PROVE  procs'[i] = IF i = id THEN {h} ELSE procs[i]
  BY <1>1, <1>2 DEF procs, Alive
<1>3. procs' = [procs EXCEPT ![id] = {h}]
  BY <1>2 DEF procs
<1> QED  BY <1>3 DEF Promised!Launch

\* Who is on before and after a step.
LEMMA OnMoves ==
    ASSUME QInv, IInv', NEW id \in Ids, \A i \in Ids \ {id} : servers'[i] = servers[i]
    PROVE  on' = IF servers'[id] = None THEN on \ {id} ELSE on \union {id}
BY DEF on

\* While no entry changes the same servers are on.
LEMMA OnSame ==
    ASSUME servers' = servers
    PROVE  on' = on
BY DEF on

\* The three ways in which the entry and the processes of a server change: it is
\* switched on, launched again, or switched off.
LEMMA SwitchesOn ==
    ASSUME QInv, IInv', NEW id \in Ids, NEW h \in Handles, servers[id] = None,
           Spawn(h, id), Register(id, h), procs[id] = {}
    PROVE  Promised!Next
<1>1. Promised!Launch(id, h)
  BY ProcsLaunch
<1>2. /\ \A i \in Ids \ {id} : servers'[i] = servers[i]
      /\ servers'[id] = h /\ h # None
  BY ConstantsAssumption DEF Register, QInv, IInv, TypeOK
<1>3. on' = on \union {id} /\ id \notin on
  BY <1>2, OnMoves DEF on
<1> QED  BY <1>1, <1>3 DEF Promised!Next, Promised!SwitchOn

\* A respawn, or the spawn of a Restart, for a server that is still registered.
LEMMA Relaunches ==
    ASSUME QInv, NEW id \in Ids, NEW h \in Handles, servers[id] # None,
           Spawn(h, id), servers' = servers, procs[id] = {}
    PROVE  Promised!Next
<1>1. Promised!Launch(id, h)
  BY ProcsLaunch
<1>2. on' = on /\ id \in on
  BY OnSame DEF on
<1> QED  BY <1>1, <1>2 DEF Promised!Next, Promised!Relaunch

\* A registered server without a process loses its entry.
LEMMA SwitchesOff ==
    ASSUME QInv, IInv', NEW id \in Ids, servers[id] # None, procs[id] = {},
           servers' = [servers EXCEPT ![id] = None], UNCHANGED <<owner, life>>
    PROVE  Promised!Next
<1>1. on' = on \ {id} /\ id \in on
  BY OnMoves DEF on, QInv, IInv, TypeOK
<1>2. procs' = procs
  BY ProcsSame DEF Alive
<1> QED  BY <1>1, <1>2 DEF Promised!Next, Promised!SwitchOff

\* Every step of a call is one of those or none.
LEMMA CallSimulates ==
    ASSUME QInv, IInv', NEW p \in Callers, CallStep(p)
    PROVE  Promised!Next \/ UNCHANGED Promised!vars
<1>0. call[p].pc # "idle" /\ servers \in [Ids -> Handles \union {None}]
  BY DEF QInv, IInv, TypeOK, CallStep, Start, StartFails, Lookup, LookupFails,
         MarkStopped, SendStop, StopTimesOut, HandleStopped, FinishStop,
         RestartSpawn, RestartSpawnFails, RestartRegister, RestartUnregister
<1>1. PICK id \in Ids : id = call[p].id
  BY <1>0, WhoCalls
<1>2. /\ \A q \in Callers \ {p} : call[q].id # id
      /\ \A r \in Handles : Busy(r) => owner[r] # id
      /\ CallerHolds(p, servers[id])
  BY <1>0, <1>1, WhoCalls
<1>3. ASSUME call[p].pc # "spawned", servers[id] # None => Done(servers[id])
      PROVE  procs[id] = {}
  BY <1>2, <1>3, NoProcess DEF Busy
<1>4. CASE Start(p)
  <2>1. PICK h \in Handles : Spawn(h, id) /\ Register(id, h)
    BY <1>1, <1>4 DEF Start, StartServer
  <2>2. call[p].pc = "called" /\ ~ServerIsRunning(id)
    BY <1>1, <1>4 DEF Start, StartServer
  <2>3. servers[id] = None
    <3> SUFFICES ASSUME servers[id] # None  PROVE FALSE
      OBVIOUS
    <3>1. life[servers[id]] = "up" /\ ~stopped[servers[id]] /\ servers[id] \in Handles
      BY <1>0, <1>2, <2>2 DEF CallerHolds
    <3> QED  BY <2>2, <3>1 DEF QInv, StatusesOK, ServerIsRunning, IsRunning
  <2> QED  BY <1>3, <2>1, <2>2, <2>3, SwitchesOn
<1>5. CASE RestartSpawn(p)
  <2>1. PICK n \in Handles : Spawn(n, id) /\ servers' = servers
    BY <1>1, <1>5 DEF RestartSpawn
  <2>2. call[p].pc = "exited" /\ servers[id] # None /\ Done(servers[id])
    BY <1>2, <1>5 DEF RestartSpawn, CallerHolds
  <2> QED  BY <1>3, <2>1, <2>2, Relaunches
<1>6. CASE FinishStop(p) \/ RestartUnregister(p)
  <2>1. /\ call[p].pc \in {"exited", "failed"}
        /\ servers' = [servers EXCEPT ![id] = None] /\ UNCHANGED <<owner, life>>
    BY <1>1, <1>6 DEF FinishStop, RestartUnregister, Register, handleVars
  <2>2. servers[id] # None /\ Done(servers[id])
    BY <1>2, <2>1 DEF CallerHolds
  <2> QED  BY <1>3, <2>1, <2>2, SwitchesOff
<1>7. CASE RestartRegister(p)
  <2>1. /\ call[p].pc = "spawned" /\ UNCHANGED <<owner, life>>
        /\ servers' = [servers EXCEPT ![id] = call[p].h]
    BY <1>1, <1>7 DEF RestartRegister, Register, handleVars
  <2>2. servers[id] # None /\ call[p].h # None
    BY <1>2, <2>1 DEF CallerHolds, QInv, IInv, CallOK
  <2>3. on' = on
    BY <1>0, <2>1, <2>2 DEF on
  <2>4. procs' = procs
    BY <2>1, ProcsSame DEF Alive
  <2> QED  BY <2>3, <2>4 DEF Promised!vars
<1>8. CASE \/ StartFails(p) \/ Lookup(p) \/ LookupFails(p) \/ MarkStopped(p)
           \/ SendStop(p) \/ StopTimesOut(p) \/ HandleStopped(p)
           \/ RestartSpawnFails(p)
  <2>1. UNCHANGED <<servers, owner, life>>
    BY <1>8 DEF StartFails, Lookup, LookupFails, MarkStopped, SendStop, StopTimesOut,
                HandleStopped, RestartSpawnFails, handleVars
  <2>2. on' = on /\ procs' = procs
    BY <2>1, OnSame, ProcsSame DEF Alive
  <2> QED  BY <2>2 DEF Promised!vars
<1> QED
  BY <1>4, <1>5, <1>6, <1>7, <1>8 DEF CallStep

\* So is every step of a watcher.
LEMMA WatchSimulates ==
    ASSUME QInv, IInv', NEW r \in Handles, WatchStep(r)
    PROVE  Promised!Next \/ UNCHANGED Promised!vars
<1>0. servers \in [Ids -> Handles \union {None}]
  BY DEF QInv, IInv, TypeOK
<1>1. ASSUME Busy(r), watch[r].pc \notin {"lookup", "spawned"}
      PROVE  /\ owner[r] \in Ids /\ servers[owner[r]] = r /\ r # None
             /\ procs[owner[r]] = {}
  <2>1. /\ owner[r] \in Ids /\ servers[owner[r]] = r /\ r # None /\ Done(r)
        /\ \A p \in Callers : call[p].id # owner[r]
        /\ \A q \in Handles \ {r} : Busy(q) => owner[q] # owner[r]
    BY <1>1, WhoWatches
  <2> QED  BY <1>1, <2>1, NoProcess DEF Busy
<1>2. CASE WatchRespawn(r)
  <2>1. PICK n \in Handles : Spawn(n, owner[r]) /\ servers' = servers
    BY <1>2 DEF WatchRespawn
  <2>2. Busy(r) /\ watch[r].pc = "backoff"
    BY <1>2 DEF WatchRespawn, Busy
  <2> QED  BY <1>1, <2>1, <2>2, Relaunches
<1>3. CASE WatchUnregister(r)
  <2>1. /\ Busy(r) /\ watch[r].pc \in {"giveup", "failed"} /\ UNCHANGED <<owner, life>>
        /\ servers' = [servers EXCEPT ![owner[r]] = None]
    BY <1>3 DEF WatchUnregister, Register, Busy, handleVars
  <2> QED  BY <1>1, <2>1, SwitchesOff
<1>4. CASE WatchRegister(r)
  <2>1. /\ Busy(r) /\ UNCHANGED <<owner, life>>
        /\ servers' = [servers EXCEPT ![owner[r]] = watch[r].h]
        /\ watch[r].h # None
    BY <1>4 DEF WatchRegister, Register, Busy, handleVars, QInv, IInv, WatchOK
  <2>2. owner[r] \in Ids /\ servers[owner[r]] # None
    BY <2>1, WhoWatches
  <2>3. on' = on
    BY <1>0, <2>1, <2>2 DEF on
  <2>4. procs' = procs
    BY <2>1, ProcsSame DEF Alive
  <2> QED  BY <2>3, <2>4 DEF Promised!vars
<1>5. CASE \/ WatchLookup(r) \/ WatchStable(r) \/ WatchUnstable(r) \/ WatchDecide(r)
           \/ WatchRespawnFails(r)
  <2>1. UNCHANGED <<servers, owner, life>>
    BY <1>5 DEF WatchLookup, WatchStable, WatchUnstable, WatchDecide,
                WatchRespawnFails, handleVars
  <2>2. on' = on /\ procs' = procs
    BY <2>1, OnSame, ProcsSame DEF Alive
  <2> QED  BY <2>2 DEF Promised!vars
<1> QED
  BY <1>2, <1>3, <1>4, <1>5 DEF WatchStep

\* A process that ends was the only one of its server; its waiter changes
\* nothing an operator sees.
LEMMA ProcessSimulates ==
    ASSUME QInv, NEW h \in Handles, QuietExit(h) \/ WaiterStep(h)
    PROVE  Promised!Next \/ UNCHANGED Promised!vars
<1>1. UNCHANGED <<servers, owner>>
  BY DEF QuietExit, ProcessExits, WaiterStep, Reap, CloseDone
<1>2. on' = on
  BY <1>1, OnSame
<1>3. CASE QuietExit(h)
  <2>1. PICK id \in Ids : id = owner[h]
    BY <1>3 DEF QuietExit, ProcessExits, QInv, AliveOK
  <2>2. /\ Alive(h) /\ life'[h] \notin {"up", "orphan"}
        /\ \A g \in Handles \ {h} : life'[g] = life[g]
    BY <1>3 DEF QuietExit, ProcessExits, QInv, IInv, TypeOK
  <2>3. procs[id] = {h}
    BY <2>1, <2>2, OneProcess DEF procs
  <2>4. ASSUME NEW i \in Ids
        PROVE  procs'[i] = IF i = id THEN {} ELSE procs[i]
    <3>1. ASSUME NEW g \in Handles, g # h  PROVE Alive(g)' <=> Alive(g)
      BY <2>2, <3>1 DEF Alive
    <3>2. ~Alive(h)'
      BY <2>2 DEF Alive
    <3>3. CASE i = id
      BY <1>1, <2>3, <3>1, <3>2, <3>3 DEF procs
    <3>4. CASE i # id
      BY <1>1, <2>1, <2>2, <3>1, <3>2, <3>4 DEF procs
    <3> QED  BY <3>3, <3>4
  <2>5. procs' = [procs EXCEPT ![id] = {}]
    BY <2>4 DEF procs
  <2> QED  BY <1>2, <2>3, <2>5 DEF Promised!Next, Promised!ProcessEnds
<1>4. CASE WaiterStep(h)
  <2>1. \A g \in Handles : Alive(g)' <=> Alive(g)
    BY <1>4 DEF WaiterStep, Reap, CloseDone, Alive, QInv, IInv, TypeOK
  <2> QED  BY <1>1, <1>2, <2>1, ProcsSame DEF Promised!vars
<1> QED  BY <1>3, <1>4

\* The daemon's steps: a server restored is switched on, and the end of the
\* daemon is that of everything.
LEMMA DaemonSimulates ==
    ASSUME QInv, IInv', Boot \/ QuietShutdown \/ DaemonStep \/ QuietCrash
    PROVE  Promised!Next \/ UNCHANGED Promised!vars
<1>1. CASE \/ Boot \/ QuietShutdown \/ Serve \/ ClearState
           \/ \E id \in Ids : RestoreFails(id)
  <2>1. UNCHANGED <<servers, owner, life>>
    BY <1>1 DEF Boot, QuietShutdown, Shutdown, Serve, ClearState, RestoreFails, handleVars
  <2>2. on' = on /\ procs' = procs
    BY <2>1, OnSame, ProcsSame DEF Alive
  <2> QED  BY <2>2 DEF Promised!vars
<1>2. ASSUME NEW id \in Ids, Restore(id)  PROVE Promised!Next
  <2>1. PICK h \in Handles : Spawn(h, id) /\ Register(id, h)
    BY <1>2 DEF Restore, StartServer
  <2>2. servers[id] = None /\ \A p \in Callers : call[p].pc = "idle"
    BY <1>2 DEF Restore, QInv, RestoringOK
  <2>3. \A r \in Handles : owner[r] = id => watch[r].pc # "spawned"
    BY <2>2, WhoWatches DEF Busy
  <2> QED  BY <2>1, <2>2, <2>3, NoProcess, SwitchesOn
<1>3. ASSUME NEW survivors \in SUBSET Handles, Halt(survivors),
             \A h \in survivors : ~Alive(h)
      PROVE  Promised!Next
  <2>1. /\ \A id \in Ids : servers'[id] = None
        /\ \A h \in Handles : ~Alive(h)'
    BY <1>3 DEF Halt, Alive
  <2>2. on' = {} /\ procs' = [id \in Ids |-> {}]
    BY <2>1 DEF on, procs
  <2> QED  BY <2>2 DEF Promised!Next, Promised!Halt
<1>4. CASE ExitDaemon
  BY <1>3, <1>4, NoneLeft DEF ExitDaemon
<1>5. CASE QuietCrash
  BY <1>3, <1>5 DEF QuietCrash
<1> QED
  BY <1>1, <1>2, <1>4, <1>5 DEF DaemonStep

\* Every step in a quiet environment is a step of ServerProcesses or none.
LEMMA QuietSimulates == QInv /\ [QuietNext]_vars => [Promised!Next]_(Promised!vars)
<1> SUFFICES ASSUME QInv, [QuietNext]_vars
             PROVE  Promised!Next \/ UNCHANGED Promised!vars
  OBVIOUS
<1>1. IInv'
  BY QuietIsASupervisor, NextKeeps DEF QInv
<1>2. ASSUME NEW c \in Clients, NEW op \in {"start", "stop", "restart"}, NEW id \in Ids,
             QuietRequest(c, op, id)
      PROVE  UNCHANGED Promised!vars
  <2>1. UNCHANGED <<servers, owner, life>>
    BY <1>2 DEF QuietRequest, Request, handleVars
  <2>2. on' = on /\ procs' = procs
    BY <2>1, OnSame, ProcsSame DEF Alive
  <2> QED  BY <2>2 DEF Promised!vars
<1>3. CASE UNCHANGED vars
  <2>1. UNCHANGED <<servers, owner, life>>
    BY <1>3 DEF vars, handleVars
  <2>2. on' = on /\ procs' = procs
    BY <2>1, OnSame, ProcsSame DEF Alive
  <2> QED  BY <2>2 DEF Promised!vars
<1>4. CASE QuietNext
  BY <1>1, <1>2, <1>4, CallSimulates, WatchSimulates, ProcessSimulates, DaemonSimulates
  DEF QuietNext
<1> QED  BY <1>3, <1>4

\* At first no server is on and none has a process.
LEMMA QuietInitSimulates == Init => Promised!Init
  BY DEF Init, Promised!Init, on, procs, Alive

\* In the environment an operator gives it the supervisor implements
\* ServerProcesses: never two processes of a server, none launched for one that
\* is off, and none switched off while its process runs.
THEOREM SupervisorKeepsPromise == QuietSpec => KeepsPromise
  BY QuietInvariance, QuietInitSimulates, QuietSimulates, PTL
  DEF QuietSpec, KeepsPromise, Promised!Spec
=============================================================================
