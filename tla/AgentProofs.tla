---------------------------- MODULE AgentProofs ----------------------------
(***************************************************************************)
(* For any number of servers, requests and processes: the agent's states   *)
(* are well formed, and a server that is registered with a process has a   *)
(* watchdog that will look at it.                                          *)
(***************************************************************************)
EXTENDS Agent, TLAPS

\* What the open requests and the watchdogs hold; no entry is ever removed.
TasksHold ==
    \A t \in Tasks :
      /\ task[t].pc # "idle" => task[t].id \in Ids
      /\ task[t].pc = "spawned" =>
           task[t].pid \in Pids /\ owner[task[t].pid] = task[t].id

DogsHold ==
    \A r \in Pids :
      /\ dog[r].pc # "off" => owner[r] \in Ids /\ registry[owner[r]] \in Entry
      /\ dog[r].pc = "spawned" => dog[r].pid \in Pids

IInv == TypeOK /\ TasksHold /\ DogsHold /\ LiveIsWatched

\* An agent that has just started has the invariant.
LEMMA InitIInv == Init => IInv
BY NoneAssumption
   DEF Init, IInv, TypeOK, TasksHold, DogsHold, LiveIsWatched, Entry, NoEntry,
       Task, Dog, Idle, DogAt

-----------------------------------------------------------------------------
\* Every step keeps the types.
LEMMA StepTypeOK == IInv /\ [Next]_vars => TypeOK'
<1> SUFFICES ASSUME IInv, [Next]_vars PROVE TypeOK'
  OBVIOUS
<1> USE NoneAssumption, OpsAssumption
        DEF IInv, TypeOK, TasksHold, DogsHold, Entry, NoEntry, Task, Dog
<1>1. ASSUME NEW t \in Tasks, NEW op \in Ops, NEW id \in Ids, Request(t, op, id)
      PROVE TypeOK'
  BY <1>1, SMTT(60) DEF Request
<1>2. ASSUME NEW t \in Tasks, TaskStep(t) \/ Dropped(t) PROVE TypeOK'
  <2>1. CASE Check(t)
    BY <2>1, SMTT(60) DEF Check
  <2>2. CASE StartRefused(t)
    BY <2>2, SMTT(60) DEF StartRefused, Return, Idle
  <2>3. CASE StartSpawn(t)
    BY <2>3, SMTT(60) DEF StartSpawn, Spawn
  <2>4. CASE StartInsert(t)
    BY <2>4, SMTT(60) DEF StartInsert, Insert, Return, Idle, DogAt
  <2>5. CASE Stop(t)
    BY <2>5, SMTT(60) DEF Stop, Return, Idle
  <2>6. CASE Dropped(t)
    BY <2>6, SMTT(60) DEF Dropped, Return, Idle
  <2> QED
    BY <1>2, <2>1, <2>2, <2>3, <2>4, <2>5, <2>6 DEF TaskStep
<1>3. ASSUME NEW r \in Pids, DogStep(r) PROVE TypeOK'
  <2>1. CASE DogLook(r)
    BY <2>1, SMTT(60) DEF DogLook
  <2>2. CASE DogFindsDead(r)
    BY <2>2, SMTT(60) DEF DogFindsDead, DogAt
  <2>3. CASE DogFindsNothing(r)
    BY <2>3, SMTT(60) DEF DogFindsNothing, DogAt
  <2>4. CASE DogMark(r)
    BY <2>4, SMTT(60) DEF DogMark, DogAt
  <2>5. CASE DogRespawn(r)
    BY <2>5, SMTT(60) DEF DogRespawn, Spawn, DogAt
  <2>6. CASE DogRespawnFails(r)
    BY <2>6, SMTT(60) DEF DogRespawnFails, DogAt
  <2>7. CASE DogInsert(r)
    BY <2>7, SMTT(60) DEF DogInsert, Insert, DogAt
  <2> QED
    BY <1>3, <2>1, <2>2, <2>3, <2>4, <2>5, <2>6, <2>7 DEF DogStep
<1>4. ASSUME NEW p \in Pids, ProcessExits(p) PROVE TypeOK'
  BY <1>4, SMTT(60) DEF ProcessExits
<1>5. CASE UNCHANGED vars
  BY <1>5 DEF vars
<1> QED
  BY <1>1, <1>2, <1>3, <1>4, <1>5 DEF Next

\* What a request or a watchdog holds stays true while others move: no process
\* changes its owner.
LEMMA StepHold == IInv /\ [Next]_vars => TasksHold' /\ DogsHold'
<1> SUFFICES ASSUME IInv, [Next]_vars PROVE TasksHold' /\ DogsHold'
  OBVIOUS
<1> USE NoneAssumption
        DEF IInv, TypeOK, TasksHold, DogsHold, Entry, NoEntry, Task, Dog
<1>1. ASSUME NEW t \in Tasks, NEW op \in Ops, NEW id \in Ids, Request(t, op, id)
      PROVE TasksHold' /\ DogsHold'
  BY <1>1, SMTT(60) DEF Request
<1>2. ASSUME NEW t \in Tasks, TaskStep(t) \/ Dropped(t)
      PROVE TasksHold' /\ DogsHold'
  <2>1. CASE Check(t)
    BY <2>1, SMTT(60) DEF Check
  <2>2. CASE StartRefused(t)
    BY <2>2, SMTT(60) DEF StartRefused, Return, Idle
  <2>3. CASE StartSpawn(t)
    BY <2>3, SMTT(60) DEF StartSpawn, Spawn
  <2>4. CASE StartInsert(t)
    BY <2>4, SMTT(60) DEF StartInsert, Insert, Return, Idle, DogAt
  <2>5. CASE Stop(t)
    BY <2>5, SMTT(60) DEF Stop, Return, Idle
  <2>6. CASE Dropped(t)
    BY <2>6, SMTT(60) DEF Dropped, Return, Idle
  <2> QED
    BY <1>2, <2>1, <2>2, <2>3, <2>4, <2>5, <2>6 DEF TaskStep
<1>3. ASSUME NEW r \in Pids, DogStep(r) PROVE TasksHold' /\ DogsHold'
  <2>1. CASE DogLook(r)
    BY <2>1, SMTT(60) DEF DogLook
  <2>2. CASE DogFindsDead(r)
    BY <2>2, SMTT(60) DEF DogFindsDead, DogAt
  <2>3. CASE DogFindsNothing(r)
    BY <2>3, SMTT(60) DEF DogFindsNothing, DogAt
  <2>4. CASE DogMark(r)
    BY <2>4, SMTT(60) DEF DogMark, DogAt
  <2>5. CASE DogRespawn(r)
    BY <2>5, SMTT(60) DEF DogRespawn, Spawn, DogAt
  <2>6. CASE DogRespawnFails(r)
    BY <2>6, SMTT(60) DEF DogRespawnFails, DogAt
  <2>7. CASE DogInsert(r)
    BY <2>7, SMTT(60) DEF DogInsert, Insert, DogAt
  <2> QED
    BY <1>3, <2>1, <2>2, <2>3, <2>4, <2>5, <2>6, <2>7 DEF DogStep
<1>4. ASSUME NEW p \in Pids, ProcessExits(p) PROVE TasksHold' /\ DogsHold'
  BY <1>4, SMTT(60) DEF ProcessExits
<1>5. CASE UNCHANGED vars
  BY <1>5 DEF vars
<1> QED
  BY <1>1, <1>2, <1>3, <1>4, <1>5 DEF Next

-----------------------------------------------------------------------------
\* The watchdog r looks at the server id.
Watches(r, id) == owner[r] = id /\ dog[r].pc \in {"sleep", "seen", "mark"}

\* A watchdog keeps looking at its server, unless it marks it stopped.
LEMMA StillWatched ==
    ASSUME IInv, [Next]_vars, NEW id \in Ids, NEW r \in Pids, Watches(r, id),
           ~DogMark(r)
    PROVE  Watches(r, id)'
<1> USE NoneAssumption
        DEF IInv, TypeOK, TasksHold, DogsHold, Watches, Dog, Task
<1>1. ASSUME NEW t \in Tasks, NEW op \in Ops, NEW i \in Ids, Request(t, op, i)
      PROVE Watches(r, id)'
  BY <1>1 DEF Request
<1>2. ASSUME NEW t \in Tasks, TaskStep(t) \/ Dropped(t) PROVE Watches(r, id)'
  <2>1. CASE StartSpawn(t)
    BY <2>1, SMTT(60) DEF StartSpawn, Spawn
  <2>2. CASE StartInsert(t)
    <3>1. task[t].pid \in Pids
      BY <2>2 DEF StartInsert
    <3>2. dog' = [dog EXCEPT ![task[t].pid] = DogAt("sleep")] /\ owner' = owner
      BY <2>2 DEF StartInsert
    <3>3. dog'[r] = dog[r] \/ dog'[r] = DogAt("sleep")
      BY <3>1, <3>2
    <3> QED
      BY <3>2, <3>3 DEF DogAt
  <2>3. CASE Check(t) \/ StartRefused(t) \/ Stop(t) \/ Dropped(t)
    BY <2>3 DEF Check, StartRefused, Stop, Dropped
  <2> QED
    BY <1>2, <2>1, <2>2, <2>3 DEF TaskStep
<1>3. ASSUME NEW s \in Pids, DogStep(s) PROVE Watches(r, id)'
  <2>1. CASE DogRespawn(s)
    BY <2>1, SMTT(60) DEF DogRespawn, Spawn, DogAt
  <2>2. CASE DogMark(s)
    <3>1. s # r
      BY <2>2, Zenon
    <3> QED
      BY <2>2, <3>1, SMTT(60) DEF DogMark
  <2>3. CASE DogLook(s) \/ DogFindsDead(s) \/ DogFindsNothing(s)
    BY <2>3, SMTT(60) DEF DogLook, DogFindsDead, DogFindsNothing, DogAt
  <2>4. CASE DogRespawnFails(s) \/ DogInsert(s)
    BY <2>4, SMTT(60) DEF DogRespawnFails, DogInsert, DogAt
  <2> QED
    BY <1>3, <2>1, <2>2, <2>3, <2>4 DEF DogStep
<1>4. ASSUME NEW p \in Pids, ProcessExits(p) PROVE Watches(r, id)'
  BY <1>4 DEF ProcessExits
<1>5. CASE UNCHANGED vars
  BY <1>5 DEF vars
<1> QED
  BY <1>1, <1>2, <1>3, <1>4, <1>5 DEF Next

\* Whoever gives an entry its process watches it from then on.
LEMMA NewlyWatched ==
    ASSUME IInv, [Next]_vars, NEW id \in Ids,
           registry[id].pid = None, registry'[id].pid # None
    PROVE  \E r \in Pids : Watches(r, id)'
<1> USE NoneAssumption
        DEF IInv, TypeOK, TasksHold, DogsHold, Watches, Entry, NoEntry, Dog, Task
<1>1. ASSUME NEW t \in Tasks, StartInsert(t)
      PROVE \E r \in Pids : Watches(r, id)'
  <2>1. PICK n \in Pids : n = task[t].pid
    BY <1>1 DEF StartInsert
  <2>2. task[t].id = id
    BY <1>1, SMTT(60) DEF StartInsert, Insert
  <2>3. Watches(n, id)'
    BY <1>1, <2>1, <2>2, SMTT(60) DEF StartInsert, DogAt
  <2> QED
    BY <2>3
<1>2. ASSUME NEW s \in Pids, DogInsert(s)
      PROVE \E r \in Pids : Watches(r, id)'
  <2>1. owner[s] = id
    BY <1>2, SMTT(60) DEF DogInsert, Insert
  <2>2. Watches(s, id)'
    BY <1>2, <2>1, SMTT(60) DEF DogInsert, DogAt
  <2> QED
    BY <2>2
<1>3. ASSUME NEW t \in Tasks, Stop(t) PROVE FALSE
  BY <1>3, SMTT(60) DEF Stop
<1>4. ASSUME NEW s \in Pids, DogMark(s) PROVE FALSE
  BY <1>4, SMTT(60) DEF DogMark
<1>5. ASSUME UNCHANGED registry PROVE FALSE
  BY <1>5
<1> QED
  BY <1>1, <1>2, <1>3, <1>4, <1>5
     DEF Next, vars, Request, TaskStep, Check, StartRefused, StartSpawn,
         Dropped, DogStep, DogLook, DogFindsDead, DogFindsNothing, DogRespawn,
         DogRespawnFails, ProcessExits

\* Every step keeps the watch over the processes: old watchdogs stay, a new pid
\* gets one.
LEMMA StepWatched == IInv /\ [Next]_vars => LiveIsWatched'
<1> SUFFICES ASSUME IInv, [Next]_vars, NEW id \in Ids, registry'[id].pid # None
             PROVE  \E r \in Pids : Watches(r, id)'
  BY DEF LiveIsWatched, Watches
<1>1. CASE registry[id].pid = None
  BY <1>1, NewlyWatched
<1>2. CASE registry[id].pid # None
  <2>1. PICK r \in Pids : Watches(r, id)
    BY <1>2 DEF IInv, LiveIsWatched, Watches
  <2>2. ~DogMark(r)
    BY <2>1, SMTT(60) DEF DogMark, Watches, IInv, TypeOK, Entry, NoEntry
  <2> QED
    BY <2>1, <2>2, StillWatched
<1> QED
  BY <1>1, <1>2

-----------------------------------------------------------------------------
\* The agent's states are well formed (supervisor/mod.rs, registry.rs): in
\* particular no watchdog ever looks up a server it does not find.
THEOREM AgentTypeCorrect == Spec => []TypeOK
<1>1. IInv /\ [Next]_vars => IInv'
  BY StepTypeOK, StepHold, StepWatched DEF IInv
<1>2. IInv => TypeOK
  BY DEF IInv
<1> QED
  BY InitIInv, <1>1, <1>2, PTL DEF Spec

\* A server registered with a process is watched (watchdog.rs:18, a loop that
\* ends only after a respawn that fails).
THEOREM AgentWatches == Spec => []LiveIsWatched
<1>1. IInv /\ [Next]_vars => IInv'
  BY StepTypeOK, StepHold, StepWatched DEF IInv
<1>2. IInv => LiveIsWatched
  BY DEF IInv
<1> QED
  BY InitIInv, <1>1, <1>2, PTL DEF Spec
=============================================================================
