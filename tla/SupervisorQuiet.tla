-------------------------- MODULE SupervisorQuiet --------------------------
(***************************************************************************)
(* The supervisor in the environment it gets right: an operator asks for   *)
(* something only while nothing else is going on with that server, no      *)
(* server crashes between a request and its answer, and a daemon that goes *)
(* down takes its Java processes with it.  Only the environment is         *)
(* restricted: every step of the supervisor is the one of Supervisor.      *)
(***************************************************************************)
EXTENDS Supervisor

\* Nothing is in progress for the server id: no call, no process whose end has
\* not been dealt with, no watcher on its way.
Settled(id) ==
    /\ \A p \in Callers : call[p].id # id
    /\ \A h \in Handles : owner[h] = id =>
         /\ watch[h].pc \in {"off", "stable", "wait", "ended"}
         /\ life[h] \notin {"exited", "reaped"}
    /\ servers[id] # None => life[servers[id]] = "up"

QuietRequest(c, op, id) == Settled(id) /\ Request(c, op, id)

QuietShutdown == (\A id \in Ids : Settled(id)) /\ Shutdown

\* A process ends because a caller stops it, or crashes while none calls.
QuietExit(h) ==
    /\ \A p \in Callers : call[p].id = owner[h] =>
          call[p].h = h /\ call[p].pc \in {"waiting", "killed"}
    /\ ProcessExits(h)

\* The service manager kills the Java processes of a daemon that is gone.
QuietCrash == daemon # "down" /\ Halt({})

QuietNext ==
    \/ \E c \in Clients, op \in {"start", "stop", "restart"}, id \in Ids :
          QuietRequest(c, op, id)
    \/ \E p \in Callers : CallStep(p)
    \/ \E r \in Handles : WatchStep(r)
    \/ \E h \in Handles : QuietExit(h) \/ WaiterStep(h)
    \/ Boot \/ QuietShutdown \/ DaemonStep \/ QuietCrash

QuietSpec == Init /\ [][QuietNext]_vars

-----------------------------------------------------------------------------
(***************************************************************************)
(* The processes of a server, as an operator sees them: a server is on     *)
(* while a handle is registered for it.                                    *)
(***************************************************************************)
on == {id \in Ids : servers[id] # None}

procs == [id \in Ids |-> {h \in Handles : Alive(h) /\ owner[h] = id}]

Promised == INSTANCE ServerProcesses

\* In a quiet environment the supervisor keeps the promise: never two processes
\* of one server, none launched for a server that is off, and no server switched
\* off while its process runs.  A Stop that returns leaves nothing behind.
KeepsPromise == Promised!Spec

\* In a quiet environment a shutdown leaves nothing running and an empty file.
ShutdownIsClean ==
    daemon = "cleared" =>
        stateFile = {} /\ \A h \in Handles : ~Alive(h)

\* In a quiet environment a Stop takes its server out of the file, although it
\* saves before it deletes the entry: the next boot does not start it again.
StopIsRemembered ==
    [][\A p \in Callers : FinishStop(p) => call[p].id \notin stateFile']_vars
=============================================================================
