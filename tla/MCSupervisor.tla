---------------------------- MODULE MCSupervisor ----------------------------
EXTENDS Supervisor, TLC

\* Handles are interchangeable, and so are the callers of one kind.
Symmetry == Permutations(Handles) \union Permutations(TcpClients)

\* A daemon that boots on an empty file and then only serves: the races of
\* callers, watchers and processes without crashes and restarts of the daemon.
NextServing ==
    \/ \E c \in Clients, op \in {"start", "stop", "restart"}, id \in Ids :
          Request(c, op, id)
    \/ \E p \in Callers : CallStep(p)
    \/ \E r \in Handles : WatchStep(r)
    \/ \E h \in Handles : ProcessExits(h) \/ WaiterStep(h)
    \/ Boot \/ Serve

SpecServing == Init /\ [][NextServing]_vars
=============================================================================
