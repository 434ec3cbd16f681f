-------------------------- MODULE ServerProcesses --------------------------
(***************************************************************************)
(* What the supervisor promises an operator about one process per server:  *)
(* a server that is switched on has at most one process, which may end and *)
(* be launched again any number of times; a server is switched off only    *)
(* once its process has ended, and nothing is launched for a server that   *)
(* is off.                                                                 *)
(***************************************************************************)
CONSTANTS Ids, Handles

VARIABLES
    on,     \* the servers that are switched on
    procs   \* procs[id]: the processes of the server id

vars == <<on, procs>>

Init == on = {} /\ procs = [id \in Ids |-> {}]

Launch(id, h) ==
    /\ procs[id] = {}
    /\ procs' = [procs EXCEPT ![id] = {h}]

SwitchOn(id) ==
    /\ id \notin on
    /\ on' = on \union {id}
    /\ \E h \in Handles : Launch(id, h)

Relaunch(id) ==
    /\ id \in on
    /\ \E h \in Handles : Launch(id, h)
    /\ UNCHANGED on

ProcessEnds(id) ==
    /\ procs[id] # {}
    /\ procs' = [procs EXCEPT ![id] = {}]
    /\ UNCHANGED on

SwitchOff(id) ==
    /\ id \in on
    /\ procs[id] = {}
    /\ on' = on \ {id}
    /\ UNCHANGED procs

\* The whole machine goes down.
Halt ==
    /\ on' = {}
    /\ procs' = [id \in Ids |-> {}]

Next ==
    \/ \E id \in Ids :
          SwitchOn(id) \/ Relaunch(id) \/ ProcessEnds(id) \/ SwitchOff(id)
    \/ Halt

Spec == Init /\ [][Next]_vars
=============================================================================
