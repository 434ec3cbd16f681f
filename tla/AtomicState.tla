---------------------------- MODULE AtomicState ----------------------------
(***************************************************************************)
(* What state.Save promises: the saved state is always one whole state     *)
(* some Save was asked to write.  A Save takes effect at one point or not  *)
(* at all.  A power failure may bring an older state back, but only one    *)
(* that was current since the last time the file system wrote it out.      *)
(***************************************************************************)
CONSTANTS Savers, States, Nothing

VARIABLES
    current,   \* the state Load would return
    recent,    \* the states a power failure may leave
    pending    \* the state each running Save is to write

vars == <<current, recent, pending>>

Init ==
    /\ current = Nothing
    /\ recent = {Nothing}
    /\ pending = [s \in Savers |-> Nothing]

Ask(s, v) ==
    /\ pending[s] = Nothing
    /\ pending' = [pending EXCEPT ![s] = v]
    /\ UNCHANGED <<current, recent>>

TakeEffect(s) ==
    /\ pending[s] # Nothing
    /\ current' = pending[s]
    /\ recent' = recent \union {pending[s]}
    /\ pending' = [pending EXCEPT ![s] = Nothing]

GiveUp(s) ==
    /\ pending[s] # Nothing
    /\ pending' = [pending EXCEPT ![s] = Nothing]
    /\ UNCHANGED <<current, recent>>

WriteOut ==
    /\ recent' = {current}
    /\ UNCHANGED <<current, pending>>

Crash ==
    /\ pending' = [s \in Savers |-> Nothing]
    /\ UNCHANGED <<current, recent>>

PowerFailure ==
    /\ current' \in recent
    /\ recent' = {current'}
    /\ pending' = [s \in Savers |-> Nothing]

Next ==
    \/ \E s \in Savers, v \in States : Ask(s, v)
    \/ \E s \in Savers : TakeEffect(s) \/ GiveUp(s)
    \/ WriteOut \/ Crash \/ PowerFailure

Spec == Init /\ [][Next]_vars
=============================================================================
