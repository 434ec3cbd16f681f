----------------------------- MODULE StateFile -----------------------------
(***************************************************************************)
(* state.Save and state.Load (state.go) on a file system whose writes reach *)
(* the disk late.  Every saveState of the supervisor and the last Save of  *)
(* StopAll is a saver; state.mu lets one of them run at a time.  A content *)
(* is one of States (the ids, encoded), Nothing (no such file) or Torn (an *)
(* empty or half-written file, which json.Decode rejects).                 *)
(***************************************************************************)
EXTENDS Naturals

CONSTANTS
    Savers,    \* goroutines that call Save
    States,    \* the lists of ids Save is called with
    Nothing,   \* the file does not exist
    Torn       \* the file cannot be decoded

ASSUME StatesAssumption == Nothing \notin States /\ Torn \notin States
                           /\ Nothing # Torn

NoSaver == "no saver"

ASSUME SaversAssumption == NoSaver \notin Savers

VARIABLES
    mu,        \* state.mu
    pc,        \* the place of each saver in Save
    arg,       \* the state each saver is to write
    file,      \* content of daemon-state.json, as processes see it
    tmp,       \* content of daemon-state.json.tmp, as processes see it
    synced,    \* fsync of the current tmp has returned
    disk       \* contents daemon-state.json may have after a power failure

vars == <<mu, pc, arg, file, tmp, synced, disk>>

Contents == States \union {Nothing, Torn}

TypeOK ==
    /\ mu \in Savers \union {NoSaver}
    /\ pc \in [Savers -> {"idle", "lock", "create", "encode", "sync", "rename",
                          "remove"}]
    /\ arg \in [Savers -> States \union {Nothing}]
    /\ file \in Contents
    /\ tmp \in Contents
    /\ synced \in BOOLEAN
    /\ disk \in SUBSET Contents
    /\ \A s \in Savers : pc[s] \notin {"idle", "lock"} <=> mu = s

Goto(s, l) == pc' = [pc EXCEPT ![s] = l]

\* Save returns and the deferred mu.Unlock runs.
Return(s) ==
    /\ mu' = NoSaver
    /\ Goto(s, "idle")
    /\ arg' = [arg EXCEPT ![s] = Nothing]

-----------------------------------------------------------------------------
CallSave(s, v) ==
    /\ pc[s] = "idle"
    /\ Goto(s, "lock")
    /\ arg' = [arg EXCEPT ![s] = v]
    /\ UNCHANGED <<mu, file, tmp, synced, disk>>

\* Mutant of Lock: Save without state.mu.
NoLock(s) ==
    /\ pc[s] = "lock"
    /\ Goto(s, "create")
    /\ UNCHANGED <<mu, arg, file, tmp, synced, disk>>

Lock(s) ==
    /\ pc[s] = "lock"
    /\ mu = NoSaver
    /\ mu' = s
    /\ Goto(s, "create")
    /\ UNCHANGED <<arg, file, tmp, synced, disk>>

\* Mutant of Create: the file itself is truncated, as before bug fix #7.
CreateInPlace(s) ==
    /\ pc[s] = "create"
    /\ file' = Torn
    /\ tmp' = Torn
    /\ synced' = FALSE
    /\ Goto(s, "encode")
    /\ UNCHANGED <<mu, arg, disk>>

\* os.Create: an empty file under the temporary name.
Create(s) ==
    /\ pc[s] = "create"
    /\ tmp' = Torn
    /\ synced' = FALSE
    /\ Goto(s, "encode")
    /\ UNCHANGED <<mu, arg, file, disk>>

\* Mutant of CreateFails: the error path does not unlock.
CreateFailsLocked(s) ==
    /\ pc[s] = "create"
    /\ Goto(s, "idle")
    /\ arg' = [arg EXCEPT ![s] = Nothing]
    /\ UNCHANGED <<mu, file, tmp, synced, disk>>

\* MkdirAll or Create fails.
CreateFails(s) ==
    /\ pc[s] = "create"
    /\ Return(s)
    /\ UNCHANGED <<file, tmp, synced, disk>>

\* Mutant of Encode: straight on to Rename, without f.Sync.
EncodeWithoutSync(s) ==
    /\ pc[s] = "encode"
    /\ tmp' = arg[s]
    /\ Goto(s, "rename")
    /\ UNCHANGED <<mu, arg, file, synced, disk>>

Encode(s) ==
    /\ pc[s] = "encode"
    /\ tmp' = arg[s]
    /\ Goto(s, "sync")
    /\ UNCHANGED <<mu, arg, file, synced, disk>>

Sync(s) ==
    /\ pc[s] = "sync"
    /\ synced' = TRUE
    /\ Goto(s, "rename")
    /\ UNCHANGED <<mu, arg, file, tmp, disk>>

\* The new name is seen at once; the disk has the old entry or the new one,
\* and behind the new one what was synced.
Rename(s) ==
    /\ pc[s] = "rename"
    /\ file' = tmp
    /\ disk' = disk \union {IF synced THEN tmp ELSE Torn}
    /\ tmp' = Nothing
    /\ synced' = FALSE
    /\ Return(s)

\* Encode, Sync or Rename fails.
StepFails(s) ==
    /\ pc[s] \in {"encode", "sync", "rename"}
    /\ Goto(s, "remove")
    /\ UNCHANGED <<mu, arg, file, tmp, synced, disk>>

\* os.Remove(tmp); its own failure leaves the file for the next Create.
Remove(s) ==
    /\ pc[s] = "remove"
    /\ tmp' \in {Nothing, tmp}
    /\ synced' = FALSE
    /\ Return(s)
    /\ UNCHANGED <<file, disk>>

SaveStep(s) ==
    \/ Lock(s) \/ Create(s) \/ CreateFails(s) \/ Encode(s) \/ Sync(s)
    \/ Rename(s) \/ StepFails(s) \/ Remove(s)

-----------------------------------------------------------------------------
\* The file system writes its directory out.
WriteOut ==
    /\ disk' = {file}
    /\ UNCHANGED <<mu, pc, arg, file, tmp, synced>>

GoroutinesVanish ==
    /\ mu' = NoSaver
    /\ pc' = [s \in Savers |-> "idle"]
    /\ arg' = [s \in Savers |-> Nothing]
    /\ synced' = FALSE

\* The daemon dies; the files are as it left them.
Crash ==
    /\ GoroutinesVanish
    /\ UNCHANGED <<file, tmp, disk>>

\* The machine dies: what is not on the disk is lost.
PowerFailure ==
    /\ GoroutinesVanish
    /\ file' \in disk
    /\ disk' = {file'}
    /\ tmp' \in {Nothing, Torn, tmp}

Init ==
    /\ mu = NoSaver
    /\ pc = [s \in Savers |-> "idle"]
    /\ arg = [s \in Savers |-> Nothing]
    /\ file = Nothing
    /\ tmp = Nothing
    /\ synced = FALSE
    /\ disk = {Nothing}

Next ==
    \/ \E s \in Savers, v \in States : CallSave(s, v)
    \/ \E s \in Savers : SaveStep(s)
    \/ WriteOut \/ Crash \/ PowerFailure

Spec == Init /\ [][Next]_vars

\* A waiting Lock is served in the end (sync.Mutex starves no one), and each
\* step of the holder is taken.
FairSpec == Spec /\ \A s \in Savers : SF_vars(SaveStep(s))

-----------------------------------------------------------------------------
(***************************************************************************)
(* Properties                                                              *)
(***************************************************************************)
\* "The old state is always valid until the new one is fully written": neither
\* a crash of the daemon nor a power failure at any point of a Save leaves a
\* file Load cannot decode.
NeverTorn == file # Torn /\ Torn \notin disk

\* state.mu: the one temporary file has one writer, so that a saver renames
\* exactly what it was asked to save.
RenamesOwnState ==
    \A s \in Savers : pc[s] = "rename" => tmp = arg[s] /\ synced

\* Save is atomic: it implements a register that a Save changes in one step.
Atomic == INSTANCE AtomicState WITH
              current <- file, recent <- disk, pending <- arg
ImplementsAtomicState == Atomic!Spec

\* The savers are the code under Supervisor.mu: none of them may stay in Save.
EverySaveReturns == \A s \in Savers : pc[s] # "idle" ~> pc[s] = "idle"
=============================================================================
