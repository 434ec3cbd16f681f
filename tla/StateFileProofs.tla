-------------------------- MODULE StateFileProofs --------------------------
(***************************************************************************)
(* Proofs about StateFile, for every set of savers and of states.  The     *)
(* holder of state.mu owns the temporary file: what it wrote there is still *)
(* there when it renames it, and was synced.  So the file and the disk only *)
(* ever see whole states, and a Rename is the point at which a Save takes  *)
(* effect in AtomicState.                                                  *)
(***************************************************************************)
EXTENDS StateFile, TLAPS

\* A saver has a state to write exactly while it is in Save.
ArgOK ==
    \A s \in Savers : /\ pc[s] = "idle" <=> arg[s] = Nothing
                      /\ arg[s] \in States \union {Nothing}

\* What the holder of state.mu wrote is what the temporary file has.
OwnsTmp ==
    \A s \in Savers : /\ pc[s] = "sync" => tmp = arg[s]
                      /\ pc[s] = "rename" => tmp = arg[s] /\ synced

IInv == TypeOK /\ ArgOK /\ OwnsTmp /\ NeverTorn

-----------------------------------------------------------------------------
\* The empty file system the daemon is installed on.
LEMMA InitHolds == Init => IInv
BY StatesAssumption, SaversAssumption
   DEF Init, IInv, TypeOK, ArgOK, OwnsTmp, NeverTorn, Contents

\* At most one saver is past its Lock.
LEMMA OneHolder ==
    ASSUME TypeOK, NEW s \in Savers, NEW u \in Savers \ {s},
           pc[s] \notin {"idle", "lock"}
    PROVE  pc[u] \in {"idle", "lock"}
BY SaversAssumption DEF TypeOK

\* A step of Save keeps the invariant: only the holder of the mutex touches the
\* temporary file.
LEMMA SaveStepKeeps ==
    ASSUME IInv, NEW s \in Savers, SaveStep(s)
    PROVE  IInv'
<1> USE StatesAssumption, SaversAssumption DEF Goto, Return, Contents
<1>0. /\ TypeOK /\ ArgOK /\ OwnsTmp /\ NeverTorn
      /\ \A u \in Savers \ {s} : pc[s] \notin {"idle", "lock"}
                                  => pc[u] \in {"idle", "lock"}
  BY OneHolder DEF IInv
<1>1. CASE Lock(s)
  <2> USE <1>0, <1>1 DEF Lock
  <2>1. TypeOK'
    BY SMTT(60) DEF TypeOK
  <2>2. ArgOK'
    BY SMTT(60) DEF TypeOK, ArgOK
  <2>3. OwnsTmp' /\ NeverTorn'
    BY SMTT(60) DEF TypeOK, ArgOK, OwnsTmp, NeverTorn
  <2> QED  BY <2>1, <2>2, <2>3 DEF IInv
<1>2. CASE Create(s)
  <2> USE <1>0, <1>2 DEF Create
  <2>1. TypeOK'
    <3>1. \A u \in Savers : pc'[u] \notin {"idle", "lock"} <=> mu' = u
      BY SMTT(60) DEF TypeOK
    <3> QED  BY <3>1 DEF TypeOK
  <2>2. ArgOK'
    BY SMTT(60) DEF TypeOK, ArgOK
  <2>3. OwnsTmp' /\ NeverTorn'
    BY SMTT(60) DEF TypeOK, ArgOK, OwnsTmp, NeverTorn
  <2> QED  BY <2>1, <2>2, <2>3 DEF IInv
<1>3. CASE CreateFails(s)
  <2> USE <1>0, <1>3 DEF CreateFails
  <2>1. TypeOK'
    BY SMTT(60) DEF TypeOK
  <2>2. ArgOK'
    BY SMTT(60) DEF TypeOK, ArgOK
  <2>3. OwnsTmp' /\ NeverTorn'
    BY SMTT(60) DEF TypeOK, ArgOK, OwnsTmp, NeverTorn
  <2> QED  BY <2>1, <2>2, <2>3 DEF IInv
<1>4. CASE Encode(s)
  <2> USE <1>0, <1>4 DEF Encode
  <2>1. TypeOK'
    <3>1. \A u \in Savers : pc'[u] \notin {"idle", "lock"} <=> mu' = u
      BY SMTT(60) DEF TypeOK
    <3> QED  BY <3>1 DEF TypeOK
  <2>2. ArgOK'
    BY SMTT(60) DEF TypeOK, ArgOK
  <2>3. OwnsTmp' /\ NeverTorn'
    BY SMTT(60) DEF TypeOK, ArgOK, OwnsTmp, NeverTorn
  <2> QED  BY <2>1, <2>2, <2>3 DEF IInv
<1>5. CASE Sync(s)
  <2> USE <1>0, <1>5 DEF Sync
  <2>1. TypeOK'
    <3>1. \A u \in Savers : pc'[u] \notin {"idle", "lock"} <=> mu' = u
      BY SMTT(60) DEF TypeOK
    <3> QED  BY <3>1 DEF TypeOK
  <2>2. ArgOK'
    BY SMTT(60) DEF TypeOK, ArgOK
  <2>3. OwnsTmp' /\ NeverTorn'
    BY SMTT(60) DEF TypeOK, ArgOK, OwnsTmp, NeverTorn
  <2> QED  BY <2>1, <2>2, <2>3 DEF IInv
<1>6. CASE Rename(s)
  <2> USE <1>0, <1>6 DEF Rename
  <2>0. tmp = arg[s] /\ synced /\ tmp \in States
    BY DEF TypeOK, ArgOK, OwnsTmp
  <2>1. TypeOK'
    <3>1. \A u \in Savers : pc'[u] \notin {"idle", "lock"} <=> mu' = u
      BY SMTT(60) DEF TypeOK
    <3> QED  BY <2>0, <3>1 DEF TypeOK
  <2>2. ArgOK'
    BY <2>0, SMTT(60) DEF TypeOK, ArgOK
  <2>3. OwnsTmp' /\ NeverTorn'
    BY <2>0, SMTT(60) DEF TypeOK, ArgOK, OwnsTmp, NeverTorn
  <2> QED  BY <2>1, <2>2, <2>3 DEF IInv
<1>7. CASE StepFails(s)
  <2> USE <1>0, <1>7 DEF StepFails
  <2>1. TypeOK'
    <3>1. \A u \in Savers : pc'[u] \notin {"idle", "lock"} <=> mu' = u
      BY SMTT(60) DEF TypeOK
    <3> QED  BY <3>1 DEF TypeOK
  <2>2. ArgOK'
    BY SMTT(60) DEF TypeOK, ArgOK
  <2>3. OwnsTmp' /\ NeverTorn'
    BY SMTT(60) DEF TypeOK, ArgOK, OwnsTmp, NeverTorn
  <2> QED  BY <2>1, <2>2, <2>3 DEF IInv
<1>8. CASE Remove(s)
  <2> USE <1>0, <1>8 DEF Remove
  <2>1. TypeOK'
    <3>1. \A u \in Savers : pc'[u] \notin {"idle", "lock"} <=> mu' = u
      BY SMTT(60) DEF TypeOK
    <3> QED  BY <3>1 DEF TypeOK
  <2>2. ArgOK'
    BY SMTT(60) DEF TypeOK, ArgOK
  <2>3. OwnsTmp' /\ NeverTorn'
    BY SMTT(60) DEF TypeOK, ArgOK, OwnsTmp, NeverTorn
  <2> QED  BY <2>1, <2>2, <2>3 DEF IInv
<1> QED
  BY <1>1, <1>2, <1>3, <1>4, <1>5, <1>6, <1>7, <1>8 DEF SaveStep

\* So do the other steps.  A power failure leaves one of the contents the disk
\* may have had, none of which is torn.
LEMMA NextKeeps == IInv /\ [Next]_vars => IInv'
<1> SUFFICES ASSUME IInv, [Next]_vars  PROVE IInv'
  OBVIOUS
<1> USE StatesAssumption, SaversAssumption
<1>1. ASSUME NEW s \in Savers, NEW v \in States, CallSave(s, v)  PROVE IInv'
  BY <1>1, SMTT(60) DEF CallSave, Goto, IInv, TypeOK, ArgOK, OwnsTmp, NeverTorn,
                        Contents
<1>2. ASSUME NEW s \in Savers, SaveStep(s)  PROVE IInv'
  BY <1>2, SaveStepKeeps
<1> USE DEF IInv, TypeOK, ArgOK, OwnsTmp, NeverTorn, Contents
<1>3. CASE WriteOut
  BY <1>3 DEF WriteOut
<1>4. CASE Crash
  BY <1>4 DEF Crash, GoroutinesVanish
<1>5. CASE PowerFailure
  BY <1>5 DEF PowerFailure, GoroutinesVanish
<1>6. CASE UNCHANGED vars
  BY <1>6 DEF vars
<1> QED
  BY <1>1, <1>2, <1>3, <1>4, <1>5, <1>6 DEF Next

\* In every reachable state the savers and the files are as described above.
THEOREM StateFileInvariance == Spec => []IInv
<1>1. Init => IInv
  BY InitHolds
<1>2. IInv /\ [Next]_vars => IInv'
  BY NextKeeps
<1> QED
  BY <1>1, <1>2, PTL DEF Spec

\* The type invariant, with mutual exclusion: state.mu is held by the saver that
\* is past its Lock.
THEOREM StateFileTypeCorrect == Spec => []TypeOK
BY StateFileInvariance, PTL DEF IInv

\* Neither a crash of the daemon nor a power failure at any point of a Save
\* leaves a file Load cannot decode (state.go, Save).
THEOREM AlwaysDecodable == Spec => []NeverTorn
BY StateFileInvariance, PTL DEF IInv

\* A saver renames exactly what it was asked to save, after fsync (state.go).
THEOREM AlwaysRenamesOwn == Spec => []RenamesOwnState
<1>1. IInv => RenamesOwnState
  BY DEF IInv, OwnsTmp, RenamesOwnState
<1> QED
  BY <1>1, StateFileInvariance, PTL

-----------------------------------------------------------------------------
(***************************************************************************)
(* The step simulation: Save implements the atomic register                *)
(***************************************************************************)
\* The abstract register starts where the file does.
LEMMA InitSimulates == Init => Atomic!Init
BY DEF Init, Atomic!Init

\* A Rename takes effect, a failed Save gives up, everything else a saver does
\* is invisible.
LEMMA SaveStepSimulates ==
    ASSUME IInv, NEW s \in Savers, SaveStep(s)
    PROVE  [Atomic!Next]_(Atomic!vars)
<1> USE StatesAssumption DEF IInv, TypeOK, ArgOK, OwnsTmp, Goto, Return
<1>1. CASE Lock(s) \/ Create(s) \/ Encode(s) \/ Sync(s) \/ StepFails(s)
  BY <1>1 DEF Lock, Create, Encode, Sync, StepFails, Atomic!vars
<1>2. CASE CreateFails(s) \/ Remove(s)
  <2>1. Atomic!GiveUp(s)
    BY <1>2 DEF CreateFails, Remove, Atomic!GiveUp
  <2> QED  BY <2>1 DEF Atomic!Next
<1>3. CASE Rename(s)
  <2>1. Atomic!TakeEffect(s)
    BY <1>3 DEF Rename, Atomic!TakeEffect
  <2> QED  BY <2>1 DEF Atomic!Next
<1> QED
  BY <1>1, <1>2, <1>3 DEF SaveStep

\* Every step is a step of the register, or none.
LEMMA NextSimulates == IInv /\ [Next]_vars => [Atomic!Next]_(Atomic!vars)
<1> SUFFICES ASSUME IInv, [Next]_vars  PROVE [Atomic!Next]_(Atomic!vars)
  OBVIOUS
<1>1. ASSUME NEW s \in Savers, NEW v \in States, CallSave(s, v)
      PROVE  Atomic!Next
  <2>1. Atomic!Ask(s, v)
    BY <1>1 DEF CallSave, Goto, IInv, ArgOK, Atomic!Ask
  <2> QED  BY <2>1 DEF Atomic!Next
<1>2. ASSUME NEW s \in Savers, SaveStep(s)
      PROVE  [Atomic!Next]_(Atomic!vars)
  BY <1>2, SaveStepSimulates
<1>3. CASE WriteOut
  BY <1>3 DEF WriteOut, Atomic!Next, Atomic!WriteOut
<1>4. CASE Crash
  BY <1>4 DEF Crash, GoroutinesVanish, Atomic!Next, Atomic!Crash
<1>5. CASE PowerFailure
  BY <1>5 DEF PowerFailure, GoroutinesVanish, Atomic!Next, Atomic!PowerFailure
<1>6. CASE UNCHANGED vars
  BY <1>6 DEF vars, Atomic!vars
<1> QED
  BY <1>1, <1>2, <1>3, <1>4, <1>5, <1>6 DEF Next

\* state.Save is atomic, under any interleaving of savers, crashes and power
\* failures: the saved state is always one whole state some Save was asked to
\* write, and a power failure brings back only one that was current since the
\* file system last wrote it out.
THEOREM SaveIsAtomic == Spec => ImplementsAtomicState
<1>1. Init => Atomic!Init
  BY InitSimulates
<1>2. IInv /\ [Next]_vars => [Atomic!Next]_(Atomic!vars)
  BY NextSimulates
<1> QED
  BY <1>1, <1>2, StateFileInvariance, PTL DEF Spec, ImplementsAtomicState, Atomic!Spec
=============================================================================
