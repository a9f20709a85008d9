--------------------------- MODULE SelfUpdateProofs ---------------------------
(***************************************************************************)
(* Theorems about SelfUpdate, for any number of updates and crashes.       *)
(***************************************************************************)
EXTENDS SelfUpdate, TLAPS

Moving(u) == at[u] \in {"replace", "restore"}

\* On Windows the process runs from a file that has one of the two names, and
\* an update between its renames has the backup to itself: it is what the
\* process runs from, and there is nothing at execPath.
WindowsInv ==
  os = "windows" =>
    /\ image # None => image \in {exec, old}
    /\ \A u \in alive : Moving(u) => exec = None /\ old = image

\* Elsewhere nothing is ever moved aside.
UnixInv ==
  os = "unix" => /\ exec # None /\ old = None
                 /\ \A u \in Updates : at[u] \notin {"aside", "move", "restore"}

\* What gets a name is a complete binary.
WholeInv ==
  /\ None \notin whole
  /\ exec # None => exec \in whole
  /\ old # None => old \in whole
  /\ exec = None => old # None
  /\ \A u \in Updates : at[u] \in {"aside", "move", "replace", "restore", "exit"} => u \in whole

AliveInv == alive # {} => image # None

IInv == TypeOK /\ WindowsInv /\ UnixInv /\ WholeInv /\ AliveInv
        /\ MissingOnlyMidway /\ OneMover /\ NoLitter

-------------------------------------------------------------------------------
LEMMA InitOK == Init => IInv
  BY UpdateAssumption
  DEF Init, IInv, TypeOK, WindowsInv, UnixInv, WholeInv, AliveInv, MissingOnlyMidway, OneMover,
      NoLitter, Moving, Files, Stages

\* The steps of an update that leave both names and the process alone.
LEMMA QuietStepOK ==
  ASSUME IInv, NEW u \in Updates,
         \/ handleUpdate(u) \/ GiveUp(u) \/ CreateStaging(u) \/ Extract(u) \/ ExtractFails(u)
         \/ MoveAsideFails(u)
  PROVE  IInv'
  BY UpdateAssumption
  DEF IInv, TypeOK, WindowsInv, UnixInv, WholeInv, AliveInv, MissingOnlyMidway, OneMover,
      NoLitter, Moving, Files, Stages, Goes, handleUpdate, GiveUp, CreateStaging, Extract,
      ExtractFails, MoveAsideFails

\* A removed backup is not what the process runs from: that is at execPath then.
LEMMA RemoveBackupOK == ASSUME IInv, NEW u \in Updates, RemoveBackup(u) PROVE IInv'
  BY UpdateAssumption
  DEF IInv, TypeOK, WindowsInv, UnixInv, WholeInv, AliveInv, MissingOnlyMidway, OneMover,
      NoLitter, Moving, Files, Stages, Goes, RemoveBackup, Removable

\* Only the file that the process runs from can be moved aside: were it another
\* one, the backup would be the process's, and stay.
LEMMA MoveAsideOK == ASSUME IInv, NEW u \in Updates, MoveAside(u) PROVE IInv'
  BY UpdateAssumption
  DEF IInv, TypeOK, WindowsInv, UnixInv, WholeInv, AliveInv, MissingOnlyMidway, OneMover,
      NoLitter, Moving, Files, Stages, Goes, MoveAside, Removable

LEMMA ReplaceOK == ASSUME IInv, NEW u \in Updates, Replace(u) \/ ReplaceFails(u) PROVE IInv'
  BY UpdateAssumption
  DEF IInv, TypeOK, WindowsInv, UnixInv, WholeInv, AliveInv, MissingOnlyMidway, OneMover,
      NoLitter, Moving, Files, Stages, Goes, Replace, ReplaceFails, Removable

LEMMA RestoreOK == ASSUME IInv, NEW u \in Updates, Restore(u) \/ RestoreFails(u) PROVE IInv'
  BY UpdateAssumption
  DEF IInv, TypeOK, WindowsInv, UnixInv, WholeInv, AliveInv, MissingOnlyMidway, OneMover,
      NoLitter, Moving, Files, Stages, Goes, Restore, RestoreFails, Removable

LEMMA ProcessStepOK ==
  ASSUME IInv, \/ \E u \in Updates : ExitAfterUpdate(u)
               \/ Crash \/ Start \/ StartByHand \/ RunBeside
  PROVE  IInv'
  BY UpdateAssumption
  DEF IInv, TypeOK, WindowsInv, UnixInv, WholeInv, AliveInv, MissingOnlyMidway, OneMover,
      NoLitter, Moving, Files, Stages, ExitAfterUpdate, Crash, Start, StartByHand, Begin, RunBeside,
      Die, CleanupOldBinary

LEMMA StutterOK == ASSUME IInv, UNCHANGED vars PROVE IInv'
  BY DEF IInv, TypeOK, WindowsInv, UnixInv, WholeInv, AliveInv, MissingOnlyMidway, OneMover,
         NoLitter, Moving, vars

LEMMA NextOK == IInv /\ [Next]_vars => IInv'
<1> SUFFICES ASSUME IInv, [Next]_vars PROVE IInv'
  OBVIOUS
<1>1. CASE \E u \in Updates : UpdateStep(u)
  <2>1. PICK u \in Updates : UpdateStep(u)
    BY <1>1
  <2>2. CASE \/ handleUpdate(u) \/ GiveUp(u) \/ CreateStaging(u) \/ Extract(u)
             \/ ExtractFails(u) \/ MoveAsideFails(u)
    BY <2>2, QuietStepOK
  <2>3. CASE RemoveBackup(u)
    BY <2>3, RemoveBackupOK
  <2>4. CASE MoveAside(u)
    BY <2>4, MoveAsideOK
  <2>5. CASE Replace(u) \/ ReplaceFails(u)
    BY <2>5, ReplaceOK
  <2>6. CASE Restore(u) \/ RestoreFails(u)
    BY <2>6, RestoreOK
  <2>7. CASE ExitAfterUpdate(u)
    BY <2>7, ProcessStepOK
  <2> QED
    BY <2>1, <2>2, <2>3, <2>4, <2>5, <2>6, <2>7 DEF UpdateStep
<1>2. CASE Crash \/ Start \/ StartByHand \/ RunBeside
  BY <1>2, ProcessStepOK
<1>3. CASE UNCHANGED vars
  BY <1>3, StutterOK
<1> QED
  BY <1>1, <1>2, <1>3 DEF Next

LEMMA Inductive == Spec => []IInv
  BY InitOK, NextOK, PTL DEF Spec

-------------------------------------------------------------------------------
\* Every variable of SelfUpdate keeps its type.
THEOREM TypeCorrect == Spec => []TypeOK
  BY Inductive, PTL DEF IInv

\* No sequence of updates, failures, crashes and starts destroys the last
\* complete binary that has a name (handleUpdate, cleanupOldBinary).
THEOREM BinaryAtHandHolds == Spec => []BinaryAtHand
<1>1. IInv => BinaryAtHand
  BY DEF IInv, TypeOK, WholeInv, UnixInv, BinaryAtHand
<1> QED
  BY <1>1, Inductive, PTL

\* execPath is without a file only where an update was between its renames, or
\* both of them failed (handleUpdate).
THEOREM MissingOnlyMidwayHolds == Spec => []MissingOnlyMidway
  BY Inductive, PTL DEF IInv

\* Updates that run at once keep out of each other's way (handleUpdate).
THEOREM OneMoverHolds == Spec => []OneMover
  BY Inductive, PTL DEF IInv

\* Staging files that stay are those of updates that were cut off (handleUpdate).
THEOREM NoLitterHolds == Spec => []NoLitter
  BY Inductive, PTL DEF IInv
===============================================================================
