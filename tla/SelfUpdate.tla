------------------------------ MODULE SelfUpdate ------------------------------
(***************************************************************************)
(* The self-update: handleUpdate of src/admin/api.go, each call of which   *)
(* is a goroutine of its own, and cleanupOldBinary of src/cmd/ccr/main.go, *)
(* which every start of the program runs first.                            *)
(*                                                                         *)
(* What they share is the directory of the executable: the names execPath, *)
(* execPath.old and a staging file for each update, with the files behind  *)
(* them.  A file is named by the update that staged it.  On Windows the    *)
(* file a process runs from can be renamed, but neither removed nor        *)
(* replaced; elsewhere a rename over it succeeds.  Any rename may fail.    *)
(* Which release there is, and its download, are one choice between going  *)
(* on and giving up; the archive in the system's temporary directory is    *)
(* left out.                                                               *)
(*                                                                         *)
(* An update ends in os.Exit(0), and leaves it to what the installers      *)
(* registered the program with to start it again: NSSM, which is left at   *)
(* its default and restarts after every exit (src/setup.ps1), launchd with *)
(* KeepAlive, or systemd with Restart=on-failure (src/install.sh).  Both   *)
(* installers ask first: it may also be run without any of them.           *)
(***************************************************************************)
EXTENDS Naturals

CONSTANTS
  Updates,          \* calls of handleUpdate
  Shipped,          \* the file that was installed at first
  None,             \* no file, no process
  Services,         \* what may run the program: "nssm", "launchd", "systemd", "none"
  MaxCrashes        \* bound on how often the process dies of something else

ASSUME UpdateAssumption ==
  /\ Shipped \notin Updates
  /\ None \notin Updates \cup {Shipped}
  /\ Services \subseteq {"nssm", "launchd", "systemd", "none"}
  /\ MaxCrashes \in Nat

Files == Updates \cup {Shipped}

VARIABLES
  os,               \* runtime.GOOS
  service,          \* what runs the program
  exited,           \* how the last process ended: "clean" is an exit with status 0
  exec,             \* the file at execPath
  old,              \* the file at execPath.old
  staged,           \* the updates whose staging file has its name
  whole,            \* the files with a complete, executable binary
  image,            \* the file the process runs from
  at,               \* where each update stands, or stood when its process ended
  alive,            \* the updates that run in the process
  crashes

vars == <<os, service, exited, exec, old, staged, whole, image, at, alive, crashes>>

Init ==
  /\ os \in {"windows", "unix"}
  /\ service \in Services
  /\ service = "nssm" => os = "windows"
  /\ service \in {"launchd", "systemd"} => os = "unix"
  /\ exited = "clean"
  /\ exec = Shipped
  /\ old = None
  /\ staged = {}
  /\ whole = {Shipped}
  /\ image = Shipped
  /\ at = [u \in Updates |-> "idle"]
  /\ alive = {}
  /\ crashes = 0

\* The name can be taken away from its file, or given to another one.
Removable(file) == os = "windows" => file # image

Goes(u, from, to) ==
  /\ u \in alive
  /\ at[u] = from
  /\ at' = [at EXCEPT ![u] = to]

-------------------------------------------------------------------------------
(* The goroutine of handleUpdate.                                              *)

\* The answer is sent, and the goroutine begins.
handleUpdate(u) ==
  /\ image # None
  /\ at[u] = "idle"
  /\ at' = [at EXCEPT ![u] = "fetch"]
  /\ alive' = alive \cup {u}
  /\ UNCHANGED <<os, service, exited, exec, old, staged, whole, image, crashes>>

\* The release is the running one, has no asset for the platform, or cannot be
\* had; or the staging file cannot be created.
GiveUp(u) ==
  /\ Goes(u, "fetch", "done")
  /\ UNCHANGED <<os, service, exited, exec, old, staged, whole, image, alive, crashes>>

\* The archive is there, and an empty staging file.
CreateStaging(u) ==
  /\ Goes(u, "fetch", "extract")
  /\ staged' = staged \cup {u}
  /\ UNCHANGED <<os, service, exited, exec, old, whole, image, alive, crashes>>

\* extractBinary, and chmod where there is one.
Extract(u) ==
  /\ Goes(u, "extract", IF os = "windows" THEN "aside" ELSE "replace")
  /\ whole' = whole \cup {u}
  /\ UNCHANGED <<os, service, exited, exec, old, staged, image, alive, crashes>>

\* Mutant of ExtractFails: the error is logged, and the update goes on.
ExtractFailsAndGoesOn(u) ==
  /\ Goes(u, "extract", IF os = "windows" THEN "aside" ELSE "replace")
  /\ UNCHANGED <<os, service, exited, exec, old, staged, whole, image, alive, crashes>>

\* The deferred os.Remove takes the staging file with it.
ExtractFails(u) ==
  /\ Goes(u, "extract", "done")
  /\ staged' = staged \ {u}
  /\ UNCHANGED <<os, service, exited, exec, old, whole, image, alive, crashes>>

\* The best-effort removal of what a prior attempt left.
RemoveBackup(u) ==
  /\ Goes(u, "aside", "move")
  /\ old' \in {old} \cup (IF Removable(old) THEN {None} ELSE {})
  /\ UNCHANGED <<os, service, exited, exec, staged, whole, image, alive, crashes>>

MoveAside(u) ==
  /\ exec # None
  /\ Removable(old)
  /\ Goes(u, "move", "replace")
  /\ old' = exec
  /\ exec' = None
  /\ UNCHANGED <<os, service, exited, staged, whole, image, alive, crashes>>

\* Mutant of MoveAsideFails: without the return, the update goes on to replace.
MoveAsideFailsAndGoesOn(u) ==
  /\ Goes(u, "move", "replace")
  /\ UNCHANGED <<os, service, exited, exec, old, staged, whole, image, alive, crashes>>

\* Mutant of MoveAsideFails: the staging file is removed at the end only.
MoveAsideFailsLeaves(u) ==
  /\ Goes(u, "move", "done")
  /\ UNCHANGED <<os, service, exited, exec, old, staged, whole, image, alive, crashes>>

MoveAsideFails(u) ==
  /\ Goes(u, "move", "done")
  /\ staged' = staged \ {u}
  /\ UNCHANGED <<os, service, exited, exec, old, whole, image, alive, crashes>>

Replace(u) ==
  /\ exec = None \/ Removable(exec)
  /\ Goes(u, "replace", "exit")
  /\ exec' = u
  /\ staged' = staged \ {u}
  /\ UNCHANGED <<os, service, exited, old, whole, image, alive, crashes>>

\* Mutant of ReplaceFails: the error is the end of it, on Windows too.
ReplaceFailsAndReturns(u) ==
  /\ Goes(u, "replace", "done")
  /\ staged' = staged \ {u}
  /\ UNCHANGED <<os, service, exited, exec, old, whole, image, alive, crashes>>

ReplaceFails(u) ==
  /\ Goes(u, "replace", IF os = "windows" THEN "restore" ELSE "done")
  /\ staged' = IF os = "windows" THEN staged ELSE staged \ {u}
  /\ UNCHANGED <<os, service, exited, exec, old, whole, image, alive, crashes>>

\* "try to restore": the backup gets its name back.
Restore(u) ==
  /\ old # None
  /\ exec = None \/ Removable(exec)
  /\ Goes(u, "restore", "done")
  /\ exec' = old
  /\ old' = None
  /\ staged' = staged \ {u}
  /\ UNCHANGED <<os, service, exited, whole, image, alive, crashes>>

RestoreFails(u) ==
  /\ Goes(u, "restore", "stuck")
  /\ staged' = staged \ {u}
  /\ UNCHANGED <<os, service, exited, exec, old, whole, image, alive, crashes>>

-------------------------------------------------------------------------------
(* The process.                                                                *)

\* os.Exit runs no deferred call; all goroutines are gone.
Die(how) ==
  /\ image' = None
  /\ alive' = {}
  /\ exited' = how
  /\ UNCHANGED <<os, service, exec, old, staged, whole, at>>

\* Mutant of ExitAfterUpdate: the process is left to be restarted by hand.
ExitLater(u) ==
  /\ u \in alive
  /\ at[u] = "exit"
  /\ at' = [at EXCEPT ![u] = "done"]
  /\ UNCHANGED <<os, service, exited, exec, old, staged, whole, image, alive, crashes>>

\* 200 ms after the replacement: os.Exit(0).
ExitAfterUpdate(u) ==
  /\ u \in alive
  /\ at[u] = "exit"
  /\ Die("clean")
  /\ UNCHANGED crashes

\* handleRestart or a signal main handles, which end in a clean exit, or a crash.
Crash ==
  /\ image # None
  /\ crashes < MaxCrashes
  /\ crashes' = crashes + 1
  /\ \E how \in {"clean", "failed"} : Die(how)

\* cleanupOldBinary, for a process that runs from file; the removal may fail.
CleanupOldBinary(file) ==
  old' \in {old} \cup (IF os = "windows" => old \notin {image, file} THEN {None} ELSE {})

\* main, of a new process.
Begin ==
  /\ image = None
  /\ exec # None
  /\ image' = exec
  /\ CleanupOldBinary(exec)
  /\ UNCHANGED <<os, service, exited, exec, staged, whole, at, alive, crashes>>

\* The service is one that starts the program again after its last exit.
Restarts ==
  \/ service \in {"nssm", "launchd"}
  \/ service = "systemd" /\ exited = "failed"

Start == Restarts /\ Begin

\* Somebody starts it, or the machine does when it boots.
StartByHand == Begin

\* Somebody runs the program beside the service; even -version cleans up.
RunBeside ==
  /\ image # None
  /\ exec # None
  /\ CleanupOldBinary(exec)
  /\ UNCHANGED <<os, service, exited, exec, staged, whole, image, at, alive, crashes>>

-------------------------------------------------------------------------------
UpdateStep(u) ==
  \/ handleUpdate(u) \/ GiveUp(u) \/ CreateStaging(u) \/ Extract(u) \/ ExtractFails(u)
  \/ RemoveBackup(u) \/ MoveAside(u) \/ MoveAsideFails(u)
  \/ Replace(u) \/ ReplaceFails(u) \/ Restore(u) \/ RestoreFails(u)
  \/ ExitAfterUpdate(u)

Next == (\E u \in Updates : UpdateStep(u)) \/ Crash \/ Start \/ StartByHand \/ RunBeside

Spec == Init /\ [][Next]_vars

\* The process exits when it has slept, and a service that is to start it again
\* does.  Nobody has to start it by hand.
Fairness == WF_vars(Start) /\ \A u \in Updates : WF_vars(ExitAfterUpdate(u))

FairSpec == Spec /\ Fairness

-------------------------------------------------------------------------------
Stages == {"idle", "fetch", "extract", "aside", "move", "replace", "restore", "exit",
           "done", "stuck"}

\* Every variable has its type.
TypeOK ==
  /\ os \in {"windows", "unix"}
  /\ service \in Services
  /\ exited \in {"clean", "failed"}
  /\ exec \in Files \cup {None}
  /\ old \in Files \cup {None}
  /\ staged \subseteq Updates
  /\ whole \subseteq Files
  /\ image \in Files \cup {None}
  /\ at \in [Updates -> Stages]
  /\ alive \subseteq Updates
  /\ crashes \in Nat

(***************************************************************************)
(* Whatever fails, wherever the process ends, and however many updates     *)
(* run at once: there is a complete binary at execPath, or, on Windows, at *)
(* least one beside it under the name .old that a later start, update or   *)
(* clean-up does not take away.  api.go:624-650, main.go:29-41.            *)
(***************************************************************************)
BinaryAtHand ==
  /\ exec # None => exec \in whole
  /\ exec = None => os = "windows" /\ old \in whole

(***************************************************************************)
(* execPath has no file only between the two renames of an update, or      *)
(* since the process ended between them or the attempt to restore failed:  *)
(* an update that gave up has put back what it moved.  api.go:630-645.     *)
(***************************************************************************)
MissingOnlyMidway ==
  exec = None => \E u \in Updates : at[u] \in {"replace", "restore", "stuck"}

(***************************************************************************)
(* Two updates are never between their renames at the same time, although  *)
(* no lock keeps them apart: on Windows the second finds nothing to move,  *)
(* or may not replace the file the process runs from.  api.go:518-632.     *)
(***************************************************************************)
OneMover ==
  os = "windows" =>
    \A u, v \in alive : at[u] \in {"replace", "restore"} /\ at[v] \in {"replace", "restore"} =>
      u = v

(***************************************************************************)
(* A staging file that stays is one of an update that was cut off by the   *)
(* end of the process; no update that failed leaves one.                   *)
(* api.go:599-612, the deferred os.Remove.                                 *)
(***************************************************************************)
NoLitter ==
  \A u \in staged : at[u] \in {"extract", "aside", "move", "replace", "restore"}

(***************************************************************************)
(* Where NSSM or launchd runs the program: after an update replaced the    *)
(* binary, the program comes to run from the file that is at execPath,     *)
(* which is one an update has put there.  api.go:647-649, setup.ps1:207,   *)
(* install.sh:203-204.                                                     *)
(***************************************************************************)
Replaced(u)  == u \in alive /\ at[u] = "exit"
RunsUpdate   == image = exec /\ image \in Updates

UpdateTakesHold ==
  \A u \in Updates : (service \in {"nssm", "launchd"} /\ Replaced(u)) ~> RunsUpdate

(***************************************************************************)
(* The same of every service the installers can register: "so NSSM (or any *)
(* other service wrapper) automatically restarts the process, picking up a *)
(* freshly-deployed binary" (api.go:436-438).  Under systemd, with         *)
(* Restart=on-failure, it does not hold (install.sh:163): the exit of an   *)
(* update has status 0, and the program stays down.                        *)
(***************************************************************************)
AnyServiceRestarts ==
  \A u \in Updates : (service # "none" /\ Replaced(u)) ~> RunsUpdate
===============================================================================
