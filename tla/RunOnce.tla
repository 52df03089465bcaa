----------------------------- MODULE RunOnce -----------------------------
(***************************************************************************)
(* A data directory initialised once.  A service depends on a scripted     *)
(* sub-service, <name>-init, that does its work only while a marker path   *)
(* is absent: through dinix-unless (dinix-unless/src/main.rs, as           *)
(* services/postgres.nix and services/mysql.nix use it) or through a test  *)
(* in its own script (services/kubernetes.nix).  The work writes files one *)
(* after another; any write may fail, and the container may be killed      *)
(* anywhere, while the volume with the files stays.                        *)
(*                                                                         *)
(* dinit is external: it starts the sub-service when the container starts, *)
(* and the service that depends on it once the sub-service has exited 0.   *)
(***************************************************************************)
EXTENDS Naturals

CONSTANTS Programs, \* the sub-services to try
          MaxKills  \* bound on kills and failed writes

(***************************************************************************)
(* A program writes `files' files, and a file is its place in the order it *)
(* writes them in.  The first `work' of them are the guarded work, the     *)
(* rest are written on every start.  The presence of the file `marker'     *)
(* says the work is done.  The `renamed' files appear whole: they are      *)
(* moved into place, or empty.  A program that `refuses' exits 1 on a      *)
(* directory that already holds files of the work, as initdb does.         *)
(***************************************************************************)
IsProgram(p) ==
    /\ p.files \in Nat /\ p.work \in 1 .. p.files /\ p.marker \in 1 .. p.work
    /\ p.renamed \subseteq 1 .. p.files /\ p.refuses \in BOOLEAN

ASSUME ProgramsAssumption == \A p \in Programs : IsProgram(p)
ASSUME BoundAssumption    == MaxKills \in Nat

VARIABLES
    prog,      \* the program of this sub-service
    disk,      \* what there is of each file: "none", "part" or "whole"
    status,    \* the sub-service: "down", "guard", "work", "done" or "failed"
    at,        \* the file it writes next
    main,      \* is the service that depends on it up?
    finished,  \* history: has the guarded work ever written its last file?
    kills

vars == <<prog, disk, status, at, main, finished, kills>>

Files == 1 .. prog.files
Work  == 1 .. prog.work

Init ==
    /\ prog \in Programs
    /\ disk = [f \in Files |-> "none"]
    /\ status = "down"
    /\ at = 1
    /\ main = FALSE
    /\ finished = FALSE
    /\ kills = 0

-----------------------------------------------------------------------------
(* The sub-service.                                                        *)

(* Mutant of AlreadyDone: nobody looks for the marker. *)
AlreadyDoneNever == FALSE

AlreadyDone == disk[prog.marker] # "none"

Empty == \A f \in Work : disk[f] = "none"

TurnsDown == ~ AlreadyDone /\ ~ Empty /\ prog.refuses

(* Mutant of Begins: the first file written on every start is skipped with the work. *)
BeginsLate == IF AlreadyDone THEN prog.work + 2 ELSE 1

Begins == IF AlreadyDone THEN prog.work + 1 ELSE 1

Boot ==
    /\ status = "down"
    /\ status' = "guard"
    /\ UNCHANGED <<prog, disk, at, main, finished, kills>>

\* The work begins, or is passed over; or it is no absolute path, cannot be executed or turns
\* the directory down.
Guard ==
    /\ status = "guard"
    /\ \/ ~ AlreadyDone /\ status' = "failed" /\ UNCHANGED at
       \/ ~ TurnsDown /\ status' = "work" /\ at' = Begins
    /\ UNCHANGED <<prog, disk, main, finished, kills>>

\* The next file is opened, and emptied by that, unless it is moved into place whole.
Open ==
    /\ status = "work" /\ at \in Files \ prog.renamed
    /\ disk[at] # "part"
    /\ disk' = [disk EXCEPT ![at] = "part"]
    /\ UNCHANGED <<prog, status, at, main, finished, kills>>

Written ==
    /\ status = "work" /\ at \in Files
    /\ at \in prog.renamed \/ disk[at] = "part"
    /\ disk' = [disk EXCEPT ![at] = "whole"]
    /\ at' = at + 1
    /\ finished' = (finished \/ at = prog.work)
    /\ UNCHANGED <<prog, status, main, kills>>

Exit ==
    /\ status = "work" /\ at \notin Files
    /\ status' = "done" /\ at' = 1
    /\ UNCHANGED <<prog, disk, main, finished, kills>>

\* A write fails: exit 1, by `set -e' or by the program's own doing.
Break ==
    /\ status = "work" /\ at \in Files /\ kills < MaxKills
    /\ status' = "failed" /\ at' = 1 /\ kills' = kills + 1
    /\ UNCHANGED <<prog, disk, main, finished>>

-----------------------------------------------------------------------------
(* What dinit and the container runtime do.                                *)

(* Mutant of MayStart: waits-for in place of depends-on. *)
MayStartRegardless == status \in {"done", "failed"}

MayStart == status = "done"

StartMain ==
    /\ MayStart /\ ~ main
    /\ main' = TRUE
    /\ UNCHANGED <<prog, disk, status, at, finished, kills>>

\* The container is taken down, to begin again with the same volume.
Down == status' = "down" /\ main' = FALSE /\ at' = 1 /\ UNCHANGED <<prog, disk, finished>>

Kill == status # "down" /\ kills < MaxKills /\ kills' = kills + 1 /\ Down

\* Whoever runs the container starts it again after the sub-service failed.
Again == status = "failed" /\ Down /\ UNCHANGED kills

Next == Boot \/ Guard \/ Open \/ Written \/ Exit \/ Break \/ StartMain \/ Kill \/ Again

Spec == Init /\ [][Next]_vars

-----------------------------------------------------------------------------
(* Properties.                                                             *)

\* Every variable is of its kind; the sub-service has a next file only while it works.
TypeOK ==
    /\ prog \in Programs
    /\ disk \in [Files -> {"none", "part", "whole"}]
    /\ status \in {"down", "guard", "work", "done", "failed"}
    /\ at \in 1 .. prog.files + 1 /\ (status # "work" => at = 1)
    /\ main \in BOOLEAN /\ finished \in BOOLEAN
    /\ kills \in 0 .. MaxKills

\* What is done is not done again (dinix-unless: "a planted symlink is not a way to make it
\* happen twice"): once the work has been completed no file of it is written any more, through
\* every kill, failure and restart, and wherever in the work the marker is made.
WorkHappensOnce ==
    [][finished => \A f \in Work : disk'[f] = disk[f]]_vars

\* The last thing the work does is to move the marker into place.
MarkerLast == prog.marker = prog.work /\ prog.marker \in prog.renamed

\* Where that is so, the service never runs on a directory that is only partly initialised,
\* wherever an earlier start was killed or failed.
MainHasItsFiles ==
    main /\ MarkerLast => \A f \in Files : disk[f] = "whole"

\* services/kubernetes.nix, of the API server: "The keys have to exist and etcd has to be up
\* before the API server can serve. `depends-on` says both".
KeysExist == main => \A f \in Files : disk[f] = "whole"
=============================================================================
