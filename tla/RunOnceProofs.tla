-------------------------- MODULE RunOnceProofs --------------------------
(***************************************************************************)
(* What RunOnce promises for every program, every marker and every number  *)
(* of kills.  The invariant adds to the type what the position in the work *)
(* says of the files before it.                                            *)
(***************************************************************************)
EXTENDS RunOnce, TLAPS

\* Once the work has been completed the marker is there and no start is back in the work.
FinishedStays ==
    finished => disk[prog.marker] # "none" /\ (status = "work" => at > prog.work)

\* A start that is in the work has already made every file before the one it is at.
MadeSoFar ==
    status = "work" /\ at <= prog.work => \A f \in 1 .. at - 1 : disk[f] # "none"

\* With the marker last, it stands for the whole work, and no start that works is before it; ...
MarkerMeansWork ==
    MarkerLast /\ disk[prog.marker] # "none" =>
        (\A f \in Work : disk[f] = "whole") /\ (status = "work" => at > prog.work)

\* ... what is behind a working start is whole, and all is when it is done.
BehindIsWhole ==
    MarkerLast => /\ status = "work" => \A f \in 1 .. at - 1 : disk[f] = "whole"
                  /\ status = "done" => \A f \in Files : disk[f] = "whole"

OnlyAfterExit == main => status = "done"

Inv == TypeOK /\ FinishedStays /\ MadeSoFar /\ MarkerMeansWork /\ BehindIsWhole /\ OnlyAfterExit

-----------------------------------------------------------------------------

LEMMA InitInv == Init => Inv
  <1> SUFFICES ASSUME Init PROVE Inv
    OBVIOUS
  <1>1. /\ prog \in Programs /\ MaxKills \in Nat
        /\ prog.files \in Nat /\ prog.work \in 1 .. prog.files /\ prog.marker \in 1 .. prog.work
    BY ProgramsAssumption, BoundAssumption DEF Init, IsProgram
  <1>2. TypeOK
    <2>1. disk \in [Files -> {"none", "part", "whole"}] /\ at \in 1 .. prog.files + 1
      BY <1>1 DEF Init, Files
    <2>2. main \in BOOLEAN /\ finished \in BOOLEAN
      BY Zenon DEF Init
    <2> QED
      BY <1>1, <2>1, <2>2 DEF Init, TypeOK
  <1>3. /\ ~ finished /\ ~ main /\ status = "down" /\ disk[prog.marker] = "none"
    BY <1>1 DEF Init, Files
  <1> QED
    BY <1>2, <1>3 DEF Inv, FinishedStays, MadeSoFar, MarkerMeansWork, BehindIsWhole, OnlyAfterExit

\* A write of the file at hand, whether it opens it or ends it, leaves the others alone.
LEMMA InvStep == Inv /\ [Next]_vars => Inv'
  <1> SUFFICES ASSUME Inv, [Next]_vars PROVE Inv'
    OBVIOUS
  <1>p. /\ IsProgram(prog) /\ MaxKills \in Nat
        /\ prog.files \in Nat /\ prog.work \in 1 .. prog.files /\ prog.marker \in 1 .. prog.work
    BY ProgramsAssumption, BoundAssumption DEF Inv, TypeOK, IsProgram
  <1> USE <1>p DEF Inv, TypeOK, FinishedStays, MadeSoFar, MarkerMeansWork, BehindIsWhole,
                   OnlyAfterExit, Files, Work, MarkerLast
  <1>1. CASE Boot
    BY <1>1 DEF Boot
  <1>2. CASE Guard
    <2>1. CASE AlreadyDone
      BY <1>2, <2>1 DEF Guard, Begins, AlreadyDone, TurnsDown
    <2>2. CASE ~ AlreadyDone
      BY <1>2, <2>2 DEF Guard, Begins, AlreadyDone, TurnsDown
    <2> QED
      BY <2>1, <2>2
  <1>3. CASE Open
    <2>1. /\ status = "work" /\ at \in Files /\ at \notin prog.renamed
          /\ disk' = [disk EXCEPT ![at] = "part"]
          /\ UNCHANGED <<prog, status, at, main, finished, kills>>
      BY <1>3 DEF Open
    <2>2. /\ TypeOK' /\ OnlyAfterExit' /\ FinishedStays' /\ MadeSoFar'
      BY <2>1
    <2>3. \A f \in 1 .. at - 1 : disk'[f] = disk[f]
      BY <2>1
    <2>4. BehindIsWhole'
      BY <2>1, <2>3
    \* The marker itself is never opened: it is moved into place.
    <2>5. MarkerMeansWork'
      <3> SUFFICES ASSUME MarkerLast, disk'[prog.marker] # "none"
                   PROVE (\A f \in Work : disk'[f] = "whole") /\ at > prog.work
        BY <2>1
      <3>1. at # prog.marker
        BY <2>1
      <3>2. (\A f \in Work : disk[f] = "whole") /\ at > prog.work
        BY <2>1, <3>1
      <3> QED
        BY <2>1, <3>2
    <2> QED
      BY <2>2, <2>4, <2>5
  <1>4. CASE Written
    BY <1>4 DEF Written
  <1>5. CASE Exit
    BY <1>5 DEF Exit
  <1>6. CASE Break
    BY <1>6 DEF Break
  <1>7. CASE StartMain
    BY <1>7 DEF StartMain, MayStart
  <1>8. CASE Kill \/ Again
    <2>1. /\ status' = "down" /\ main' = FALSE /\ at' = 1
          /\ UNCHANGED <<prog, disk, finished>>
      BY <1>8 DEF Kill, Again, Down
    <2>2. kills' \in 0 .. MaxKills
      BY <1>8 DEF Kill, Again
    <2>3. main' \in BOOLEAN /\ finished' \in BOOLEAN
      BY <2>1, Zenon
    <2>4. TypeOK'
      BY <2>1, <2>2, <2>3
    <2> QED
      BY <2>1, <2>4
  <1>9. CASE UNCHANGED vars
    BY <1>9 DEF vars
  <1> QED
    BY <1>1, <1>2, <1>3, <1>4, <1>5, <1>6, <1>7, <1>8, <1>9 DEF Next

LEMMA Invariance == Spec => []Inv
  BY InitInv, InvStep, PTL DEF Spec

\* Every variable of the sub-service keeps its type.
THEOREM OnceTypeCorrect == Spec => []TypeOK
  BY Invariance, PTL DEF Inv

\* A service whose initialisation makes its marker last never runs without all of its files.
THEOREM NeverHalfInitialised == Spec => []MainHasItsFiles
  <1>1. Inv => MainHasItsFiles
    BY DEF Inv, MainHasItsFiles, OnlyAfterExit, BehindIsWhole
  <1> QED
    BY <1>1, Invariance, PTL

\* Completed work is never done over, wherever the marker is made.
THEOREM NeverTwice == Spec => WorkHappensOnce
  <1>1. Inv /\ [Next]_vars => [finished => \A f \in Work : disk'[f] = disk[f]]_vars
    <2> SUFFICES ASSUME Inv, Next, finished, NEW f \in Work PROVE disk'[f] = disk[f]
      BY DEF vars
    <2>1. IsProgram(prog)
      BY ProgramsAssumption DEF Inv, TypeOK
    <2>2. CASE disk' = disk
      BY <2>2
    <2>3. CASE Open \/ Written
      <3>1. status = "work" /\ at \in Files
        BY <2>3 DEF Open, Written
      <3>2. at > prog.work
        BY <3>1, Zenon DEF Inv, FinishedStays
      <3>3. f # at
        BY <2>1, <3>2 DEF Work, IsProgram
      <3>4. disk' = [disk EXCEPT ![at] = "part"] \/ disk' = [disk EXCEPT ![at] = "whole"]
        BY <2>3 DEF Open, Written
      <3> QED
        BY <2>1, <3>3, <3>4 DEF Inv, TypeOK, Files, Work, IsProgram
    <2>4. Open \/ Written \/ UNCHANGED disk
      BY DEF Next, Boot, Guard, Exit, Break, StartMain, Kill, Again, Down
    <2> QED
      BY <2>2, <2>3, <2>4
  <1> QED
    BY <1>1, Invariance, PTL DEF Spec, WorkHappensOnce
=============================================================================
