--------------------------- MODULE NixReloadProofs ---------------------------
(***************************************************************************)
(* What NixReload promises for every number of services, builds and TUIs:  *)
(* its types, and that the swap of the link leaves no moment in which a    *)
(* description is missing.  With a single TUI, that the reload adopts its  *)
(* own build, and everything that it reports as adopted is.                *)
(***************************************************************************)
EXTENDS NixReload, TLAPS

-----------------------------------------------------------------------------
(* The types, and what the rest of TypeOK needs: a command has its build   *)
(* from the moment it begins, and only one that asked for restarts         *)
(* restarts.                                                               *)

Busy == {"building", "unlink", "symlink", "rename", "loading", "reloading",
         "restarting", "complete"}

Task(s) == [phase : Phases, dir : Dirs \union {None}, build : (Base..s) \union {None},
            restart : BOOLEAN, todo : SUBSET Names, known : SUBSET Names,
            reloaded : SUBSET Names, restarted : SUBSET Names]

Sound(r) ==
  /\ r.phase \in Busy => r.build # None
  /\ r.phase = "restarting" => r.restart
  /\ ~r.restart \/ r.phase \notin {"restarting", "complete"} => r.restarted = {}

TInv == TypeOK /\ \A t \in TUIs : Sound(tui[t])

(* The step of one TUI, that leaves it sound, leaves all of them sound. *)
LEMMA OneTask ==
  ASSUME NEW s, tui \in [TUIs -> Task(s)], \A u \in TUIs : Sound(tui[u]),
         NEW t \in TUIs, NEW r \in Task(s), Sound(r), tui' = [tui EXCEPT ![t] = r]
  PROVE  tui' \in [TUIs -> Task(s)] /\ \A u \in TUIs : Sound(tui'[u])
BY DEF Sound

LEMMA ResolveType ==
  ASSUME pointer \in [Dirs -> (Base..source) \union {None}], source \in Builds, NEW n
  PROVE  Resolve(n) \in Sources
BY ReloadAssumption DEF Resolve, Sources, Builds, Base

LEMMA InitTInv == Init => TInv
<1>1. SUFFICES ASSUME Init PROVE TInv
  OBVIOUS
<1>2. source \in Builds /\ source = Started
  BY <1>1, ReloadAssumption DEF Init
<1>3. {pointer, temporary} \subseteq [Dirs -> (Base..source) \union {None}]
  BY <1>1, <1>2 DEF Init
<1>4. \A n \in Names : Resolve(n) \in Sources
  BY <1>2, <1>3, ResolveType
<1>5. loaded \in [Names -> Sources]
  BY <1>1, <1>4 DEF Init, Sources
<1>6. service \in [Names -> [state : {"stopped", "starting", "started"}, from : Sources]]
  BY <1>1, <1>4 DEF Init, Down, Sources
<1>7. tui \in [TUIs -> Task(source)] /\ \A t \in TUIs : Sound(tui[t])
  BY <1>1 DEF Init, Closed, Task, Phases, Sound, Busy
<1>. QED
  BY <1>2, <1>3, <1>5, <1>6, <1>7 DEF TInv, TypeOK, Task, Sound

(* A task that rests, and the steps of a task that change nothing else. *)
Resting(t) == [Closed EXCEPT !.phase = "idle", !.dir = tui[t].dir, !.known = tui[t].known]

LEMMA RestingSound ==
  ASSUME NEW s, tui \in [TUIs -> Task(s)], NEW t \in TUIs
  PROVE  Resting(t) \in Task(s) /\ Sound(Resting(t)) /\ Idle(t) = [tui EXCEPT ![t] = Resting(t)]
BY DEF Resting, Closed, Task, Sound, Phases, Busy, Idle

LEMMA LoadNewSound ==
  ASSUME TInv, NEW t \in TUIs, tui[t].phase \in {"building", "rename"}
  PROVE  \E r \in Task(source) : Sound(r) /\ LoadNew(t) = [tui EXCEPT ![t] = r]
<1>. DEFINE r == [tui[t] EXCEPT !.phase = "loading", !.todo = Provides[tui[t].build] \ tui[t].known]
<1>1. tui \in [TUIs -> Task(source)] /\ tui[t] \in Task(source) /\ Sound(tui[t])
  BY DEF TInv, TypeOK, Task
<1>2. tui[t].build \in Builds
  <2>1. tui[t].build \in Base..source
    BY <1>1 DEF Task, Sound, Busy
  <2>. QED
    BY <2>1, ReloadAssumption DEF TInv, TypeOK, Builds, Base
<1>3. Provides[tui[t].build] \subseteq Names
  BY <1>2, ReloadAssumption
<1>4. r \in Task(source) /\ Sound(r)
  BY <1>1, <1>3 DEF Task, Sound, Phases, Busy
<1>5. LoadNew(t) = [tui EXCEPT ![t] = r]
  BY <1>1 DEF LoadNew, Task
<1>. QED
  BY <1>4, <1>5

(* The step of a task that touches neither source, links nor services. *)
LEMMA TaskStep ==
  ASSUME TInv, NEW t \in TUIs, NEW r \in Task(source), Sound(r), tui' = [tui EXCEPT ![t] = r],
         source' = source,
         {pointer', temporary'} \subseteq [Dirs -> (Base..source) \union {None}],
         loaded' \in [Names -> Sources],
         service' \in [Names -> [state : {"stopped", "starting", "started"}, from : Sources]]
  PROVE  TInv'
<1>1. tui \in [TUIs -> Task(source)] /\ \A u \in TUIs : Sound(tui[u])
  BY DEF TInv, TypeOK, Task
<1>2. tui' \in [TUIs -> Task(source)] /\ \A u \in TUIs : Sound(tui'[u])
  BY <1>1, OneTask
<1>3. TypeOK'
  BY <1>2 DEF TInv, TypeOK, Task, Sound
<1>4. \A u \in TUIs : Sound(tui[u])'
  BY <1>2 DEF Sound
<1>. QED
  BY <1>3, <1>4 DEF TInv

LEMMA StepTInv == TInv /\ [Next]_vars => TInv'
<1>1. SUFFICES ASSUME TInv, [Next]_vars PROVE TInv'
  OBVIOUS
<1>2. /\ tui \in [TUIs -> Task(source)] /\ source \in Builds
      /\ {pointer, temporary} \subseteq [Dirs -> (Base..source) \union {None}]
      /\ loaded \in [Names -> Sources]
      /\ service \in [Names -> [state : {"stopped", "starting", "started"}, from : Sources]]
  BY <1>1 DEF TInv, TypeOK, Task
<1>3. \A t \in TUIs : tui[t] \in Task(source) /\ Sound(tui[t])
  BY <1>1, <1>2 DEF TInv
<1>4. \A n \in Names : Resolve(n) \in Sources
  BY <1>2, ResolveType
<1>5. \A t \in TUIs : /\ Resting(t) \in Task(source) /\ Sound(Resting(t))
                      /\ Idle(t) = [tui EXCEPT ![t] = Resting(t)]
  BY <1>2, RestingSound
<1>6. \A t \in TUIs : Closed \in Task(source) /\ Sound(Closed)
  BY DEF Closed, Task, Sound, Phases, Busy
<1>open. ASSUME NEW t \in TUIs, Open(t) PROVE TInv'
  <2>1. PICK launch \in Launches :
          tui' = [tui EXCEPT ![t].phase = "opening", ![t].dir = RuntimeDir(launch),
                             ![t].todo = Known \union {n \in Names : Resolve(n) # None}]
    BY <1>open DEF Open
  <2>. DEFINE r == [tui[t] EXCEPT !.phase = "opening", !.dir = RuntimeDir(launch),
                                  !.todo = Known \union {n \in Names : Resolve(n) # None}]
  <2>2. RuntimeDir(launch) \in Dirs \union {None}
    BY ReloadAssumption
  <2>a. tui[t] \in Task(source) /\ Sound(tui[t]) /\ tui[t].restarted = {}
    BY <1>3, <1>open DEF Open, At, Sound
  <2>b. r \in Task(source)
    BY <2>2, <2>a DEF Task, Phases, Busy, Known
  <2>c. /\ r.phase = "opening" /\ "opening" \notin Busy
        /\ r.restarted = tui[t].restarted /\ r.restart = tui[t].restart
    BY <2>a DEF Task, Busy
  <2>3. r \in Task(source) /\ Sound(r)
    BY <2>a, <2>b, <2>c DEF Sound
  <2>4. tui' = [tui EXCEPT ![t] = r]
    BY <1>2, <2>1 DEF Task
  <2>. QED
    BY <1>1, <1>2, <1>open, <2>3, <2>4, TaskStep DEF Open
<1>kill. ASSUME NEW t \in TUIs, Kill(t) PROVE TInv'
  BY <1>1, <1>2, <1>6, <1>kill, TaskStep DEF Kill
<1>opened. ASSUME NEW t \in TUIs, Opened(t) PROVE TInv'
  BY <1>1, <1>2, <1>5, <1>opened, TaskStep DEF Opened
<1>complete. ASSUME NEW t \in TUIs, Complete(t) PROVE TInv'
  BY <1>1, <1>2, <1>5, <1>complete, TaskStep DEF Complete
<1>begin. ASSUME NEW t \in TUIs, Begin(t) PROVE TInv'
  <2>1. PICK restart \in BOOLEAN :
          tui' = [tui EXCEPT ![t].phase = "building", ![t].build = source, ![t].restart = restart]
    BY <1>begin DEF Begin
  <2>. DEFINE r == [tui[t] EXCEPT !.phase = "building", !.build = source, !.restart = restart]
  <2>2. source \in Base..source /\ source # None
    <3>1. source \in Nat /\ None \notin Nat
      BY <1>2, ReloadAssumption DEF Builds, Base
    <3>. QED
      BY <3>1 DEF Base
  <2>a. tui[t] \in Task(source) /\ tui[t].restarted = {}
    BY <1>3, <1>begin DEF Begin, At, Sound
  <2>b. r \in Task(source)
    BY <2>2, <2>a DEF Task, Phases, Busy
  <2>c. r.phase = "building" /\ r.restarted = {} /\ r.build = source
    BY <2>a DEF Task
  <2>3. r \in Task(source) /\ Sound(r)
    BY <2>2, <2>b, <2>c DEF Sound
  <2>4. tui' = [tui EXCEPT ![t] = r]
    BY <1>2, <2>1 DEF Task
  <2>. QED
    BY <1>1, <1>2, <1>begin, <2>3, <2>4, TaskStep DEF Begin
<1>built. ASSUME NEW t \in TUIs, Built(t) PROVE TInv'
  <2>1. CASE tui' = LoadNew(t)
    <3>1. tui[t].phase \in {"building", "rename"}
      BY <1>built DEF Built, At
    <3>. QED
      BY <1>1, <1>2, <1>built, <2>1, <3>1, LoadNewSound, TaskStep DEF Built
  <2>2. CASE tui' = Idle(t)
    BY <1>1, <1>2, <1>5, <1>built, <2>2, TaskStep DEF Built
  <2>3. CASE tui' = [tui EXCEPT ![t].phase = "unlink"]
    <3>. DEFINE r == [tui[t] EXCEPT !.phase = "unlink"]
    <3>1. r \in Task(source) /\ Sound(r)
      BY <1>3, <1>built DEF Built, At, Task, Sound, Phases, Busy
    <3>2. tui' = [tui EXCEPT ![t] = r]
      BY <1>2, <2>3 DEF Task
    <3>. QED
      BY <1>1, <1>2, <1>built, <3>1, <3>2, TaskStep DEF Built
  <2>. QED
    BY <2>1, <2>2, <2>3, <1>built DEF Built
<1>unlink. ASSUME NEW t \in TUIs, Unlink(t) PROVE TInv'
  <2>1. CASE /\ temporary' = [temporary EXCEPT ![tui[t].dir] = None]
             /\ tui' = [tui EXCEPT ![t].phase = "symlink"]
    <3>. DEFINE r == [tui[t] EXCEPT !.phase = "symlink"]
    <3>1. r \in Task(source) /\ Sound(r)
      BY <1>3, <1>unlink DEF Unlink, At, Task, Sound, Phases, Busy
    <3>2. tui' = [tui EXCEPT ![t] = r]
      BY <1>2, <2>1 DEF Task
    <3>3. temporary' \in [Dirs -> (Base..source) \union {None}]
      BY <1>2, <2>1
    <3>. QED
      BY <1>1, <1>2, <1>unlink, <3>1, <3>2, <3>3, TaskStep DEF Unlink
  <2>2. CASE tui' = Idle(t) /\ UNCHANGED temporary
    BY <1>1, <1>2, <1>5, <1>unlink, <2>2, TaskStep DEF Unlink
  <2>. QED
    BY <2>1, <2>2, <1>unlink DEF Unlink
<1>symlink. ASSUME NEW t \in TUIs, Symlink(t) PROVE TInv'
  <2>1. CASE /\ temporary' = [temporary EXCEPT ![tui[t].dir] = tui[t].build]
             /\ tui' = [tui EXCEPT ![t].phase = "rename"]
    <3>. DEFINE r == [tui[t] EXCEPT !.phase = "rename"]
    <3>1. r \in Task(source) /\ Sound(r)
      BY <1>3, <1>symlink DEF Symlink, At, Task, Sound, Phases, Busy
    <3>2. tui' = [tui EXCEPT ![t] = r]
      BY <1>2, <2>1 DEF Task
    <3>3. tui[t].build \in (Base..source) \union {None}
      BY <1>3 DEF Task
    <3>4. temporary' \in [Dirs -> (Base..source) \union {None}]
      BY <1>2, <2>1, <3>3
    <3>. QED
      BY <1>1, <1>2, <1>symlink, <3>1, <3>2, <3>4, TaskStep DEF Symlink
  <2>2. CASE tui' = Idle(t) /\ UNCHANGED temporary
    BY <1>1, <1>2, <1>5, <1>symlink, <2>2, TaskStep DEF Symlink
  <2>. QED
    BY <2>1, <2>2, <1>symlink DEF Symlink
<1>rename. ASSUME NEW t \in TUIs, Rename(t) PROVE TInv'
  <2>1. CASE /\ temporary[tui[t].dir] # None
             /\ pointer' = [pointer EXCEPT ![tui[t].dir] = temporary[tui[t].dir]]
             /\ temporary' = [temporary EXCEPT ![tui[t].dir] = None]
             /\ tui' = LoadNew(t)
    <3>1. PICK r \in Task(source) : Sound(r) /\ tui' = [tui EXCEPT ![t] = r]
      <4>1. tui[t].phase \in {"building", "rename"} /\ tui' = LoadNew(t)
        BY <1>rename, <2>1 DEF Rename, At
      <4>. QED
        BY <1>1, <4>1, LoadNewSound
    <3>2. pointer' \in [Dirs -> (Base..source) \union {None}]
      BY <1>2, <2>1
    <3>3. temporary' \in [Dirs -> (Base..source) \union {None}]
      BY <1>2, <2>1
    <3>. QED
      BY <1>1, <1>2, <1>rename, <3>1, <3>2, <3>3, TaskStep DEF Rename
  <2>2. CASE tui' = Idle(t) /\ UNCHANGED <<pointer, temporary>>
    BY <1>1, <1>2, <1>5, <1>rename, <2>2, TaskStep DEF Rename
  <2>. QED
    BY <2>1, <2>2, <1>rename DEF Rename
<1>loaded. ASSUME NEW t \in TUIs, Loaded(t) PROVE TInv'
  <2>. DEFINE r == [tui[t] EXCEPT !.phase = "reloading", !.todo = tui[t].known]
  <2>1. r \in Task(source) /\ Sound(r)
    BY <1>3, <1>loaded DEF Loaded, At, Task, Sound, Phases, Busy
  <2>2. tui' = [tui EXCEPT ![t] = r]
    BY <1>2, <1>loaded DEF Loaded, Task
  <2>. QED
    BY <1>1, <1>2, <1>loaded, <2>1, <2>2, TaskStep DEF Loaded
<1>reloaded. ASSUME NEW t \in TUIs, Reloaded(t) PROVE TInv'
  <2>. DEFINE up == {n \in Names : service[n].state = "started"}
  <2>. DEFINE r == IF tui[t].restart THEN [tui[t] EXCEPT !.phase = "restarting", !.todo = up]
                   ELSE [tui[t] EXCEPT !.phase = "complete"]
  <2>1. r \in Task(source) /\ Sound(r)
    BY <1>3, <1>reloaded DEF Reloaded, At, Task, Sound, Phases, Busy
  <2>2. tui' = [tui EXCEPT ![t] = r]
    BY <1>2, <1>reloaded DEF Reloaded, Task
  <2>. QED
    BY <1>1, <1>2, <1>reloaded, <2>1, <2>2, TaskStep DEF Reloaded
<1>restarted. ASSUME NEW t \in TUIs, Restarted(t) PROVE TInv'
  <2>. DEFINE r == [tui[t] EXCEPT !.phase = "complete"]
  <2>1. r \in Task(source) /\ Sound(r)
    BY <1>3, <1>restarted DEF Restarted, At, Task, Sound, Phases, Busy
  <2>2. tui' = [tui EXCEPT ![t] = r]
    BY <1>2, <1>restarted DEF Restarted, Task
  <2>. QED
    BY <1>1, <1>2, <1>restarted, <2>1, <2>2, TaskStep DEF Restarted
<1>load. ASSUME NEW t \in TUIs, NEW n \in Names, LoadName(t, n) PROVE TInv'
  <2>1. CASE tui' = [tui EXCEPT ![t].todo = @ \ {n}, ![t].known = @ \union {n}]
             /\ loaded' = [loaded EXCEPT ![n] = IF @ # None THEN @ ELSE Resolve(n)]
    <3>. DEFINE r == [tui[t] EXCEPT !.todo = @ \ {n}, !.known = @ \union {n}]
    <3>1. r \in Task(source) /\ Sound(r)
      BY <1>3 DEF Task, Sound
    <3>2. tui' = [tui EXCEPT ![t] = r]
      BY <1>2, <2>1 DEF Task
    <3>3. loaded' \in [Names -> Sources]
      BY <1>2, <1>4, <2>1
    <3>. QED
      BY <1>1, <1>2, <1>load, <3>1, <3>2, <3>3, TaskStep DEF LoadName
  <2>2. CASE tui' \in {[tui EXCEPT ![t] = Closed], Idle(t)} /\ UNCHANGED loaded
    BY <1>1, <1>2, <1>5, <1>6, <1>load, <2>2, TaskStep DEF LoadName
  <2>. QED
    BY <2>1, <2>2, <1>load DEF LoadName
<1>reload. ASSUME NEW t \in TUIs, NEW n \in Names, ReloadName(t, n) PROVE TInv'
  <2>. DEFINE done == [tui[t] EXCEPT !.todo = @ \ {n}, !.reloaded = @ \union {n}]
              passed == [tui[t] EXCEPT !.todo = @ \ {n}]
  <2>1. /\ done \in Task(source) /\ Sound(done)
        /\ passed \in Task(source) /\ Sound(passed)
    BY <1>3 DEF Task, Sound
  <2>2. tui' = [tui EXCEPT ![t] = done] \/ tui' = [tui EXCEPT ![t] = passed]
    BY <1>2, <1>reload DEF ReloadName, Task
  <2>3. loaded' \in [Names -> Sources]
    BY <1>2, <1>4, <1>reload DEF ReloadName
  <2>4. UNCHANGED <<source, pointer, temporary, service>>
    BY <1>reload DEF ReloadName
  <2>. QED
    BY <1>1, <1>2, <2>1, <2>2, <2>3, <2>4, TaskStep
<1>restart. ASSUME NEW t \in TUIs, NEW n \in Names, RestartName(t, n) PROVE TInv'
  <2>. DEFINE done == [tui[t] EXCEPT !.todo = @ \ {n}, !.restarted = @ \union {n}]
              passed == [tui[t] EXCEPT !.todo = @ \ {n}]
  <2>1. /\ done \in Task(source) /\ Sound(done)
        /\ passed \in Task(source) /\ Sound(passed)
    BY <1>3, <1>restart DEF RestartName, At, Task, Sound
  <2>2. tui' = [tui EXCEPT ![t] = done] \/ tui' = [tui EXCEPT ![t] = passed]
    BY <1>2, <1>restart DEF RestartName, Task
  <2>3. service' \in [Names -> [state : {"stopped", "starting", "started"}, from : Sources]]
    BY <1>2, <1>restart DEF RestartName
  <2>4. UNCHANGED <<source, pointer, temporary, loaded>>
    BY <1>restart DEF RestartName
  <2>. QED
    BY <1>1, <1>2, <2>1, <2>2, <2>3, <2>4, TaskStep
<1>edit. CASE Edit
  <2>1. source' \in Builds /\ Base..source \subseteq Base..source'
    BY <1>2, <1>edit, ReloadAssumption DEF Edit, Builds, Base
  <2>2. {pointer, temporary} \subseteq [Dirs -> (Base..source') \union {None}]
    BY <1>2, <2>1
  <2>3. tui \in [TUIs -> Task(source')]
    BY <1>2, <2>1 DEF Task
  <2>4. \A t \in TUIs : Sound(tui[t])
    BY <1>3
  <2>. QED
    BY <1>1, <1>2, <2>1, <2>2, <2>3, <2>4, <1>edit DEF TInv, TypeOK, Task, Edit, Sound
<1>dinit. ASSUME NEW n \in Names, Start(n) \/ Up(n) \/ Stop(n) \/ Unload(n) PROVE TInv'
  <2>1. loaded' \in [Names -> Sources]
    BY <1>2, <1>4, <1>dinit DEF Start, Up, Stop, Unload, Sources
  <2>2. service' \in [Names -> [state : {"stopped", "starting", "started"}, from : Sources]]
    <3>1. CASE Start(n)
      <4>1. loaded'[n] \in Sources
        BY <2>1
      <4>. QED
        BY <1>2, <3>1, <4>1 DEF Start
    <3>2. CASE Up(n)
      BY <1>2, <3>2 DEF Up
    <3>3. CASE Stop(n)
      BY <1>2, <3>3 DEF Stop, Down, Sources
    <3>. QED
      BY <1>2, <3>1, <3>2, <3>3, <1>dinit DEF Unload
  <2>3. UNCHANGED <<source, pointer, temporary, tui>>
    BY <1>dinit DEF Start, Up, Stop, Unload
  <2>. QED
    BY <1>1, <2>1, <2>2, <2>3 DEF TInv, TypeOK, Sound
<1>same. CASE UNCHANGED vars
  BY <1>1, <1>same DEF vars, TInv, TypeOK, Sound
<1>. QED
  BY <1>1, <1>open, <1>kill, <1>opened, <1>complete, <1>begin, <1>built, <1>unlink, <1>symlink,
     <1>rename, <1>loaded, <1>reloaded, <1>restarted, <1>load, <1>reload, <1>restart, <1>edit,
     <1>dinit, <1>same DEF Next, Adopt

(* Whatever the TUIs, the builds and the order of things: nothing is       *)
(* adopted that was not a version of the source, and a plain reload        *)
(* restarts nothing (app.py:236-281).                                      *)
THEOREM TypeCorrect == Spec => []TypeOK
<1>1. Spec => []TInv
  BY InitTInv, StepTInv, PTL DEF Spec
<1>2. TInv => TypeOK
  BY DEF TInv
<1>. QED
  BY <1>1, <1>2, PTL

-----------------------------------------------------------------------------
(* The link only ever changes to the temporary link that was renamed to it. *)

LEMMA LinkStep ==
  ASSUME TInv, [Next]_vars, pointer' # pointer
  PROVE  \E t \in TUIs : /\ Rename(t) /\ temporary[tui[t].dir] # None
                         /\ pointer' = [pointer EXCEPT ![tui[t].dir] = temporary[tui[t].dir]]
<1>1. Next
  BY DEF vars
<1>2. ASSUME NEW t \in TUIs
      PROVE  /\ Open(t) => pointer' = pointer
             /\ Opened(t) \/ Kill(t) \/ Begin(t) \/ Built(t) => pointer' = pointer
             /\ Unlink(t) \/ Symlink(t) => pointer' = pointer
             /\ Loaded(t) \/ Reloaded(t) \/ Restarted(t) \/ Complete(t) => pointer' = pointer
             /\ \A n \in Names : LoadName(t, n) \/ ReloadName(t, n) \/ RestartName(t, n)
                                => pointer' = pointer
  BY Zenon DEF Open, Opened, Kill, Begin, Built, Unlink, Symlink, Loaded, Reloaded, Restarted,
               Complete, LoadName, ReloadName, RestartName
<1>3. /\ Edit => pointer' = pointer
      /\ \A n \in Names : Start(n) \/ Up(n) \/ Stop(n) \/ Unload(n) => pointer' = pointer
  BY Zenon DEF Edit, Start, Up, Stop, Unload
<1>4. PICK t \in TUIs : Rename(t)
  BY <1>1, <1>2, <1>3, Zenon DEF Next, Adopt
<1>. QED
  BY <1>4 DEF Rename

(* However many TUIs share the runtime directory, and whatever they do to  *)
(* each other's temporary link: a service that dinit would find stops      *)
(* being found only by the adoption of a build without it                  *)
(* (app.py:316-327, options.nix:1240-1254).                                *)
THEOREM NoGap == Spec => DescriptionsStay
<1>. DEFINE Stays == \A n \in Names : Resolve(n) # None /\ Resolve(n)' = None
                         => /\ pointer'[Runtime] # None
                            /\ n \notin Provides[pointer'[Runtime]]
<1>1. TInv /\ [Next]_vars => [Stays]_pointer
  <2>1. SUFFICES ASSUME TInv, [Next]_vars, pointer' # pointer,
                        NEW n \in Names, Resolve(n) # None, Resolve(n)' = None
                 PROVE  /\ pointer'[Runtime] # None
                        /\ n \notin Provides[pointer'[Runtime]]
    OBVIOUS
  <2>2. PICK t \in TUIs : /\ temporary[tui[t].dir] # None
                         /\ pointer' = [pointer EXCEPT ![tui[t].dir] = temporary[tui[t].dir]]
    BY <2>1, LinkStep
  <2>3. pointer \in [Dirs -> (Base..source) \union {None}] /\ Runtime \in Dirs
    BY <2>1, ReloadAssumption DEF TInv, TypeOK
  <2>4. Started # None /\ LocalBuild # None
    <3>1. Started \in Nat /\ None \notin Nat
      BY ReloadAssumption DEF Builds, Base
    <3>. QED
      BY <3>1, ReloadAssumption
  <2>5. n \notin Local /\ n \notin Provides[Started]
    BY <2>1, <2>4 DEF Resolve
  <2>6. pointer[Runtime] # None
    BY <2>1, <2>5 DEF Resolve
  <2>7. pointer'[Runtime] # None
    BY <2>2, <2>3, <2>6
  <2>. QED
    BY <2>1, <2>5, <2>7 DEF Resolve
<1>2. Spec => []TInv
  BY InitTInv, StepTInv, PTL DEF Spec
<1>. QED
  BY <1>1, <1>2, PTL DEF Spec, DescriptionsStay

-----------------------------------------------------------------------------
(* With a single TUI.  What its position says of the links, and of what    *)
(* dinit holds and runs.                                                   *)

Swapping == {"unlink", "symlink", "rename"}
Adopting == {"loading", "reloading", "restarting", "complete"}

(* The link that is swapped is the one of a directory, and no leftover is  *)
(* in the way.                                                             *)
Placed(t) ==
  /\ tui[t].phase \in Swapping => tui[t].dir # None
  /\ tui[t].phase = "symlink" => temporary[tui[t].dir] = None
  /\ tui[t].phase = "rename" => temporary[tui[t].dir] = tui[t].build

(* No link is ahead of the build under way. *)
Behind(t) ==
  \A d \in Dirs : pointer[d] # None /\ tui[t].phase \in {"building"} \union Swapping
                    => pointer[d] <= tui[t].build

Adopted(t) ==
  tui[t].phase \in Adopting /\ tui[t].dir # None => pointer[tui[t].dir] = tui[t].build

Knows(t) ==
  /\ tui[t].phase = "loading" => Provides[tui[t].build] \subseteq tui[t].known \union tui[t].todo
  /\ tui[t].phase \in {"reloading", "restarting", "complete"}
       => Provides[tui[t].build] \subseteq tui[t].known

Took(t) ==
  /\ tui[t].phase \notin {"reloading", "restarting", "complete"} => tui[t].reloaded = {}
  /\ \A n \in tui[t].reloaded : loaded[n] \in {None, Resolve(n)}

Runs(t) ==
  \A n \in tui[t].restarted \intersect tui[t].reloaded : service[n].from \in {None, Resolve(n)}

One(t) == Placed(t) /\ Behind(t) /\ Adopted(t) /\ Knows(t) /\ Took(t) /\ Runs(t)

LEMMA InitOne == Init => \A t \in TUIs : One(t)
<1>1. SUFFICES ASSUME Init, NEW t \in TUIs PROVE One(t)
  OBVIOUS
<1>2. tui[t].phase = "closed" /\ tui[t].reloaded = {} /\ tui[t].restarted = {}
  BY <1>1 DEF Init, Closed
<1>. QED
  BY <1>2 DEF Swapping, Adopting, One, Placed, Behind, Adopted, Knows, Took, Runs

LEMMA StepOne ==
  ASSUME NEW only, TUIs = {only}, TInv, One(only), [Next]_vars
  PROVE  One(only)'
<1>1. /\ tui \in [TUIs -> Task(source)] /\ only \in TUIs /\ tui[only] \in Task(source)
      /\ Sound(tui[only]) /\ source \in Builds /\ source \in Nat
      /\ pointer \in [Dirs -> (Base..source) \union {None}]
      /\ temporary \in [Dirs -> (Base..source) \union {None}]
      /\ loaded \in [Names -> Sources]
      /\ service \in [Names -> [state : {"stopped", "starting", "started"}, from : Sources]]
  BY ReloadAssumption DEF TInv, TypeOK, Task, Builds, Base
<1>2. pointer' = pointer => \A n : Resolve(n)' = Resolve(n)
  BY DEF Resolve
<1>3. Idle(only) = [tui EXCEPT ![only] = Resting(only)]
  BY <1>1, RestingSound
<1>rest. ASSUME tui' = [tui EXCEPT ![only] = Closed] \/ tui' = Idle(only) PROVE One(only)'
  <2>1. /\ tui'[only].phase \in {"closed", "idle"}
        /\ tui'[only].reloaded = {} /\ tui'[only].restarted = {}
    <3>1. tui'[only] = Closed \/ tui'[only] = Resting(only)
      BY <1>1, <1>3, <1>rest
    <3>2. /\ Closed.phase = "closed" /\ Closed.reloaded = {} /\ Closed.restarted = {}
          /\ Resting(only).phase = "idle"
          /\ Resting(only).reloaded = {} /\ Resting(only).restarted = {}
      BY DEF Resting, Closed
    <3>. QED
      BY <3>1, <3>2
  <2>. QED
    BY <2>1 DEF Swapping, Adopting, One, Placed, Behind, Adopted, Knows, Took, Runs
<1>open. ASSUME Open(only) PROVE One(only)'
  BY <1>1, <1>2, <1>3, <1>rest, <1>open
     DEF Open, At, Task, Sound, Busy, Swapping, Adopting, One, Placed, Behind, Adopted, Knows, Took, Runs
<1>kill. ASSUME Kill(only) PROVE One(only)'
  BY <1>1, <1>2, <1>3, <1>rest, <1>kill
     DEF Kill, At, Task, Sound, Busy, Swapping, Adopting, One, Placed, Behind, Adopted, Knows, Took, Runs
<1>opened. ASSUME Opened(only) PROVE One(only)'
  BY <1>1, <1>2, <1>3, <1>rest, <1>opened
     DEF Opened, At, Task, Sound, Busy, Swapping, Adopting, One, Placed, Behind, Adopted, Knows, Took, Runs
<1>begin. ASSUME Begin(only) PROVE One(only)'
  BY <1>1, <1>2, <1>3, <1>rest, <1>begin, ReloadAssumption
     DEF Begin, Base, At, Task, Sound, Busy, Swapping, Adopting, One, Placed, Behind, Adopted, Knows, Took, Runs
<1>built. ASSUME Built(only) PROVE One(only)'
  BY <1>1, <1>2, <1>3, <1>rest, <1>built
     DEF Built, LoadNew, At, Task, Sound, Busy, Swapping, Adopting, One, Placed, Behind, Adopted, Knows, Took, Runs
<1>unlink. ASSUME Unlink(only) PROVE One(only)'
  BY <1>1, <1>2, <1>3, <1>rest, <1>unlink
     DEF Unlink, At, Task, Sound, Busy, Swapping, Adopting, One, Placed, Behind, Adopted, Knows, Took, Runs
<1>symlink. ASSUME Symlink(only) PROVE One(only)'
  BY <1>1, <1>2, <1>3, <1>rest, <1>symlink
     DEF Symlink, At, Task, Sound, Busy, Swapping, Adopting, One, Placed, Behind, Adopted, Knows, Took, Runs
<1>rename. ASSUME Rename(only) PROVE One(only)'
  BY <1>1, <1>2, <1>3, <1>rest, <1>rename
     DEF Rename, LoadNew, At, Task, Sound, Busy, Swapping, Adopting, One, Placed, Behind, Adopted, Knows, Took, Runs
<1>loaded. ASSUME Loaded(only) PROVE One(only)'
  BY <1>1, <1>2, <1>3, <1>rest, <1>loaded
     DEF Loaded, At, Task, Sound, Busy, Swapping, Adopting, One, Placed, Behind, Adopted, Knows, Took, Runs
<1>reloaded. ASSUME Reloaded(only) PROVE One(only)'
  BY <1>1, <1>2, <1>3, <1>rest, <1>reloaded
     DEF Reloaded, At, Task, Sound, Busy, Swapping, Adopting, One, Placed, Behind, Adopted, Knows, Took, Runs
<1>restarted. ASSUME Restarted(only) PROVE One(only)'
  BY <1>1, <1>2, <1>3, <1>rest, <1>restarted
     DEF Restarted, At, Task, Sound, Busy, Swapping, Adopting, One, Placed, Behind, Adopted, Knows, Took, Runs
<1>complete. ASSUME Complete(only) PROVE One(only)'
  BY <1>1, <1>2, <1>3, <1>rest, <1>complete
     DEF Complete, At, Task, Sound, Busy, Swapping, Adopting, One, Placed, Behind, Adopted, Knows, Took, Runs
<1>load. ASSUME NEW n \in Names, LoadName(only, n) PROVE One(only)'
  <2>1. CASE tui' = [tui EXCEPT ![only] = Closed] \/ tui' = Idle(only)
    BY <1>rest, <2>1
  <2>2. CASE tui' = [tui EXCEPT ![only].todo = @ \ {n}, ![only].known = @ \union {n}]
    <3>1. /\ tui'[only].phase = tui[only].phase /\ tui[only].phase \in {"opening", "loading"}
          /\ tui'[only].dir = tui[only].dir /\ tui'[only].build = tui[only].build
          /\ tui'[only].reloaded = tui[only].reloaded
          /\ tui[only].known \union tui[only].todo \subseteq tui'[only].known \union tui'[only].todo
      BY <1>1, <1>load, <2>2 DEF LoadName, Task
    <3>2. UNCHANGED <<source, pointer, temporary, service>>
      BY <1>load DEF LoadName
    <3>. QED
      BY <1>1, <3>1, <3>2 DEF Swapping, Adopting, One, Placed, Behind, Adopted, Knows, Took, Runs
  <2>. QED
    BY <1>load, <2>1, <2>2 DEF LoadName
<1>reload. ASSUME NEW n \in Names, ReloadName(only, n) PROVE One(only)'
  BY <1>1, <1>2, <1>3, <1>rest, <1>reload
     DEF ReloadName, At, Task, Sound, Busy, Swapping, Adopting, One, Placed, Behind, Adopted, Knows, Took, Runs
<1>restart. ASSUME NEW n \in Names, RestartName(only, n) PROVE One(only)'
  BY <1>1, <1>2, <1>3, <1>rest, <1>restart
     DEF RestartName, At, Task, Sound, Busy, Swapping, Adopting, One, Placed, Behind, Adopted, Knows, Took, Runs
<1>start. ASSUME NEW n \in Names, Start(n) PROVE One(only)'
  BY <1>1, <1>2, <1>3, <1>rest, <1>start
     DEF Start, At, Task, Sound, Busy, Swapping, Adopting, One, Placed, Behind, Adopted, Knows, Took, Runs
<1>dinit. ASSUME NEW n \in Names, Up(n) \/ Stop(n) \/ Unload(n) PROVE One(only)'
  BY <1>1, <1>2, <1>3, <1>rest, <1>dinit
     DEF Up, Stop, Unload, Down, At, Task, Sound, Busy, Swapping, Adopting, One, Placed, Behind, Adopted, Knows, Took, Runs
<1>same. CASE Edit \/ UNCHANGED vars
  BY <1>1, <1>2, <1>same DEF Edit, vars, One, Placed, Behind, Adopted, Knows, Took, Runs
<1>. QED
  BY <1>open, <1>kill, <1>opened, <1>begin, <1>built, <1>unlink, <1>symlink, <1>rename, <1>loaded, <1>reloaded, <1>restarted, <1>complete, <1>load, <1>reload, <1>restart, <1>start, <1>dinit, <1>same DEF Next, Adopt

LEMMA OneTui ==
  ASSUME NEW only, TUIs = {only}
  PROVE  Spec => [](TInv /\ One(only))
<1>1. Init => TInv /\ One(only)
  BY InitTInv, InitOne
<1>2. TInv /\ One(only) /\ [Next]_vars => (TInv /\ One(only))'
  BY StepTInv, StepOne
<1>. QED
  BY <1>1, <1>2, PTL DEF Spec

(* A TUI that is alone on its runtime directory, killed and started again  *)
(* as often as one likes, never fails on a link that an earlier one left   *)
(* (app.py:323-327).                                                       *)
THEOREM LinkOwned ==
  ASSUME NEW only, TUIs = {only}
  PROVE  Spec => []LinkIsOwn
<1>1. TInv /\ One(only) => LinkIsOwn
  BY DEF One, Placed, LinkIsOwn, At
<1>2. Spec => [](TInv /\ One(only))
  BY OneTui
<1>. QED
  BY <1>1, <1>2, PTL

(* Nor does it ever adopt a build older than the adopted one               *)
(* (app.py:316-327).                                                       *)
THEOREM LinkForward ==
  ASSUME NEW only, TUIs = {only}
  PROVE  Spec => LinkAdvances
<1>. DEFINE Forward == \A d \in Dirs : pointer[d] # None
                         => pointer'[d] # None /\ pointer'[d] >= pointer[d]
<1>1. TInv /\ One(only) /\ [Next]_vars => [Forward]_pointer
  <2>1. SUFFICES ASSUME TInv, One(only), [Next]_vars, pointer' # pointer,
                        NEW d \in Dirs, pointer[d] # None
                 PROVE  pointer'[d] # None /\ pointer'[d] >= pointer[d]
    OBVIOUS
  <2>2. /\ Rename(only) /\ temporary[tui[only].dir] # None
        /\ pointer' = [pointer EXCEPT ![tui[only].dir] = temporary[tui[only].dir]]
    BY <2>1, LinkStep
  <2>3. /\ pointer \in [Dirs -> (Base..source) \union {None}] /\ source \in Nat
        /\ tui[only].build \in (Base..source) \union {None}
    BY <2>1, ReloadAssumption DEF TInv, TypeOK, Builds, Base
  <2>4. /\ temporary[tui[only].dir] = tui[only].build
        /\ pointer[d] <= tui[only].build
    BY <2>1, <2>2 DEF Rename, At, One, Placed, Behind, Swapping
  <2>. QED
    BY <2>1, <2>2, <2>3, <2>4 DEF Base
<1>2. Spec => [](TInv /\ One(only))
  BY OneTui
<1>. QED
  BY <1>1, <1>2, PTL DEF Spec, LinkAdvances

(* What that TUI reports as reloaded, dinit holds as it would find it now, *)
(* every service of the build among it or refused, whatever was loaded     *)
(* before (app.py:253-266).                                                *)
THEOREM ReportsTrue ==
  ASSUME NEW only, TUIs = {only}
  PROVE  Spec => []AdoptedEverywhere
<1>1. TInv /\ One(only) => AdoptedEverywhere
  BY DEF One, Knows, Took, AdoptedEverywhere
<1>2. Spec => [](TInv /\ One(only))
  BY OneTui
<1>. QED
  BY <1>1, <1>2, PTL

(* And what it reports as restarted runs that (app.py:269-280).            *)
THEOREM RunsWhatItAdopted ==
  ASSUME NEW only, TUIs = {only}
  PROVE  Spec => []RunsAdopted
<1>1. TInv /\ One(only) => RunsAdopted
  BY DEF One, Runs, RunsAdopted, At
<1>2. Spec => [](TInv /\ One(only))
  BY OneTui
<1>. QED
  BY <1>1, <1>2, PTL

(* Where a TUI that reaches this dinit either knows of no runtime          *)
(* directory or of the wrapper's, a reload adopts its own build: what      *)
(* dinit took of it is held as the build has it (app.py:58-68, 236-281).   *)
(* Where the runtime directory is guessed from a socket outside it, it     *)
(* does not.                                                               *)
THEOREM AdoptsItsBuild ==
  ASSUME NEW only, TUIs = {only},
         \A launch \in Launches :
           ConnectsTo(launch) = Socket => RuntimeDir(launch) \in {Runtime, None}
  PROVE  Spec => []ReloadAdopts
<1>. DEFINE There == tui[only].dir \in {Runtime, None}
<1>1. Init => There
  BY DEF Init, Closed
<1>2. TInv /\ There /\ [Next]_vars => There'
  <2>1. SUFFICES ASSUME TInv, There, [Next]_vars PROVE There'
    OBVIOUS
  <2>2. tui \in [TUIs -> Task(source)] /\ only \in TUIs
    BY <2>1 DEF TInv, TypeOK, Task
  <2>3. CASE Open(only)
    <3>1. PICK launch \in Launches :
            /\ ConnectsTo(launch) = Socket
            /\ tui' = [tui EXCEPT ![only].phase = "opening", ![only].dir = RuntimeDir(launch),
                          ![only].todo = Known \union {n \in Names : Resolve(n) # None}]
      BY <2>3 DEF Open
    <3>2. tui'[only].dir = RuntimeDir(launch)
      BY <2>2, <3>1 DEF Task
    <3>. QED
      BY <3>1, <3>2
  <2>4. ASSUME tui' = Idle(only) \/ tui' = [tui EXCEPT ![only] = Closed] PROVE There'
    <3>1. tui'[only] = Closed \/ tui'[only] = Resting(only)
      BY <2>2, <2>4, RestingSound
    <3>2. Closed.dir = None /\ Resting(only).dir = tui[only].dir
      BY DEF Resting, Closed
    <3>. QED
      BY <2>1, <3>1, <3>2
  <2>5. CASE Kill(only) \/ Opened(only) \/ Complete(only)
    BY <2>4, <2>5 DEF Kill, Opened, Complete
  <2>6. CASE Begin(only) \/ Loaded(only) \/ Restarted(only)
    BY <2>1, <2>2, <2>6 DEF Begin, Loaded, Restarted, Task
  <2>7. CASE Built(only) \/ Unlink(only) \/ Symlink(only) \/ Rename(only) \/ Reloaded(only)
    BY <2>1, <2>2, <2>4, <2>7 DEF Built, Unlink, Symlink, Rename, LoadNew, Reloaded, Task
  <2>8. ASSUME NEW n \in Names, LoadName(only, n) \/ ReloadName(only, n) \/ RestartName(only, n)
        PROVE  There'
    BY <2>1, <2>2, <2>4, <2>8 DEF LoadName, ReloadName, RestartName, Task
  <2>9. CASE Edit \/ (\E n \in Names : Start(n) \/ Up(n) \/ Stop(n) \/ Unload(n))
    BY <2>1, <2>9 DEF Edit, Start, Up, Stop, Unload
  <2>. QED
    BY <2>1, <2>3, <2>5, <2>6, <2>7, <2>8, <2>9 DEF Next, Adopt, vars
<1>3. TInv /\ One(only) /\ There => ReloadAdopts
  <2>1. SUFFICES ASSUME One(only), There, tui[only].phase = "complete", tui[only].dir # None,
                        NEW n \in (tui[only].reloaded \intersect Provides[tui[only].build]) \ Local,
                        TInv
                 PROVE  loaded[n] \in {None, tui[only].build}
    BY DEF ReloadAdopts, At
  <2>2. tui[only].build # None
    BY <2>1 DEF TInv, Sound, Busy
  <2>3. pointer[Runtime] = tui[only].build
    BY <2>1 DEF One, Adopted, Adopting
  <2>4. Resolve(n) = tui[only].build
    BY <2>1, <2>2, <2>3 DEF Resolve
  <2>. QED
    BY <2>1, <2>4 DEF One, Took
<1>4. Spec => [](TInv /\ One(only))
  BY OneTui
<1>. QED
  BY <1>1, <1>2, <1>3, <1>4, PTL DEF Spec
=============================================================================
