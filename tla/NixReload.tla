------------------------------ MODULE NixReload ------------------------------
(***************************************************************************)
(* The nix reload of the TUI (tui/src/dinix_tui/app.py:236-332): rebuild,  *)
(* swap the symbolic link <runtime>/current that the wrapper of dinit      *)
(* searches for descriptions, load the new services, reload them all and,  *)
(* for "reload all", restart the running ones.                             *)
(*                                                                         *)
(* A build is the number of the source version it was made from; Started   *)
(* is the build that dinit was started with, and links to builds up to it  *)
(* may be left by the TUIs of an earlier dinit: the wrapper keeps them.    *)
(* TUIs share one dinit, which also acts on its own, and each works out by *)
(* itself where the link is that dinit searches.  A step is what a task    *)
(* does between two awaits that touch shared state.                        *)
(***************************************************************************)
EXTENDS Naturals

CONSTANTS
  TUIs,       \* the TUI processes on one dinit
  Wrapper,    \* the environment that the wrapper of dinit runs in
  Launches,   \* how a TUI may be launched: its options and its environment
  Dirs,       \* the directories there are
  Names,      \* service names
  MaxBuild,   \* bound: the last source version
  Started,    \* the build that dinit was started with
  Provides,   \* Provides[b]: the services that build b describes
  Local,      \* names described in <runtime>/services, which is searched first
  Booted,     \* names that dinit loads and starts at boot
  CanRefuse,  \* may dinit reject a load, a reload or a restart
  None, LocalBuild

Base == 0
Builds == Base..MaxBuild

-----------------------------------------------------------------------------
(* Where things are.  A socket's path is its directory and its name; the   *)
(* record of an environment has None for a variable that is not set.       *)

Or(value, otherwise) == IF value # None THEN value ELSE otherwise

(* The wrapper's runtime directory, and its socket. *)
Runtime == Or(Wrapper.DINIX_RUNTIME_DIR, Wrapper.cwd)
Socket == Or(Wrapper.DINIX_SOCKET_PATH, <<Runtime, "control">>)

(* default_socket_path, None where it raises. *)
DefaultSocket(env) ==
  IF env.DINIT_SOCKET_PATH # None THEN env.DINIT_SOCKET_PATH
  ELSE IF env.root THEN <<"/run", "dinitctl">>
  ELSE IF env.XDG_RUNTIME_DIR # None THEN <<env.XDG_RUNTIME_DIR, "dinitctl">>
  ELSE IF env.HOME # None THEN <<env.HOME, ".dinitctl">> ELSE None

(* What a TUI connects to, and where it thinks the runtime directory is:   *)
(* --runtime-dir, or where the socket is that it was given, or what the    *)
(* environment says.                                                       *)
ConnectsTo(launch) == Or(launch.socket, DefaultSocket(launch.env))
RuntimeDir(launch) ==
  Or(launch.runtime,
     IF launch.socket # None THEN launch.socket[1] ELSE launch.env.DINIX_RUNTIME_DIR)

ASSUME ReloadAssumption ==
  /\ MaxBuild \in Nat /\ Started \in Builds /\ None \notin Dirs
  /\ Provides \in [Builds -> SUBSET Names]
  /\ Local \subseteq Names
  /\ Booted \subseteq Provides[Started] \union Local
  /\ CanRefuse \in BOOLEAN
  /\ {None, LocalBuild} \intersect Nat = {} /\ None # LocalBuild
  /\ Runtime \in Dirs
  /\ \A launch \in Launches : RuntimeDir(launch) \in Dirs \union {None}

-----------------------------------------------------------------------------
VARIABLES
  source,     \* the version of the configuration's source
  pointer,    \* pointer[d]: target of d/current
  temporary,  \* temporary[d]: target of d/current.new
  loaded,     \* loaded[n]: the build of the description dinit holds for n
  service,    \* service[n]: n's state and the build its process came from
  tui         \* tui[t]: where the commands task of TUI t is

vars == <<source, pointer, temporary, loaded, service, tui>>

Down == [state |-> "stopped", from |-> None]

(* Mutant of Resolve: the store is searched before the link. *)
ResolveStoreFirst(n) ==
  IF n \in Local THEN LocalBuild
  ELSE IF n \in Provides[Started] THEN Started
  ELSE IF pointer[Runtime] # None /\ n \in Provides[pointer[Runtime]] THEN pointer[Runtime] ELSE None

(* dinit looks in <runtime>/services, then <runtime>/current, then the build *)
(* that it was started with.                                               *)
Resolve(n) ==
  IF n \in Local THEN LocalBuild
  ELSE IF pointer[Runtime] # None /\ n \in Provides[pointer[Runtime]] THEN pointer[Runtime]
  ELSE IF n \in Provides[Started] THEN Started ELSE None

-----------------------------------------------------------------------------

Known == {n \in Names : loaded[n] # None}

Closed == [phase |-> "closed", dir |-> None, build |-> None, restart |-> FALSE,
           todo |-> {}, known |-> {}, reloaded |-> {}, restarted |-> {}]

Init ==
  /\ source = Started
  /\ pointer \in [Dirs -> (Base..Started) \union {None}]
  /\ temporary \in [Dirs -> (Base..Started) \union {None}]
  /\ loaded = [n \in Names |-> IF n \in Booted THEN Resolve(n) ELSE None]
  /\ service = [n \in Names |-> IF n \in Booted
                                THEN [state |-> "started", from |-> Resolve(n)] ELSE Down]
  /\ tui = [t \in TUIs |-> Closed]

At(t, phase) == tui[t].phase = phase

(* The command ends, with a message; the task waits for the next command, *)
(* and keeps of this one only the names that it has a handle for.         *)
Idle(t) ==
  [tui EXCEPT ![t] = [Closed EXCEPT !.phase = "idle", !.dir = tui[t].dir, !.known = tui[t].known]]

-----------------------------------------------------------------------------
(* A TUI starts, and connects to this dinit and no other:                  *)
(* _load_every_service loads all that dinit lists or finds.                *)
Open(t) ==
  /\ At(t, "closed")
  /\ \E launch \in Launches :
       /\ ConnectsTo(launch) = Socket
       /\ tui' = [tui EXCEPT ![t].phase = "opening", ![t].dir = RuntimeDir(launch),
                             ![t].todo = Known \union {n \in Names : Resolve(n) # None}]
  /\ UNCHANGED <<source, pointer, temporary, loaded, service>>

(* The process is killed, the user quits or the connection is lost, wherever *)
(* the TUI is.                                                               *)
Kill(t) ==
  /\ ~At(t, "closed")
  /\ tui' = [tui EXCEPT ![t] = Closed]
  /\ UNCHANGED <<source, pointer, temporary, loaded, service>>

(* Load a name for its handle; dinit reads a description only if it has none. *)
LoadName(t, n) ==
  /\ tui[t].phase \in {"opening", "loading"} /\ n \in tui[t].todo
  /\ \/ /\ loaded[n] # None \/ Resolve(n) # None
        /\ loaded' = [loaded EXCEPT ![n] = IF @ # None THEN @ ELSE Resolve(n)]
        /\ tui' = [tui EXCEPT ![t].todo = @ \ {n}, ![t].known = @ \union {n}]
     \/ /\ loaded[n] = None /\ (CanRefuse \/ Resolve(n) = None)
        /\ tui' = IF At(t, "opening") THEN [tui EXCEPT ![t] = Closed] ELSE Idle(t)
        /\ UNCHANGED loaded
  /\ UNCHANGED <<source, pointer, temporary, service>>

Opened(t) ==
  /\ At(t, "opening") /\ tui[t].todo = {}
  /\ tui' = Idle(t)
  /\ UNCHANGED <<source, pointer, temporary, loaded, service>>

(* The task takes a nix-reload or rebuild-all command and runs the rebuild, *)
(* which reads the source as it is now.                                     *)
Begin(t) ==
  /\ At(t, "idle")
  /\ \E restart \in BOOLEAN :
       tui' = [tui EXCEPT ![t].phase = "building", ![t].build = source, ![t].restart = restart]
  /\ UNCHANGED <<source, pointer, temporary, loaded, service>>

(* Load the services of the build whose names have no handle yet. *)
LoadNew(t) == [tui EXCEPT ![t].phase = "loading",
                          ![t].todo = Provides[tui[t].build] \ tui[t].known]

(* The rebuild ends.  An exit code, no output and an output without a       *)
(* services directory each raise RebuildError.  Without a runtime directory *)
(* the link is left alone.                                                  *)
Built(t) ==
  /\ At(t, "building")
  /\ tui' \in {IF tui[t].dir # None THEN [tui EXCEPT ![t].phase = "unlink"] ELSE LoadNew(t),
              Idle(t)}
  /\ UNCHANGED <<source, pointer, temporary, loaded, service>>

(* Mutant of Unlink: a temporary link left behind is not removed. *)
UnlinkSkipped(t) ==
  /\ At(t, "unlink")
  /\ tui' = [tui EXCEPT ![t].phase = "symlink"]
  /\ UNCHANGED <<source, pointer, temporary, loaded, service>>

(* Mutant of Unlink: the link itself is removed to make room for the new one. *)
UnlinkPointer(t) ==
  /\ At(t, "unlink")
  /\ pointer' = [pointer EXCEPT ![tui[t].dir] = None]
  /\ temporary' = [temporary EXCEPT ![tui[t].dir] = None]
  /\ tui' = [tui EXCEPT ![t].phase = "symlink"]
  /\ UNCHANGED <<source, loaded, service>>

(* _point_at in three steps.  An OSError ends the command: the temporary   *)
(* link is there when it is made, or gone when it is renamed, or the file  *)
(* system refuses a step, that of the runtime directory included.          *)
Unlink(t) ==
  /\ At(t, "unlink")
  /\ \/ /\ temporary' = [temporary EXCEPT ![tui[t].dir] = None]
        /\ tui' = [tui EXCEPT ![t].phase = "symlink"]
     \/ tui' = Idle(t) /\ UNCHANGED temporary
  /\ UNCHANGED <<source, pointer, loaded, service>>

Symlink(t) ==
  /\ At(t, "symlink")
  /\ \/ /\ temporary[tui[t].dir] = None
        /\ temporary' = [temporary EXCEPT ![tui[t].dir] = tui[t].build]
        /\ tui' = [tui EXCEPT ![t].phase = "rename"]
     \/ tui' = Idle(t) /\ UNCHANGED temporary
  /\ UNCHANGED <<source, pointer, loaded, service>>

(* Mutant of Rename: the services that are new are not loaded. *)
RenameLoadsNone(t) ==
  /\ At(t, "rename") /\ temporary[tui[t].dir] # None
  /\ pointer' = [pointer EXCEPT ![tui[t].dir] = temporary[tui[t].dir]]
  /\ temporary' = [temporary EXCEPT ![tui[t].dir] = None]
  /\ tui' = [tui EXCEPT ![t].phase = "loading", ![t].todo = {}]
  /\ UNCHANGED <<source, loaded, service>>

Rename(t) ==
  /\ At(t, "rename")
  /\ \/ /\ temporary[tui[t].dir] # None
        /\ pointer' = [pointer EXCEPT ![tui[t].dir] = temporary[tui[t].dir]]
        /\ temporary' = [temporary EXCEPT ![tui[t].dir] = None]
        /\ tui' = LoadNew(t)
     \/ tui' = Idle(t) /\ UNCHANGED <<pointer, temporary>>
  /\ UNCHANGED <<source, loaded, service>>

(* All new names are loaded; reload every name with a handle. *)
Loaded(t) ==
  /\ At(t, "loading") /\ tui[t].todo = {}
  /\ tui' = [tui EXCEPT ![t].phase = "reloading", ![t].todo = tui[t].known]
  /\ UNCHANGED <<source, pointer, temporary, loaded, service>>

(* A reload that dinit rejects is reported and the next name follows. *)
ReloadName(t, n) ==
  /\ At(t, "reloading") /\ n \in tui[t].todo
  /\ \/ /\ loaded[n] # None /\ Resolve(n) # None
        /\ loaded' = [loaded EXCEPT ![n] = Resolve(n)]
        /\ tui' = [tui EXCEPT ![t].todo = @ \ {n}, ![t].reloaded = @ \union {n}]
     \/ /\ CanRefuse \/ loaded[n] = None \/ Resolve(n) = None
        /\ tui' = [tui EXCEPT ![t].todo = @ \ {n}]
        /\ UNCHANGED loaded
  /\ UNCHANGED <<source, pointer, temporary, service>>

(* Mutant of Reloaded: a plain reload restarts what runs. *)
ReloadedRestarts(t) ==
  /\ At(t, "reloading") /\ tui[t].todo = {}
  /\ tui' = [tui EXCEPT ![t].phase = "restarting",
                        ![t].todo = {n \in Names : service[n].state = "started"}]
  /\ UNCHANGED <<source, pointer, temporary, loaded, service>>

(* The reloads are over.  "Reload all" lists what is started right now. *)
Reloaded(t) ==
  /\ At(t, "reloading") /\ tui[t].todo = {}
  /\ tui' = IF tui[t].restart
            THEN [tui EXCEPT ![t].phase = "restarting",
                             ![t].todo = {n \in Names : service[n].state = "started"}]
            ELSE [tui EXCEPT ![t].phase = "complete"]
  /\ UNCHANGED <<source, pointer, temporary, loaded, service>>

(* Mutant of RestartName: the old process is kept. *)
RestartKeepsProcess(t, n) ==
  /\ At(t, "restarting") /\ n \in tui[t].todo
  /\ service' = [service EXCEPT ![n].state = "starting"]
  /\ tui' = [tui EXCEPT ![t].todo = @ \ {n}, ![t].restarted = @ \union {n}]
  /\ UNCHANGED <<source, pointer, temporary, loaded>>

(* dinit stops the process and starts one from the description it holds;   *)
(* it rejects a restart of a service that is not up any more.              *)
RestartName(t, n) ==
  /\ At(t, "restarting") /\ n \in tui[t].todo
  /\ \/ /\ service[n].state # "stopped"
        /\ service' = [service EXCEPT ![n] = [state |-> "starting", from |-> loaded[n]]]
        /\ tui' = [tui EXCEPT ![t].todo = @ \ {n}, ![t].restarted = @ \union {n}]
     \/ /\ CanRefuse \/ service[n].state = "stopped"
        /\ tui' = [tui EXCEPT ![t].todo = @ \ {n}]
        /\ UNCHANGED service
  /\ UNCHANGED <<source, pointer, temporary, loaded>>

Restarted(t) ==
  /\ At(t, "restarting") /\ tui[t].todo = {}
  /\ tui' = [tui EXCEPT ![t].phase = "complete"]
  /\ UNCHANGED <<source, pointer, temporary, loaded, service>>

(* "Nix reload complete"; the task goes on to the next command. *)
Complete(t) ==
  /\ At(t, "complete")
  /\ tui' = Idle(t)
  /\ UNCHANGED <<source, pointer, temporary, loaded, service>>

-----------------------------------------------------------------------------
(* Outside the TUI: someone edits the source; dinit, or another client of  *)
(* it, loads, starts, stops and unloads services.                          *)
Edit ==
  /\ source < MaxBuild
  /\ source' = source + 1
  /\ UNCHANGED <<pointer, temporary, loaded, service, tui>>

Start(n) ==
  /\ service[n].state = "stopped"
  /\ loaded[n] # None \/ Resolve(n) # None
  /\ loaded' = [loaded EXCEPT ![n] = IF @ # None THEN @ ELSE Resolve(n)]
  /\ service' = [service EXCEPT ![n] = [state |-> "starting", from |-> loaded'[n]]]
  /\ UNCHANGED <<source, pointer, temporary, tui>>

Up(n) ==
  /\ service[n].state = "starting"
  /\ service' = [service EXCEPT ![n].state = "started"]
  /\ UNCHANGED <<source, pointer, temporary, loaded, tui>>

Stop(n) ==
  /\ service[n].state # "stopped"
  /\ service' = [service EXCEPT ![n] = Down]
  /\ UNCHANGED <<source, pointer, temporary, loaded, tui>>

Unload(n) ==
  /\ service[n].state = "stopped" /\ loaded[n] # None
  /\ loaded' = [loaded EXCEPT ![n] = None]
  /\ UNCHANGED <<source, pointer, temporary, service, tui>>

-----------------------------------------------------------------------------
Adopt(t) == Unlink(t) \/ Symlink(t) \/ Rename(t)

Next ==
  \/ \E t \in TUIs :
       \/ Open(t) \/ Opened(t) \/ Kill(t)
       \/ Begin(t) \/ Built(t) \/ Adopt(t)
       \/ Loaded(t) \/ Reloaded(t) \/ Restarted(t) \/ Complete(t)
       \/ \E n \in Names : LoadName(t, n) \/ ReloadName(t, n) \/ RestartName(t, n)
  \/ Edit
  \/ \E n \in Names : Start(n) \/ Up(n) \/ Stop(n) \/ Unload(n)

Spec == Init /\ [][Next]_vars

-----------------------------------------------------------------------------
(* Properties.                                                             *)

Sources == Builds \union {None, LocalBuild}
Phases == {"closed", "opening", "idle", "building", "unlink", "symlink", "rename",
           "loading", "reloading", "restarting", "complete"}

(* Every variable has its type; nothing is adopted that was not the source, *)
(* and a plain reload restarts nothing (app.py:239).                        *)
TypeOK ==
  /\ source \in Builds
  /\ {pointer, temporary} \subseteq [Dirs -> (Base..source) \union {None}]
  /\ loaded \in [Names -> Sources]
  /\ service \in [Names -> [state : {"stopped", "starting", "started"}, from : Sources]]
  /\ tui \in [TUIs -> [phase : Phases, dir : Dirs \union {None},
                       build : (Base..source) \union {None},
                       restart : BOOLEAN, todo : SUBSET Names, known : SUBSET Names,
                       reloaded : SUBSET Names, restarted : SUBSET Names]]
  /\ \A t \in TUIs : tui[t].restart \/ tui[t].restarted = {}

(* A service that dinit would find stops being found only by the adoption  *)
(* of a build without it: whatever TUIs do at the same time, and whenever  *)
(* they are killed, the swap of the link leaves no gap (app.py:316-327).   *)
DescriptionsStay ==
  [][ \A n \in Names : Resolve(n) # None /\ Resolve(n)' = None
                         => /\ pointer'[Runtime] # None
                            /\ n \notin Provides[pointer'[Runtime]] ]_pointer

(* With one TUI the link only moves forward, to a build of a later source, *)
(* although the TUI may be killed and started again (app.py:316-327).      *)
LinkAdvances ==
  [][ \A d \in Dirs : pointer[d] # None => pointer'[d] # None /\ pointer'[d] >= pointer[d] ]_pointer

(* With one TUI _point_at never fails on a leftover of an earlier one: the *)
(* link it is about to make is not there, and the one it is about to       *)
(* rename is its own (app.py:323-327).                                     *)
LinkIsOwn ==
  \A t \in TUIs : /\ At(t, "symlink") => temporary[tui[t].dir] = None
                  /\ At(t, "rename") => temporary[tui[t].dir] = tui[t].build

(* When the reloads are over, the TUI knows every service of the build and *)
(* dinit holds the adopted description of each one whose reload it took,   *)
(* whatever was loaded from an older build before (app.py:253-266).        *)
AdoptedEverywhere ==
  \A t \in TUIs : tui[t].phase \in {"restarting", "complete"} =>
    /\ Provides[tui[t].build] \subseteq tui[t].known
    /\ \A n \in tui[t].reloaded : loaded[n] \in {None, Resolve(n)}

(* "Rebuild the configuration, adopt it, and reload every service"         *)
(* (app.py:237): with one TUI, that knows of a runtime directory, each     *)
(* service of the build whose reload dinit took is held as the build has   *)
(* it (app.py:58-68, 249-266).                                             *)
ReloadAdopts ==
  \A t \in TUIs : At(t, "complete") /\ tui[t].dir # None =>
    \A n \in (tui[t].reloaded \intersect Provides[tui[t].build]) \ Local :
      loaded[n] \in {None, tui[t].build}

(* When "reload all" is complete, each service that was restarted runs the *)
(* adopted description if dinit took its reload (app.py:236-241, 269-280). *)
RunsAdopted ==
  \A t \in TUIs : At(t, "complete") =>
    \A n \in tui[t].restarted \intersect tui[t].reloaded :
      service[n].from \in {None, Resolve(n)}

(* "With restart_running, every service that is started is restarted after *)
(* the reload, so the running set comes up on the new build"               *)
(* (app.py:239-241).                                                       *)
RunningSetIsNew ==
  \A t \in TUIs : At(t, "complete") /\ tui[t].restart =>
    \A n \in Names : service[n].state = "started" => service[n].from = Resolve(n)
=============================================================================
