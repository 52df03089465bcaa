----------------------------- MODULE MCNixReload -----------------------------
(* Small instances of NixReload for TLC. *)
EXTENDS NixReload, TLC

CONSTANTS base, web, job, first, second

(* base is in every build; web is gone from build 1, which dinit is started *)
(* with, and is new again in build 2; job is in build 1 alone.              *)
MCNames == {base, web, job}
MCProvides == (0 :> {base, web} @@ 1 :> {base, job} @@ 2 :> {base, web})

(* Two names are enough for the finding about restarts. *)
MCTwoNames == {base, web}
MCProvidesTwo == (0 :> {base} @@ 1 :> {base, web})
MCProvidesSame == (0 :> {base, web} @@ 1 :> {base, web})

CONSTANTS run, sockets

MCDirs == {run, sockets}
MCEnv == [DINIX_RUNTIME_DIR |-> None, DINIT_SOCKET_PATH |-> None, XDG_RUNTIME_DIR |-> sockets,
          HOME |-> None, root |-> FALSE]

(* The wrapper with its runtime directory alone, and the ways to a TUI on  *)
(* its socket: as the examples run it, with both options, and with a       *)
(* socket from the environment and no runtime directory.                   *)
MCWrapper == [DINIX_RUNTIME_DIR |-> run, DINIX_SOCKET_PATH |-> None, cwd |-> sockets]
MCLaunches ==
  {[socket |-> <<run, "control">>, runtime |-> None, env |-> MCEnv],
   [socket |-> <<run, "control">>, runtime |-> run, env |-> MCEnv],
   [socket |-> None, runtime |-> None, env |-> [MCEnv EXCEPT !.DINIT_SOCKET_PATH = <<run, "control">>]],
   [socket |-> None, runtime |-> None, env |-> MCEnv]}

(* The wrapper with a socket outside the runtime directory, and a TUI that *)
(* is told the socket and has the same environment.                        *)
MCWrapperSocket == [MCWrapper EXCEPT !.DINIX_SOCKET_PATH = <<sockets, "control">>]
MCLaunchesSocket == {[socket |-> <<sockets, "control">>, runtime |-> None,
                      env |-> [MCEnv EXCEPT !.DINIX_RUNTIME_DIR = run]]}
=============================================================================
