---------------------------- MODULE MCControlCodec ----------------------------
(* A small instance of ControlCodec for TLC. *)
EXTENDS ControlCodec

CONSTANTS a, bb

MCSize == a :> 1 @@ bb :> 2
MCHandle == a :> 7 @@ bb :> 300

MCStatuses == {
  [state |-> "STARTED", target |-> "STARTED", active |-> TRUE, reason |-> "NORMAL", how |-> "pid",
   stage |-> None, first |-> 42, second |-> 0, changed |-> 9],
  [state |-> "STOPPED", target |-> "STOPPED", active |-> FALSE, reason |-> "TERMINATED", how |-> "exit",
   stage |-> None, first |-> 1, second |-> 15, changed |-> 9],
  [state |-> "STOPPED", target |-> "STARTED", active |-> TRUE, reason |-> "EXECFAILED", how |-> "exec",
   stage |-> 5, first |-> 13, second |-> 0, changed |-> 0]}

MCChunk(n) == {n, n - 1} \ {0}   \* all of it, or all but its last byte

MCFind == {[api |-> "find", on |-> bb, options |-> {}]}
MCAny ==
  {[api |-> api, on |-> None, options |-> {}] : api \in {"list", "env", "mech"}}
  \union {[api |-> api, on |-> bb, options |-> {}] : api \in {"setenv", "load",
            "restart", "release", "unpin", "reload", "unload", "status", "signal"}}
  \union {[api |-> api, on |-> bb, options |-> options] :
            api \in {"start", "wake"}, options \in {{}, {"pin"}}}
  \union {[api |-> "stop", on |-> bb, options |-> options] : options \in SUBSET {"pin", "force"}}
  \union {[api |-> "catlog", on |-> bb, options |-> options] : options \in {{}, {"clear"}}}

MCFound == {c \in MCStatuses : c.how = "exec"}

\* A find, then any call, on what was found if it needs a handle.
MCCalls == <<MCFind, MCAny>>
=============================================================================
