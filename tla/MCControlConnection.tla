------------------------- MODULE MCControlConnection -------------------------
(* Small instances of ControlConnection for TLC. *)
EXTENDS ControlProperties, TLC

CONSTANTS hello, stopA, otherB, a, b

MCCalls == {hello, stopA, otherB}
MCService == hello :> b @@ stopA :> a @@ otherB :> b

(* Two calls for two services, each a handle request and a command; a stop *)
(* may be refused with the list of dependents.                             *)
MCScriptPair == hello :> <<"version">> @@ stopA :> <<"record", "stop">>
                  @@ otherB :> <<"record", "status">>

(* As above, and the second call lists, as the TUI does after an action:   *)
(* the reply to a list has several packets.                                *)
MCScriptList == hello :> <<"version">> @@ stopA :> <<"record", "stop">>
                  @@ otherB :> <<"record", "status", "list">>

(* One daemon the client accepts, one that is too new for it. *)
MCVersions == {<<7, 1>>, <<9, 8>>}
=============================================================================
