---------------------------- MODULE MCTuiSession ----------------------------
(* Small instances of TuiSession for TLC. *)
EXTENDS TuiSession, TLC

CONSTANTS plain, logs, fresh

MCServices == {plain, logs, fresh}
=============================================================================
