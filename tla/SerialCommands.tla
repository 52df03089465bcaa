---------------------------- MODULE SerialCommands ----------------------------
(***************************************************************************)
(* What dinit_client promises of one connection ("Commands are serialised  *)
(* on the connection ... the reader task matches the next reply to the one *)
(* command in flight"): one request at a time is in flight, it ends with   *)
(* its own reply or, once the connection is closed, with a failure, and a  *)
(* closed connection never delivers a reply.                               *)
(***************************************************************************)
CONSTANTS Requests, None

VARIABLES
  inFlight,   \* the request that was sent and whose caller still waits
  delivered,  \* the requests whose callers got their own reply
  open        \* is the connection usable

vars == <<inFlight, delivered, open>>

Init == inFlight = None /\ delivered = {} /\ open = TRUE

Issue(r) ==
  /\ inFlight = None /\ r \notin delivered
  /\ inFlight' = r
  /\ UNCHANGED <<delivered, open>>

Deliver ==
  /\ open /\ inFlight # None
  /\ delivered' = delivered \union {inFlight}
  /\ inFlight' = None
  /\ UNCHANGED open

Fail ==
  /\ ~open /\ inFlight # None
  /\ inFlight' = None
  /\ UNCHANGED <<delivered, open>>

Close == open /\ open' = FALSE /\ UNCHANGED <<inFlight, delivered>>

Next == (\E r \in Requests : Issue(r)) \/ Deliver \/ Fail \/ Close

Spec == Init /\ [][Next]_vars
=============================================================================
