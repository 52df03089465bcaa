-------------------------- MODULE ControlConnection --------------------------
(***************************************************************************)
(* One DinitClient (dinit_client/client.py) on one connection to dinit:    *)
(* the applications' calls, the lock that serialises commands, the reader  *)
(* task, the context manager that owns the connection, and the daemon at   *)
(* the other end of the socket, as far as src/ relies on it.               *)
(*                                                                         *)
(* An API call is a script of one or more requests: find_or_load to get a  *)
(* handle, then a command on that handle.  A request is a pair <<c, k>>,   *)
(* the k-th command of call c.  A step is what a task does between two     *)
(* awaits.                                                                 *)
(***************************************************************************)
EXTENDS Naturals, SequencesExt

CONSTANTS
  Calls,          \* the API calls made on the connection
  Hello,          \* the call that connect() makes to negotiate the version
  Script,         \* Script[c]: the kinds of the requests call c makes
  Services,       \* service names
  Service,        \* Service[c]: the service call c names
  Cancellable,    \* the calls whose task may be cancelled while they run
  DaemonVersions, \* <<protocol, minCompat>> pairs a daemon may report
  MinVersion,     \* the min_version argument of connect()
  EventBuffer,    \* capacity of the event stream (_EVENT_BUFFER)
  MaxEvents,      \* bound: information packets the daemon sends
  ListLength,     \* bound: services in the reply to a list command
  None

MaxProtocol == 7

(* Commands with one successful reply, which carries a payload. *)
Plain == {"version", "record", "status", "log", "env", "mech"}
Kinds == Plain \union {"ack", "stop", "list"}

(* Reply heads.  "nak" stands for every code of _SIMPLE_ERRORS, "ack" for  *)
(* ACK and ALREADYSS; a Plain reply has the name of the command it answers. *)
Heads == Plain \union {"ack", "nak", "dependents", "svcinfo", "listdone"}
HasBody(head) == head \in Plain \union {"dependents", "svcinfo"}

(* The heads a request's handler takes; it rejects every other. *)
Accepted(kind) ==
  CASE kind = "ack"  -> {"ack"}
    [] kind = "stop" -> {"ack", "dependents"}
    [] kind = "list" -> {"svcinfo"}
    [] OTHER         -> {kind}

Requests == UNION {{c} \X (1..Len(Script[c])) : c \in Calls}
KindOf(r) == Script[r[1]][r[2]]

ASSUME CallsAssumption ==
  /\ Hello \in Calls
  /\ Script \in [Calls -> Seq(Kinds) \ {<<>>}]
  /\ Script[Hello] = <<"version">>
  /\ Service \in [Calls -> Services]
  /\ Cancellable \subseteq Calls \ {Hello}
  /\ None \notin Calls \union Services \union Requests
ASSUME BoundsAssumption ==
  /\ EventBuffer \in Nat /\ MaxEvents \in Nat /\ ListLength \in Nat
  /\ MinVersion \in Nat
  /\ DaemonVersions \subseteq Nat \X Nat

VARIABLES
  pc,       \* control state of each call
  step,     \* which request of its script each call is at
  handle,   \* the service that the handle a call holds denotes
  lock,     \* tasks on self._lock in arrival order; the head owns it
  pending,  \* self._pending, named by the request it was made for
  outcome,  \* the result or error of each call's latest _Pending
  reader,   \* where _read_loop is, and the request whose handler it is in
  host,     \* the connect() context manager
  link,     \* is the socket connected
  wire,     \* commands sent that the daemon has not finished answering
  stream,   \* packets from the daemon the reader has not taken
  events,   \* the memory stream that subscribe() returns
  emitted   \* information packets sent so far (bounds the model)

vars == <<pc, step, handle, lock, pending, outcome, reader, host, link,
          wire, stream, events, emitted>>

Finished == {"returned", "raised", "cancelled"}
Tags == {"none", "ok", "error", "closed", "garbage"}
NoOutcome == [tag |-> "none", of |-> None]
Closed == reader.at = "dead"   \* self._closed: set in the same finally
Current(c) == <<c, step[c]>>
Owner(c) == lock # <<>> /\ Head(lock) = c

Init ==
  /\ pc = [c \in Calls |-> IF c = Hello THEN "queued" ELSE "idle"]
  /\ step = [c \in Calls |-> 1]
  /\ handle = [c \in Calls |-> None]
  /\ lock = <<Hello>>
  /\ pending = None
  /\ outcome = [c \in Calls |-> NoOutcome]
  /\ reader = [at |-> "head", slot |-> None]
  /\ host = "connecting"
  /\ link = "up"
  /\ wire = <<>> /\ stream = <<>> /\ events = <<>>
  /\ emitted = 0

-----------------------------------------------------------------------------
(* The calls: _request, and the API methods made of it.                    *)

(* An application calls the API and reaches `async with self._lock`. *)
Call(c) ==
  /\ pc[c] = "idle" /\ host = "open"
  /\ pc' = [pc EXCEPT ![c] = "queued"]
  /\ lock' = Append(lock, c)
  /\ UNCHANGED <<step, handle, pending, outcome, reader, host, link, wire,
                 stream, events, emitted>>

(* Mutant of Begin: the command does not take the lock. *)
BeginUnlocked(c) ==
  /\ pc[c] = "queued" /\ ~Closed
  /\ pc' = [pc EXCEPT ![c] = "sending"]
  /\ pending' = Current(c)
  /\ UNCHANGED <<step, handle, lock, outcome, reader, host, link, wire, stream,
                 events, emitted>>

(* Mutant of Begin: _closed is not checked under the lock. *)
BeginUnchecked(c) ==
  /\ pc[c] = "queued" /\ Owner(c)
  /\ pc' = [pc EXCEPT ![c] = "sending"]
  /\ pending' = Current(c)
  /\ UNCHANGED <<step, handle, lock, outcome, reader, host, link, wire, stream,
                 events, emitted>>

(* The lock is acquired: check _closed and install the _Pending, in one go. *)
Begin(c) ==
  /\ pc[c] = "queued" /\ Owner(c)
  /\ IF Closed
     THEN /\ pc' = [pc EXCEPT ![c] = "raised"]
          /\ lock' = Tail(lock)
          /\ UNCHANGED pending
     ELSE /\ pc' = [pc EXCEPT ![c] = "sending"]
          /\ pending' = Current(c)
          /\ UNCHANGED lock
  /\ UNCHANGED <<step, handle, outcome, reader, host, link, wire, stream, events, emitted>>

(* Mutant of Send: the lock covers the send only. *)
SendAndRelease(c) ==
  /\ pc[c] = "sending" /\ link = "up"
  /\ pc' = [pc EXCEPT ![c] = "waiting"]
  /\ wire' = Append(wire, [of |-> Current(c), on |-> handle[c], sent |-> 0])
  /\ lock' = Tail(lock)
  /\ UNCHANGED <<step, handle, pending, outcome, reader, host, link, stream,
                 events, emitted>>

(* stream.send returns; a disconnected socket raises and clears _pending. *)
Send(c) ==
  /\ pc[c] = "sending"
  /\ IF link = "up"
     THEN /\ pc' = [pc EXCEPT ![c] = "waiting"]
          /\ wire' = Append(wire, [of |-> Current(c), on |-> handle[c], sent |-> 0])
          /\ UNCHANGED <<lock, pending>>
     ELSE /\ pc' = [pc EXCEPT ![c] = "raised"]
          /\ pending' = None
          /\ lock' = Tail(lock)
          /\ UNCHANGED wire
  /\ UNCHANGED <<step, handle, outcome, reader, host, link, stream, events, emitted>>

(* What a finished request leaves in the caller: a record reply is the     *)
(* handle of the service that the answered request named.                  *)
HandleAfter(c) ==
  IF KindOf(Current(c)) # "record" THEN {handle[c]}
  ELSE IF outcome[c].tag = "ok" THEN {Service[outcome[c].of[1]]}
  ELSE Services \union {None}

(* done.wait() returns: give up the lock, then raise, return, or go on to  *)
(* the script's next request, which queues for the lock again.             *)
Resume(c) ==
  /\ pc[c] = "waiting" /\ outcome[c].tag # "none"
  /\ pending' = None
  /\ IF outcome[c].tag \in {"error", "closed"}
     THEN /\ pc' = [pc EXCEPT ![c] = "raised"]
          /\ lock' = Tail(lock)
          /\ UNCHANGED <<step, handle, outcome>>
     ELSE /\ \E h \in HandleAfter(c) : handle' = [handle EXCEPT ![c] = h]
          /\ IF step[c] < Len(Script[c])
             THEN /\ step' = [step EXCEPT ![c] = @ + 1]
                  /\ pc' = [pc EXCEPT ![c] = "queued"]
                  /\ lock' = Append(Tail(lock), c)
                  /\ outcome' = [outcome EXCEPT ![c] = NoOutcome]
             ELSE /\ pc' = [pc EXCEPT ![c] = "returned"]
                  /\ lock' = Tail(lock)
                  /\ UNCHANGED <<step, outcome>>
  /\ UNCHANGED <<reader, host, link, wire, stream, events, emitted>>

(* Mutant of Cancel: a cancelled call always clears _pending. *)
CancelClears(c) ==
  /\ pc[c] \in {"queued", "sending", "waiting"} /\ c \in Cancellable
  /\ pc' = [pc EXCEPT ![c] = "cancelled"]
  /\ \E i \in DOMAIN lock : lock[i] = c /\ lock' = RemoveAt(lock, i)
  /\ pending' = None
  /\ UNCHANGED <<step, handle, outcome, reader, host, link, wire, stream,
                 events, emitted>>

(* Cancellation reaches a task inside _request: `async with` gives up the  *)
(* lock or the place in its queue, and _pending keeps its value.  Leaving  *)
(* the context manager cancels the tasks under it, once the reader is out. *)
Cancel(c) ==
  /\ pc[c] \in {"queued", "sending", "waiting"}
  /\ \/ c \in Cancellable
     \/ host = "leaving" /\ Closed
  /\ pc' = [pc EXCEPT ![c] = "cancelled"]
  /\ \E i \in DOMAIN lock : lock[i] = c /\ lock' = RemoveAt(lock, i)
  /\ UNCHANGED <<step, handle, pending, outcome, reader, host, link, wire,
                 stream, events, emitted>>

-----------------------------------------------------------------------------
(* The reader task.                                                        *)

Incoming == Head(stream)
Waiting == [at |-> "head", slot |-> None]

(* The rest of a packet whose head has been read is still in the socket. *)
AfterHead == IF HasBody(Incoming.head)
             THEN <<[Incoming EXCEPT !.part = "rest"]>> \o Tail(stream)
             ELSE Tail(stream)

(* The handler of request r is done.  Its _Pending is forgotten by now if  *)
(* the call has gone on to a later request.                                *)
Decide(r, tag, of) ==
  outcome' = IF r = Current(r[1])
             THEN [outcome EXCEPT ![r[1]] = [tag |-> tag, of |-> of]]
             ELSE outcome

Settle(r, tag) == Decide(r, tag, Incoming.of) /\ reader' = Waiting

(* Mutant of ReaderFinally: the command in flight is not woken. *)
ReaderFinallySilent ==
  /\ reader' = [at |-> "dead", slot |-> None]
  /\ UNCHANGED outcome

(* The `finally` of _read_loop. *)
ReaderFinally ==
  /\ reader' = [at |-> "dead", slot |-> None]
  /\ IF pending = None THEN UNCHANGED outcome ELSE Decide(pending, "closed", None)

(* An exception that _read_loop does not catch fails the task group, which *)
(* cancels the body of the context manager.                                *)
ReaderCrashes == ReaderFinally /\ host' = "leaving"

AtHead == reader.at \in {"head", "more"} /\ stream # <<>> /\ Incoming.part = "whole"

(* Mutant of ReadInfo: a full event stream drops its oldest event. *)
ReadInfoDropsOldest ==
  /\ AtHead /\ Incoming.head \in {"event", "info"}
  /\ stream' = Tail(stream)
  /\ events' = IF Incoming.head = "info" THEN events
               ELSE IF Len(events) < EventBuffer
               THEN Append(events, Incoming.of[2])
               ELSE Append(Tail(events), Incoming.of[2])
  /\ UNCHANGED <<pc, step, handle, lock, pending, outcome, reader, host, link,
                 wire, emitted>>

(* Mutant of ReadInfo: the event stream has no limit. *)
ReadInfoUnbounded ==
  /\ AtHead /\ Incoming.head \in {"event", "info"}
  /\ stream' = Tail(stream)
  /\ events' = IF Incoming.head = "event" THEN Append(events, Incoming.of[2]) ELSE events
  /\ UNCHANGED <<pc, step, handle, lock, pending, outcome, reader, host, link,
                 wire, emitted>>

(* _next_reply meets an information packet: offer it to the event stream,  *)
(* which drops it when full, or skip one of no interest ("info").          *)
ReadInfo ==
  /\ AtHead /\ Incoming.head \in {"event", "info"}
  /\ stream' = Tail(stream)
  /\ events' = IF Incoming.head = "event" /\ Len(events) < EventBuffer
               THEN Append(events, Incoming.of[2]) ELSE events
  /\ UNCHANGED <<pc, step, handle, lock, pending, outcome, reader, host, link,
                 wire, emitted>>

(* The subscriber has closed its end of the event stream: the next event   *)
(* raises BrokenResourceError in the reader, which ends it as a reset does. *)
EventRefused ==
  /\ AtHead /\ Incoming.head = "event" /\ host # "connecting"
  /\ stream' = Tail(stream)
  /\ ReaderFinally
  /\ UNCHANGED <<pc, step, handle, lock, pending, host, link, wire, events, emitted>>

(* Mutant of Handle: the handle count of DEPENDENTS is not read. *)
HandleSkipsPayload(r) ==
  /\ stream' = AfterHead
  /\ IF Incoming.head \notin Accepted(KindOf(r)) \ {"dependents"}
     THEN Settle(r, "error")
     ELSE IF HasBody(Incoming.head)
     THEN reader' = [at |-> "body", slot |-> r] /\ UNCHANGED outcome
     ELSE Settle(r, "ok")

(* The handler of request r looks at a reply head: it wants the payload,   *)
(* is done, or rejects the reply and leaves the payload in the stream.     *)
Handle(r) ==
  /\ stream' = AfterHead
  /\ IF Incoming.head \notin Accepted(KindOf(r))
     THEN Settle(r, "error")
     ELSE IF HasBody(Incoming.head)
     THEN reader' = [at |-> "body", slot |-> r] /\ UNCHANGED outcome
     ELSE Settle(r, "ok")

(* A reply head goes to the handler of whatever command is pending. *)
ReadReply ==
  /\ AtHead /\ reader.at = "head" /\ Incoming.head \in Heads
  /\ IF pending = None
     THEN ReaderCrashes /\ UNCHANGED stream
     ELSE Handle(pending) /\ UNCHANGED host
  /\ UNCHANGED <<pc, step, handle, lock, pending, link, wire, events, emitted>>

(* The payload a handler asked for.  A list handler goes on to the next    *)
(* reply of the list; DEPENDENTS is an error whatever it carries.          *)
ReadBody ==
  /\ reader.at = "body" /\ stream # <<>>
  /\ stream' = Tail(stream)
  /\ IF Incoming.head = "svcinfo"
     THEN reader' = [reader EXCEPT !.at = "more"] /\ UNCHANGED outcome
     ELSE Settle(reader.slot, IF Incoming.head = "dependents" THEN "error" ELSE "ok")
  /\ UNCHANGED <<pc, step, handle, lock, pending, host, link, wire, events, emitted>>

(* The list handler's loop meets the next reply head. *)
ReadMore ==
  /\ AtHead /\ reader.at = "more" /\ Incoming.head \in Heads
  /\ IF Incoming.head = "listdone"
     THEN stream' = Tail(stream) /\ Settle(reader.slot, "ok")
     ELSE Handle(reader.slot)
  /\ UNCHANGED <<pc, step, handle, lock, pending, host, link, wire, events, emitted>>

(* A payload nobody read is taken for packet heads.  What its bytes parse  *)
(* as is arbitrary: a reply, right or wrong, an unknown code that ends the *)
(* reader, an information packet of any length, the start of a handler.    *)
ReadMisaligned ==
  /\ \/ reader.at = "lost"
     \/ reader.at \in {"head", "more"} /\ stream # <<>> /\ Incoming.part = "rest"
  /\ \E n \in 0..Len(stream) : stream' = SubSeq(stream, n + 1, Len(stream))
  /\ \/ ReaderCrashes
     \/ /\ \E at \in {"head", "lost"} : reader' = [at |-> at, slot |-> None]
        /\ \/ UNCHANGED outcome
           \/ \E r \in {pending, reader.slot} \ {None}, tag \in {"error", "garbage"} :
                Decide(r, tag, None)
        /\ UNCHANGED host
  /\ UNCHANGED <<pc, step, handle, lock, pending, link, wire, events, emitted>>

(* EndOfStream, ClosedResourceError or BrokenResourceError at a read.  A   *)
(* reset may discard what the daemon had written.                          *)
ReaderEnds ==
  /\ link = "down" /\ ~Closed
  /\ ReaderFinally
  /\ UNCHANGED <<pc, step, handle, lock, pending, host, link, wire, stream,
                 events, emitted>>

(* The cancel scope of connect() reaches the reader. *)
ReaderCancelled ==
  /\ host = "leaving" /\ ~Closed
  /\ ReaderFinally
  /\ UNCHANGED <<pc, step, handle, lock, pending, host, link, wire, stream,
                 events, emitted>>

-----------------------------------------------------------------------------
(* The context manager of connect().                                       *)

Compatible(v) == v[2] <= MaxProtocol /\ v[1] >= MinVersion

(* _negotiate ends: the client is yielded, or the exception leaves connect(). *)
Negotiated ==
  /\ host = "connecting" /\ pc[Hello] \in Finished
  /\ \E v \in DaemonVersions :
       host' = IF pc[Hello] = "returned" /\ Compatible(v) THEN "open" ELSE "leaving"
  /\ UNCHANGED <<pc, step, handle, lock, pending, outcome, reader, link, wire,
                 stream, events, emitted>>

(* The application leaves the `async with`. *)
HostExit ==
  /\ host = "open"
  /\ host' = "leaving"
  /\ UNCHANGED <<pc, step, handle, lock, pending, outcome, reader, link, wire,
                 stream, events, emitted>>

(* The task group is done: stream.aclose(). *)
CloseStream ==
  /\ host = "leaving" /\ Closed
  /\ host' = "left" /\ link' = "down"
  /\ UNCHANGED <<pc, step, handle, lock, pending, outcome, reader, wire,
                 stream, events, emitted>>

(* The application takes an event; nothing obliges it to. *)
TakeEvent ==
  /\ events # <<>>
  /\ events' = Tail(events)
  /\ UNCHANGED <<pc, step, handle, lock, pending, outcome, reader, host, link,
                 wire, stream, emitted>>

-----------------------------------------------------------------------------
(* The daemon: outside src/.  It answers commands in order, each with one  *)
(* reply (a list with several packets), and may slip an information packet *)
(* between any two packets.                                                *)

Packet(head, of) == [head |-> head, of |-> of, part |-> "whole"]

(* The last packets of a reply to p. *)
FinalHeads(p) ==
  LET kind == KindOf(p.of) IN
  CASE kind = "list" -> IF p.sent > 0 THEN {"listdone", "nak"} ELSE {"nak"}
    [] OTHER         -> Accepted(kind) \union {"nak"}

Answer ==
  /\ link = "up" /\ wire # <<>>
  /\ LET p == Head(wire) IN
     \/ /\ KindOf(p.of) = "list" /\ p.sent < ListLength
        /\ stream' = Append(stream, Packet("svcinfo", p.of))
        /\ wire' = <<[p EXCEPT !.sent = @ + 1]>> \o Tail(wire)
     \/ \E head \in FinalHeads(p) :
        /\ stream' = Append(stream, Packet(head, p.of))
        /\ wire' = Tail(wire)
  /\ UNCHANGED <<pc, step, handle, lock, pending, outcome, reader, host, link,
                 events, emitted>>

(* An information packet answers no call; it has a number instead. *)
Emit ==
  /\ link = "up" /\ emitted < MaxEvents
  /\ emitted' = emitted + 1
  /\ \E head \in {"event", "info"} :
       stream' = Append(stream, Packet(head, <<None, emitted'>>))
  /\ UNCHANGED <<pc, step, handle, lock, pending, outcome, reader, host, link,
                 wire, events>>

(* dinit exits or drops the connection. *)
Hangup ==
  /\ link = "up"
  /\ link' = "down"
  /\ UNCHANGED <<pc, step, handle, lock, pending, outcome, reader, host, wire,
                 stream, events, emitted>>

-----------------------------------------------------------------------------
CallStep(c) == Begin(c) \/ Send(c) \/ Resume(c)
ReaderStep == ReadInfo \/ EventRefused \/ ReadReply \/ ReadBody \/ ReadMore \/ ReadMisaligned
              \/ ReaderEnds \/ ReaderCancelled
HostStep == Negotiated \/ HostExit \/ CloseStream
DaemonStep == Answer \/ Emit \/ Hangup

Next ==
  \/ \E c \in Calls : Call(c) \/ CallStep(c) \/ Cancel(c)
  \/ ReaderStep
  \/ HostStep
  \/ TakeEvent
  \/ DaemonStep

Spec == Init /\ [][Next]_vars

(* The event loop runs every task that can run; anyio.Lock is a FIFO; the  *)
(* daemon answers what it is sent.  Nothing obliges an application to call *)
(* or to take events, the host to leave, or the daemon to speak or hang up. *)
Fairness ==
  /\ \A c \in Calls : WF_vars(CallStep(c))
  /\ WF_vars(ReaderStep)
  /\ WF_vars(Negotiated) /\ WF_vars(CloseStream)
  /\ WF_vars(Answer)

FairSpec == Spec /\ Fairness
=============================================================================
