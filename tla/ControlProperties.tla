-------------------------- MODULE ControlProperties --------------------------
(* What the control connection must satisfy. *)
EXTENDS ControlConnection

CallStates == {"idle", "queued", "sending", "waiting"} \union Finished
OutcomeType == [tag : {"ok"}, of : Requests]
                 \union [tag : Tags \ {"ok"}, of : Requests \union {None}]
CommandType == [of : Requests, on : Services \union {None}, sent : Nat]
ReplyType == [head : Heads, of : Requests, part : {"whole", "rest"}]
InfoType == [head : {"event", "info"}, of : {None} \X Nat, part : {"whole"}]
PacketType == ReplyType \union InfoType
ReaderType == [at : {"head", "lost", "dead"}, slot : {None}]
                \union [at : {"body", "more"}, slot : Requests]

(* Every variable has the type that the code gives it; the event stream   *)
(* holds at most _EVENT_BUFFER events.                                     *)
TypeOK ==
  /\ pc \in [Calls -> CallStates]
  /\ step \in [Calls -> Nat \ {0}]
  /\ \A c \in Calls : Current(c) \in Requests
  /\ handle \in [Calls -> Services \union {None}]
  /\ lock \in Seq(Calls)
  /\ pending \in Requests \union {None}
  /\ outcome \in [Calls -> OutcomeType]
  /\ reader \in ReaderType
  /\ host \in {"connecting", "open", "leaving", "left"}
  /\ link \in {"up", "down"}
  /\ wire \in Seq(CommandType)
  /\ stream \in Seq(PacketType)
  /\ events \in Seq(Nat) /\ Len(events) <= EventBuffer
  /\ emitted \in Nat

(* A reply or a rejection that a call sees is the one the daemon sent for  *)
(* that call's own current request (client.py:3-6).                        *)
ReplyMatches ==
  \A c \in Calls :
    pc[c] # "cancelled" /\ outcome[c].tag \in {"ok", "error", "garbage"}
      => outcome[c].of = Current(c)

(* The requests of which something is still on its way, in either          *)
(* direction or in the reader's hands.                                     *)
Outstanding ==
  {wire[i].of : i \in DOMAIN wire}
    \union {stream[i].of : i \in {j \in DOMAIN stream : stream[j].head \in Heads}}
    \union ({reader.slot} \ {None})

(* Commands are serialised: while anything of a request is under way, no   *)
(* other request is, and its caller is still waiting for it with the lock  *)
(* held, so the next packets can only be its reply.                        *)
OneInFlight ==
  ~Closed => \A r \in Outstanding :
    /\ Outstanding = {r} /\ pending = r
    /\ pc[r[1]] = "waiting" /\ Owner(r[1])

(* Each command that reaches the daemon acts on the service its call names *)
(* although the handle came from an earlier reply (client.py:220-300).     *)
RightService ==
  \A i \in DOMAIN wire :
    wire[i].on \in {None, Service[wire[i].of[1]]}

(* The reader always finds a reply head where it looks for one, with a     *)
(* command pending to give it to: no reply payload is left in the stream   *)
(* and no reply ends the connection as unexpected (client.py:417-418).     *)
StaysAligned ==
  /\ reader.at # "lost"
  /\ reader.at \in {"head", "more"} /\ stream # <<>> => Incoming.part = "whole"
  /\ AtHead /\ reader.at = "head" /\ Incoming.head \in Heads => pending # None

(* When the reader is gone nobody waits for a reply: a call that had       *)
(* installed its _Pending when the reader ended has its outcome, at        *)
(* whatever point of sending or waiting it was (client.py:425-430).        *)
NoLostWakeup ==
  Closed => \A c \in Calls :
    pc[c] \in {"sending", "waiting"} => outcome[c].tag # "none"

(* Only the owner of the lock is between installing a _Pending and taking  *)
(* its outcome, and the _Pending installed is its own: cancelling other    *)
(* calls never lets two requests share the slot (client.py:363-374).       *)
SlotGuarded ==
  \A c \in Calls :
    pc[c] \in {"sending", "waiting"} => Owner(c) /\ pending = Current(c)

(* A full event stream drops the newest event (client.py:30-33): an event  *)
(* that was buffered leaves the buffer only to the subscriber, in the      *)
(* order the daemon sent them.                                             *)
EventsKept ==
  [][ \/ events # <<>> /\ events' = Tail(events)
      \/ /\ Len(events') = Len(events) + 1
         /\ SubSeq(events', 1, Len(events)) = events
         /\ \A i \in DOMAIN events : events[i] < events'[Len(events')] ]_events

(* Every call comes back, with nobody draining the events: "a stuck        *)
(* consumer must not stall the control connection" (client.py:30-33), and  *)
(* a connection that ends at any point fails the calls that wait on it.    *)
EveryCallReturns == \A c \in Calls : pc[c] = "queued" ~> pc[c] \in Finished

-----------------------------------------------------------------------------
(* The inductive invariant behind ReplyMatches, OneInFlight, RightService  *)
(* and StaysAligned.                                                       *)

Awaited(r) == pending = r /\ pc[r[1]] = "waiting" /\ outcome[r[1]].tag = "none"
IsReply(packet) == packet.head \in Heads

(* A request that has yet to be sent has no outcome, and the slot is taken *)
(* only by a call that is sending or waiting.                              *)
SlotFresh ==
  /\ \A c \in Calls : pc[c] \in {"idle", "queued", "sending"} => outcome[c].tag = "none"
  /\ pending # None => pc[pending[1]] \in {"sending", "waiting"}

(* All that is under way belongs to the request whose caller waits. *)
AllAwaited ==
  /\ \A i \in DOMAIN wire : i = 1 /\ Awaited(wire[i].of)
  /\ \A j \in DOMAIN stream : IsReply(stream[j]) => Awaited(stream[j].of)
  /\ reader.slot # None => Awaited(reader.slot)

(* A handler that waits for a payload has it ahead in the stream. *)
BodyAhead == reader.at = "body" => stream # <<>> /\ stream[1].part = "rest"

(* With or without cancellation this holds in every state. *)
BaseInv == TypeOK /\ SlotGuarded /\ NoLostWakeup /\ BodyAhead

(* The packets from the reader's position on are the rest of one reply:    *)
(* only its last packet may be rejected, and then it carries no payload.   *)
WellFormed ==
  /\ reader.at # "lost"
  /\ \A j \in DOMAIN stream : stream[j].part = "rest" => j = 1 /\ reader.at = "body"
                                                          /\ IsReply(stream[j])
  /\ \A j \in DOMAIN stream : IsReply(stream[j]) /\ HasBody(stream[j].head)
       => stream[j].head \in Accepted(KindOf(stream[j].of))
  /\ \A j \in DOMAIN stream : IsReply(stream[j]) /\ stream[j].head # "svcinfo"
       => wire = <<>> /\ \A k \in DOMAIN stream : k > j => ~IsReply(stream[k])

(* What a call got is the reply to its current request, so the handle it   *)
(* holds, and every command sent with one, is for its own service.         *)
OutcomesOwn ==
  \A c \in Calls : /\ outcome[c].tag # "garbage"
                   /\ outcome[c].tag \in {"ok", "error"} => outcome[c].of = Current(c)
HandlesOwn == \A c \in Calls : handle[c] \in {None, Service[c]}

(* Without cancellation every step keeps BaseInv and this. *)
SerialInv ==
  /\ OutcomesOwn /\ HandlesOwn /\ RightService
  /\ ~Closed => SlotFresh /\ AllAwaited /\ WellFormed

(* The information packets on their way are numbered in the order they     *)
(* were sent, and the events already buffered come before all of them:     *)
(* with BaseInv, what EventsKept needs, whatever is cancelled.             *)
NumberedInOrder ==
  /\ \A i \in DOMAIN events : events[i] <= emitted
  /\ \A j \in DOMAIN stream : ~IsReply(stream[j]) =>
       /\ stream[j].of[2] <= emitted
       /\ \A i \in DOMAIN events : events[i] < stream[j].of[2]
       /\ \A k \in DOMAIN stream : ~IsReply(stream[k]) /\ j < k
                                     => stream[j].of[2] < stream[k].of[2]

-----------------------------------------------------------------------------
(* The connection implements the serial command channel.                   *)

AwaitingReply == {c \in Calls : pc[c] = "waiting"}
InFlight == IF AwaitingReply = {} THEN None
            ELSE Current(CHOOSE c \in AwaitingReply : TRUE)
Answered(c) == pc[c] \in {"returned", "raised"} /\ outcome[c].tag \in {"ok", "error"}
                 /\ outcome[c].of = Current(c)
Delivered == {r \in Requests : r[2] < step[r[1]] \/ (r = Current(r[1]) /\ Answered(r[1]))}

Serial == INSTANCE SerialCommands
            WITH inFlight <- InFlight, delivered <- Delivered, open <- ~Closed

(* Without cancellation the client refines SerialCommands. *)
ImplementsSerial == Serial!Spec
=============================================================================
