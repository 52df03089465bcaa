---------------------------- MODULE ControlProofs ----------------------------
(***************************************************************************)
(* Theorems about ControlConnection for every value of its constants: what *)
(* holds whatever is cancelled, then, without cancellation, that commands  *)
(* are serialised and every reply reaches the call it answers, and that    *)
(* the connection implements SerialCommands.                               *)
(***************************************************************************)
EXTENDS ControlProperties, TLAPS

(* A request of a call is a pair of the call and a place in its script. *)
LEMMA RequestIsPair ==
  ASSUME NEW r \in Requests
  PROVE  /\ r[1] \in Calls /\ r[2] \in 1..Len(Script[r[1]]) /\ r = <<r[1], r[2]>>
         /\ KindOf(r) \in Kinds
         /\ r # None
BY CallsAssumption DEF Requests, KindOf

LEMMA PairIsRequest ==
  ASSUME NEW c \in Calls, NEW k \in 1..Len(Script[c])
  PROVE  <<c, k>> \in Requests
BY DEF Requests

(* Removing someone else from the lock leaves its owner where it is. *)
LEMMA OwnerStays ==
  ASSUME NEW s \in Seq(Calls), NEW i \in DOMAIN s, s[i] # Head(s)
  PROVE  /\ RemoveAt(s, i) \in Seq(Calls)
         /\ RemoveAt(s, i) # <<>> /\ Head(RemoveAt(s, i)) = Head(s)
BY DEF RemoveAt

LEMMA RemovalType ==
  ASSUME NEW s \in Seq(Calls), NEW i \in DOMAIN s
  PROVE  RemoveAt(s, i) \in Seq(Calls)
BY DEF RemoveAt

(* Deciding a request's outcome keeps the type, and decides only that. *)
LEMMA DecideType ==
  ASSUME TypeOK, NEW r \in Requests, NEW tag \in Tags,
         NEW of \in Requests \union {None}, tag = "ok" => of \in Requests,
         Decide(r, tag, of)
  PROVE  /\ outcome' \in [Calls -> OutcomeType]
         /\ \A c \in Calls : c # r[1] => outcome'[c] = outcome[c]
         /\ r = Current(r[1]) => outcome'[r[1]] = [tag |-> tag, of |-> of]
         /\ r # Current(r[1]) => outcome' = outcome
BY RequestIsPair DEF TypeOK, Decide, OutcomeType

(* So does the end of the reader, and then nothing pending is undecided. *)
LEMMA FinallyType ==
  ASSUME TypeOK, ReaderFinally
  PROVE  /\ reader' = [at |-> "dead", slot |-> None]
         /\ outcome' \in [Calls -> OutcomeType]
         /\ \A c \in Calls : \/ outcome'[c] = outcome[c]
                             \/ outcome'[c].tag = "closed"
         /\ \A c \in Calls : pending = Current(c) => outcome'[c].tag = "closed"
<1>1. CASE pending = None
  <2>1. \A c \in Calls : Current(c) # None
    BY RequestIsPair DEF TypeOK
  <2>2. QED BY <1>1, <2>1 DEF ReaderFinally, TypeOK
<1>2. CASE pending # None
  <2>1. pending \in Requests /\ Decide(pending, "closed", None)
    BY <1>2 DEF ReaderFinally, TypeOK
  <2>2. \A c \in Calls : pending = Current(c) => pending[1] = c
    BY DEF Current
  <2>3. /\ outcome' \in [Calls -> OutcomeType]
        /\ \A c \in Calls : c # pending[1] => outcome'[c] = outcome[c]
        /\ pending = Current(pending[1]) =>
             outcome'[pending[1]] = [tag |-> "closed", of |-> None]
        /\ pending # Current(pending[1]) => outcome' = outcome
    <3>1. "closed" \in Tags
      BY DEF Tags
    <3>2. QED BY <2>1, <3>1, DecideType
  <2>4. pending[1] \in Calls
    BY <2>1, RequestIsPair
  <2>5. QED
    BY <2>2, <2>3, <2>4 DEF ReaderFinally
<1>3. QED BY <1>1, <1>2

-----------------------------------------------------------------------------
(* The base invariant: with or without cancellation.                       *)

LEMMA InitBase == Init => BaseInv
<1> SUFFICES ASSUME Init PROVE BaseInv
  OBVIOUS
<1> USE DEF Init
<1>1. Current(Hello) \in Requests /\ \A c \in Calls : Current(c) \in Requests
  BY CallsAssumption, PairIsRequest DEF Current
<1>2. TypeOK
  BY <1>1, CallsAssumption, BoundsAssumption
     DEF TypeOK, OutcomeType, NoOutcome, ReaderType, Tags, CallStates
<1>3. SlotGuarded
  BY DEF SlotGuarded
<1>4. NoLostWakeup /\ BodyAhead
  BY DEF NoLostWakeup, BodyAhead, Closed
<1>5. QED BY <1>2, <1>3, <1>4 DEF BaseInv

LEMMA CallBase ==
  ASSUME BaseInv, NEW c \in Calls, Call(c)
  PROVE  BaseInv'
<1>1. /\ TypeOK /\ SlotGuarded /\ NoLostWakeup /\ BodyAhead
      /\ lock \in Seq(Calls) /\ lock' = Append(lock, c)
  BY DEF BaseInv, TypeOK, Call
<1>2. \A d \in Calls : Current(d)' = Current(d)
  BY DEF Current, Call
<1>3. /\ lock' \in Seq(Calls)
      /\ lock # <<>> => lock' # <<>> /\ Head(lock') = Head(lock)
  BY <1>1
<1>4. TypeOK'
  BY <1>1, <1>2, <1>3 DEF TypeOK, Call, CallStates
<1>5. SlotGuarded'
  BY <1>1, <1>2, <1>3 DEF SlotGuarded, Owner, TypeOK, Call
<1>6. NoLostWakeup' /\ BodyAhead'
  BY <1>1 DEF NoLostWakeup, BodyAhead, Closed, TypeOK, Call
<1>7. QED BY <1>4, <1>5, <1>6 DEF BaseInv

LEMMA BeginBase ==
  ASSUME BaseInv, NEW c \in Calls, Begin(c)
  PROVE  BaseInv'
<1>1. /\ TypeOK /\ SlotGuarded /\ NoLostWakeup /\ BodyAhead
      /\ lock \in Seq(Calls) /\ lock # <<>> /\ Head(lock) = c
  BY DEF BaseInv, TypeOK, Begin, Owner
<1>2. \A d \in Calls : Current(d)' = Current(d)
  BY DEF Current, Begin
<1>3. Tail(lock) \in Seq(Calls)
  BY <1>1
<1>4. TypeOK'
  <2>1. CASE Closed
    BY <1>1, <1>2, <1>3, <2>1 DEF TypeOK, Begin, CallStates, Finished
  <2>2. CASE ~Closed
    BY <1>1, <1>2, <2>2 DEF TypeOK, Begin, CallStates
  <2>3. QED BY <2>1, <2>2
<1>5. \A d \in Calls \ {c} : pc'[d] \notin {"sending", "waiting"}
  BY <1>1 DEF SlotGuarded, Owner, TypeOK, Begin
<1>6. SlotGuarded'
  BY <1>1, <1>2, <1>5 DEF SlotGuarded, Owner, TypeOK, Begin
<1>7. NoLostWakeup' /\ BodyAhead'
  BY <1>1, <1>5 DEF NoLostWakeup, BodyAhead, Closed, TypeOK, Begin
<1>8. QED BY <1>4, <1>6, <1>7 DEF BaseInv

LEMMA SendBase ==
  ASSUME BaseInv, NEW c \in Calls, Send(c)
  PROVE  BaseInv'
<1>1. /\ TypeOK /\ SlotGuarded /\ NoLostWakeup /\ BodyAhead
      /\ lock \in Seq(Calls) /\ lock # <<>> /\ Head(lock) = c
      /\ wire \in Seq(CommandType)
  BY DEF BaseInv, TypeOK, SlotGuarded, Send, Owner
<1>2. \A d \in Calls : Current(d)' = Current(d)
  BY DEF Current, Send
<1>3. /\ Tail(lock) \in Seq(Calls)
      /\ Append(wire, [of |-> Current(c), on |-> handle[c], sent |-> 0])
           \in Seq(CommandType)
  <2>1. [of |-> Current(c), on |-> handle[c], sent |-> 0] \in CommandType
    BY <1>1 DEF TypeOK, CommandType
  <2>2. QED BY <1>1, <2>1
<1>4. TypeOK'
  <2>1. CASE link = "up"
    BY <1>1, <1>2, <1>3, <2>1 DEF TypeOK, Send, CallStates
  <2>2. CASE link # "up"
    BY <1>1, <1>2, <1>3, <2>2 DEF TypeOK, Send, CallStates, Finished
  <2>3. QED BY <2>1, <2>2
<1>5. \A d \in Calls \ {c} : pc'[d] \notin {"sending", "waiting"}
  BY <1>1 DEF SlotGuarded, Owner, TypeOK, Send
<1>6. SlotGuarded'
  BY <1>1, <1>2, <1>5 DEF SlotGuarded, Owner, TypeOK, Send
<1>7. NoLostWakeup' /\ BodyAhead'
  BY <1>1, <1>5 DEF NoLostWakeup, BodyAhead, Closed, TypeOK, Send
<1>8. QED BY <1>4, <1>6, <1>7 DEF BaseInv

LEMMA CancelBase ==
  ASSUME BaseInv, NEW c \in Calls, Cancel(c)
  PROVE  BaseInv'
<1>1. /\ TypeOK /\ SlotGuarded /\ NoLostWakeup /\ BodyAhead
      /\ lock \in Seq(Calls)
  BY DEF BaseInv, TypeOK
<1>2. PICK i \in DOMAIN lock : lock[i] = c /\ lock' = RemoveAt(lock, i)
  BY DEF Cancel
<1>3. \A d \in Calls : Current(d)' = Current(d)
  BY DEF Current, Cancel
<1>4. lock' \in Seq(Calls)
  BY <1>1, <1>2, RemovalType
<1>5. TypeOK'
  BY <1>1, <1>3, <1>4 DEF TypeOK, Cancel, CallStates, Finished
<1>6. ASSUME NEW d \in Calls, pc'[d] \in {"sending", "waiting"}
      PROVE  Owner(d)' /\ pending' = Current(d)'
  <2>1. d # c /\ pc[d] = pc'[d]
    BY <1>1, <1>6 DEF TypeOK, Cancel
  <2>2. Owner(d) /\ pending = Current(d)
    BY <1>1, <1>6, <2>1 DEF SlotGuarded
  <2>3. lock' # <<>> /\ Head(lock') = Head(lock)
    BY <1>1, <1>2, <2>1, <2>2, OwnerStays DEF Owner
  <2>4. QED BY <1>3, <2>2, <2>3 DEF Owner, Cancel
<1>7. SlotGuarded'
  BY <1>6 DEF SlotGuarded
<1>8. NoLostWakeup' /\ BodyAhead'
  BY <1>1 DEF NoLostWakeup, BodyAhead, Closed, TypeOK, Cancel
<1>9. QED BY <1>5, <1>7, <1>8 DEF BaseInv

LEMMA ResumeBase ==
  ASSUME BaseInv, NEW c \in Calls, Resume(c)
  PROVE  BaseInv'
<1>1. /\ TypeOK /\ SlotGuarded /\ NoLostWakeup /\ BodyAhead
      /\ lock \in Seq(Calls) /\ lock # <<>> /\ Head(lock) = c
      /\ outcome[c] \in OutcomeType
  BY DEF BaseInv, TypeOK, SlotGuarded, Resume, Owner
<1>2. Tail(lock) \in Seq(Calls) /\ Append(Tail(lock), c) \in Seq(Calls)
  BY <1>1
<1>3. \A d \in Calls \ {c} : pc[d] \notin {"sending", "waiting"}
  BY <1>1 DEF SlotGuarded, Owner
<1>4. \A d \in Calls : pc'[d] \notin {"sending", "waiting"}
  BY <1>1, <1>3 DEF Resume, TypeOK
<1>5. SlotGuarded' /\ NoLostWakeup'
  BY <1>4 DEF SlotGuarded, NoLostWakeup
<1>6. BodyAhead'
  BY <1>1 DEF BodyAhead, Resume
<1>7. HandleAfter(c) \subseteq Services \union {None}
  <2>1. handle[c] \in Services \union {None}
    BY <1>1 DEF TypeOK
  <2>2. outcome[c].tag = "ok" => outcome[c].of[1] \in Calls
    BY <1>1, RequestIsPair DEF OutcomeType
  <2>3. outcome[c].tag = "ok" => Service[outcome[c].of[1]] \in Services
    BY <2>2, CallsAssumption
  <2>4. QED BY <2>1, <2>3 DEF HandleAfter
<1>8. CASE outcome[c].tag \in {"error", "closed"}
  <2>1. \A d \in Calls : Current(d)' = Current(d)
    BY <1>8 DEF Current, Resume
  <2>2. TypeOK'
    BY <1>1, <1>2, <1>8, <2>1 DEF TypeOK, Resume, CallStates, Finished
  <2>3. QED BY <1>5, <1>6, <2>2 DEF BaseInv
<1>9. CASE outcome[c].tag \notin {"error", "closed"}
  <2>1. handle' \in [Calls -> Services \union {None}]
    BY <1>1, <1>7, <1>9 DEF TypeOK, Resume
  <2>2. CASE step[c] < Len(Script[c])
    <3>1. /\ step' = [step EXCEPT ![c] = @ + 1]
          /\ pc' = [pc EXCEPT ![c] = "queued"]
          /\ lock' = Append(Tail(lock), c)
          /\ outcome' = [outcome EXCEPT ![c] = NoOutcome]
      BY <1>9, <2>2 DEF Resume
    <3>2. step[c] \in Nat /\ Len(Script[c]) \in Nat
      BY <1>1, CallsAssumption DEF TypeOK
    <3>3. step[c] + 1 \in 1..Len(Script[c])
      BY <2>2, <3>2
    <3>4. ASSUME NEW d \in Calls
          PROVE  Current(d)' \in Requests
      <4>1. CASE d = c
        BY <1>1, <3>1, <3>3, <4>1, PairIsRequest DEF Current, TypeOK
      <4>2. CASE d # c
        <5>1. Current(d)' = Current(d)
          BY <1>1, <3>1, <4>2 DEF Current, TypeOK
        <5>2. QED BY <1>1, <5>1 DEF TypeOK
      <4>3. QED BY <4>1, <4>2
    <3>5. outcome' \in [Calls -> OutcomeType]
      BY <1>1, <3>1 DEF TypeOK, NoOutcome, OutcomeType, Tags
    <3>6. step' \in [Calls -> Nat \ {0}]
      BY <1>1, <3>1, <3>2 DEF TypeOK
    <3>7. TypeOK'
      BY <1>1, <1>2, <2>1, <3>1, <3>4, <3>5, <3>6 DEF TypeOK, Resume, CallStates
    <3>8. QED BY <1>5, <1>6, <3>7 DEF BaseInv
  <2>3. CASE ~(step[c] < Len(Script[c]))
    <3>1. \A d \in Calls : Current(d)' = Current(d)
      BY <1>9, <2>3 DEF Current, Resume
    <3>a. /\ pc' = [pc EXCEPT ![c] = "returned"]
          /\ lock' = Tail(lock) /\ pending' = None
          /\ UNCHANGED <<step, outcome, reader, host, link, wire, stream, events, emitted>>
      BY <1>9, <2>3 DEF Resume
    <3>b. pc' \in [Calls -> CallStates]
      BY <1>1, <3>a DEF TypeOK, CallStates, Finished
    <3>2. TypeOK'
      BY <1>1, <1>2, <2>1, <3>1, <3>a, <3>b DEF TypeOK
    <3>3. QED BY <1>5, <1>6, <3>2 DEF BaseInv
  <2>4. QED BY <2>2, <2>3
<1>10. QED BY <1>8, <1>9

-----------------------------------------------------------------------------
(* The steps of the reader, the host and the daemon leave the callers and  *)
(* the lock alone.                                                         *)

LEMMA CallersUntouched ==
  ASSUME BaseInv,
         UNCHANGED <<pc, step, handle, lock, pending>>,
         outcome' \in [Calls -> OutcomeType], reader' \in ReaderType,
         host' \in {"connecting", "open", "leaving", "left"},
         link' \in {"up", "down"},
         wire' \in Seq(CommandType), stream' \in Seq(PacketType),
         events' \in Seq(Nat), Len(events') <= EventBuffer, emitted' \in Nat,
         NoLostWakeup', BodyAhead'
  PROVE  BaseInv'
<1>1. TypeOK /\ SlotGuarded
  BY DEF BaseInv
<1>2. \A d \in Calls : Current(d)' = Current(d)
  BY DEF Current
<1>3. TypeOK'
  BY <1>1, <1>2 DEF TypeOK
<1>4. SlotGuarded'
  BY <1>1, <1>2 DEF SlotGuarded, Owner
<1>5. QED BY <1>3, <1>4 DEF BaseInv

LEMMA IncomingType ==
  ASSUME TypeOK, stream # <<>>
  PROVE  /\ Incoming \in PacketType /\ Tail(stream) \in Seq(PacketType)
         /\ Incoming = stream[1]
BY DEF TypeOK, Incoming

LEMMA Prepend ==
  ASSUME NEW S, NEW x \in S, NEW t \in Seq(S)
  PROVE  /\ <<x>> \o t \in Seq(S) /\ <<x>> \o t # <<>> /\ (<<x>> \o t)[1] = x
         /\ Len(<<x>> \o t) = Len(t) + 1
         /\ \A j \in 1..Len(t) : (<<x>> \o t)[j + 1] = t[j]
OBVIOUS

LEMMA ReplyIncoming ==
  ASSUME TypeOK, stream # <<>>, Incoming.head \in Heads
  PROVE  /\ Incoming \in ReplyType
         /\ AfterHead \in Seq(PacketType)
         /\ HasBody(Incoming.head) => AfterHead # <<>> /\ AfterHead[1].part = "rest"
<1>1. Incoming \in ReplyType
  BY IncomingType DEF PacketType, ReplyType, InfoType, Heads, Plain
<1>2. [Incoming EXCEPT !.part = "rest"] \in PacketType
  BY <1>1 DEF ReplyType, PacketType
<1>3. CASE HasBody(Incoming.head)
  <2>1. AfterHead = <<[Incoming EXCEPT !.part = "rest"]>> \o Tail(stream)
    BY <1>3 DEF AfterHead
  <2>2. [Incoming EXCEPT !.part = "rest"].part = "rest"
    BY <1>1 DEF ReplyType
  <2>3. Tail(stream) \in Seq(PacketType)
    BY IncomingType
  <2>4. /\ AfterHead \in Seq(PacketType) /\ AfterHead # <<>>
        /\ AfterHead[1] = [Incoming EXCEPT !.part = "rest"]
    BY <1>2, <2>1, <2>3, Prepend
  <2>5. QED BY <1>1, <2>2, <2>4
<1>4. CASE ~HasBody(Incoming.head)
  BY <1>1, <1>4, IncomingType DEF AfterHead
<1>5. QED BY <1>3, <1>4

LEMMA SettleType ==
  ASSUME TypeOK, stream # <<>>, Incoming \in ReplyType, NEW r \in Requests,
         NEW tag \in {"ok", "error"}, Settle(r, tag)
  PROVE  /\ outcome' \in [Calls -> OutcomeType]
         /\ reader' = [at |-> "head", slot |-> None]
<1>1. Incoming.of \in Requests
  BY DEF ReplyType
<1>2. Decide(r, tag, Incoming.of) /\ tag \in Tags
  BY DEF Settle, Tags
<1>3. QED BY <1>1, <1>2, DecideType DEF Settle, Waiting

LEMMA HandleType ==
  ASSUME TypeOK, stream # <<>>, Incoming.head \in Heads, NEW r \in Requests, Handle(r)
  PROVE  /\ outcome' \in [Calls -> OutcomeType] /\ stream' \in Seq(PacketType)
         /\ reader' \in {[at |-> "head", slot |-> None], [at |-> "body", slot |-> r]}
         /\ BodyAhead'
<1>1. /\ Incoming \in ReplyType /\ stream' \in Seq(PacketType)
      /\ HasBody(Incoming.head) => stream' # <<>> /\ stream'[1].part = "rest"
  BY ReplyIncoming DEF Handle
<1>2. CASE Incoming.head \notin Accepted(KindOf(r))
  <2>1. Settle(r, "error")
    BY <1>2 DEF Handle
  <2>2. QED BY <1>1, <2>1, SettleType DEF BodyAhead
<1>3. CASE Incoming.head \in Accepted(KindOf(r)) /\ HasBody(Incoming.head)
  <2>1. reader' = [at |-> "body", slot |-> r] /\ outcome' = outcome
    BY <1>3 DEF Handle
  <2>2. QED BY <1>1, <1>3, <2>1 DEF BodyAhead, TypeOK
<1>4. CASE Incoming.head \in Accepted(KindOf(r)) /\ ~HasBody(Incoming.head)
  <2>1. Settle(r, "ok")
    BY <1>4 DEF Handle
  <2>2. QED BY <1>1, <2>1, SettleType DEF BodyAhead
<1>5. QED BY <1>2, <1>3, <1>4

(* However the reader ends, every call it leaves behind has its outcome. *)
LEMMA FinallyBase ==
  ASSUME BaseInv, ReaderFinally, host' \in {"connecting", "open", "leaving", "left"},
         UNCHANGED <<pc, step, handle, lock, pending, link, wire, events, emitted>>,
         stream' \in Seq(PacketType)
  PROVE  BaseInv'
<1>1. TypeOK /\ SlotGuarded
  BY DEF BaseInv
<1>2. /\ reader' = [at |-> "dead", slot |-> None]
      /\ outcome' \in [Calls -> OutcomeType]
      /\ \A c \in Calls : pending = Current(c) => outcome'[c].tag = "closed"
  BY <1>1, FinallyType
<1>3. NoLostWakeup'
  BY <1>1, <1>2 DEF SlotGuarded, NoLostWakeup
<1>4. BodyAhead' /\ reader' \in ReaderType
  BY <1>2 DEF BodyAhead, ReaderType
<1>5. QED BY <1>1, <1>2, <1>3, <1>4, CallersUntouched DEF TypeOK

LEMMA ReadInfoBase == BaseInv /\ ReadInfo => BaseInv'
<1> SUFFICES ASSUME BaseInv, ReadInfo PROVE BaseInv'
  OBVIOUS
<1>1. TypeOK /\ NoLostWakeup /\ reader.at # "body" /\ stream # <<>>
  BY DEF BaseInv, ReadInfo, AtHead
<1>2. stream' \in Seq(PacketType)
  BY <1>1, IncomingType DEF ReadInfo
<1>3. Incoming.head = "event" => Incoming.of[2] \in Nat
  BY <1>1, IncomingType DEF PacketType, ReplyType, InfoType, Heads, Plain
<1>4. events' \in Seq(Nat) /\ Len(events') <= EventBuffer
  <2>1. events \in Seq(Nat) /\ Len(events) <= EventBuffer
    BY <1>1 DEF TypeOK
  <2>2. CASE Incoming.head = "event" /\ Len(events) < EventBuffer
    BY <1>3, <2>1, <2>2, BoundsAssumption DEF ReadInfo
  <2>3. QED BY <2>1, <2>2 DEF ReadInfo
<1>5. NoLostWakeup' /\ BodyAhead'
  BY <1>1 DEF NoLostWakeup, BodyAhead, Closed, ReadInfo
<1>6. QED
  BY <1>1, <1>2, <1>4, <1>5, CallersUntouched DEF TypeOK, ReadInfo

LEMMA ReadReplyBase == BaseInv /\ ReadReply => BaseInv'
<1> SUFFICES ASSUME BaseInv, ReadReply PROVE BaseInv'
  OBVIOUS
<1>1. TypeOK /\ stream # <<>> /\ Incoming.head \in Heads
  BY DEF BaseInv, ReadReply, AtHead
<1>2. CASE pending = None
  BY <1>1, <1>2, FinallyBase DEF ReadReply, ReaderCrashes, TypeOK
<1>3. CASE pending # None
  <2>1. Handle(pending) /\ pending \in Requests
    BY <1>1, <1>3 DEF ReadReply, TypeOK
  <2>2. /\ outcome' \in [Calls -> OutcomeType] /\ stream' \in Seq(PacketType)
        /\ reader' \in {[at |-> "head", slot |-> None], [at |-> "body", slot |-> pending]}
        /\ BodyAhead'
    BY <1>1, <2>1, HandleType
  <2>3. reader' \in ReaderType /\ NoLostWakeup'
    BY <2>1, <2>2 DEF ReaderType, NoLostWakeup, Closed
  <2>4. QED
    BY <1>1, <1>3, <2>2, <2>3, CallersUntouched DEF TypeOK, ReadReply
<1>4. QED BY <1>2, <1>3

LEMMA ReadBodyBase == BaseInv /\ ReadBody => BaseInv'
<1> SUFFICES ASSUME BaseInv, ReadBody PROVE BaseInv'
  OBVIOUS
<1>1. /\ TypeOK /\ stream # <<>> /\ reader \in ReaderType /\ reader.at = "body"
      /\ stream[1].part = "rest"
  BY DEF BaseInv, ReadBody, TypeOK, BodyAhead
<1>2. Incoming \in ReplyType /\ stream' \in Seq(PacketType) /\ reader.slot \in Requests
  BY <1>1, IncomingType DEF PacketType, InfoType, ReaderType, ReadBody
<1>3. CASE Incoming.head = "svcinfo"
  <2>1. reader' = [at |-> "more", slot |-> reader.slot] /\ outcome' = outcome
    BY <1>1, <1>3 DEF ReadBody, ReaderType
  <2>2. reader' \in ReaderType /\ NoLostWakeup' /\ BodyAhead'
    BY <1>2, <2>1 DEF ReaderType, NoLostWakeup, BodyAhead, Closed
  <2>3. QED
    BY <1>1, <1>2, <2>1, <2>2, CallersUntouched DEF TypeOK, ReadBody
<1>4. CASE Incoming.head # "svcinfo"
  <2>1. \E tag \in {"ok", "error"} : Settle(reader.slot, tag)
    BY <1>4 DEF ReadBody
  <2>2. /\ outcome' \in [Calls -> OutcomeType]
        /\ reader' = [at |-> "head", slot |-> None]
    BY <1>1, <1>2, <2>1, SettleType
  <2>3. reader' \in ReaderType /\ NoLostWakeup' /\ BodyAhead'
    BY <2>2 DEF ReaderType, NoLostWakeup, BodyAhead, Closed
  <2>4. QED
    BY <1>1, <1>2, <2>2, <2>3, CallersUntouched DEF TypeOK, ReadBody
<1>5. QED BY <1>3, <1>4

LEMMA ReadMoreBase == BaseInv /\ ReadMore => BaseInv'
<1> SUFFICES ASSUME BaseInv, ReadMore PROVE BaseInv'
  OBVIOUS
<1>1. /\ TypeOK /\ stream # <<>> /\ Incoming.head \in Heads
      /\ reader.at = "more" /\ reader.slot \in Requests
  BY DEF BaseInv, ReadMore, AtHead, TypeOK, ReaderType
<1>2. /\ outcome' \in [Calls -> OutcomeType] /\ stream' \in Seq(PacketType)
      /\ reader' \in {[at |-> "head", slot |-> None], [at |-> "body", slot |-> reader.slot]}
      /\ BodyAhead'
  <2>1. CASE Incoming.head = "listdone"
    <3>1. Settle(reader.slot, "ok") /\ stream' = Tail(stream)
      BY <2>1 DEF ReadMore
    <3>2. QED
      BY <1>1, <3>1, SettleType, ReplyIncoming, IncomingType DEF BodyAhead
  <2>2. CASE Incoming.head # "listdone"
    BY <1>1, <2>2, HandleType DEF ReadMore
  <2>3. QED BY <2>1, <2>2
<1>3. reader' \in ReaderType /\ NoLostWakeup'
  BY <1>1, <1>2 DEF ReaderType, NoLostWakeup, Closed
<1>4. QED
  BY <1>1, <1>2, <1>3, CallersUntouched DEF TypeOK, ReadMore

LEMMA ReadMisalignedBase == BaseInv /\ ReadMisaligned => BaseInv'
<1> SUFFICES ASSUME BaseInv, ReadMisaligned PROVE BaseInv'
  OBVIOUS
<1>1. TypeOK /\ reader \in ReaderType /\ stream \in Seq(PacketType)
  BY DEF BaseInv, TypeOK
<1>2. PICK n \in 0..Len(stream) : stream' = SubSeq(stream, n + 1, Len(stream))
  BY DEF ReadMisaligned
<1>3. stream' \in Seq(PacketType)
  BY <1>1, <1>2
<1>4. CASE ReaderCrashes
  BY <1>1, <1>3, <1>4, FinallyBase DEF ReadMisaligned, ReaderCrashes, TypeOK
<1>5. CASE ~ReaderCrashes
  <2>1. /\ reader' \in ReaderType /\ BodyAhead' /\ NoLostWakeup'
    BY <1>5 DEF ReadMisaligned, ReaderType, BodyAhead, NoLostWakeup, Closed
  <2>2. outcome' \in [Calls -> OutcomeType]
    <3>1. CASE outcome' = outcome
      BY <1>1, <3>1 DEF TypeOK
    <3>2. CASE outcome' # outcome
      <4>1. PICK r \in {pending, reader.slot} \ {None}, tag \in {"error", "garbage"} :
              Decide(r, tag, None)
        BY <1>5, <3>2 DEF ReadMisaligned
      <4>2. r \in Requests
        BY <1>1, <4>1 DEF TypeOK, ReaderType
      <4>3. QED BY <1>1, <4>1, <4>2, DecideType DEF Tags
    <3>3. QED BY <3>1, <3>2
  <2>3. QED
    BY <1>1, <1>3, <1>5, <2>1, <2>2, CallersUntouched DEF TypeOK, ReadMisaligned
<1>6. QED BY <1>4, <1>5

LEMMA ReaderStepBase == BaseInv /\ ReaderStep => BaseInv'
<1> SUFFICES ASSUME BaseInv, ReaderStep PROVE BaseInv'
  OBVIOUS
<1>1. ASSUME ReaderEnds \/ ReaderCancelled PROVE BaseInv'
  BY <1>1, FinallyBase DEF ReaderEnds, ReaderCancelled, BaseInv, TypeOK
<1>2. ASSUME EventRefused PROVE BaseInv'
  <2>1. TypeOK /\ stream # <<>> /\ host \in {"connecting", "open", "leaving", "left"}
    BY <1>2 DEF EventRefused, AtHead, BaseInv, TypeOK
  <2>2. stream' \in Seq(PacketType)
    BY <1>2, <2>1, IncomingType DEF EventRefused
  <2>3. QED BY <1>2, <2>1, <2>2, FinallyBase DEF EventRefused
<1>3. QED
  BY <1>1, <1>2, ReadInfoBase, ReadReplyBase, ReadBodyBase, ReadMoreBase, ReadMisalignedBase
     DEF ReaderStep

LEMMA HostStepBase == BaseInv /\ HostStep => BaseInv'
<1> SUFFICES ASSUME BaseInv, HostStep PROVE BaseInv'
  OBVIOUS
<1>1. TypeOK /\ NoLostWakeup /\ BodyAhead
  BY DEF BaseInv
<1>2. /\ UNCHANGED <<pc, step, handle, lock, pending, outcome, reader, wire, stream,
                     events, emitted>>
      /\ host' \in {"open", "leaving", "left"} /\ link' \in {link, "down"}
  BY DEF HostStep, Negotiated, HostExit, CloseStream
<1>3. NoLostWakeup' /\ BodyAhead'
  BY <1>1, <1>2 DEF NoLostWakeup, BodyAhead, Closed
<1>4. QED BY <1>1, <1>2, <1>3, CallersUntouched DEF TypeOK

LEMMA TakeEventBase == BaseInv /\ TakeEvent => BaseInv'
<1> SUFFICES ASSUME BaseInv, TakeEvent PROVE BaseInv'
  OBVIOUS
<1>1. /\ TypeOK /\ NoLostWakeup /\ BodyAhead
      /\ events \in Seq(Nat) /\ events # <<>> /\ Len(events) <= EventBuffer
  BY DEF BaseInv, TakeEvent, TypeOK
<1>2. Tail(events) \in Seq(Nat) /\ Len(Tail(events)) <= EventBuffer
  BY <1>1, BoundsAssumption
<1>3. NoLostWakeup' /\ BodyAhead'
  BY <1>1 DEF NoLostWakeup, BodyAhead, Closed, TakeEvent
<1>4. QED BY <1>1, <1>2, <1>3, CallersUntouched DEF TypeOK, TakeEvent

(* A packet is taken from one end of the stream and added at the other. *)
LEMMA PacketArrives ==
  ASSUME BaseInv, NEW packet \in PacketType, stream' = Append(stream, packet),
         UNCHANGED <<reader, outcome, pc>>
  PROVE  stream' \in Seq(PacketType) /\ BodyAhead' /\ NoLostWakeup'
<1>1. stream \in Seq(PacketType) /\ BodyAhead /\ NoLostWakeup
  BY DEF BaseInv, TypeOK
<1>2. /\ stream' \in Seq(PacketType) /\ stream' # <<>>
      /\ stream # <<>> => stream'[1] = stream[1]
  BY <1>1
<1>3. QED BY <1>1, <1>2 DEF BodyAhead, NoLostWakeup, Closed

LEMMA CommandTaken ==
  ASSUME TypeOK, wire # <<>>
  PROVE  /\ Head(wire) \in CommandType /\ Tail(wire) \in Seq(CommandType)
         /\ Head(wire) = wire[1] /\ Head(wire).of \in Requests
<1>1. Head(wire) \in CommandType /\ Tail(wire) \in Seq(CommandType) /\ Head(wire) = wire[1]
  BY DEF TypeOK
<1>2. QED BY <1>1 DEF CommandType

LEMMA FinalHeadsAreHeads ==
  ASSUME NEW p \in CommandType, NEW head \in FinalHeads(p)
  PROVE  head \in Heads \ {"svcinfo"}
<1>1. KindOf(p.of) \in Kinds
  BY RequestIsPair DEF CommandType
<1>2. QED BY <1>1 DEF FinalHeads, Accepted, Heads, Kinds, Plain

LEMMA DaemonStepBase == BaseInv /\ DaemonStep => BaseInv'
<1> SUFFICES ASSUME BaseInv, DaemonStep PROVE BaseInv'
  OBVIOUS
<1>1. TypeOK /\ NoLostWakeup /\ BodyAhead
  BY DEF BaseInv
<1>2. CASE Answer
  <2>1. /\ wire # <<>>
        /\ Head(wire) \in CommandType /\ Tail(wire) \in Seq(CommandType)
        /\ Head(wire).of \in Requests
    BY <1>1, <1>2, CommandTaken DEF Answer
  <2>2. wire' \in Seq(CommandType)
    <3>1. CASE wire' = Tail(wire)
      BY <2>1, <3>1
    <3>2. CASE wire' = <<[Head(wire) EXCEPT !.sent = @ + 1]>> \o Tail(wire)
      <4>1. [Head(wire) EXCEPT !.sent = @ + 1] \in CommandType
        BY <2>1 DEF CommandType
      <4>2. QED BY <2>1, <3>2, <4>1, Prepend
    <3>3. QED BY <1>2, <3>1, <3>2 DEF Answer
  <2>3. PICK head \in Heads : stream' = Append(stream, Packet(head, Head(wire).of))
    BY <1>2, <2>1, FinalHeadsAreHeads DEF Answer, Heads
  <2>4. Packet(head, Head(wire).of) \in PacketType
    BY <2>1, <2>3 DEF Packet, PacketType, ReplyType
  <2>5. stream' \in Seq(PacketType) /\ BodyAhead' /\ NoLostWakeup'
    BY <1>2, <2>3, <2>4, PacketArrives DEF Answer
  <2>6. QED
    BY <1>1, <1>2, <2>2, <2>5, CallersUntouched DEF TypeOK, Answer
<1>3. CASE Emit
  <2>1. PICK head \in {"event", "info"} :
          stream' = Append(stream, Packet(head, <<None, emitted'>>))
    BY <1>3 DEF Emit
  <2>2. emitted' \in Nat
    BY <1>1, <1>3 DEF Emit, TypeOK
  <2>3. Packet(head, <<None, emitted'>>) \in PacketType
    BY <2>1, <2>2 DEF Packet, PacketType, InfoType
  <2>4. stream' \in Seq(PacketType) /\ BodyAhead' /\ NoLostWakeup'
    BY <1>3, <2>1, <2>3, PacketArrives DEF Emit
  <2>5. QED
    BY <1>1, <1>3, <2>2, <2>4, CallersUntouched DEF TypeOK, Emit
<1>4. CASE Hangup
  <2>1. NoLostWakeup' /\ BodyAhead'
    BY <1>1, <1>4 DEF NoLostWakeup, BodyAhead, Closed, Hangup
  <2>2. QED BY <1>1, <1>4, <2>1, CallersUntouched DEF TypeOK, Hangup
<1>5. QED BY <1>2, <1>3, <1>4 DEF DaemonStep

LEMMA NextBase == BaseInv /\ [Next]_vars => BaseInv'
<1> SUFFICES ASSUME BaseInv, [Next]_vars PROVE BaseInv'
  OBVIOUS
<1>1. CASE \E c \in Calls : Call(c) \/ CallStep(c) \/ Cancel(c)
  BY <1>1, CallBase, BeginBase, SendBase, ResumeBase, CancelBase DEF CallStep
<1>2. CASE UNCHANGED vars
  <2>1. /\ UNCHANGED <<pc, step, handle, lock, pending, outcome, reader, host, link,
                       wire, stream, events, emitted>>
        /\ TypeOK /\ NoLostWakeup /\ BodyAhead
    BY <1>2 DEF vars, BaseInv
  <2>2. NoLostWakeup' /\ BodyAhead'
    BY <2>1 DEF NoLostWakeup, BodyAhead, Closed
  <2>3. QED BY <2>1, <2>2, CallersUntouched DEF TypeOK
<1>3. QED
  BY <1>1, <1>2, ReaderStepBase, HostStepBase, TakeEventBase, DaemonStepBase DEF Next

(* The type invariant, the guard of the pending slot and the absence of    *)
(* lost wake-ups hold in every state, whatever is cancelled.               *)
THEOREM BaseInvariant == Spec => []BaseInv
<1>1. QED BY InitBase, NextBase, PTL DEF Spec

(* Every variable always has its type; the event stream never holds more   *)
(* than _EVENT_BUFFER events.                                              *)
THEOREM TypeCorrect == Spec => []TypeOK
<1>1. BaseInv => TypeOK
  BY DEF BaseInv
<1>2. QED BY <1>1, BaseInvariant, PTL

(* Whatever calls are cancelled and whenever the reader ends, no call      *)
(* waits for a reader that is gone (client.py:425-430).                    *)
THEOREM NobodyWaitsForever == Spec => []NoLostWakeup
<1>1. BaseInv => NoLostWakeup
  BY DEF BaseInv
<1>2. QED BY <1>1, BaseInvariant, PTL

(* The pending slot always belongs to the call that owns the lock          *)
(* (client.py:363-374).                                                    *)
THEOREM SlotIsTheOwners == Spec => []SlotGuarded
<1>1. BaseInv => SlotGuarded
  BY DEF BaseInv
<1>2. QED BY <1>1, BaseInvariant, PTL

-----------------------------------------------------------------------------
(* The order of events, whatever is cancelled.                             *)

LEMMA NumberOfInfo ==
  ASSUME NEW packet \in PacketType, ~IsReply(packet)
  PROVE  packet \in InfoType /\ packet.of[2] \in Nat
BY DEF PacketType, ReplyType, InfoType, IsReply

(* What every step but an event's own does to the stream: packets go from  *)
(* its front, and the head of the first one left may have been read.       *)
Advances ==
  \E n \in Nat : \A j \in DOMAIN stream' :
    /\ n + j \in DOMAIN stream /\ j \in Nat
    /\ stream'[j].head = stream[n + j].head /\ stream'[j].of = stream[n + j].of

LEMMA UnchangedAdvances ==
  ASSUME TypeOK, stream' = stream
  PROVE  Advances
<1>1. \A j \in DOMAIN stream' : 0 + j \in DOMAIN stream /\ j \in Nat /\ 0 + j = j
  BY DEF TypeOK
<1>2. 0 \in Nat /\ \A j \in DOMAIN stream' : stream'[j] = stream[0 + j]
  BY <1>1
<1>3. QED BY <1>1, <1>2 DEF Advances

LEMMA TailAdvances ==
  ASSUME TypeOK, stream # <<>>, stream' = Tail(stream)
  PROVE  Advances
<1>1. /\ stream \in Seq(PacketType) /\ DOMAIN stream' = 1..(Len(stream) - 1)
      /\ \A j \in DOMAIN stream' : stream'[j] = stream[j + 1]
  BY DEF TypeOK
<1>2. \A j \in DOMAIN stream' : /\ 1 + j \in DOMAIN stream /\ j \in Nat
                                /\ stream'[j] = stream[1 + j]
  BY <1>1
<1>3. 1 \in Nat
  OBVIOUS
<1>4. QED BY <1>2, <1>3 DEF Advances

LEMMA AfterHeadAdvances ==
  ASSUME TypeOK, stream # <<>>, Incoming.head \in Heads, stream' = AfterHead
  PROVE  Advances
<1>1. CASE ~HasBody(Incoming.head)
  BY <1>1, TailAdvances DEF AfterHead
<1>2. CASE HasBody(Incoming.head)
  <2> DEFINE rest == [Incoming EXCEPT !.part = "rest"]
  <2>1. /\ Incoming \in ReplyType /\ Incoming = stream[1]
        /\ Tail(stream) \in Seq(PacketType)
    BY ReplyIncoming, IncomingType
  <2>2. /\ rest \in PacketType /\ rest.head = stream[1].head /\ rest.of = stream[1].of
    BY <2>1 DEF ReplyType, PacketType
  <2>3. stream' = <<rest>> \o Tail(stream)
    BY <1>2 DEF AfterHead
  <2> HIDE DEF rest
  <2>4. /\ stream' \in Seq(PacketType) /\ stream'[1] = rest
        /\ Len(stream') = Len(Tail(stream)) + 1
        /\ \A j \in 1..Len(Tail(stream)) : stream'[j + 1] = Tail(stream)[j]
    BY <2>1, <2>2, <2>3, Prepend
  <2>5. /\ stream \in Seq(PacketType) /\ Len(stream) \in Nat /\ Len(stream) > 0
        /\ Len(Tail(stream)) = Len(stream) - 1
        /\ \A j \in 1..(Len(stream) - 1) : Tail(stream)[j] = stream[j + 1]
    BY DEF TypeOK
  <2>6. ASSUME NEW j \in DOMAIN stream'
        PROVE  /\ 0 + j \in DOMAIN stream /\ j \in Nat
               /\ stream'[j].head = stream[0 + j].head /\ stream'[j].of = stream[0 + j].of
    <3>1. j \in 1..Len(stream) /\ 0 + j = j
      BY <2>4, <2>5
    <3>2. CASE j = 1
      BY <2>2, <2>4, <3>1, <3>2
    <3>3. CASE j # 1
      <4>1. j - 1 \in 1..(Len(stream) - 1) /\ (j - 1) + 1 = j
        BY <2>5, <3>1, <3>3
      <4>2. stream'[j] = stream[j]
        BY <2>4, <2>5, <4>1
      <4>3. QED BY <3>1, <4>2
    <3>4. QED BY <3>2, <3>3
  <2>7. QED BY <2>6 DEF Advances
<1>3. QED BY <1>1, <1>2

LEMMA SuffixAdvances ==
  ASSUME TypeOK, NEW n \in 0..Len(stream), stream' = SubSeq(stream, n + 1, Len(stream))
  PROVE  Advances
<1>1. stream \in Seq(PacketType) /\ n \in Nat /\ Len(stream) \in Nat
  BY DEF TypeOK
<1>2. /\ DOMAIN stream' = 1..(Len(stream) - n)
      /\ \A j \in 1..(Len(stream) - n) : stream'[j] = stream[n + j]
  BY <1>1
<1>3. \A j \in DOMAIN stream' : n + j \in DOMAIN stream /\ j \in Nat
  BY <1>1, <1>2
<1>4. QED BY <1>1, <1>2, <1>3 DEF Advances

(* Such a step keeps the order, if it buffers no event. *)
LEMMA AdvanceKeepsOrder ==
  ASSUME NumberedInOrder, Advances, UNCHANGED emitted,
         \A i \in DOMAIN events' : \E k \in DOMAIN events : events'[i] = events[k]
  PROVE  NumberedInOrder'
<1>1. PICK n \in Nat : \A j \in DOMAIN stream' :
        /\ n + j \in DOMAIN stream /\ j \in Nat
        /\ stream'[j].head = stream[n + j].head /\ stream'[j].of = stream[n + j].of
  BY DEF Advances
<1>2. \A j, k \in Nat : j < k => n + j < n + k
  OBVIOUS
<1>3. \A j \in DOMAIN stream' : IsReply(stream'[j]) = IsReply(stream[n + j])
  BY <1>1 DEF IsReply
<1>4. ASSUME NEW j \in DOMAIN stream', ~IsReply(stream'[j])
      PROVE  /\ stream'[j].of[2] <= emitted
             /\ \A i \in DOMAIN events' : events'[i] < stream'[j].of[2]
             /\ \A k \in DOMAIN stream' : ~IsReply(stream'[k]) /\ j < k
                                            => stream'[j].of[2] < stream'[k].of[2]
  <2>1. /\ n + j \in DOMAIN stream /\ ~IsReply(stream[n + j])
        /\ stream'[j].of = stream[n + j].of
    BY <1>1, <1>3, <1>4
  <2>2. QED BY <1>1, <1>2, <1>3, <2>1 DEF NumberedInOrder
<1>5. \A i \in DOMAIN events' : events'[i] <= emitted'
  BY DEF NumberedInOrder
<1>6. QED BY <1>4, <1>5 DEF NumberedInOrder, IsReply

(* A packet that is sent comes after all that are under way. *)
LEMMA SentKeepsOrder ==
  ASSUME TypeOK, NumberedInOrder, UNCHANGED events, emitted' \in Nat, emitted <= emitted',
         NEW packet \in PacketType, stream' = Append(stream, packet),
         ~IsReply(packet) => packet.of[2] = emitted' /\ emitted < emitted'
  PROVE  NumberedInOrder'
<1> DEFINE last == Len(stream) + 1
<1>1. /\ DOMAIN stream' = 1..last /\ stream'[last] = packet /\ last \in Nat
      /\ DOMAIN stream = 1..(last - 1)
      /\ \A j \in 1..(last - 1) : stream'[j] = stream[j] /\ stream[j] \in PacketType
      /\ emitted \in Nat /\ \A i \in DOMAIN events : events[i] \in Nat
  BY DEF TypeOK
<1> HIDE DEF last
<1>2. \A j \in DOMAIN stream : ~IsReply(stream[j]) => stream[j].of[2] \in Nat
  BY <1>1, NumberOfInfo
<1>3. \A i \in DOMAIN events' : events'[i] <= emitted'
  BY <1>1 DEF NumberedInOrder
<1>4. ASSUME NEW j \in DOMAIN stream', ~IsReply(stream'[j])
      PROVE  /\ stream'[j].of[2] <= emitted'
             /\ \A i \in DOMAIN events : events[i] < stream'[j].of[2]
             /\ \A k \in DOMAIN stream' : ~IsReply(stream'[k]) /\ j < k
                                            => stream'[j].of[2] < stream'[k].of[2]
  <2>1. CASE j = last
    <3>1. packet.of[2] = emitted' /\ emitted < emitted' /\ stream'[j] = packet
      BY <1>1, <1>4, <2>1
    <3>2. \A k \in DOMAIN stream' : ~(j < k)
      BY <1>1, <2>1
    <3>3. \A i \in DOMAIN events : events[i] < emitted'
      BY <1>1, <3>1 DEF NumberedInOrder
    <3>4. QED BY <3>1, <3>2, <3>3
  <2>2. CASE j # last
    <3>1. /\ j \in DOMAIN stream /\ stream'[j] = stream[j] /\ ~IsReply(stream[j])
          /\ stream[j].of[2] \in Nat
      BY <1>1, <1>2, <1>4, <2>2
    <3>2. /\ stream[j].of[2] <= emitted
          /\ \A i \in DOMAIN events : events[i] < stream[j].of[2]
          /\ \A k \in DOMAIN stream : ~IsReply(stream[k]) /\ j < k
                                        => stream[j].of[2] < stream[k].of[2]
      BY <3>1 DEF NumberedInOrder
    <3>3. ASSUME NEW k \in DOMAIN stream', ~IsReply(stream'[k]), j < k
          PROVE  stream[j].of[2] < stream'[k].of[2]
      <4>1. CASE k = last
        <5>1. stream'[k].of[2] = emitted' /\ emitted < emitted'
          BY <1>1, <3>3, <4>1
        <5>2. QED BY <1>1, <3>1, <3>2, <5>1
      <4>2. CASE k # last
        BY <1>1, <3>2, <3>3, <4>2
      <4>3. QED BY <4>1, <4>2
    <3>4. stream[j].of[2] <= emitted'
      BY <1>1, <3>1, <3>2
    <3>5. QED BY <3>1, <3>2, <3>3, <3>4
  <2>3. QED BY <2>1, <2>2
<1>5. QED BY <1>3, <1>4 DEF NumberedInOrder, IsReply

(* What ReadInfo and TakeEvent do to the buffer. *)
LEMMA EventTaken ==
  ASSUME TypeOK, TakeEvent
  PROVE  /\ events # <<>> /\ events' = Tail(events)
         /\ \A i \in DOMAIN events' : \E k \in DOMAIN events : events'[i] = events[k]
<1>1. /\ events \in Seq(Nat) /\ events # <<>> /\ events' = Tail(events)
      /\ \A i \in DOMAIN events' : i + 1 \in DOMAIN events /\ events'[i] = events[i + 1]
  BY DEF TypeOK, TakeEvent
<1>2. QED BY <1>1

LEMMA EventBuffered ==
  ASSUME TypeOK, NumberedInOrder, ReadInfo, events' # events
  PROVE  /\ events \in Seq(Nat) /\ stream # <<>> /\ ~IsReply(stream[1])
         /\ 1 \in DOMAIN stream /\ stream[1].of[2] \in Nat
         /\ events' = Append(events, stream[1].of[2])
         /\ \A i \in DOMAIN events : events[i] < stream[1].of[2]
<1>1. /\ stream # <<>> /\ Incoming \in PacketType /\ Incoming = stream[1]
      /\ Incoming.head = "event" /\ events' = Append(events, Incoming.of[2])
      /\ events \in Seq(Nat)
  BY IncomingType DEF ReadInfo, AtHead, TypeOK
<1>2. ~IsReply(stream[1]) /\ stream[1].of[2] \in Nat
  BY <1>1, NumberOfInfo DEF IsReply, Heads, Plain
<1>3. 1 \in DOMAIN stream
  BY <1>1 DEF TypeOK
<1>4. QED BY <1>1, <1>2, <1>3 DEF NumberedInOrder

LEMMA ReadInfoOrder ==
  ASSUME TypeOK, NumberedInOrder, ReadInfo
  PROVE  NumberedInOrder'
<1>1. /\ stream # <<>> /\ stream' = Tail(stream) /\ UNCHANGED emitted
      /\ stream \in Seq(PacketType) /\ emitted \in Nat
  BY DEF ReadInfo, AtHead, TypeOK
<1>2. CASE events' = events
  BY <1>1, <1>2, TailAdvances, AdvanceKeepsOrder
<1>3. CASE events' # events
  <2> DEFINE number == stream[1].of[2]
  <2>1. /\ events \in Seq(Nat) /\ ~IsReply(stream[1]) /\ 1 \in DOMAIN stream
        /\ number \in Nat /\ events' = Append(events, number)
    BY <1>3, EventBuffered
  <2>2. number <= emitted
    BY <2>1 DEF NumberedInOrder
  <2>3. \A i \in DOMAIN events' : events'[i] = number \/ (i \in DOMAIN events /\ events'[i] = events[i])
    BY <2>1
  <2>4. \A j \in DOMAIN stream' : /\ j + 1 \in DOMAIN stream /\ stream'[j] = stream[j + 1]
                                  /\ 1 < j + 1 /\ j \in Nat
    BY <1>1
  <2>5. \A i \in DOMAIN events' : events'[i] <= emitted
    BY <2>2, <2>3 DEF NumberedInOrder
  <2>6. ASSUME NEW j \in DOMAIN stream', ~IsReply(stream'[j])
        PROVE  /\ stream'[j].of[2] <= emitted
               /\ \A i \in DOMAIN events' : events'[i] < stream'[j].of[2]
               /\ \A k \in DOMAIN stream' : ~IsReply(stream'[k]) /\ j < k
                                              => stream'[j].of[2] < stream'[k].of[2]
    <3>1. /\ j + 1 \in DOMAIN stream /\ stream'[j] = stream[j + 1] /\ ~IsReply(stream[j + 1])
          /\ 1 < j + 1 /\ j \in Nat
      BY <2>4, <2>6
    <3>2. number < stream[j + 1].of[2]
      BY <2>1, <3>1 DEF NumberedInOrder
    <3>3. \A k \in DOMAIN stream' : j < k => j + 1 < k + 1
      BY <2>4
    <3>4. QED BY <2>3, <2>4, <3>1, <3>2, <3>3 DEF NumberedInOrder
  <2>7. QED BY <1>1, <2>5, <2>6 DEF NumberedInOrder, IsReply
<1>4. QED BY <1>2, <1>3

LEMMA ReaderStepOrder ==
  ASSUME BaseInv, NumberedInOrder, ReaderStep
  PROVE  NumberedInOrder'
<1>1. TypeOK /\ BodyAhead
  BY DEF BaseInv
<1>2. CASE ReadInfo
  BY <1>1, <1>2, ReadInfoOrder
<1>3. CASE \/ EventRefused \/ ReadReply \/ ReadBody \/ ReadMore \/ ReadMisaligned
           \/ ReaderEnds \/ ReaderCancelled
  <2>1. UNCHANGED <<events, emitted>>
    BY <1>3 DEF EventRefused, ReadReply, ReadBody, ReadMore, ReadMisaligned, ReaderEnds, ReaderCancelled
  <2>2. CASE ReadReply \/ ReadMore
    <3>1. stream # <<>> /\ Incoming.head \in Heads
      BY <2>2 DEF ReadReply, ReadMore, AtHead
    <3>2. stream' \in {stream, Tail(stream), AfterHead}
      BY <2>2 DEF ReadReply, ReadMore, Handle
    <3>3. QED
      BY <1>1, <2>1, <3>1, <3>2, UnchangedAdvances, TailAdvances, AfterHeadAdvances,
         AdvanceKeepsOrder
  <2>3. CASE ReadBody \/ EventRefused
    BY <1>1, <2>1, <2>3, TailAdvances, AdvanceKeepsOrder DEF ReadBody, EventRefused, AtHead
  <2>4. CASE ReadMisaligned
    BY <1>1, <2>1, <2>4, SuffixAdvances, AdvanceKeepsOrder DEF ReadMisaligned
  <2>5. CASE ReaderEnds \/ ReaderCancelled
    BY <1>1, <2>1, <2>5, UnchangedAdvances, AdvanceKeepsOrder DEF ReaderEnds, ReaderCancelled
  <2>6. QED BY <1>3, <2>2, <2>3, <2>4, <2>5
<1>4. QED BY <1>2, <1>3 DEF ReaderStep

LEMMA DaemonStepOrder ==
  ASSUME BaseInv, NumberedInOrder, DaemonStep
  PROVE  NumberedInOrder'
<1>1. TypeOK /\ emitted \in Nat
  BY DEF BaseInv, TypeOK
<1>2. CASE Answer
  <2>1. Head(wire) \in CommandType /\ Head(wire).of \in Requests
    BY <1>1, <1>2, CommandTaken DEF Answer
  <2>2. PICK head \in Heads : stream' = Append(stream, Packet(head, Head(wire).of))
    BY <1>2, <2>1, FinalHeadsAreHeads DEF Answer, Heads
  <2>3. Packet(head, Head(wire).of) \in PacketType /\ IsReply(Packet(head, Head(wire).of))
    BY <2>1, <2>2 DEF Packet, PacketType, ReplyType, IsReply
  <2>4. QED BY <1>1, <1>2, <2>2, <2>3, SentKeepsOrder DEF Answer
<1>3. CASE Emit
  <2>1. PICK head \in {"event", "info"} :
          stream' = Append(stream, Packet(head, <<None, emitted'>>))
    BY <1>3 DEF Emit
  <2>2. emitted' = emitted + 1 /\ UNCHANGED events
    BY <1>3 DEF Emit
  <2>3. /\ Packet(head, <<None, emitted'>>) \in PacketType
        /\ Packet(head, <<None, emitted'>>).of[2] = emitted'
    BY <1>1, <2>1, <2>2 DEF Packet, PacketType, InfoType
  <2>4. QED BY <1>1, <2>1, <2>2, <2>3, SentKeepsOrder
<1>4. CASE Hangup
  BY <1>1, <1>4, UnchangedAdvances, AdvanceKeepsOrder DEF Hangup
<1>5. QED BY <1>2, <1>3, <1>4 DEF DaemonStep

LEMMA NextOrder == BaseInv /\ NumberedInOrder /\ [Next]_vars => NumberedInOrder'
<1> SUFFICES ASSUME BaseInv, NumberedInOrder, [Next]_vars PROVE NumberedInOrder'
  OBVIOUS
<1>1. TypeOK
  BY DEF BaseInv
<1>2. CASE \/ \E c \in Calls : Call(c) \/ CallStep(c) \/ Cancel(c)
           \/ HostStep \/ UNCHANGED vars
  <2>1. UNCHANGED <<stream, events, emitted>>
    BY <1>2 DEF CallStep, Call, Begin, Send, Resume, Cancel, HostStep, Negotiated, HostExit,
                CloseStream, vars
  <2>2. QED BY <1>1, <2>1, UnchangedAdvances, AdvanceKeepsOrder
<1>3. CASE TakeEvent
  BY <1>1, <1>3, EventTaken, UnchangedAdvances, AdvanceKeepsOrder DEF TakeEvent
<1>4. QED
  BY <1>2, <1>3, ReaderStepOrder, DaemonStepOrder DEF Next

(* However calls are cancelled and wherever the reader loses its place, an *)
(* event leaves the buffer only to the subscriber, and one that is         *)
(* buffered is newer than all before it (client.py:30-33).                 *)
THEOREM EventsInOrder == Spec => EventsKept
<1>1. Init => NumberedInOrder
  BY DEF Init, NumberedInOrder
<1>2. ASSUME BaseInv, NumberedInOrder, [Next]_vars
      PROVE  [ \/ events # <<>> /\ events' = Tail(events)
               \/ /\ Len(events') = Len(events) + 1
                  /\ SubSeq(events', 1, Len(events)) = events
                  /\ \A i \in DOMAIN events : events[i] < events'[Len(events')] ]_events
  <2>1. TypeOK
    BY <1>2 DEF BaseInv
  <2>2. CASE TakeEvent
    BY <2>1, <2>2, EventTaken
  <2>3. CASE ReadInfo /\ events' # events
    <3>1. PICK n \in Nat : /\ events \in Seq(Nat) /\ events' = Append(events, n)
                           /\ \A i \in DOMAIN events : events[i] < n
      BY <1>2, <2>1, <2>3, EventBuffered
    <3>2. /\ Len(events') = Len(events) + 1 /\ events'[Len(events')] = n
          /\ SubSeq(events', 1, Len(events)) = events
      BY <3>1
    <3>3. QED BY <3>1, <3>2
  <2>4. ASSUME ~TakeEvent, ~ReadInfo PROVE UNCHANGED events
    BY <1>2, <2>4
       DEF Next, CallStep, Call, Begin, Send, Resume, Cancel, HostStep, Negotiated, HostExit,
           CloseStream, vars, ReaderStep, EventRefused, ReadReply, ReadBody, ReadMore,
           ReadMisaligned, ReaderEnds, ReaderCancelled, DaemonStep, Answer, Emit, Hangup
  <2>5. QED BY <2>2, <2>3, <2>4
<1>3. QED
  BY <1>1, <1>2, InitBase, NextBase, NextOrder, PTL DEF Spec, EventsKept

-----------------------------------------------------------------------------
(* Without cancellation the commands of a connection are serialised and    *)
(* every reply reaches the call it answers.                                *)

NoCancellation == Cancellable = {}

(* Nothing of any request is on its way. *)
Quiet ==
  /\ wire = <<>>
  /\ \A j \in DOMAIN stream : ~IsReply(stream[j])
  /\ reader.slot = None

Inv == BaseInv /\ SerialInv

LEMMA InitSerial == Init => SerialInv
BY CallsAssumption
   DEF Init, SerialInv, OutcomesOwn, HandlesOwn, RightService, SlotFresh, AllAwaited,
       WellFormed, NoOutcome

(* The facts about one state that the steps below start from. *)
LEMMA Facts ==
  ASSUME Inv
  PROVE  /\ TypeOK /\ SlotGuarded /\ BodyAhead
         /\ OutcomesOwn /\ HandlesOwn /\ RightService
         /\ ~Closed => SlotFresh /\ AllAwaited /\ WellFormed
         /\ wire \in Seq(CommandType) /\ stream \in Seq(PacketType)
         /\ reader \in ReaderType
BY DEF Inv, BaseInv, SerialInv, TypeOK

(* An awaited request is the current one of the call that owns the lock. *)
LEMMA AwaitedIsCurrent ==
  ASSUME Inv, NEW r \in Requests, Awaited(r)
  PROVE  /\ r = Current(r[1]) /\ pending = r /\ r[1] \in Calls
         /\ pc[r[1]] = "waiting" /\ Owner(r[1])
BY Facts, RequestIsPair DEF SlotGuarded, Awaited

LEMMA RequestsUnderWay ==
  ASSUME Inv
  PROVE  /\ \A i \in DOMAIN wire : wire[i].of \in Requests
         /\ \A j \in DOMAIN stream : stream[j] \in PacketType
         /\ \A j \in DOMAIN stream : IsReply(stream[j]) => stream[j].of \in Requests
         /\ reader.slot # None => reader.slot \in Requests
<1>1. \A i \in DOMAIN wire : wire[i] \in CommandType
  BY Facts
<1>2. \A j \in DOMAIN stream : stream[j] \in PacketType
  BY Facts
<1>3. \A x \in PacketType : IsReply(x) => x.of \in Requests
  BY DEF PacketType, ReplyType, InfoType, IsReply, Heads, Plain
<1>4. QED BY <1>1, <1>2, <1>3, Facts DEF CommandType, ReaderType

(* If no call waits for an undecided request, nothing is on its way. *)
LEMMA QuietWhenNobodyWaits ==
  ASSUME Inv, ~Closed,
         \A c \in Calls : pc[c] = "waiting" => outcome[c].tag # "none"
  PROVE  Quiet
<1>1. \A r \in Requests : ~Awaited(r)
  BY RequestIsPair DEF Awaited
<1>2. AllAwaited /\ wire \in Seq(CommandType)
  BY Facts
<1>3. wire = <<>>
  BY <1>1, <1>2, RequestsUnderWay DEF AllAwaited
<1>4. QED BY <1>1, <1>2, <1>3, RequestsUnderWay DEF AllAwaited, Quiet

(* A step that leaves the traffic alone while it is quiet keeps its shape. *)
LEMMA QuietKeepsShape ==
  ASSUME Quiet, WellFormed, UNCHANGED <<wire, stream, reader>>
  PROVE  AllAwaited' /\ WellFormed'
BY DEF Quiet, AllAwaited, WellFormed, IsReply

-----------------------------------------------------------------------------
(* The callers' steps.                                                     *)

LEMMA CallSerial ==
  ASSUME Inv, NEW c \in Calls, Call(c)
  PROVE  SerialInv'
<1>1. /\ pc \in [Calls -> CallStates] /\ pc[c] = "idle"
      /\ pc' = [pc EXCEPT ![c] = "queued"]
      /\ UNCHANGED <<step, handle, pending, outcome, reader, wire, stream>>
  BY Facts DEF TypeOK, Call
<1>2. OutcomesOwn' /\ HandlesOwn' /\ RightService'
  BY <1>1, Facts DEF OutcomesOwn, HandlesOwn, RightService, Current
<1>3. ASSUME ~Closed PROVE SlotFresh' /\ AllAwaited' /\ WellFormed'
  <2>1. SlotFresh /\ AllAwaited /\ WellFormed /\ pending \in Requests \union {None}
    BY <1>3, Facts DEF TypeOK
  <2>2. SlotFresh'
    BY <1>1, <2>1, RequestIsPair DEF SlotFresh
  <2>3. \A r \in Requests : Awaited(r) => Awaited(r)'
    BY <1>1, RequestIsPair DEF Awaited
  <2>4. AllAwaited'
    BY <1>1, <2>1, <2>3, RequestsUnderWay DEF AllAwaited, IsReply
  <2>5. WellFormed'
    BY <1>1, <2>1 DEF WellFormed, IsReply
  <2>6. QED BY <2>2, <2>4, <2>5
<1>4. QED BY <1>1, <1>2, <1>3 DEF SerialInv, Closed

LEMMA BeginSerial ==
  ASSUME Inv, NEW c \in Calls, Begin(c)
  PROVE  SerialInv'
<1>1. /\ pc \in [Calls -> CallStates] /\ pc[c] = "queued" /\ Owner(c)
      /\ UNCHANGED <<step, handle, outcome, reader, wire, stream>>
  BY Facts DEF TypeOK, Begin
<1>2. OutcomesOwn' /\ HandlesOwn' /\ RightService'
  BY <1>1, Facts DEF OutcomesOwn, HandlesOwn, RightService, Current
<1>3. ASSUME ~Closed PROVE SlotFresh' /\ AllAwaited' /\ WellFormed'
  <2>1. SlotFresh /\ WellFormed
    BY <1>3, Facts
  <2>2. Quiet
    BY <1>1, <1>3, QuietWhenNobodyWaits, Facts DEF SlotGuarded, Owner
  <2>3. pc' = [pc EXCEPT ![c] = "sending"] /\ pending' = Current(c)
    BY <1>3 DEF Begin
  <2>4. SlotFresh'
    BY <1>1, <2>1, <2>3 DEF SlotFresh, Current
  <2>5. QED BY <1>1, <2>1, <2>2, <2>4, QuietKeepsShape
<1>4. QED BY <1>1, <1>2, <1>3 DEF SerialInv, Closed

LEMMA SendSerial ==
  ASSUME Inv, NEW c \in Calls, Send(c)
  PROVE  SerialInv'
<1> DEFINE command == [of |-> Current(c), on |-> handle[c], sent |-> 0]
<1>1. /\ pc \in [Calls -> CallStates] /\ pc[c] = "sending"
      /\ Owner(c) /\ pending = Current(c) /\ Current(c) \in Requests
      /\ UNCHANGED <<step, handle, outcome, reader, stream>>
      /\ wire \in Seq(CommandType)
  BY Facts DEF TypeOK, Send, SlotGuarded
<1>2. \A d \in Calls \ {c} : pc[d] \notin {"sending", "waiting"}
  BY <1>1, Facts DEF SlotGuarded, Owner
<1>3. OutcomesOwn' /\ HandlesOwn'
  BY <1>1, Facts DEF OutcomesOwn, HandlesOwn, Current
<1>4. CASE link = "up"
  <2>1. /\ pc' = [pc EXCEPT ![c] = "waiting"] /\ pending' = pending
        /\ wire' = Append(wire, command)
    BY <1>4 DEF Send
  <2>2. /\ Len(wire') = Len(wire) + 1 /\ DOMAIN wire' = 1..(Len(wire) + 1)
        /\ wire'[Len(wire) + 1] = command
        /\ \A i \in 1..Len(wire) : wire'[i] = wire[i]
        /\ Len(wire) \in Nat /\ DOMAIN wire = 1..Len(wire)
    BY <1>1, <2>1
  <2>3. command.on \in {None, Service[command.of[1]]}
    BY Facts DEF HandlesOwn, Current
  <2>4. RightService'
    <3>1. SUFFICES ASSUME NEW i \in 1..(Len(wire) + 1)
                   PROVE  wire'[i].on \in {None, Service[wire'[i].of[1]]}
      BY <2>2 DEF RightService
    <3>2. CASE i = Len(wire) + 1
      BY <2>2, <2>3, <3>2
    <3>3. CASE i \in 1..Len(wire)
      BY <2>2, <3>3, Facts DEF RightService
    <3>4. QED BY <2>2, <3>1, <3>2, <3>3
  <2>5. ASSUME ~Closed PROVE SlotFresh' /\ AllAwaited' /\ WellFormed'
    <3>1. SlotFresh /\ WellFormed
      BY <2>5, Facts
    <3>2. Quiet
      BY <1>1, <1>2, <2>5, QuietWhenNobodyWaits
    <3>3. SlotFresh'
      BY <1>1, <2>1, <3>1 DEF SlotFresh, Current
    <3>4. /\ pending' = Current(c) /\ Current(c)[1] = c
          /\ pc'[c] = "waiting" /\ outcome'[c].tag = "none"
      BY <1>1, <2>1, <3>1 DEF SlotFresh, Current
    <3>5. AllAwaited'
      <4>1. DOMAIN wire' = {1} /\ wire'[1] = command
        BY <2>2, <3>2 DEF Quiet
      <4>2. \A j \in DOMAIN stream' : ~IsReply(stream[j])'
        BY <1>1, <3>2 DEF Quiet, IsReply
      <4>3. reader'.slot = None
        BY <1>1, <3>2 DEF Quiet
      <4>4. wire'[1].of = Current(c)
        BY <4>1
      <4>5. \A i \in DOMAIN wire' : i = 1 /\ Awaited(wire[i].of)'
        BY <3>4, <4>1, <4>4 DEF Awaited
      <4>6. QED BY <4>2, <4>3, <4>5 DEF AllAwaited
    <3>6. WellFormed'
      BY <1>1, <3>1, <3>2 DEF WellFormed, Quiet, IsReply
    <3>7. QED BY <3>3, <3>5, <3>6
  <2>6. QED BY <1>1, <1>3, <2>4, <2>5 DEF SerialInv, Closed
<1>5. CASE link # "up"
  <2>1. /\ pc' = [pc EXCEPT ![c] = "raised"] /\ pending' = None /\ wire' = wire
    BY <1>5 DEF Send
  <2>2. RightService'
    BY <2>1, Facts DEF RightService
  <2>3. ASSUME ~Closed PROVE SlotFresh' /\ AllAwaited' /\ WellFormed'
    <3>1. SlotFresh /\ WellFormed
      BY <2>3, Facts
    <3>2. Quiet
      BY <1>1, <1>2, <2>3, QuietWhenNobodyWaits
    <3>3. SlotFresh'
      BY <1>1, <2>1, <3>1 DEF SlotFresh
    <3>4. QED BY <1>1, <2>1, <3>1, <3>2, <3>3, QuietKeepsShape
  <2>4. QED BY <1>1, <1>3, <2>2, <2>3 DEF SerialInv, Closed
<1>6. QED BY <1>4, <1>5

LEMMA ResumeSerial ==
  ASSUME Inv, NEW c \in Calls, Resume(c)
  PROVE  SerialInv'
<1>1. /\ pc \in [Calls -> CallStates] /\ pc[c] = "waiting" /\ outcome[c].tag # "none"
      /\ Owner(c) /\ pending' = None
      /\ UNCHANGED <<reader, stream, wire>>
      /\ step \in [Calls -> Nat \ {0}] /\ outcome \in [Calls -> OutcomeType]
      /\ handle \in [Calls -> Services \union {None}]
  BY Facts DEF TypeOK, Resume, SlotGuarded
<1>2. \A d \in Calls \ {c} : pc[d] \notin {"sending", "waiting"}
  BY <1>1, Facts DEF SlotGuarded, Owner
<1>3. RightService'
  BY <1>1, Facts DEF RightService
<1>4. HandlesOwn'
  <2>1. CASE outcome[c].tag \in {"error", "closed"}
    BY <2>1, Facts DEF Resume, HandlesOwn
  <2>2. CASE outcome[c].tag \notin {"error", "closed"}
    <3>1. outcome[c].tag = "ok" /\ outcome[c].of = Current(c)
      BY <1>1, <2>2, Facts DEF OutcomesOwn, OutcomeType, Tags
    <3>2. HandleAfter(c) \subseteq {None, Service[c]}
      BY <3>1, Facts DEF HandleAfter, HandlesOwn, Current
    <3>3. PICK h \in HandleAfter(c) : handle' = [handle EXCEPT ![c] = h]
      BY <2>2 DEF Resume
    <3>4. QED BY <1>1, <3>2, <3>3, Facts DEF HandlesOwn
  <2>3. QED BY <2>1, <2>2
<1>5. \/ /\ pc' = [pc EXCEPT ![c] = "raised"] /\ UNCHANGED <<step, outcome>>
      \/ /\ pc' = [pc EXCEPT ![c] = "returned"] /\ UNCHANGED <<step, outcome>>
      \/ /\ pc' = [pc EXCEPT ![c] = "queued"]
         /\ step' = [step EXCEPT ![c] = @ + 1]
         /\ outcome' = [outcome EXCEPT ![c] = NoOutcome]
  BY DEF Resume
<1>6. OutcomesOwn'
  <2>1. CASE UNCHANGED <<step, outcome>>
    BY <2>1, Facts DEF OutcomesOwn, Current
  <2>2. CASE step' = [step EXCEPT ![c] = @ + 1] /\ outcome' = [outcome EXCEPT ![c] = NoOutcome]
    <3>1. \A d \in Calls \ {c} : Current(d)' = Current(d) /\ outcome'[d] = outcome[d]
      BY <1>1, <2>2 DEF Current
    <3>2. outcome'[c].tag = "none"
      BY <1>1, <2>2 DEF NoOutcome
    <3>3. QED BY <3>1, <3>2, Facts DEF OutcomesOwn
  <2>3. QED BY <1>5, <2>1, <2>2
<1>7. ASSUME ~Closed PROVE SlotFresh' /\ AllAwaited' /\ WellFormed'
  <2>1. SlotFresh /\ WellFormed
    BY <1>7, Facts
  <2>2. Quiet
    BY <1>1, <1>2, <1>7, QuietWhenNobodyWaits
  <2>3. SlotFresh'
    BY <1>1, <1>5, <2>1 DEF SlotFresh, NoOutcome
  <2>4. QED BY <1>1, <2>1, <2>2, <2>3, QuietKeepsShape
<1>8. QED BY <1>1, <1>3, <1>4, <1>6, <1>7 DEF SerialInv, Closed

LEMMA CancelSerial ==
  ASSUME Inv, NoCancellation, NEW c \in Calls, Cancel(c)
  PROVE  SerialInv'
<1>1. Closed' /\ UNCHANGED <<step, handle, outcome, wire>>
  BY DEF NoCancellation, Cancel, Closed
<1>2. QED
  BY <1>1, Facts DEF SerialInv, OutcomesOwn, HandlesOwn, RightService, Current

-----------------------------------------------------------------------------
(* The reader's steps.                                                     *)

(* When the reader ends only what the calls hold is left to say. *)
LEMMA EndSerial ==
  ASSUME Inv, ReaderFinally, UNCHANGED <<step, handle, wire>>
  PROVE  SerialInv'
<1>1. /\ Closed'
      /\ \A c \in Calls : outcome'[c] = outcome[c] \/ outcome'[c].tag = "closed"
  BY Facts, FinallyType DEF Closed
<1>2. QED
  BY <1>1, Facts DEF SerialInv, OutcomesOwn, HandlesOwn, RightService, Current

(* The head of the stream is its first packet, and the rest moves up. *)
LEMMA TailShift ==
  ASSUME NEW S, NEW s \in Seq(S), s # <<>>
  PROVE  /\ Head(s) = s[1] /\ 1 \in DOMAIN s
         /\ \A j \in DOMAIN Tail(s) : Tail(s)[j] = s[j + 1] /\ j + 1 \in DOMAIN s
                                        /\ j + 1 > 1 /\ j \in Nat
OBVIOUS

(* A request whose reply comes in is the one awaited. *)
LEMMA IncomingAwaited ==
  ASSUME Inv, ~Closed, stream # <<>>, IsReply(stream[1])
  PROVE  /\ Awaited(stream[1].of) /\ stream[1].of \in Requests
         /\ pending = stream[1].of /\ stream[1].of = Current(stream[1].of[1])
         /\ reader.slot # None => reader.slot = stream[1].of
         /\ Incoming = stream[1] /\ stream[1] \in ReplyType
<1>1. 1 \in DOMAIN stream /\ Incoming = stream[1]
  BY Facts, TailShift DEF Incoming
<1>2. Awaited(stream[1].of) /\ stream[1].of \in Requests
  BY <1>1, Facts, RequestsUnderWay DEF AllAwaited
<1>3. reader.slot # None => Awaited(reader.slot)
  BY Facts DEF AllAwaited
<1>4. stream[1] \in ReplyType
  BY <1>1, RequestsUnderWay DEF IsReply, PacketType, ReplyType, InfoType, Heads, Plain
<1>5. QED BY <1>1, <1>2, <1>3, <1>4, AwaitedIsCurrent DEF Awaited

(* The last packet of a reply decides the request and leaves nothing. *)
LEMMA LastPacket ==
  ASSUME Inv, ~Closed, stream # <<>>, IsReply(stream[1]), stream[1].head # "svcinfo",
         NEW tag \in {"ok", "error"}, Settle(stream[1].of, tag), stream' = Tail(stream),
         UNCHANGED <<pc, step, handle, pending, wire>>
  PROVE  SerialInv'
<1> DEFINE r == stream[1].of
<1>1. /\ r \in Requests /\ r = Current(r[1]) /\ r[1] \in Calls
      /\ pending = r /\ pc[r[1]] = "waiting"
      /\ Incoming.of = r
  BY IncomingAwaited, AwaitedIsCurrent
<1>2. /\ \A c \in Calls : c # r[1] => outcome'[c] = outcome[c]
      /\ outcome'[r[1]] = [tag |-> tag, of |-> r]
  <2>1. tag \in Tags
    BY DEF Tags
  <2>2. Decide(r, tag, r)
    BY <1>1 DEF Settle
  <2>3. TypeOK
    BY Facts
  <2>4. QED BY <1>1, <2>1, <2>2, <2>3, DecideType
<1>3. reader' = [at |-> "head", slot |-> None]
  BY DEF Settle, Waiting
<1>4. SlotFresh /\ WellFormed /\ OutcomesOwn /\ HandlesOwn /\ RightService
      /\ stream \in Seq(PacketType)
  BY Facts
<1>5. OutcomesOwn'
  <2>1. \A c \in Calls : Current(c)' = Current(c)
    BY DEF Current
  <2>2. QED BY <1>1, <1>2, <1>4, <2>1 DEF OutcomesOwn
<1>6. HandlesOwn' /\ RightService'
  BY <1>4 DEF HandlesOwn, RightService
<1>7. SlotFresh'
  BY <1>1, <1>2, <1>4 DEF SlotFresh
<1>8. \A j \in DOMAIN stream' : ~IsReply(stream'[j]) /\ stream'[j].part # "rest"
  <2>1. \A j \in DOMAIN stream' : stream'[j] = stream[j + 1] /\ j + 1 \in DOMAIN stream
                                   /\ j + 1 > 1 /\ j + 1 # 1 /\ 1 \in DOMAIN stream
    BY <1>4, TailShift
  <2>2. QED BY <1>4, <2>1 DEF WellFormed
<1>9. wire' = <<>>
  BY <1>4, TailShift DEF WellFormed
<1>10. AllAwaited' /\ WellFormed'
  BY <1>3, <1>8, <1>9 DEF AllAwaited, WellFormed, IsReply
<1>11. QED BY <1>5, <1>6, <1>7, <1>10 DEF SerialInv

(* A packet goes by that decides nothing. *)
LEMMA PacketGone ==
  ASSUME Inv, ~Closed, stream # <<>>, stream' = Tail(stream),
         reader'.at # "lost", reader'.slot \in {None, reader.slot},
         UNCHANGED <<pc, step, handle, pending, outcome, wire>>
  PROVE  SerialInv'
<1>1. SlotFresh /\ WellFormed /\ AllAwaited /\ OutcomesOwn /\ HandlesOwn /\ RightService
      /\ stream \in Seq(PacketType)
  BY Facts
<1>2. OutcomesOwn' /\ HandlesOwn' /\ RightService' /\ SlotFresh'
  BY <1>1 DEF OutcomesOwn, HandlesOwn, RightService, SlotFresh, Current
<1>3. \A j \in DOMAIN stream' : stream'[j] = stream[j + 1] /\ j + 1 \in DOMAIN stream
                                 /\ j + 1 # 1 /\ j \in Nat
  BY <1>1, TailShift
<1>4. \A r : Awaited(r) => Awaited(r)'
  BY DEF Awaited
<1>5. AllAwaited'
  BY <1>1, <1>3, <1>4 DEF AllAwaited, IsReply
<1>6. WellFormed'
  <2>1. \A j \in DOMAIN stream' : stream'[j].part # "rest"
    BY <1>1, <1>3 DEF WellFormed
  <2>2. \A j \in DOMAIN stream' : IsReply(stream'[j]) /\ HasBody(stream'[j].head)
          => stream'[j].head \in Accepted(KindOf(stream'[j].of))
    BY <1>1, <1>3 DEF WellFormed
  <2>3. ASSUME NEW j \in DOMAIN stream', IsReply(stream'[j]), stream'[j].head # "svcinfo"
        PROVE  wire' = <<>> /\ \A k \in DOMAIN stream' : k > j => ~IsReply(stream'[k])
    <3>1. \A k \in DOMAIN stream' : k > j => k + 1 > j + 1
      BY <1>3, <2>3
    <3>2. QED BY <1>1, <1>3, <2>3, <3>1 DEF WellFormed
  <2>4. QED BY <2>1, <2>2, <2>3 DEF WellFormed, IsReply, HasBody, KindOf
<1>7. QED BY <1>2, <1>5, <1>6 DEF SerialInv

LEMMA ReadInfoSerial ==
  ASSUME Inv, ReadInfo
  PROVE  SerialInv'
<1>1. /\ ~Closed /\ stream # <<>> /\ stream' = Tail(stream) /\ reader.at # "lost"
      /\ UNCHANGED <<pc, step, handle, pending, outcome, wire, reader>>
  BY DEF ReadInfo, AtHead, Closed
<1>2. QED BY <1>1, PacketGone

(* A handler reads a head and asks for the payload. *)
LEMMA PayloadWanted ==
  ASSUME Inv, ~Closed, stream # <<>>, IsReply(stream[1]),
         stream[1].head \in Accepted(KindOf(stream[1].of)), HasBody(stream[1].head),
         stream' = AfterHead, reader' = [at |-> "body", slot |-> stream[1].of],
         UNCHANGED <<pc, step, handle, pending, outcome, wire>>
  PROVE  SerialInv'
<1> DEFINE rest == [stream[1] EXCEPT !.part = "rest"]
<1>1. SlotFresh /\ WellFormed /\ AllAwaited /\ OutcomesOwn /\ HandlesOwn /\ RightService
      /\ stream \in Seq(PacketType)
  BY Facts
<1>2. /\ Awaited(stream[1].of) /\ stream[1] \in ReplyType
      /\ stream' = <<rest>> \o Tail(stream)
  BY IncomingAwaited DEF AfterHead
<1>3. rest \in PacketType /\ rest.head = stream[1].head /\ rest.of = stream[1].of
  BY <1>2 DEF ReplyType, PacketType
<1>4. /\ DOMAIN stream' = DOMAIN stream /\ stream'[1] = rest
      /\ \A j \in DOMAIN stream : j # 1 => stream'[j] = stream[j]
  <2>1. /\ Tail(stream) \in Seq(PacketType) /\ Len(Tail(stream)) = Len(stream) - 1
        /\ \A j \in 1..(Len(stream) - 1) : Tail(stream)[j] = stream[j + 1]
        /\ Len(stream) \in Nat /\ Len(stream) > 0
    BY <1>1
  <2>2. /\ stream' \in Seq(PacketType) /\ Len(stream') = Len(stream) /\ stream'[1] = rest
        /\ \A j \in 1..(Len(stream) - 1) : stream'[j + 1] = stream[j + 1]
    BY <1>2, <1>3, <2>1, Prepend
  <2>3. \A j \in DOMAIN stream : j # 1 => j - 1 \in 1..(Len(stream) - 1) /\ j = (j - 1) + 1
    BY <1>1
  <2>4. QED BY <1>1, <2>2, <2>3
<1>5. /\ \A j \in DOMAIN stream : stream'[j].head = stream[j].head
      /\ \A j \in DOMAIN stream : stream'[j].of = stream[j].of
      /\ \A j \in DOMAIN stream : IsReply(stream'[j]) <=> IsReply(stream[j])
  BY <1>3, <1>4 DEF IsReply
<1>6. OutcomesOwn' /\ HandlesOwn' /\ RightService' /\ SlotFresh'
  BY <1>1 DEF OutcomesOwn, HandlesOwn, RightService, SlotFresh, Current
<1>7. \A r : Awaited(r) => Awaited(r)'
  BY DEF Awaited
<1>8. AllAwaited'
  <2>1. \A j \in DOMAIN stream' : IsReply(stream'[j]) => Awaited(stream[j].of)
    BY <1>1, <1>4, <1>5 DEF AllAwaited
  <2>2. \A j \in DOMAIN stream' : IsReply(stream'[j]) => Awaited(stream[j].of)'
    BY <1>7, <2>1, <1>5, <1>4 DEF Awaited
  <2>3. \A i \in DOMAIN wire' : i = 1 /\ Awaited(wire[i].of)'
    BY <1>1, <1>7 DEF AllAwaited
  <2>4. Awaited(reader.slot)'
    BY <1>2 DEF Awaited
  <2>5. QED BY <2>2, <2>3, <2>4 DEF AllAwaited, IsReply
<1>9. WellFormed'
  <2>1. \A j \in DOMAIN stream' : stream'[j].part = "rest" => j = 1 /\ IsReply(stream'[j])
    BY <1>1, <1>4, <1>5 DEF WellFormed
  <2>2. \A j \in DOMAIN stream' : IsReply(stream'[j]) /\ HasBody(stream'[j].head)
          => stream'[j].head \in Accepted(KindOf(stream'[j].of))
    BY <1>1, <1>4, <1>5 DEF WellFormed
  <2>3. \A j \in DOMAIN stream' : IsReply(stream'[j]) /\ stream'[j].head # "svcinfo"
          => wire' = <<>> /\ \A k \in DOMAIN stream' : k > j => ~IsReply(stream'[k])
    BY <1>1, <1>4, <1>5 DEF WellFormed
  <2>4. QED BY <2>1, <2>2, <2>3 DEF WellFormed, IsReply, HasBody, KindOf
<1>10. QED BY <1>6, <1>8, <1>9 DEF SerialInv

(* A reply head is handled by the handler of the request it answers. *)
LEMMA HandleSerial ==
  ASSUME Inv, ~Closed, stream # <<>>, IsReply(stream[1]), Handle(stream[1].of),
         UNCHANGED <<pc, step, handle, pending, wire>>
  PROVE  SerialInv'
<1> DEFINE r == stream[1].of
<1>1. /\ r \in Requests /\ Incoming = stream[1] /\ WellFormed /\ 1 \in DOMAIN stream
  BY IncomingAwaited, Facts, TailShift
<1>2. HasBody(Incoming.head) => Incoming.head \in Accepted(KindOf(r))
  BY <1>1 DEF WellFormed
<1>3. CASE HasBody(Incoming.head)
  BY <1>1, <1>2, <1>3, PayloadWanted DEF Handle
<1>4. CASE ~HasBody(Incoming.head)
  <2>1. stream[1].head # "svcinfo"
    BY <1>1, <1>4 DEF HasBody
  <2>2. stream' = Tail(stream)
    BY <1>4 DEF Handle, AfterHead
  <2>3. Settle(r, "error") \/ Settle(r, "ok")
    BY <1>4 DEF Handle
  <2>4. QED BY <2>1, <2>2, <2>3, LastPacket
<1>5. QED BY <1>3, <1>4

LEMMA ReadReplySerial ==
  ASSUME Inv, ReadReply
  PROVE  SerialInv'
<1>1. /\ ~Closed /\ stream # <<>> /\ Incoming.head \in Heads
      /\ UNCHANGED <<pc, step, handle, pending, wire>>
  BY DEF ReadReply, AtHead, Closed
<1>2. Incoming = stream[1] /\ IsReply(stream[1])
  BY <1>1, Facts, TailShift DEF Incoming, IsReply
<1>3. CASE pending = None
  BY <1>1, <1>3, EndSerial DEF ReadReply, ReaderCrashes
<1>4. CASE pending # None
  BY <1>1, <1>2, <1>4, IncomingAwaited, HandleSerial DEF ReadReply
<1>5. QED BY <1>3, <1>4

LEMMA ReadMoreSerial ==
  ASSUME Inv, ReadMore
  PROVE  SerialInv'
<1>1. /\ ~Closed /\ stream # <<>> /\ Incoming.head \in Heads /\ reader.at = "more"
      /\ UNCHANGED <<pc, step, handle, pending, wire>>
  BY DEF ReadMore, AtHead, Closed
<1>2. Incoming = stream[1] /\ IsReply(stream[1])
  BY <1>1, Facts, TailShift DEF Incoming, IsReply
<1>3. reader.slot = stream[1].of
  <2>1. reader.slot # None
    BY <1>1, Facts, RequestIsPair DEF ReaderType
  <2>2. QED BY <1>1, <1>2, <2>1, IncomingAwaited
<1>4. CASE Incoming.head = "listdone"
  BY <1>1, <1>2, <1>3, <1>4, LastPacket DEF ReadMore
<1>5. CASE Incoming.head # "listdone"
  BY <1>1, <1>2, <1>3, <1>5, HandleSerial DEF ReadMore
<1>6. QED BY <1>4, <1>5

LEMMA ReadBodySerial ==
  ASSUME Inv, ReadBody
  PROVE  SerialInv'
<1>1. /\ ~Closed /\ stream # <<>> /\ reader.at = "body" /\ stream' = Tail(stream)
      /\ reader \in ReaderType
      /\ UNCHANGED <<pc, step, handle, pending, wire>>
  BY Facts DEF ReadBody, Closed
<1>2. Incoming = stream[1] /\ IsReply(stream[1])
  BY <1>1, Facts, TailShift DEF Incoming, BodyAhead, WellFormed
<1>3. reader.slot = stream[1].of
  <2>1. reader.slot # None
    BY <1>1, RequestIsPair DEF ReaderType
  <2>2. QED BY <1>1, <1>2, <2>1, IncomingAwaited
<1>4. CASE Incoming.head = "svcinfo"
  <2>1. reader'.at = "more" /\ reader'.slot = reader.slot /\ outcome' = outcome
    BY <1>1, <1>4 DEF ReadBody, ReaderType
  <2>2. QED BY <1>1, <2>1, PacketGone
<1>5. CASE Incoming.head # "svcinfo"
  BY <1>1, <1>2, <1>3, <1>5, LastPacket DEF ReadBody
<1>6. QED BY <1>4, <1>5

(* No payload is left in the stream, so the reader never takes one for a head. *)
LEMMA NeverMisaligned ==
  ASSUME Inv
  PROVE  ~ReadMisaligned
<1>1. SUFFICES ASSUME ReadMisaligned PROVE FALSE
  OBVIOUS
<1>2. ~Closed
  BY <1>1 DEF ReadMisaligned, Closed
<1>3. stream # <<>> => Incoming = stream[1] /\ 1 \in DOMAIN stream
  BY Facts, TailShift DEF Incoming
<1>4. QED BY <1>1, <1>2, <1>3, Facts DEF ReadMisaligned, WellFormed

LEMMA ReaderStepSerial ==
  ASSUME Inv, ReaderStep
  PROVE  SerialInv'
<1>1. ASSUME EventRefused \/ ReaderEnds \/ ReaderCancelled PROVE SerialInv'
  BY <1>1, EndSerial DEF EventRefused, ReaderEnds, ReaderCancelled
<1>2. QED
  BY <1>1, ReadInfoSerial, ReadReplySerial, ReadBodySerial, ReadMoreSerial, NeverMisaligned
     DEF ReaderStep

-----------------------------------------------------------------------------
(* The other steps.                                                        *)

LEMMA TrafficUntouched ==
  ASSUME Inv, UNCHANGED <<pc, step, handle, pending, outcome, reader, wire, stream>>
  PROVE  SerialInv'
<1>1. OutcomesOwn' /\ HandlesOwn' /\ RightService'
  BY Facts DEF OutcomesOwn, HandlesOwn, RightService, Current
<1>2. ASSUME ~Closed PROVE SlotFresh' /\ AllAwaited' /\ WellFormed'
  <2>1. SlotFresh' /\ WellFormed'
    BY <1>2, Facts DEF SlotFresh, WellFormed, IsReply
  <2>2. \A r : Awaited(r) => Awaited(r)'
    BY DEF Awaited
  <2>3. AllAwaited'
    BY <1>2, <2>2, Facts DEF AllAwaited, IsReply
  <2>4. QED BY <2>1, <2>3
<1>3. QED BY <1>1, <1>2 DEF SerialInv, Closed

LEMMA Appended ==
  ASSUME NEW S, NEW s \in Seq(S), NEW x
  PROVE  LET t == Append(s, x) IN
         /\ DOMAIN s = 1..Len(s) /\ Len(s) \in Nat /\ DOMAIN t = 1..(Len(s) + 1)
         /\ t[Len(s) + 1] = x
         /\ \A j \in DOMAIN s : t[j] = s[j] /\ j # Len(s) + 1
         /\ \A j \in DOMAIN t : j \in DOMAIN s \/ j = Len(s) + 1
OBVIOUS

LEMMA EmitSerial ==
  ASSUME Inv, Emit
  PROVE  SerialInv'
<1>1. PICK head \in {"event", "info"} :
        stream' = Append(stream, Packet(head, <<None, emitted'>>))
  BY DEF Emit
<1>2. UNCHANGED <<pc, step, handle, pending, outcome, reader, wire>>
  BY DEF Emit
<1> DEFINE packet == Packet(head, <<None, emitted'>>)
<1>3. packet.head \notin Heads /\ packet.part = "whole"
  BY DEF Packet, Heads, Plain
<1>4. OutcomesOwn' /\ HandlesOwn' /\ RightService'
  BY <1>2, Facts DEF OutcomesOwn, HandlesOwn, RightService, Current
<1>5. ASSUME ~Closed PROVE SlotFresh' /\ AllAwaited' /\ WellFormed'
  <2>1. SlotFresh /\ AllAwaited /\ WellFormed /\ stream \in Seq(PacketType)
    BY <1>5, Facts
  <2>2. /\ \A j \in DOMAIN stream' : IsReply(stream'[j]) => j \in DOMAIN stream
        /\ \A j \in DOMAIN stream' : stream'[j].part = "rest" => j \in DOMAIN stream
        /\ \A j \in DOMAIN stream : stream'[j] = stream[j]
    <3>1. /\ \A j \in DOMAIN stream' : j \in DOMAIN stream \/ stream'[j] = packet
          /\ \A j \in DOMAIN stream : stream'[j] = stream[j]
      BY <1>1, <2>1, Appended
    <3>2. QED BY <1>3, <3>1 DEF IsReply
  <2>3. SlotFresh'
    BY <1>2, <2>1 DEF SlotFresh
  <2>4. \A r : Awaited(r) => Awaited(r)'
    BY <1>2 DEF Awaited
  <2>5. AllAwaited'
    <3>1. \A j \in DOMAIN stream' : IsReply(stream'[j]) => Awaited(stream'[j].of)
      BY <2>1, <2>2 DEF AllAwaited
    <3>2. \A j \in DOMAIN stream' : IsReply(stream'[j]) => Awaited(stream[j].of)'
      BY <1>2, <3>1 DEF Awaited
    <3>3. QED BY <1>2, <2>1, <2>4, <3>2 DEF AllAwaited, IsReply
  <2>6. WellFormed'
    <3>1. \A j \in DOMAIN stream' : stream'[j].part = "rest"
            => j = 1 /\ reader.at = "body" /\ IsReply(stream'[j])
      BY <2>1, <2>2 DEF WellFormed
    <3>2. \A j \in DOMAIN stream' : IsReply(stream'[j]) /\ HasBody(stream'[j].head)
            => stream'[j].head \in Accepted(KindOf(stream'[j].of))
      BY <2>1, <2>2 DEF WellFormed
    <3>3. \A j \in DOMAIN stream' : IsReply(stream'[j]) /\ stream'[j].head # "svcinfo"
            => wire = <<>> /\ \A k \in DOMAIN stream' : k > j => ~IsReply(stream'[k])
      BY <2>1, <2>2 DEF WellFormed
    <3>4. QED BY <1>2, <2>1, <3>1, <3>2, <3>3 DEF WellFormed, IsReply, HasBody, KindOf
  <2>7. QED BY <2>3, <2>5, <2>6
<1>6. QED BY <1>2, <1>4, <1>5 DEF SerialInv, Closed

(* The daemon adds a packet to its answer, or ends it. *)
LEMMA AnswerSerial ==
  ASSUME Inv, Answer
  PROVE  SerialInv'
<1> DEFINE p == Head(wire)
<1>1. /\ UNCHANGED <<pc, step, handle, pending, outcome, reader>> /\ wire # <<>>
      /\ wire \in Seq(CommandType) /\ p \in CommandType /\ p.of \in Requests
      /\ p = wire[1] /\ 1 \in DOMAIN wire
  BY Facts, CommandTaken DEF Answer
<1>2. OutcomesOwn' /\ HandlesOwn'
  BY <1>1, Facts DEF OutcomesOwn, HandlesOwn, Current
<1> DEFINE more == [p EXCEPT !.sent = @ + 1]
<1>3. more.of = p.of /\ more.on = p.on /\ more \in CommandType
  BY <1>1 DEF CommandType
<1>4. PICK head \in Heads :
        /\ stream' = Append(stream, Packet(head, p.of))
        /\ HasBody(head) => head \in Accepted(KindOf(p.of))
        /\ \/ head = "svcinfo" /\ wire' = <<more>> \o Tail(wire)
           \/ wire' = Tail(wire) /\ head \in FinalHeads(p)
  <2>1. CASE /\ KindOf(p.of) = "list" /\ stream' = Append(stream, Packet("svcinfo", p.of))
             /\ wire' = <<more>> \o Tail(wire)
    BY <2>1 DEF Heads, Accepted
  <2>2. CASE \E head \in FinalHeads(p) :
               stream' = Append(stream, Packet(head, p.of)) /\ wire' = Tail(wire)
    <3>1. PICK head \in FinalHeads(p) :
               stream' = Append(stream, Packet(head, p.of)) /\ wire' = Tail(wire)
      BY <2>2
    <3>2. head \in Heads
      BY <1>1, <3>1, FinalHeadsAreHeads
    <3>3. HasBody(head) => head \in Accepted(KindOf(p.of))
      BY <3>1 DEF FinalHeads, HasBody, Plain
    <3>4. QED BY <3>1, <3>2, <3>3
  <2>3. QED BY <2>1, <2>2 DEF Answer
<1>5. \/ DOMAIN wire' = DOMAIN wire /\ wire'[1] = more
          /\ \A i \in DOMAIN wire : i # 1 => wire'[i] = wire[i]
      \/ \A i \in DOMAIN wire' : wire'[i] = wire[i + 1] /\ i + 1 \in DOMAIN wire
                                    /\ i + 1 # 1
  <2>1. CASE wire' = Tail(wire)
    BY <1>1, <2>1, TailShift
  <2>2. CASE wire' = <<more>> \o Tail(wire)
    <3>1. /\ Tail(wire) \in Seq(CommandType) /\ Len(Tail(wire)) = Len(wire) - 1
          /\ \A j \in 1..(Len(wire) - 1) : Tail(wire)[j] = wire[j + 1]
          /\ Len(wire) \in Nat /\ Len(wire) > 0
      BY <1>1
    <3>2. /\ wire' \in Seq(CommandType) /\ Len(wire') = Len(wire) /\ wire'[1] = more
          /\ \A j \in 1..(Len(wire) - 1) : wire'[j + 1] = wire[j + 1]
      BY <1>3, <2>2, <3>1, Prepend
    <3>3. \A j \in DOMAIN wire : j # 1 => j - 1 \in 1..(Len(wire) - 1) /\ j = (j - 1) + 1
      BY <1>1
    <3>4. QED BY <1>1, <3>1, <3>2, <3>3
  <2>3. QED BY <1>4, <2>1, <2>2
<1>6. RightService'
  <2>1. RightService
    BY Facts
  <2>2. more.on \in {None, Service[more.of[1]]}
    BY <1>1, <1>3, <2>1 DEF RightService
  <2>3. QED BY <1>5, <2>1, <2>2 DEF RightService
<1>7. ASSUME ~Closed PROVE SlotFresh' /\ AllAwaited' /\ WellFormed'
  <2>1. SlotFresh /\ AllAwaited /\ WellFormed /\ stream \in Seq(PacketType)
    BY <1>7, Facts
  <2>2. DOMAIN wire = {1} /\ Awaited(p.of)
    BY <1>1, <2>1 DEF AllAwaited
  <2>3. /\ \A j \in DOMAIN stream' : j \in DOMAIN stream \/ j = Len(stream) + 1
        /\ \A j \in DOMAIN stream : stream'[j] = stream[j] /\ j < Len(stream) + 1 /\ j \in Nat
        /\ stream'[Len(stream) + 1] = Packet(head, p.of) /\ Len(stream) \in Nat
    BY <1>4, <2>1, Appended
  <2>4. Packet(head, p.of).head = head /\ Packet(head, p.of).of = p.of
        /\ Packet(head, p.of).part = "whole"
    BY DEF Packet
  <2>5. SlotFresh'
    BY <1>1, <2>1 DEF SlotFresh
  <2>6. \A r : Awaited(r) => pending' = r /\ pc'[r[1]] = "waiting"
                                /\ outcome'[r[1]].tag = "none"
    BY <1>1 DEF Awaited
  <2>7. AllAwaited'
    <3>1. \A i \in DOMAIN wire' : i = 1 /\ wire'[i].of = p.of
      BY <1>1, <1>3, <1>5, <2>2
    <3>2. \A j \in DOMAIN stream' : IsReply(stream'[j]) => Awaited(stream'[j].of)
      BY <2>1, <2>2, <2>3, <2>4 DEF AllAwaited
    <3>3. reader'.slot # None => Awaited(reader'.slot)
      BY <1>1, <2>1 DEF AllAwaited
    <3>4. QED BY <2>2, <2>6, <3>1, <3>2, <3>3 DEF AllAwaited, IsReply, Awaited
  <2>8. \A j \in DOMAIN stream : IsReply(stream[j]) => stream[j].head = "svcinfo"
    BY <1>1, <2>1 DEF WellFormed
  <2>9. WellFormed'
    <3>1. \A j \in DOMAIN stream' : stream'[j].part = "rest"
            => j = 1 /\ reader.at = "body" /\ IsReply(stream'[j])
      BY <2>1, <2>3, <2>4 DEF WellFormed
    <3>2. \A j \in DOMAIN stream' : IsReply(stream'[j]) /\ HasBody(stream'[j].head)
            => stream'[j].head \in Accepted(KindOf(stream'[j].of))
      BY <1>4, <2>1, <2>3, <2>4 DEF WellFormed
    <3>3. ASSUME NEW j \in DOMAIN stream', IsReply(stream'[j]), stream'[j].head # "svcinfo"
          PROVE  wire' = <<>> /\ \A k \in DOMAIN stream' : k > j => ~IsReply(stream'[k])
      <4>1. j = Len(stream) + 1 /\ head # "svcinfo"
        BY <2>3, <2>4, <2>8, <3>3
      <4>2. \A k \in DOMAIN stream' : ~(k > j)
        BY <2>3, <4>1
      <4>3. wire' = <<>>
        BY <1>1, <1>4, <2>2, <4>1
      <4>4. QED BY <4>2, <4>3
    <3>4. QED BY <1>1, <2>1, <3>1, <3>2, <3>3 DEF WellFormed, IsReply, HasBody, KindOf
  <2>10. QED BY <2>5, <2>7, <2>9
<1>8. QED BY <1>1, <1>2, <1>6, <1>7 DEF SerialInv, Closed

LEMMA NextSerial == Inv /\ NoCancellation /\ [Next]_vars => Inv'
<1> SUFFICES ASSUME Inv, NoCancellation, [Next]_vars PROVE SerialInv'
  BY NextBase DEF Inv
<1>1. CASE \E c \in Calls : Call(c) \/ CallStep(c) \/ Cancel(c)
  BY <1>1, CallSerial, BeginSerial, SendSerial, ResumeSerial, CancelSerial DEF CallStep
<1>2. CASE ReaderStep
  BY <1>2, ReaderStepSerial
<1>3. CASE HostStep \/ TakeEvent \/ Hangup \/ UNCHANGED vars
  BY <1>3, TrafficUntouched
     DEF HostStep, Negotiated, HostExit, CloseStream, TakeEvent, Hangup, vars
<1>4. CASE Answer \/ Emit
  BY <1>4, AnswerSerial, EmitSerial
<1>5. QED BY <1>1, <1>2, <1>3, <1>4 DEF Next, DaemonStep

(* Without cancellation the strengthened invariant holds in every state. *)
THEOREM SerialInvariant ==
  ASSUME NoCancellation
  PROVE  Spec => []Inv
<1>1. Init => Inv
  BY InitBase, InitSerial DEF Inv
<1>2. Inv /\ [Next]_vars => Inv'
  BY NextSerial
<1>3. QED BY <1>1, <1>2, PTL DEF Spec

(* In every state nothing is under way but what the waiting caller asked   *)
(* for, the packets are the rest of one reply, and outcomes and handles    *)
(* are the caller's own (client.py:363-374, 417-418).                      *)
THEOREM OneReplyAtATime ==
  ASSUME NoCancellation
  PROVE  Spec => []SerialInv
<1>1. Inv => SerialInv
  BY DEF Inv
<1>2. QED BY <1>1, SerialInvariant, PTL

(* Every reply or rejection that a call sees was sent for that call's own  *)
(* current request (client.py:3-6).                                        *)
THEOREM RepliesMatch ==
  ASSUME NoCancellation
  PROVE  Spec => []ReplyMatches
<1>1. Inv => ReplyMatches
  BY Facts DEF ReplyMatches, OutcomesOwn
<1>2. QED BY <1>1, SerialInvariant, PTL

(* Every command that reaches the daemon acts on the service its call      *)
(* names (client.py:220-300).                                              *)
THEOREM CommandsHitTheirService ==
  ASSUME NoCancellation
  PROVE  Spec => []RightService
<1>1. Inv => RightService
  BY Facts
<1>2. QED BY <1>1, SerialInvariant, PTL

(* The reader always meets a reply head where it looks for one, with the   *)
(* command pending that the reply is for (client.py:417-418).              *)
THEOREM ReaderAligned ==
  ASSUME NoCancellation
  PROVE  Spec => []StaysAligned
<1>1. ASSUME Inv PROVE StaysAligned
  <2>1. CASE Closed
    BY <2>1 DEF StaysAligned, Closed, AtHead
  <2>2. CASE ~Closed
    <3>1. stream # <<>> => Incoming = stream[1] /\ 1 \in DOMAIN stream
                           /\ stream[1] \in PacketType
      BY <1>1, Facts, TailShift DEF Incoming
    <3>2. \A x \in PacketType : x.part \in {"whole", "rest"}
      BY DEF PacketType, ReplyType, InfoType
    <3>3. stream # <<>> /\ IsReply(stream[1]) => pending # None
      BY <1>1, <2>2, IncomingAwaited, RequestIsPair
    <3>4. QED
      BY <1>1, <2>2, <3>1, <3>2, <3>3, Facts DEF StaysAligned, WellFormed, IsReply, AtHead
  <2>3. QED BY <2>1, <2>2
<1>2. QED BY <1>1, SerialInvariant, PTL

(* While anything of a request is under way, nothing of another one is,    *)
(* and its caller waits for it with the lock held (client.py:363-374).     *)
THEOREM Serialised ==
  ASSUME NoCancellation
  PROVE  Spec => []OneInFlight
<1>1. ASSUME Inv, ~Closed, NEW r \in Outstanding
      PROVE  /\ Outstanding = {r} /\ pending = r
             /\ pc[r[1]] = "waiting" /\ Owner(r[1])
  <2>1. \A q \in Outstanding : q \in Requests /\ Awaited(q)
    BY <1>1, Facts, RequestsUnderWay DEF Outstanding, AllAwaited, IsReply
  <2>2. \A q \in Outstanding : q = r
    BY <1>1, <2>1 DEF Awaited
  <2>3. QED BY <1>1, <2>1, <2>2, AwaitedIsCurrent
<1>2. Inv => OneInFlight
  BY <1>1 DEF OneInFlight
<1>3. QED BY <1>2, SerialInvariant, PTL

-----------------------------------------------------------------------------
(* Without cancellation the connection implements SerialCommands.          *)

(* How a call's outcome and the end of the reader go together: nothing is  *)
(* decided before the call sends but the end of the connection, and once   *)
(* the reader is gone every call that is left has failed.                  *)
Endings ==
  /\ \A c \in Calls : pc[c] \in {"idle", "queued"} => outcome[c].tag = "none"
  /\ \A c \in Calls : pc[c] = "sending" => outcome[c].tag \in {"none", "closed"}
  /\ Closed => \A c \in Calls : pc[c] \in {"sending", "waiting"} => outcome[c].tag = "closed"
  /\ \A c \in Calls : outcome[c].tag = "closed" => Closed

RefInv == Inv /\ Endings

(* What one step of the reader does to the calls. *)
LEMMA ReaderShape ==
  ASSUME Inv, ReaderStep
  PROVE  /\ ~Closed /\ UNCHANGED <<pc, step>>
         /\ \/ ReaderFinally
            \/ ~Closed' /\ outcome' = outcome
            \/ ~Closed' /\ \E r \in Requests, tag \in {"ok", "error"} : Awaited(r) /\ Settle(r, tag)
<1>1. ~ReadMisaligned
  BY NeverMisaligned
<1>2. CASE EventRefused \/ ReaderEnds \/ ReaderCancelled
  BY <1>2 DEF EventRefused, AtHead, ReaderEnds, ReaderCancelled, Closed
<1>3. CASE ReadInfo
  BY <1>3 DEF ReadInfo, AtHead, Closed
<1>4. ASSUME NEW r \in Requests, Awaited(r), stream # <<>>, Handle(r)
      PROVE  ~Closed' /\ (outcome' = outcome
                          \/ \E tag \in {"ok", "error"} : Settle(r, tag))
  BY <1>4 DEF Handle, Settle, Waiting, Closed
<1>5. CASE ReadReply
  <2>1. /\ ~Closed /\ stream # <<>> /\ Incoming.head \in Heads /\ UNCHANGED <<pc, step>>
    BY <1>5 DEF ReadReply, AtHead, Closed
  <2>2. Incoming = stream[1] /\ IsReply(stream[1])
    BY <2>1, Facts, TailShift DEF Incoming, IsReply
  <2>3. CASE pending = None
    BY <1>5, <2>1, <2>3 DEF ReadReply, ReaderCrashes
  <2>4. CASE pending # None
    <3>1. Handle(pending) /\ Awaited(pending) /\ pending \in Requests
      BY <1>5, <2>1, <2>2, <2>4, IncomingAwaited DEF ReadReply
    <3>2. QED BY <1>4, <2>1, <3>1
  <2>5. QED BY <2>3, <2>4
<1>6. ASSUME reader.slot # None, ~Closed
      PROVE  reader.slot \in Requests /\ Awaited(reader.slot)
  BY <1>6, Facts, RequestsUnderWay DEF AllAwaited
<1>7. CASE ReadBody
  <2>1. /\ ~Closed /\ stream # <<>> /\ reader.at = "body" /\ UNCHANGED <<pc, step>>
        /\ reader \in ReaderType
    BY <1>7, Facts DEF ReadBody, Closed
  <2>2. reader.slot \in Requests /\ Awaited(reader.slot)
    BY <1>6, <2>1, RequestIsPair DEF ReaderType
  <2>3. CASE Incoming.head = "svcinfo"
    BY <1>7, <2>1, <2>3 DEF ReadBody, ReaderType, Closed
  <2>4. CASE Incoming.head # "svcinfo"
    <3>1. \E tag \in {"ok", "error"} : Settle(reader.slot, tag)
      BY <1>7, <2>4 DEF ReadBody
    <3>2. ~Closed'
      BY <3>1 DEF Settle, Waiting, Closed
    <3>3. QED BY <2>1, <2>2, <3>1, <3>2
  <2>5. QED BY <2>3, <2>4
<1>8. CASE ReadMore
  <2>1. /\ ~Closed /\ stream # <<>> /\ reader.at = "more" /\ UNCHANGED <<pc, step>>
        /\ reader \in ReaderType
    BY <1>8, Facts DEF ReadMore, AtHead, Closed
  <2>2. reader.slot \in Requests /\ Awaited(reader.slot)
    BY <1>6, <2>1, RequestIsPair DEF ReaderType
  <2>3. CASE Incoming.head = "listdone"
    <3>1. Settle(reader.slot, "ok")
      BY <1>8, <2>3 DEF ReadMore
    <3>2. ~Closed'
      BY <3>1 DEF Settle, Waiting, Closed
    <3>3. QED BY <2>1, <2>2, <3>1, <3>2
  <2>4. CASE Incoming.head # "listdone"
    <3>1. Handle(reader.slot)
      BY <1>8, <2>4 DEF ReadMore
    <3>2. QED BY <1>4, <2>1, <2>2, <3>1
  <2>5. QED BY <2>3, <2>4
<1>9. QED BY <1>1, <1>2, <1>3, <1>5, <1>7, <1>8 DEF ReaderStep

(* The end of the reader fails the call whose _Pending is installed, and   *)
(* no call that has ended or has yet to begin.                             *)
LEMMA EndShape ==
  ASSUME Inv, ~Closed, ReaderFinally
  PROVE  /\ Closed'
         /\ \A c \in Calls : pc[c] \notin {"sending", "waiting"} => outcome'[c] = outcome[c]
         /\ \A c \in Calls : pc[c] \in {"sending", "waiting"} => outcome'[c].tag = "closed"
<1>1. TypeOK /\ SlotGuarded /\ SlotFresh
  BY Facts
<1>2. Closed' /\ \A c \in Calls : pending = Current(c) => outcome'[c].tag = "closed"
  BY <1>1, FinallyType DEF Closed
<1>3. \A c \in Calls : pc[c] \in {"sending", "waiting"} => outcome'[c].tag = "closed"
  BY <1>1, <1>2 DEF SlotGuarded
<1>4. ASSUME NEW c \in Calls, pc[c] \notin {"sending", "waiting"}
      PROVE  outcome'[c] = outcome[c]
  <2>1. CASE pending = None
    BY <2>1 DEF ReaderFinally
  <2>2. CASE pending # None
    <3>1. pending \in Requests /\ pending[1] # c /\ Decide(pending, "closed", None)
      BY <1>1, <1>4, <2>2 DEF ReaderFinally, SlotFresh, TypeOK
    <3>2. "closed" \in Tags
      BY DEF Tags
    <3>3. QED BY <1>1, <3>1, <3>2, DecideType
  <2>3. QED BY <2>1, <2>2
<1>5. QED BY <1>2, <1>3, <1>4

(* A reader step that does not end the reader changes the outcome of a     *)
(* call that waits, and of no other.                                       *)
LEMMA SettleShape ==
  ASSUME Inv, NEW r \in Requests, NEW tag \in {"ok", "error"}, Awaited(r),
         Settle(r, tag)
  PROVE  /\ \A c \in Calls : pc[c] # "waiting" => outcome'[c] = outcome[c]
         /\ \A c \in Calls : outcome'[c] = outcome[c] \/ outcome'[c].tag = tag
<1>1. /\ r = Current(r[1]) /\ r[1] \in Calls /\ pc[r[1]] = "waiting"
      /\ outcome \in [Calls -> OutcomeType]
  BY Facts, AwaitedIsCurrent DEF TypeOK
<1>2. outcome' = [outcome EXCEPT ![r[1]] = [tag |-> tag, of |-> Incoming.of]]
  BY <1>1 DEF Settle, Decide
<1>3. QED BY <1>1, <1>2

-----------------------------------------------------------------------------
(* Every step keeps Endings.                                               *)

LEMMA ReaderEndings ==
  ASSUME Inv, Endings, ReaderStep
  PROVE  Endings'
<1>1. ~Closed /\ UNCHANGED <<pc, step>>
  BY ReaderShape
<1>2. \A c \in Calls : outcome[c].tag # "closed"
  BY <1>1 DEF Endings
<1>3. CASE ReaderFinally
  BY <1>1, <1>3, EndShape DEF Endings
<1>4. CASE ~Closed' /\ outcome' = outcome
  BY <1>1, <1>4 DEF Endings
<1>5. CASE ~Closed' /\ \E r \in Requests, tag \in {"ok", "error"} : Awaited(r) /\ Settle(r, tag)
  BY <1>1, <1>2, <1>5, SettleShape DEF Endings
<1>6. QED BY <1>3, <1>4, <1>5, ReaderShape

LEMMA CallEndings ==
  ASSUME Inv, Endings, NoCancellation, NEW c \in Calls, Call(c) \/ CallStep(c) \/ Cancel(c)
  PROVE  Endings'
<1>1. pc \in [Calls -> CallStates] /\ outcome \in [Calls -> OutcomeType]
  BY Facts DEF TypeOK
<1>2. CASE Call(c)
  BY <1>1, <1>2 DEF Call, Endings, Closed
<1>3. CASE Begin(c)
  BY <1>1, <1>3 DEF Begin, Endings, Closed
<1>4. CASE Send(c)
  BY <1>1, <1>4 DEF Send, Endings, Closed
<1>5. CASE Resume(c)
  <2>1. \/ /\ pc' \in {[pc EXCEPT ![c] = "raised"], [pc EXCEPT ![c] = "returned"]}
           /\ outcome' = outcome
        \/ /\ pc' = [pc EXCEPT ![c] = "queued"]
           /\ outcome' = [outcome EXCEPT ![c] = NoOutcome]
    BY <1>5 DEF Resume
  <2>2. reader' = reader
    BY <1>5 DEF Resume
  <2>3. QED BY <1>1, <2>1, <2>2 DEF Endings, Closed, NoOutcome
<1>6. CASE Cancel(c)
  BY <1>1, <1>6 DEF Cancel, Endings, Closed
<1>7. QED BY <1>2, <1>3, <1>4, <1>5, <1>6 DEF CallStep

LEMMA NextRefInv == RefInv /\ NoCancellation /\ [Next]_vars => RefInv'
<1> SUFFICES ASSUME Inv, Endings, NoCancellation, [Next]_vars PROVE Endings'
  BY NextSerial DEF RefInv
<1>1. CASE \E c \in Calls : Call(c) \/ CallStep(c) \/ Cancel(c)
  BY <1>1, CallEndings
<1>2. CASE ReaderStep
  BY <1>2, ReaderEndings
<1>3. CASE HostStep \/ TakeEvent \/ DaemonStep \/ UNCHANGED vars
  <2>1. UNCHANGED <<pc, outcome, reader>>
    BY <1>3 DEF HostStep, Negotiated, HostExit, CloseStream, TakeEvent, DaemonStep, Answer,
                Emit, Hangup, vars
  <2>2. QED BY <2>1 DEF Endings, Closed
<1>4. QED BY <1>1, <1>2, <1>3 DEF Next

-----------------------------------------------------------------------------
(* What the abstract channel sees of a step.                               *)

Unseen == InFlight' = InFlight /\ Delivered' = Delivered /\ Closed' = Closed

(* Only the owner of the lock waits for a reply. *)
LEMMA OneWaits ==
  ASSUME Inv, NEW c \in Calls, Owner(c)
  PROVE  \A d \in Calls \ {c} : pc[d] \notin {"sending", "waiting"}
BY Facts DEF SlotGuarded, Owner

LEMMA InFlightIs ==
  ASSUME NEW c \in Calls, \A d \in Calls \ {c} : pc[d] # "waiting"
  PROVE  /\ pc[c] = "waiting" => InFlight = Current(c)
         /\ pc[c] # "waiting" => InFlight = None
<1>1. CASE pc[c] = "waiting"
  <2>1. AwaitingReply = {c}
    BY <1>1 DEF AwaitingReply
  <2>2. QED BY <1>1, <2>1 DEF InFlight
<1>2. CASE pc[c] # "waiting"
  <2>1. AwaitingReply = {}
    BY <1>2 DEF AwaitingReply
  <2>2. QED BY <1>2, <2>1 DEF InFlight
<1>3. QED BY <1>1, <1>2

LEMMA InFlightBecomes ==
  ASSUME NEW c \in Calls, \A d \in Calls \ {c} : pc'[d] # "waiting"
  PROVE  /\ pc'[c] = "waiting" => InFlight' = <<c, step'[c]>>
         /\ pc'[c] # "waiting" => InFlight' = None
<1>1. CASE pc'[c] = "waiting"
  <2>1. AwaitingReply' = {c}
    BY <1>1 DEF AwaitingReply
  <2>2. QED BY <1>1, <2>1 DEF InFlight, Current
<1>2. CASE pc'[c] # "waiting"
  <2>1. AwaitingReply' = {}
    BY <1>2 DEF AwaitingReply
  <2>2. QED BY <1>2, <2>1 DEF InFlight
<1>3. QED BY <1>1, <1>2

(* The same calls wait for the same requests. *)
LEMMA InFlightKept ==
  ASSUME UNCHANGED step, \A c \in Calls : pc'[c] = "waiting" <=> pc[c] = "waiting"
  PROVE  InFlight' = InFlight
<1>1. AwaitingReply' = AwaitingReply
  BY DEF AwaitingReply
<1>2. QED BY <1>1 DEF InFlight, Current

(* The same calls have been answered. *)
LEMMA DeliveredKept ==
  ASSUME UNCHANGED step, \A c \in Calls : Answered(c)' <=> Answered(c)
  PROVE  Delivered' = Delivered
<1>1. \A r \in Requests : r[1] \in Calls /\ Current(r[1])' = Current(r[1])
  BY RequestIsPair DEF Current
<1>2. QED BY <1>1 DEF Delivered

(* The request in flight is answered, and that of no other call. *)
LEMMA DeliveredGrows ==
  ASSUME TypeOK, NEW c \in Calls, ~Answered(c),
         \A d \in Calls \ {c} : step'[d] = step[d] /\ (Answered(d)' <=> Answered(d)),
         \/ step'[c] = step[c] /\ Answered(c)'
         \/ step'[c] = step[c] + 1 /\ ~Answered(c)'
  PROVE  Delivered' = Delivered \union {Current(c)}
<1>1. step[c] \in Nat /\ Current(c) \in Requests /\ Current(c) = <<c, step[c]>>
  BY DEF TypeOK, Current
<1>2. ASSUME NEW r \in Requests
      PROVE  r \in Delivered' <=> r \in Delivered \/ r = Current(c)
  <2>1. /\ r[1] \in Calls /\ r[2] \in Nat /\ r = <<r[1], r[2]>>
        /\ Current(r[1])' = <<r[1], step'[r[1]]>> /\ Current(r[1]) = <<r[1], step[r[1]]>>
    BY <1>2, RequestIsPair DEF Current
  <2>2. CASE r[1] # c
    BY <1>1, <2>1, <2>2 DEF Delivered
  <2>3. CASE r[1] = c
    <3>1. r = Current(r[1]) <=> r[2] = step[c]
      BY <2>1, <2>3
    <3>2. r = Current(r[1])' <=> r[2] = step'[c]
      BY <2>1, <2>3
    <3>3. r \in Delivered <=> r[2] < step[c]
      BY <2>3, <3>1 DEF Delivered
    <3>4. r \in Delivered' <=> r[2] < step'[c] \/ (r[2] = step'[c] /\ Answered(c)')
      BY <2>3, <3>2 DEF Delivered
    <3>5. QED BY <1>1, <2>1, <2>3, <3>1, <3>3, <3>4
  <2>4. QED BY <2>2, <2>3
<1>3. Delivered \subseteq Requests /\ Delivered' \subseteq Requests
  BY DEF Delivered
<1>4. QED BY <1>1, <1>2, <1>3

-----------------------------------------------------------------------------
(* Every step is a step of SerialCommands or is not seen there.            *)

LEMMA SendRefines ==
  ASSUME RefInv, NEW c \in Calls, Send(c)
  PROVE  Serial!Next \/ Unseen
<1>1. /\ pc \in [Calls -> CallStates] /\ pc[c] = "sending" /\ Owner(c)
      /\ Current(c) \in Requests /\ UNCHANGED <<step, outcome, reader>> /\ TypeOK
      /\ outcome[c].tag \in {"none", "closed"} /\ Inv
  BY Facts DEF RefInv, Endings, SlotGuarded, TypeOK, Send
<1>2. /\ \A d \in Calls \ {c} : pc[d] # "waiting" /\ pc'[d] = pc[d]
      /\ pc' \in {[pc EXCEPT ![c] = "waiting"], [pc EXCEPT ![c] = "raised"]}
  BY <1>1, OneWaits DEF Send
<1>3. InFlight = None
  BY <1>1, <1>2, InFlightIs
<1>4. \A d \in Calls : Current(d)' = Current(d)
  BY <1>1 DEF Current
<1>5. ~Answered(c) /\ ~Answered(c)'
  BY <1>1 DEF Answered
<1>6. \A d \in Calls \ {c} : Answered(d)' <=> Answered(d)
  BY <1>1, <1>2, <1>4 DEF Answered
<1>7. Delivered' = Delivered
  BY <1>1, <1>5, <1>6, DeliveredKept
<1>8. CASE pc' = [pc EXCEPT ![c] = "waiting"]
  <2>1. InFlight' = Current(c)
    BY <1>1, <1>2, <1>8, InFlightBecomes DEF Current
  <2>2. Current(c) \notin Delivered
    <3>1. Current(c)[1] = c /\ Current(c)[2] = step[c] /\ step[c] \in Nat
      BY <1>1 DEF Current, TypeOK
    <3>2. QED BY <1>5, <3>1 DEF Delivered
  <2>3. Serial!Issue(Current(c))
    BY <1>1, <1>3, <1>7, <2>1, <2>2 DEF Serial!Issue, Closed
  <2>4. QED BY <1>1, <2>3 DEF Serial!Next
<1>9. CASE pc' = [pc EXCEPT ![c] = "raised"]
  <2>1. InFlight' = None
    BY <1>1, <1>2, <1>9, InFlightBecomes
  <2>2. QED BY <1>1, <1>3, <1>7, <2>1 DEF Unseen, Closed
<1>10. QED BY <1>2, <1>8, <1>9

LEMMA ResumeRefines ==
  ASSUME RefInv, NEW c \in Calls, Resume(c)
  PROVE  Serial!Next
<1>1. /\ pc \in [Calls -> CallStates] /\ pc[c] = "waiting" /\ outcome[c].tag # "none"
      /\ Owner(c) /\ UNCHANGED reader /\ TypeOK /\ Inv /\ Endings
      /\ step \in [Calls -> Nat \ {0}] /\ outcome \in [Calls -> OutcomeType]
      /\ Current(c) \in Requests
  BY Facts DEF RefInv, SlotGuarded, TypeOK, Resume
<1>2. \/ /\ pc' = [pc EXCEPT ![c] = "raised"] /\ UNCHANGED <<step, outcome>>
         /\ outcome[c].tag \in {"error", "closed"}
      \/ /\ pc' = [pc EXCEPT ![c] = "returned"] /\ UNCHANGED <<step, outcome>>
         /\ outcome[c].tag \notin {"error", "closed"}
      \/ /\ pc' = [pc EXCEPT ![c] = "queued"]
         /\ step' = [step EXCEPT ![c] = @ + 1]
         /\ outcome' = [outcome EXCEPT ![c] = NoOutcome]
         /\ outcome[c].tag \notin {"error", "closed"}
  BY DEF Resume
<1>3. \A d \in Calls \ {c} : /\ pc[d] # "waiting" /\ pc'[d] = pc[d] /\ step'[d] = step[d]
                             /\ outcome'[d] = outcome[d]
  BY <1>1, <1>2, OneWaits
<1>4. InFlight = Current(c) /\ InFlight' = None
  <2>1. pc'[c] # "waiting"
    BY <1>1, <1>2
  <2>2. QED BY <1>1, <1>3, <2>1, InFlightIs, InFlightBecomes
<1>5. InFlight # None
  BY <1>1, <1>4, RequestIsPair
<1>6. \A d \in Calls \ {c} : Answered(d)' <=> Answered(d)
  <2>1. \A d \in Calls \ {c} : Current(d)' = Current(d)
    BY <1>3 DEF Current
  <2>2. QED BY <1>3, <2>1 DEF Answered
<1>7. ~Answered(c)
  BY <1>1 DEF Answered
<1>8. CASE outcome[c].tag = "closed"
  <2>1. Closed /\ Closed'
    BY <1>1, <1>8 DEF Endings, Closed
  <2>2. UNCHANGED <<step, outcome>> /\ ~Answered(c)'
    BY <1>2, <1>8 DEF Answered
  <2>3. Delivered' = Delivered
    BY <1>6, <1>7, <2>2, DeliveredKept
  <2>4. Serial!Fail
    BY <1>4, <1>5, <2>1, <2>3 DEF Serial!Fail
  <2>5. QED BY <2>4 DEF Serial!Next
<1>9. CASE outcome[c].tag # "closed"
  <2>1. ~Closed /\ ~Closed'
    BY <1>1, <1>9 DEF Endings, Closed
  <2>2. outcome[c].tag \in {"ok", "error"} /\ outcome[c].of = Current(c)
    BY <1>1, <1>9, Facts DEF OutcomesOwn, OutcomeType, Tags
  <2>3. \/ step'[c] = step[c] /\ Answered(c)'
        \/ step'[c] = step[c] + 1 /\ ~Answered(c)'
    <3>1. CASE UNCHANGED <<step, outcome>>
      <4>1. pc'[c] \in {"returned", "raised"} \/ pc'[c] = "queued"
        BY <1>1, <1>2
      <4>2. pc'[c] \in {"returned", "raised"}
        BY <1>1, <1>2, <2>2, <3>1 DEF NoOutcome
      <4>3. Current(c)' = Current(c)
        BY <3>1 DEF Current
      <4>4. QED BY <2>2, <3>1, <4>2, <4>3 DEF Answered
    <3>2. CASE pc' = [pc EXCEPT ![c] = "queued"] /\ step' = [step EXCEPT ![c] = @ + 1]
      <4>1. step'[c] = step[c] + 1 /\ pc'[c] = "queued"
        BY <1>1, <3>2
      <4>2. QED BY <4>1 DEF Answered
    <3>3. QED BY <1>2, <3>1, <3>2
  <2>4. Delivered' = Delivered \union {InFlight}
    BY <1>1, <1>3, <1>4, <1>6, <1>7, <2>3, DeliveredGrows
  <2>5. Serial!Deliver
    BY <1>4, <1>5, <2>1, <2>4 DEF Serial!Deliver
  <2>6. QED BY <2>5 DEF Serial!Next
<1>10. QED BY <1>8, <1>9

(* Leaving the context manager cancels calls only when the reader is out.  *)
LEMMA CancelRefines ==
  ASSUME RefInv, NoCancellation, NEW c \in Calls, Cancel(c)
  PROVE  Serial!Next \/ Unseen
<1>1. /\ pc \in [Calls -> CallStates] /\ pc[c] \in {"queued", "sending", "waiting"}
      /\ pc' = [pc EXCEPT ![c] = "cancelled"] /\ Closed /\ Closed'
      /\ UNCHANGED <<step, outcome>> /\ Inv /\ TypeOK
      /\ SlotGuarded
  BY Facts DEF RefInv, TypeOK, NoCancellation, Cancel, Closed
<1>2. \A d \in Calls : Current(d)' = Current(d)
  BY <1>1 DEF Current
<1>3. \A d \in Calls : Answered(d)' <=> Answered(d)
  BY <1>1, <1>2 DEF Answered
<1>4. Delivered' = Delivered
  BY <1>1, <1>3, DeliveredKept
<1>5. CASE pc[c] # "waiting"
  <2>1. \A d \in Calls : pc'[d] = "waiting" <=> pc[d] = "waiting"
    BY <1>1, <1>5
  <2>2. QED BY <1>1, <1>4, <2>1, InFlightKept DEF Unseen
<1>6. CASE pc[c] = "waiting"
  <2>1. \A d \in Calls \ {c} : pc[d] # "waiting" /\ pc'[d] # "waiting"
    BY <1>1, <1>6, OneWaits DEF SlotGuarded
  <2>2. InFlight = Current(c) /\ InFlight' = None /\ Current(c) # None
    <3>1. pc'[c] # "waiting" /\ Current(c) \in Requests
      BY <1>1 DEF TypeOK
    <3>2. QED BY <1>6, <2>1, <3>1, InFlightIs, InFlightBecomes, RequestIsPair
  <2>3. Serial!Fail
    BY <1>1, <1>4, <2>2 DEF Serial!Fail
  <2>4. QED BY <2>3 DEF Serial!Next
<1>7. QED BY <1>5, <1>6

(* A step that ends no call and starts no wait is not seen. *)
LEMMA UnseenStep ==
  ASSUME UNCHANGED <<step, reader>>,
         \A c \in Calls : pc'[c] = "waiting" <=> pc[c] = "waiting",
         \A c \in Calls : Answered(c)' <=> Answered(c)
  PROVE  Unseen
BY InFlightKept, DeliveredKept DEF Unseen, Closed

LEMMA CallRefines ==
  ASSUME RefInv, NoCancellation, NEW c \in Calls, Call(c) \/ CallStep(c) \/ Cancel(c)
  PROVE  Serial!Next \/ Unseen
<1>1. CASE Call(c) \/ Begin(c)
  <2>1. /\ pc \in [Calls -> CallStates] /\ pc[c] \in {"idle", "queued"}
        /\ pc' \in {[pc EXCEPT ![c] = x] : x \in {"queued", "sending", "raised"}}
        /\ UNCHANGED <<step, outcome, reader>> /\ outcome[c].tag = "none"
    BY <1>1, Facts DEF RefInv, Endings, TypeOK, Call, Begin
  <2>2. \A d \in Calls : Current(d)' = Current(d)
    BY <2>1 DEF Current
  <2>3. \A d \in Calls : Answered(d)' <=> Answered(d)
    BY <2>1, <2>2 DEF Answered
  <2>4. \A d \in Calls : pc'[d] = "waiting" <=> pc[d] = "waiting"
    BY <2>1
  <2>5. QED BY <2>1, <2>3, <2>4, UnseenStep
<1>2. QED BY <1>1, SendRefines, ResumeRefines, CancelRefines DEF CallStep

LEMMA ReaderRefines ==
  ASSUME RefInv, ReaderStep
  PROVE  Serial!Next \/ Unseen
<1>1. Inv /\ ~Closed /\ UNCHANGED <<pc, step>>
  BY ReaderShape DEF RefInv
<1>2. \A c \in Calls : pc[c] \in {"returned", "raised"} => outcome'[c] = outcome[c]
  <2>1. CASE ReaderFinally
    BY <1>1, <2>1, EndShape
  <2>2. CASE \E r \in Requests, tag \in {"ok", "error"} : Awaited(r) /\ Settle(r, tag)
    BY <1>1, <2>2, SettleShape
  <2>3. QED BY <1>1, <2>1, <2>2, ReaderShape
<1>3. \A c \in Calls : Answered(c)' <=> Answered(c)
  BY <1>1, <1>2 DEF Answered, Current
<1>4. InFlight' = InFlight /\ Delivered' = Delivered
  BY <1>1, <1>3, InFlightKept, DeliveredKept
<1>5. CASE ReaderFinally
  <2>1. Serial!Close
    BY <1>1, <1>4, <1>5, EndShape DEF Serial!Close
  <2>2. QED BY <2>1 DEF Serial!Next
<1>6. CASE ~Closed'
  BY <1>1, <1>4, <1>6 DEF Unseen, Closed
<1>7. QED BY <1>1, <1>5, <1>6, ReaderShape

LEMMA StepRefines ==
  ASSUME RefInv, NoCancellation, [Next]_vars
  PROVE  [Serial!Next]_Serial!vars
<1>1. Unseen => UNCHANGED Serial!vars
  BY DEF Unseen, Serial!vars
<1>2. CASE HostStep \/ TakeEvent \/ DaemonStep \/ UNCHANGED vars
  <2>1. UNCHANGED <<pc, step, outcome, reader>>
    BY <1>2 DEF HostStep, Negotiated, HostExit, CloseStream, TakeEvent, DaemonStep, Answer,
                Emit, Hangup, vars
  <2>2. \A c \in Calls : Answered(c)' <=> Answered(c)
    BY <2>1 DEF Answered, Current
  <2>3. QED BY <1>1, <2>1, <2>2, UnseenStep
<1>3. QED BY <1>1, <1>2, CallRefines, ReaderRefines DEF Next

LEMMA InitRefines == Init => RefInv /\ Serial!Init
<1> SUFFICES ASSUME Init PROVE RefInv /\ Serial!Init
  OBVIOUS
<1>1. Inv
  BY InitBase, InitSerial DEF Inv
<1>2. Endings
  BY DEF Init, Endings, NoOutcome, Closed
<1>3. InFlight = None
  BY DEF Init, InFlight, AwaitingReply
<1>4. Delivered = {}
  <2>1. \A c \in Calls : ~Answered(c) /\ step[c] = 1
    BY DEF Init, Answered
  <2>2. \A r \in Requests : r[1] \in Calls /\ ~(r[2] < 1)
    BY RequestIsPair
  <2>3. QED BY <2>1, <2>2 DEF Delivered
<1>5. ~Closed
  BY DEF Init, Closed
<1>6. QED BY <1>1, <1>2, <1>3, <1>4, <1>5 DEF RefInv, Serial!Init

(* The client on one connection implements the serial command channel: a   *)
(* request is in flight alone, ends with its own reply or, once the        *)
(* connection is closed, with a failure (client.py:3-6).                   *)
THEOREM ClientIsSerial ==
  ASSUME NoCancellation
  PROVE  Spec => ImplementsSerial
<1>1. Init => RefInv /\ Serial!Init
  BY InitRefines
<1>2. RefInv /\ [Next]_vars => RefInv'
  BY NextRefInv
<1>3. RefInv /\ [Next]_vars => [Serial!Next]_Serial!vars
  BY StepRefines
<1>4. QED BY <1>1, <1>2, <1>3, PTL DEF Spec, ImplementsSerial, Serial!Spec
=============================================================================
