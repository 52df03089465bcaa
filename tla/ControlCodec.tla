----------------------------- MODULE ControlCodec -----------------------------
(***************************************************************************)
(* The bytes on the control socket: the formats of protocol.py, the reads  *)
(* that client.py makes of them, and how both follow the version that was  *)
(* negotiated.  One command is under way at a time (SerialCommands); here  *)
(* is what ControlConnection takes for "head" and "payload".               *)
(*                                                                         *)
(* A byte knows the field it is a part of, which part, and the field's     *)
(* size: bytes are a number, or a name, only if they are all of one field. *)
(* What dinit writes and how it reads a command is external, taken from    *)
(* what the client and its tests expect.                                   *)
(***************************************************************************)
EXTENDS Integers, SequencesExt, FiniteSetsExt

CONSTANTS
  Versions,    \* the protocol versions of the daemons to talk to
  LongSize,    \* the host's long
  Texts,       \* names of services, directories and variables, and what a log holds
  Size,        \* Size[t]: how many bytes t has
  Services,    \* the services dinit has loaded
  Handle,      \* Handle[s]: the handle dinit gives for service s
  Statuses,    \* the conditions a service may be in: how it is running or has ended
  Events,      \* the service events dinit may report
  Chunk(_),    \* Chunk(n): what one receive of n bytes may give, among 1..n
  Found,       \* bound: those among them of the services that are found or loaded
  Calls,       \* bound: Calls[i] is the set of calls of the API, each
               \* [api, on, options], that may come i-th after the negotiation
  MaxInfo,     \* bound: what dinit sends by itself
  Most,        \* bound: how many texts or handles a reply names
  None

NameMax == 1021   \* _SERVICE_NAME_MAX
IntSize == 4
SizeT == LongSize
StatusSize(v) == 6 + IntSize + (IF v >= 5 THEN IntSize ELSE 0) + (IF v >= 6 THEN 2 * LongSize ELSE 0)

Command == [QUERYVERSION |-> 0, FINDSERVICE |-> 1, LOADSERVICE |-> 2, STARTSERVICE |-> 3,
            STOPSERVICE |-> 4, WAKESERVICE |-> 5, RELEASESERVICE |-> 6, UNPINSERVICE |-> 7,
            LISTSERVICES |-> 8, UNLOADSERVICE |-> 9, QUERY_LOAD_MECH |-> 13,
            RELOADSERVICE |-> 16, SETENV |-> 17, SERVICESTATUS |-> 18, CATLOG |-> 20,
            SIGNAL |-> 21, GETALLENV |-> 24, LISTSERVICES5 |-> 25, SERVICESTATUS5 |-> 26,
            SERVICESTATUS6 |-> 28]
Reply == [ACK |-> 50, NAK |-> 51, BADREQ |-> 52, OOM |-> 53, SERVICELOADERR |-> 54,
          SERVICEOOM |-> 55, CPVERSION |-> 58, SERVICERECORD |-> 59, NOSERVICE |-> 60,
          ALREADYSS |-> 61, SVCINFO |-> 62, LISTDONE |-> 63, LOADER_MECH |-> 64,
          DEPENDENTS |-> 65, PINNEDSTOPPED |-> 67, PINNEDSTARTED |-> 68, SHUTTINGDOWN |-> 69,
          SERVICESTATUS |-> 70, SERVICE_DESC_ERR |-> 71, SERVICE_LOAD_ERR |-> 72,
          SERVICE_LOG |-> 73, SIGNAL_NOPID |-> 74, SIGNAL_BADSIG |-> 75,
          SIGNAL_KILLERR |-> 76, ALLENV |-> 78]
Info == [SERVICEEVENT |-> 100, SERVICEEVENT5 |-> 101, ENVEVENT |-> 102]

ServiceState == <<"STOPPED", "STARTING", "STARTED", "STOPPING">>
StoppedReason == <<"NORMAL", "DEPRESTART", "DEPFAILED", "FAILED", "EXECFAILED", "TIMEDOUT", "TERMINATED">>
ServiceEvent == <<"STARTED", "STOPPED", "FAILEDSTART", "STARTCANCELLED", "STOPCANCELLED">>
LoaderType == <<"NONE", "DIRLOAD">>
FLAG_MARKED_ACTIVE == 8
FLAG_HAS_PID == 16

Member(enum, n) == IF n < Len(enum) THEN enum[n + 1] ELSE "ValueError"
Code(enum, name) == CHOOSE n \in 0..Len(enum) - 1 : enum[n + 1] = name

\* The condition of a service, a call of the API with the options that it takes,
\* and what is told of each service in a list.
Conditions ==
  [state : Range(ServiceState), target : Range(ServiceState), active : BOOLEAN, reason : Range(StoppedReason),
   how : {"pid", "exit", "exec"}, stage : Nat \union {None}, first : Nat, second : Nat \union {None}, changed : Nat \union {None}]
OnHandle == {"start", "stop", "restart", "wake", "release", "catlog", "unpin", "reload", "unload", "status", "signal"}
Apis == {"version", "list", "env", "mech", "find", "load", "setenv"} \union OnHandle
Options(api) ==
  CASE api = "stop" -> {"pin", "force"} [] api \in {"start", "wake"} -> {"pin"}
    [] api = "catlog" -> {"clear"}      [] OTHER -> {}
Requests == [api : Apis, on : Texts \union {None}, options : SUBSET {"pin", "force", "clear"}]
Possible ==
  {call \in Requests :
     /\ IF call.api \in {"list", "env", "mech"} THEN call.on = None ELSE call.api # "version" /\ call.on \in Texts
     /\ call.options \subseteq Options(call.api)}
Lists == UNION {[S -> Conditions] : S \in SUBSET Services}
Commanded ==
  [code : Nat, on : Texts \union {None}, does : SUBSET {"pin", "gentle", "restart", "clear", "signal"},
   whole : BOOLEAN, told : Lists]

ASSUME CodecAssumption ==
  /\ Versions \subseteq Nat \ {0} /\ LongSize \in Nat \ {0} /\ MaxInfo \in Nat /\ Most \in Nat
  /\ Size \in [Texts -> Nat \ {0}] /\ 0 \notin Texts
  /\ None \notin Nat /\ None \notin Texts /\ None \notin Requests /\ None \notin Commanded
  \* dinit has its boot service at least, and tells services apart by their handles.
  /\ Services \subseteq Texts /\ Services # {} /\ Handle \in [Services -> Nat] /\ IsInjective(Handle)
  /\ Statuses \subseteq Conditions /\ Found \subseteq Statuses /\ Events \subseteq Range(ServiceEvent)
  /\ \A c \in Statuses :
       /\ c.second \in Nat /\ c.changed \in Nat
       /\ IF c.reason = "EXECFAILED" THEN c.how = "exec" /\ c.stage \in Nat ELSE c.how # "exec" /\ c.stage = None
  /\ Calls \in Seq(SUBSET Possible)

VARIABLES
  daemon,   \* the daemon's protocol version
  version,  \* self._version
  opened,   \* the services that dinit has given a handle for
  asked,    \* the call under way
  wire,     \* the bytes of its command, until the daemon has read them
  heard,    \* the command as the daemon understood it, until it is answered
  stream,   \* bytes from the daemon that nobody has read
  head,     \* the packet head that the reader is at, None between packets
  buf,      \* what it has read of that packet since
  items,    \* what the list handler has so far
  got,      \* results, refusals and events, as the client gave them out
  meant,    \* the same, as the daemon meant them
  calls, infos

vars == <<daemon, version, opened, asked, wire, heard, stream, head, buf, items, got, meant,
          calls, infos>>
client == <<version, asked, wire, calls>>
socket == <<head, buf, items, got>>

-----------------------------------------------------------------------------
(* Bytes.                                                                  *)

Bytes(x, size) == [i \in 1..size |-> [of |-> x, part |-> i, size |-> size]]
Pack(fields) == FlattenSeq([i \in DOMAIN fields |-> Bytes(fields[i][1], fields[i][2])])

\* A packet begins with its part 0: a reader that is in the wrong place shows.
Packet(code, fields) == <<[of |-> code, part |-> 0, size |-> 1]>> \o Pack(fields)

\* What `size' bytes from an offset on are the whole of.
Value(bytes, offset, size) ==
  LET of == bytes[offset + 1].of
  IN IF size > 0 /\ offset + size <= Len(bytes) /\ \A i \in 1..size : bytes[offset + i] = [of |-> of, part |-> i, size |-> size]
     THEN of ELSE None
Number(bytes, offset, size) ==
  LET value == Value(bytes, offset, size) IN IF value \in Nat THEN value ELSE 0

-----------------------------------------------------------------------------
(* Commands (protocol.py) and the API methods that send them (client.py).  *)

Flags(call) ==
  (IF "pin" \in call.options THEN 1 ELSE 0)
    + (IF call.api = "stop" /\ "force" \notin call.options THEN 2 ELSE 0)   \* gentle
    + (IF call.api = "restart" THEN 4 ELSE 0)

StatusCommand(v) ==
  IF v >= 6 THEN Command.SERVICESTATUS6
  ELSE IF v >= 5 THEN Command.SERVICESTATUS5 ELSE Command.SERVICESTATUS
ListCommand(v) == IF v >= 5 THEN Command.LISTSERVICES5 ELSE Command.LISTSERVICES

(* Mutant of SignalFields: the handle comes before the signal. *)
SignalFieldsSwapped(handle, signum) == <<<<handle, 4>>, <<signum, IntSize>>>>

SignalFields(handle, signum) == <<<<signum, IntSize>>, <<handle, 4>>>>

SIGTERM == 15

Records(s) == {i \in DOMAIN got : got[i].tag = "record" /\ got[i].of.on = s}
HandleOf(s) == got[CHOOSE i \in Records(s) : TRUE].of.handle

Request(call) ==
  LET Simple(code) == Packet(code, <<>>)
      Named(code)  == Packet(code, <<<<Size[call.on], 2>>, <<call.on, Size[call.on]>>>>)
      On(code)     == Packet(code, <<<<HandleOf(call.on), 4>>>>)
      Flagged(code, flags) == Packet(code, <<<<flags, 1>>, <<HandleOf(call.on), 4>>>>)
  IN CASE call.api = "version" -> Simple(Command.QUERYVERSION)
       [] call.api = "list"    -> Simple(ListCommand(version))
       [] call.api = "mech"    -> Simple(Command.QUERY_LOAD_MECH)
       [] call.api = "env"     -> Packet(Command.GETALLENV, <<<<0, 1>>>>)
       [] call.api = "find"    -> Named(Command.FINDSERVICE)
       [] call.api = "load"    -> Named(Command.LOADSERVICE)
       [] call.api = "setenv"  -> Named(Command.SETENV)
       [] call.api = "start"   -> Flagged(Command.STARTSERVICE, Flags(call))
       [] call.api \in {"stop", "restart"} -> Flagged(Command.STOPSERVICE, Flags(call))
       [] call.api = "wake"    -> Flagged(Command.WAKESERVICE, Flags(call))
       [] call.api = "release" -> Flagged(Command.RELEASESERVICE, Flags(call))
       [] call.api = "catlog"  -> Flagged(Command.CATLOG, IF "clear" \in call.options THEN 1 ELSE 0)
       [] call.api = "unpin"   -> On(Command.UNPINSERVICE)
       [] call.api = "reload"  -> On(Command.RELOADSERVICE)
       [] call.api = "unload"  -> On(Command.UNLOADSERVICE)
       [] call.api = "status"  -> On(StatusCommand(version))
       [] call.api = "signal"  -> Packet(Command.SIGNAL, SignalFields(HandleOf(call.on), SIGTERM))

-----------------------------------------------------------------------------
(* Replies: how much of a packet is read, and what is made of it.          *)

(* Mutant of Accepted: stop is taken for one more command that is only acknowledged. *)
AcceptedAck(api) ==
  CASE api = "version" -> {Reply.CPVERSION}
    [] api \in {"find", "load"} -> {Reply.SERVICERECORD}
    [] api = "list"   -> {Reply.SVCINFO}
    [] api = "status" -> {Reply.SERVICESTATUS}
    [] api = "catlog" -> {Reply.SERVICE_LOG}
    [] api = "env"    -> {Reply.ALLENV}
    [] api = "mech"   -> {Reply.LOADER_MECH}
    [] OTHER          -> {Reply.ACK, Reply.ALREADYSS}

(* The heads that the handler of a call takes; it rejects every other. *)
Accepted(api) ==
  CASE api = "version" -> {Reply.CPVERSION}
    [] api \in {"find", "load"} -> {Reply.SERVICERECORD}
    [] api = "list"   -> {Reply.SVCINFO}
    [] api = "status" -> {Reply.SERVICESTATUS}
    [] api = "catlog" -> {Reply.SERVICE_LOG}
    [] api = "env"    -> {Reply.ALLENV}
    [] api = "mech"   -> {Reply.LOADER_MECH}
    [] api = "stop"   -> {Reply.ACK, Reply.ALREADYSS, Reply.DEPENDENTS}
    [] OTHER          -> {Reply.ACK, Reply.ALREADYSS}

IsInfo(code) == code >= 100

ListStatusSize(v) == IF v >= 5 THEN StatusSize(5) ELSE StatusSize(4)

(* Mutant of ListLayout: the layout is the version's, as for a status. *)
ListLayoutFull(v) == v

ListLayout(v) == IF v > 5 THEN 5 ELSE v

InfoSize(length) == length - 1

(* How many bytes the reader takes after a head: known in full once a      *)
(* length that is one of the first of them has been read.                  *)
Wanted(code, b, v) ==
  LET After(n, more) == IF Len(b) < n THEN n ELSE n + more IN
  CASE IsInfo(code) -> IF b = <<>> THEN 1 ELSE InfoSize(Number(b, 0, 1))
    [] code = Reply.CPVERSION -> 4
    [] code = Reply.SERVICERECORD -> 6
    [] code = Reply.SERVICESTATUS -> 1 + StatusSize(v)
    [] code = Reply.SVCINFO -> After(1 + ListStatusSize(v), Number(b, 0, 1))
    [] code = Reply.SERVICE_LOG -> After(5, Number(b, 1, 4))
    [] code = Reply.ALLENV -> After(SizeT, Number(b, 0, SizeT))
    [] code = Reply.LOADER_MECH -> After(5, Number(b, 1, 4) - 6)
    [] code = Reply.DEPENDENTS -> After(SizeT, 4 * Number(b, 0, SizeT))
    [] OTHER -> 0
Needs == Wanted(head, buf, version)

IsSet(flags, flag) == (flags \div flag) % 2 = 1

DecodeStatus(b, v) ==
  LET flags == Number(b, 2, 1)
      reason == Member(StoppedReason, Number(b, 3, 1))
      how == IF reason = "EXECFAILED" THEN "exec" ELSE IF IsSet(flags, FLAG_HAS_PID) THEN "pid" ELSE "exit"
  IN [state |-> Member(ServiceState, Number(b, 0, 1)), target |-> Member(ServiceState, Number(b, 1, 1)),
      active |-> IsSet(flags, FLAG_MARKED_ACTIVE), reason |-> reason, how |-> how,
      stage |-> IF how = "exec" THEN Number(b, 4, 2) ELSE None,
      first |-> Number(b, 6, IntSize),
      second |-> IF how = "exit" /\ v >= 5 THEN Number(b, 10, IntSize) ELSE None,
      changed |-> IF v >= 6 THEN Number(b, StatusSize(5), LongSize) ELSE None]

Drop(b, n) == SubSeq(b, n + 1, Len(b))

\* count texts, each after its length.
Directories(b, offset, count) ==
  LET at[i \in 0..count] == IF i = 0 THEN offset ELSE at[i - 1] + 4 + Number(b, at[i - 1], 4)
  IN [i \in 1..count |-> Value(b, at[i - 1] + 4, Number(b, at[i - 1], 4))]

DecodeMech(b) ==
  LET cwd == Number(b, 9, 4) IN
  [type |-> Member(LoaderType, Number(b, 0, 1)), cwd |-> Value(b, 13, cwd), dirs |-> Directories(b, 13 + cwd, Number(b, 5, 4))]

\* The block is cut at its NULs, of which a text has none.
DecodeEnv(block) ==
  LET end == {0} \union {i \in DOMAIN block : block[i].of = 0} IN
  {Value(block, i, (CHOOSE j \in end : j > i /\ \A k \in end : k > i => j <= k) - i - 1) :
     i \in end \ {Len(block)}}

Kind(code) ==
  CASE code = Reply.CPVERSION -> "version"      [] code = Reply.SERVICERECORD -> "record"
    [] code = Reply.SERVICESTATUS -> "status"   [] code = Reply.LISTDONE -> "list"
    [] code = Reply.SERVICE_LOG -> "log"        [] code = Reply.ALLENV -> "env"
    [] code = Reply.LOADER_MECH -> "mech"       [] code = Reply.DEPENDENTS -> "dependents"
    [] OTHER -> "done"

Result(code, b, v, on, listed) ==
  CASE code = Reply.CPVERSION -> Number(b, 2, 2)
    [] code = Reply.SERVICERECORD ->
         [on |-> on, handle |-> Number(b, 1, 4),
          state |-> Member(ServiceState, Number(b, 0, 1)), target |-> Member(ServiceState, Number(b, 5, 1))]
    [] code = Reply.SERVICESTATUS -> DecodeStatus(Drop(b, 1), v)
    [] code = Reply.LISTDONE -> listed
    [] code = Reply.SERVICE_LOG -> Value(b, 5, Number(b, 1, 4))
    [] code = Reply.ALLENV -> DecodeEnv(Drop(b, SizeT))
    [] code = Reply.LOADER_MECH -> DecodeMech(b)
    [] code = Reply.DEPENDENTS -> [i \in 1..Number(b, 0, SizeT) |-> Number(b, SizeT + 4 * (i - 1), 4)]
    [] OTHER -> None

SimpleErrors ==
  [code \in {Reply.NAK, Reply.BADREQ, Reply.OOM, Reply.SERVICEOOM, Reply.SHUTTINGDOWN, Reply.PINNEDSTOPPED,
             Reply.PINNEDSTARTED, Reply.NOSERVICE, Reply.SERVICE_DESC_ERR, Reply.SERVICE_LOAD_ERR, Reply.SERVICELOADERR,
             Reply.SIGNAL_NOPID, Reply.SIGNAL_BADSIG, Reply.SIGNAL_KILLERR} |->
     CASE code = Reply.NAK -> "CommandRejected"
       [] code = Reply.BADREQ -> "BadRequest"
       [] code \in {Reply.OOM, Reply.SERVICEOOM} -> "OutOfMemory"
       [] code = Reply.SHUTTINGDOWN -> "ShuttingDown"
       [] code \in {Reply.PINNEDSTOPPED, Reply.PINNEDSTARTED} -> "Pinned"
       [] code = Reply.NOSERVICE -> "ServiceNotFound"
       [] code = Reply.SERVICE_DESC_ERR -> "ServiceDescriptionError"
       [] code \in {Reply.SERVICE_LOAD_ERR, Reply.SERVICELOADERR} -> "ServiceLoadError"
       [] OTHER -> "SignalNotDelivered"]

-----------------------------------------------------------------------------
(* The client.                                                             *)

Hello == [api |-> "version", on |-> None, options |-> {}]
NoItems == [t \in {} |-> t]
With(list, s, c) == [t \in {s} \union DOMAIN list |-> IF t = s THEN c ELSE list[t]]
Entry(tag, of) == [tag |-> tag, of |-> of]

Init ==
  /\ daemon \in Versions
  /\ version = 1
  /\ opened = {}
  /\ asked = Hello /\ wire = Packet(Command.QUERYVERSION, <<>>)
  /\ heard = None
  /\ stream = <<>> /\ head = None /\ buf = <<>> /\ items = NoItems
  /\ got = <<>> /\ meant = <<>>
  /\ calls = 0 /\ infos = 0

Agreed == {got[i].of : i \in {j \in DOMAIN got : got[j].tag = "version"}}

(* The task that connects takes the version; the reader may have gone on. *)
Negotiated ==
  /\ asked = None /\ version \notin Agreed
  /\ version' \in Agreed
  /\ UNCHANGED <<daemon, opened, asked, wire, heard, stream, socket, meant, calls, infos>>

(* A command on a service is sent with the handle of its record.  A name   *)
(* too long for the protocol raises ValueError before anything is sent.    *)
Ask(call) ==
  /\ asked = None /\ version \in Agreed
  /\ call.api \in {"find", "load", "list", "env", "mech", "setenv"} \/ Records(call.on) # {}
  /\ call.on # None => Size[call.on] <= NameMax
  /\ calls' = calls + 1
  /\ asked' = call /\ wire' = Request(call)
  /\ UNCHANGED <<daemon, version, opened, heard, stream, socket, meant, infos>>

Taken == Accepted(asked.api) \union (IF items = NoItems THEN {} ELSE {Reply.LISTDONE})
Reads == IsInfo(head) \/ (asked # None /\ head \in Taken)

(* The next byte is taken for a head.  In the wrong place it could be      *)
(* anything: ControlConnection!ReadMisaligned.                             *)
ReadHead ==
  /\ head = None /\ stream # <<>> /\ Head(stream).part = 0
  /\ head' = Head(stream).of /\ stream' = Tail(stream)
  /\ UNCHANGED <<daemon, opened, client, heard, buf, items, got, meant, infos>>

(* The stream gives some of the bytes that are still wanted. *)
Receive ==
  /\ head # None /\ Reads /\ Len(buf) < Needs
  /\ \E n \in 1..(Needs - Len(buf)) :
       /\ n \in Chunk(Needs - Len(buf)) /\ n <= Len(stream)
       /\ buf' = buf \o SubSeq(stream, 1, n)
       /\ stream' = Drop(stream, n)
  /\ UNCHANGED <<daemon, opened, client, heard, head, items, got, meant, infos>>

Event(code, b, v) ==
  LET About(w) == <<Entry("event", <<Number(b, 1, 4), Member(ServiceEvent, Number(b, 5, 1)), DecodeStatus(Drop(b, 6), w)>>)>>
  IN CASE code = Info.SERVICEEVENT5 -> About(5)
       [] code = Info.SERVICEEVENT /\ v < 5 -> About(4)
       [] code = Info.ENVEVENT -> <<Entry("variable", <<Number(b, 1, 1), Value(b, 4, Number(b, 2, 2))>>)>>
       [] OTHER -> <<>>

DispatchInfo ==
  /\ head # None /\ IsInfo(head) /\ Len(buf) > 0 /\ Len(buf) = Needs
  /\ got' = got \o Event(head, buf, version)
  /\ head' = None /\ buf' = <<>>
  /\ UNCHANGED <<daemon, opened, client, heard, stream, items, meant, infos>>

Listed(b, v) ==
  [on   |-> Value(b, 1 + ListStatusSize(v), Number(b, 0, 1)),
   told |-> DecodeStatus(SubSeq(b, 2, 1 + ListStatusSize(v)), ListLayout(v))]

ListItem ==
  /\ head = Reply.SVCINFO /\ Reads /\ Len(buf) > 0 /\ Len(buf) = Needs
  /\ LET item == Listed(buf, version) IN items' = With(items, item.on, item.told)
  /\ head' = None /\ buf' = <<>>
  /\ UNCHANGED <<daemon, opened, client, heard, stream, got, meant, infos>>

(* Mutant of Answered: the entries of a list are left for the next one. *)
AnsweredKeeping(entry) ==
  /\ got' = Append(got, entry)
  /\ asked' = None /\ head' = None /\ buf' = <<>> /\ items' = items
  /\ UNCHANGED <<daemon, version, opened, wire, heard, stream, meant, calls, infos>>

Answered(entry) ==
  /\ got' = Append(got, entry)
  /\ asked' = None /\ head' = None /\ buf' = <<>> /\ items' = NoItems
  /\ UNCHANGED <<daemon, version, opened, wire, heard, stream, meant, calls, infos>>

Finish ==
  /\ head # None /\ ~IsInfo(head) /\ Reads /\ head # Reply.SVCINFO /\ Len(buf) = Needs
  /\ Answered(Entry(Kind(head), Result(head, buf, version, asked.on, items)))

(* Mutant of Reject: the caller is not told. *)
RejectSilently ==
  /\ head # None /\ ~Reads
  /\ head' = None /\ items' = NoItems
  /\ UNCHANGED <<daemon, opened, client, heard, stream, buf, got, meant, infos>>

Reject ==
  /\ head # None /\ asked # None /\ ~Reads
  /\ Answered(Entry("refused", IF head \in DOMAIN SimpleErrors THEN SimpleErrors[head] ELSE "ProtocolError"))

ReadStep == ReadHead \/ Receive \/ DispatchInfo \/ ListItem \/ Finish \/ Reject

-----------------------------------------------------------------------------
(* dinit (external): what it reads in a command, and what it answers.      *)

Flag(bits, mask, name) == IF IsSet(bits, mask) THEN {name} ELSE {}

ServiceWith(handle) ==
  LET named == {s \in Services : Handle[s] = handle} IN IF named = {} THEN None ELSE CHOOSE s \in named : TRUE

\* The fields of each command, as dinit lays them out, and their total size.
Fields(code, b) ==
  LET Named == [on |-> Value(b, 2, Number(b, 0, 2)), does |-> {}, size |-> 2 + Number(b, 0, 2)]
      On(at, does) == [on |-> ServiceWith(Number(b, at, 4)), does |-> does, size |-> at + 4]
      bits == Number(b, 0, 1)
      Plain == [on |-> None, does |-> {}, size |-> IF code = Command.GETALLENV THEN 1 ELSE 0]
  IN CASE code \in {Command.FINDSERVICE, Command.LOADSERVICE, Command.SETENV} -> Named
       [] code \in {Command.STARTSERVICE, Command.STOPSERVICE, Command.WAKESERVICE, Command.RELEASESERVICE} ->
            On(1, Flag(bits, 1, "pin") \union Flag(bits, 2, "gentle") \union Flag(bits, 4, "restart"))
       [] code = Command.CATLOG -> On(1, Flag(bits, 1, "clear"))
       [] code = Command.SIGNAL -> On(4, IF Number(b, 0, 4) = SIGTERM THEN {"signal"} ELSE {})
       [] code \in {Command.UNPINSERVICE, Command.RELOADSERVICE, Command.UNLOADSERVICE,
                    Command.SERVICESTATUS, Command.SERVICESTATUS5, Command.SERVICESTATUS6} -> On(0, {})
       [] OTHER -> Plain

Understand(bytes) ==
  LET fields == Fields(bytes[1].of, Tail(bytes))
  IN [code |-> bytes[1].of, on |-> fields.on, does |-> fields.does, whole |-> fields.size = Len(Tail(bytes)), told |-> NoItems]

\* The version of the protocol that a command came with, where it matters.
Since(code) ==
  IF code = Command.SERVICESTATUS6 THEN 6
  ELSE IF code \in {Command.SERVICESTATUS5, Command.LISTSERVICES5} THEN 5 ELSE 1

\* A condition as dinit writes it in the layout of a version, and what of it can be read there.
Layout(c, v) ==
  LET flags == (IF c.how = "pid" THEN FLAG_HAS_PID ELSE 0) + (IF c.active THEN FLAG_MARKED_ACTIVE ELSE 0)
      stage == IF c.how = "exec" THEN c.stage ELSE 0
  IN <<<<Code(ServiceState, c.state), 1>>, <<Code(ServiceState, c.target), 1>>, <<flags, 1>>,
       <<Code(StoppedReason, c.reason), 1>>, <<stage, 2>>, <<c.first, IntSize>>>>
       \o (IF v >= 5 THEN <<<<c.second, IntSize>>>> ELSE <<>>)
       \o (IF v >= 6 THEN <<<<c.changed, LongSize>>, <<0, LongSize>>>> ELSE <<>>)
Told(c, v) ==
  [c EXCEPT !.second = IF c.how = "exit" /\ v >= 5 THEN @ ELSE None,
            !.changed = IF v >= 6 THEN @ ELSE None]

Hear ==
  /\ wire # <<>>
  /\ heard' = Understand(wire) /\ wire' = <<>>
  /\ UNCHANGED <<daemon, version, opened, asked, stream, socket, meant, calls, infos>>

Writes(bytes, entries) ==
  /\ stream' = stream \o bytes
  /\ meant' = meant \o entries
  /\ UNCHANGED <<daemon, client, socket>>

Answers(bytes, entry) == heard' = None /\ Writes(bytes, <<entry>>) /\ UNCHANGED infos

AnswerVersion ==
  /\ heard.code = Command.QUERYVERSION
  /\ Answers(Packet(Reply.CPVERSION, <<<<1, 2>>, <<daemon, 2>>>>), Entry("version", daemon))
  /\ UNCHANGED opened

AnswerRecord ==
  /\ heard.code \in {Command.FINDSERVICE, Command.LOADSERVICE} /\ heard.on \in Services
  /\ \E c \in Found :
       Answers(Packet(Reply.SERVICERECORD, <<<<Code(ServiceState, c.state), 1>>, <<Handle[heard.on], 4>>,
                                             <<Code(ServiceState, c.target), 1>>>>),
               Entry("record", [on |-> heard.on, state |-> c.state, handle |-> Handle[heard.on], target |-> c.target]))
  /\ opened' = opened \union {heard.on}

AnswerStatus ==
  /\ heard.code \in {Command.SERVICESTATUS, Command.SERVICESTATUS5, Command.SERVICESTATUS6}
  /\ \E c \in Statuses :
       LET layout == IF Since(heard.code) = 1 THEN 4 ELSE Since(heard.code)
       IN Answers(Packet(Reply.SERVICESTATUS, <<<<0, 1>>>> \o Layout(c, layout)), Entry("status", Told(c, layout)))
  /\ UNCHANGED opened

AnswerListItem ==
  /\ heard.code \in {Command.LISTSERVICES, Command.LISTSERVICES5}
  /\ \E s \in Services \ DOMAIN heard.told, c \in Statuses :
       LET layout == IF heard.code = Command.LISTSERVICES5 THEN 5 ELSE 4
       IN /\ heard' = [heard EXCEPT !.told = With(@, s, Told(c, layout))]
          /\ Writes(Packet(Reply.SVCINFO, <<<<Size[s], 1>>>> \o Layout(c, layout) \o <<<<s, Size[s]>>>>), <<>>)
  /\ UNCHANGED <<opened, infos>>

AnswerListDone ==
  /\ heard.code \in {Command.LISTSERVICES, Command.LISTSERVICES5} /\ DOMAIN heard.told = Services
  /\ Answers(Packet(Reply.LISTDONE, <<>>), Entry("list", heard.told))
  /\ UNCHANGED opened

AnswerLog ==
  /\ heard.code = Command.CATLOG
  /\ \E text \in Services \union {None} :
       LET n == IF text = None THEN 0 ELSE Size[text]
       IN Answers(Packet(Reply.SERVICE_LOG, <<<<0, 1>>, <<n, 4>>, <<text, n>>>>), Entry("log", text))
  /\ UNCHANGED opened

AnswerEnv ==
  /\ heard.code = Command.GETALLENV
  /\ \E texts \in {ts \in SeqOf(Services, Most) : IsInjective(ts)} :
       LET block == FlattenSeq([i \in DOMAIN texts |-> Pack(<<<<texts[i], Size[texts[i]]>>, <<0, 1>>>>)])
       IN Answers(Packet(Reply.ALLENV, <<<<Len(block), SizeT>>>>) \o block, Entry("env", Range(texts)))
  /\ UNCHANGED opened

AnswerMech ==
  /\ heard.code = Command.QUERY_LOAD_MECH
  /\ \E cwd \in Services, dirs \in SeqOf(Services, Most) :
       LET named == FlattenSeq([i \in DOMAIN dirs |-> Pack(<<<<Size[dirs[i]], 4>>, <<dirs[i], Size[dirs[i]]>>>>)])
           size == 6 + 8 + Size[cwd] + Len(named)
       IN Answers(Packet(Reply.LOADER_MECH, <<<<Code(LoaderType, "DIRLOAD"), 1>>, <<size, 4>>, <<Len(dirs), 4>>,
                                              <<Size[cwd], 4>>, <<cwd, Size[cwd]>>>>) \o named,
                  Entry("mech", [type |-> "DIRLOAD", cwd |-> cwd, dirs |-> dirs]))
  /\ UNCHANGED opened

Commands == {Command[name] : name \in {"STARTSERVICE", "STOPSERVICE", "WAKESERVICE", "RELEASESERVICE",
               "UNPINSERVICE", "UNLOADSERVICE", "RELOADSERVICE", "SETENV", "SIGNAL"}}

AnswerDone ==
  /\ heard.code \in Commands
  /\ \E code \in {Reply.ACK, Reply.ALREADYSS} : Answers(Packet(code, <<>>), Entry("done", None))
  /\ UNCHANGED opened

AnswerDependents ==
  /\ heard.code = Command.STOPSERVICE /\ "gentle" \in heard.does
  /\ \E on \in SeqOf(Services, Most) \ {<<>>} :
       LET deps == [i \in DOMAIN on |-> Handle[on[i]]]
       IN Answers(Packet(Reply.DEPENDENTS, <<<<Len(deps), SizeT>>>> \o [i \in DOMAIN deps |-> <<deps[i], 4>>]),
                  Entry("dependents", deps))
  /\ UNCHANGED opened

Refusals(h) ==
  IF Since(h.code) > daemon \/ ~h.whole THEN {Reply.BADREQ}
  ELSE CASE h.code = Command.LOADSERVICE -> {Reply.NOSERVICE, Reply.SERVICE_DESC_ERR, Reply.SERVICE_LOAD_ERR}
         [] h.code = Command.FINDSERVICE -> {Reply.NOSERVICE}
         [] h.code = Command.STARTSERVICE -> {Reply.SHUTTINGDOWN, Reply.PINNEDSTOPPED}
         [] h.code = Command.STOPSERVICE -> {Reply.PINNEDSTARTED, Reply.NAK}
         [] h.code = Command.SIGNAL -> {Reply.SIGNAL_NOPID, Reply.SIGNAL_BADSIG, Reply.SIGNAL_KILLERR}
         [] h.code = Command.SETENV -> {Reply.BADREQ, Reply.OOM}
         [] h.code \in {Command.RELOADSERVICE, Command.UNLOADSERVICE, Command.CATLOG} -> {Reply.NAK}
         [] OTHER -> {}

Refuse ==
  /\ \E code \in Refusals(heard) : Answers(Packet(code, <<>>), Entry("refused", code))
  /\ UNCHANGED opened

Answer ==
  /\ heard # None
  /\ \/ /\ Since(heard.code) <= daemon /\ heard.whole
        /\ \/ AnswerVersion \/ AnswerRecord \/ AnswerStatus \/ AnswerListItem \/ AnswerListDone
           \/ AnswerLog \/ AnswerEnv \/ AnswerMech \/ AnswerDone \/ AnswerDependents
     \/ Refuse

InfoPacket(code, fields) ==
  LET payload == Pack(fields) IN Packet(code, <<<<2 + Len(payload), 1>>>>) \o payload

Informs(bytes, entries) ==
  /\ infos < MaxInfo
  /\ infos' = infos + 1
  /\ Writes(bytes, entries)
  /\ UNCHANGED <<opened, heard>>

(* From version 5 on an event is sent in both of its forms. *)
EmitService ==
  \E s \in opened, event \in Events, c \in Statuses :
    LET Form(code, layout) == InfoPacket(code, <<<<Handle[s], 4>>, <<Code(ServiceEvent, event), 1>>>> \o Layout(c, layout))
        v == IF daemon >= 5 THEN 5 ELSE 4
        old == Form(Info.SERVICEEVENT, 4)
        new == IF v = 5 THEN Form(Info.SERVICEEVENT5, 5) ELSE <<>>
    IN \E bytes \in {new \o old, old \o new} :
         Informs(bytes, <<Entry("event", <<Handle[s], event, Told(c, v)>>)>>)

EmitVariable ==
  \E t \in Services, overridden \in {0, 1} :
    Informs(InfoPacket(Info.ENVEVENT, <<<<overridden, 1>>, <<Size[t], 2>>, <<t, Size[t]>>>>),
            <<Entry("variable", <<overridden, t>>)>>)

(* Packets of a kind that a later dinit may have are to be skipped. *)
EmitUnknown == Informs(InfoPacket(103, <<<<0, 3>>>>), <<>>)

Next ==
  \/ Negotiated
  \/ calls < Len(Calls) /\ \E call \in Calls[calls + 1] : Ask(call)
  \/ ReadStep
  \/ Hear
  \/ Answer
  \/ EmitService
  \/ EmitVariable
  \/ EmitUnknown

Spec == Init /\ [][Next]_vars

-----------------------------------------------------------------------------
(* Properties.                                                             *)

(* Only a list under way has entries kept, only a head has bytes read after *)
(* it, and never more of them than the packet has.                         *)
TypeOK ==
  /\ daemon \in Versions /\ version \in Versions \union {1} /\ opened \subseteq Services
  /\ (asked \in {Hello, None} \/ (calls > 0 /\ asked \in Calls[calls]))
  /\ calls \in 0..Len(Calls) /\ infos \in 0..MaxInfo
  /\ items # NoItems => asked # None /\ asked.api = "list" /\ DOMAIN items \subseteq Services
  /\ IF head = None THEN buf = <<>> ELSE Len(buf) <= Needs

Same(g, n) ==
  /\ g.tag = n.tag
  /\ IF g.tag = "refused" THEN g.of # "ProtocolError" ELSE g.of = n.of

(* What the client gives out, results, refusals and events, is what dinit  *)
(* meant, field by field and in dinit's order, whatever the version and    *)
(* however the bytes arrive; no refusal is an unknown one (client.py:379). *)
Faithful ==
  /\ Len(got) <= Len(meant)
  /\ \A i \in DOMAIN got : Same(got[i], meant[i])

(* Between packets the next byte is the head of a packet: what was read of *)
(* every packet is exactly its size (client.py:334-344, 433-441).          *)
StaysOnPackets == head = None /\ stream # <<>> => Head(stream).part = 0

(* dinit reads a command as the call meant it: the service, the options,   *)
(* nothing left over, and a command of a version that it speaks.           *)
Understood ==
  heard # None =>
    /\ heard.whole /\ Since(heard.code) <= daemon /\ heard.on = asked.on
    /\ heard.does = (asked.options \ {"force"})
         \union (IF asked.api = "stop" /\ "force" \notin asked.options THEN {"gentle"} ELSE {})
         \union (IF asked.api \in {"restart", "signal"} THEN {asked.api} ELSE {})

(* The reader never waits for bytes that a packet does not have, a call    *)
(* waits only while its command or its answer is on the way, and once all  *)
(* is read everything has been given out (client.py:130-137, 379-383).     *)
OnItsWay ==
  /\ head # None /\ Reads => Len(buf) + Len(stream) >= Needs
  /\ asked # None => wire # <<>> \/ heard # None \/ head # None \/ stream # <<>>
  /\ head = None /\ stream = <<>> => Len(got) = Len(meant)
=============================================================================
