------------------------------ MODULE TuiSession ------------------------------
(***************************************************************************)
(* The TUI while it runs (tui/src/dinix_tui/app.py): keys and timers queue *)
(* commands, one task carries them out on the control connection, another  *)
(* drains the events, and both write the table of services.  A command may *)
(* be a nix reload: what that does to descriptions and processes is in     *)
(* NixReload, here it is a long command among the others.                  *)
(*                                                                         *)
(* The connection is taken for what SerialCommands promises: one request   *)
(* at a time, answered by its own reply, or failed once the link is gone.  *)
(* Packets arrive in the order dinit sent them; the reader offers events   *)
(* to a bounded buffer and drops one that does not fit.                    *)
(***************************************************************************)
EXTENDS Naturals, Sequences

CONSTANTS
  Services,     \* all services there may be
  Booted,       \* those that dinit has loaded when the TUI connects
  FirstFiles,   \* those described in the directories that dinit searches
  NewFiles,     \* those described in what a rebuild makes
  CanBuild,     \* is a rebuild command configured
  Logging,      \* those that have a log buffer
  States,       \* the states a service may be in
  First,        \* the state that a service is in when it is loaded
  Queue,        \* capacity of the command queue
  EventBuffer,  \* capacity of the event stream
  CanLose,      \* may the connection be lost
  MaxChanges,   \* bound: changes of state of the services
  Keys,         \* bound: what the user presses keys for
  MaxKeys,      \* bound: how often
  MaxLines,     \* bound: lines a service logs
  None

(* What the user or a timer asks for, and the requests that it takes. *)
NixActions == {"nix-reload", "rebuild-all"}
Actions == {"connect", "effect", "catlog", "follow", "refresh"} \union NixActions
Asks == {"names", "list", "load", "build", "reload", "restart", "started", "effect", "log"}
Commands == [action : Actions, service : Services \union {None}, ask : Asks,
             sent : BOOLEAN, todo : SUBSET Services]

(* What dinit sends. *)
Table == [Services -> States \union {None}]
Replies == [kind : {"ack", "nak"}, of : {None}] \union [kind : {"lines"}, of : Seq(Nat)]
             \union [kind : {"list"}, of : Table]
Notices == [service : Services, state : States]
Packets == Replies \union [kind : {"event"}, of : Notices]

ASSUME SessionAssumption ==
  /\ Logging \union Booted \union FirstFiles \union NewFiles \subseteq Services
  /\ {First, "started"} \subseteq States
  /\ Queue \in Nat \ {0} /\ EventBuffer \in Nat \ {0}
  /\ {MaxChanges, MaxKeys, MaxLines} \subseteq Nat
  /\ {CanLose, CanBuild} \subseteq BOOLEAN
  /\ None \notin Services \union States /\ None \notin Commands /\ None \notin Replies

VARIABLES
  worker,     \* _run_client: "loading", "running" its two tasks, or "ended"
  queue,      \* the command queue
  doing,      \* the command under way, the request made for it, and the names
              \* that it goes on to
  reply,      \* the reply the request got
  following,  \* self._following
  named,      \* the services in self._handle_names
  rows,       \* the state the table shows, None before the first row
  shown,      \* the log lines that following has shown
  failed,     \* has a failure been shown to the user
  link,       \* the connection: "up", "down", or "closed" once the reader is out
  stream,     \* packets from dinit that the reader has not taken
  events,     \* the event stream of the client
  files,      \* the services that have a description
  held,       \* the services that this connection has a handle for
  actual,     \* the state of each service, None for one that is not loaded
  log,        \* dinit's log buffer of each service
  written,    \* lines each service has logged
  changes, keys

dinit == <<files, held, actual, log, written, changes>>
net == <<link, stream, events>>
screen == <<following, named, rows, shown, failed>>
vars == <<worker, queue, doing, reply, screen, net, dinit, keys>>

(* `ask` is the request under way, `sent` until dinit answers it. *)
Doing(action, s, ask) ==
  [action |-> action, service |-> s, ask |-> ask, sent |-> ask # "build", todo |-> {}]

Init ==
  /\ worker = "loading"
  /\ queue = <<>>
  /\ doing = Doing("connect", None, "names")
  /\ reply = None
  /\ named = {}
  /\ following = None
  /\ rows = [s \in Services |-> None]
  /\ shown = [s \in Services |-> <<>>]
  /\ failed = FALSE
  /\ link = "up" /\ stream = <<>> /\ events = <<>>
  /\ files = FirstFiles /\ held = {}
  /\ actual = [s \in Services |-> IF s \in Booted THEN First ELSE None]
  /\ log = [s \in Services |-> <<>>]
  /\ written = [s \in Services |-> 0]
  /\ changes = 0 /\ keys = 0

-----------------------------------------------------------------------------
(* Keys and timers.  A full queue turns a command down.                    *)

(* Mutant of Push: the queue has no limit. *)
PushUnbounded(action, s) == queue' = Append(queue, [action |-> action, service |-> s])

Push(action, s) ==
  queue' = IF Len(queue) < Queue
           THEN Append(queue, [action |-> action, service |-> s]) ELSE queue

Press(action) == action \in Keys /\ keys < MaxKeys /\ keys' = keys + 1

(* start, stop, restart and reload are "effect". *)
Dispatch(action, s) ==
  /\ Press(action)
  /\ rows[s] # None
  /\ Push(action, s)
  /\ UNCHANGED <<worker, doing, reply, screen, net, dinit>>

Follow(s) ==
  /\ Press("follow")
  /\ rows[s] # None
  /\ IF following = s
     THEN following' = None /\ UNCHANGED queue
     ELSE following' = s /\ Push("follow", s)
  /\ UNCHANGED <<worker, doing, reply, named, rows, shown, failed, net, dinit>>

NixKey(action) ==
  /\ Press(action)
  /\ CanBuild
  /\ Push(action, None)
  /\ UNCHANGED <<worker, doing, reply, screen, net, dinit>>

(* Every half second; what a full queue turns down is dropped unsaid. *)
FollowTick ==
  /\ following # None
  /\ Push("follow", following)
  /\ UNCHANGED <<worker, doing, reply, screen, net, dinit, keys>>

(* Mutant of RefreshTick: no refresh while a log is followed. *)
RefreshTickUnfollowed ==
  /\ following = None
  /\ Push("refresh", None)
  /\ UNCHANGED <<worker, doing, reply, screen, net, dinit, keys>>

(* Every three seconds, and F5; dropped unsaid as well. *)
RefreshTick ==
  /\ Push("refresh", None)
  /\ UNCHANGED <<worker, doing, reply, screen, net, dinit, keys>>

-----------------------------------------------------------------------------
(* The task that carries out commands.                                     *)

AskOf(action) ==
  CASE action = "refresh" -> "list"
    [] action \in {"follow", "catlog"} -> "log"
    [] action \in NixActions -> "build"
    [] OTHER -> "effect"

(* Mutant of Clears: a look at the log empties it. *)
ClearsAlways(action) == TRUE

(* A poll asks dinit to empty the buffer that it returns. *)
Clears(action) == action = "follow"

(* The loops over names, one request each, in a fixed order: the code's is *)
(* by name.                                                                *)
Each(action, ask, names, after) ==
  IF names = {} THEN after
  ELSE LET s == CHOOSE n \in names : TRUE
       IN [Doing(action, s, ask) EXCEPT !.todo = names \ {s}]

Restarts(action, names) == Each(action, "restart", names, Doing(action, None, "list"))
Reloads(action, names) ==
  Each(action, "reload", names,
       Doing(action, None, IF action = "rebuild-all" THEN "started" ELSE "list"))
Loads(action, names, known) ==
  Each(action, "load", names,
       IF action = "connect" THEN Doing(action, None, "list") ELSE Reloads(action, known))

Continue(known) ==
  CASE doing.ask = "load"    -> Loads(doing.action, doing.todo, known)
    [] doing.ask = "reload"  -> Reloads(doing.action, doing.todo)
    [] doing.ask = "restart" -> Restarts(doing.action, doing.todo)

Take ==
  /\ worker = "running" /\ doing = None /\ queue # <<>>
  /\ LET c == Head(queue) IN doing' = Doing(c.action, c.service, AskOf(c.action))
  /\ queue' = Tail(queue)
  /\ UNCHANGED <<worker, reply, screen, net, dinit, keys>>

Replied(ask) == doing # None /\ doing.ask = ask /\ reply # None

(* Mutant of StreamLog: any rejection ends the following. *)
StreamLogForgets ==
  /\ Replied("log") /\ doing.action = "follow"
  /\ IF reply.kind = "lines"
     THEN shown' = [shown EXCEPT ![doing.service] = @ \o reply.of] /\ UNCHANGED following
     ELSE following' = None /\ UNCHANGED shown
  /\ doing' = None /\ reply' = None
  /\ UNCHANGED <<worker, queue, named, rows, failed, net, dinit, keys>>

(* Mutant of StreamLog: while another command waits, the lines are left for *)
(* the next poll, though dinit's buffer is empty by now.                   *)
StreamLogLate ==
  /\ Replied("log") /\ doing.action = "follow"
  /\ shown' = IF reply.kind = "lines" /\ queue = <<>>
              THEN [shown EXCEPT ![doing.service] = @ \o reply.of] ELSE shown
  /\ doing' = None /\ reply' = None
  /\ UNCHANGED <<worker, queue, following, named, rows, failed, net, dinit, keys>>

(* A poll of a followed service: show what is new, or stop following it. *)
StreamLog ==
  /\ Replied("log") /\ doing.action = "follow"
  /\ IF reply.kind = "lines"
     THEN shown' = [shown EXCEPT ![doing.service] = @ \o reply.of] /\ UNCHANGED following
     ELSE /\ following' = IF following = doing.service THEN None ELSE following
          /\ UNCHANGED shown
  /\ doing' = None /\ reply' = None
  /\ UNCHANGED <<worker, queue, named, rows, failed, net, dinit, keys>>

(* The command raises: the error is shown.  While connecting that ends the *)
(* worker; later the task goes on to the next command.                     *)
Raise ==
  /\ doing' = None /\ failed' = TRUE
  /\ worker' = IF worker = "loading" THEN "ended" ELSE worker

(* An effect or a look at the log is over: a refresh follows. *)
Effected ==
  /\ Replied("effect") \/ (Replied("log") /\ doing.action = "catlog")
  /\ IF reply.kind = "nak" THEN Raise
     ELSE doing' = Doing(doing.action, None, "list") /\ UNCHANGED <<worker, failed>>
  /\ reply' = None
  /\ UNCHANGED <<queue, following, named, rows, shown, net, dinit, keys>>

(* What dinit lists and what its directories hold is loaded, name by name. *)
Names ==
  /\ Replied("names")
  /\ doing' = Loads(doing.action, files \union {s \in Services : reply.of[s] # None}, named)
  /\ reply' = None
  /\ UNCHANGED <<worker, queue, screen, net, dinit, keys>>

(* _rebuild, then _point_at, or one of the ways in which they fail. *)
Built ==
  /\ doing # None /\ doing.ask = "build"
  /\ \/ /\ files' = files \union NewFiles
        /\ doing' = Loads(doing.action, NewFiles \ named, named)
        /\ UNCHANGED <<worker, failed>>
     \/ Raise /\ UNCHANGED files
  /\ UNCHANGED <<queue, reply, following, named, rows, shown, net, held, actual, log,
                 written, changes, keys>>

(* A service that does not load ends the command, of the new ones too. *)
Loaded ==
  /\ Replied("load")
  /\ IF reply.kind = "nak" THEN Raise /\ UNCHANGED named
     ELSE /\ named' = named \union {doing.service}
          /\ doing' = Continue(named')
          /\ UNCHANGED <<worker, failed>>
  /\ reply' = None
  /\ UNCHANGED <<queue, following, rows, shown, net, dinit, keys>>

(* A rejected reload, or restart, is reported and passed over. *)
Tolerated ==
  /\ Replied("reload") \/ Replied("restart")
  /\ doing' = Continue(named)
  /\ reply' = None
  /\ UNCHANGED <<worker, queue, screen, net, dinit, keys>>

Started ==
  /\ Replied("started")
  /\ doing' = Restarts(doing.action, {s \in Services : reply.of[s] = "started"})
  /\ reply' = None
  /\ UNCHANGED <<worker, queue, screen, net, dinit, keys>>

SetRows(states) == [s \in Services |-> IF states[s] # None THEN states[s] ELSE rows[s]]

(* _refresh writes a row for every service that is loaded; the first time  *)
(* lets the two tasks start.                                               *)
Refresh ==
  /\ Replied("list")
  /\ rows' = SetRows(reply.of)
  /\ worker' = "running"
  /\ doing' = None /\ reply' = None
  /\ UNCHANGED <<queue, following, named, shown, failed, net, dinit, keys>>

Unanswered == link = "closed" /\ doing # None /\ reply = None /\ doing.ask # "build"

(* Mutant of Fail: a command that the lost connection fails is passed over. *)
FailSilently ==
  /\ Unanswered
  /\ doing' = None
  /\ UNCHANGED <<worker, queue, reply, screen, net, dinit, keys>>

(* Mutant of Fail: a reload waits for the connection to come back. *)
FailWaits ==
  /\ Unanswered /\ doing.ask \notin {"reload", "restart"} /\ Raise
  /\ UNCHANGED <<queue, reply, following, named, rows, shown, net, dinit, keys>>

(* The connection is gone: the request raises, and the loops that pass     *)
(* over a rejection pass over this too.                                    *)
Fail ==
  /\ Unanswered
  /\ IF doing.ask \in {"reload", "restart"}
     THEN doing' = Continue(named) /\ UNCHANGED <<worker, failed>>
     ELSE Raise
  /\ UNCHANGED <<queue, reply, following, named, rows, shown, net, dinit, keys>>

(* The task that drains the events.  It knows a service by the handle that *)
(* _handle_names has, which a service that was just loaded is not yet in.  *)
ConsumeEvent ==
  /\ worker = "running" /\ events # <<>>
  /\ LET e == Head(events) IN
     rows' = IF e.service \in named THEN [rows EXCEPT ![e.service] = e.state] ELSE rows
  /\ events' = Tail(events)
  /\ UNCHANGED <<worker, queue, doing, reply, following, named, shown, failed, link, stream,
                 dinit, keys>>

-----------------------------------------------------------------------------
(* The connection's reader.                                                *)

Read ==
  /\ link # "closed" /\ stream # <<>>
  /\ LET packet == Head(stream) IN
     IF packet.kind = "event"
     THEN /\ events' = IF Len(events) < EventBuffer THEN Append(events, packet.of) ELSE events
          /\ UNCHANGED reply
     ELSE reply' = packet /\ UNCHANGED events
  /\ stream' = Tail(stream)
  /\ UNCHANGED <<worker, queue, doing, screen, link, dinit, keys>>

(* The end of the stream, or a reset that discards what was in it. *)
ReaderEnds ==
  /\ link = "down"
  /\ link' = "closed" /\ stream' = <<>>
  /\ UNCHANGED <<worker, queue, doing, reply, screen, events, dinit, keys>>

-----------------------------------------------------------------------------
(* dinit.                                                                  *)

Send(kind, of) == stream' = Append(stream, [kind |-> kind, of |-> of])

AnswerLoad ==
  /\ doing.ask = "load"
  /\ \/ /\ Send("ack", None)
        /\ held' = held \union {doing.service}
        /\ actual' = [actual EXCEPT ![doing.service] = IF @ = None THEN First ELSE @]
     \/ /\ actual[doing.service] = None
        /\ Send("nak", None) /\ UNCHANGED <<held, actual>>
  /\ UNCHANGED log

AnswerLog ==
  /\ doing.ask = "log"
  /\ IF doing.service \in Logging
     THEN /\ Send("lines", log[doing.service])
          /\ log' = IF Clears(doing.action) THEN [log EXCEPT ![doing.service] = <<>>] ELSE log
     ELSE Send("nak", None) /\ UNCHANGED log
  /\ UNCHANGED <<held, actual>>

(* A command on a service, which is found for its handle first. *)
AnswerCommand ==
  /\ doing.ask \in {"effect", "reload", "restart"}
  /\ Send("ack", None) \/ Send("nak", None)
  /\ held' = held \union {doing.service}
  /\ UNCHANGED <<actual, log>>

AnswerList ==
  /\ doing.ask \in {"names", "list", "started"}
  /\ Send("list", actual)
  /\ UNCHANGED <<held, actual, log>>

Answer ==
  /\ link = "up" /\ doing # None /\ doing.sent
  /\ doing' = [doing EXCEPT !.sent = FALSE]
  /\ AnswerLoad \/ AnswerLog \/ AnswerCommand \/ AnswerList
  /\ UNCHANGED <<worker, queue, reply, screen, link, events, files, written, changes, keys>>

(* A service changes state; who has a handle for it is told. *)
Change(s) ==
  /\ changes < MaxChanges /\ actual[s] # None
  /\ \E state \in States \ {actual[s]} :
       /\ actual' = [actual EXCEPT ![s] = state]
       /\ IF link = "up" /\ s \in held THEN Send("event", [service |-> s, state |-> state])
          ELSE UNCHANGED stream
  /\ changes' = changes + 1
  /\ UNCHANGED <<worker, queue, doing, reply, screen, link, events, files, held, log, written, keys>>

(* dinit loads a service for another, or for another client. *)
LoadElsewhere(s) ==
  /\ changes < MaxChanges /\ actual[s] = None /\ s \in files
  /\ actual' = [actual EXCEPT ![s] = First]
  /\ changes' = changes + 1
  /\ UNCHANGED <<worker, queue, doing, reply, screen, net, files, held, log, written, keys>>

Write(s) ==
  /\ s \in Logging /\ actual[s] # None /\ written[s] < MaxLines
  /\ written' = [written EXCEPT ![s] = @ + 1]
  /\ log' = [log EXCEPT ![s] = Append(@, written'[s])]
  /\ UNCHANGED <<worker, queue, doing, reply, screen, net, files, held, actual, changes, keys>>

Lose ==
  /\ CanLose /\ link = "up"
  /\ link' = "down"
  /\ UNCHANGED <<worker, queue, doing, reply, screen, stream, events, dinit, keys>>

-----------------------------------------------------------------------------
UserStep ==
  \/ \E s \in Services : Dispatch("effect", s) \/ Dispatch("catlog", s) \/ Follow(s)
  \/ \E action \in NixActions : NixKey(action)
CommandStep ==
  \/ Take \/ StreamLog \/ Effected \/ Refresh \/ Fail
  \/ Names \/ Loaded \/ Tolerated \/ Started
DinitStep == Answer \/ Lose \/ \E s \in Services : Change(s) \/ LoadElsewhere(s) \/ Write(s)

Next ==
  \/ UserStep \/ FollowTick \/ RefreshTick
  \/ CommandStep \/ Built \/ ConsumeEvent
  \/ Read \/ ReaderEnds
  \/ DinitStep

Spec == Init /\ [][Next]_vars

(* In Spec a timer may fire at any moment.  Here its period passes only    *)
(* while the commands task waits for a command, connects, or is at a nix   *)
(* reload, which hold the queue for as long as they like; any other        *)
(* command, one request or two, is over before a timer fires again.        *)
TimePasses ==
  \/ worker # "running"
  \/ doing = None /\ queue = <<>>
  \/ doing # None /\ doing.action \in NixActions

TimedNext ==
  \/ UserStep
  \/ TimePasses /\ (FollowTick \/ RefreshTick)
  \/ CommandStep \/ Built \/ ConsumeEvent
  \/ Read \/ ReaderEnds
  \/ DinitStep

(* Tasks that can run do; dinit answers; the rebuild command ends; each    *)
(* timer fires for ever, whether its tick is dropped or not: it is strongly *)
(* fair because the other timer may fire first at every idle moment.       *)
FairSpec ==
  /\ Init /\ [][TimedNext]_vars
  /\ WF_vars(CommandStep) /\ WF_vars(Built) /\ WF_vars(ConsumeEvent)
  /\ WF_vars(Read) /\ WF_vars(ReaderEnds) /\ WF_vars(Answer)
  /\ SF_vars(TimePasses /\ RefreshTick) /\ SF_vars(TimePasses /\ FollowTick)

-----------------------------------------------------------------------------
(* Properties.                                                             *)

(* Every variable has its type, the queues keep their capacity, and a      *)
(* named service is one that this connection has a handle for.             *)
TypeOK ==
  /\ worker \in {"loading", "running", "ended"}
  /\ queue \in Seq([action : Actions \ {"connect"}, service : Services \union {None}])
  /\ Len(queue) <= Queue
  /\ doing \in Commands \union {None} /\ reply \in Replies \union {None}
  /\ following \in Services \union {None}
  /\ named \subseteq held /\ held \subseteq Services /\ files \subseteq Services
  /\ \A s \in Services : s \in held \/ rows[s] # None => actual[s] # None
  /\ {rows, actual} \subseteq Table
  /\ {shown, log} \subseteq [Services -> Seq(Nat)] /\ written \in [Services -> Nat]
  /\ failed \in BOOLEAN
  /\ link \in {"up", "down", "closed"}
  /\ stream \in Seq(Packets)
  /\ events \in Seq(Notices) /\ Len(events) <= EventBuffer
  /\ changes \in Nat /\ keys \in Nat

(* What has come from dinit and is not dealt with yet, and the lines in it: *)
(* one reply at most holds any.                                            *)
Arriving == ({reply} \ {None}) \union {stream[i] : i \in DOMAIN stream}
LinesIn(packets) ==
  LET lines == {p \in packets : p.kind = "lines"}
  IN IF lines = {} THEN <<>> ELSE (CHOOSE p \in lines : TRUE).of

(* The lines of s on their way to the screen. *)
Carried(s) ==
  IF doing # None /\ doing.action = "follow" /\ doing.service = s
  THEN LinesIn(Arriving) ELSE <<>>

(* Following shows each line that leaves dinit's buffer once and in order, *)
(* although keys switch what is followed while a poll is under way and     *)
(* other commands read the same buffer (app.py:205-220).                   *)
LinesOnce ==
  link = "up" => \A s \in Services :
    shown[s] \o Carried(s) \o log[s] = [i \in 1..written[s] |-> i]

(* A service that has a log buffer is followed until a key says otherwise, *)
(* whatever polls of other services come back (app.py:210-214).            *)
FollowKept ==
  [][keys' = keys /\ following' # following => following \notin Logging]_<<following, keys>>

(* Events are dropped when their buffer is full, skipped when their handle *)
(* has no name yet, and old ones may overwrite a newer refresh; the table  *)
(* still ends up showing the state of every service that is loaded, unless *)
(* the connection is lost or never got to work (app.py:170-183, 257,       *)
(* 417-419).                                                               *)
RowsCatchUp ==
  \/ <>[](\A s \in Services : actual[s] # None => rows[s] = actual[s])
  \/ <>(link # "up" \/ worker = "ended")

(* Every line that a followed service has logged comes to the screen, as   *)
(* long as it is followed and the connection holds, although a full queue  *)
(* drops polls while a nix reload holds the commands task (app.py:193,     *)
(* 205-220, 411-415).                                                      *)
Shows(s, n) == \E i \in DOMAIN shown[s] : shown[s][i] = n
FollowShows ==
  \A s \in Logging : \A n \in 1..MaxLines :
    following = s /\ written[s] >= n ~> Shows(s, n) \/ following # s \/ link # "up"

(* A lost connection shows: "a crash must show, not leave a dead screen"   *)
(* (app.py:150).                                                           *)
LossShows == link = "closed" ~> failed

(* Every command ends, and the next one is taken: a nix reload too, whose  *)
(* loops pass over every error while the connection is lost under them     *)
(* (app.py:185-203, 260-280).                                              *)
CommandsEnd == doing # None ~> doing = None
=============================================================================
