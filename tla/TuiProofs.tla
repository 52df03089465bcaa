------------------------------ MODULE TuiProofs ------------------------------
(***************************************************************************)
(* What TuiSession promises for every number of services, every capacity   *)
(* and every bound: its types, that following shows each line once and in  *)
(* order, and that no poll ends the following of a service with a log.     *)
(***************************************************************************)
EXTENDS TuiSession, SequenceTheorems, TLAPS

-----------------------------------------------------------------------------
(* The types, and what the rest of TypeOK needs: a command names what its  *)
(* request is about, a request that needs a loaded service has one, and at *)
(* most one answer is under way, to the request that was made.             *)

IsLoaded(s) == s \in Services /\ actual[s] # None

Purpose(d) ==
  /\ d \in Commands
  /\ d.ask \in {"load", "log"} => d.service \in Services
  /\ d.ask \in {"effect", "reload", "restart"} => IsLoaded(d.service)
  /\ d.ask \in {"reload", "restart"} => \A s \in d.todo : IsLoaded(s)
  /\ d.action = "follow" => d.ask = "log"
  /\ d.ask = "build" => ~d.sent

Purposeful == doing # None => Purpose(doing)

Queued ==
  \A i \in DOMAIN queue :
    /\ queue[i].action \in {"catlog", "follow"} => queue[i].service \in Services
    /\ queue[i].action = "effect" => IsLoaded(queue[i].service)

IsAnswer(p) == p.kind # "event"

Fits(p) ==
  /\ doing # None /\ ~doing.sent
  /\ p.kind = "lines" => doing.ask = "log"
  /\ p.kind = "list" => /\ doing.ask \in {"names", "list", "started"}
                        /\ \A s \in Services : p.of[s] # None => actual[s] # None
  /\ p.kind = "ack" => /\ doing.ask \in {"load", "effect", "reload", "restart"}
                       /\ doing.ask = "load" => doing.service \in held
  /\ p.kind = "nak" => /\ doing.ask \in {"load", "log", "effect", "reload", "restart"}
                       /\ doing.ask = "log" => doing.service \notin Logging

OneAnswer ==
  /\ reply # None => Fits(reply) /\ \A j \in DOMAIN stream : ~IsAnswer(stream[j])
  /\ \A j \in DOMAIN stream : IsAnswer(stream[j]) =>
       Fits(stream[j]) /\ \A k \in DOMAIN stream : IsAnswer(stream[k]) => k = j
  /\ link = "closed" => stream = <<>>

TInv == TypeOK /\ Purposeful /\ Queued /\ OneAnswer

-----------------------------------------------------------------------------
(* Commands.                                                               *)

LEMMA DoingType ==
  ASSUME NEW action \in Actions, NEW s \in Services \union {None}, NEW ask \in Asks
  PROVE  /\ Doing(action, s, ask) \in Commands
         /\ Doing(action, s, ask).action = action /\ Doing(action, s, ask).ask = ask
         /\ Doing(action, s, ask).service = s /\ Doing(action, s, ask).todo = {}
         /\ Doing(action, s, ask).sent = (ask # "build")
BY DEF Doing, Commands

(* A loop over names makes a request about one of them, or is over. *)
LEMMA EachOne ==
  ASSUME NEW action \in Actions, NEW ask \in Asks \ {"build"},
         NEW names \in SUBSET Services, NEW after
  PROVE  \/ names = {} /\ Each(action, ask, names, after) = after
         \/ \E d \in Commands : /\ Each(action, ask, names, after) = d
                                /\ d.action = action /\ d.ask = ask /\ d.sent
                                /\ d.service \in names /\ d.todo \subseteq names
<1>1. CASE names = {}
  BY <1>1 DEF Each
<1>2. CASE names # {}
  <2> DEFINE s == CHOOSE n \in names : TRUE
             d == [Doing(action, s, ask) EXCEPT !.todo = names \ {s}]
  <2>1. s \in names /\ s \in Services
    BY <1>2
  <2>2. Each(action, ask, names, after) = d
    BY <1>2 DEF Each
  <2> HIDE DEF s
  <2>3. /\ Doing(action, s, ask) \in Commands /\ Doing(action, s, ask).action = action
        /\ Doing(action, s, ask).ask = ask /\ Doing(action, s, ask).service = s
        /\ Doing(action, s, ask).sent = TRUE
    BY <2>1 DEF Doing, Commands
  <2>4. /\ d \in Commands /\ d.action = action /\ d.ask = ask /\ d.sent
        /\ d.service = s /\ d.todo = names \ {s}
    BY <2>3 DEF Commands
  <2>5. QED BY <2>1, <2>2, <2>4
<1>3. QED BY <1>1, <1>2

LoadedNames == {s \in Services : IsLoaded(s)}

LEMMA ListPurpose ==
  ASSUME NEW action \in Actions \ {"follow"}, NEW ask \in {"list", "started", "names"}
  PROVE  Purpose(Doing(action, None, ask))
BY DoingType DEF Purpose, Asks

LEMMA LoopPurpose ==
  ASSUME NEW action \in Actions \ {"follow"}, NEW names \in SUBSET LoadedNames,
         NEW ask \in {"reload", "restart"}, NEW after, Purpose(after)
  PROVE  Purpose(Each(action, ask, names, after))
<1>1. names \in SUBSET Services /\ ask \in Asks \ {"build"}
  BY DEF LoadedNames, Asks
<1>2. CASE Each(action, ask, names, after) = after
  BY <1>2
<1>3. ASSUME NEW d \in Commands, d.action = action, d.ask = ask, d.sent,
             d.service \in names, d.todo \subseteq names
      PROVE  Purpose(d)
  BY <1>1, <1>3 DEF Purpose, LoadedNames
<1>4. \/ Each(action, ask, names, after) = after
      \/ \E d \in Commands : /\ Each(action, ask, names, after) = d
                             /\ d.action = action /\ d.ask = ask /\ d.sent
                             /\ d.service \in names /\ d.todo \subseteq names
  BY <1>1, EachOne
<1>5. QED BY <1>2, <1>3, <1>4

LEMMA RestartsPurpose ==
  ASSUME NEW action \in Actions \ {"follow"}, NEW names \in SUBSET LoadedNames
  PROVE  Purpose(Restarts(action, names))
BY ListPurpose, LoopPurpose DEF Restarts

LEMMA ReloadsPurpose ==
  ASSUME NEW action \in Actions \ {"follow"}, NEW names \in SUBSET LoadedNames
  PROVE  Purpose(Reloads(action, names))
BY ListPurpose, LoopPurpose DEF Reloads

LEMMA LoadsPurpose ==
  ASSUME NEW action \in Actions \ {"follow"}, NEW names \in SUBSET Services,
         NEW known \in SUBSET LoadedNames
  PROVE  Purpose(Loads(action, names, known))
<1>1. "load" \in Asks \ {"build"}
  BY DEF Asks
<1>2. Purpose(IF action = "connect" THEN Doing(action, None, "list") ELSE Reloads(action, known))
  BY ListPurpose, ReloadsPurpose
<1>3. QED
  BY <1>1, <1>2, EachOne DEF Loads, Purpose

(* The loops go on with what a command says and with what is named. *)
LEMMA ContinuePurpose ==
  ASSUME TInv, doing # None, doing.ask \in {"load", "reload", "restart"},
         NEW known \in SUBSET LoadedNames
  PROVE  Purpose(Continue(known))
<1>1. Purpose(doing) /\ doing.action \in Actions \ {"follow"} /\ doing.todo \in SUBSET Services
  BY DEF TInv, Purposeful, Purpose, Commands
<1>2. CASE doing.ask = "load"
  BY <1>1, <1>2, LoadsPurpose DEF Continue
<1>3. CASE doing.ask = "reload"
  BY <1>1, <1>3, ReloadsPurpose DEF Continue, Purpose, LoadedNames
<1>4. CASE doing.ask = "restart"
  BY <1>1, <1>4, RestartsPurpose DEF Continue, Purpose, LoadedNames
<1>5. QED BY <1>2, <1>3, <1>4

-----------------------------------------------------------------------------
(* Frames.                                                                 *)

Grows == /\ \A s \in Services : actual[s] # None => actual'[s] # None
         /\ held \subseteq held'

LEMMA QueuedStays ==
  ASSUME Queued, UNCHANGED queue, Grows
  PROVE  Queued'
BY DEF Queued, Grows, IsLoaded

LEMMA PurposeStays ==
  ASSUME Purposeful, UNCHANGED doing, Grows
  PROVE  Purposeful'
BY DEF Purposeful, Purpose, Grows, IsLoaded

LEMMA AnswerStays ==
  ASSUME OneAnswer, UNCHANGED <<doing, reply, stream, link>>, Grows
  PROVE  OneAnswer'
BY DEF OneAnswer, Fits, Grows, IsAnswer

(* Nothing answers a command that has not been sent or is not there. *)
LEMMA NoAnswer ==
  ASSUME TInv, doing = None \/ doing.sent \/ doing.ask = "build"
  PROVE  reply = None /\ \A j \in DOMAIN stream : ~IsAnswer(stream[j])
<1>1. \A p \in Packets : IsAnswer(p) => p.kind \in {"ack", "nak", "lines", "list"}
  BY DEF Packets, Replies, IsAnswer
<1>2. \A p \in Replies : p.kind \in {"ack", "nak", "lines", "list"}
  BY DEF Replies
<1>3. \A p : p.kind \in {"ack", "nak", "lines", "list"} => ~Fits(p)
  BY DEF Fits
<1>4. reply \in Replies \union {None} /\ \A j \in DOMAIN stream : stream[j] \in Packets
  BY DEF TInv, TypeOK
<1>5. QED BY <1>1, <1>2, <1>3, <1>4 DEF TInv, OneAnswer

LEMMA TailType ==
  ASSUME NEW S, NEW q \in Seq(S), q # <<>>
  PROVE  /\ Head(q) = q[1] /\ 1 \in DOMAIN q /\ q[1] \in S
         /\ Tail(q) \in Seq(S) /\ Len(Tail(q)) = Len(q) - 1 /\ Len(q) \in Nat
         /\ \A i \in DOMAIN Tail(q) : i + 1 \in DOMAIN q /\ Tail(q)[i] = q[i + 1]
OBVIOUS

(* The step of a command, to the next request or to its end. *)
LEMMA CommandMoves ==
  ASSUME TInv, \A j \in DOMAIN stream : ~IsAnswer(stream[j]), reply' = None,
         doing' = None \/ Purpose(doing'), UNCHANGED <<stream, link, actual, held>>
  PROVE  /\ Purposeful' /\ OneAnswer'
         /\ doing' \in Commands \union {None} /\ reply' \in Replies \union {None}
         /\ queue' = queue => Queued'
<1>1. Purposeful'
  BY DEF Purposeful, Purpose, IsLoaded
<1>2. OneAnswer'
  BY DEF TInv, OneAnswer, IsAnswer
<1>3. queue' = queue => Queued'
  BY QueuedStays DEF TInv, Grows
<1>4. QED BY <1>1, <1>2, <1>3 DEF Purpose

-----------------------------------------------------------------------------
(* Keys and timers queue commands, and change little else.                 *)

LEMMA PushType ==
  ASSUME TInv, NEW action \in Actions \ {"connect"}, NEW s \in Services \union {None},
         action \in {"catlog", "follow"} => s \in Services, action = "effect" => IsLoaded(s),
         Push(action, s)
  PROVE  /\ queue' \in Seq([action : Actions \ {"connect"}, service : Services \union {None}])
         /\ Len(queue') <= Queue
         /\ UNCHANGED actual => Queued'
<1> DEFINE c == [action |-> action, service |-> s]
<1>1. /\ queue \in Seq([action : Actions \ {"connect"}, service : Services \union {None}])
      /\ Len(queue) <= Queue /\ Queue \in Nat /\ Len(queue) \in Nat
  BY SessionAssumption DEF TInv, TypeOK
<1>2. CASE queue' = queue
  BY <1>1, <1>2 DEF TInv, Queued, IsLoaded
<1>3. CASE Len(queue) < Queue /\ queue' = Append(queue, c)
  <2>1. /\ queue' \in Seq([action : Actions \ {"connect"}, service : Services \union {None}])
        /\ Len(queue') = Len(queue) + 1
        /\ \A i \in DOMAIN queue' : (i \in DOMAIN queue /\ queue'[i] = queue[i]) \/ queue'[i] = c
    BY <1>1, <1>3
  <2>2. UNCHANGED actual => Queued'
    BY <2>1 DEF TInv, Queued, IsLoaded
  <2>3. QED BY <1>1, <1>3, <2>1, <2>2
<1>4. QED BY <1>2, <1>3 DEF Push

LEMMA QueuesCommands ==
  ASSUME TInv, UserStep \/ FollowTick \/ RefreshTick
  PROVE  /\ queue' \in Seq([action : Actions \ {"connect"}, service : Services \union {None}])
         /\ Len(queue') <= Queue /\ Queued'
         /\ following' \in Services \union {None} /\ keys' \in Nat
         /\ UNCHANGED <<worker, doing, reply, named, rows, shown, failed, link, stream, events,
                        files, held, actual, log, written, changes>>
<1>1. keys \in Nat /\ following \in Services \union {None} /\ keys + 1 \in Nat
  BY DEF TInv, TypeOK
<1>2. \A s \in Services : rows[s] # None => IsLoaded(s)
  BY DEF TInv, TypeOK, IsLoaded
<1>3. UNCHANGED queue => Queued' \/ ~UNCHANGED actual
  BY DEF TInv, Queued, IsLoaded
<1>4. {"effect", "catlog", "follow", "refresh", "nix-reload", "rebuild-all"}
        \subseteq Actions \ {"connect"}
  BY DEF Actions, NixActions
<1>5. CASE \E s \in Services : Dispatch("effect", s) \/ Dispatch("catlog", s)
  BY <1>1, <1>2, <1>4, <1>5, PushType DEF Dispatch, Press, screen, net, dinit
<1>6. CASE \E s \in Services : Follow(s)
  BY <1>1, <1>3, <1>4, <1>6, PushType DEF Follow, Press, net, dinit, TInv, TypeOK
<1>7. CASE \E action \in NixActions : NixKey(action)
  BY <1>1, <1>4, <1>7, PushType DEF NixKey, NixActions, Press, screen, net, dinit
<1>8. CASE FollowTick
  BY <1>1, <1>4, <1>8, PushType DEF FollowTick, screen, net, dinit
<1>9. CASE RefreshTick
  BY <1>1, <1>4, <1>9, PushType DEF RefreshTick, screen, net, dinit
<1>10. QED BY <1>5, <1>6, <1>7, <1>8, <1>9 DEF UserStep

LEMMA QueueStepTInv ==
  ASSUME TInv, UserStep \/ FollowTick \/ RefreshTick
  PROVE  TInv'
<1>1. Purposeful' /\ OneAnswer'
  BY QueuesCommands, PurposeStays, AnswerStays DEF TInv, Grows
<1>2. TypeOK'
  BY QueuesCommands DEF TInv, TypeOK
<1>3. QED BY <1>1, <1>2, QueuesCommands DEF TInv

-----------------------------------------------------------------------------
(* The task that carries out commands.                                     *)

LEMMA TakeTInv ==
  ASSUME TInv, Take
  PROVE  TInv'
<1> DEFINE Cs == [action : Actions \ {"connect"}, service : Services \union {None}]
           c == Head(queue)
<1>1. /\ queue \in Seq(Cs) /\ queue # <<>> /\ Len(queue) <= Queue /\ Queue \in Nat
      /\ doing = None /\ UNCHANGED <<actual, held, reply, stream, link>>
      /\ queue' = Tail(queue) /\ doing' = Doing(c.action, c.service, AskOf(c.action))
  BY SessionAssumption DEF TInv, TypeOK, Take, dinit, net
<1>2. /\ c = queue[1] /\ 1 \in DOMAIN queue /\ c \in Cs
      /\ queue' \in Seq(Cs) /\ Len(queue') <= Queue
      /\ \A i \in DOMAIN queue' : i + 1 \in DOMAIN queue /\ queue'[i] = queue[i + 1]
  <2> HIDE DEF Cs
  <2>1. QED BY <1>1, TailType
<1>3. Queued'
  BY <1>1, <1>2 DEF TInv, Queued, IsLoaded
<1>4. /\ c.action \in Actions \ {"connect"} /\ c.service \in Services \union {None}
      /\ c.action \in {"catlog", "follow"} => c.service \in Services
      /\ c.action = "effect" => IsLoaded(c.service)
  BY <1>2 DEF TInv, Queued
<1>5. /\ AskOf(c.action) \in {"list", "log", "build", "effect"}
      /\ AskOf(c.action) = "log" => c.action \in {"follow", "catlog"}
      /\ AskOf(c.action) = "effect" => c.action = "effect"
      /\ c.action = "follow" => AskOf(c.action) = "log"
  BY <1>4 DEF AskOf, Actions, NixActions
<1> HIDE DEF c
<1>6. Purpose(doing')
  <2> DEFINE d == Doing(c.action, c.service, AskOf(c.action))
  <2>1. /\ d \in Commands /\ d.action = c.action /\ d.service = c.service
        /\ d.ask = AskOf(c.action) /\ d.todo = {} /\ d.sent = (d.ask # "build")
    BY <1>4, <1>5, DoingType DEF Asks
  <2> HIDE DEF d
  <2>2. Purpose(d)
    BY <1>4, <1>5, <2>1 DEF Purpose
  <2>3. QED BY <1>1, <2>2 DEF d
<1>7. reply = None /\ \A j \in DOMAIN stream : ~IsAnswer(stream[j])
  BY <1>1, NoAnswer
<1>8. /\ Purposeful' /\ OneAnswer'
      /\ doing' \in Commands \union {None} /\ reply' \in Replies \union {None}
  BY <1>1, <1>6, <1>7, CommandMoves
<1>9. TypeOK'
  BY <1>1, <1>2, <1>8 DEF TInv, TypeOK, Take, screen, net, dinit
<1>10. QED BY <1>3, <1>8, <1>9 DEF TInv

(* What an answer says about the command it ends. *)
LEMMA ReplyIs ==
  ASSUME TInv, reply # None
  PROVE  /\ reply \in Replies /\ Fits(reply) /\ Purpose(doing)
         /\ \A j \in DOMAIN stream : ~IsAnswer(stream[j])
         /\ reply.kind = "lines" => reply.of \in Seq(Nat)
         /\ reply.kind = "list" => reply.of \in Table
         /\ doing.ask = "log" => reply.kind \in {"lines", "nak"}
         /\ doing.ask = "load" => reply.kind \in {"ack", "nak"}
         /\ doing.ask \in {"names", "list", "started"} => reply.kind = "list"
<1>1. reply \in Replies /\ Fits(reply) /\ doing # None
  BY DEF TInv, TypeOK, OneAnswer, Fits
<1>2. reply.kind \in {"ack", "nak", "lines", "list"}
  BY <1>1 DEF Replies
<1>3. QED BY <1>1, <1>2 DEF TInv, OneAnswer, Purposeful, Fits, Replies

LEMMA StreamLogTInv ==
  ASSUME TInv, StreamLog
  PROVE  TInv'
<1>1. /\ doing # None /\ doing.ask = "log" /\ reply # None
      /\ doing' = None /\ reply' = None
      /\ UNCHANGED <<stream, link, actual, held, queue>>
  BY DEF StreamLog, Replied, net, dinit
<1>2. /\ Purposeful' /\ OneAnswer' /\ Queued'
  BY <1>1, ReplyIs, CommandMoves
<1>3. shown' \in [Services -> Seq(Nat)] /\ following' \in Services \union {None}
  <2>1. shown \in [Services -> Seq(Nat)] /\ doing.service \in Services
    BY <1>1, ReplyIs DEF TInv, TypeOK, Purpose
  <2>2. CASE reply.kind = "lines"
    <3>1. shown[doing.service] \o reply.of \in Seq(Nat)
      BY <1>1, <2>1, <2>2, ReplyIs
    <3>2. QED BY <2>1, <2>2, <3>1 DEF TInv, TypeOK, StreamLog
  <2>3. CASE reply.kind # "lines"
    BY <2>1, <2>3 DEF TInv, TypeOK, StreamLog
  <2>4. QED BY <2>2, <2>3
<1>4. TypeOK'
  BY <1>1, <1>3 DEF TInv, TypeOK, StreamLog, net, dinit
<1>5. QED BY <1>2, <1>4 DEF TInv

(* A command raises, or goes on to another request. *)
LEMMA CommandStepTInv ==
  ASSUME TInv, \A j \in DOMAIN stream : ~IsAnswer(stream[j]), reply' = None,
         doing' = None \/ Purpose(doing'),
         worker' \in {"loading", "running", "ended"}, failed' \in BOOLEAN,
         named' \subseteq held, rows' \in Table,
         \A s \in Services : rows'[s] # None => actual[s] # None,
         UNCHANGED <<queue, following, shown, net, dinit, keys>>
  PROVE  TInv'
<1>1. UNCHANGED <<queue, following, shown, link, stream, events, files, held, actual, log,
                  written, changes, keys>>
  BY DEF net, dinit
<1>2. /\ Purposeful' /\ OneAnswer' /\ Queued'
      /\ doing' \in Commands \union {None} /\ reply' \in Replies \union {None}
  BY <1>1, CommandMoves
<1>3. TypeOK'
  BY <1>1, <1>2 DEF TInv, TypeOK
<1>4. QED BY <1>2, <1>3 DEF TInv

LEMMA EffectedTInv ==
  ASSUME TInv, Effected
  PROVE  TInv'
<1>1. /\ reply # None /\ reply' = None
      /\ doing.ask = "effect" \/ doing.action = "catlog"
      /\ UNCHANGED <<queue, following, named, rows, shown, net, dinit, keys>>
  BY DEF Effected, Replied
<1>2. doing' = None \/ doing' = Doing(doing.action, None, "list")
  BY DEF Effected, Raise
<1>3. doing.action \in Actions \ {"follow"} /\ \A j \in DOMAIN stream : ~IsAnswer(stream[j])
  BY <1>1, ReplyIs DEF Purpose, Commands
<1>4. doing' = None \/ Purpose(doing')
  BY <1>2, <1>3, ListPurpose
<1>5. worker' \in {"loading", "running", "ended"} /\ failed' \in BOOLEAN
  BY DEF TInv, TypeOK, Effected, Raise
<1>6. QED BY <1>1, <1>3, <1>4, <1>5, CommandStepTInv DEF TInv, TypeOK

LEMMA NamedAreLoaded ==
  ASSUME TInv
  PROVE  named \in SUBSET LoadedNames /\ held \in SUBSET LoadedNames
BY DEF TInv, TypeOK, LoadedNames, IsLoaded

LEMMA NamesTInv ==
  ASSUME TInv, Names
  PROVE  TInv'
<1>1. /\ reply # None /\ reply' = None /\ doing.ask = "names"
      /\ doing' = Loads(doing.action, files \union {s \in Services : reply.of[s] # None}, named)
      /\ UNCHANGED <<worker, queue, following, named, rows, shown, failed, net, dinit, keys>>
  BY DEF Names, Replied, screen
<1>2. doing.action \in Actions \ {"follow"} /\ \A j \in DOMAIN stream : ~IsAnswer(stream[j])
  BY <1>1, ReplyIs DEF Purpose, Commands
<1>3. files \union {s \in Services : reply.of[s] # None} \in SUBSET Services
  BY DEF TInv, TypeOK
<1>4. Purpose(doing')
  BY <1>1, <1>2, <1>3, NamedAreLoaded, LoadsPurpose
<1>5. QED BY <1>1, <1>2, <1>4, CommandStepTInv DEF TInv, TypeOK

LEMMA LoadedTInv ==
  ASSUME TInv, Loaded
  PROVE  TInv'
<1>1. /\ reply # None /\ reply' = None /\ doing # None /\ doing.ask = "load"
      /\ UNCHANGED <<queue, following, rows, shown, net, dinit, keys>>
  BY DEF Loaded, Replied
<1>2. /\ doing.service \in Services /\ \A j \in DOMAIN stream : ~IsAnswer(stream[j])
      /\ reply.kind # "nak" => doing.service \in held
  BY <1>1, ReplyIs DEF Purpose, Fits
<1>3. named' \in SUBSET held
  BY <1>2 DEF TInv, TypeOK, Loaded
<1>4. doing' = None \/ doing' = Continue(named')
  BY DEF Loaded, Raise
<1>5. named' \in SUBSET LoadedNames
  BY <1>3, NamedAreLoaded
<1>6. doing' = None \/ Purpose(doing')
  BY <1>1, <1>4, <1>5, ContinuePurpose
<1>7. worker' \in {"loading", "running", "ended"} /\ failed' \in BOOLEAN
  BY DEF TInv, TypeOK, Loaded, Raise
<1>8. QED BY <1>1, <1>2, <1>3, <1>6, <1>7, CommandStepTInv DEF TInv, TypeOK

LEMMA ToleratedTInv ==
  ASSUME TInv, Tolerated
  PROVE  TInv'
<1>1. /\ reply # None /\ reply' = None /\ doing # None /\ doing.ask \in {"reload", "restart"}
      /\ doing' = Continue(named)
      /\ UNCHANGED <<worker, queue, following, named, rows, shown, failed, net, dinit, keys>>
  BY DEF Tolerated, Replied, screen
<1>2. Purpose(doing') /\ \A j \in DOMAIN stream : ~IsAnswer(stream[j])
  BY <1>1, ReplyIs, NamedAreLoaded, ContinuePurpose
<1>3. QED BY <1>1, <1>2, CommandStepTInv DEF TInv, TypeOK

LEMMA StartedTInv ==
  ASSUME TInv, Started
  PROVE  TInv'
<1> DEFINE names == {s \in Services : reply.of[s] = "started"}
<1>1. /\ reply # None /\ reply' = None /\ doing # None /\ doing.ask = "started"
      /\ doing' = Restarts(doing.action, names)
      /\ UNCHANGED <<worker, queue, following, named, rows, shown, failed, net, dinit, keys>>
  BY DEF Started, Replied, screen
<1>2. /\ doing.action \in Actions \ {"follow"} /\ \A j \in DOMAIN stream : ~IsAnswer(stream[j])
      /\ \A s \in Services : reply.of[s] # None => actual[s] # None
  BY <1>1, ReplyIs DEF Purpose, Commands, Fits
<1>3. names \in SUBSET LoadedNames
  BY <1>2, SessionAssumption DEF LoadedNames, IsLoaded
<1>4. Purpose(doing')
  BY <1>1, <1>2, <1>3, RestartsPurpose
<1>5. QED BY <1>1, <1>2, <1>4, CommandStepTInv DEF TInv, TypeOK

LEMMA RefreshTInv ==
  ASSUME TInv, Refresh
  PROVE  TInv'
<1>1. /\ reply # None /\ reply' = None /\ doing.ask = "list" /\ doing' = None
      /\ rows' = SetRows(reply.of) /\ worker' = "running"
      /\ UNCHANGED <<queue, following, named, shown, failed, net, dinit, keys>>
  BY DEF Refresh, Replied
<1>2. /\ \A j \in DOMAIN stream : ~IsAnswer(stream[j])
      /\ reply.of \in Table /\ \A s \in Services : reply.of[s] # None => actual[s] # None
  BY <1>1, ReplyIs DEF Fits
<1>3. /\ rows' \in Table
      /\ \A s \in Services : rows'[s] # None => actual[s] # None
  BY <1>1, <1>2 DEF TInv, TypeOK, SetRows, Table
<1>4. QED BY <1>1, <1>2, <1>3, CommandStepTInv DEF TInv, TypeOK

LEMMA FailTInv ==
  ASSUME TInv, Fail
  PROVE  TInv'
<1>1. /\ reply = None /\ reply' = None /\ doing # None /\ stream = <<>>
      /\ UNCHANGED <<queue, following, named, rows, shown, net, dinit, keys>>
  BY DEF TInv, OneAnswer, Fail, Unanswered
<1>2. \A j \in DOMAIN stream : ~IsAnswer(stream[j])
  BY <1>1
<1>3. CASE doing.ask \in {"reload", "restart"}
  <2>1. Purpose(doing') /\ UNCHANGED <<worker, failed>>
    BY <1>1, <1>3, NamedAreLoaded, ContinuePurpose DEF Fail
  <2>2. QED BY <1>1, <1>2, <2>1, CommandStepTInv DEF TInv, TypeOK
<1>4. CASE doing.ask \notin {"reload", "restart"}
  <2>1. doing' = None /\ worker' \in {"loading", "running", "ended"} /\ failed' \in BOOLEAN
    BY <1>4 DEF TInv, TypeOK, Fail, Raise
  <2>2. QED BY <1>1, <1>2, <2>1, CommandStepTInv DEF TInv, TypeOK
<1>5. QED BY <1>3, <1>4

LEMMA BuiltTInv ==
  ASSUME TInv, Built
  PROVE  TInv'
<1>1. /\ doing # None /\ doing.ask = "build"
      /\ UNCHANGED <<queue, reply, following, named, rows, shown, link, stream, events, held,
                     actual, log, written, changes, keys>>
  BY DEF Built, net
<1>2. reply = None /\ \A j \in DOMAIN stream : ~IsAnswer(stream[j])
  BY <1>1, NoAnswer
<1>3. doing.action \in Actions \ {"follow"} /\ NewFiles \ named \in SUBSET Services
  BY <1>1, SessionAssumption DEF TInv, Purposeful, Purpose, Commands
<1>4. doing' = None \/ Purpose(doing')
  BY <1>3, NamedAreLoaded, LoadsPurpose DEF Built, Raise
<1>5. /\ Purposeful' /\ OneAnswer' /\ Queued'
      /\ doing' \in Commands \union {None} /\ reply' \in Replies \union {None}
  BY <1>1, <1>2, <1>4, CommandMoves
<1>6. /\ files' \subseteq Services /\ worker' \in {"loading", "running", "ended"}
      /\ failed' \in BOOLEAN
  BY SessionAssumption DEF TInv, TypeOK, Built, Raise
<1>7. TypeOK'
  BY <1>1, <1>5, <1>6 DEF TInv, TypeOK
<1>8. QED BY <1>5, <1>7 DEF TInv

-----------------------------------------------------------------------------
(* The events task and the reader.                                         *)

LEMMA ConsumeEventTInv ==
  ASSUME TInv, ConsumeEvent
  PROVE  TInv'
<1> DEFINE e == Head(events)
<1>1. /\ events \in Seq(Notices) /\ events # <<>> /\ events' = Tail(events)
      /\ Len(events) <= EventBuffer /\ EventBuffer \in Nat /\ rows \in Table
      /\ UNCHANGED <<worker, queue, doing, reply, following, named, shown, failed, link, stream,
                     files, held, actual, log, written, changes, keys>>
  BY SessionAssumption DEF TInv, TypeOK, ConsumeEvent, dinit
<1>2. e \in Notices /\ events' \in Seq(Notices) /\ Len(events') <= EventBuffer
  BY <1>1, TailType
<1>3. rows' \in Table /\ \A s \in Services : rows'[s] # None => actual[s] # None
  <2>1. e.service \in Services /\ e.state \in States
    BY <1>2 DEF Notices
  <2>2. \A s \in named : s \in Services /\ actual[s] # None
    BY DEF TInv, TypeOK
  <2>3. \A s \in Services : rows[s] # None => actual[s] # None
    BY DEF TInv, TypeOK
  <2>4. rows' = IF e.service \in named THEN [rows EXCEPT ![e.service] = e.state] ELSE rows
    BY DEF ConsumeEvent
  <2> HIDE DEF e
  <2>5. QED BY <1>1, <2>1, <2>2, <2>3, <2>4 DEF Table
<1>4. TypeOK'
  BY <1>1, <1>2, <1>3 DEF TInv, TypeOK
<1>5. Purposeful' /\ Queued' /\ OneAnswer'
  BY <1>1, QueuedStays, PurposeStays, AnswerStays DEF TInv, Grows
<1>6. QED BY <1>4, <1>5 DEF TInv

LEMMA ReadTInv ==
  ASSUME TInv, Read
  PROVE  TInv'
<1> DEFINE packet == stream[1]
<1>1. /\ stream \in Seq(Packets) /\ stream # <<>> /\ stream' = Tail(stream) /\ link # "closed"
      /\ UNCHANGED <<worker, queue, doing, following, named, rows, shown, failed, link,
                     files, held, actual, log, written, changes, keys>>
  BY DEF TInv, TypeOK, Read, screen, dinit
<1>2. /\ Head(stream) = packet /\ 1 \in DOMAIN stream /\ packet \in Packets
      /\ stream' \in Seq(Packets)
      /\ \A j \in DOMAIN stream' : j + 1 \in DOMAIN stream /\ stream'[j] = stream[j + 1]
                                   /\ j + 1 # 1 /\ j \in Nat
  <2>1. \A j \in DOMAIN Tail(stream) : j + 1 # 1 /\ j \in Nat
    BY <1>1
  <2>2. QED BY <1>1, <2>1, TailType
<1>3. IF packet.kind = "event"
      THEN /\ events' = IF Len(events) < EventBuffer THEN Append(events, packet.of) ELSE events
           /\ UNCHANGED reply
      ELSE reply' = packet /\ UNCHANGED events
  BY <1>2 DEF Read
<1> HIDE DEF packet
<1>4. /\ events \in Seq(Notices) /\ Len(events) <= EventBuffer /\ EventBuffer \in Nat
      /\ reply \in Replies \union {None}
  BY SessionAssumption DEF TInv, TypeOK
<1>5. Purposeful' /\ Queued'
  BY <1>1, QueuedStays, PurposeStays DEF TInv, Grows
<1>6. CASE packet.kind = "event"
  <2>1. packet.of \in Notices /\ UNCHANGED reply
    BY <1>2, <1>3, <1>6 DEF Packets, Replies
  <2>2. events' \in Seq(Notices) /\ Len(events') <= EventBuffer
    BY <1>3, <1>4, <1>6, <2>1
  <2>3. OneAnswer'
    BY <1>1, <1>2, <2>1 DEF TInv, OneAnswer, Fits, IsAnswer
  <2>4. TypeOK'
    BY <1>1, <1>2, <2>1, <2>2 DEF TInv, TypeOK
  <2>5. QED BY <1>5, <2>3, <2>4 DEF TInv
<1>7. CASE packet.kind # "event"
  <2>1. packet \in Replies /\ reply' = packet /\ UNCHANGED events
    BY <1>2, <1>3, <1>7 DEF Packets
  <2>2. Fits(packet) /\ \A k \in DOMAIN stream : IsAnswer(stream[k]) => k = 1
    BY <1>2, <1>7 DEF TInv, OneAnswer, IsAnswer, packet
  <2>3. OneAnswer'
    BY <1>1, <1>2, <2>1, <2>2 DEF TInv, OneAnswer, Fits, IsAnswer
  <2>4. TypeOK'
    BY <1>1, <1>2, <1>4, <2>1 DEF TInv, TypeOK
  <2>5. QED BY <1>5, <2>3, <2>4 DEF TInv
<1>8. QED BY <1>6, <1>7

LEMMA LinkTInv ==
  ASSUME TInv, ReaderEnds \/ Lose
  PROVE  TInv'
<1>1. /\ UNCHANGED <<worker, queue, doing, reply, following, named, rows, shown, failed, events,
                     files, held, actual, log, written, changes, keys>>
      /\ stream' \in {stream, <<>>} /\ link' \in {"down", "closed"}
      /\ link' = "closed" => stream' = <<>>
  BY DEF ReaderEnds, Lose, screen, dinit
<1>2. Purposeful' /\ Queued'
  BY <1>1, QueuedStays, PurposeStays DEF TInv, Grows
<1>3. OneAnswer'
  BY <1>1 DEF TInv, OneAnswer, Fits, IsAnswer
<1>4. stream' \in Seq(Packets)
  <2>1. <<>> \in Seq(Packets) /\ stream \in Seq(Packets)
    BY DEF TInv, TypeOK
  <2>2. QED BY <1>1, <2>1
<1>5. TypeOK'
  BY <1>1, <1>4 DEF TInv, TypeOK
<1>6. QED BY <1>2, <1>3, <1>5 DEF TInv

-----------------------------------------------------------------------------
(* dinit.                                                                  *)

LEMMA SendType ==
  ASSUME stream \in Seq(Packets), NEW kind, NEW of, [kind |-> kind, of |-> of] \in Packets,
         Send(kind, of)
  PROVE  /\ stream' \in Seq(Packets) /\ Len(stream) + 1 \in DOMAIN stream'
         /\ stream'[Len(stream) + 1] = [kind |-> kind, of |-> of]
         /\ \A j \in DOMAIN stream' : j # Len(stream) + 1 =>
              j \in DOMAIN stream /\ stream'[j] = stream[j]
         /\ \A j \in DOMAIN stream : j \in DOMAIN stream' /\ j # Len(stream) + 1
BY DEF Send

LEMMA AnswerTInv ==
  ASSUME TInv, Answer
  PROVE  TInv'
<1>1. /\ link = "up" /\ doing # None /\ doing.sent /\ doing' = [doing EXCEPT !.sent = FALSE]
      /\ UNCHANGED <<worker, queue, reply, following, named, rows, shown, failed, link, events,
                     files, written, changes, keys>>
  BY DEF Answer, screen
<1>2. /\ Purpose(doing) /\ doing \in Commands /\ doing.ask # "build"
      /\ stream \in Seq(Packets)
      /\ reply = None /\ \A j \in DOMAIN stream : ~IsAnswer(stream[j])
  BY <1>1, NoAnswer DEF TInv, TypeOK, Purposeful, Purpose
<1>3. /\ doing' \in Commands /\ doing'.ask = doing.ask /\ doing'.service = doing.service
      /\ doing'.action = doing.action /\ doing'.todo = doing.todo /\ doing'.sent = FALSE
  BY <1>1, <1>2 DEF Commands
<1>4. doing' # None
  BY <1>3, SessionAssumption
<1>5. ASSUME NEW kind, NEW of, Send(kind, of), kind # "event",
             [kind |-> kind, of |-> of] \in Packets, Fits([kind |-> kind, of |-> of])'
      PROVE  OneAnswer'
  <2>1. \A j \in DOMAIN stream' : IsAnswer(stream'[j]) => j = Len(stream) + 1
    BY <1>2, <1>5, SendType
  <2>2. stream'[Len(stream) + 1] = [kind |-> kind, of |-> of]
    BY <1>2, <1>5, SendType
  <2>3. QED BY <1>1, <1>2, <1>5, <2>1, <2>2 DEF OneAnswer, IsAnswer
<1>6. /\ actual' \in Table /\ held' \subseteq Services /\ Grows
      /\ \A s \in held' : actual'[s] # None
      /\ log' \in [Services -> Seq(Nat)]
      /\ stream' \in Seq(Packets) /\ OneAnswer'
  <2>1. /\ actual \in Table /\ held \subseteq Services /\ \A s \in held : actual[s] # None
        /\ log \in [Services -> Seq(Nat)]
    BY DEF TInv, TypeOK
  <2>2. CASE AnswerLoad
    <3>1. /\ doing.ask = "load" /\ doing.service \in Services /\ log' = log
          /\ First \in States /\ First # None
      BY <1>2, <2>2, SessionAssumption DEF AnswerLoad, Purpose
    <3>2. CASE Send("ack", None) /\ held' = held \union {doing.service}
               /\ actual' = [actual EXCEPT ![doing.service] = IF @ = None THEN First ELSE @]
      <4>1. [kind |-> "ack", of |-> None] \in Packets
        BY DEF Packets, Replies
      <4>2. Fits([kind |-> "ack", of |-> None])'
        BY <1>3, <1>4, <3>1, <3>2 DEF Fits
      <4>3. /\ actual' \in Table /\ Grows /\ \A s \in held' : actual'[s] # None
            /\ held' \subseteq Services
        BY <2>1, <3>1, <3>2 DEF Grows, Table
      <4>4. QED BY <1>2, <1>5, <2>1, <3>1, <3>2, <4>1, <4>2, <4>3, SendType
    <3>3. CASE Send("nak", None) /\ UNCHANGED <<held, actual>>
      <4>1. [kind |-> "nak", of |-> None] \in Packets
        BY DEF Packets, Replies
      <4>2. Fits([kind |-> "nak", of |-> None])'
        BY <1>3, <1>4, <3>1, <3>3 DEF Fits
      <4>3. QED BY <1>2, <1>5, <2>1, <3>1, <3>3, <4>1, <4>2, SendType DEF Grows
    <3>4. QED BY <2>2, <3>2, <3>3 DEF AnswerLoad
  <2>3. CASE AnswerLog
    <3>1. doing.ask = "log" /\ doing.service \in Services /\ UNCHANGED <<held, actual>>
      BY <1>2, <2>3 DEF AnswerLog, Purpose
    <3>2. CASE doing.service \in Logging
      <4>1. PICK lines \in Seq(Nat) : lines = log[doing.service] /\ Send("lines", lines)
        BY <2>1, <2>3, <3>1, <3>2 DEF AnswerLog
      <4>2. log' \in [Services -> Seq(Nat)]
        <5>1. <<>> \in Seq(Nat)
          OBVIOUS
        <5>2. [log EXCEPT ![doing.service] = <<>>] \in [Services -> Seq(Nat)]
          BY <2>1, <5>1
        <5>3. log' = log \/ log' = [log EXCEPT ![doing.service] = <<>>]
          BY <2>3, <3>2 DEF AnswerLog
        <5>4. QED BY <2>1, <5>2, <5>3
      <4>3. [kind |-> "lines", of |-> lines] \in Packets
        BY DEF Packets, Replies
      <4>4. Fits([kind |-> "lines", of |-> lines])'
        BY <1>3, <1>4, <3>1, <3>2 DEF Fits
      <4>5. OneAnswer'
        BY <1>5, <4>1, <4>3, <4>4
      <4>6. QED BY <1>2, <2>1, <3>1, <4>1, <4>2, <4>3, <4>5, SendType DEF Grows
    <3>3. CASE doing.service \notin Logging
      <4>1. Send("nak", None) /\ log' = log
        BY <2>3, <3>3 DEF AnswerLog
      <4>2. [kind |-> "nak", of |-> None] \in Packets
        BY DEF Packets, Replies
      <4>3. Fits([kind |-> "nak", of |-> None])'
        BY <1>3, <1>4, <3>1, <3>3 DEF Fits
      <4>4. QED BY <1>2, <1>5, <2>1, <3>1, <4>1, <4>2, <4>3, SendType DEF Grows
    <3>4. QED BY <3>2, <3>3
  <2>4. CASE AnswerCommand
    <3>1. /\ doing.ask \in {"effect", "reload", "restart"} /\ IsLoaded(doing.service)
          /\ held' = held \union {doing.service} /\ UNCHANGED <<actual, log>>
      BY <1>2, <2>4 DEF AnswerCommand, Purpose
    <3>2. PICK kind \in {"ack", "nak"} : Send(kind, None)
      BY <2>4 DEF AnswerCommand
    <3>3. [kind |-> kind, of |-> None] \in Packets
      BY <3>2 DEF Packets, Replies
    <3>4. Fits([kind |-> kind, of |-> None])'
      BY <1>3, <1>4, <3>1, <3>2 DEF Fits
    <3>5. OneAnswer'
      BY <1>5, <3>2, <3>3, <3>4
    <3>6. QED BY <1>2, <2>1, <3>1, <3>2, <3>3, <3>5, SendType DEF Grows, IsLoaded
  <2>5. CASE AnswerList
    <3>1. /\ doing.ask \in {"names", "list", "started"} /\ Send("list", actual)
          /\ UNCHANGED <<held, actual, log>>
      BY <2>5 DEF AnswerList
    <3>2. [kind |-> "list", of |-> actual] \in Packets
      BY <2>1 DEF Packets, Replies
    <3>3. Fits([kind |-> "list", of |-> actual])'
      BY <1>3, <1>4, <3>1 DEF Fits
    <3>4. QED BY <1>2, <1>5, <2>1, <3>1, <3>2, <3>3, SendType DEF Grows
  <2>6. QED BY <2>2, <2>3, <2>4, <2>5 DEF Answer
<1>7. Queued'
  BY <1>1, <1>6, QueuedStays DEF TInv
<1>8. Purposeful'
  BY <1>2, <1>3, <1>6 DEF Purposeful, Purpose, Grows, IsLoaded
<1>9. TypeOK'
  BY <1>1, <1>3, <1>6 DEF TInv, TypeOK, Grows
<1>10. QED BY <1>6, <1>7, <1>8, <1>9 DEF TInv

LEMMA DinitAloneTInv ==
  ASSUME TInv, NEW s \in Services, Change(s) \/ LoadElsewhere(s) \/ Write(s)
  PROVE  TInv'
<1>1. /\ UNCHANGED <<worker, queue, doing, reply, following, named, rows, shown, failed, link,
                     events, files, held, keys>>
  BY DEF Change, LoadElsewhere, Write, screen, net
<1>2. /\ actual \in Table /\ log \in [Services -> Seq(Nat)] /\ written \in [Services -> Nat]
      /\ changes \in Nat /\ stream \in Seq(Packets)
      /\ First \in States /\ None \notin States
  BY SessionAssumption DEF TInv, TypeOK
<1>3. /\ actual' \in Table /\ Grows /\ changes' \in Nat
      /\ log' \in [Services -> Seq(Nat)] /\ written' \in [Services -> Nat]
  <2>1. CASE Change(s) \/ LoadElsewhere(s)
    <3>1. \E state \in States : actual' = [actual EXCEPT ![s] = state]
      BY <1>2, <2>1 DEF Change, LoadElsewhere
    <3>2. actual' \in Table /\ \A t \in Services : actual[t] # None => actual'[t] # None
      BY <1>2, <3>1 DEF Table
    <3>3. changes' = changes + 1 /\ UNCHANGED <<held, log, written>>
      BY <2>1 DEF Change, LoadElsewhere
    <3>4. QED BY <1>2, <3>2, <3>3 DEF Grows
  <2>2. CASE Write(s)
    <3>1. /\ written' = [written EXCEPT ![s] = @ + 1]
          /\ log' = [log EXCEPT ![s] = Append(@, written'[s])]
          /\ UNCHANGED <<actual, held, changes>>
      BY <2>2 DEF Write
    <3>2. written' \in [Services -> Nat]
      BY <1>2, <3>1
    <3>3. Append(log[s], written'[s]) \in Seq(Nat)
      BY <1>2, <3>2
    <3>4. log' \in [Services -> Seq(Nat)]
      BY <1>2, <3>1, <3>3
    <3>5. QED BY <1>2, <3>1, <3>2, <3>4 DEF Grows
  <2>3. QED BY <2>1, <2>2
<1>4. Purposeful' /\ Queued'
  BY <1>1, <1>3, QueuedStays, PurposeStays DEF TInv
<1>5. stream' \in Seq(Packets) /\ OneAnswer'
  <2>1. CASE UNCHANGED stream
    BY <1>1, <1>2, <1>3, <2>1, AnswerStays DEF TInv
  <2>2. CASE ~UNCHANGED stream
    <3>1. PICK state \in States :
            link = "up" /\ Send("event", [service |-> s, state |-> state])
      BY <2>2 DEF Change, LoadElsewhere, Write, net
    <3>2. [kind |-> "event", of |-> [service |-> s, state |-> state]] \in Packets
      BY DEF Packets, Notices
    <3>3. \A j \in DOMAIN stream' : IsAnswer(stream'[j]) =>
            j \in DOMAIN stream /\ stream'[j] = stream[j]
      BY <1>2, <3>1, <3>2, SendType DEF IsAnswer
    <3>4. \A p : Fits(p) => Fits(p)'
      BY <1>1, <1>3 DEF Fits, Grows
    <3>5. OneAnswer'
      BY <1>1, <3>1, <3>3, <3>4 DEF TInv, OneAnswer, IsAnswer
    <3>6. QED BY <1>2, <3>1, <3>2, <3>5, SendType
  <2>3. QED BY <2>1, <2>2
<1>6. TypeOK'
  BY <1>1, <1>3, <1>5 DEF TInv, TypeOK, Grows
<1>7. QED BY <1>4, <1>5, <1>6 DEF TInv

-----------------------------------------------------------------------------
(* The invariant.                                                          *)

LEMMA InitTInv == Init => TInv
<1>1. SUFFICES ASSUME Init PROVE TInv
  OBVIOUS
<1>2. /\ doing = Doing("connect", None, "names") /\ Purpose(doing)
  BY <1>1, ListPurpose DEF Init, Actions, NixActions
<1>3. queue = <<>> /\ stream = <<>> /\ events = <<>> /\ reply = None /\ link = "up"
  BY <1>1 DEF Init
<1>4. {rows, actual} \subseteq Table
  BY <1>1, SessionAssumption DEF Init, Table
<1>5. {shown, log} \subseteq [Services -> Seq(Nat)] /\ written \in [Services -> Nat]
  BY <1>1 DEF Init
<1>6. TypeOK
  <2>1. /\ queue \in Seq([action : Actions \ {"connect"}, service : Services \union {None}])
        /\ stream \in Seq(Packets) /\ events \in Seq(Notices)
        /\ Len(queue) = 0 /\ Len(events) = 0
    BY <1>3
  <2>2. \A s \in Services : rows[s] = None
    BY <1>1 DEF Init
  <2>3. Queue \in Nat /\ EventBuffer \in Nat /\ FirstFiles \subseteq Services
    BY SessionAssumption
  <2>4. doing \in Commands
    BY <1>2 DEF Purpose
  <2>5. /\ worker = "loading" /\ following = None /\ named = {} /\ held = {} /\ failed = FALSE
        /\ files = FirstFiles /\ changes = 0 /\ keys = 0
    BY <1>1 DEF Init
  <2>6. Len(queue) <= Queue /\ Len(events) <= EventBuffer
    BY <2>1, <2>3
  <2>7. \A s \in Services : s \in held \/ rows[s] # None => actual[s] # None
    BY <2>2, <2>5
  <2>8. named \subseteq held /\ held \subseteq Services /\ files \subseteq Services
    BY <2>3, <2>5
  <2>9. QED BY <1>3, <1>4, <1>5, <2>1, <2>4, <2>5, <2>6, <2>7, <2>8 DEF TypeOK
<1>7. QED
  BY <1>2, <1>3, <1>6 DEF TInv, Purposeful, Queued, OneAnswer

LEMMA NextTInv == TInv /\ [Next]_vars => TInv'
<1>1. SUFFICES ASSUME TInv, [Next]_vars PROVE TInv'
  OBVIOUS
<1>2. CASE UNCHANGED vars
  <2>1. UNCHANGED <<worker, queue, doing, reply, following, named, rows, shown, failed, link,
                    stream, events, files, held, actual, log, written, changes, keys>>
    BY <1>2 DEF vars, screen, net, dinit
  <2>2. Purposeful' /\ Queued' /\ OneAnswer'
    BY <1>1, <2>1, QueuedStays, PurposeStays, AnswerStays DEF TInv, Grows
  <2>3. TypeOK'
    BY <1>1, <2>1 DEF TInv, TypeOK
  <2>4. QED BY <2>2, <2>3 DEF TInv
<1>3. CASE CommandStep
  BY <1>1, <1>3, TakeTInv, StreamLogTInv, EffectedTInv, RefreshTInv, FailTInv, NamesTInv,
     LoadedTInv, ToleratedTInv, StartedTInv DEF CommandStep
<1>4. CASE DinitStep
  BY <1>1, <1>4, AnswerTInv, LinkTInv, DinitAloneTInv DEF DinitStep
<1>5. QED
  BY <1>1, <1>2, <1>3, <1>4, QueueStepTInv, BuiltTInv, ConsumeEventTInv, ReadTInv, LinkTInv
     DEF Next

(* Whatever keys, timers and answers interleave, a command names what its  *)
(* request is about, at most one answer is under way, and it is to that    *)
(* request (app.py:185-281).                                               *)
THEOREM SessionInvariant == Spec => []TInv
<1>1. QED BY InitTInv, NextTInv, PTL DEF Spec

(* Every variable has its type, the queues keep their capacity, and every  *)
(* service with a name, a handle or a row is loaded (app.py:96-118).       *)
THEOREM SessionTypeCorrect == Spec => []TypeOK
<1>1. TInv => TypeOK
  BY DEF TInv
<1>2. QED BY <1>1, SessionInvariant, PTL

-----------------------------------------------------------------------------
(* Following shows each line once.                                         *)

LEMMA NoneIn ==
  ASSUME NEW packets, \A p \in packets : p.kind # "lines"
  PROVE  LinesIn(packets) = <<>>
<1>1. {p \in packets : p.kind = "lines"} = {}
  OBVIOUS
<1>2. QED BY <1>1 DEF LinesIn

LEMMA OneIn ==
  ASSUME NEW packets, NEW p \in packets, p.kind = "lines",
         \A q \in packets : q.kind = "lines" => q = p
  PROVE  LinesIn(packets) = p.of
<1>1. {q \in packets : q.kind = "lines"} = {p}
  OBVIOUS
<1>2. (CHOOSE q \in {p} : TRUE) = p
  OBVIOUS
<1>3. QED BY <1>1, <1>2 DEF LinesIn

LEMMA SameIn ==
  ASSUME NEW packets, NEW others,
         \A p : p.kind = "lines" => (p \in packets) = (p \in others),
         \A p, q \in packets : p.kind = "lines" /\ q.kind = "lines" => p = q
  PROVE  LinesIn(packets) = LinesIn(others)
<1>1. CASE \E p \in packets : p.kind = "lines"
  <2>1. PICK p \in packets : p.kind = "lines"
    BY <1>1
  <2>2. LinesIn(packets) = p.of
    BY <2>1, OneIn
  <2>3. LinesIn(others) = p.of
    BY <2>1, OneIn
  <2>4. QED BY <2>2, <2>3
<1>2. CASE \A p \in packets : p.kind # "lines"
  BY <1>2, NoneIn
<1>3. QED BY <1>1, <1>2

(* The reply holds all the lines that have come, when there is a reply. *)
LEMMA LinesInReply ==
  ASSUME TInv, reply # None
  PROVE  LinesIn(Arriving) = IF reply.kind = "lines" THEN reply.of ELSE <<>>
<1>1. \A j \in DOMAIN stream : stream[j].kind = "event"
  BY DEF TInv, OneAnswer, IsAnswer
<1>2. reply \in Arriving /\ \A p \in Arriving : p = reply \/ p.kind = "event"
  BY <1>1 DEF Arriving
<1>3. CASE reply.kind = "lines"
  BY <1>2, <1>3, OneIn
<1>4. CASE reply.kind # "lines"
  BY <1>2, <1>4, NoneIn
<1>5. QED BY <1>3, <1>4

LEMMA OneArrives ==
  ASSUME TInv, NEW p \in Arriving, NEW q \in Arriving, p.kind = "lines", q.kind = "lines"
  PROVE  p = q
<1>1. reply # None => \A j \in DOMAIN stream : stream[j].kind = "event"
  BY DEF TInv, OneAnswer, IsAnswer
<1>2. \A j, k \in DOMAIN stream : stream[j].kind = "lines" /\ stream[k].kind = "lines" => k = j
  BY DEF TInv, OneAnswer, IsAnswer
<1>3. QED BY <1>1, <1>2 DEF Arriving

LEMMA NothingArrives ==
  ASSUME TInv, doing = None \/ doing.sent \/ doing.ask = "build"
  PROVE  LinesIn(Arriving) = <<>>
<1>1. \A p \in Arriving : p.kind = "event"
  BY NoAnswer DEF Arriving, IsAnswer
<1>2. QED BY <1>1, NoneIn

LEMMA CarriedType ==
  ASSUME TInv, NEW s
  PROVE  Carried(s) \in Seq(Nat)
<1>1. \A p \in Packets : p.kind = "lines" => p.of \in Seq(Nat)
  BY DEF Packets, Replies
<1>2. \A p \in Arriving : p \in Packets
  BY DEF Arriving, TInv, TypeOK, Packets
<1>3. LinesIn(Arriving) \in Seq(Nat)
  <2> DEFINE lines == {p \in Arriving : p.kind = "lines"}
  <2>1. CASE lines = {}
    BY <2>1 DEF LinesIn
  <2>2. CASE lines # {}
    <3>1. (CHOOSE p \in lines : TRUE) \in lines
      BY <2>2
    <3>2. LinesIn(Arriving) = (CHOOSE p \in lines : TRUE).of
      BY <2>2 DEF LinesIn
    <3> HIDE DEF lines
    <3>3. \A p \in lines : p.of \in Seq(Nat)
      BY <1>1, <1>2 DEF lines
    <3>4. QED BY <3>1, <3>2, <3>3
  <2>3. QED BY <2>1, <2>2
<1>4. QED BY <1>3 DEF Carried

(* A step that shows, writes and empties nothing. *)
LEMMA LinesStay ==
  ASSUME LinesOnce, link' = "up" => link = "up", UNCHANGED <<shown, log, written>>,
         link' = "up" => \A s \in Services : Carried(s)' = Carried(s)
  PROVE  LinesOnce'
BY DEF LinesOnce

(* Neither does a step from a state, to a state, that carries no lines. *)
LEMMA NoLinesStay ==
  ASSUME LinesOnce, link' = "up" => link = "up", UNCHANGED <<shown, log, written>>,
         LinesIn(Arriving) = <<>> \/ doing = None \/ doing.action # "follow",
         LinesIn(Arriving)' = <<>> \/ doing' = None \/ doing'.action # "follow"
  PROVE  LinesOnce'
<1>1. \A s \in Services : Carried(s)' = Carried(s)
  BY DEF Carried
<1>2. QED BY <1>1, LinesStay

LEMMA SameLinesStay ==
  ASSUME TInv, LinesOnce, UNCHANGED <<shown, log, written, link, doing>>,
         \A p : p.kind = "lines" => (p \in Arriving') = (p \in Arriving)
  PROVE  LinesOnce'
<1>1. LinesIn(Arriving') = LinesIn(Arriving)
  BY SameIn, OneArrives
<1>2. \A s \in Services : Carried(s)' = Carried(s)
  BY <1>1 DEF Carried
<1>3. QED BY <1>2, LinesStay

LEMMA StreamLogLines ==
  ASSUME TInv, LinesOnce, StreamLog
  PROVE  LinesOnce'
<1>1. /\ doing # None /\ doing.action = "follow" /\ doing.ask = "log" /\ reply # None
      /\ doing' = None /\ UNCHANGED <<log, written, link>>
  BY DEF StreamLog, Replied, net, dinit
<1>2. \A s \in Services : Carried(s)' = <<>>
  BY <1>1 DEF Carried
<1>3. CASE reply.kind = "lines"
  <2> DEFINE d == doing.service
  <2>1. /\ reply.of \in Seq(Nat) /\ d \in Services /\ shown \in [Services -> Seq(Nat)]
        /\ log \in [Services -> Seq(Nat)]
    BY <1>1, <1>3, ReplyIs DEF Purpose, TInv, TypeOK
  <2>2. shown' = [shown EXCEPT ![d] = @ \o reply.of]
    BY <1>3 DEF StreamLog
  <2>3. \A s \in Services : Carried(s) = IF s = d THEN reply.of ELSE <<>>
    BY <1>1, <1>3, LinesInReply DEF Carried
  <2> HIDE DEF d
  <2>4. \A s \in Services : shown'[s] = shown[s] \o Carried(s) /\ shown'[s] \in Seq(Nat)
    <3>1. \A s \in Services : shown[s] \o <<>> = shown[s] /\ shown[s] \o reply.of \in Seq(Nat)
      BY <2>1
    <3>2. QED BY <2>1, <2>2, <2>3, <3>1
  <2>5. \A s \in Services : shown'[s] \o <<>> = shown'[s]
    BY <2>4
  <2>6. QED BY <1>1, <1>2, <2>4, <2>5 DEF LinesOnce
<1>4. CASE reply.kind # "lines"
  <2>1. LinesIn(Arriving) = <<>> /\ UNCHANGED shown
    BY <1>1, <1>4, LinesInReply DEF StreamLog
  <2>2. QED BY <1>1, <2>1, NoLinesStay
<1>5. QED BY <1>3, <1>4

LEMMA CommandLines ==
  ASSUME TInv, LinesOnce, CommandStep \/ Built
  PROVE  LinesOnce'
<1>1. CASE StreamLog
  BY <1>1, StreamLogLines
<1>2. CASE Fail
  <2>1. link' = "closed"
    BY <1>2 DEF Fail, Unanswered, net
  <2>2. QED BY <2>1 DEF LinesOnce
<1>3. CASE Take \/ Built
  <2>1. /\ UNCHANGED <<shown, log, written, link, reply, stream>>
        /\ doing = None \/ doing.ask = "build"
    BY <1>3 DEF Take, Built, screen, net, dinit
  <2>2. LinesIn(Arriving) = <<>> /\ UNCHANGED Arriving
    BY <2>1, NothingArrives DEF Arriving
  <2>3. QED BY <2>1, <2>2, NoLinesStay
<1>4. CASE Effected \/ Names \/ Loaded \/ Tolerated \/ Started \/ Refresh
  <2>1. /\ UNCHANGED <<shown, log, written, link, stream>> /\ reply # None /\ reply' = None
        /\ doing.ask # "log" \/ doing.action = "catlog"
    BY <1>4 DEF Effected, Names, Loaded, Tolerated, Started, Refresh, Replied, screen, net, dinit
  <2>2. LinesIn(Arriving) = <<>> \/ doing.action # "follow"
    <3>1. doing.ask # "log" => reply.kind # "lines"
      BY <2>1, ReplyIs DEF Fits
    <3>2. QED BY <2>1, <3>1, LinesInReply
  <2>3. LinesIn(Arriving') = <<>>
    <3>1. \A p \in Arriving' : p.kind = "event"
      BY <2>1, ReplyIs DEF Arriving, IsAnswer
    <3>2. QED BY <3>1, NoneIn
  <2>4. QED BY <2>1, <2>2, <2>3, NoLinesStay
<1>5. QED BY <1>1, <1>2, <1>3, <1>4 DEF CommandStep

LEMMA ReadLines ==
  ASSUME TInv, LinesOnce, Read
  PROVE  LinesOnce'
<1> DEFINE packet == stream[1]
<1>1. /\ stream \in Seq(Packets) /\ stream # <<>> /\ stream' = Tail(stream)
      /\ UNCHANGED <<shown, log, written, link, doing>>
  BY DEF TInv, TypeOK, Read, screen, dinit
<1>2. Head(stream) = packet /\ 1 \in DOMAIN stream /\ packet \in Packets
  BY <1>1, TailType
<1>3. IF packet.kind = "event" THEN UNCHANGED reply ELSE reply' = packet
  BY <1>2 DEF Read
<1>4. \A p : (\E j \in DOMAIN stream : p = stream[j])
               <=> p = packet \/ \E j \in DOMAIN stream' : p = stream'[j]
  <2>1. \A j \in DOMAIN stream' : j + 1 \in DOMAIN stream /\ stream'[j] = stream[j + 1]
    BY <1>1, TailType
  <2>2. \A j \in DOMAIN stream : j = 1 \/ (j - 1 \in DOMAIN stream' /\ stream'[j - 1] = stream[j])
    BY <1>1
  <2>3. QED BY <1>2, <2>1, <2>2
<1>5. CASE packet.kind = "event"
  <2>1. \A p : p.kind = "lines" => (p \in Arriving') = (p \in Arriving)
    BY <1>3, <1>4, <1>5 DEF Arriving
  <2>2. QED BY <1>1, <2>1, SameLinesStay
<1>6. CASE packet.kind # "event"
  <2>1. reply = None
    BY <1>2, <1>6 DEF TInv, OneAnswer, IsAnswer
  <2>2. packet # None
    BY <1>2, <1>6, SessionAssumption DEF Packets
  <2>3. \A p : (p \in Arriving') = (p \in Arriving)
    BY <1>3, <1>4, <1>6, <2>1, <2>2 DEF Arriving
  <2>4. QED BY <1>1, <2>3, SameLinesStay
<1>7. QED BY <1>5, <1>6

(* A packet that dinit sends joins what arrives. *)
LEMMA ArrivingAfterSend ==
  ASSUME TInv, NEW kind, NEW of, Send(kind, of), UNCHANGED reply
  PROVE  Arriving' = Arriving \union {[kind |-> kind, of |-> of]}
<1> DEFINE packet == [kind |-> kind, of |-> of]
<1>1. /\ stream \in Seq(Packets) /\ stream' = Append(stream, packet)
      /\ \A j \in DOMAIN stream : j \in DOMAIN stream' /\ stream'[j] = stream[j]
      /\ \A j \in DOMAIN stream' : j \in DOMAIN stream \/ stream'[j] = packet
      /\ Len(stream) + 1 \in DOMAIN stream' /\ stream'[Len(stream) + 1] = packet
  <2>1. stream \in Seq(Packets) /\ stream' = Append(stream, packet)
    BY DEF TInv, TypeOK, Send
  <2> HIDE DEF packet
  <2>2. QED BY <2>1
<1> HIDE DEF packet
<1>2. QED BY <1>1 DEF Arriving, packet

LEMMA AnswerLines ==
  ASSUME TInv, LinesOnce, Answer
  PROVE  LinesOnce'
<1>1. /\ link = "up" /\ doing # None /\ doing.sent /\ doing' = [doing EXCEPT !.sent = FALSE]
      /\ UNCHANGED <<shown, written, link, reply>>
  BY DEF Answer, screen
<1>2. /\ doing \in Commands /\ Purpose(doing) /\ doing' \in Commands /\ doing' # None
      /\ doing'.ask = doing.ask /\ doing'.action = doing.action /\ doing'.service = doing.service
  <2>1. doing \in Commands /\ Purpose(doing)
    BY <1>1 DEF TInv, Purposeful, Purpose
  <2>2. QED BY <1>1, <2>1, SessionAssumption DEF Commands
<1>3. LinesIn(Arriving) = <<>> /\ \A p \in Arriving : p.kind = "event"
  BY <1>1, NoAnswer, NothingArrives DEF Arriving, IsAnswer
<1>4. ASSUME NEW kind, kind # "lines", NEW of, Send(kind, of), UNCHANGED log
      PROVE  LinesOnce'
  <2>1. \A p \in Arriving' : p.kind # "lines"
    BY <1>1, <1>3, <1>4, ArrivingAfterSend
  <2>2. LinesIn(Arriving') = <<>>
    BY <2>1, NoneIn
  <2>3. QED BY <1>1, <1>3, <1>4, <2>2, NoLinesStay
<1>5. CASE AnswerLog /\ doing.service \in Logging
  <2> DEFINE d == doing.service
  <2>1. PICK lines : lines = log[d] /\ Send("lines", lines)
    BY <1>5 DEF AnswerLog
  <2>2. d \in Services /\ {shown, log} \subseteq [Services -> Seq(Nat)]
    BY <1>2, <1>5 DEF AnswerLog, Purpose, TInv, TypeOK
  <2>3. CASE doing.action # "follow"
    BY <1>1, <1>2, <1>5, <2>3, NoLinesStay DEF AnswerLog, Clears
  <2>4. CASE doing.action = "follow"
    <3>1. log' = [log EXCEPT ![d] = <<>>]
      BY <1>5, <2>4 DEF AnswerLog, Clears
    <3>2. LinesIn(Arriving') = lines
      <4> DEFINE packet == [kind |-> "lines", of |-> lines]
      <4>1. packet \in Arriving' /\ \A q \in Arriving' : q.kind = "lines" => q = packet
        BY <1>1, <1>3, <2>1, ArrivingAfterSend
      <4>2. packet.kind = "lines" /\ packet.of = lines
        OBVIOUS
      <4> HIDE DEF packet
      <4>3. QED BY <4>1, <4>2, OneIn
    <3>3. \A s \in Services : /\ Carried(s) = <<>>
                              /\ Carried(s)' = IF s = d THEN lines ELSE <<>>
      BY <1>2, <1>3, <2>4, <3>2 DEF Carried
    <3> HIDE DEF d
    <3>4. \A s \in Services : shown[s] \o <<>> \o log[s] = shown[s] \o Carried(s)' \o log'[s]
      <4>1. shown[d] \o <<>> \o lines = shown[d] \o lines \o <<>>
        BY <2>1, <2>2
      <4>2. log'[d] = <<>> /\ \A s \in Services : s # d => log'[s] = log[s]
        BY <2>2, <3>1
      <4>3. QED BY <2>1, <3>3, <4>1, <4>2
    <3>5. QED BY <1>1, <3>3, <3>4 DEF LinesOnce
  <2>5. QED BY <2>3, <2>4
<1>6. CASE AnswerLog /\ doing.service \notin Logging
  BY <1>4, <1>6 DEF AnswerLog
<1>7. CASE AnswerLoad \/ AnswerCommand \/ AnswerList
  BY <1>4, <1>7 DEF AnswerLoad, AnswerCommand, AnswerList
<1>8. QED BY <1>5, <1>6, <1>7 DEF Answer

LEMMA ChangeLines ==
  ASSUME TInv, LinesOnce, NEW s \in Services, Change(s)
  PROVE  LinesOnce'
<1>1. UNCHANGED <<shown, log, written, link, doing, reply>>
  BY DEF Change, screen
<1>2. CASE UNCHANGED stream
  BY <1>1, <1>2, SameLinesStay DEF Arriving
<1>3. CASE ~UNCHANGED stream
  <2>1. PICK of : Send("event", of)
    BY <1>3 DEF Change
  <2>2. Arriving' = Arriving \union {[kind |-> "event", of |-> of]}
    BY <1>1, <2>1, ArrivingAfterSend
  <2>3. QED BY <1>1, <2>2, SameLinesStay
<1>4. QED BY <1>2, <1>3

Lines(n) == [i \in 1..n |-> i]

LEMMA AppendLast ==
  ASSUME NEW a \in Seq(Nat), NEW b \in Seq(Nat), NEW x \in Nat
  PROVE  a \o Append(b, x) = Append(a \o b, x)
OBVIOUS

LEMMA Numbered ==
  ASSUME NEW a \in Seq(Nat), NEW b \in Seq(Nat), NEW n \in Nat, a \o b = Lines(n)
  PROVE  a \o Append(b, n + 1) = Lines(n + 1)
<1>1. a \o b \in Seq(Nat) /\ Len(a \o b) = n
  BY DEF Lines
<1>2. Append(a \o b, n + 1) = Lines(n + 1)
  BY <1>1 DEF Lines
<1>3. n + 1 \in Nat
  OBVIOUS
<1>4. a \o Append(b, n + 1) = Append(a \o b, n + 1)
  BY <1>3, AppendLast
<1>5. QED BY <1>2, <1>4

LEMMA WriteLines ==
  ASSUME TInv, LinesOnce, NEW d \in Services, Write(d)
  PROVE  LinesOnce'
<1>1. /\ written \in [Services -> Nat] /\ {shown, log} \subseteq [Services -> Seq(Nat)]
      /\ written' = [written EXCEPT ![d] = @ + 1]
      /\ log' = [log EXCEPT ![d] = Append(@, written'[d])]
      /\ UNCHANGED <<shown, link, doing, reply, stream>>
  BY DEF Write, TInv, TypeOK, screen, net
<1>2. \A s : Carried(s)' = Carried(s) /\ Carried(s) \in Seq(Nat)
  BY <1>1, CarriedType DEF Carried, Arriving
<1>3. ASSUME link = "up", NEW s \in Services
      PROVE  shown[s] \o Carried(s) \o log'[s] = [i \in 1..written'[s] |-> i]
  <2>1. shown[s] \o Carried(s) \o log[s] = [i \in 1..written[s] |-> i]
    BY <1>3 DEF LinesOnce
  <2>2. CASE s # d
    BY <1>1, <2>1, <2>2
  <2>3. CASE s = d
    <3> DEFINE a == shown[d] \o Carried(d)
    <3>1. a \in Seq(Nat) /\ log[d] \in Seq(Nat) /\ written[d] \in Nat
      BY <1>1, <1>2
    <3>2. a \o log[d] = [i \in 1..written[d] |-> i]
      BY <2>1, <2>3
    <3>3. log'[d] = Append(log[d], written[d] + 1) /\ written'[d] = written[d] + 1
      BY <1>1
    <3>4. PICK x \in Seq(Nat), y \in Seq(Nat), n \in Nat : x = a /\ y = log[d] /\ n = written[d]
      BY <3>1
    <3>5. x \o y = Lines(n)
      BY <3>2, <3>4 DEF Lines
    <3>6. x \o Append(y, n + 1) = Lines(n + 1)
      BY <3>5, Numbered
    <3>7. QED BY <2>3, <3>3, <3>4, <3>6 DEF Lines
  <2>4. QED BY <2>2, <2>3
<1>4. QED BY <1>1, <1>2, <1>3 DEF LinesOnce

LEMMA NextLines == TInv /\ LinesOnce /\ [Next]_vars => LinesOnce'
<1>1. SUFFICES ASSUME TInv, LinesOnce, [Next]_vars PROVE LinesOnce'
  OBVIOUS
<1>2. CASE UserStep \/ FollowTick \/ RefreshTick
  <2>1. UNCHANGED <<shown, log, written, link, doing, reply, stream>>
    BY <1>1, <1>2, QueuesCommands
  <2>2. QED BY <1>1, <2>1, SameLinesStay DEF Arriving
<1>3. CASE ConsumeEvent \/ UNCHANGED vars \/ \E s \in Services : LoadElsewhere(s)
  <2>1. UNCHANGED <<shown, log, written, link, doing, reply, stream>>
    BY <1>3 DEF ConsumeEvent, LoadElsewhere, vars, screen, net, dinit
  <2>2. QED BY <1>1, <2>1, SameLinesStay DEF Arriving
<1>4. CASE ReaderEnds \/ Lose
  <2>1. link' # "up"
    BY <1>4 DEF ReaderEnds, Lose
  <2>2. QED BY <2>1 DEF LinesOnce
<1>5. QED
  BY <1>1, <1>2, <1>3, <1>4, CommandLines, ReadLines, AnswerLines, ChangeLines, WriteLines
     DEF Next, DinitStep

(* Whatever the keys follow while a poll is under way, and whatever else   *)
(* reads the buffer, following shows each line that leaves dinit's buffer  *)
(* once and in order (app.py:205-220).                                     *)
THEOREM LinesShownOnce == Spec => []LinesOnce
<1>1. Init => LinesOnce
  <2>1. SUFFICES ASSUME Init, NEW s \in Services
        PROVE  shown[s] \o Carried(s) \o log[s] = [i \in 1..written[s] |-> i]
    BY DEF LinesOnce
  <2>2. doing.action = "connect"
    BY <2>1 DEF Init, Doing
  <2>3. Carried(s) = <<>> /\ shown[s] = <<>> /\ log[s] = <<>> /\ written[s] = 0
    BY <2>1, <2>2 DEF Carried, Init
  <2>4. <<>> \o <<>> \o <<>> = [i \in 1..0 |-> i]
    OBVIOUS
  <2>5. QED BY <2>3, <2>4
<1>2. QED BY <1>1, InitTInv, NextTInv, NextLines, PTL DEF Spec

(* Only a key ends the following of a service that has a log buffer: a     *)
(* rejected poll ends only that of the service it was for, which has none  *)
(* (app.py:210-214).                                                       *)
THEOREM FollowingKept == Spec => FollowKept
<1>1. ASSUME TInv, [Next]_vars
      PROVE  [keys' = keys /\ following' # following => following \notin Logging]_<<following, keys>>
  <2>1. CASE StreamLog
    <3>1. /\ doing # None /\ doing.ask = "log" /\ reply # None
          /\ following' # following => reply.kind # "lines" /\ following = doing.service
      BY <2>1 DEF StreamLog, Replied
    <3>2. reply.kind # "lines" => doing.service \notin Logging
      BY <1>1, <3>1, ReplyIs DEF Fits
    <3>3. QED BY <3>1, <3>2
  <2>2. CASE UserStep
    <3>1. keys \in Nat /\ keys' = keys + 1
      BY <1>1, <2>2 DEF TInv, TypeOK, UserStep, Dispatch, Follow, NixKey, Press
    <3>2. QED BY <3>1
  <2>3. CASE ~StreamLog /\ ~UserStep
    <3>1. UNCHANGED following
      BY <1>1, <2>3
         DEF Next, FollowTick, RefreshTick, CommandStep, Take, Effected, Refresh, Fail, Names,
             Loaded, Tolerated, Started, Built, ConsumeEvent, Read, ReaderEnds, DinitStep, Answer,
             Lose, Change, LoadElsewhere, Write, screen, vars
    <3>2. QED BY <3>1
  <2>4. QED BY <2>1, <2>2, <2>3
<1>2. QED BY <1>1, InitTInv, NextTInv, PTL DEF Spec, FollowKept
=============================================================================
