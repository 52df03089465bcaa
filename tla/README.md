# dinix, specified and checked

dinix renders a NixOS-style configuration to service descriptions for the
[dinit](https://davmac.org/projects/dinit/) service manager, and ships the few programs
that run beside it: a Python client of dinit's control socket, a terminal UI on top of that
client, and two small Rust programs that prepare directories before services start. This
directory holds TLA+ modules of the parts that have behaviour, the TLC runs that check them
on small instances, and theorems about them that TLAPS checks for every value of the
constants. Paths below are relative to `src/`.

- [The system](#the-system)
- [Modules](#modules)
- [Runs](#runs)
- [What is proved](#what-is-proved)
- [Disagreements found](#disagreements-found)
- [Not modelled](#not-modelled)
- [Plan](#plan)
- [Running the checks](#running-the-checks)

## The system

| component | source | state | operations |
|---|---|---|---|
| control connection | `dinit-client/.../client.py` | the lock, `_pending`, `_closed`, the event stream, the socket | one task per API call, the reader task, the context manager |
| control protocol codec | `dinit-client/.../protocol.py` | none | `encode_*`, `decode_*` |
| TUI session | `tui/.../app.py` | command queue, `_following`, the table, the handles | keys, two timers, the commands task, the events task |
| nix reload | `tui/.../app.py:58-118, 236-332`, `options.nix` (`tuiWrapper`) | the link `<runtime>/current`, its temporary name | find the runtime directory, rebuild, swap, load, reload, restart |
| dinix-init | `dinix-init/src/` | the file system | `dir` and `must-exist` steps |
| run-once initialisation | `dinix-unless/src/main.rs`, `services/{postgres,mysql,kubernetes}.nix` | a data directory and its marker | guard, work, exit |
| spec expansion | `dinix-init/src/expand.rs`, `spec.rs` | none | parse a line, substitute variables |
| service rendering | `options.nix` | none (Nix evaluation) | descriptions, env-file, `init.spec`, outputs |
| boot and supervision | `options.nix:435-470, 992-1030` | dinit's | which service is critical, what waits for what |
| modular services | `modular.nix`, `service-lib.nix` | none | flatten a tree of services to names |
| user database, CA bundle | `users.nix`, `cacert.nix` | none | render files and variables |
| packaged services | `services/*.nix` | data directories | command lines and configuration |

How they interact. A service description names `dinix-init`, `dinix-unless` and the
programs themselves; dinit runs them in the order the rendered dependencies ask for. The
client talks to dinit over one stream socket on which replies carry no request id and
information packets (service and environment events) come between replies. The TUI runs
its commands one at a time over one client, while a second task drains the events; both
write the same table. "Nix reload" also goes through the file system: dinit's wrapper
searches `<runtime>/services`, then `<runtime>/current`, then the build it was started
with, and the TUI swaps `current` between a rebuild and the reloads.

What is hard in it:

- *interleaving*: several tasks on one connection whose replies have no ids; timers, keys
  and events that write one table; two TUIs on one runtime directory;
- *order*: a reply read in several awaits with events in between; a refresh overtaking the
  events sent before it; handles obtained from one reply and used in a later command;
- *failure*: the connection lost, or a task cancelled, at any await; the TUI, dinix-init or
  a whole container killed between two steps, with what is on a volume left as it was;
- *limits*: an event stream and a command queue that are full; a packet received in pieces;
- *agreement*: formats that follow the negotiated version, on both sides of the socket; the
  place where the wrapper and the TUI each look for the link; a path that dinit and
  dinix-init each expand for themselves;
- *stale state*: the services known before a rebuild, the services listed as started before
  a restart, a marker that says the work is done.

What makes each component correct is stated with its module below; `PROJECT.json` lists
the hazards one by one, each at its line with the properties that would catch it.

## Modules

| module | what it is |
|---|---|
| `ControlConnection` | the client on one connection, in steps from await to await |
| `ControlProperties` | its properties, the inductive invariants, the mapping to `SerialCommands` |
| `SerialCommands` | what the client promises: one request in flight, ended by its own reply |
| `ControlProofs` | theorems about it, and that it implements `SerialCommands` |
| `ControlCodec`, `ControlCodecProofs` | the bytes on that connection, for every version of the protocol, and theorems about them |
| `NixReload`, `NixReloadProofs` | the nix reload of one or more TUIs beside a dinit that acts on its own, and theorems about it |
| `TuiSession`, `TuiProofs` | the TUI from its connection to the loss of it: queue, timers, tasks and table; theorems about it |
| `SpecFile`, `SpecFileProofs` | how dinix-init reads its spec file in an environment, and how dinit does; that the two agree |
| `Provision`, `ProvisionProofs` | dinix-init on a file system, run again and again; extends `SpecFile`; theorems about it |
| `RunOnce`, `RunOnceProofs` | a data directory initialised once, and theorems about it |
| `SequenceInduction` | what the proofs about texts and bytes share: induction over numbers and sequences, `FlattenSeq` |
| `MC*` | instances of the constants; each `MC*.cfg` is one run |

Definitions named *mutant* are plausible slips of the definition that follows them. No
specification uses them; each shows, when it takes that definition's place, that a property
can fail.

### ControlConnection

A call of the API is a *script* of requests: `stop(name)` first asks for the service's
record to get a handle, then sends the command. `lock` is `anyio.Lock`, a FIFO whose head
owns it. `Begin`, `Send`, `Resume` and `Cancel` are `_request` cut at its awaits: acquire the
lock, check `_closed` and install the `_Pending`; send; wait for the outcome and release. The
reader is `_read_loop` with its handlers: a reply head goes to the handler of whatever is
pending (`ReadReply`), a handler may want a payload (`ReadBody`), and the list handler goes
on to further packets (`ReadMore`); information packets are met by `_next_reply` between any
two (`ReadInfo`). `ReaderFinally` is the `finally` that marks the connection closed and
wakes the pending call. If the client ever looks for a packet head where a payload is, what
it makes of those bytes is a free choice (`ReadMisaligned`). An event for a full stream is
dropped; one for a stream that its subscriber has closed raises `BrokenResourceError`, which is
caught where a lost link is and ends the connection (`EventRefused`). `Cancel` keeps `_pending` as
the code does when `await pending.done.wait()` is cancelled. The daemon answers commands in
order and may slip events in anywhere, which is what the protocol's documentation in
`protocol.py` relies on. Payload bytes are abstracted to the request they answer.

### ControlCodec

The same connection one level down, with one command under way at a time: what
`ControlConnection` takes for "head" and "payload" is here made of bytes. A byte knows the
field it is a part of, which part, and that field's size, so that bytes are a number or a
name only if they are all of one field, and a reader one byte off is seen at once. `Request`
is the API methods with `encode_*`; `Receive` is one pass of `_Reader.exactly`, which may get
less than it asked for; `Needs` is how much the handler of each head reads, lengths inside
the packet included; `DecodeStatus`, `Result`, `Event` and `ListItem` are `decode_*`. Numbers
of states, reasons and events become names on the way in, as the enumerations make them.
dinit's side, from `ServiceWith` to `EmitUnknown`, is external: it lays out a status by the
command's version, answers what it does not know with BADREQ, and sends an event in both
forms from version 5 on, in either order. A number is taken to fit its field: a field holds any
number, in as many bytes as the format gives it, so that what is checked is where every field
begins and ends and what it is taken for. An answer of a kind that is no reply at all raises
`ValueError` in the reader (`client.py:381`), where `Reject` fails the call alone; the daemon of
the model, like dinit, sends none.

### TuiSession

The connection is taken at its word: one request at a time, answered by its own reply, or
failed once the link is gone. That is `SerialCommands`, which the connection is shown to
implement without cancellation, and the TUI never cancels a request while it stays on its
connection. The session begins where `_run_client` has connected: `Names` and `Loaded` are
`_load_every_service`, one request per name, whose failure ends the worker; `Refresh` then
lets the two tasks start. `Push` is `send_nowait` on the bounded queue, whose `WouldBlock` is
swallowed or shown; `Take` to `Refresh` are the commands task; `ConsumeEvent` is the events
task, which knows a service by `_handle_names` (`named`) while dinit reports on every handle
it has given (`held`). start, stop, restart and reload are one action, `effect`: the TUI
treats them alike. A timer fires at any time; a tick that finds the queue full is lost. A nix reload is a command among the others, in the steps of
`_nix_reload`: the rebuild, the loads, the reloads, for "rebuild all" the list and the
restarts, and the refresh; polls and refreshes queue up behind it.

### NixReload

A build is the number of the version of the source it was made from. dinit was started with
one of them (`Started`), and finds in its runtime directory, which outlives it, any links that the
TUIs of an earlier dinit left there. `Begin` to `Complete`
follow `_nix_reload`: rebuild, remove a leftover temporary link, make the link, rename it
over the old one, load new names, reload all, restart what one `list_services` call reports
as started. Each step of the swap may also fail with an `OSError`, which ends the command. `Kill`
may come anywhere, and leaves the temporary link. dinit and other clients
start, stop and unload services meanwhile. `Resolve` is the search path that `tuiWrapper`
gives dinit. `pointer` and `temporary` are per directory, because each TUI works out for
itself where the link is: `Runtime` and `Socket` are what the wrapper does with its
environment, `RuntimeDir` and `ConnectsTo` what the TUI does with its options and its own.

### SpecFile and Provision

A text is a sequence of tokens: characters, or words that nothing looks inside. `Marks` are the
characters that no name has, those that `expand.rs` looks at and any others; `Digits` what a
name may not begin with. `Expand` is the loop over characters: `After` gives its state after
each of them, `Read` is its `match`, `Braced`, `Refuses` and `Substituted` are
`expand_braced`; `Parse` is `parse_with`: every line or nothing.

`Meaning` is external: what dinit-service(5), as the head of `expand.rs` quotes it, says dinit
makes of the same text when it starts the service. It is stated as a grammar, so that the two
readings share nothing: a text is a sequence of `Parts` (a text without a dollar, `$$`, a `$`
that begins nothing, `$NAME`, `${NAME}` with or without an operator and its word), `IsForm`
says which sequences are the reading of what they are `Written` as (a bare name goes on as
long as it can, a dollar is loose only where nothing else fits), and each part is what is
`Meant` by it. A line of an instance carries both its text and its parts, or the mark
`Malformed` where dinit would not read it.

`fs` maps every path to nothing, a file, a link or a directory with mode and owner. The
program is `main` and `apply` in steps of one system call: `Start` parses the file in the
run's environment, and fails before anything is done if a line cannot be read; `MkDir` is one
`mkdir` of `create_dir_all`, which recurses to a missing parent and tolerates a directory
that is there; `Check` is the pair of stats that refuses links; `Chmod` and `Chown` are
skipped when they would change nothing. A run may be by root or by an ordinary user, each
time in another environment, and may be killed at any step; between runs a container may be
made anew (`Recreate`: only volumes keep what is on them) or a volume mounted (`Mount`).
A mount point is in a directory, as mount(2) requires; what is behind a link is a place that is
not itself behind a link. Permission bits, ownership and the kernel's answers are external,
modelled as far as the program can tell them apart. Nobody else changes the file system during a run.

Four things are narrower than the code. `IsNameStart` is one class of characters for both readers, as
`expand.rs` says it is, so a difference between Rust's letters and dinit's cannot show. The two
errors of a line that `WellFormed` tells apart stand for all of them: an unknown step word, a wrong
number of fields and an id that is no number end `parse_with` in the same way. A path that expands
to nothing or to `/` is not among the steps (`IsStep`): it fails at the stat that follows, or
works on the root directory. And `MkDir` makes directories under a umask of 022, which the
later chmod makes good for the directory itself but not for parents that nobody names.

### RunOnce

A program's files are numbered in the order it writes them; the first ones are the guarded
work, one of them is the marker. The guard is `dinix-unless`, or the `if` in the kubernetes
script: only the presence of the marker counts. `Open` truncates a file and `Written`
completes it, so a kill between them leaves a part of a file; a *renamed* file appears whole.
`refuses` is what `postgres.nix` says of `initdb`: it exits 1 on a directory that is not empty; what
it calls empty (`Empty`) and that it then stops (`TurnsDown`) are its own, and external.

The guarded program may also never run, because its path is not absolute or cannot be
executed: `Guard` then ends in failure, as after a refusal. A command line without a marker or
without a program always fails, and is left out. The guard takes any failure of the stat for an
absent marker (`dinix-unless/src/main.rs:42`), a directory that may not be searched included;
`AlreadyDone` has absence only. A marker that is a dangling link counts as present in
`dinix-unless`, and as absent in the kubernetes script's `[ ! -e ]`; no file of the model is a link.

## Runs

Sizes are distinct states. Bounds are the constants of the `.cfg`; deadlock is checked
except where a run says that the system may really stop.

| run | states | what is checked |
|---|---|---|
| `client_serial` | 180 k | replies match, one in flight, right service, alignment; refinement; every call returns |
| `client_cancel` | 36 k | no lost wake-up and a guarded slot although calls are cancelled |
| `client_mismatch` | violation | a cancelled call's reply goes to the next call |
| `codec` | 201 k | what each side makes of the bytes is what the other meant |
| `reload_one` | 0.8 M | the link and the services of one TUI, launched anyhow, killed anywhere, beside leftover links |
| `reload_place` | violation | a socket outside the runtime directory: the wrong link is swapped |
| `restart_gap` | violation | a service that is starting is not restarted |
| `tui_safe` | 1.0 M | lines once and in order; following kept |
| `tui_live` | 183 k | the table catches up; followed logs show; a lost link shows; commands end |
| `provision` | 71 k | dinix-init over killed runs, two users, three environments, links, late mounts |
| `run_once` | 1.0 k | four once-only programs, killed or failing three times |
| `kubernetes_keys` | violation | the API server starts without its keys |

**client_serial.** The negotiation and two concurrent calls for two services: a stop, which
may be refused with a list of dependents, and a task that resolves a handle, asks for the
service's status with it, and then lists up to two packets. The daemon may be too new, two information packets arrive, the event
stream holds one, the link breaks anywhere and the host may leave. Two calls are enough for a
crossed reply; both resolve a handle and use it in a later request, after the lock was given up,
so that two handle replies may be on their way at once and could cross; they are for different
services, to tell a wrong handle. `ReplyMatches`: the reply a call sees was sent for its own current
request. `OneInFlight`: while anything of a request is under way nothing of another is.
`RightService`: a command on a handle acts on the service its call named. `StaysAligned`: the
reader never meets a payload, or a reply nobody asked for, where it looks for a head.
`SerialInv` is the invariant behind the proofs. `ImplementsSerial`: the connection refines
`SerialCommands`. `EveryCallReturns` holds although nobody takes events, under weak fairness
of tasks that can run and of the daemon's answers: the event loop runs every ready task and
`anyio.Lock` is a FIFO. Nothing obliges an application to call, the host to leave or the
daemon to hang up. `EventsKept`: a buffered event leaves the buffer only to the subscriber
and in order. The connection really stops when the context manager has left and every call
is over, so deadlock is off.

**client_cancel.** Both calls may be cancelled at any await. Replies may then be crossed
(`client_mismatch`) and the reader may lose alignment, and still `NoLostWakeup` (nobody
waits for a reader that is gone) and `SlotGuarded` (the slot is filled and read only by the
owner of the lock, for its own request) hold.

**codec.** Daemons of versions 4, 5 and 7, which are the three layouts of a status, of a list
and of an event. After the negotiation a service is found, then every call of the API is made
once, on that service where it needs a handle, with every combination of its options. Two
services with names of different length and handles of one and two bytes' worth, three
conditions (running with a pid, ended by a signal, failed to exec), one information packet
anywhere, also between two entries of a list and of a kind nobody knows, at most two
directories, variables or dependents in a reply (`Most`), and every receive whole or short by a byte. `Faithful`: results, refusals and events are what dinit
meant, field by field and in its order. `StaysOnPackets`: between packets the next byte is a
head. `Understood`: dinit reads the command as the call meant it, nothing left over, and in a
version that it speaks. `OnItsWay`: no read waits for bytes that the packet does not have.
Commands after the second add nothing but more of the same, since nothing but the version,
the handles and the position in the stream outlasts a command. It ends when the calls are
used up, so deadlock is off.

**reload_one.** One TUI after another, launched in each way that reaches the wrapper's socket
(told the socket; told both; with the socket in the environment and no runtime directory),
three source versions that add a service and drop one, dinit started with the second of them
and any links to the first two left in the directory, a file system that may refuse each step of
the swap, and a dinit that refuses what it likes. `LinkIsOwn`: no leftover makes `_point_at` fail. `AdoptedEverywhere`: after the reloads
dinit holds the adopted description of every service whose reload it took, also of those
loaded from an older build while the rebuild ran. `ReloadAdopts`: and that is the description
of the build that was made, if the TUI knows of a runtime directory. `RunsAdopted`: what was
restarted runs it. `LinkAdvances`: the link never goes back. `DescriptionsStay`: a description
stops being found only by adopting a build without it. For several TUIs on one directory only
the last is promised, and `NoGap` proves it; that the second TUI may fail on the shared
temporary name, or adopt the first one's build, is how the code is.

**tui_safe, tui_live.** `tui_safe` has every key, three services, one known at the start, one
with a log buffer that is only described, one that comes with the rebuild, and a queue of two.
`tui_live` has the two keys that take long or go on for ever, `follow` and "rebuild all", two
services of which neither is loaded at first and one comes with the rebuild, and a queue of one.
The event stream holds one, so that both overflow; state changes, keys and lines are bounded
in the `.cfg`: two keys are enough to follow and switch while a command is under way, or to
follow a log through a nix reload with the queue full behind it. `LinesOnce`: what was shown,
what is on its way and what is still in dinit's buffer are together all lines written, each once.
`FollowKept`: the rejected poll of another service does not end following. `RowsCatchUp`: although
events are dropped, or skipped because their handle has no name yet, and old ones overwrite a
newer refresh, the table ends up right for every service that is loaded. `FollowShows`: each
line that a followed service has logged comes to the screen, unless the user goes on to another
or the connection is lost. `LossShows`. `CommandsEnd`: every command ends, also a nix reload
that loses the connection in the middle of its loops. The session may really stop (the worker
has ended, the queue is full), so deadlock is off.

The fairness of `tui_live` (`FairSpec`) is weak for the tasks, dinit's answers and the end of the
rebuild command: a rebuild that never ends holds up every command behind it, and nothing in the
TUI limits it. The two timers fire for ever, whatever becomes of the tick, and nothing is
assumed of a queue with room. What is assumed is how time goes (`TimePasses`): half a second
passes only while the commands task waits for a command, before it runs, or in a nix
reload; any other command, which is a few answers of dinit, has ended before the next timer
fires. Each timer is strongly fair at such moments, because the other may fire first at every
one of them. So in a long nix reload both timers fill the queue and lose their ticks, which
the reload survives; but a dinit that needs more than half a second for the answers to one
command is outside the run: the polls of a followed log then take each place in the queue
that comes free, and nothing refreshes the table while it is followed. A user who holds a key
down for ever is excluded by the bound on keys.

**provision.** Seven spec files on six file systems with foreign owners, files and links, root
and one ordinary user in any order and in three environments (a container where nothing is
set; `DINIX_STATE_DIR` leading to another volume; a variable set and empty), two killed runs.
The files: a mounted volume with a directory below `${DINIX_STATE_DIR:-/data}`, which is what
`service-lib.nix` writes for every packaged service; a child named before its parent with a
mode wider than twelve bits; one directory named twice; every form of substitution, one place
written with a doubled and with a loose dollar, an operator inside a word; an unmatched brace and a mode that is no number,
after lines that are well. `Provisioned`: exit 0 means that every directory is real, with the
mode and owner asked for, at the place where dinit's own reading of the same text will lead
the service in that environment, and that what must exist does. `FailureHasCause`: a run by
root fails only over a line of no form that dinit knows, a missing mount or an entry that is
no directory, never over what an earlier run left. `SatisfiedRunIsIdle`: a run that finds
every step satisfied changes nothing and does not fail, whoever runs it. `OthersUntouched`: a
file with a line that cannot be read changes nothing, wherever that line is; nothing but the
directories named is changed, and nothing is replaced. `TypeOK` has, beside the types, that a mode
or an owner is set on what is a directory and no link to one. A mode wider than twelve bits never
compares equal, so its chmod is tried in every run (`main.rs:106`); whether that step is ever satisfied is
stated nowhere, and no property is about it.

**run_once.** A program with its marker moved into place last, the same refusing leftovers as
`initdb` does, one whose marker comes first, and the kubernetes script, in which `openssl x509
-CAcreateserial` writes a file of its own. `WorkHappensOnce` holds for all of them.
`MainHasItsFiles` holds where the marker is last: no service runs half-initialised. No service of
the repository is known to be of that kind: `initdb` is supposed to make `PG_VERSION` last,
which nothing here says, and the kubernetes script does not make its marker last. That a service comes up in the end is not stated: after an
interrupted start it depends on what the guarded program makes of its own leftovers, and
`initdb` refuses them. Somebody has to start a container again, so deadlock is off.

## What is proved

Theorems hold for every value of the constants that the named assumptions allow.

**ControlProofs.** `BaseInv` is inductive: types, `SlotGuarded`, `NoLostWakeup`, and a
payload ahead of every handler that waits for one (`BodyAhead`, without which the reader's
type is not kept). It yields `TypeCorrect`, `NobodyWaitsForever` and `SlotIsTheOwners`, with
any cancellations. The argument for `NoLostWakeup` is that the slot names the request of the
only call past the check of `_closed`, so the reader's `finally` reaches it; that is why
`SlotGuarded` is part of the induction. `EventsInOrder` is the action property `EventsKept`, with
calls cancelled or not, from `NumberedInOrder`: the buffered events come before the packets on
their way, and those are in the order they were sent.

Under `Cancellable = {}`, `SerialInv` is kept too. Its core is that
everything under way, in either direction or in the reader's hands, belongs to the one request
whose caller waits undecided (`AllAwaited`), and that the packets from the reader's position on
are the rest of one reply (`WellFormed`); the outcome of that request is decided only when
nothing of it is left. `OneReplyAtATime` states all of it, and it yields `RepliesMatch`,
`Serialised`, `CommandsHitTheirService` and `ReaderAligned`. Without the assumption they are false: `client_mismatch`.

Under the same assumption the connection implements `SerialCommands`
(`ClientIsSerial`): sending is `Issue`, taking a reply or a rejection is `Deliver`, taking the
failure of a closed connection, or being cancelled after it, is `Fail`, the end of the reader is
`Close`, and every other step is not seen. The mapping needs one more invariant, `Endings`: a call
that is sending or waiting when the reader is gone has failed, and no call fails before that, so
a reply is taken only on an open connection.

**ControlCodecProofs.** For every protocol version, size of a long, set of texts with their
lengths, set of conditions and events, sequence of calls and way in which receives split the bytes,
the five properties of `codec` hold: `CodecTyped`, `CodecFaithful`, `CodecStaysOnPackets`,
`CodecUnderstood`, `CodecOnItsWay`. The properties themselves are not inductive: none of them says
what is in the bytes that nobody has read. `IInv` does. It says that the bytes read since the last
head, with those in the stream, are the rest of whole packets `pk`, and five things about these:

- `Waiting`: the reader is between two of them or inside the first, and has read no more of it
  than there is;
- `Meaning`: what the client has given out, followed by what `pk` says, is what dinit meant;
- `Owed`: each is an information packet, which says the same under the negotiated version and under
  the daemon's, an entry of the list under way, or the final answer of the call under way, which its
  handler takes or which is a refusal; only information packets follow a final answer;
- `Collected`: the entries the handler has, with those in `pk`, are the entries `T` that dinit has told;
- `Turn`: the call's command is on the wire, or dinit has it, or its final answer is in `pk`, and only
  one of the three.

Each of the ten answers and three emissions of dinit, and of the steps of the client, has a lemma that
it preserves this. They rest on one lemma for each format: a packet laid out for a version holds
its fields at the offsets where the decoder of that version looks (`Wanted` is the packet's own
length, whatever part of it has been read, once the part that has the length is in), and
decoding gives back what was laid out. The environment block and the list of directories, which
have any number of texts, are read back by induction over their number.

`CodecAssumption` is what these need: versions and sizes are positive numbers, `0` and `None` are
no texts, `None` is no request and no command; services have handles of their own and there is
one at least; a condition that failed to exec has a stage and any other has none; and `Calls`
holds calls that the API has. It allows any set of versions above 0, of which those dinit has had are a part.

**NixReloadProofs.** `TInv` is `TypeOK` with what each phase of a TUI implies of its record; it
gives `TypeCorrect`, and `NoGap`, the action property `DescriptionsStay`, for any number of TUIs
that share, kill and overtake each other: the link changes only by `Rename`, whose target is the
temporary link, and so a build or nothing at all. The other theorems are about a TUI that is
alone on its dinit, killed and started again at will (`TUIs = {only}`). `One` is their inductive
invariant, six facts about it: a leftover, also of an earlier dinit, is not in its way and the temporary link it renames is
its own (`Placed`); no link is ahead of the build under way (`Behind`); after the swap the link
is that build (`Adopted`); every service of the build is known or about to be loaded (`Knows`);
what was reloaded is held as dinit would find it now (`Took`), which other clients' loads and
unloads do not disturb because the link stands still; and what was restarted runs it (`Runs`).
They yield `LinkOwned`, `LinkForward`, `ReportsTrue` and `RunsWhatItAdopted`. With a second TUI
all of them are false: it removes the temporary link, or swaps in an older build, under the
first. `AdoptsItsBuild` (`ReloadAdopts`) needs one more assumption, that every launch which
reaches this dinit knows of the wrapper's runtime directory or of none: `reload_place` is what
happens otherwise.

**RunOnceProofs.** `Inv` says that a start which is in the work has made every file before the
one it is at, that completed work has its marker and is never entered again, and, with the marker
last, that the marker stands for the whole work and that everything behind a start is whole. It
yields `OnceTypeCorrect`, `NeverHalfInitialised` and `NeverTwice`, for all programs and any number
of kills.

**TuiProofs.** `TInv` is `TypeOK` with three facts. `Purposeful`: the request of the command under
way fits its action and names what it needs, a loaded service for a start, a reload or a restart.
`Queued`: so do the commands that wait. `OneAnswer`: at most one answer is under way, in the
stream or taken, it answers the request that was made, and none is left once the link is closed.
`TypeOK` needs all three, since a row, a name and a handle belong to a loaded service and come
from answers. `LinesShownOnce` (`LinesOnce`) follows because lines leave dinit's buffer only into
that one answer and the answer only into what is shown. `FollowingKept` (`FollowKept`): following
ends without a key only on a refused poll of the service that is still followed, and only a
service without a log refuses.

**SpecFileProofs.** For every text and environment, `Expand` reads exactly dinit's forms.
`FormsAreRead`: a text of some form is not refused, and expands to what dinit makes of it.
`OnlyFormsAreRead`: a text that is not refused is of some form. The first goes by the number of
parts, with where the loop stands after them (`Stands`: between two parts, or in a name that may go
on, or behind a dollar that may begin something); the second by the number of characters, with
the parts that the loop has passed and what it holds of the next (`Passed`).

**ProvisionProofs.** The theorems are about all spec files, environments, trees, users, kills,
mounts and new containers. `PInv` is `TypeOK` (the entries stay a tree whose links do not leave the
places there are, and chmod and chown act on a directory that is no link) with what each phase of a run implies: it is of the steps of a file that could
be read (`Reading`), `create_dir_all` has left to make only ancestors of the path (`Making`), and
chmod and chown act at a `dir` step (`AtADir`). `Real`, a recursion
over paths, is shown to be well defined. It yields `ProvisionTypeCorrect`; three more invariants
give the rest:

- `Idle`, all steps hold and no chmod or chown is next, gives `NothingDoneTwice`
  (`SatisfiedRunIsIdle`).
- `Caused`, a run of root that failed has its cause, gives `RootFailsForCause`
  (`FailureHasCause`). It needs that making one directory never turns an entry on the way to
  another into an obstacle.
- `DoneHolds`, every step behind the run that decides still holds, gives
  `SuccessMeansProvisioned` (`Provisioned`). Only the last line for a place decides: a chmod for a
  later line may undo an earlier one for the same place, and for no other place.

The last two and `OthersLeftAlone` (`OthersUntouched`) speak of lines as dinit reads them, and join the
program's steps to dinit's reading by `ReadAlike` (`ReadsAlike`), which follows from the two
theorems about `SpecFile`. They have one hypothesis, `MalformedIsNoForm`: a line that an instance
marks `Malformed` really is of none of dinit's forms. It says only that the instance is labelled
truly and restricts no text. It quantifies over all sequences of parts, so TLC cannot evaluate
it; the line marked in `MCProvision` has a brace that is never closed, and every part that begins
with `${` ends with one.

The named assumptions on constants are evaluated by TLC in every run of their module. In words:
the marks include the characters `expand.rs` matches on (`TokensAssumption`); the places are closed
under parents (`PathsAssumption`), the file system begins as a tree whose entries are in
directories (`TreesAssumption`), and what is below a volume is on it and its mount point has a
directory to be in (`VolumesAssumption`), all of which any kernel guarantees; a run that gets to
its steps finds the places they name among those of the instance (`SpecFilesAssumption`); the
queue, the event stream and the bounds of the TUI are numbers and the sentinel `None` is nothing
else (`SessionAssumption`).

**Induction.** The library's induction theorems take an operator, which the provers cannot
instantiate. Where a proof goes by the length of a text or a path, it takes the set of numbers (or
sequences, or paths) for which the claim is true, and shows that a least one outside cannot be:
`LeastNumber`, `Induct`, `SeqInduct` and `FrontType` in `SequenceInduction`, with `JoinedMore` and
`JoinedConcat` for what a growing sequence is joined to, and `PathInduction` in `ProvisionProofs`,
all proved here.

**Only model-checked.** Liveness (`EveryCallReturns`, `RowsCatchUp`, `FollowShows`, `LossShows`,
`CommandsEnd`), which is beyond the prover; every other property of a passing run is a
theorem. `IInv` of `ControlCodecProofs` quantifies over all sequences of packets, so TLC cannot
evaluate it; what TLC checks are the five properties that follow from it.

## Disagreements found

- **A cancelled call crosses the replies** (`client_mismatch`). A task cancelled while it
  waits for its reply gives up the lock with its command sent. The next call gets that late
  reply as its own. The module's docstring claims that the next reply belongs to the one
  command in flight (`dinit-client/src/dinit_client/client.py:4-6`).
- **Reload all leaves a starting service on the old build** (`restart_gap`). Only services
  reported `STARTED` at one moment are restarted; the docstring promises that the running set
  comes up on the new build (`tui/src/dinix_tui/app.py:239-241`).
- **A TUI on a socket outside the runtime directory reports a reload that did not happen**
  (`reload_place`). Told `--socket`, the TUI takes the socket's directory for the runtime
  directory, before `DINIX_RUNTIME_DIR` (`tui/src/dinix_tui/app.py:66-68`); but the wrapper
  lets `DINIX_SOCKET_PATH` put the socket elsewhere (`options.nix:1247`). The TUI then swaps a
  link that dinit does not search, reloads every service from the old build, and says "Nix
  reload complete", where the docstring promises to adopt the rebuilt configuration
  (`app.py:237`).
- **The kubernetes keys may stay unfinished for good** (`kubernetes_keys`). The guard looks
  for `ca.crt`, the fourth of eight files; interrupted after it, every later start exits 0
  without the rest, and the dependency that was to guarantee the keys is satisfied
  (`services/kubernetes.nix:308-309`).

## Not modelled

- dinit itself: dependency resolution, restart limits, load failures. It appears as what the
  code relies on: commands answered in order, events, refusals. That includes its handle
  table: `close_handle` is written but nothing calls it (`protocol.py:332`), so a long session
  that finds and loads services leaves its handles with dinit until it disconnects; whether
  and where dinit limits them is not in the repository. For the same reason a handle whose
  service is unloaded in between is only a command that may be refused.
- Characters: names, log lines and variables are values with a length, words of a path are
  tokens. Malformed UTF-8 and the two `ValueError`s for an empty name and for a variable that
  begins with `=` are left out, as are comments, blank lines and carriage returns in a spec.
- The look of the TUI: layout, markup, the cursor, the help text and the parsing of the command
  line.
- Service rendering (`options.nix`), the user database (`users.nix`), the CA bundle
  (`cacert.nix`) and the evaluation entry points: Nix expressions, pure functions of a
  configuration with no state and no steps. What they decide about order and place is used
  where it matters: the order of `init.spec` and the form of its paths, the search path of the
  wrapper, `depends-on` of a once-only sub-service.
- Boot and supervision (`options.nix:435-470, 992-1030`): `after` only orders, so what becomes
  of the services behind a failed dinix-init is decided in dinit's queue. A model of that would
  be a model of dinit, invented from its manual.
- Modular services (`modular.nix:184-225`): the flattening of a tree to names with `//`, where a
  service `a-b` and a sub-service `b` of `a` are one name. A pure function; see the plan.
- Packaged services are modelled as far as they initialise a directory once (`RunOnce`). The
  loops of garage and of the kubernetes node wait for another program and try again; they keep
  nothing between two attempts but what that other program keeps, which is not in the
  repository. The rest renders command lines and configuration files.
- Another process changing the file system while dinix-init runs.
- What happens inside `initdb`, `mariadb-install-db` and garage.
- Tests, examples, documentation, packaging: drivers and text, read for what they expect of
  the system.

## Plan

1. *Done*: `ControlConnection` with its abstract specification and theorems, `ControlCodec`,
   `NixReload` with its theorems, `TuiSession`, `SpecFile` and `Provision`, `RunOnce` with its
   theorems.
2. *Done*: the theorems about `SpecFile`, `Provision`, `TuiSession` and `ControlCodec`, `EventsKept`
   and `SerialInv`.
3. `ModularRender`: one recursion, a service's own attributes `//` those of its children in
   the order of their names, gives the descriptions, the directories, the accounts and the
   configuration files. Against a reference in which the last node in document order wins;
   that a description that survives finds its own files; that every node becomes a service of
   its own name, which `a-b` beside a sub-service `b` of `a` breaks. Its `init.spec` is then
   what `Provision` runs.
4. `Supervision`, if dinit's documented behaviour turns out to say enough: boot, critical and
   non-critical services, dinix-init before every service, composed with `RunOnce`.

## Running the checks

    tlasany ControlConnection.tla
    tlc -workers 2 -config MCSerial.cfg MCControlConnection
    tlapm ControlProofs.tla
    tlapm ControlCodecProofs.tla

`PROJECT.json` lists every run with its module and configuration, the mutants, the source
lines each definition models, and the theorems.
