---------------------------- MODULE Provision ----------------------------
(***************************************************************************)
(* dinix-init: the program that makes the directories a service tree needs *)
(* before dinit starts it (dinix-init/src/main.rs), run again and again on *)
(* one file system, by root in a container and by an ordinary user outside *)
(* one, and killed at any point.                                           *)
(*                                                                         *)
(* A path is the sequence of its names, and a name a text (SpecFile).  The *)
(* lines are those that options.nix writes, in its order; `spec' is the    *)
(* Vec<Step> that a run reads from them in its own environment.            *)
(* The kernel is external: what mkdir, lstat, stat, chmod and chown answer *)
(* is modelled from how the program uses them.  A link leads to a place    *)
(* that is not behind another link.                                        *)
(***************************************************************************)
EXTENDS SpecFile, FiniteSets

CONSTANTS Paths,      \* every place the file system may have an entry
          SpecFiles,  \* the spec files to try, each a sequence of lines
          Envs,       \* the environments the program may run in
          Trees,      \* the file systems to begin with
          Runners,    \* the users that may run the program; 0 is root
          Volumes,    \* the places on a volume, which outlives a container
          MountPoints,\* the places a volume may be mounted on
          Unset,      \* a uid or a gid written "-"
          MaxKills    \* bound on the runs that are killed

Modes == 0 .. 4095    \* what & 0o7777 leaves of st_mode
Ids   == Nat

Absent == [kind |-> "absent"]
File   == [kind |-> "file"]
Link(to) == [kind |-> "link", to |-> to]
Dir(mode, uid, gid) == [kind |-> "dir", mode |-> mode, uid |-> uid, gid |-> gid]

Links == [kind : {"link"}, to : Paths]
Dirs  == [kind : {"dir"}, mode : Modes, uid : Ids, gid : Ids]

IsEntry(e) == e \in {Absent, File} \/ e \in Links \/ e \in Dirs

\* A `dir' line may name any octal u32 (spec.rs): one bit more than chmod keeps is enough.
WrittenModes == 0 .. 8191

IsStep(s) ==
    \/ s.op = "dir" /\ s.path \in Paths /\ s.mode \in WrittenModes
                    /\ {s.uid, s.gid} \subseteq Ids \cup {Unset}
    \/ s.op = "must-exist" /\ s.path \in Paths /\ s.kind \in {"any", "dir", "file"}

\* A line of the file, field by field.
IsLine(line) ==
    \/ line.op = "dir" /\ DOMAIN line = {"op", "path", "parts", "mode", "uid", "gid"}
    \/ line.op = "must-exist" /\ DOMAIN line = {"op", "path", "parts", "kind"}

\* An entry is in a directory, and what there may be below a link may be where the link leads.
IsTree(t) ==
    /\ DOMAIN t = Paths /\ \A p \in Paths : IsEntry(t[p])
    /\ \A p \in Paths : t[p] # Absent /\ Len(p) > 1 => t[Front(p)].kind = "dir"
    /\ \A p, q \in Paths : t[p].kind = "link" /\ IsPrefix(p, q) =>
           t[p].to \o SubSeq(q, Len(p) + 1, Len(q)) \in Paths

ASSUME PathsAssumption ==
    /\ Paths \subseteq Seq(Text)
    /\ \A p \in Paths : p # << >> /\ (Len(p) > 1 => Front(p) \in Paths)
\* `parts' is how dinit reads the text of a line, if it is one of its forms; a run that gets as
\* far as the steps finds every place they name among Paths.
ASSUME SpecFilesAssumption ==
    \A lines \in SpecFiles :
        /\ lines \in Seq(ToSet(lines))
        /\ \A i \in DOMAIN lines :
              /\ IsLine(lines[i]) /\ lines[i].path \in Text
              /\ lines[i].parts # Malformed =>
                     IsForm(lines[i].parts) /\ lines[i].parts # << >> /\ lines[i].path = TextOf(lines[i].parts)
        /\ \A env \in Envs : \A s \in ToSet(Parse(lines, env).steps) : IsStep(s)
ASSUME EnvsAssumption == \A e \in Envs : IsEnv(e)
ASSUME TreesAssumption == \A t \in Trees : IsTree(t)
\* What is below a place on a volume is on it too; a volume is in a directory of every image.
ASSUME VolumesAssumption ==
    /\ Volumes \subseteq Paths /\ MountPoints \subseteq Volumes
    /\ \A p \in Paths : Len(p) > 1 /\ Front(p) \in Volumes => p \in Volumes
    /\ \A p \in Volumes : Len(p) > 1 /\ Front(p) \notin Volumes =>
           \A t \in Trees : t[Front(p)].kind = "dir"
ASSUME BoundsAssumption == Runners \subseteq Ids /\ MaxKills \in Nat

VARIABLES
    fs,        \* the file system
    image,     \* the file system a new container begins with, volumes apart
    lines,     \* the spec file
    env,       \* the environment of the run
    spec,      \* the steps that the run read
    pc,        \* where the program is, or how it ended
    at,        \* the step it is at
    todo,      \* the directories create_dir_all has still to make, innermost last
    runner,    \* the user it runs as
    satisfied, \* history: did every step hold when the program began?
    kills

vars == <<fs, image, lines, env, spec, pc, at, todo, runner, satisfied, kills>>
world == <<fs, image, lines>>

Running == pc \in {"step", "mkdir", "check", "chmod", "chown"}
Current == spec[at]

-----------------------------------------------------------------------------
(* The file system.                                                        *)

RootDir == Dir(493, 0, 0)                    \* 0755, root's
At(p) == IF p = << >> THEN RootDir ELSE IF p \in Paths THEN fs[p] ELSE Absent
Followed(p) == IF At(p).kind = "link" THEN At(p).to ELSE p

\* The place a path leads to, every link followed.
Real[p \in Paths \cup {<< >>}] ==
    IF p = << >> THEN p ELSE Followed(Append(Real[Front(p)], Last(p)))

\* The place a path names: the links before its last name followed, that one not.
Spot(p) == Append(Real[Front(p)], Last(p))

LStat(p) == At(Spot(p))
Stat(p)  == At(Real[p])
IsDir(p) == Stat(p).kind = "dir"

\* The permission bit (1 search, 2 write) of the class the runner falls in.
May(d, bit) ==
    LET class == IF d.uid = runner THEN 64 ELSE IF d.gid = runner THEN 8 ELSE 1
    IN  runner = 0 \/ (d.mode \div (class * bit)) % 2 = 1

Reaches(p) ==
    \A n \in 0 .. Len(p) - 1 : IsDir(SubSeq(p, 1, n)) => May(Stat(SubSeq(p, 1, n)), 1)

IsDirFor(p) == Reaches(p) /\ IsDir(p)        \* Path::is_dir, FALSE on any error

Init ==
    /\ fs \in Trees
    /\ image = fs
    /\ lines \in SpecFiles
    /\ env \in Envs
    /\ spec = << >>
    /\ pc = "idle"
    /\ at = 1
    /\ todo = << >>
    /\ runner \in Runners
    /\ satisfied = FALSE
    /\ kills = 0

-----------------------------------------------------------------------------
(* What a step asks for.                                                   *)

Wanted(d, s) ==
    /\ d.kind = "dir" /\ d.mode = s.mode
    /\ s.uid \in {d.uid, Unset} /\ s.gid \in {d.gid, Unset}

StepHolds(s) ==
    \/ s.op = "dir" /\ Wanted(LStat(s.path), s)
    \/ s.op = "must-exist" /\ Stat(s.path) # Absent /\ s.kind \in {"any", Stat(s.path).kind}

-----------------------------------------------------------------------------
(* The program.                                                            *)

(* Mutant of OwnerMatches: one owner that matches is taken for both. *)
OwnerMatchesHalf(d, s) == {s.uid, s.gid} \cap {d.uid, d.gid, Unset} # {}

OwnerMatches(d, s) ==
    /\ s.uid = Unset \/ d.uid = s.uid
    /\ s.gid = Unset \/ d.gid = s.gid

(* Mutant of ModeMatches: the mode is set whether or not it already holds. *)
ModeMatchesNever(d, s) == FALSE

ModeMatches(d, s) == d.mode = s.mode

KindMatches(e, s) == s.kind = "any" \/ e.kind = s.kind

\* main reads the whole file before it does anything.
Start ==
    /\ ~ Running
    /\ \E u \in Runners : runner' = u
    /\ \E e \in Envs :
         /\ env' = e
         /\ spec' = Parse(lines, e).steps
         /\ pc' = IF Parse(lines, e).ok THEN "step" ELSE "failed"
    /\ at' = 1
    /\ UNCHANGED <<world, todo, kills>>
    /\ satisfied' = \A s \in ToSet(spec') : StepHolds(s) /\ Reaches(s.path)'

Goto(label) == pc' = label /\ UNCHANGED <<at, todo>>
NextStep    == pc' = "step" /\ at' = at + 1 /\ UNCHANGED todo
Fail        == pc' = "failed" /\ todo' = << >> /\ UNCHANGED at

Finish ==
    /\ pc = "step" /\ at > Len(spec)
    /\ Goto("succeeded")
    /\ UNCHANGED fs

MustExist ==
    /\ pc = "step" /\ at <= Len(spec) /\ Current.op = "must-exist"
    /\ IF Reaches(Current.path) /\ Stat(Current.path) # Absent /\ KindMatches(Stat(Current.path), Current)
       THEN NextStep ELSE Fail
    /\ UNCHANGED fs

BeginDir ==
    /\ pc = "step" /\ at <= Len(spec) /\ Current.op = "dir"
    /\ pc' = "mkdir" /\ todo' = <<Current.path>> /\ UNCHANGED <<at, fs>>

Made ==
    /\ todo' = Front(todo)
    /\ pc' = IF Len(todo) = 1 THEN "check" ELSE "mkdir"
    /\ UNCHANGED at

(* Mutant of Tolerates: create_dir, which takes a directory already there for an error. *)
ToleratesNothing(p) == FALSE

\* What create_dir_all makes of a mkdir that found something there.
Tolerates(p) == IsDirFor(p)

\* One mkdir of create_dir_all: made, already there, its parent missing and to be made
\* first, or refused.
MkDir ==
    /\ pc = "mkdir"
    /\ LET p == Last(todo)
           parent == Stat(Front(p))
           new == Dir(493, runner, runner)
       IN  \/ /\ Reaches(p) /\ parent = Absent
              /\ todo' = Append(todo, Front(p)) /\ UNCHANGED <<pc, at, fs>>
           \/ /\ Reaches(p) /\ LStat(p) = Absent /\ parent.kind = "dir" /\ May(parent, 2)
              /\ fs' = [fs EXCEPT ![Spot(p)] = new] /\ Made
           \/ /\ LStat(p) # Absent /\ Tolerates(p)
              /\ Made /\ UNCHANGED fs
           \/ /\ \/ ~ Reaches(p)
                 \/ LStat(p) # Absent /\ ~ Tolerates(p)
                 \/ LStat(p) = Absent /\ parent.kind = "file"
                 \/ LStat(p) = Absent /\ parent.kind = "dir" /\ ~ May(parent, 2)
              /\ Fail /\ UNCHANGED fs

(* Mutant of RefusesLink: a link to a directory is as good as a directory. *)
RefusesNoLink(e) == FALSE

RefusesLink(e) == e.kind = "link"

AfterMode == IF OwnerMatches(Stat(Current.path), Current) THEN NextStep ELSE Goto("chown")

Check ==
    /\ pc = "check"
    /\ IF \/ RefusesLink(LStat(Current.path))
          \/ ~ IsDir(Current.path)
       THEN Fail
       ELSE IF ModeMatches(Stat(Current.path), Current) THEN AfterMode ELSE Goto("chmod")
    /\ UNCHANGED fs

\* chmod(2) keeps the twelve low bits; only the owner and root may.
NewMode(s) == s.mode % 4096

Chmod ==
    /\ pc = "chmod"
    /\ LET d == Stat(Current.path)
       IN  IF runner \in {0, d.uid}
           THEN fs' = [fs EXCEPT ![Real[Current.path]].mode = NewMode(Current)] /\ AfterMode
           ELSE Fail /\ UNCHANGED fs

\* Only root may give a directory away; its owner may hand it to the owner's own group.
MayChown(d, s) ==
    \/ runner = 0
    \/ runner = d.uid /\ s.uid \in {Unset, runner} /\ s.gid \in {Unset, runner}

Chown ==
    /\ pc = "chown"
    /\ LET d == Stat(Current.path)
           s == Current
       IN  IF MayChown(d, s)
           THEN /\ fs' = [fs EXCEPT ![Real[s.path]] =
                            Dir(d.mode, IF s.uid = Unset THEN d.uid ELSE s.uid,
                                        IF s.gid = Unset THEN d.gid ELSE s.gid)]
                /\ NextStep
           ELSE Fail /\ UNCHANGED fs

Program ==
    /\ Finish \/ MustExist \/ BeginDir \/ MkDir \/ Check \/ Chmod \/ Chown
    /\ UNCHANGED <<image, lines, env, spec, runner, satisfied, kills>>

-----------------------------------------------------------------------------
(* What happens around it.                                                 *)

Kill ==
    /\ Running /\ kills < MaxKills
    /\ kills' = kills + 1
    /\ pc' = "idle" /\ todo' = << >> /\ at' = 1
    /\ UNCHANGED <<world, env, spec, runner, satisfied>>

\* A new container: what is on no volume is what the image has.
Recreate ==
    /\ ~ Running
    /\ fs' = [p \in Paths |-> IF p \in Volumes THEN fs[p] ELSE image[p]]
    /\ pc' = "idle"
    /\ UNCHANGED <<image, lines, env, spec, at, todo, runner, satisfied, kills>>

\* An empty volume, owned by whoever made it, hides what was there.
Mount(p) ==
    /\ ~ Running /\ fs[p].kind \in {"absent", "dir"}
    /\ Len(p) > 1 => fs[Front(p)].kind = "dir"
    /\ \E u \in Runners :
         fs' = [q \in Paths |-> IF q = p THEN Dir(493, u, u)
                                ELSE IF IsStrictPrefix(p, q) THEN Absent ELSE fs[q]]
    /\ pc' = "idle"
    /\ UNCHANGED <<image, lines, env, spec, at, todo, runner, satisfied, kills>>

Next == Start \/ Program \/ Kill \/ Recreate \/ \E p \in MountPoints : Mount(p)

Spec == Init /\ [][Next]_vars

-----------------------------------------------------------------------------
(* Properties.                                                             *)

Types ==
    /\ IsTree(fs) /\ image \in Trees
    /\ lines \in SpecFiles /\ env \in Envs
    /\ spec \in {<< >>, Parse(lines, env).steps}
    /\ pc \in {"idle", "step", "mkdir", "check", "chmod", "chown", "succeeded", "failed"}
    /\ at \in 1 .. Len(spec) + 1
    /\ todo \in Seq(Paths)
    /\ (pc = "mkdir") = (todo # << >>)
    /\ runner \in Runners /\ kills \in 0 .. MaxKills

Settled ==
    pc \in {"chmod", "chown"} => IsDir(Current.path) /\ LStat(Current.path).kind # "link"

\* The program's state, and every entry of the file system, is of its kind; a mode or an owner
\* is set on what is a directory and no link to one (main.rs:80-95).
TypeOK == Types /\ Settled

\* A line as dinit reads it in this run's environment: what the service it is for will use.
Asked(line) == [line EXCEPT !.path = Meaning(line.parts, env)]
Proper(line) == WellFormed(line) /\ line.parts # Malformed

\* dinix-init carries out the lines that dinit would understand, and looks for a directory
\* where dinit does: the two read the same forms alike, in every environment.
ReadsAlike ==
    \A file \in SpecFiles, e \in Envs : \A i \in DOMAIN file :
        /\ Readable(file[i], e) <=> Proper(file[i])
        /\ Proper(file[i]) => PathOf(Expand(file[i].path, e).out) = Meaning(file[i].parts, e)

\* A line marked as none of dinit's forms is none.
MalformedIsNoForm ==
    \A file \in SpecFiles : \A i \in DOMAIN file :
        file[i].parts = Malformed =>
            ~ \E parts : IsForm(parts) /\ parts # << >> /\ TextOf(parts) = file[i].path

\* The last line for a place decides its mode and its owner.
Decides(i) ==
    ~ \E j \in i + 1 .. Len(lines) :
        /\ lines[j].op = "dir" /\ lines[i].op = "dir"
        /\ Spot(Asked(lines[j]).path) = Spot(Asked(lines[i]).path)

\* When dinix-init exits 0, every directory that a service asks for, where the service itself
\* will look for it in this environment, is a real directory with the mode and the owner asked
\* for, and everything that must exist does: however many runs were killed half-way before,
\* whoever ran them in whatever environment, and whatever the volumes held.
Provisioned ==
    pc = "succeeded" =>
        \A i \in DOMAIN lines : Proper(lines[i]) /\
            (Decides(i) =>
                LET s == Asked(lines[i]) IN
                StepHolds(IF s.op = "dir" THEN [s EXCEPT !.mode = @ % 4096] ELSE s))

\* A run that finds every step satisfied changes nothing and does not fail, whoever it runs as:
\* the comment in apply calls that the ordinary case for a volume an unprivileged service owns.
SatisfiedRunIsIdle == [][satisfied /\ Running => fs' = fs /\ pc' # "failed"]_vars

\* A run changes nothing at all on a file with a line that cannot be read, wherever that is; it
\* touches the mode and the owner of no directory but the ones the lines name, and replaces no
\* file and no link: a link in a step's place is refused, its target left alone.
OthersUntouched ==
    [][Running => \A q \in Paths :
           /\ fs'[q] # fs[q] => \A line \in ToSet(lines) : Proper(line)
           /\ fs[q].kind \in {"file", "link"} => fs'[q] = fs[q]
           /\ fs[q].kind = "dir" /\ fs'[q] # fs[q] =>
                  \E line \in ToSet(lines) : line.op = "dir" /\ Spot(Asked(line).path) = q]_vars

\* Something in the way of a step: a missing mount, or an entry that is no directory.
InTheWay(s) ==
    \/ s.op = "must-exist" /\ ~ StepHolds(s)
    \/ s.op = "dir" /\ LStat(s.path).kind = "link"
    \/ s.op = "dir" /\ \E n \in 1 .. Len(s.path) :
            LET p == SubSeq(s.path, 1, n) IN LStat(p) # Absent /\ ~ IsDir(p)

\* A run by root fails only over what somebody has to put right: a line of no form that dinit
\* knows, or something in the way of a step.  What an earlier run left, killed or failed at any
\* point, is never in the way of the next.
FailureHasCause ==
    pc = "failed" /\ runner = 0 =>
        \E line \in ToSet(lines) : ~ Proper(line) \/ InTheWay(Asked(line))
=============================================================================
