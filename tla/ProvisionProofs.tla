-------------------------- MODULE ProvisionProofs --------------------------
(***************************************************************************)
(* What dinix-init does to a file system, for every set of places, every   *)
(* spec file, every environment and any number of runs: the proofs of      *)
(* TypeOK, SatisfiedRunIsIdle, OthersUntouched, FailureHasCause and        *)
(* Provisioned.                                                            *)
(***************************************************************************)
EXTENDS Provision, SpecFileProofs, TLAPS

Places == Paths \cup {<< >>}

-----------------------------------------------------------------------------
(* Induction over paths.                                                   *)

(* A path is a sequence of names, and the place it is in is a path or the root. *)
LEMMA PathFront ==
  ASSUME NEW p \in Paths
  PROVE  /\ p \in Seq(Text) /\ p # << >> /\ Len(p) \in Nat /\ Len(p) > 0
         /\ Front(p) \in Places /\ Len(Front(p)) = Len(p) - 1
         /\ Last(p) \in Text /\ Append(Front(p), Last(p)) = p
<1>1. p \in Seq(Text) /\ p # << >> /\ (Len(p) > 1 => Front(p) \in Paths)
  BY PathsAssumption
<1>2. /\ Len(p) \in Nat /\ Len(p) > 0
      /\ Front(p) \in Seq(Text) /\ Len(Front(p)) = Len(p) - 1
      /\ Last(p) \in Text /\ Append(Front(p), Last(p)) = p
  BY <1>1, FrontType
<1>3. Len(p) = 1 => Front(p) = << >>
  BY <1>2
<1>. QED
  BY <1>1, <1>2, <1>3 DEF Places

LEMMA RootIsNoPath == << >> \notin Paths /\ << >> \in Places /\ Len(<< >>) = 0
BY PathsAssumption DEF Places

LEMMA PlaceLength == \A p \in Places : Len(p) \in Nat /\ (Len(p) = 0 <=> p = << >>)
BY PathFront, RootIsNoPath DEF Places

(* What holds of the root, and of a path when it holds of the place it is in. *)
LEMMA PathInduction ==
  ASSUME NEW T, << >> \in T, \A p \in Paths : Front(p) \in T => p \in T
  PROVE  Places \subseteq T
<1>. DEFINE N == {n \in Nat : \A p \in Places : Len(p) = n => p \in T}
<1>1. 0 \in N
  BY PlaceLength
<1>2. ASSUME NEW n \in Nat, n \in N PROVE n + 1 \in N
  <2>1. ASSUME NEW p \in Places, Len(p) = n + 1 PROVE p \in T
    <3>1. p \in Paths
      BY <2>1, PlaceLength DEF Places
    <3>2. Front(p) \in Places /\ Len(Front(p)) = n
      BY <2>1, <3>1, PathFront
    <3>. QED
      BY <1>2, <3>1, <3>2
  <2>. QED
    BY <2>1
<1>. HIDE DEF N
<1>3. Nat \subseteq N
  BY <1>1, <1>2, Induct
<1>. QED
  BY <1>3, PlaceLength DEF N

-----------------------------------------------------------------------------
(* Path resolution is well defined.                                        *)

(* What Real says of a path, given what it says of the place it is in. *)
Step(r, p) == IF p = << >> THEN p ELSE Followed(Append(r, Last(p)))

Upto(n) == {p \in Places : Len(p) <= n}

(* The function that Real is on the paths of at most n names. *)
Good(f, n) == f = [p \in Upto(n) |-> Step(f[Front(p)], p)]

LEMMA GoodUnique ==
  ASSUME NEW n \in Nat, NEW m \in Nat, NEW f, NEW g, Good(f, n), Good(g, m), n <= m
  PROVE  \A p \in Upto(n) : f[p] = g[p]
<1>. DEFINE T == {p \in Places : Len(p) <= n => f[p] = g[p]}
<1>0. \A p \in Upto(n) : p \in Upto(m)
  BY PlaceLength DEF Upto
<1>a. \A p \in Upto(n) : f[p] = Step(f[Front(p)], p)
  BY DEF Good
<1>b. \A p \in Upto(m) : g[p] = Step(g[Front(p)], p)
  BY DEF Good
<1>1. << >> \in T
  BY <1>0, <1>a, <1>b, RootIsNoPath DEF Upto, Step
<1>2. ASSUME NEW p \in Paths, Front(p) \in T PROVE p \in T
  <2>1. SUFFICES ASSUME Len(p) <= n PROVE f[p] = g[p]
    BY DEF Places
  <2>2. p \in Upto(n) /\ Front(p) \in Upto(n)
    BY <2>1, PathFront DEF Upto, Places
  <2>3. f[Front(p)] = g[Front(p)]
    BY <1>2, <2>2 DEF Upto
  <2>. QED
    BY <1>0, <1>a, <1>b, <2>2, <2>3
<1>. HIDE DEF T
<1>3. Places \subseteq T
  BY <1>1, <1>2, PathInduction
<1>. QED
  BY <1>3 DEF T, Upto

LEMMA GoodExists == \A n \in Nat : \E f : Good(f, n)
<1>. DEFINE N == {n \in Nat : \E f : Good(f, n)}
<1>1. 0 \in N
  <2>. DEFINE f == [p \in Upto(0) |-> << >>]
  <2>1. \A p \in Upto(0) : p = << >>
    BY PlaceLength DEF Upto
  <2>2. \A p \in Upto(0) : Step(f[Front(p)], p) = << >>
    BY <2>1 DEF Step
  <2>3. f = [p \in Upto(0) |-> Step(f[Front(p)], p)]
    BY <2>2
  <2>. HIDE DEF f
  <2>. QED
    BY <2>3 DEF Good
<1>2. ASSUME NEW n \in Nat, n \in N PROVE n + 1 \in N
  <2>1. PICK f : Good(f, n)
    BY <1>2
  <2>a. \A p \in Upto(n) : f[p] = Step(f[Front(p)], p)
    BY <2>1 DEF Good
  <2>. DEFINE g == [p \in Upto(n + 1) |-> IF p \in Upto(n) THEN f[p] ELSE Step(f[Front(p)], p)]
  <2>2. \A p \in Upto(n) : p \in Upto(n + 1)
    BY PlaceLength DEF Upto
  <2>3. ASSUME NEW p \in Upto(n + 1), p # << >> PROVE Front(p) \in Upto(n)
    <3>1. p \in Paths /\ Len(p) <= n + 1
      BY <2>3 DEF Upto, Places
    <3>. QED
      BY <3>1, PathFront DEF Upto
  <2>4. \A p \in Upto(n + 1) : p # << >> => g[Front(p)] = f[Front(p)]
    BY <2>2, <2>3
  <2>5. \A p \in Upto(n + 1) : g[p] = Step(f[Front(p)], p)
    BY <2>a
  <2>6. \A p \in Upto(n + 1) : g[p] = Step(g[Front(p)], p)
    BY <2>4, <2>5 DEF Step
  <2>7. g = [p \in Upto(n + 1) |-> g[p]]
    OBVIOUS
  <2>. HIDE DEF g
  <2>8. Good(g, n + 1)
    BY <2>6, <2>7 DEF Good
  <2>. QED
    BY <2>8
<1>. HIDE DEF N
<1>3. Nat \subseteq N
  BY <1>1, <1>2, Induct
<1>. QED
  BY <1>3 DEF N

Stage(n) == CHOOSE f : Good(f, n)

RealEquation ==
  Real = [p \in Places |-> IF p = << >> THEN p ELSE Followed(Append(Real[Front(p)], Last(p)))]

(* The equation that defines Real holds: the recursion is well founded. *)
LEMMA RealDef == RealEquation
<1>. DEFINE h == [p \in Places |-> Stage(Len(p))[p]]
<1>1. \A n \in Nat : Good(Stage(n), n)
  BY GoodExists DEF Stage
<1>2. ASSUME NEW p \in Places PROVE h[p] = Step(h[Front(p)], p)
  <2>1. CASE p = << >>
    <3>1. p \in Upto(0) /\ Good(Stage(0), 0) /\ Len(p) = 0
      BY <1>1, <2>1, RootIsNoPath DEF Upto
    <3>2. Stage(0)[p] = Step(Stage(0)[Front(p)], p)
      BY <3>1 DEF Good
    <3>. QED
      BY <2>1, <3>1, <3>2 DEF Step
  <2>2. CASE p # << >>
    <3>1. p \in Paths
      BY <2>2 DEF Places
    <3>. DEFINE n == Len(p)
                m == Len(Front(p))
    <3>2. n \in Nat /\ m \in Nat /\ m <= n /\ Front(p) \in Places
      BY <3>1, PathFront
    <3>3. p \in Upto(n) /\ Front(p) \in Upto(m)
      BY <3>2 DEF Upto
    <3>4. Good(Stage(n), n) /\ Good(Stage(m), m)
      BY <1>1, <3>2
    <3>5. Stage(n)[p] = Step(Stage(n)[Front(p)], p)
      BY <3>3, <3>4 DEF Good
    <3>6. Stage(m)[Front(p)] = Stage(n)[Front(p)]
      BY <3>2, <3>3, <3>4, GoodUnique
    <3>7. h[p] = Stage(n)[p] /\ h[Front(p)] = Stage(m)[Front(p)]
      BY <3>2
    <3>. QED
      BY <3>5, <3>6, <3>7
  <2>. QED
    BY <2>1, <2>2
<1>3. h = [p \in Places |-> h[p]]
  OBVIOUS
<1>. HIDE DEF h
<1>4. h = [p \in Places |-> IF p = << >> THEN p ELSE Followed(Append(h[Front(p)], Last(p)))]
  BY <1>2, <1>3 DEF Step
<1>. QED
  BY <1>4 DEF RealEquation, Real, Places
LEMMA RealDefNext == RealEquation'
BY RealDef, PTL

LEMMA RealValue ==
  /\ Real[<< >>] = << >>
  /\ \A p \in Paths : Real[p] = Followed(Spot(p))
BY RealDef, RootIsNoPath DEF RealEquation, Places, Spot

-----------------------------------------------------------------------------
(* Where paths lead in a tree.                                             *)

LEMMA EntryKinds ==
  ASSUME NEW e, IsEntry(e)
  PROVE  /\ e.kind \in {"absent", "file", "link", "dir"}
         /\ e.kind = "absent" <=> e = Absent
         /\ e.kind = "link" <=> e \in Links
         /\ e.kind = "dir" <=> e \in Dirs
BY DEF IsEntry, Absent, File, Links, Dirs

LEMMA Extend ==
  ASSUME NEW S, NEW s \in Seq(S), NEW x \in S, NEW r \in Seq(S)
  PROVE  /\ <<x>> \o r \in Seq(S)
         /\ s \o (<<x>> \o r) = Append(s, x) \o r
         /\ s \o << >> = s
OBVIOUS

LEMMA PrefixCut ==
  ASSUME NEW S, NEW s \in Seq(S), NEW r \in Seq(S)
  PROVE  IsPrefix(s, s \o r) /\ SubSeq(s \o r, Len(s) + 1, Len(s \o r)) = r
BY DEF IsPrefix

(* Every path leads to a place: what there may be below a link may be      *)
(* where the link leads.                                                   *)
LEMMA PathsLead ==
  ASSUME IsTree(fs)
  PROVE  \A p \in Paths : Spot(p) \in Paths /\ Real[p] \in Paths
<1>. DEFINE Name == Text
<1>0. << >> \in Seq(Name)
  OBVIOUS
<1>1. \A p \in Places : p \in Seq(Name)
  BY <1>0, PathFront DEF Places
<1>a. \A p \in Paths : Last(p) \in Name
  BY PathFront
<1>. HIDE DEF Name
<1>. DEFINE T == {p \in Places : /\ Real[p] \in Places
                                 /\ \A r \in Seq(Name) : p \o r \in Places => Real[p] \o r \in Places}
<1>2. << >> \in T
  BY RealValue, RootIsNoPath
<1>3. ASSUME NEW p \in Paths, Front(p) \in T
      PROVE  Spot(p) \in Paths /\ Real[p] \in Paths /\ p \in T
  <2>1. /\ p \in Seq(Name) /\ Last(p) \in Name /\ Front(p) \in Seq(Name)
        /\ Append(Front(p), Last(p)) = p /\ Real[Front(p)] \in Seq(Name)
    BY <1>1, <1>a, <1>3, PathFront DEF Places
  <2>2. ASSUME NEW r \in Seq(Name), p \o r \in Places PROVE Spot(p) \o r \in Places
    <3>. DEFINE q == <<Last(p)>> \o r
    <3>0. \A s \in Seq(Name) : q \in Seq(Name) /\ s \o q = Append(s, Last(p)) \o r
      <4>1. Last(p) \in Name /\ r \in Seq(Name)
        BY <2>1, Zenon
      <4>. QED
        BY <4>1, Extend
    <3>. HIDE DEF q
    <3>1. q \in Seq(Name) /\ Front(p) \o q = p \o r
      BY <2>1, <3>0
    <3>2. Real[Front(p)] \o q = Spot(p) \o r
      BY <2>1, <3>0 DEF Spot
    <3>. QED
      BY <1>3, <2>2, <3>1, <3>2
  <2>3. Spot(p) \in Seq(Name) /\ Spot(p) # << >>
    BY <2>1, AppendFront DEF Spot
  <2>4. Spot(p) \in Paths
    <3>1. << >> \in Seq(Name) /\ p \o << >> = p /\ Spot(p) \o << >> = Spot(p)
      BY <2>1, <2>3, Extend
    <3>. QED
      BY <2>2, <2>3, <3>1 DEF Places
  <2>5. CASE At(Spot(p)).kind # "link"
    <3>1. Real[p] = Spot(p)
      BY <2>5, RealValue DEF Followed
    <3>. QED
      BY <2>2, <2>4, <3>1 DEF Places
  <2>6. CASE At(Spot(p)).kind = "link"
    <3>1. fs[Spot(p)].kind = "link" /\ Real[p] = fs[Spot(p)].to
      BY <2>3, <2>4, <2>6, RealValue DEF Followed, At
    <3>2. Real[p] \in Paths
      BY <2>4, <3>1, EntryKinds DEF IsTree, Links
    <3>3. ASSUME NEW r \in Seq(Name), p \o r \in Places PROVE Real[p] \o r \in Places
      <4>1. Spot(p) \o r \in Paths
        <5>1. Spot(p) \o r # << >>
          BY <2>3
        <5>. QED
          BY <2>2, <3>3, <5>1 DEF Places
      <4>2. IsPrefix(Spot(p), Spot(p) \o r)
            /\ SubSeq(Spot(p) \o r, Len(Spot(p)) + 1, Len(Spot(p) \o r)) = r
        BY <2>3, PrefixCut
      <4>3. fs[Spot(p)].to \o SubSeq(Spot(p) \o r, Len(Spot(p)) + 1, Len(Spot(p) \o r)) \in Paths
        BY <2>4, <3>1, <4>1, <4>2 DEF IsTree
      <4>. QED
        BY <3>1, <4>2, <4>3 DEF Places
    <3>. QED
      BY <2>4, <3>2, <3>3 DEF Places
  <2>. QED
    BY <2>5, <2>6
<1>4. Places \subseteq T
  <2>1. \A p \in Paths : Front(p) \in T => p \in T
    BY <1>3
  <2>. HIDE DEF T
  <2>. QED
    BY <1>2, <2>1, PathInduction
<1>. QED
  BY <1>3, <1>4, PathFront

(* What lstat and stat say, from the entry at the place. *)
LEMMA Stats ==
  ASSUME IsTree(fs), NEW p \in Paths
  PROVE  /\ Spot(p) \in Paths /\ Real[p] \in Paths
         /\ LStat(p) = fs[Spot(p)] /\ IsEntry(LStat(p))
         /\ Stat(p) = fs[Real[p]] /\ IsEntry(Stat(p))
         /\ LStat(p).kind # "link" => Real[p] = Spot(p)
<1>1. Spot(p) \in Paths /\ Real[p] \in Paths
  BY PathsLead
<1>2. LStat(p) = fs[Spot(p)] /\ Stat(p) = fs[Real[p]]
  BY <1>1, RootIsNoPath DEF LStat, Stat, At
<1>3. LStat(p).kind # "link" => Real[p] = Spot(p)
  BY RealValue DEF LStat, Followed
<1>. QED
  BY <1>1, <1>2, <1>3 DEF IsTree

(* What is there is in a directory; the root always is one. *)
LEMMA ParentIsDir ==
  ASSUME IsTree(fs), NEW p \in Paths
  PROVE  /\ LStat(p) # Absent => Stat(Front(p)).kind = "dir"
         /\ Stat(Front(p)) = Absent => Front(p) \in Paths
         /\ Stat(<< >>) = RootDir
         /\ Len(Spot(p)) > 1 => Real[Front(p)] \in Paths /\ Front(Spot(p)) = Real[Front(p)]
<1>1. Stat(<< >>) = RootDir /\ RootDir.kind = "dir" /\ RootDir # Absent
  BY RealValue DEF Stat, At, RootDir, Dir, Absent
<1>2. Front(p) \in Paths \/ Front(p) = << >>
  BY PathFront DEF Places
<1>3. ASSUME Front(p) \in Paths
      PROVE  /\ Real[Front(p)] \in Paths /\ Front(Spot(p)) = Real[Front(p)] /\ Len(Spot(p)) > 1
             /\ Stat(Front(p)) = fs[Real[Front(p)]]
  <2>1. Real[Front(p)] \in Paths /\ Stat(Front(p)) = fs[Real[Front(p)]]
    BY <1>3, Stats
  <2>2. Real[Front(p)] \in Seq(Text) /\ Last(p) \in Text /\ Len(Real[Front(p)]) > 0
        /\ Len(Real[Front(p)]) \in Nat
    BY <2>1, PathFront
  <2>. QED
    BY <2>1, <2>2, AppendFront DEF Spot
<1>4. ASSUME Front(p) = << >> PROVE Len(Spot(p)) = 1
  <2>1. Last(p) \in Text /\ Spot(p) = Append(<< >>, Last(p))
    BY <1>4, RealValue, PathFront DEF Spot
  <2>. QED
    BY <2>1
<1>5. LStat(p) # Absent /\ Front(p) \in Paths => Stat(Front(p)).kind = "dir"
  BY <1>3, Stats DEF IsTree
<1>6. Front(p) = << >> => Stat(Front(p)) = RootDir
  BY <1>1
<1>7. LStat(p) # Absent => Stat(Front(p)).kind = "dir"
  BY <1>1, <1>2, <1>5, <1>6
<1>8. Stat(Front(p)) = Absent => Front(p) \in Paths
  BY <1>1, <1>2, <1>6
<1>9. Len(Spot(p)) > 1 => Front(p) \in Paths
  BY <1>2, <1>4
<1>. QED
  BY <1>1, <1>3, <1>7, <1>8, <1>9

-----------------------------------------------------------------------------
(* What a write does.                                                      *)

(* Paths lead where they led as long as no link comes or goes. *)
LEMMA RealStays ==
  ASSUME \A q \in Paths : fs[q].kind = "link" \/ fs'[q].kind = "link" => fs'[q] = fs[q]
  PROVE  Real' = Real /\ \A p \in Paths : Spot(p)' = Spot(p)
<1>. DEFINE T == {p \in Places : Real'[p] = Real[p]}
<1>a. /\ Real = [p \in Places |-> IF p = << >> THEN p ELSE Followed(Append(Real[Front(p)], Last(p)))]
      /\ Real' = [p \in Places |-> IF p = << >> THEN p ELSE Followed(Append(Real[Front(p)], Last(p)))]'
  BY RealDef, RealDefNext DEF RealEquation
<1>b. \A x : Followed(x)' = Followed(x)
  BY DEF Followed, At
<1>1. << >> \in T
  BY <1>a, RootIsNoPath
<1>2. ASSUME NEW p \in Paths, Front(p) \in T PROVE p \in T
  <2>1. p \in Places /\ p # << >> /\ Real'[Front(p)] = Real[Front(p)]
    BY <1>2, RootIsNoPath DEF Places
  <2>2. PICK x : x = Append(Real[Front(p)], Last(p))
    OBVIOUS
  <2>3. Real[p] = Followed(x)
    BY <1>a, <2>1, <2>2
  <2>4. Real'[p] = Followed(x)'
    BY <1>a, <2>1, <2>2
  <2>. QED
    BY <1>b, <2>1, <2>3, <2>4
<1>3. Places \subseteq T
  <2>. HIDE DEF T
  <2>. QED
    BY <1>1, <1>2, PathInduction
<1>4. Real' = Real
  BY <1>a, <1>3
<1>. QED
  BY <1>4 DEF Spot

(* An entry that is no link becomes a directory, in a directory that is there. *)
Write(q, d) ==
  /\ q \in Paths /\ d \in Dirs /\ fs[q].kind \in {"absent", "dir"}
  /\ fs[q] = Absent /\ Len(q) > 1 => fs[Front(q)].kind = "dir"
  /\ fs' = [fs EXCEPT ![q] = d]

LEMMA WriteKeeps ==
  ASSUME IsTree(fs), NEW q, NEW d, Write(q, d)
  PROVE  /\ IsTree(fs)' /\ Real' = Real /\ \A p \in Paths : Spot(p)' = Spot(p)
         /\ fs'[q] = d /\ \A r \in Paths : r # q => fs'[r] = fs[r]
<1>1. /\ fs'[q] = d /\ \A r \in Paths : r # q => fs'[r] = fs[r]
      /\ DOMAIN fs' = Paths
  BY DEF IsTree, Write
<1>2. d.kind = "dir" /\ IsEntry(d) /\ d # Absent
  BY DEF Write, Dirs, IsEntry, Absent
<1>3. \A r \in Paths : IsEntry(fs'[r])
  BY <1>1, <1>2 DEF IsTree
<1>4. ASSUME NEW r \in Paths, fs'[r] # Absent, Len(r) > 1 PROVE fs'[Front(r)].kind = "dir"
  <2>1. Front(r) \in Paths
    BY <1>4, PathsAssumption
  <2>2. fs[Front(r)].kind = "dir"
    BY <1>1, <1>4 DEF IsTree, Write
  <2>. QED
    BY <1>1, <1>2, <2>1, <2>2
<1>5. \A r \in Paths : fs[r].kind = "link" \/ fs'[r].kind = "link" => fs'[r] = fs[r]
  BY <1>1, <1>2 DEF Write
<1>6. ASSUME NEW r \in Paths, NEW s \in Paths, fs'[r].kind = "link", IsPrefix(r, s)
      PROVE  fs'[r].to \o SubSeq(s, Len(r) + 1, Len(s)) \in Paths
  BY <1>5, <1>6 DEF IsTree
<1>7. IsTree(fs')
  BY <1>1, <1>3, <1>4, <1>6 DEF IsTree
<1>. QED
  BY <1>1, <1>5, <1>7, RealStays

LEMMA NothingWritten ==
  ASSUME fs' = fs
  PROVE  Real' = Real /\ \A p \in Paths : Spot(p)' = Spot(p)
BY RealStays

-----------------------------------------------------------------------------
(* The file and the steps.                                                 *)

LEMMA FileLength ==
  ASSUME lines \in SpecFiles
  PROVE  Len(lines) \in Nat /\ DOMAIN lines = 1 .. Len(lines) /\ \A i \in 1 .. Len(lines) : IsLine(lines[i])
BY SpecFilesAssumption

LEMMA StepsRead ==
  ASSUME lines \in SpecFiles, env \in Envs, Parse(lines, env).ok
  PROVE  /\ \A i \in 1 .. Len(lines) : Readable(lines[i], env)
         /\ Parse(lines, env).steps = [i \in 1 .. Len(lines) |-> StepOf(lines[i], env)]
         /\ Len(Parse(lines, env).steps) = Len(lines)
<1>1. DOMAIN lines = 1 .. Len(lines) /\ Len(lines) \in Nat
  BY FileLength
<1>2. \A i \in DOMAIN lines : Readable(lines[i], env)
  BY DEF Parse
<1>3. Parse(lines, env).steps = [i \in DOMAIN lines |-> StepOf(lines[i], env)]
  BY <1>2 DEF Parse
<1>. QED
  BY <1>1, <1>2, <1>3

LEMMA StepsUnread ==
  ASSUME ~ Parse(lines, env).ok
  PROVE  /\ Parse(lines, env).steps = << >>
         /\ \E i \in DOMAIN lines : ~ Readable(lines[i], env)
BY DEF Parse

LEMMA OkIsBoolean == Parse(lines, env).ok \in BOOLEAN
BY DEF Parse

LEMMA StepPath == \A s : IsStep(s) => s.path \in Paths
BY Zenon DEF IsStep

LEMMA DirStep ==
  ASSUME NEW s, IsStep(s), s.op = "dir"
  PROVE  s.mode \in Nat /\ {s.uid, s.gid} \subseteq Ids \cup {Unset}
<1>1. "dir" # "must-exist"
  OBVIOUS
<1>2. s.mode \in WrittenModes /\ {s.uid, s.gid} \subseteq Ids \cup {Unset}
  BY <1>1, Zenon DEF IsStep
<1>3. \A m \in WrittenModes : m \in Nat
  BY DEF WrittenModes
<1>. QED
  BY <1>2, <1>3, Zenon

LEMMA SpecSteps ==
  ASSUME lines \in SpecFiles, env \in Envs, spec \in {<< >>, Parse(lines, env).steps}
  PROVE  /\ Len(spec) \in Nat /\ DOMAIN spec = 1 .. Len(spec)
         /\ \A i \in 1 .. Len(spec) : IsStep(spec[i]) /\ spec[i].path \in Paths
<1>1. CASE spec = << >>
  BY <1>1
<1>2. CASE spec # << >>
  <2>1. Parse(lines, env).ok /\ spec = Parse(lines, env).steps
    BY <1>2, StepsUnread
  <2>2. Len(spec) = Len(lines) /\ DOMAIN spec = 1 .. Len(lines) /\ Len(lines) \in Nat
    BY <2>1, StepsRead, FileLength
  <2>3. \A i \in 1 .. Len(spec) : IsStep(spec[i])
    BY <2>1, <2>2, SpecFilesAssumption DEF ToSet
  <2>4. \A s : IsStep(s) => s.path \in Paths
    BY StepPath
  <2>. QED
    BY <2>2, <2>3, <2>4
<1>. QED
  BY <1>1, <1>2

-----------------------------------------------------------------------------
(* The inductive invariant of one run.                                     *)

(* A run is of the steps of a file that could be read. *)
Reading ==
  Running \/ pc = "succeeded" => Parse(lines, env).ok /\ spec = Parse(lines, env).steps

AtADir == pc \in {"mkdir", "check", "chmod", "chown"} => at <= Len(spec) /\ Current.op = "dir"

(* What create_dir_all has still to make are the path and the places it is in. *)
Making ==
  pc = "mkdir" =>
    /\ Len(todo) <= Len(Current.path)
    /\ \A i \in 1 .. Len(todo) : todo[i] = SubSeq(Current.path, 1, Len(Current.path) - i + 1)

PInv == Types /\ Reading /\ AtADir /\ Making /\ Settled

LEMMA InitInv == Init => PInv
<1>. SUFFICES ASSUME Init PROVE PInv
  OBVIOUS
<1>1. IsTree(fs) /\ image \in Trees
  BY TreesAssumption DEF Init
<1>2. << >> \in Seq(Paths) /\ Len(<< >>) = 0
  OBVIOUS
<1>3. Types
  BY <1>1, <1>2, BoundsAssumption DEF Init, Types
<1>. QED
  BY <1>3 DEF Init, PInv, Reading, AtADir, Making, Settled, Running

(* The step a run is at. *)
LEMMA AtStep ==
  ASSUME PInv
  PROVE  /\ Len(spec) \in Nat /\ at \in Nat /\ at > 0
         /\ at <= Len(spec) => IsStep(Current) /\ Current.path \in Paths
<1>1. lines \in SpecFiles /\ env \in Envs /\ spec \in {<< >>, Parse(lines, env).steps}
  BY DEF PInv, Types
<1>2. Len(spec) \in Nat /\ \A i \in 1 .. Len(spec) : IsStep(spec[i]) /\ spec[i].path \in Paths
  BY <1>1, SpecSteps
<1>. QED
  BY <1>2 DEF PInv, Types, Current

(* The directory that is to be made next is the step's, or one it is in. *)
LEMMA NextToMake ==
  ASSUME PInv, pc = "mkdir"
  PROVE  /\ at <= Len(spec) /\ Current.op = "dir" /\ Current.path \in Paths
         /\ Len(todo) \in Nat /\ Len(todo) > 0 /\ Last(todo) \in Paths
         /\ Len(Last(todo)) = Len(Current.path) - Len(todo) + 1
         /\ Last(todo) = SubSeq(Current.path, 1, Len(Last(todo)))
         /\ Len(todo) = 1 => Last(todo) = Current.path
<1>1. at <= Len(spec) /\ Current.op = "dir" /\ Current.path \in Paths
  BY AtStep DEF PInv, AtADir
<1>2. todo \in Seq(Paths) /\ todo # << >>
  BY DEF PInv, Types
<1>3. Len(todo) \in Nat /\ Len(todo) > 0 /\ Last(todo) = todo[Len(todo)] /\ Last(todo) \in Paths
  BY <1>2, FrontType DEF Last
<1>4. /\ Len(todo) <= Len(Current.path)
      /\ todo[Len(todo)] = SubSeq(Current.path, 1, Len(Current.path) - Len(todo) + 1)
  BY <1>3 DEF PInv, Making
<1>5. Current.path \in Seq(Text) /\ Len(Current.path) \in Nat
  BY <1>1, PathFront
<1>. DEFINE n == Len(Current.path) - Len(todo) + 1
<1>6. n \in 1 .. Len(Current.path)
  BY <1>3, <1>4, <1>5
<1>7. Len(SubSeq(Current.path, 1, n)) = n
  BY <1>5, <1>6
<1>8. Len(todo) = 1 => SubSeq(Current.path, 1, n) = Current.path
  BY <1>5
<1>. QED
  BY <1>1, <1>3, <1>4, <1>7, <1>8

-----------------------------------------------------------------------------
(* What each operation writes.                                             *)

(* The twelve low bits of a number. *)
LEMMA LowBits == \A m \in Nat : m % 4096 \in Modes
BY DEF Modes

LEMMA LowBitsOnly == \A m \in Modes : m % 4096 = m
BY DEF Modes

LEMMA MkDirWrites ==
  ASSUME PInv, MkDir
  PROVE  \/ fs' = fs
         \/ \E p \in Paths : /\ p = Last(todo) /\ LStat(p) = Absent /\ fs[Spot(p)] = Absent
                             /\ Write(Spot(p), Dir(493, runner, runner))
<1>1. PICK p \in Paths : p = Last(todo) /\ pc = "mkdir"
  BY NextToMake DEF MkDir
<1>2. IsTree(fs)
  BY DEF PInv, Types
<1>3. SUFFICES ASSUME LStat(p) = Absent, Stat(Front(p)).kind = "dir",
                      fs' = [fs EXCEPT ![Spot(p)] = Dir(493, runner, runner)]
               PROVE  Write(Spot(p), Dir(493, runner, runner)) /\ fs[Spot(p)] = Absent
  BY <1>1 DEF MkDir
<1>4. Spot(p) \in Paths /\ fs[Spot(p)] = Absent /\ fs[Spot(p)].kind = "absent"
  BY <1>2, <1>3, Stats DEF Absent
<1>5. Dir(493, runner, runner) \in Dirs
  <2>1. runner \in Nat
    BY BoundsAssumption DEF PInv, Types, Ids
  <2>. QED
    BY <2>1 DEF Dir, Dirs, Modes, Ids
<1>6. Len(Spot(p)) > 1 => fs[Front(Spot(p))].kind = "dir"
  <2>1. SUFFICES ASSUME Len(Spot(p)) > 1 PROVE fs[Real[Front(p)]].kind = "dir"
    BY <1>2, ParentIsDir
  <2>2. Real[Front(p)] \in Paths
    BY <1>2, <2>1, ParentIsDir
  <2>. QED
    BY <1>3, <2>2, RootIsNoPath DEF Stat, At
<1>. QED
  BY <1>3, <1>4, <1>5, <1>6 DEF Write

(* The directory that chmod and chown act on is the one at the step's place. *)
LEMMA TheDirectory ==
  ASSUME PInv, pc \in {"chmod", "chown"}
  PROVE  /\ at <= Len(spec) /\ Current.op = "dir" /\ Current.path \in Paths /\ IsStep(Current)
         /\ Real[Current.path] = Spot(Current.path) /\ Spot(Current.path) \in Paths
         /\ Stat(Current.path) = fs[Spot(Current.path)] /\ LStat(Current.path) = fs[Spot(Current.path)]
         /\ fs[Spot(Current.path)] \in Dirs
<1>1. at <= Len(spec) /\ Current.op = "dir" /\ Current.path \in Paths /\ IsStep(Current)
  BY AtStep DEF PInv, AtADir
<1>2. PICK p \in Paths : p = Current.path
  BY <1>1
<1>3. IsTree(fs)
  BY DEF PInv, Types
<1>4. Real[p] = Spot(p) /\ Spot(p) \in Paths /\ Stat(p) = fs[Spot(p)] /\ LStat(p) = fs[Spot(p)]
      /\ IsEntry(Stat(p)) /\ Stat(p).kind = "dir"
  BY <1>2, <1>3, Stats DEF PInv, Settled, IsDir
<1>5. Stat(p) \in Dirs
  BY <1>4, EntryKinds
<1>. QED
  BY <1>1, <1>2, <1>4, <1>5

LEMMA ChmodWrites ==
  ASSUME PInv, Chmod
  PROVE  \/ pc' = "failed" /\ fs' = fs
         \/ \E q \in Paths, d \in Dirs :
               /\ q = Spot(Current.path) /\ d.mode = Current.mode % 4096
               /\ d.uid = fs[q].uid /\ d.gid = fs[q].gid /\ fs[q].kind = "dir"
               /\ Write(q, d)
<1>1. /\ Current.op = "dir" /\ IsStep(Current)
      /\ Real[Current.path] = Spot(Current.path) /\ Spot(Current.path) \in Paths
      /\ fs[Spot(Current.path)] \in Dirs
  BY TheDirectory DEF Chmod
<1>2. PICK q \in Paths : q = Spot(Current.path) /\ q = Real[Current.path] /\ fs[q] \in Dirs
  BY <1>1
<1>. DEFINE d == [fs[q] EXCEPT !.mode = NewMode(Current)]
<1>3. (pc' = "failed" /\ fs' = fs) \/ fs' = [fs EXCEPT ![q] = d]
  BY <1>2 DEF Chmod, Fail
<1>4. NewMode(Current) \in Modes /\ NewMode(Current) = Current.mode % 4096
  <2>1. Current.mode \in Nat
    BY <1>1, DirStep, Zenon
  <2>. QED
    BY <2>1, LowBits DEF NewMode
<1>5. d \in Dirs /\ d.mode = Current.mode % 4096 /\ d.uid = fs[q].uid /\ d.gid = fs[q].gid
  BY <1>2, <1>4 DEF Dirs
<1>6. fs[q].kind = "dir" /\ fs[q] # Absent
  BY <1>2 DEF Dirs, Absent
<1>. HIDE DEF d
<1>. QED
  BY <1>2, <1>3, <1>5, <1>6 DEF Write

LEMMA ChownWrites ==
  ASSUME PInv, Chown
  PROVE  \/ pc' = "failed" /\ fs' = fs
         \/ \E q \in Paths, d \in Dirs :
               /\ q = Spot(Current.path) /\ d.mode = fs[q].mode /\ fs[q].kind = "dir"
               /\ d.uid = IF Current.uid = Unset THEN fs[q].uid ELSE Current.uid
               /\ d.gid = IF Current.gid = Unset THEN fs[q].gid ELSE Current.gid
               /\ Write(q, d)
<1>1. /\ Current.op = "dir" /\ IsStep(Current)
      /\ Real[Current.path] = Spot(Current.path) /\ Spot(Current.path) \in Paths
      /\ Stat(Current.path) = fs[Spot(Current.path)] /\ fs[Spot(Current.path)] \in Dirs
  BY TheDirectory DEF Chown
<1>2. PICK q \in Paths : /\ q = Spot(Current.path) /\ q = Real[Current.path]
                         /\ fs[q] \in Dirs /\ Stat(Current.path) = fs[q]
  BY <1>1
<1>. DEFINE u == IF Current.uid = Unset THEN fs[q].uid ELSE Current.uid
            g == IF Current.gid = Unset THEN fs[q].gid ELSE Current.gid
            d == Dir(fs[q].mode, u, g)
<1>3. (pc' = "failed" /\ fs' = fs) \/ fs' = [fs EXCEPT ![q] = d]
  BY <1>2 DEF Chown, Fail
<1>4. {Current.uid, Current.gid} \subseteq Ids \cup {Unset}
  BY <1>1, DirStep, Zenon
<1>5. fs[q].mode \in Modes /\ fs[q].uid \in Ids /\ fs[q].gid \in Ids /\ fs[q].kind = "dir" /\ fs[q] # Absent
  BY <1>2 DEF Dirs, Absent
<1>6. u \in Ids /\ g \in Ids
  BY <1>4, <1>5
<1>. HIDE DEF u, g
<1>7. d \in Dirs /\ d.mode = fs[q].mode /\ d.uid = u /\ d.gid = g
  BY <1>5, <1>6 DEF Dirs, Dir
<1>. HIDE DEF d
<1>. QED
  BY <1>2, <1>3, <1>5, <1>7 DEF Write, u, g

(* Every step of a run leaves the files a tree, and leads paths where they led. *)
LEMMA ProgramWrites ==
  ASSUME PInv, Program
  PROVE  /\ IsTree(fs)' /\ Real' = Real /\ \A p \in Paths : Spot(p)' = Spot(p)
         /\ fs' = fs \/ \E q, d : Write(q, d)
<1>1. IsTree(fs)
  BY DEF PInv, Types
<1>2. fs' = fs \/ \E q, d : Write(q, d)
  <2>1. CASE MkDir
    BY <2>1, MkDirWrites
  <2>2. CASE Chmod
    BY <2>2, ChmodWrites
  <2>3. CASE Chown
    BY <2>3, ChownWrites
  <2>. QED
    BY <2>1, <2>2, <2>3 DEF Program, Finish, MustExist, BeginDir, Check
<1>3. CASE fs' = fs
  BY <1>1, <1>3, NothingWritten
<1>4. CASE \E q, d : Write(q, d)
  BY <1>1, <1>2, <1>4, WriteKeeps
<1>. QED
  BY <1>2, <1>3, <1>4

-----------------------------------------------------------------------------
(* The invariant is kept.                                                  *)

LEMMA ShorterList ==
  ASSUME NEW S, NEW s \in Seq(S), s # << >>
  PROVE  /\ Front(s) \in Seq(S) /\ Len(Front(s)) = Len(s) - 1
         /\ \A i \in 1 .. Len(s) - 1 : Front(s)[i] = s[i]
         /\ Len(s) = 1 <=> Front(s) = << >>
<1>1. Len(s) \in Nat /\ Len(s) > 0
  OBVIOUS
<1>2. Front(s) \in Seq(S) /\ Len(Front(s)) = Len(s) - 1
  BY FrontType
<1>3. \A i \in 1 .. Len(s) - 1 : Front(s)[i] = s[i]
  BY DEF Front
<1>. QED
  BY <1>1, <1>2, <1>3

LEMMA LongerList ==
  ASSUME NEW S, NEW s \in Seq(S), NEW x \in S
  PROVE  /\ Append(s, x) \in Seq(S) /\ Append(s, x) # << >> /\ Len(Append(s, x)) = Len(s) + 1
         /\ \A i \in 1 .. Len(s) : Append(s, x)[i] = s[i]
         /\ Append(s, x)[Len(s) + 1] = x
BY AppendProperties

(* The step and the lists of a run that goes on. *)
LEMMA ProgramKeepsControl ==
  ASSUME PInv, Program
  PROVE  /\ at' \in 1 .. Len(spec)' + 1
         /\ pc' \in {"idle", "step", "mkdir", "check", "chmod", "chown", "succeeded", "failed"}
         /\ todo' \in Seq(Paths) /\ (pc' = "mkdir") = (todo' # << >>)
         /\ AtADir' /\ Making'
<1>1. /\ Len(spec) \in Nat /\ at \in Nat /\ at > 0 /\ at <= Len(spec) + 1
      /\ todo \in Seq(Paths) /\ (pc = "mkdir") = (todo # << >>) /\ AtADir
  BY AtStep DEF PInv, Types
<1>2. spec' = spec /\ << >> \in Seq(Paths)
  BY DEF Program
<1>3. CASE Finish
  BY <1>1, <1>2, <1>3 DEF Finish, Goto, AtADir, Making, Current
<1>4. CASE MustExist
  BY <1>1, <1>2, <1>4 DEF MustExist, NextStep, Fail, AtADir, Making, Current
<1>5. CASE BeginDir
  <2>1. at <= Len(spec) /\ Current.path \in Paths /\ Current' = Current /\ at' = at
        /\ Current.op = "dir" /\ pc' = "mkdir"
    BY <1>2, <1>5, AtStep DEF BeginDir, Current
  <2>2. PICK p \in Paths : p = Current.path
    BY <2>1
  <2>3. todo' = <<p>>
    BY <1>5, <2>2 DEF BeginDir
  <2>4. Len(p) \in Nat /\ Len(p) > 0 /\ SubSeq(p, 1, Len(p)) = p
    BY PathFront
  <2>5. Len(todo') = 1 /\ todo'[1] = p /\ todo' \in Seq(Paths) /\ todo' # << >>
    BY <2>3
  <2>6. \A i \in 1 .. 1 : todo'[i] = SubSeq(p, 1, Len(p) - i + 1)
    BY <2>4, <2>5
  <2>7. Making'
    BY <2>1, <2>2, <2>4, <2>5, <2>6 DEF Making
  <2>. QED
    BY <1>1, <1>2, <2>1, <2>5, <2>7 DEF AtADir
<1>6. CASE MkDir
  <2>1. pc = "mkdir" /\ todo # << >> /\ Len(todo) \in Nat /\ Len(todo) > 0
    BY <1>1, <1>6 DEF MkDir
  <2>2. PICK p \in Paths : p = Current.path
    BY <2>1, NextToMake
  <2>3. Len(p) \in Nat /\ p \in Seq(Text)
    BY PathFront
  <2>4. Len(todo) <= Len(p) /\ \A i \in 1 .. Len(todo) : todo[i] = SubSeq(p, 1, Len(p) - i + 1)
    BY <2>1, <2>2 DEF PInv, Making
  <2>5. CASE Made
    <3>1. at' = at /\ todo' = Front(todo) /\ pc' = IF Len(todo) = 1 THEN "check" ELSE "mkdir"
      BY <2>5 DEF Made
    <3>2. /\ Front(todo) \in Seq(Paths) /\ Len(Front(todo)) = Len(todo) - 1
          /\ \A i \in 1 .. Len(todo) - 1 : Front(todo)[i] = todo[i]
          /\ Len(todo) = 1 <=> Front(todo) = << >>
      BY <1>1, <2>1, ShorterList
    <3>3. \A i \in 1 .. Len(todo') : todo'[i] = SubSeq(p, 1, Len(p) - i + 1)
      <4>1. Len(todo) \in Nat /\ Len(todo') = Len(todo) - 1
        BY <2>1, <3>1, <3>2
      <4>2. ASSUME NEW i \in 1 .. Len(todo')
            PROVE  i \in 1 .. Len(todo) /\ todo'[i] = todo[i]
        BY <3>1, <3>2, <4>1
      <4>. QED
        BY <2>4, <4>2, Zenon
    <3>4. Current' = Current
      BY <1>2, <3>1 DEF Current
    <3>5. Making'
      BY <2>1, <2>2, <2>3, <2>4, <3>1, <3>2, <3>3, <3>4 DEF Making
    <3>. QED
      BY <1>1, <1>2, <2>1, <3>1, <3>2, <3>4, <3>5 DEF AtADir
  <2>6. CASE todo' = Append(todo, Front(Last(todo))) /\ Stat(Front(Last(todo))) = Absent /\ UNCHANGED <<pc, at, fs>>
    <3>1. PICK q \in Paths : q = Last(todo) /\ q = SubSeq(p, 1, Len(q)) /\ Len(q) = Len(p) - Len(todo) + 1
      BY <2>1, <2>2, NextToMake
    <3>2. Front(q) \in Paths
      BY <2>6, <3>1, ParentIsDir DEF PInv, Types
    <3>3. /\ todo' \in Seq(Paths) /\ todo' # << >> /\ Len(todo') = Len(todo) + 1
          /\ \A i \in 1 .. Len(todo) : todo'[i] = todo[i]
          /\ todo'[Len(todo) + 1] = Front(q)
      BY <1>1, <2>6, <3>1, <3>2, LongerList
    <3>4. Len(Front(q)) = Len(q) - 1 /\ Len(Front(q)) > 0 /\ Len(q) \in Nat
      BY <3>2, PathFront
    <3>5. Front(q) = SubSeq(p, 1, Len(q) - 1)
      <4>1. Len(q) \in 1 .. Len(p)
        BY <2>1, <2>3, <2>4, <3>1, <3>4
      <4>2. SubSeq(SubSeq(p, 1, Len(q)), 1, Len(q) - 1) = SubSeq(p, 1, Len(q) - 1)
        BY <2>3, <4>1
      <4>. QED
        BY <3>1, <4>2 DEF Front
    <3>6. \A i \in 1 .. Len(todo') : todo'[i] = SubSeq(p, 1, Len(p) - i + 1)
      <4>1. ASSUME NEW i \in 1 .. Len(todo) PROVE todo'[i] = SubSeq(p, 1, Len(p) - i + 1)
        BY <2>4, <3>3, <4>1
      <4>2. PICK i : i = Len(todo) + 1
        OBVIOUS
      <4>3. todo'[i] = SubSeq(p, 1, Len(p) - i + 1)
        <5>1. Len(p) - i + 1 = Len(q) - 1
          BY <2>1, <2>3, <3>1, <4>2
        <5>. QED
          BY <3>3, <3>5, <4>2, <5>1
      <4>4. \A j \in 1 .. Len(todo') : j \in 1 .. Len(todo) \/ j = i
        BY <2>1, <3>3, <4>2
      <4>. QED
        BY <4>1, <4>3, <4>4
    <3>7. Len(todo') <= Len(p)
      BY <2>1, <2>3, <3>1, <3>3, <3>4
    <3>8. Current' = Current
      BY <1>2, <2>6 DEF Current
    <3>9. Making'
      BY <2>2, <3>6, <3>7, <3>8 DEF Making
    <3>. QED
      BY <1>1, <1>2, <2>1, <2>6, <3>3, <3>8, <3>9 DEF AtADir
  <2>7. CASE Fail
    BY <1>1, <1>2, <2>7 DEF Fail, AtADir, Making
  <2>. QED
    BY <1>6, <2>5, <2>6, <2>7 DEF MkDir
<1>7. CASE Check
  BY <1>1, <1>2, <1>7 DEF Check, AfterMode, NextStep, Goto, Fail, AtADir, Making, Current
<1>8. CASE Chmod
  BY <1>1, <1>2, <1>8 DEF Chmod, AfterMode, NextStep, Goto, Fail, AtADir, Making, Current
<1>9. CASE Chown
  BY <1>1, <1>2, <1>9 DEF Chown, NextStep, Goto, Fail, AtADir, Making, Current
<1>. QED
  BY <1>3, <1>4, <1>5, <1>6, <1>7, <1>8, <1>9 DEF Program

(* chmod and chown are reached from a directory, and leave it one. *)
LEMMA ProgramKeepsSettled ==
  ASSUME PInv, Program
  PROVE  Settled'
<1>1. IsTree(fs) /\ IsTree(fs)' /\ Real' = Real /\ spec' = spec
  BY ProgramWrites DEF Program, PInv, Types
<1>2. ASSUME NEW p \in Paths, IsDir(p), LStat(p).kind # "link", fs' = fs
      PROVE  IsDir(p)' /\ LStat(p)'.kind # "link"
  BY <1>1, <1>2, NothingWritten DEF IsDir, LStat, Stat, At
<1>3. CASE Check /\ pc' \in {"chmod", "chown"}
  <2>1. /\ pc = "check" /\ at' = at /\ fs' = fs
        /\ IsDir(Current.path) /\ LStat(Current.path).kind # "link"
    BY <1>3 DEF Check, Fail, AfterMode, NextStep, Goto, RefusesLink
  <2>2. PICK p \in Paths : p = Current.path
    BY <2>1, AtStep DEF PInv, AtADir
  <2>3. IsDir(p)' /\ LStat(p)'.kind # "link"
    BY <1>2, <2>1, <2>2
  <2>4. p = spec'[at'].path
    BY <1>1, <2>1, <2>2 DEF Current
  <2>. QED
    BY <2>3, <2>4 DEF Settled, Current, IsDir, LStat, Stat, At, Spot
<1>4. CASE Chmod /\ pc' \in {"chmod", "chown"}
  <2>1. at' = at /\ pc = "chmod" /\ pc' = "chown"
    BY <1>4 DEF Chmod, AfterMode, NextStep, Goto, Fail
  <2>2. PICK p \in Paths : p = Current.path /\ Real[p] = Spot(p) /\ Spot(p) \in Paths /\ fs[Spot(p)] \in Dirs
    BY <2>1, TheDirectory
  <2>3. fs'[Spot(p)].kind = "dir"
    <3>1. CASE fs' = fs
      BY <2>2, <3>1 DEF Dirs
    <3>2. CASE fs' # fs
      <4>1. PICK d \in Dirs : Write(Spot(p), d)
        BY <1>4, <2>2, <3>2, ChmodWrites
      <4>2. fs'[Spot(p)] = d
        BY <1>1, <4>1, WriteKeeps
      <4>. QED
        BY <4>2 DEF Dirs
    <3>. QED
      BY <3>1, <3>2
  <2>4. p = spec'[at'].path
    BY <1>1, <2>1, <2>2 DEF Current
  <2>5. Append(Real'[Front(p)], Last(p)) = Spot(p) /\ Real'[p] = Spot(p) /\ Spot(p) # << >>
    BY <1>1, <2>2, RootIsNoPath DEF Spot
  <2>. QED
    BY <2>2, <2>3, <2>4, <2>5 DEF Settled, Current, IsDir, LStat, Stat, At, Spot
<1>5. pc' \in {"chmod", "chown"} => Check \/ Chmod
  BY DEF Program, Finish, MustExist, BeginDir, MkDir, Made, Chown, NextStep, Goto, Fail
<1>. QED
  BY <1>3, <1>4, <1>5 DEF Settled

LEMMA ProgramKeeps ==
  ASSUME PInv, Program
  PROVE  PInv'
<1>1. IsTree(fs)'
  BY ProgramWrites
<1>2. /\ at' \in 1 .. Len(spec)' + 1
      /\ pc' \in {"idle", "step", "mkdir", "check", "chmod", "chown", "succeeded", "failed"}
      /\ todo' \in Seq(Paths) /\ (pc' = "mkdir") = (todo' # << >>)
      /\ AtADir' /\ Making' /\ Settled'
  BY ProgramKeepsControl, ProgramKeepsSettled
<1>3. UNCHANGED <<image, lines, env, spec, runner, kills>>
  BY DEF Program
<1>4. Types'
  BY <1>1, <1>2, <1>3 DEF PInv, Types
<1>5. Running
  BY DEF Program, Finish, MustExist, BeginDir, MkDir, Check, Chmod, Chown, Running
<1>6. Reading'
  BY <1>3, <1>5 DEF PInv, Reading
<1>. QED
  BY <1>2, <1>4, <1>6 DEF PInv

LEMMA StartKeeps ==
  ASSUME PInv, Start
  PROVE  PInv'
<1>1. /\ fs' = fs /\ image' = image /\ lines' = lines /\ at' = 1 /\ todo' = todo /\ kills' = kills
      /\ env' \in Envs /\ runner' \in Runners /\ spec' = Parse(lines, env').steps
      /\ pc' = IF Parse(lines, env').ok THEN "step" ELSE "failed"
      /\ todo = << >>
  BY DEF Start, world, PInv, Types, Running
<1>2. PICK e \in Envs : e = env'
  BY <1>1
<1>3. Len(Parse(lines, e).steps) \in Nat
  <2>1. CASE Parse(lines, e).ok
    BY <2>1, SpecFilesAssumption DEF PInv, Types, Parse
  <2>2. CASE ~ Parse(lines, e).ok
    BY <2>2 DEF Parse
  <2>. QED
    BY <2>1, <2>2
<1>4. Types'
  BY <1>1, <1>2, <1>3 DEF PInv, Types
<1>5. Reading'
  BY <1>1 DEF Reading, Running
<1>. QED
  BY <1>1, <1>4, <1>5 DEF PInv, AtADir, Making, Settled

LEMMA KillKeeps ==
  ASSUME PInv, Kill
  PROVE  PInv'
<1>1. /\ fs' = fs /\ image' = image /\ lines' = lines /\ env' = env /\ spec' = spec
      /\ at' = 1 /\ todo' = << >> /\ pc' = "idle" /\ runner' = runner /\ kills' = kills + 1 /\ kills < MaxKills
  BY DEF Kill, world
<1>2. Len(spec) \in Nat /\ << >> \in Seq(Paths)
  BY AtStep
<1>3. Types'
  BY <1>1, <1>2, BoundsAssumption DEF PInv, Types
<1>. QED
  BY <1>1, <1>3 DEF PInv, Reading, Running, AtADir, Making, Settled

(* Volumes that outlive a container still are in a directory of the next. *)
LEMMA RecreateKeeps ==
  ASSUME PInv, Recreate
  PROVE  PInv'
<1>1. /\ fs' = [p \in Paths |-> IF p \in Volumes THEN fs[p] ELSE image[p]]
      /\ pc' = "idle" /\ todo = << >>
      /\ UNCHANGED <<image, lines, env, spec, at, todo, runner, kills>>
  BY DEF Recreate, PInv, Types, Running
<1>2. IsTree(fs) /\ IsTree(image) /\ image \in Trees
  BY TreesAssumption DEF PInv, Types
<1>3. DOMAIN fs' = Paths /\ \A p \in Paths : fs'[p] = IF p \in Volumes THEN fs[p] ELSE image[p]
  BY <1>1
<1>4. \A p \in Paths : IsEntry(fs'[p])
  BY <1>2, <1>3 DEF IsTree
<1>5. ASSUME NEW p \in Paths, fs'[p] # Absent, Len(p) > 1 PROVE fs'[Front(p)].kind = "dir"
  <2>1. Front(p) \in Paths
    BY <1>5, PathsAssumption
  <2>2. fs[p] # Absent => fs[Front(p)].kind = "dir"
    BY <1>2, <1>5 DEF IsTree
  <2>3. image[p] # Absent => image[Front(p)].kind = "dir"
    BY <1>2, <1>5 DEF IsTree
  <2>4. Front(p) \in Volumes => p \in Volumes
    BY <1>5, VolumesAssumption
  <2>5. p \in Volumes /\ Front(p) \notin Volumes => image[Front(p)].kind = "dir"
    BY <1>2, <1>5, VolumesAssumption
  <2>. QED
    BY <1>3, <1>5, <2>1, <2>2, <2>3, <2>4, <2>5
<1>6. ASSUME NEW p \in Paths, NEW q \in Paths, fs'[p].kind = "link", IsPrefix(p, q)
      PROVE  fs'[p].to \o SubSeq(q, Len(p) + 1, Len(q)) \in Paths
  BY <1>2, <1>3, <1>6 DEF IsTree
<1>7. IsTree(fs')
  BY <1>3, <1>4, <1>5, <1>6 DEF IsTree
<1>8. Types'
  BY <1>1, <1>7 DEF PInv, Types
<1>. QED
  BY <1>1, <1>8 DEF PInv, Reading, Running, AtADir, Making, Settled

LEMMA MountKeeps ==
  ASSUME PInv, NEW m \in MountPoints, Mount(m)
  PROVE  PInv'
<1>1. PICK u \in Runners :
        fs' = [q \in Paths |-> IF q = m THEN Dir(493, u, u)
                               ELSE IF IsStrictPrefix(m, q) THEN Absent ELSE fs[q]]
  BY DEF Mount
<1>2. /\ pc' = "idle" /\ todo = << >> /\ (Len(m) > 1 => fs[Front(m)].kind = "dir")
      /\ UNCHANGED <<image, lines, env, spec, at, todo, runner, kills>>
  BY DEF Mount, PInv, Types, Running
<1>. DEFINE d == Dir(493, u, u)
<1>3. IsTree(fs) /\ m \in Paths /\ d \in Dirs
  <2>1. u \in Nat
    BY BoundsAssumption DEF Ids
  <2>. QED
    BY <2>1, VolumesAssumption DEF PInv, Types, Dir, Dirs, Modes, Ids
<1>4. d.kind = "dir" /\ d # Absent /\ IsEntry(d) /\ IsEntry(Absent) /\ Absent.kind = "absent"
  BY <1>3 DEF Dirs, Absent, IsEntry
<1>5. DOMAIN fs' = Paths /\ \A q \in Paths :
        fs'[q] = IF q = m THEN d ELSE IF IsStrictPrefix(m, q) THEN Absent ELSE fs[q]
  BY <1>1
<1>. HIDE DEF d
<1>6. \A q \in Paths : IsEntry(fs'[q])
  BY <1>3, <1>4, <1>5 DEF IsTree
<1>7. ASSUME NEW p \in Paths, fs'[p] # Absent, Len(p) > 1 PROVE fs'[Front(p)].kind = "dir"
  <2>1. Front(p) \in Paths /\ Front(p) # p
    BY <1>7, PathsAssumption, PathFront
  <2>2. CASE p = m
    <3>1. Len(Front(p)) < Len(p) /\ Len(p) \in Nat /\ Len(Front(p)) \in Nat
      BY <2>1, PathFront
    <3>2. ~ IsPrefix(m, Front(p))
      BY <2>2, <3>1 DEF IsPrefix
    <3>. QED
      BY <1>2, <1>5, <1>7, <2>1, <2>2, <3>2 DEF IsStrictPrefix
  <2>3. CASE p # m
    <3>1. fs'[p] = fs[p] /\ ~ IsStrictPrefix(m, p) /\ fs[Front(p)].kind = "dir"
      BY <1>3, <1>5, <1>7, <2>3 DEF IsTree
    <3>2. ASSUME IsPrefix(m, Front(p)) PROVE FALSE
      <4>1. /\ m \in Seq(Text) /\ p \in Seq(Text) /\ Len(m) \in Nat /\ Len(p) \in Nat
            /\ Len(Front(p)) = Len(p) - 1 /\ Len(m) <= Len(p) - 1
        BY <1>3, <3>2, PathFront DEF IsPrefix
      <4>2. SubSeq(SubSeq(p, 1, Len(p) - 1), 1, Len(m)) = SubSeq(p, 1, Len(m))
        BY <4>1
      <4>3. SubSeq(m, 1, Len(m)) = SubSeq(p, 1, Len(m))
        BY <3>2, <4>2 DEF IsPrefix, Front
      <4>. QED
        BY <2>3, <3>1, <4>1, <4>3 DEF IsStrictPrefix, IsPrefix
    <3>3. Front(p) = m => IsPrefix(m, Front(p))
      BY DEF IsPrefix
    <3>. QED
      BY <1>5, <2>1, <3>1, <3>2, <3>3 DEF IsStrictPrefix
  <2>. QED
    BY <2>2, <2>3
<1>8. ASSUME NEW p \in Paths, NEW q \in Paths, fs'[p].kind = "link", IsPrefix(p, q)
      PROVE  fs'[p].to \o SubSeq(q, Len(p) + 1, Len(q)) \in Paths
  <2>1. fs'[p] = fs[p]
    BY <1>4, <1>5, <1>8
  <2>. QED
    BY <1>3, <1>8, <2>1 DEF IsTree
<1>9. IsTree(fs')
  BY <1>5, <1>6, <1>7, <1>8 DEF IsTree
<1>10. Types'
  BY <1>2, <1>9 DEF PInv, Types
<1>. QED
  BY <1>2, <1>10 DEF PInv, Reading, Running, AtADir, Making, Settled

LEMMA InvKept == PInv /\ [Next]_vars => PInv'
<1>. SUFFICES ASSUME PInv, [Next]_vars PROVE PInv'
  OBVIOUS
<1>1. CASE UNCHANGED vars
  <2>1. Real' = Real
    BY <1>1, NothingWritten DEF vars
  <2>. QED
    BY <1>1, <2>1 DEF vars, PInv, Types, Reading, Running, AtADir, Making, Settled, Current, IsDir, LStat, Stat, At, Spot
<1>. QED
  BY <1>1, StartKeeps, ProgramKeeps, KillKeeps, RecreateKeeps, MountKeeps DEF Next

(* The inductive invariant of a run. *)
THEOREM RunInvariant == Spec => []PInv
BY InitInv, InvKept, PTL DEF Spec

(* The files stay a tree, in which no path leads out of the places there   *)
(* are, and every variable keeps its type: for any files, environments and *)
(* trees, and any number of runs, kills, mounts and new containers.        *)
THEOREM ProvisionTypeCorrect == Spec => []TypeOK
<1>1. PInv => TypeOK
  BY DEF PInv, TypeOK
<1>. QED
  BY <1>1, RunInvariant, PTL

-----------------------------------------------------------------------------
(* A run that has nothing to do.                                           *)

(* What a step and the way to it ask of the files is what it was. *)
LEMMA SameFiles ==
  ASSUME fs' = fs
  PROVE  /\ \A s : StepHolds(s)' <=> StepHolds(s)
         /\ \A p : Stat(p)' = Stat(p) /\ LStat(p)' = LStat(p)
         /\ runner' = runner => \A p : Reaches(p)' <=> Reaches(p)
<1>1. Real' = Real
  BY NothingWritten
<1>2. \A p : Stat(p)' = Stat(p) /\ LStat(p)' = LStat(p)
  BY <1>1 DEF Stat, LStat, At, Spot
<1>3. ASSUME NEW s PROVE StepHolds(s)' <=> StepHolds(s)
  <2>1. LStat(s.path)' = LStat(s.path) /\ Stat(s.path)' = Stat(s.path)
    BY <1>2
  <2>. QED
    BY <2>1 DEF StepHolds, Wanted
<1>4. ASSUME runner' = runner, NEW p PROVE Reaches(p)' <=> Reaches(p)
  <2>1. ASSUME NEW q PROVE (IsDir(q)' <=> IsDir(q)) /\ (May(Stat(q), 1)' <=> May(Stat(q), 1))
    <3>1. Stat(q)' = Stat(q)
      BY <1>2
    <3>. QED
      BY <1>4, <3>1 DEF IsDir, May
  <2>. QED
    BY <2>1 DEF Reaches
<1>. QED
  BY <1>2, <1>3, <1>4

(* Every step holds and is reached, and the run is about to do nothing. *)
Idle ==
  satisfied /\ Running =>
    /\ \A s \in ToSet(spec) : StepHolds(s) /\ Reaches(s.path)
    /\ pc \notin {"chmod", "chown"}
    /\ pc = "mkdir" => Len(todo) = 1

LEMMA CurrentIsAStep ==
  ASSUME PInv, at <= Len(spec)
  PROVE  Current \in ToSet(spec)
<1>1. DOMAIN spec = 1 .. Len(spec) /\ Len(spec) \in Nat
  BY SpecSteps DEF PInv, Types
<1>2. at \in DOMAIN spec
  BY <1>1, AtStep
<1>. QED
  BY <1>2 DEF Current, ToSet

(* Where the step wants a directory, and has it. *)
LEMMA Has ==
  ASSUME IsTree(fs), NEW s, s.op = "dir", s.path \in Paths, StepHolds(s)
  PROVE  /\ LStat(s.path).kind = "dir" /\ LStat(s.path) # Absent /\ Stat(s.path) = LStat(s.path)
         /\ IsDir(s.path) /\ Stat(Front(s.path)).kind = "dir"
         /\ ModeMatches(Stat(s.path), s) /\ OwnerMatches(Stat(s.path), s)
<1>1. PICK p \in Paths : p = s.path
  OBVIOUS
<1>2. Wanted(LStat(p), s)
  BY <1>1 DEF StepHolds
<1>3. LStat(p).kind = "dir" /\ LStat(p).mode = s.mode
  BY <1>2 DEF Wanted
<1>4. LStat(p) # Absent /\ Stat(p) = LStat(p) /\ IsDir(p)
  <2>1. Real[p] = Spot(p) /\ LStat(p) = fs[Spot(p)] /\ Stat(p) = fs[Real[p]]
    BY <1>3, Stats
  <2>. QED
    BY <1>3, <2>1 DEF IsDir, Absent
<1>5. Stat(Front(p)).kind = "dir"
  BY <1>4, ParentIsDir
<1>6. ModeMatches(Stat(p), s) /\ OwnerMatches(Stat(p), s)
  BY <1>2, <1>3, <1>4 DEF ModeMatches, OwnerMatches, Wanted
<1>. QED
  BY <1>1, <1>3, <1>4, <1>5, <1>6

LEMMA IdleStep ==
  ASSUME PInv, Idle, satisfied, Program
  PROVE  fs' = fs /\ pc' # "failed" /\ Idle'
<1>1. IsTree(fs) /\ Running
  BY DEF PInv, Types, Program, Finish, MustExist, BeginDir, MkDir, Check, Chmod, Chown, Running
<1>2. /\ \A s \in ToSet(spec) : StepHolds(s) /\ Reaches(s.path)
      /\ pc \notin {"chmod", "chown"} /\ (pc = "mkdir" => Len(todo) = 1)
  BY <1>1 DEF Idle
<1>3. at <= Len(spec) => /\ Current.path \in Paths /\ Current \in ToSet(spec)
                         /\ StepHolds(Current) /\ Reaches(Current.path)
  BY <1>2, AtStep, CurrentIsAStep
<1>4. at <= Len(spec) /\ Current.op = "dir" =>
        /\ LStat(Current.path).kind = "dir" /\ LStat(Current.path) # Absent
        /\ IsDir(Current.path) /\ Stat(Front(Current.path)).kind = "dir"
        /\ ModeMatches(Stat(Current.path), Current) /\ OwnerMatches(Stat(Current.path), Current)
  BY <1>1, <1>3, Has
<1>5. /\ fs' = fs /\ pc' # "failed" /\ pc' \notin {"chmod", "chown"}
      /\ pc' = "mkdir" => Len(todo') = 1
  <2>1. CASE Finish
    BY <2>1 DEF Finish, Goto
  <2>2. CASE MustExist
    <3>1. Stat(Current.path) # Absent /\ KindMatches(Stat(Current.path), Current)
      BY <1>3, <2>2 DEF MustExist, StepHolds, KindMatches
    <3>. QED
      BY <1>3, <2>2, <3>1 DEF MustExist, NextStep
  <2>3. CASE BeginDir
    <3>1. Len(<<Current.path>>) = 1
      OBVIOUS
    <3>. QED
      BY <2>3, <3>1 DEF BeginDir
  <2>4. CASE MkDir
    <3>1. pc = "mkdir" /\ at <= Len(spec) /\ Current.op = "dir" /\ Last(todo) = Current.path /\ Len(todo) = 1
      BY <1>2, <2>4, NextToMake DEF MkDir
    <3>2. PICK p : p = Current.path
      OBVIOUS
    <3>3. Reaches(p) /\ LStat(p) # Absent /\ Tolerates(p) /\ Stat(Front(p)) # Absent /\ Last(todo) = p
      BY <1>3, <1>4, <3>1, <3>2 DEF Tolerates, IsDirFor, Absent
    <3>4. Made /\ UNCHANGED fs
      BY <2>4, <3>3 DEF MkDir
    <3>. QED
      BY <3>1, <3>4 DEF Made
  <2>5. CASE Check
    <3>1. at <= Len(spec) /\ Current.op = "dir"
      BY <2>5 DEF Check, PInv, AtADir
    <3>2. ~ RefusesLink(LStat(Current.path)) /\ IsDir(Current.path)
      BY <1>4, <3>1 DEF RefusesLink
    <3>3. NextStep /\ UNCHANGED fs
      BY <1>4, <2>5, <3>1, <3>2 DEF Check, AfterMode
    <3>. QED
      BY <3>3 DEF NextStep
  <2>. QED
    BY <1>2, <2>1, <2>2, <2>3, <2>4, <2>5 DEF Program, Chmod, Chown
<1>6. \A s \in ToSet(spec) : StepHolds(s)' /\ Reaches(s.path)'
  <2>1. spec' = spec /\ runner' = runner
    BY DEF Program
  <2>. QED
    BY <1>2, <1>5, <2>1, SameFiles
<1>7. spec' = spec
  BY DEF Program
<1>. QED
  BY <1>5, <1>6, <1>7 DEF Idle

LEMMA IdleKept ==
  ASSUME PInv, Idle, [Next]_vars
  PROVE  Idle'
<1>1. CASE Start
  <2>1. /\ fs' = fs /\ pc' \in {"step", "failed"}
        /\ satisfied' = \A s \in ToSet(spec') : StepHolds(s) /\ Reaches(s.path)'
    BY <1>1 DEF Start, world
  <2>2. satisfied' => \A s \in ToSet(spec') : StepHolds(s)' /\ Reaches(s.path)'
    BY <2>1, SameFiles
  <2>. QED
    BY <2>1, <2>2 DEF Idle
<1>2. CASE Program /\ satisfied
  BY <1>2, IdleStep
<1>3. CASE Program /\ ~ satisfied
  BY <1>3 DEF Program, Idle
<1>4. CASE Kill
  BY <1>4 DEF Kill, Idle, Running
<1>5. CASE Recreate
  BY <1>5 DEF Recreate, Idle, Running
<1>6. CASE \E m \in MountPoints : Mount(m)
  BY <1>6 DEF Mount, Idle, Running
<1>7. CASE UNCHANGED vars
  <2>1. fs' = fs /\ runner' = runner /\ UNCHANGED <<spec, pc, todo, satisfied>>
    BY <1>7 DEF vars
  <2>2. \A s \in ToSet(spec) : (StepHolds(s)' <=> StepHolds(s)) /\ (Reaches(s.path)' <=> Reaches(s.path))
    BY <2>1, SameFiles
  <2>. QED
    BY <2>1, <2>2 DEF Idle, Running
<1>. QED
  BY <1>1, <1>2, <1>3, <1>4, <1>5, <1>6, <1>7 DEF Next

(* A run that finds every step satisfied changes nothing and does not      *)
(* fail, whoever it runs as: nothing it would only be refused is tried     *)
(* again (main.rs:106-117).                                                *)
THEOREM NothingDoneTwice == Spec => SatisfiedRunIsIdle
<1>1. Init => Idle
  BY DEF Init, Idle
<1>2. PInv /\ Idle /\ [Next]_vars => Idle'
  BY IdleKept
<1>3. PInv /\ Idle /\ [Next]_vars => [satisfied /\ Running => fs' = fs /\ pc' # "failed"]_vars
  <2>. SUFFICES ASSUME PInv, Idle, Next, satisfied, Running PROVE fs' = fs /\ pc' # "failed"
    OBVIOUS
  <2>1. CASE Program
    BY <2>1, IdleStep
  <2>2. CASE Kill
    BY <2>2 DEF Kill, world
  <2>. QED
    BY <2>1, <2>2 DEF Next, Start, Recreate, Mount
<1>. QED
  BY <1>1, <1>2, <1>3, RunInvariant, PTL DEF Spec, SatisfiedRunIsIdle

-----------------------------------------------------------------------------
(* What a run leaves alone.                                                *)

(* dinix-init reads every line of every file as dinit would, in every environment.  By            *)
(* FormsAreRead and OnlyFormsAreRead that is so for texts of any length; of the files it is only  *)
(* assumed that the lines said to have none of dinit's forms have none.                           *)
THEOREM ReadAlike == ASSUME MalformedIsNoForm PROVE ReadsAlike
<1>. SUFFICES ASSUME NEW file \in SpecFiles, NEW e \in Envs, NEW i \in DOMAIN file
              PROVE  /\ Readable(file[i], e) <=> Proper(file[i])
                     /\ Proper(file[i]) => PathOf(Expand(file[i].path, e).out) = Meaning(file[i].parts, e)
  BY DEF ReadsAlike
<1>. DEFINE line == file[i]
            parts == line.parts
<1>1. IsEnv(e)
  BY EnvsAssumption
<1>2. /\ line.path \in Text
      /\ parts # Malformed => IsForm(parts) /\ parts # << >> /\ line.path = TextOf(parts)
  BY SpecFilesAssumption
<1>3. parts = Malformed => ~ \E q : IsForm(q) /\ q # << >> /\ TextOf(q) = line.path
  BY DEF MalformedIsNoForm
<1>. HIDE DEF line
<1>4. CASE parts # Malformed
  <2>1. IsForm(parts) /\ parts # << >> /\ line.path = TextOf(parts) /\ parts \in Seq(Parts)
    BY <1>2, <1>4 DEF IsForm
  <2>2. line.path # << >>
    BY <2>1, SomePartsSomeText
  <2>3. Expand(line.path, e).in # "refused" /\ Expand(line.path, e).out = Said(parts, e)
    BY <1>1, <2>1, FormsAreRead
  <2>4. Readable(line, e) <=> WellFormed(line)
    BY <2>2, <2>3 DEF Readable
  <2>5. Proper(line) <=> WellFormed(line)
    BY <1>4 DEF Proper
  <2>6. PathOf(Expand(line.path, e).out) = Meaning(parts, e)
    BY <2>3 DEF Meaning
  <2>. QED
    BY <2>4, <2>5, <2>6 DEF line
<1>5. CASE parts = Malformed
  <2>1. ~ Readable(line, e)
    <3>1. SUFFICES ASSUME Readable(line, e) PROVE FALSE
      OBVIOUS
    <3>2. line.path # << >> /\ Expand(line.path, e).in # "refused"
      BY <3>1 DEF Readable
    <3>3. PICK q : IsForm(q) /\ TextOf(q) = line.path
      BY <1>2, <3>2, OnlyFormsAreRead
    <3>4. q # << >>
      BY <3>2, <3>3, TextMore
    <3>. QED
      BY <1>3, <1>5, <3>3, <3>4
  <2>2. ~ Proper(line)
    BY <1>5 DEF Proper
  <2>. QED
    BY <2>1, <2>2 DEF line
<1>. QED
  BY <1>4, <1>5


(* A run that has begun carries out exactly the lines, read as dinit reads *)
(* them.                                                                   *)
LEMMA StepsAreTheLines ==
  ASSUME ReadsAlike, PInv, Running \/ pc = "succeeded"
  PROVE  /\ Len(lines) \in Nat /\ DOMAIN lines = 1 .. Len(lines) /\ Len(spec) = Len(lines)
         /\ \A i \in 1 .. Len(lines) : /\ Proper(lines[i]) /\ IsLine(lines[i])
                                       /\ spec[i] = Asked(lines[i]) /\ IsStep(spec[i])
<1>1. /\ lines \in SpecFiles /\ env \in Envs
      /\ Parse(lines, env).ok /\ spec = Parse(lines, env).steps
  BY DEF PInv, Types, Reading
<1>2. Len(lines) \in Nat /\ DOMAIN lines = 1 .. Len(lines) /\ \A i \in 1 .. Len(lines) : IsLine(lines[i])
  BY <1>1, FileLength
<1>3. /\ \A i \in 1 .. Len(lines) : Readable(lines[i], env) /\ spec[i] = StepOf(lines[i], env)
      /\ Len(spec) = Len(lines)
  BY <1>1, <1>2, StepsRead
<1>4. ASSUME NEW i \in 1 .. Len(lines) PROVE Proper(lines[i]) /\ spec[i] = Asked(lines[i])
  <2>1. Proper(lines[i]) /\ PathOf(Expand(lines[i].path, env).out) = Meaning(lines[i].parts, env)
    BY <1>1, <1>2, <1>3 DEF ReadsAlike
  <2>. QED
    BY <1>3, <2>1 DEF StepOf, Asked
<1>5. \A i \in 1 .. Len(spec) : IsStep(spec[i])
  BY <1>1, SpecSteps
<1>. QED
  BY <1>2, <1>3, <1>4, <1>5

(* What a step asks for is what its line does. *)
LEMMA AskedFields ==
  ASSUME NEW line, IsLine(line)
  PROVE  /\ Asked(line).op = line.op /\ DOMAIN Asked(line) = DOMAIN line
         /\ line.op = "dir" => "mode" \in DOMAIN Asked(line)
BY DEF Asked, IsLine

LEMMA RunningProgram == Program => Running /\ UNCHANGED <<lines, env, spec, runner, image>>
BY DEF Program, Finish, MustExist, BeginDir, MkDir, Check, Chmod, Chown, Running

LEMMA LeavesAlone ==
  ASSUME ReadsAlike, PInv, Running, [Next]_vars, NEW q \in Paths
  PROVE  /\ fs'[q] # fs[q] => \A line \in ToSet(lines) : Proper(line)
         /\ fs[q].kind \in {"file", "link"} => fs'[q] = fs[q]
         /\ fs[q].kind = "dir" /\ fs'[q] # fs[q] =>
                \E line \in ToSet(lines) : line.op = "dir" /\ Spot(Asked(line).path) = q
<1>1. /\ Len(lines) \in Nat /\ DOMAIN lines = 1 .. Len(lines) /\ Len(spec) = Len(lines)
      /\ \A i \in 1 .. Len(lines) : Proper(lines[i]) /\ IsLine(lines[i]) /\ spec[i] = Asked(lines[i])
  BY StepsAreTheLines
<1>2. \A line \in ToSet(lines) : Proper(line)
  BY <1>1 DEF ToSet
<1>3. IsTree(fs)
  BY DEF PInv, Types
<1>4. CASE fs' = fs
  BY <1>4
<1>5. CASE Program /\ fs' # fs
  <2>1. CASE MkDir
    <3>1. PICK p \in Paths : fs[Spot(p)] = Absent /\ Write(Spot(p), Dir(493, runner, runner))
      BY <1>5, <2>1, MkDirWrites
    <3>2. fs'[q] # fs[q] => q = Spot(p)
      BY <1>3, <3>1, WriteKeeps
    <3>. QED
      BY <1>2, <3>1, <3>2 DEF Absent
  <2>2. CASE Chmod \/ Chown
    <3>1. /\ fs[Spot(Current.path)].kind = "dir"
          /\ \E d \in Dirs : Write(Spot(Current.path), d)
      BY <1>5, <2>2, ChmodWrites, ChownWrites
    <3>2. fs'[q] # fs[q] => q = Spot(Current.path)
      BY <1>3, <3>1, WriteKeeps
    <3>3. at \in 1 .. Len(lines) /\ Current.op = "dir"
      BY <1>1, <2>2, AtStep, TheDirectory DEF Chmod, Chown
    <3>4. lines[at] \in ToSet(lines) /\ Current = Asked(lines[at]) /\ lines[at].op = "dir"
      <4>1. lines[at] \in ToSet(lines)
        BY <1>1, <3>3 DEF ToSet
      <4>2. Current = Asked(lines[at]) /\ IsLine(lines[at])
        BY <1>1, <3>3 DEF Current
      <4>. QED
        BY <3>3, <4>1, <4>2, AskedFields
    <3>. QED
      BY <1>2, <3>1, <3>2, <3>4
  <2>. QED
    BY <1>5, <2>1, <2>2 DEF Program, Finish, MustExist, BeginDir, Check
<1>6. CASE ~ Program /\ fs' # fs
  BY <1>6 DEF Next, Start, Kill, Recreate, Mount, vars, world
<1>. QED
  BY <1>4, <1>5, <1>6

(* A run touches the mode and the owner of no directory but the ones its   *)
(* lines name, replaces no file and no link, and touches nothing when one  *)
(* line cannot be read.                                                    *)
THEOREM OthersLeftAlone == ASSUME MalformedIsNoForm PROVE Spec => OthersUntouched
<1>0. ReadsAlike
  BY ReadAlike
<1>1. PInv /\ [Next]_vars =>
        [Running => \A q \in Paths :
            /\ fs'[q] # fs[q] => \A line \in ToSet(lines) : Proper(line)
            /\ fs[q].kind \in {"file", "link"} => fs'[q] = fs[q]
            /\ fs[q].kind = "dir" /\ fs'[q] # fs[q] =>
                   \E line \in ToSet(lines) : line.op = "dir" /\ Spot(Asked(line).path) = q]_vars
  BY <1>0, LeavesAlone
<1>. QED
  BY <1>1, RunInvariant, PTL DEF Spec, OthersUntouched

-----------------------------------------------------------------------------
(* Why a run by root fails.                                                *)

Cause == \E line \in ToSet(lines) : ~ Proper(line) \/ InTheWay(Asked(line))

(* What check looks at is a directory, if one that may be reached through  *)
(* a link; and root fails over nothing but a cause.                        *)
Caused ==
  /\ pc = "check" => IsDir(Current.path)
  /\ pc = "failed" /\ runner = 0 => Cause

LEMMA SameCause ==
  ASSUME UNCHANGED <<fs, lines, env>>
  PROVE  Cause' <=> Cause
<1>1. /\ \A s : StepHolds(s)' <=> StepHolds(s)
      /\ \A p : Stat(p)' = Stat(p) /\ LStat(p)' = LStat(p)
  BY SameFiles
<1>2. \A p : IsDir(p)' <=> IsDir(p)
  BY <1>1 DEF IsDir
<1>3. \A s : InTheWay(s)' <=> InTheWay(s)
  BY <1>1, <1>2 DEF InTheWay
<1>4. ASSUME NEW line PROVE InTheWay(Asked(line))' <=> InTheWay(Asked(line))
  <2>1. PICK s : s = Asked(line)
    OBVIOUS
  <2>2. Asked(line)' = s
    BY <2>1 DEF Asked
  <2>3. InTheWay(Asked(line))' <=> InTheWay(s)'
    BY <2>2 DEF InTheWay
  <2>. QED
    BY <1>3, <2>1, <2>3
<1>. QED
  BY <1>4 DEF Cause

(* Why a step of a run by root fails, or what check then finds. *)
LEMMA RootFails ==
  ASSUME ReadsAlike, PInv, Caused, Program, runner = 0, pc' = "failed"
  PROVE  Cause /\ fs' = fs
<1>1. /\ Len(lines) \in Nat /\ DOMAIN lines = 1 .. Len(lines) /\ Len(spec) = Len(lines)
      /\ \A i \in 1 .. Len(lines) : Proper(lines[i]) /\ IsLine(lines[i]) /\ spec[i] = Asked(lines[i])
  BY RunningProgram, StepsAreTheLines
<1>2. at <= Len(spec) => \E line \in ToSet(lines) : Current = Asked(line)
  BY <1>1, AtStep DEF ToSet, Current
<1>3. SUFFICES at <= Len(spec) /\ InTheWay(Current) /\ fs' = fs
  BY <1>2 DEF Cause
<1>4. \A p : Reaches(p)
  BY DEF Reaches, May
<1>5. IsTree(fs)
  BY DEF PInv, Types
<1>6. CASE MustExist
  <2>1. /\ at <= Len(spec) /\ Current.op = "must-exist" /\ fs' = fs
        /\ ~ (Stat(Current.path) # Absent /\ KindMatches(Stat(Current.path), Current))
    BY <1>4, <1>6 DEF MustExist, NextStep
  <2>2. ~ StepHolds(Current)
    BY <2>1 DEF StepHolds, KindMatches
  <2>. QED
    BY <2>1, <2>2 DEF InTheWay
<1>7. CASE MkDir
  <2>1. /\ at <= Len(spec) /\ Current.op = "dir" /\ Current.path \in Paths
        /\ Last(todo) = SubSeq(Current.path, 1, Len(Last(todo)))
        /\ Len(todo) \in Nat /\ Len(todo) > 0 /\ Len(Last(todo)) = Len(Current.path) - Len(todo) + 1
        /\ Last(todo) \in Paths
    BY <1>7, NextToMake DEF MkDir
  <2>2. PICK p \in Paths, c \in Paths : p = Last(todo) /\ c = Current.path
    BY <2>1
  <2>a. p = SubSeq(c, 1, Len(p)) /\ Len(p) = Len(c) - Len(todo) + 1
    BY <2>1, <2>2
  <2>b. Len(p) \in Nat /\ Len(p) > 0 /\ Len(c) \in Nat /\ c \in Seq(Text)
    BY PathFront
  <2>3. Len(p) \in 1 .. Len(c) /\ p = SubSeq(c, 1, Len(p)) /\ Len(c) \in Nat /\ c \in Seq(Text)
    BY <2>1, <2>a, <2>b
  <2>4. fs' = fs /\ \/ LStat(p) # Absent /\ ~ Tolerates(p)
                    \/ LStat(p) = Absent /\ Stat(Front(p)).kind = "file"
    <3>1. \A d : May(d, 2)
      BY DEF May
    <3>. QED
      BY <1>4, <1>7, <2>2, <3>1 DEF MkDir, Made
  <2>5. CASE LStat(p) # Absent /\ ~ Tolerates(p)
    <3>1. ~ IsDir(p)
      BY <1>4, <2>5 DEF Tolerates, IsDirFor
    <3>. QED
      BY <2>1, <2>2, <2>3, <2>4, <2>5, <3>1 DEF InTheWay
  <2>6. CASE Stat(Front(p)).kind = "file"
    <3>1. Front(p) \in Paths
      <4>1. Stat(<< >>).kind # "file"
        BY <1>5, ParentIsDir DEF RootDir, Dir
      <4>2. Front(p) # << >>
        BY <2>6, <4>1
      <4>. QED
        BY <4>2, PathFront DEF Places
    <3>2. PICK q \in Paths : q = Front(p)
      BY <3>1
    <3>3. ~ IsDir(q) /\ LStat(q) # Absent
      <4>1. LStat(q) = Absent => Stat(q) = LStat(q)
        BY <1>5, Stats DEF Absent
      <4>. QED
        BY <2>6, <3>2, <4>1 DEF IsDir, Absent
    <3>4. Len(p) - 1 \in 1 .. Len(c) /\ q = SubSeq(c, 1, Len(p) - 1)
      <4>1. Len(q) = Len(p) - 1 /\ Len(q) > 0 /\ Len(q) \in Nat
        BY <3>2, PathFront
      <4>2. SubSeq(SubSeq(c, 1, Len(p)), 1, Len(p) - 1) = SubSeq(c, 1, Len(p) - 1)
        BY <2>3, <4>1
      <4>. QED
        BY <2>3, <3>2, <4>1, <4>2 DEF Front
    <3>. QED
      BY <2>1, <2>2, <2>4, <3>3, <3>4 DEF InTheWay
  <2>. QED
    BY <2>4, <2>5, <2>6
<1>8. CASE Check
  <2>1. at <= Len(spec) /\ Current.op = "dir" /\ IsDir(Current.path) /\ fs' = fs
    BY <1>8 DEF Check, PInv, AtADir, Caused
  <2>2. LStat(Current.path).kind = "link"
    BY <1>8, <2>1 DEF Check, AfterMode, NextStep, Goto, RefusesLink
  <2>. QED
    BY <2>1, <2>2 DEF InTheWay
<1>9. ~ Chmod /\ ~ Chown /\ ~ Finish /\ ~ BeginDir
  BY DEF Chmod, Chown, Finish, BeginDir, AfterMode, NextStep, Goto, MayChown
<1>. QED
  BY <1>6, <1>7, <1>8, <1>9 DEF Program

(* create_dir_all leaves a directory where the step has its path. *)
LEMMA MakesDir ==
  ASSUME PInv, Program, pc' = "check"
  PROVE  IsDir(Current.path)'
<1>1. MkDir /\ Made /\ pc = "mkdir" /\ Len(todo) = 1
  BY DEF Program, Finish, MustExist, BeginDir, MkDir, Check, Chmod, Chown, Made, AfterMode, NextStep, Goto, Fail
<1>2. PICK p \in Paths : p = Current.path /\ p = Last(todo)
  BY <1>1, NextToMake
<1>3. IsTree(fs) /\ spec' = spec /\ at' = at
  BY <1>1 DEF PInv, Types, Program, Made
<1>4. IsDir(p)'
  <2>1. CASE fs' = fs
    <3>1. IsDir(p)
      <4>1. LStat(p) = Absent => fs[Spot(p)] = Absent /\ Spot(p) \in Paths /\ DOMAIN fs = Paths
        BY <1>3, Stats DEF IsTree
      <4>2. LStat(p) = Absent => [fs EXCEPT ![Spot(p)] = Dir(493, runner, runner)] # fs
        BY <4>1 DEF Absent, Dir
      <4>. QED
        BY <1>1, <1>2, <2>1, <4>2 DEF MkDir, Tolerates, IsDirFor, Fail
    <3>. QED
      BY <2>1, <3>1, SameFiles DEF IsDir
  <2>2. CASE fs' # fs
    <3>1. LStat(p) = Absent /\ Write(Spot(p), Dir(493, runner, runner))
      BY <1>1, <1>2, <2>2, MkDirWrites
    <3>2. Real[p] = Spot(p) /\ Spot(p) \in Paths /\ Spot(p) # << >>
      BY <1>3, <3>1, Stats, RootIsNoPath DEF Absent
    <3>3. Real' = Real /\ fs'[Spot(p)] = Dir(493, runner, runner)
      BY <1>3, <3>1, WriteKeeps
    <3>4. Real'[p] = Spot(p) /\ fs'[Spot(p)].kind = "dir"
      BY <3>2, <3>3 DEF Dir
    <3>. QED
      BY <3>2, <3>4 DEF IsDir, Stat, At
  <2>. QED
    BY <2>1, <2>2
<1>5. p = Current.path'
  BY <1>2, <1>3 DEF Current
<1>. QED
  BY <1>4, <1>5 DEF IsDir, Stat, At

LEMMA CausedKept ==
  ASSUME ReadsAlike, PInv, Caused, [Next]_vars
  PROVE  Caused'
<1>1. CASE Program
  <2>1. pc' = "check" => IsDir(Current.path)'
    BY <1>1, MakesDir
  <2>2. pc' = "failed" /\ runner' = 0 => Cause'
    <3>. SUFFICES ASSUME pc' = "failed", runner' = 0 PROVE Cause'
      OBVIOUS
    <3>1. Cause /\ fs' = fs
      BY <1>1, RunningProgram, RootFails
    <3>. QED
      BY <1>1, <3>1, RunningProgram, SameCause
  <2>. QED
    BY <2>1, <2>2 DEF Caused
<1>2. CASE Start
  <2>1. PICK e \in Envs : e = env' /\ pc' = IF Parse(lines, e).ok THEN "step" ELSE "failed"
    BY <1>2 DEF Start
  <2>2. SUFFICES ASSUME ~ Parse(lines, e).ok PROVE Cause'
    BY <2>1 DEF Caused
  <2>3. lines \in SpecFiles /\ lines' = lines
    BY <1>2 DEF Start, world, PInv, Types
  <2>4. PICK i \in DOMAIN lines : ~ Readable(lines[i], e)
    BY <2>2 DEF Parse
  <2>5. ~ Proper(lines[i]) /\ lines[i] \in ToSet(lines)
    BY <2>3, <2>4 DEF ReadsAlike, ToSet
  <2>. QED
    BY <2>3, <2>5 DEF Cause
<1>3. CASE Kill
  BY <1>3 DEF Kill, Caused
<1>4. CASE Recreate
  BY <1>4 DEF Recreate, Caused
<1>5. CASE \E m \in MountPoints : Mount(m)
  BY <1>5 DEF Mount, Caused
<1>6. CASE UNCHANGED vars
  <2>1. UNCHANGED <<fs, lines, env, pc, runner, spec, at>>
    BY <1>6 DEF vars
  <2>2. Cause' <=> Cause
    BY <2>1, SameCause
  <2>3. PICK p : p = Current.path
    OBVIOUS
  <2>4. Current.path' = p
    BY <2>1, <2>3 DEF Current
  <2>5. IsDir(p)' <=> IsDir(p)
    BY <2>1, SameFiles DEF IsDir
  <2>6. IsDir(Current.path)' <=> IsDir(p)'
    BY <2>4 DEF IsDir, Stat, At
  <2>. QED
    BY <2>1, <2>2, <2>3, <2>5, <2>6 DEF Caused
<1>. QED
  BY <1>1, <1>2, <1>3, <1>4, <1>5, <1>6 DEF Next

(* Root fails only over a line that dinit does not know either, or over    *)
(* something in a step's way: nothing that earlier runs left, killed or    *)
(* failed at any point, whoever ran them, is ever a cause.                 *)
THEOREM RootFailsForCause == ASSUME MalformedIsNoForm PROVE Spec => []FailureHasCause
<1>0. ReadsAlike
  BY ReadAlike
<1>1. Init => Caused
  BY DEF Init, Caused
<1>2. PInv /\ Caused /\ [Next]_vars => Caused'
  BY <1>0, CausedKept
<1>3. Caused => FailureHasCause
  BY DEF Caused, Cause, FailureHasCause
<1>. QED
  BY <1>1, <1>2, <1>3, RunInvariant, PTL DEF Spec

-----------------------------------------------------------------------------
(* What a run that succeeds has done.                                      *)

(* A step as chmod leaves it: twelve bits of its mode. *)
Low(s) == IF s.op = "dir" THEN [s EXCEPT !.mode = @ % 4096] ELSE s

(* The steps that are behind, and that no later one decides, hold; and the *)
(* one whose owner is being set has its mode.                              *)
DoneHolds ==
  /\ Running \/ pc = "succeeded" => \A i \in 1 .. at - 1 : Decides(i) => StepHolds(Low(Asked(lines[i])))
  /\ pc = "chown" => Stat(Current.path).mode = Current.mode % 4096
  /\ pc = "succeeded" => at > Len(spec)

LEMMA LowFields ==
  ASSUME NEW line, IsLine(line), IsStep(Asked(line))
  PROVE  LET s == Low(Asked(line)) IN
         /\ s.op = line.op /\ s.path = Asked(line).path
         /\ s.op = "dir" => /\ s.mode = Asked(line).mode % 4096
                            /\ s.uid = Asked(line).uid /\ s.gid = Asked(line).gid
         /\ s.op # "dir" => s = Asked(line)
<1>1. PICK s : s = Asked(line)
  OBVIOUS
<1>2. s.op = line.op /\ DOMAIN s = DOMAIN line /\ (line.op = "dir" => "mode" \in DOMAIN s)
  BY <1>1, AskedFields
<1>. QED
  BY <1>1, <1>2 DEF Low

(* Where two directories that both decide are, are two places. *)
LEMMA LaterElsewhere ==
  ASSUME NEW i \in Nat, NEW j \in Nat, i < j, j <= Len(lines), Len(lines) \in Nat, Decides(i),
         lines[i].op = "dir", lines[j].op = "dir"
  PROVE  Spot(Asked(lines[i]).path) # Spot(Asked(lines[j]).path)
<1>1. j \in i + 1 .. Len(lines)
  OBVIOUS
<1>. QED
  BY <1>1 DEF Decides

(* A step that holds goes on holding when something is written elsewhere. *)
LEMMA HoldsElsewhere ==
  ASSUME IsTree(fs), NEW q, NEW d, Write(q, d), NEW s, s.path \in Paths, StepHolds(s),
         s.op \in {"dir", "must-exist"}, s.op = "dir" => Spot(s.path) # q
  PROVE  StepHolds(s)'
<1>1. PICK p \in Paths : p = s.path
  OBVIOUS
<1>2. /\ Real' = Real /\ Spot(p)' = Spot(p) /\ fs'[q] = d /\ IsTree(fs')
      /\ \A r \in Paths : r # q => fs'[r] = fs[r]
  BY WriteKeeps
<1>3. /\ Spot(p) \in Paths /\ LStat(p) = fs[Spot(p)]
      /\ Real[p] \in Paths /\ Stat(p) = fs[Real[p]]
  BY Stats
<1>4. LStat(p)' = fs'[Spot(p)] /\ Stat(p)' = fs'[Real[p]]
  BY <1>2, <1>3, RootIsNoPath DEF LStat, Stat, At
<1>5. CASE s.op = "dir"
  <2>1. LStat(p)' = LStat(p)
    BY <1>1, <1>2, <1>3, <1>4, <1>5
  <2>2. LStat(s.path)' = LStat(p)' /\ LStat(s.path) = LStat(p)
    BY <1>1
  <2>. QED
    BY <1>5, <2>1, <2>2 DEF StepHolds, Wanted
<1>6. CASE s.op = "must-exist"
  <2>1. Stat(p) # Absent /\ s.kind \in {"any", Stat(p).kind}
    BY <1>1, <1>6 DEF StepHolds
  <2>2. Stat(p)' # Absent /\ Stat(p)'.kind = Stat(p).kind
    <3>1. CASE Real[p] # q
      BY <1>2, <1>3, <1>4, <2>1, <3>1
    <3>2. CASE Real[p] = q
      <4>1. Stat(p).kind = "dir"
        <5>1. Stat(p).kind \in {"absent", "dir"} /\ IsEntry(Stat(p))
          BY <1>3, <3>2, Stats DEF Write
        <5>. QED
          BY <2>1, <5>1, EntryKinds
      <4>2. Stat(p)' = d /\ d.kind = "dir"
        BY <1>2, <1>4, <3>2 DEF Write, Dirs
      <4>. QED
        BY <4>1, <4>2 DEF Absent
    <3>. QED
      BY <3>1, <3>2
  <2>3. Stat(s.path)' = Stat(p)' /\ Stat(s.path) = Stat(p)
    BY <1>1
  <2>. QED
    BY <1>6, <2>1, <2>2, <2>3 DEF StepHolds
<1>. QED
  BY <1>5, <1>6

LEMMA SameDecides ==
  ASSUME Real' = Real, lines' = lines, env' = env
  PROVE  \A i : /\ Decides(i)' <=> Decides(i)
                /\ Low(Asked(lines[i]))' = Low(Asked(lines[i]))
BY DEF Decides, Spot, Asked, Low

(* Each way a step ends leaves it holding, up to the bits chmod keeps. *)
LEMMA StepDone ==
  ASSUME PInv, DoneHolds, Program, at' = at + 1, NEW s, s = Low(Current), s.path = Current.path,
         s.op = Current.op, Current.op # "dir" => s = Current,
         Current.op = "dir" => s.mode = Current.mode % 4096 /\ s.uid = Current.uid /\ s.gid = Current.gid
  PROVE  StepHolds(s)'
<1>1. /\ Len(spec) \in Nat /\ at \in Nat /\ at > 0 /\ at <= Len(spec)
      /\ Current.path \in Paths /\ IsStep(Current)
  BY AtStep DEF PInv, AtADir, Program, Finish, MustExist, BeginDir, MkDir, Check, Chmod, Chown,
                Made, Goto, Fail
<1>2. IsTree(fs) /\ Real' = Real
  BY ProgramWrites DEF PInv, Types
<1>3. PICK p \in Paths : p = Current.path
  BY <1>1
<1>4. CASE MustExist
  <2>1. /\ s = Current /\ s.op = "must-exist" /\ fs' = fs
        /\ Stat(Current.path) # Absent /\ KindMatches(Stat(Current.path), Current)
    BY <1>1, <1>4 DEF MustExist, Fail
  <2>2. StepHolds(s)
    BY <2>1 DEF StepHolds, KindMatches
  <2>. QED
    BY <2>1, <2>2, SameFiles
<1>5. CASE Check
  <2>1. /\ Current.op = "dir" /\ fs' = fs /\ LStat(p).kind # "link" /\ IsDir(p)
        /\ ModeMatches(Stat(p), Current) /\ OwnerMatches(Stat(p), Current)
    BY <1>1, <1>3, <1>5 DEF Check, AfterMode, Goto, Fail, RefusesLink, PInv, AtADir
  <2>2. LStat(p) = Stat(p) /\ Stat(p).kind = "dir" /\ Stat(p).mode \in Modes
    <3>1. LStat(p) = Stat(p) /\ IsEntry(Stat(p)) /\ Stat(p).kind = "dir"
      BY <1>2, <2>1, Stats DEF IsDir
    <3>2. Stat(p) \in Dirs
      BY <3>1, EntryKinds
    <3>. QED
      BY <3>1, <3>2 DEF Dirs
  <2>3. Current.mode = Stat(p).mode /\ s.mode = Stat(p).mode
    BY <2>1, <2>2, LowBitsOnly DEF ModeMatches
  <2>4. Wanted(LStat(p), s)
    BY <2>1, <2>2, <2>3 DEF Wanted, OwnerMatches
  <2>5. StepHolds(s)
    BY <1>3, <2>1, <2>4 DEF StepHolds
  <2>. QED
    BY <2>1, <2>5, SameFiles
<1>6. CASE Chmod \/ Chown
  <2>0. pc' # "failed"
    BY <1>1, <1>6 DEF Chmod, Chown, AfterMode, NextStep, Goto, Fail
  <2>1. Current.op = "dir" /\ Spot(p) \in Paths /\ Stat(p) = fs[Spot(p)]
    BY <1>3, <1>6, TheDirectory DEF Chmod, Chown
  <2>2. PICK d \in Dirs : /\ Write(Spot(p), d) /\ d.mode = Current.mode % 4096
                          /\ Current.uid \in {d.uid, Unset} /\ Current.gid \in {d.gid, Unset}
    <3>1. CASE Chmod
      <4>1. OwnerMatches(fs[Spot(p)], Current)
        <5>1. AfterMode /\ at' # at
          BY <1>1, <2>0, <3>1 DEF Chmod, Fail
        <5>2. OwnerMatches(Stat(Current.path), Current)
          BY <5>1 DEF AfterMode, Goto
        <5>. QED
          BY <1>3, <2>1, <5>2
      <4>. QED
        BY <1>3, <2>0, <3>1, <4>1, ChmodWrites DEF OwnerMatches
    <3>2. CASE Chown
      <4>1. fs[Spot(p)].mode = Current.mode % 4096
        BY <1>3, <2>1, <3>2 DEF DoneHolds, Chown
      <4>. QED
        BY <1>3, <2>0, <3>2, <4>1, ChownWrites
    <3>. QED
      BY <1>6, <3>1, <3>2
  <2>3. LStat(p)' = d
    <3>1. fs'[Spot(p)] = d /\ Spot(p)' = Spot(p)
      BY <1>2, <2>2, WriteKeeps
    <3>. QED
      BY <2>1, <3>1, RootIsNoPath DEF LStat, At
  <2>4. d.kind = "dir"
    BY DEF Dirs
  <2>5. LStat(s.path)' = LStat(p)'
    BY <1>3
  <2>. QED
    BY <2>1, <2>2, <2>3, <2>4, <2>5 DEF StepHolds, Wanted
<1>. QED
  BY <1>1, <1>4, <1>5, <1>6 DEF Program, Finish, BeginDir, MkDir, Made, Goto, Fail

(* The steps behind go on holding. *)
LEMMA StepsStay ==
  ASSUME ReadsAlike, PInv, DoneHolds, Program, NEW i \in 1 .. at - 1, Decides(i),
         NEW s, s = Low(Asked(lines[i]))
  PROVE  StepHolds(s)'
<1>1. /\ Len(lines) \in Nat /\ Len(spec) = Len(lines)
      /\ \A j \in 1 .. Len(lines) : /\ IsLine(lines[j]) /\ spec[j] = Asked(lines[j])
                                    /\ IsStep(spec[j])
  BY RunningProgram, StepsAreTheLines
<1>2. at \in Nat /\ at <= Len(lines) + 1 /\ i \in 1 .. Len(lines) /\ i < at
  BY <1>1 DEF PInv, Types
<1>3. IsTree(fs) /\ StepHolds(s)
  BY RunningProgram DEF PInv, Types, DoneHolds
<1>4. s.op = lines[i].op /\ s.path = Asked(lines[i]).path /\ s.path \in Paths /\ s.op \in {"dir", "must-exist"}
  <2>1. IsLine(lines[i]) /\ IsStep(Asked(lines[i]))
    BY <1>1, <1>2
  <2>2. s.op = lines[i].op /\ s.path = Asked(lines[i]).path
    BY <2>1, LowFields
  <2>3. \A x : IsStep(x) => x.path \in Paths
    BY StepPath
  <2>. QED
    BY <2>1, <2>2, <2>3 DEF IsLine
<1>5. CASE fs' = fs
  BY <1>3, <1>5, SameFiles
<1>6. CASE MkDir /\ fs' # fs
  <2>1. PICK p \in Paths : fs[Spot(p)] = Absent /\ Write(Spot(p), Dir(493, runner, runner))
    BY <1>6, MkDirWrites
  <2>2. s.op = "dir" => Spot(s.path) # Spot(p)
    <3>1. s.op = "dir" => LStat(s.path) # Absent
      BY <1>3, <1>4, Has
    <3>2. LStat(s.path) = fs[Spot(s.path)]
      BY <1>3, <1>4, Stats
    <3>. QED
      BY <2>1, <3>1, <3>2
  <2>. QED
    BY <1>3, <1>4, <2>1, <2>2, HoldsElsewhere
<1>7. CASE (Chmod \/ Chown) /\ fs' # fs
  <2>1. Current.op = "dir" /\ \E d \in Dirs : Write(Spot(Current.path), d)
    BY <1>7, ChmodWrites, ChownWrites, TheDirectory DEF Chmod, Chown
  <2>2. at <= Len(lines) /\ Current = Asked(lines[at]) /\ IsLine(lines[at])
    <3>1. at <= Len(spec) /\ at > 0
      BY <1>7, TheDirectory, AtStep DEF Chmod, Chown
    <3>. QED
      BY <1>1, <1>2, <3>1 DEF Current
  <2>3. lines[at].op = "dir"
    BY <2>1, <2>2, AskedFields
  <2>4. s.op = "dir" => Spot(s.path) # Spot(Current.path)
    <3>1. i \in Nat /\ at \in Nat /\ i < at /\ at <= Len(lines) /\ Len(lines) \in Nat
      BY <1>1, <1>2, <2>2
    <3>2. PICK j \in Nat : j = at
      BY <3>1
    <3>3. s.op = "dir" => Spot(Asked(lines[i]).path) # Spot(Asked(lines[j]).path)
      BY <1>4, <2>3, <3>1, <3>2, LaterElsewhere
    <3>. QED
      BY <1>4, <2>2, <3>2, <3>3
  <2>. QED
    BY <1>3, <1>4, <2>1, <2>4, HoldsElsewhere
<1>. QED
  BY <1>5, <1>6, <1>7 DEF Program, Finish, MustExist, BeginDir, Check

LEMMA DoneKept ==
  ASSUME ReadsAlike, PInv, DoneHolds, [Next]_vars
  PROVE  DoneHolds'
<1>1. CASE Program
  <2>1. /\ Len(lines) \in Nat /\ Len(spec) = Len(lines)
        /\ \A j \in 1 .. Len(lines) : /\ IsLine(lines[j]) /\ spec[j] = Asked(lines[j])
                                      /\ IsStep(spec[j])
    BY <1>1, RunningProgram, StepsAreTheLines
  <2>2. Real' = Real /\ lines' = lines /\ env' = env /\ spec' = spec /\ IsTree(fs)
    BY <1>1, ProgramWrites, RunningProgram DEF PInv, Types
  <2>3. at \in Nat /\ at > 0 /\ at <= Len(lines) + 1 /\ at' \in {at, at + 1}
    BY <1>1, <2>1 DEF PInv, Types, Program, Finish, MustExist, BeginDir, MkDir, Check, Chmod, Chown,
                      Made, AfterMode, Goto, NextStep, Fail
  <2>4. ASSUME NEW i \in 1 .. at' - 1, Decides(i)' PROVE StepHolds(Low(Asked(lines[i])))'
    <3>1. PICK s : s = Low(Asked(lines[i]))
      OBVIOUS
    <3>2. Decides(i) /\ s = Low(Asked(lines[i]))'
      BY <2>2, <2>4, <3>1, SameDecides
    <3>3. CASE i <= at - 1
      <4>1. i \in 1 .. at - 1
        BY <2>3, <3>3
      <4>2. StepHolds(s)'
        BY <1>1, <3>1, <3>2, <4>1, StepsStay
      <4>. QED
        BY <3>2, <4>2 DEF StepHolds
    <3>4. CASE i > at - 1
      <4>1. i = at /\ at' = at + 1
        <5>1. CASE at' = at
          <6>1. i \in 1 .. at - 1
            BY <5>1
          <6>. QED
            BY <2>3, <3>4, <6>1
        <5>2. CASE at' = at + 1
          <6>1. i \in 1 .. (at + 1) - 1
            BY <5>2
          <6>2. i = at
            BY <2>3, <3>4, <6>1
          <6>. QED
            BY <5>2, <6>2
        <5>. QED
          BY <2>3, <5>1, <5>2
      <4>2. at <= Len(lines)
        BY <1>1, <2>1, <2>3, <4>1 DEF PInv, AtADir, Program, Finish, MustExist, BeginDir, MkDir, Check,
                                      Chmod, Chown, Made, Goto, Fail
      <4>3. Current = Asked(lines[i]) /\ IsLine(lines[i]) /\ IsStep(Asked(lines[i]))
        BY <2>1, <2>3, <4>1, <4>2 DEF Current
      <4>4. /\ s.op = Current.op /\ s.path = Current.path
            /\ s.op = "dir" => /\ s.mode = Current.mode % 4096
                               /\ s.uid = Current.uid /\ s.gid = Current.gid
            /\ s.op # "dir" => s = Current
        BY <3>1, <4>3, LowFields, AskedFields
      <4>5. StepHolds(s)'
        BY <1>1, <3>1, <4>1, <4>3, <4>4, StepDone
      <4>. QED
        BY <3>2, <4>5 DEF StepHolds
    <3>. QED
      BY <2>3, <3>3, <3>4
  <2>5. pc' = "chown" => Stat(Current.path)'.mode = (Current.mode % 4096)'
    <3>1. SUFFICES ASSUME pc' = "chown" PROVE Stat(Current.path)'.mode = (Current.mode % 4096)'
      OBVIOUS
    <3>2. at' = at /\ Current' = Current /\ (Check \/ Chmod)
      BY <1>1, <2>2, <3>1 DEF Program, Finish, MustExist, BeginDir, MkDir, Check, Chmod, Chown,
                              Made, AfterMode, Goto, NextStep, Fail, Current
    <3>3. PICK c : c = Current
      OBVIOUS
    <3>4. Current' = c /\ c.path \in Paths /\ c.op = "dir"
      BY <3>2, <3>3, AtStep DEF Check, Chmod, PInv, AtADir
    <3>5. Stat(c.path)'.mode = c.mode % 4096
      <4>1. CASE Check
        <5>1. fs' = fs /\ IsDir(c.path) /\ ModeMatches(Stat(c.path), c)
          BY <3>1, <3>3, <4>1 DEF Check, Fail, AfterMode, NextStep, Goto
        <5>2. Stat(c.path).mode \in Modes
          <6>1. IsEntry(Stat(c.path)) /\ Stat(c.path).kind = "dir"
            BY <2>2, <3>4, <5>1, Stats DEF IsDir
          <6>2. Stat(c.path) \in Dirs
            BY <6>1, EntryKinds
          <6>. QED
            BY <6>2 DEF Dirs
        <5>3. Stat(c.path).mode = c.mode % 4096
          BY <5>1, <5>2, LowBitsOnly DEF ModeMatches
        <5>. QED
          BY <5>1, <5>3, SameFiles
      <4>2. CASE Chmod
        <5>1. Real[c.path] = Spot(c.path) /\ Spot(c.path) \in Paths /\ pc' # "failed"
          BY <3>1, <3>3, <4>2, TheDirectory DEF Chmod
        <5>2. PICK d \in Dirs : d.mode = c.mode % 4096 /\ Write(Spot(c.path), d)
          BY <3>3, <4>2, <5>1, ChmodWrites
        <5>3. fs'[Spot(c.path)] = d
          BY <2>2, <5>2, WriteKeeps
        <5>4. Stat(c.path)' = d
          BY <2>2, <5>1, <5>3, RootIsNoPath DEF Stat, At
        <5>. QED
          BY <5>2, <5>4
      <4>. QED
        BY <3>2, <4>1, <4>2
    <3>6. Stat(Current.path)' = Stat(c.path)' /\ (Current.mode % 4096)' = c.mode % 4096
      BY <3>4
    <3>. QED
      BY <3>5, <3>6
  <2>6. pc' = "succeeded" => at' > Len(spec')
    BY <1>1, <2>2 DEF Program, Finish, MustExist, BeginDir, MkDir, Check, Chmod, Chown, Made, AfterMode, Goto, NextStep, Fail
  <2>. QED
    BY <2>4, <2>5, <2>6 DEF DoneHolds
<1>2. CASE Start
  BY <1>2 DEF Start, DoneHolds, Running
<1>3. CASE Kill
  BY <1>3 DEF Kill, DoneHolds, Running
<1>4. CASE Recreate
  BY <1>4 DEF Recreate, DoneHolds, Running
<1>5. CASE \E m \in MountPoints : Mount(m)
  BY <1>5 DEF Mount, DoneHolds, Running
<1>6. CASE UNCHANGED vars
  <2>1. UNCHANGED <<fs, lines, env, pc, at, spec>> /\ Real' = Real
    BY <1>6, NothingWritten DEF vars
  <2>2. ASSUME NEW i PROVE StepHolds(Low(Asked(lines[i])))' <=> StepHolds(Low(Asked(lines[i])))
    <3>1. PICK s : s = Low(Asked(lines[i]))
      OBVIOUS
    <3>2. Low(Asked(lines[i]))' = s
      BY <2>1, <3>1, SameDecides
    <3>3. StepHolds(s)' <=> StepHolds(s)
      BY <2>1, SameFiles
    <3>4. StepHolds(Low(Asked(lines[i])))' <=> StepHolds(s)'
      BY <3>2 DEF StepHolds
    <3>. QED
      BY <3>1, <3>3, <3>4
  <2>3. \A i : Decides(i)' <=> Decides(i)
    BY <2>1, SameDecides
  <2>4. Stat(Current.path)' = Stat(Current.path) /\ (Current.mode % 4096)' = Current.mode % 4096
    BY <2>1 DEF Stat, At, Current
  <2>. QED
    BY <2>1, <2>2, <2>3, <2>4 DEF DoneHolds, Running
<1>. QED
  BY <1>1, <1>2, <1>3, <1>4, <1>5, <1>6 DEF Next

(* When dinix-init exits 0, every directory a service asks for is there,   *)
(* where the service will look for it, with the mode and the owner asked   *)
(* for, and everything that must exist does: whatever the volumes held,    *)
(* and whatever earlier runs, killed anywhere and as any user, had done.   *)
THEOREM SuccessMeansProvisioned == ASSUME MalformedIsNoForm PROVE Spec => []Provisioned
<1>0. ReadsAlike
  BY ReadAlike
<1>1. Init => DoneHolds
  BY DEF Init, DoneHolds, Running
<1>2. PInv /\ DoneHolds /\ [Next]_vars => DoneHolds'
  BY <1>0, DoneKept
<1>3. PInv /\ DoneHolds => Provisioned
  <2>. SUFFICES ASSUME PInv, DoneHolds, pc = "succeeded", NEW i \in DOMAIN lines
                PROVE  Proper(lines[i]) /\ (Decides(i) => StepHolds(Low(Asked(lines[i]))))
    BY DEF Provisioned, Low
  <2>1. /\ Len(lines) \in Nat /\ DOMAIN lines = 1 .. Len(lines) /\ Len(spec) = Len(lines)
        /\ \A j \in 1 .. Len(lines) : Proper(lines[j])
    BY <1>0, StepsAreTheLines
  <2>2. at > Len(lines) /\ at \in Nat
    BY <2>1, AtStep DEF DoneHolds
  <2>3. i \in 1 .. at - 1
    BY <2>1, <2>2
  <2>. QED
    BY <2>1, <2>3 DEF DoneHolds
<1>. QED
  BY <1>1, <1>2, <1>3, RunInvariant, PTL DEF Spec
=============================================================================
