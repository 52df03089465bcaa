-------------------------- MODULE SequenceInduction --------------------------
(***************************************************************************)
(* Induction over numbers and over sequences, for sets in place of         *)
(* properties, and what FlattenSeq makes of a sequence of sequences.       *)
(***************************************************************************)
EXTENDS SequencesExt, SequenceTheorems, WellFoundedInduction, TLAPS

-----------------------------------------------------------------------------
(* Induction.                                                              *)

(* Every non-empty set of numbers has a least one. *)
LEMMA LeastNumber ==
  ASSUME NEW T, T \subseteq Nat, T # {}
  PROVE  \E n \in T : \A m \in T : n <= m
<1>. DEFINE R == OpToRel(<, Nat)
<1>1. IsWellFoundedOn(R, Nat)
  BY NatLessThanWellFounded
<1>3. \A x, y \in Nat : <<y, x>> \in R <=> y < x
  BY DEF R, OpToRel
<1>. HIDE DEF R
<1>2. \E x \in T : \A y \in T : ~ (<<y, x>> \in R)
  BY <1>1, WFMin
<1>4. PICK x \in T : \A y \in T : ~ (<<y, x>> \in R)
  BY <1>2
<1>5. ASSUME NEW y \in T PROVE x <= y
  <2>1. x \in Nat /\ y \in Nat
    OBVIOUS
  <2>2. ~(y < x)
    BY <1>3, <1>4, <2>1
  <2>. QED
    BY <2>1, <2>2
<1>. QED
  BY <1>5

(* A set with 0, and with n + 1 for each of its numbers n, has them all. *)
LEMMA Induct ==
  ASSUME NEW T, 0 \in T, \A n \in Nat : n \in T => n + 1 \in T
  PROVE  Nat \subseteq T
<1>1. SUFFICES ASSUME Nat \ T # {} PROVE FALSE
  OBVIOUS
<1>2. PICK n \in Nat \ T : \A m \in Nat \ T : n <= m
  BY <1>1, LeastNumber
<1>3. n # 0 /\ n - 1 \in Nat /\ n - 1 \in T
  BY <1>2
<1>. QED
  BY <1>2, <1>3

LEMMA FrontType ==
  ASSUME NEW S, NEW s \in Seq(S), s # << >>
  PROVE  /\ Len(s) \in Nat /\ Len(s) > 0
         /\ Front(s) \in Seq(S) /\ Len(Front(s)) = Len(s) - 1
         /\ Last(s) \in S /\ Append(Front(s), Last(s)) = s
<1>. DEFINE n == Len(s)
            f == SubSeq(s, 1, n - 1)
<1>1. n \in Nat /\ n > 0 /\ DOMAIN s = 1 .. n /\ \A i \in 1 .. n : s[i] \in S
  OBVIOUS
<1>2. f \in Seq(S) /\ Len(f) = n - 1 /\ \A i \in 1 .. n - 1 : f[i] = s[i]
  BY <1>1
<1>. HIDE DEF f
<1>3. s[n] \in S
  BY <1>1
<1>6. Append(f, s[n]) \in Seq(S) /\ Len(Append(f, s[n])) = Len(f) + 1
  BY <1>2, <1>3, AppendProperties
<1>4. \A i \in 1 .. n : Append(f, s[n])[i] = s[i]
  BY <1>1, <1>2
<1>7. \A i \in 1 .. Len(s) : s[i] = Append(f, s[n])[i]
  BY <1>1, <1>4
<1>8. Len(s) = Len(Append(f, s[n]))
  BY <1>1, <1>2, <1>6
<1>5. Append(f, s[n]) = s
  BY <1>6, <1>7, <1>8, SeqEqual
<1>. QED
  BY <1>1, <1>2, <1>5 DEF Front, Last, f

LEMMA AppendFront ==
  ASSUME NEW S, NEW s \in Seq(S), NEW x \in S
  PROVE  /\ Append(s, x) \in Seq(S) /\ Append(s, x) # << >>
         /\ Len(Append(s, x)) = Len(s) + 1
         /\ Front(Append(s, x)) = s /\ Last(Append(s, x)) = x
BY DEF Front, Last

(* A set of sequences with the empty one, and with every sequence one longer than one of its own,  *)
(* has them all.                                                                                  *)
LEMMA SeqInduct ==
  ASSUME NEW S, NEW T, << >> \in T, \A s \in Seq(S) : \A e \in S : s \in T => Append(s, e) \in T
  PROVE  Seq(S) \subseteq T
<1>. DEFINE N == {n \in Nat : \A s \in Seq(S) : Len(s) = n => s \in T}
<1>1. 0 \in N
  BY EmptySeq
<1>2. ASSUME NEW n \in Nat, n \in N PROVE n + 1 \in N
  <2>1. ASSUME NEW s \in Seq(S), Len(s) = n + 1 PROVE s \in T
    <3>1. s # << >>
      BY <2>1, EmptySeq
    <3>2. Front(s) \in Seq(S) /\ Len(Front(s)) = n /\ Last(s) \in S /\ Append(Front(s), Last(s)) = s
      BY <2>1, <3>1, FrontType
    <3>. QED
      BY <1>2, <3>2
  <2>. QED
    BY <2>1
<1>. HIDE DEF N
<1>3. Nat \subseteq N
  BY <1>1, <1>2, Induct
<1>. QED
  BY <1>3, LenProperties DEF N

-----------------------------------------------------------------------------
(* Sequences joined to one, one more at a time.                            *)

(* What the sequences joined so far are. *)
Joins(f, n, seqs) == f = [i \in 1 .. n |-> IF i = 1 THEN seqs[i] ELSE f[i - 1] \o seqs[i]]

LEMMA JoinsExist ==
  ASSUME NEW seqs
  PROVE  \A n \in Nat : \E f : Joins(f, n, seqs)
<1>. DEFINE N == {n \in Nat : \E f : Joins(f, n, seqs)}
<1>1. 0 \in N
  <2>. DEFINE f == [i \in 1 .. 0 |-> << >>]
  <2>1. f = [i \in 1 .. 0 |-> IF i = 1 THEN seqs[i] ELSE f[i - 1] \o seqs[i]]
    OBVIOUS
  <2>. HIDE DEF f
  <2>. QED
    BY <2>1 DEF Joins
<1>2. ASSUME NEW n \in Nat, n \in N PROVE n + 1 \in N
  <2>1. PICK f : Joins(f, n, seqs)
    BY <1>2
  <2>2. \A i \in 1 .. n : f[i] = IF i = 1 THEN seqs[i] ELSE f[i - 1] \o seqs[i]
    BY <2>1 DEF Joins
  <2>. DEFINE g == [i \in 1 .. n + 1 |-> IF i <= n THEN f[i] ELSE IF i = 1 THEN seqs[i] ELSE f[n] \o seqs[i]]
  <2>3. \A i \in 1 .. n : g[i] = f[i]
    OBVIOUS
  <2>4. \A i \in 1 .. n : g[i] = IF i = 1 THEN seqs[i] ELSE g[i - 1] \o seqs[i]
    BY <2>2, <2>3
  <2>5. g[n + 1] = IF n + 1 = 1 THEN seqs[n + 1] ELSE g[n] \o seqs[n + 1]
    BY <2>3
  <2>6. g = [i \in 1 .. n + 1 |-> g[i]]
    OBVIOUS
  <2>. HIDE DEF g
  <2>7. \A i \in 1 .. n + 1 : g[i] = IF i = 1 THEN seqs[i] ELSE g[i - 1] \o seqs[i]
    BY <2>4, <2>5
  <2>8. Joins(g, n + 1, seqs)
    BY <2>6, <2>7 DEF Joins
  <2>. QED
    BY <2>8
<1>. HIDE DEF N
<1>3. Nat \subseteq N
  BY <1>1, <1>2, Induct
<1>. QED
  BY <1>3 DEF N

LEMMA JoinsAgree ==
  ASSUME NEW n \in Nat, NEW m \in Nat, n <= m,
         NEW seqs, NEW longer, NEW f, NEW g, Joins(f, n, seqs), Joins(g, m, longer),
         \A i \in 1 .. n : seqs[i] = longer[i]
  PROVE  \A i \in 1 .. n : f[i] = g[i]
<1>. DEFINE N == {i \in Nat : i \in 1 .. n => f[i] = g[i]}
<1>1. \A i \in 1 .. n : f[i] = IF i = 1 THEN seqs[i] ELSE f[i - 1] \o seqs[i]
  BY DEF Joins
<1>2. \A i \in 1 .. m : g[i] = IF i = 1 THEN longer[i] ELSE g[i - 1] \o longer[i]
  BY DEF Joins
<1>3. 0 \in N
  OBVIOUS
<1>4. ASSUME NEW i \in Nat, i \in N PROVE i + 1 \in N
  <2>1. SUFFICES ASSUME i + 1 \in 1 .. n PROVE f[i + 1] = g[i + 1]
    OBVIOUS
  <2>2. CASE i = 0
    BY <1>1, <1>2, <2>1, <2>2
  <2>3. CASE i # 0
    <3>0. i + 1 \in 1 .. n /\ i + 1 \in 1 .. m /\ i + 1 # 1 /\ (i + 1) - 1 = i
      BY <2>1, <2>3
    <3>1. f[i + 1] = f[i] \o seqs[i + 1] /\ g[i + 1] = g[i] \o longer[i + 1]
      BY <1>1, <1>2, <3>0
    <3>2. f[i] = g[i] /\ seqs[i + 1] = longer[i + 1]
      BY <1>4, <2>1, <2>3
    <3>. QED
      BY <3>1, <3>2
  <2>. QED
    BY <2>2, <2>3
<1>. HIDE DEF N
<1>5. Nat \subseteq N
  BY <1>3, <1>4, Induct
<1>. QED
  BY <1>5 DEF N

LEMMA FlattenIsLast ==
  ASSUME NEW seqs, Len(seqs) \in Nat, Len(seqs) # 0
  PROVE  \E f : Joins(f, Len(seqs), seqs) /\ FlattenSeq(seqs) = f[Len(seqs)]
<1>. DEFINE F == CHOOSE f : f = [i \in 1 .. Len(seqs) |-> IF i = 1 THEN seqs[i] ELSE f[i - 1] \o seqs[i]]
<1>1. \E f : Joins(f, Len(seqs), seqs)
  BY JoinsExist
<1>2. \E f : f = [i \in 1 .. Len(seqs) |-> IF i = 1 THEN seqs[i] ELSE f[i - 1] \o seqs[i]]
  BY <1>1 DEF Joins
<1>3. F = [i \in 1 .. Len(seqs) |-> IF i = 1 THEN seqs[i] ELSE F[i - 1] \o seqs[i]]
  BY <1>2
<1>4. FlattenSeq(seqs) = F[Len(seqs)]
  BY DEF FlattenSeq
<1>. HIDE DEF F
<1>5. Joins(F, Len(seqs), seqs)
  BY <1>3 DEF Joins
<1>. QED
  BY <1>4, <1>5

LEMMA FlattenNothing == FlattenSeq(<< >>) = << >>
BY EmptySeq DEF FlattenSeq

LEMMA FlattenStep ==
  ASSUME NEW seqs, NEW more, Len(seqs) \in Nat, Len(seqs) # 0, Len(more) = Len(seqs) + 1,
         \A i \in 1 .. Len(seqs) : seqs[i] = more[i]
  PROVE  FlattenSeq(more) = FlattenSeq(seqs) \o more[Len(more)]
<1>. DEFINE n == Len(seqs)
            m == Len(more)
<1>0. n \in Nat /\ n # 0 /\ m \in Nat /\ n <= m /\ m = n + 1
  OBVIOUS
<1>1. PICK g : Joins(g, m, more) /\ FlattenSeq(more) = g[m]
  BY <1>0, FlattenIsLast
<1>2. PICK f : Joins(f, n, seqs) /\ FlattenSeq(seqs) = f[n]
  BY <1>0, FlattenIsLast
<1>3. \A i \in 1 .. n : f[i] = g[i]
  <2>1. /\ n \in Nat /\ m \in Nat /\ n <= m /\ Joins(f, n, seqs) /\ Joins(g, m, more)
        /\ \A i \in 1 .. n : seqs[i] = more[i]
    BY <1>0, <1>1, <1>2
  <2>. HIDE DEF n, m
  <2>. QED
    BY <2>1, JoinsAgree
<1>4. g[m] = g[n] \o more[m]
  <2>1. m \in 1 .. m /\ m # 1 /\ m - 1 = n
    BY <1>0
  <2>. QED
    BY <1>1, <2>1 DEF Joins
<1>5. n \in 1 .. n
  BY <1>0
<1>6. f[n] = g[n]
  BY <1>3, <1>5
<1>. QED
  BY <1>1, <1>2, <1>4, <1>6

LEMMA FlattenMore ==
  ASSUME NEW S, NEW seqs \in Seq(Seq(S)), NEW text \in Seq(S)
  PROVE  FlattenSeq(Append(seqs, text)) = FlattenSeq(seqs) \o text
<1>. DEFINE n == Len(seqs)
            more == Append(seqs, text)
<1>1. /\ n \in Nat /\ Len(more) = n + 1 /\ more[n + 1] = text
      /\ \A i \in 1 .. n : seqs[i] = more[i]
  BY AppendProperties, LenProperties
<1>. HIDE DEF more
<1>2. PICK g : Joins(g, n + 1, more) /\ FlattenSeq(more) = g[n + 1]
  BY <1>1, FlattenIsLast
<1>3. \A i \in 1 .. n + 1 : g[i] = IF i = 1 THEN more[i] ELSE g[i - 1] \o more[i]
  BY <1>2 DEF Joins
<1>4. CASE n = 0
  <2>1. seqs = << >>
    BY <1>4, EmptySeq
  <2>2. g[1] = more[1]
    BY <1>3, <1>4
  <2>3. FlattenSeq(more) = text
    BY <1>1, <1>2, <1>4, <2>2
  <2>. QED
    BY <2>1, <2>3, FlattenNothing, ConcatEmptySeq DEF more
<1>5. CASE n # 0
  BY <1>1, <1>5, FlattenStep DEF more
<1>. QED
  BY <1>4, <1>5

LEMMA FlattenType ==
  ASSUME NEW S
  PROVE  \A seqs \in Seq(Seq(S)) : FlattenSeq(seqs) \in Seq(S)
<1>. DEFINE T == {seqs \in Seq(Seq(S)) : FlattenSeq(seqs) \in Seq(S)}
<1>1. << >> \in T
  BY EmptySeq, FlattenNothing
<1>2. ASSUME NEW seqs \in Seq(Seq(S)), NEW text \in Seq(S), seqs \in T PROVE Append(seqs, text) \in T
  <2>1. FlattenSeq(Append(seqs, text)) = FlattenSeq(seqs) \o text /\ Append(seqs, text) \in Seq(Seq(S))
    BY FlattenMore, AppendProperties
  <2>. QED
    BY <1>2, <2>1, ConcatProperties
<1>. HIDE DEF T
<1>3. Seq(Seq(S)) \subseteq T
  BY <1>1, <1>2, SeqInduct
<1>. QED
  BY <1>3 DEF T

-----------------------------------------------------------------------------
(* What each element of a sequence stands for, joined.                     *)

Mapped(W, s) == [i \in DOMAIN s |-> W[s[i]]]
Joined(W, s) == FlattenSeq(Mapped(W, s))

LEMMA JoinedNothing == ASSUME NEW W PROVE Joined(W, << >>) = << >>
<1>1. Mapped(W, << >>) = << >>
  BY DEF Mapped
<1>. QED
  BY <1>1, FlattenNothing DEF Joined

LEMMA MappedType ==
  ASSUME NEW P, NEW Q, NEW W \in [P -> Q], NEW s \in Seq(P)
  PROVE  Mapped(W, s) \in Seq(Q)
<1>1. Len(s) \in Nat /\ DOMAIN s = 1 .. Len(s) /\ \A i \in 1 .. Len(s) : s[i] \in P
  BY LenProperties
<1>2. Mapped(W, s) \in [1 .. Len(s) -> Q]
  BY <1>1 DEF Mapped
<1>. QED
  BY <1>1, <1>2

LEMMA MappedMore ==
  ASSUME NEW P, NEW W, NEW s \in Seq(P), NEW p \in P
  PROVE  Mapped(W, Append(s, p)) = Append(Mapped(W, s), W[p])
<1>. DEFINE m == [i \in DOMAIN s |-> W[s[i]]]
            Q == {W[x] : x \in P}
            n == Len(s)
<1>1. n \in Nat /\ DOMAIN s = 1 .. n /\ \A i \in 1 .. n : s[i] \in P
  BY LenProperties
<1>2. m \in [1 .. n -> Q]
  BY <1>1
<1>3. m \in Seq(Q) /\ Len(m) = n
  <2>1. \A f : f \in [1 .. n -> Q] => f \in Seq(Q) /\ Len(f) = n
    BY <1>1
  <2>. QED
    BY <1>2, <2>1
<1>4. [i \in DOMAIN Append(s, p) |-> W[Append(s, p)[i]]] = Append(m, W[p])
  <2>. DEFINE t == Append(s, p)
              u == Append(m, W[p])
              g == [i \in DOMAIN t |-> W[t[i]]]
  <2>0. W[p] \in Q
    OBVIOUS
  <2>1. /\ t \in Seq(P) /\ DOMAIN t = 1 .. n + 1 /\ t[n + 1] = p
        /\ \A i \in 1 .. n : t[i] = s[i]
    BY <1>1, AppendProperties, LenProperties
  <2>2. /\ u \in Seq(Q) /\ Len(u) = n + 1 /\ u[n + 1] = W[p]
        /\ \A i \in 1 .. n : u[i] = m[i]
    <3>. HIDE DEF m
    <3>. QED
      BY <1>1, <1>3, <2>0, AppendProperties
  <2>3. \A i \in 1 .. n + 1 : u[i] = g[i]
    <3>1. ASSUME NEW i \in 1 .. n PROVE u[i] = g[i]
      <4>1. u[i] = m[i] /\ m[i] = W[s[i]]
        BY <1>1, <2>2
      <4>2. i \in DOMAIN t /\ t[i] = s[i]
        BY <1>1, <2>1
      <4>. QED
        BY <4>1, <4>2
    <3>2. u[n + 1] = g[n + 1]
      <4>. HIDE DEF t, u, m
      <4>. QED
        BY <1>1, <2>1, <2>2
    <3>. HIDE DEF u, g
    <3>. QED
      BY <1>1, <3>1, <3>2
  <2>4. DOMAIN g = 1 .. n + 1 /\ g = [i \in 1 .. n + 1 |-> g[i]]
    <3>. HIDE DEF t
    <3>. QED
      BY <2>1
  <2>5. u = [i \in 1 .. n + 1 |-> u[i]]
    <3>. HIDE DEF u
    <3>. QED
      BY <2>2
  <2>. HIDE DEF u, g
  <2>. QED
    BY <2>3, <2>4, <2>5 DEF u, g
<1>. QED
  BY <1>4 DEF Mapped

LEMMA JoinedMore ==
  ASSUME NEW P, NEW S, NEW W \in [P -> Seq(S)], NEW s \in Seq(P), NEW p \in P
  PROVE  Joined(W, Append(s, p)) = Joined(W, s) \o W[p]
<1>1. Mapped(W, s) \in Seq(Seq(S))
  BY MappedType
<1>3. Mapped(W, Append(s, p)) = Append(Mapped(W, s), W[p])
  BY MappedMore
<1>2. W[p] \in Seq(S)
  OBVIOUS
<1>. QED
  BY <1>1, <1>2, <1>3, FlattenMore DEF Joined

LEMMA JoinedType ==
  ASSUME NEW P, NEW S, NEW W \in [P -> Seq(S)], NEW s \in Seq(P)
  PROVE  Joined(W, s) \in Seq(S)
<1>1. Mapped(W, s) \in Seq(Seq(S))
  BY MappedType
<1>. QED
  BY <1>1, FlattenType DEF Joined

LEMMA JoinedOne ==
  ASSUME NEW P, NEW S, NEW W \in [P -> Seq(S)], NEW p \in P
  PROVE  Joined(W, <<p>>) = W[p]
<1>1. << >> \in Seq(P) /\ Append(<< >>, p) = <<p>> /\ W[p] \in Seq(S)
  OBVIOUS
<1>2. Joined(W, <<p>>) = Joined(W, << >>) \o W[p]
  BY <1>1, JoinedMore
<1>. QED
  BY <1>1, <1>2, JoinedNothing, ConcatEmptySeq

LEMMA JoinedConcat ==
  ASSUME NEW P, NEW S, NEW W \in [P -> Seq(S)], NEW s \in Seq(P), NEW u \in Seq(P)
  PROVE  Joined(W, s \o u) = Joined(W, s) \o Joined(W, u)
<1>. DEFINE T == {t \in Seq(P) : Joined(W, s \o t) = Joined(W, s) \o Joined(W, t)}
<1>1. << >> \in T
  <2>1. << >> \in Seq(P) /\ s \o << >> = s
    BY EmptySeq, ConcatEmptySeq
  <2>2. Joined(W, s) \o << >> = Joined(W, s)
    BY JoinedType, ConcatEmptySeq
  <2>. QED
    BY <2>1, <2>2, JoinedNothing
<1>2. ASSUME NEW t \in Seq(P), NEW p \in P, t \in T PROVE Append(t, p) \in T
  <2>1. s \o t \in Seq(P) /\ s \o Append(t, p) = Append(s \o t, p) /\ Append(t, p) \in Seq(P)
    <3>1. <<p>> \in Seq(P) /\ Append(t, p) = t \o <<p>> /\ s \o t \in Seq(P)
      BY AppendIsConcat, ConcatProperties
    <3>2. Append(s \o t, p) = (s \o t) \o <<p>>
      BY <3>1, AppendIsConcat
    <3>3. (s \o t) \o <<p>> = s \o (t \o <<p>>)
      BY <3>1, ConcatAssociative, SMTT(40)
    <3>4. Append(t, p) \in Seq(P)
      BY AppendProperties
    <3>5. s \o Append(t, p) = s \o (t \o <<p>>)
      BY <3>1, Zenon
    <3>6. s \o Append(t, p) = Append(s \o t, p)
      BY <3>2, <3>3, <3>5, Zenon
    <3>. QED
      BY <3>1, <3>4, <3>6, Zenon
  <2>2. Joined(W, Append(s \o t, p)) = (Joined(W, s) \o Joined(W, t)) \o W[p]
    BY <1>2, <2>1, JoinedMore
  <2>3. (Joined(W, s) \o Joined(W, t)) \o W[p] = Joined(W, s) \o (Joined(W, t) \o W[p])
    <3>1. Joined(W, s) \in Seq(S) /\ Joined(W, t) \in Seq(S) /\ W[p] \in Seq(S)
      BY JoinedType
    <3>. QED
      BY <3>1, ConcatAssociative, SMTT(30)
  <2>4. Joined(W, Append(t, p)) = Joined(W, t) \o W[p]
    BY JoinedMore
  <2>. QED
    BY <2>1, <2>2, <2>3, <2>4
<1>. HIDE DEF T
<1>3. Seq(P) \subseteq T
  BY <1>1, <1>2, SeqInduct
<1>. QED
  BY <1>3 DEF T

-----------------------------------------------------------------------------
(* The ends of a concatenation.                                            *)

LEMMA ConsRead ==
  ASSUME NEW S, NEW x \in S, NEW s \in Seq(S)
  PROVE  /\ <<x>> \o s \in Seq(S) /\ <<x>> \o s # << >> /\ Len(<<x>> \o s) = 1 + Len(s)
         /\ (<<x>> \o s)[1] = x /\ Head(<<x>> \o s) = x /\ Tail(<<x>> \o s) = s
<1>. DEFINE c == <<x>> \o s
<1>1. <<x>> \in Seq(S) /\ Len(<<x>>) = 1 /\ <<x>>[1] = x
  OBVIOUS
<1>2. /\ c \in Seq(S) /\ Len(c) = 1 + Len(s) /\ Len(s) \in Nat /\ c[1] = x
      /\ \A i \in 1 .. Len(s) : c[1 + i] = s[i]
  BY <1>1, ConcatProperties, LenProperties
<1>. HIDE DEF c
<1>3. c # << >>
  BY <1>2, EmptySeq
<1>4. Head(c) = x /\ Tail(c) \in Seq(S) /\ Len(Tail(c)) = Len(s) /\ \A i \in 1 .. Len(s) : Tail(c)[i] = c[i + 1]
  BY <1>2, <1>3, HeadTailProperties
<1>5. \A i \in 1 .. Len(s) : Tail(c)[i] = s[i]
  BY <1>2, <1>4
<1>6. Tail(c) = s
  BY <1>4, <1>5, SeqEqual
<1>. QED
  BY <1>2, <1>3, <1>4, <1>6 DEF c

(* A part of a concatenation. *)
LEMMA MiddleOf ==
  ASSUME NEW S, NEW a \in Seq(S), NEW b \in Seq(S), NEW c \in Seq(S)
  PROVE  SubSeq((a \o b) \o c, Len(a) + 1, Len(a) + Len(b)) = b
<1>. DEFINE s == (a \o b) \o c
            t == SubSeq(s, Len(a) + 1, Len(a) + Len(b))
<1>1. /\ a \o b \in Seq(S) /\ Len(a \o b) = Len(a) + Len(b) /\ Len(a) \in Nat /\ Len(b) \in Nat /\ Len(c) \in Nat
      /\ \A i \in 1 .. Len(b) : (a \o b)[Len(a) + i] = b[i]
  BY ConcatProperties, LenProperties
<1>2. /\ s \in Seq(S) /\ Len(s) = (Len(a) + Len(b)) + Len(c)
      /\ \A i \in 1 .. Len(a) + Len(b) : s[i] = (a \o b)[i]
  BY <1>1, ConcatProperties
<1>. HIDE DEF s
<1>3. /\ t \in Seq(S) /\ Len(t) = Len(b)
      /\ \A i \in 1 .. Len(b) : t[i] = s[Len(a) + i]
  <2>1. Len(a) + 1 \in 1 .. Len(s) + 1 /\ Len(a) + Len(b) \in Len(a) .. Len(s)
    BY <1>1, <1>2
  <2>. QED
    BY <1>1, <1>2, <2>1, SubSeqProperties
<1>4. ASSUME NEW i \in 1 .. Len(b) PROVE t[i] = b[i]
  <2>1. Len(a) + i \in 1 .. Len(a) + Len(b)
    BY <1>1
  <2>2. s[Len(a) + i] = (a \o b)[Len(a) + i]
    BY <1>2, <2>1
  <2>. QED
    BY <1>1, <1>3, <2>2
<1>. HIDE DEF t
<1>5. t = b
  BY <1>3, <1>4, SeqEqual
<1>. QED
  BY <1>5 DEF t, s

LEMMA RestOf ==
  ASSUME NEW S, NEW a \in Seq(S), NEW b \in Seq(S)
  PROVE  SubSeq(a \o b, Len(a) + 1, Len(a \o b)) = b
<1>1. a \o b \in Seq(S) /\ Len(a \o b) = Len(a) + Len(b) /\ (a \o b) \o << >> = a \o b /\ << >> \in Seq(S)
  BY ConcatProperties, ConcatEmptySeq, EmptySeq
<1>2. SubSeq((a \o b) \o << >>, Len(a) + 1, Len(a) + Len(b)) = b
  BY <1>1, MiddleOf
<1>. QED
  BY <1>1, <1>2

Meet(a, b, c, d) == a \o b = c \o d /\ Len(a) <= Len(c)

LEMMA BeginningOf ==
  ASSUME NEW S, NEW a \in Seq(S), NEW b \in Seq(S), NEW c \in Seq(S), NEW d \in Seq(S), Meet(a, b, c, d)
  PROVE  a = SubSeq(c, 1, Len(a)) /\ (Len(a) = Len(c) => a = c /\ b = d)
<1>0. a \o b = c \o d /\ Len(a) <= Len(c)
  BY DEF Meet
<1>1. /\ Len(a) \in Nat /\ Len(b) \in Nat /\ Len(c) \in Nat /\ Len(d) \in Nat
      /\ Len(a \o b) = Len(a) + Len(b) /\ Len(c \o d) = Len(c) + Len(d)
      /\ \A i \in 1 .. Len(a) : (a \o b)[i] = a[i]
      /\ \A i \in 1 .. Len(c) : (c \o d)[i] = c[i]
      /\ \A i \in 1 .. Len(b) : (a \o b)[Len(a) + i] = b[i]
      /\ \A i \in 1 .. Len(d) : (c \o d)[Len(c) + i] = d[i]
  <2>1. \A x, y \in Seq(S) :
          /\ Len(x) \in Nat /\ Len(y) \in Nat /\ Len(x \o y) = Len(x) + Len(y)
          /\ \A i \in 1 .. Len(x) : (x \o y)[i] = x[i]
          /\ \A i \in 1 .. Len(y) : (x \o y)[Len(x) + i] = y[i]
    BY ConcatProperties, LenProperties
  <2>. QED
    BY <2>1
<1>2. \A i \in 1 .. Len(a) : a[i] = c[i]
  BY <1>0, <1>1
<1>3. a = SubSeq(c, 1, Len(a))
  <2>. DEFINE t == SubSeq(c, 1, Len(a))
  <2>1. t \in Seq(S) /\ Len(t) = Len(a) /\ \A i \in 1 .. Len(a) : t[i] = c[i]
    <3>1. \A k \in Nat : k <= Len(c) =>
             SubSeq(c, 1, k) \in Seq(S) /\ Len(SubSeq(c, 1, k)) = k /\ \A i \in 1 .. k : SubSeq(c, 1, k)[i] = c[i]
      BY <1>1, LenProperties
    <3>. QED
      BY <1>0, <1>1, <3>1
  <2>. HIDE DEF t
  <2>2. \A i \in 1 .. Len(t) : t[i] = a[i]
    BY <1>2, <2>1
  <2>3. t = a
    BY <2>1, <2>2, SeqEqual
  <2>. QED
    BY <2>3 DEF t
<1>4. ASSUME Len(a) = Len(c) PROVE a = c /\ b = d
  <2>1. a = c
    BY <1>1, <1>2, <1>4, SeqEqual
  <2>2. Len(b) = Len(d) /\ \A i \in 1 .. Len(b) : b[i] = d[i]
    BY <1>0, <1>1, <1>4
  <2>3. b = d
    BY <2>2, SeqEqual
  <2>. QED
    BY <2>1, <2>3
<1>. QED
  BY <1>3, <1>4
=============================================================================
