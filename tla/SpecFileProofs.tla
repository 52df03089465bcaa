--------------------------- MODULE SpecFileProofs ---------------------------
(***************************************************************************)
(* dinix-init reads a text as dinit does: whatever has one of the forms of *)
(* dinit-service(5) expands to what dinit makes of it, and nothing else    *)
(* is accepted, for texts of any length and every environment.             *)
(***************************************************************************)
EXTENDS SpecFile, SequenceInduction

-----------------------------------------------------------------------------
(* Texts.                                                                  *)

LEMMA Empty == << >> \in Text /\ Len(<< >>) = 0
BY DEF Text

LEMMA Single == ASSUME NEW c \in Tokens PROVE <<c>> \in Text /\ Len(<<c>>) = 1 /\ <<c>>[1] = c
<1>1. \A S : \A x \in S : <<x>> \in Seq(S)
  OBVIOUS
<1>. QED
  BY <1>1 DEF Text

LEMMA Pair == ASSUME NEW c \in Tokens, NEW d \in Tokens PROVE <<c, d>> \in Text
<1>1. \A S : \A x, y \in S : <<x, y>> \in Seq(S)
  OBVIOUS
<1>. QED
  BY <1>1 DEF Text

LEMMA TextsJoined ==
  ASSUME NEW s \in Text, NEW t \in Text
  PROVE  /\ s \o t \in Text /\ Len(s \o t) = Len(s) + Len(t)
         /\ Len(s) \in Nat /\ Len(t) \in Nat /\ DOMAIN s = 1 .. Len(s)
         /\ \A i \in 1 .. Len(s) : (s \o t)[i] = s[i]
         /\ \A i \in 1 .. Len(t) : (s \o t)[Len(s) + i] = t[i]
         /\ s \o << >> = s /\ << >> \o s = s
BY ConcatProperties, ConcatEmptySeq, LenProperties DEF Text

LEMMA Regroup ==
  ASSUME NEW s \in Text, NEW t \in Text, NEW u \in Text
  PROVE  (s \o t) \o u = s \o (t \o u)
BY ConcatAssociative DEF Text

LEMMA Longer ==
  ASSUME NEW s \in Text, NEW c \in Tokens
  PROVE  /\ Append(s, c) \in Text /\ Append(s, c) = s \o <<c>> /\ Append(s, c) # << >>
         /\ Len(Append(s, c)) = Len(s) + 1 /\ Append(s, c)[Len(s) + 1] = c
         /\ \A i \in 1 .. Len(s) : Append(s, c)[i] = s[i]
         /\ \A t \in Text : t \o Append(s, c) = Append(t \o s, c)
<1>1. Append(s, c) \in Text /\ Append(s, c) = s \o <<c>>
  BY AppendProperties, AppendIsConcat DEF Text
<1>2. /\ Len(Append(s, c)) = Len(s) + 1 /\ Append(s, c)[Len(s) + 1] = c /\ Append(s, c) # << >>
      /\ \A i \in 1 .. Len(s) : Append(s, c)[i] = s[i]
  BY AppendProperties DEF Text
<1>3. ASSUME NEW t \in Text PROVE t \o Append(s, c) = Append(t \o s, c)
  <2>1. t \o s \in Text /\ <<c>> \in Text
    BY TextsJoined, Single
  <2>2. Append(t \o s, c) = (t \o s) \o <<c>>
    BY <2>1, AppendIsConcat DEF Text
  <2>. QED
    BY <1>1, <2>1, <2>2, Regroup
<1>. QED
  BY <1>1, <1>2, <1>3

-----------------------------------------------------------------------------
(* The loop of expand, one more character at a time.                       *)

(* What the loop's states are up to n characters. *)
Passes(s, n, text, env) ==
    s = [k \in 0 .. n |-> IF k = 0 THEN Fresh ELSE Read(s[k - 1], text[k], env)]

LEMMA PassesExist ==
  ASSUME NEW text, NEW env
  PROVE  \A n \in Nat : \E s : Passes(s, n, text, env)
<1>. DEFINE N == {n \in Nat : \E s : Passes(s, n, text, env)}
<1>1. 0 \in N
  <2>. DEFINE s == [k \in 0 .. 0 |-> Fresh]
  <2>1. s = [k \in 0 .. 0 |-> IF k = 0 THEN Fresh ELSE Read(s[k - 1], text[k], env)]
    OBVIOUS
  <2>. HIDE DEF s
  <2>. QED
    BY <2>1 DEF Passes
<1>2. ASSUME NEW n \in Nat, n \in N PROVE n + 1 \in N
  <2>1. PICK s : Passes(s, n, text, env)
    BY <1>2
  <2>2. s[0] = Fresh /\ \A k \in 1 .. n : s[k] = Read(s[k - 1], text[k], env)
    BY <2>1 DEF Passes
  <2>. DEFINE r == [k \in 0 .. n + 1 |-> IF k <= n THEN s[k] ELSE Read(s[n], text[k], env)]
  <2>3. \A k \in 0 .. n : r[k] = s[k]
    OBVIOUS
  <2>4. r[n + 1] = Read(r[n], text[n + 1], env)
    BY <2>3
  <2>5. r[0] = Fresh /\ \A k \in 1 .. n : r[k] = Read(r[k - 1], text[k], env)
    BY <2>2, <2>3
  <2>6. r = [k \in 0 .. n + 1 |-> r[k]]
    OBVIOUS
  <2>. HIDE DEF r
  <2>7. \A k \in 0 .. n + 1 : r[k] = IF k = 0 THEN Fresh ELSE Read(r[k - 1], text[k], env)
    BY <2>4, <2>5
  <2>8. Passes(r, n + 1, text, env)
    BY <2>6, <2>7 DEF Passes
  <2>. QED
    BY <2>8
<1>. HIDE DEF N
<1>3. Nat \subseteq N
  BY <1>1, <1>2, Induct
<1>. QED
  BY <1>3 DEF N

(* The states depend on nothing but the characters passed. *)
LEMMA PassesAgree ==
  ASSUME NEW env, NEW n \in Nat, NEW m \in Nat, n <= m, NEW text, NEW longer,
         \A k \in 1 .. n : text[k] = longer[k],
         NEW s, Passes(s, n, text, env), NEW r, Passes(r, m, longer, env)
  PROVE  \A k \in 0 .. n : s[k] = r[k]
<1>. DEFINE N == {k \in Nat : k <= n => s[k] = r[k]}
<1>1. s[0] = Fresh /\ \A k \in 1 .. n : s[k] = Read(s[k - 1], text[k], env)
  BY DEF Passes
<1>2. r[0] = Fresh /\ \A k \in 1 .. m : r[k] = Read(r[k - 1], longer[k], env)
  BY DEF Passes
<1>3. 0 \in N
  BY <1>1, <1>2
<1>4. ASSUME NEW k \in Nat, k \in N PROVE k + 1 \in N
  <2>1. SUFFICES ASSUME k + 1 <= n PROVE s[k + 1] = r[k + 1]
    OBVIOUS
  <2>2. s[k + 1] = Read(s[k], text[k + 1], env) /\ r[k + 1] = Read(r[k], longer[k + 1], env)
    BY <1>1, <1>2, <2>1
  <2>3. s[k] = r[k] /\ text[k + 1] = longer[k + 1]
    BY <1>4, <2>1
  <2>. QED
    BY <2>2, <2>3
<1>. HIDE DEF N
<1>5. Nat \subseteq N
  BY <1>3, <1>4, Induct
<1>. QED
  BY <1>5 DEF N

LEMMA AfterPasses ==
  ASSUME NEW text \in Text, NEW env
  PROVE  Passes(After(text, env), Len(text), text, env)
<1>1. Len(text) \in Nat
  BY LenProperties DEF Text
<1>2. \E s : s = [k \in 0 .. Len(text) |-> IF k = 0 THEN Fresh ELSE Read(s[k - 1], text[k], env)]
  <2>1. \E s : Passes(s, Len(text), text, env)
    BY <1>1, PassesExist
  <2>. QED
    BY <2>1 DEF Passes
<1>. QED
  BY <1>2 DEF After, Passes

(* Where the loop is after a text. *)
Reached(text, env) == After(text, env)[Len(text)]

LEMMA ReachedNothing == ASSUME NEW env PROVE Reached(<< >>, env) = Fresh
<1>1. Passes(After(<< >>, env), 0, << >>, env)
  BY Empty, AfterPasses
<1>. QED
  BY <1>1, Empty DEF Passes, Reached

LEMMA ReachedMore ==
  ASSUME NEW text \in Text, NEW c \in Tokens, NEW env
  PROVE  Reached(Append(text, c), env) = Read(Reached(text, env), c, env)
<1>. DEFINE n == Len(text)
            more == Append(text, c)
<1>1. /\ n \in Nat /\ more \in Text /\ Len(more) = n + 1 /\ more[n + 1] = c
      /\ \A k \in 1 .. n : text[k] = more[k]
  BY Longer, LenProperties DEF Text
<1>2. Passes(After(text, env), n, text, env) /\ Passes(After(more, env), n + 1, more, env)
  BY <1>1, AfterPasses
<1>. HIDE DEF more
<1>3. After(text, env)[n] = After(more, env)[n]
  <2>1. ASSUME NEW m \in Nat, n <= m, Passes(After(more, env), m, more, env)
        PROVE  \A k \in 0 .. n : After(text, env)[k] = After(more, env)[k]
    <3>1. /\ n \in Nat /\ Passes(After(text, env), n, text, env)
          /\ \A k \in 1 .. n : text[k] = more[k]
      BY <1>1, <1>2
    <3>. HIDE DEF n
    <3>. QED
      BY <2>1, <3>1, PassesAgree
  <2>2. n + 1 \in Nat /\ n <= n + 1 /\ n \in 0 .. n
    BY <1>1
  <2>. QED
    BY <1>2, <2>1, <2>2
<1>4. After(more, env)[n + 1] = Read(After(more, env)[n], c, env)
  <2>. DEFINE s == After(more, env)
  <2>1. s = [k \in 0 .. n + 1 |-> IF k = 0 THEN Fresh ELSE Read(s[k - 1], more[k], env)]
    BY <1>2 DEF Passes
  <2>. HIDE DEF s
  <2>2. n + 1 \in 0 .. n + 1 /\ n + 1 # 0 /\ (n + 1) - 1 = n
    BY <1>1
  <2>3. s[n + 1] = Read(s[n], more[n + 1], env)
    BY <2>1, <2>2
  <2>. QED
    BY <1>1, <2>3 DEF s
<1>. QED
  BY <1>1, <1>3, <1>4 DEF Reached, more

-----------------------------------------------------------------------------
(* The text of a sequence of parts, one more part at a time.               *)

LEMMA FlattenText ==
  ASSUME NEW seqs \in Seq(Text), NEW text \in Text
  PROVE  FlattenSeq(Append(seqs, text)) = FlattenSeq(seqs) \o text
BY FlattenMore DEF Text

LEMMA FlattenIsText == \A seqs \in Seq(Text) : FlattenSeq(seqs) \in Text
BY FlattenType DEF Text

-----------------------------------------------------------------------------
(* Parts, and what is made of them.                                        *)

LEMMA PartKinds ==
  ASSUME NEW p \in Parts
  PROVE  \/ /\ p.kind = "text" /\ p.text \in Text /\ p.text # << >> /\ ~ Contains(p.text, "$")
         \/ p.kind = "dollar"
         \/ p.kind = "loose"
         \/ p.kind = "bare" /\ p.name \in Names
         \/ p.kind = "braced" /\ p.name \in Names /\ p.sign = << >> /\ p.word = << >>
         \/ /\ p.kind = "braced" /\ p.name \in Names /\ p.sign \in Signs
            /\ p.word \in Text /\ ~ Contains(p.word, "}")
BY DEF Parts

(* How a part in braces is written. *)
Enclosed(name, sign, word) == <<"$", "{">> \o name \o sign \o word \o <<"}">>

LEMMA WrittenAs ==
  ASSUME NEW p
  PROVE  /\ p.kind = "text" => Written(p) = p.text
         /\ p.kind = "dollar" => Written(p) = <<"$", "$">>
         /\ p.kind = "loose" => Written(p) = <<"$">>
         /\ p.kind = "bare" => Written(p) = <<"$">> \o p.name
         /\ p.kind = "braced" => Written(p) = Enclosed(p.name, p.sign, p.word)
BY DEF Written, Enclosed

LEMMA MarkTokens ==
  /\ "$" \in Tokens /\ "{" \in Tokens /\ "}" \in Tokens
  /\ ":" \in Tokens /\ "-" \in Tokens /\ "+" \in Tokens
BY TokensAssumption

LEMMA SignTexts == << >> \in Text /\ Signs \subseteq Text
BY Empty, Pair, Single, MarkTokens DEF Signs

LEMMA NameTexts == \A name \in Names : name \in Text /\ IsName(name) /\ name # << >>
BY DEF Names, IsName

(* The inside of a pair of braces. *)
LEMMA BracesText ==
  ASSUME NEW name \in Text, NEW sign \in Text, NEW word \in Text
  PROVE  /\ Enclosed(name, sign, word) \in Text
         /\ name \o (sign \o word) \in Text
         /\ Enclosed(name, sign, word) = (<<"$", "{">> \o (name \o (sign \o word))) \o <<"}">>
         /\ Enclosed(name, sign, word) # << >> /\ Enclosed(name, sign, word)[1] = "$"
<1>. DEFINE open == <<"$", "{">>
            close == <<"}">>
<1>1. open \in Text /\ close \in Text /\ Len(open) = 2 /\ open[1] = "$"
  BY Pair, Single, MarkTokens
<1>2. Enclosed(name, sign, word) = (((open \o name) \o sign) \o word) \o close
  BY DEF Enclosed
<1>. HIDE DEF open, close
<1>. DEFINE rest == sign \o word
            inner == name \o rest
            front == open \o inner
            all == front \o close
<1>a. rest \in Text /\ open \o name \in Text
  BY <1>1, TextsJoined
<1>3. ((open \o name) \o sign) \o word = (open \o name) \o rest
  BY <1>a, Regroup, SMTT(30)
<1>. HIDE DEF rest
<1>b. (open \o name) \o rest = open \o inner
  <2>1. open \in Text /\ rest \in Text
    BY <1>1, <1>a
  <2>. QED
    BY <2>1, Regroup, SMTT(30)
<1>4. inner \in Text
  BY <1>a, TextsJoined
<1>. HIDE DEF inner
<1>5. /\ front \in Text /\ Len(front) = 2 + Len(inner) /\ Len(inner) \in Nat /\ front[1] = "$"
  <2>1. /\ front \in Text /\ Len(front) = Len(open) + Len(inner) /\ Len(inner) \in Nat
        /\ \A i \in 1 .. Len(open) : front[i] = open[i]
    BY <1>1, <1>4, TextsJoined
  <2>. QED
    BY <1>1, <2>1
<1>6. all \in Text /\ all # << >> /\ all[1] = "$"
  <2>. HIDE DEF front
  <2>1. /\ all \in Text /\ Len(all) = Len(front) + Len(close) /\ Len(close) \in Nat
        /\ \A i \in 1 .. Len(front) : all[i] = front[i]
    BY <1>1, <1>5, TextsJoined
  <2>. QED
    BY <1>5, <2>1, Empty
<1>. QED
  BY <1>2, <1>3, <1>b, <1>4, <1>6 DEF open, close, rest, inner

LEMMA WrittenIsText ==
  ASSUME NEW p \in Parts
  PROVE  /\ Written(p) \in Text /\ Written(p) # << >>
         /\ p.kind # "text" => Written(p)[1] = "$"
<1>1. CASE p.kind = "text"
  BY <1>1, PartKinds, WrittenAs
<1>2. CASE p.kind = "dollar"
  <2>1. <<"$", "$">> \in Text
    BY Pair, MarkTokens
  <2>2. <<"$", "$">> # << >> /\ <<"$", "$">>[1] = "$"
    OBVIOUS
  <2>. QED
    BY <1>2, <2>1, <2>2, WrittenAs
<1>3. CASE p.kind = "loose"
  <2>1. <<"$">> \in Text
    BY Single, MarkTokens
  <2>2. <<"$">> # << >> /\ <<"$">>[1] = "$"
    OBVIOUS
  <2>. QED
    BY <1>3, <2>1, <2>2, WrittenAs
<1>4. CASE p.kind = "bare"
  <2>1. p.name \in Text /\ <<"$">> \in Text /\ Len(<<"$">>) = 1 /\ <<"$">>[1] = "$"
    BY <1>4, PartKinds, NameTexts, Single, MarkTokens
  <2>. DEFINE w == <<"$">> \o p.name
  <2>2. w \in Text /\ Len(w) = 1 + Len(p.name) /\ Len(p.name) \in Nat /\ w[1] = "$"
    BY <2>1, TextsJoined
  <2>3. Written(p) = w
    BY <1>4, WrittenAs
  <2>. HIDE DEF w
  <2>. QED
    BY <2>2, <2>3, Empty
<1>5. CASE p.kind = "braced"
  <2>1. p.name \in Text /\ p.sign \in Text /\ p.word \in Text
    BY <1>5, PartKinds, NameTexts, SignTexts
  <2>2. Written(p) = Enclosed(p.name, p.sign, p.word)
    BY <1>5, WrittenAs
  <2>. DEFINE w == Enclosed(p.name, p.sign, p.word)
  <2>3. w \in Text /\ w # << >> /\ w[1] = "$"
    BY <2>1, BracesText
  <2>. HIDE DEF w
  <2>. QED
    BY <2>2, <2>3 DEF w
<1>. QED
  BY <1>1, <1>2, <1>3, <1>4, <1>5, PartKinds

LEMMA ValueIsText == ASSUME NEW env, IsEnv(env), NEW name PROVE Value(name, env) \in Text
BY Empty DEF IsEnv, Value

LEMMA MeantIsText ==
  ASSUME NEW p \in Parts, NEW env, IsEnv(env)
  PROVE  Meant(p, env) \in Text
<1>1. \A name : Value(name, env) \in Text
  BY ValueIsText
<1>2. <<"$">> \in Text /\ << >> \in Text
  BY Single, Empty, MarkTokens
<1>3. CASE p.kind = "text"
  <2>1. Meant(p, env) = p.text
    BY <1>3 DEF Meant
  <2>. QED
    BY <1>3, <2>1, PartKinds
<1>4. CASE p.kind \in {"dollar", "loose"}
  <2>1. Meant(p, env) = <<"$">>
    BY <1>4 DEF Meant
  <2>. QED
    BY <1>2, <2>1
<1>5. CASE p.kind = "bare"
  <2>1. Meant(p, env) = Value(p.name, env)
    BY <1>5 DEF Meant
  <2>. QED
    BY <1>1, <2>1
<1>6. CASE p.kind = "braced"
  <2>1. p.word \in Text /\ (p.sign = << >> \/ p.sign \in Signs)
    BY <1>2, <1>6, PartKinds
  <2>. QED
    BY <1>1, <1>2, <1>6, <2>1 DEF Meant, InBraces, Signs
<1>. QED
  BY <1>3, <1>4, <1>5, <1>6, PartKinds

LEMMA TextMore ==
  /\ TextOf(<< >>) = << >>
  /\ \A parts \in Seq(Parts) : \A p \in Parts :
        TextOf(Append(parts, p)) = TextOf(parts) \o Written(p)
  /\ \A parts \in Seq(Parts) : TextOf(parts) \in Text
<1>1. TextOf(<< >>) = << >>
  BY FlattenNothing DEF TextOf
<1>2. ASSUME NEW parts \in Seq(Parts) PROVE [i \in DOMAIN parts |-> Written(parts[i])] \in Seq(Text)
  BY WrittenIsText
<1>3. ASSUME NEW parts \in Seq(Parts), NEW p \in Parts
      PROVE  TextOf(Append(parts, p)) = TextOf(parts) \o Written(p)
  <2>. DEFINE more == Append(parts, p)
              f == [i \in DOMAIN parts |-> Written(parts[i])]
              g == [i \in DOMAIN more |-> Written(more[i])]
  <2>1. more \in Seq(Parts) /\ f \in Seq(Text) /\ g \in Seq(Text) /\ Written(p) \in Text
    BY <1>2, WrittenIsText, AppendProperties
  <2>2. /\ Len(parts) \in Nat /\ DOMAIN parts = 1 .. Len(parts) /\ DOMAIN more = 1 .. Len(parts) + 1
        /\ more[Len(parts) + 1] = p /\ \A i \in 1 .. Len(parts) : more[i] = parts[i]
    BY AppendProperties, LenProperties
  <2>3. Len(f) = Len(parts) /\ Len(g) = Len(parts) + 1
    BY <2>1, <2>2
  <2>4. g[Len(parts) + 1] = Written(p) /\ \A i \in 1 .. Len(parts) : g[i] = f[i]
    BY <2>2
  <2>. HIDE DEF f, g
  <2>5. /\ Append(f, Written(p)) \in Seq(Text) /\ Len(Append(f, Written(p))) = Len(f) + 1
        /\ Append(f, Written(p))[Len(f) + 1] = Written(p)
        /\ \A i \in 1 .. Len(f) : Append(f, Written(p))[i] = f[i]
    BY <2>1, AppendProperties
  <2>6. \A i \in 1 .. Len(g) : g[i] = Append(f, Written(p))[i]
    BY <2>2, <2>3, <2>4, <2>5
  <2>7. g = Append(f, Written(p))
    BY <2>1, <2>3, <2>5, <2>6, SeqEqual
  <2>. QED
    BY <2>1, <2>7, FlattenText DEF TextOf, f, g
<1>. QED
  BY <1>1, <1>2, <1>3, FlattenIsText DEF TextOf

LEMMA SaidMore ==
  ASSUME NEW env, IsEnv(env)
  PROVE  /\ Said(<< >>, env) = << >>
         /\ \A parts \in Seq(Parts) : \A p \in Parts :
               Said(Append(parts, p), env) = Said(parts, env) \o Meant(p, env)
         /\ \A parts \in Seq(Parts) : Said(parts, env) \in Text
<1>1. Said(<< >>, env) = << >>
  BY FlattenNothing DEF Said
<1>2. ASSUME NEW parts \in Seq(Parts) PROVE [i \in DOMAIN parts |-> Meant(parts[i], env)] \in Seq(Text)
  BY MeantIsText
<1>3. ASSUME NEW parts \in Seq(Parts), NEW p \in Parts
      PROVE  Said(Append(parts, p), env) = Said(parts, env) \o Meant(p, env)
  <2>. DEFINE more == Append(parts, p)
              f == [i \in DOMAIN parts |-> Meant(parts[i], env)]
              g == [i \in DOMAIN more |-> Meant(more[i], env)]
              m == Meant(p, env)
  <2>1. more \in Seq(Parts) /\ f \in Seq(Text) /\ g \in Seq(Text) /\ m \in Text
    BY <1>2, MeantIsText, AppendProperties
  <2>2. /\ Len(parts) \in Nat /\ DOMAIN parts = 1 .. Len(parts) /\ DOMAIN more = 1 .. Len(parts) + 1
        /\ more[Len(parts) + 1] = p /\ \A i \in 1 .. Len(parts) : more[i] = parts[i]
    BY AppendProperties, LenProperties
  <2>3. Len(f) = Len(parts) /\ Len(g) = Len(parts) + 1
    BY <2>1, <2>2
  <2>4. g[Len(parts) + 1] = m /\ \A i \in 1 .. Len(parts) : g[i] = f[i]
    BY <2>2
  <2>. HIDE DEF f, g
  <2>5. /\ Append(f, m) \in Seq(Text) /\ Len(Append(f, m)) = Len(f) + 1
        /\ Append(f, m)[Len(f) + 1] = m
        /\ \A i \in 1 .. Len(f) : Append(f, m)[i] = f[i]
    BY <2>1, AppendProperties
  <2>6. \A i \in 1 .. Len(g) : g[i] = Append(f, m)[i]
    BY <2>2, <2>3, <2>4, <2>5
  <2>7. g = Append(f, m)
    BY <2>1, <2>3, <2>5, <2>6, SeqEqual
  <2>. QED
    BY <2>1, <2>7, FlattenText DEF Said, f, g
<1>. QED
  BY <1>1, <1>2, <1>3, FlattenIsText DEF Said

(* A form and a part that may come after it make a form, and every form is made so. *)
Fits(parts, c) == parts = << >> \/ MayFollow(Last(parts), c)

LEMMA FormMore ==
  ASSUME NEW parts \in Seq(Parts), NEW p \in Parts
  PROVE  /\ Append(parts, p) \in Seq(Parts) /\ Append(parts, p) # << >> /\ Last(Append(parts, p)) = p
         /\ IsForm(Append(parts, p)) <=> IsForm(parts) /\ Fits(parts, Written(p)[1])
<1>. DEFINE n == Len(parts)
            more == Append(parts, p)
<1>1. /\ n \in Nat /\ more \in Seq(Parts) /\ more # << >> /\ Len(more) = n + 1 /\ more[n + 1] = p
      /\ \A i \in 1 .. n : more[i] = parts[i]
  BY AppendProperties, LenProperties
<1>. HIDE DEF more
<1>2. Last(more) = p
  BY <1>1 DEF Last
<1>3. IsForm(more) <=> \A i \in 1 .. n : MayFollow(more[i], Written(more[i + 1])[1])
  BY <1>1 DEF IsForm
<1>4. IsForm(parts) <=> \A i \in 1 .. n - 1 : MayFollow(more[i], Written(more[i + 1])[1])
  BY <1>1 DEF IsForm
<1>5. Fits(parts, Written(p)[1]) <=> (n # 0 => MayFollow(more[n], Written(more[n + 1])[1]))
  <2>1. parts = << >> <=> n = 0
    BY EmptySeq
  <2>2. n # 0 => Last(parts) = more[n]
    BY <1>1 DEF Last
  <2>. QED
    BY <1>1, <2>1, <2>2 DEF Fits
<1>6. \A i \in 1 .. n : i \in 1 .. n - 1 \/ i = n
  BY <1>1
<1>. QED
  BY <1>1, <1>2, <1>3, <1>4, <1>5, <1>6 DEF more

LEMMA SomePartsSomeText ==
  ASSUME NEW parts \in Seq(Parts), parts # << >>
  PROVE  TextOf(parts) # << >>
<1>. DEFINE f == Front(parts)
            t == TextOf(f)
            w == Written(Last(parts))
<1>1. f \in Seq(Parts) /\ Last(parts) \in Parts /\ Append(f, Last(parts)) = parts
  BY FrontType
<1>2. TextOf(parts) = t \o w /\ t \in Text
  BY <1>1, TextMore
<1>3. w \in Text /\ Len(w) > 0
  BY <1>1, WrittenIsText, Empty, LenProperties, EmptySeq DEF Text
<1>. HIDE DEF t, w
<1>4. Len(t \o w) = Len(t) + Len(w) /\ Len(t) \in Nat /\ Len(w) \in Nat
  BY <1>2, <1>3, TextsJoined
<1>. QED
  BY <1>2, <1>3, <1>4, Empty

LEMMA NoPartsIsForm == IsForm(<< >>)
BY EmptySeq DEF IsForm

-----------------------------------------------------------------------------
(* The loop, state by state.                                               *)

Clean(out) == State("text", << >>, out)

LEMMA FreshIsClean == Fresh = Clean(<< >>)
BY DEF Fresh, Clean

LEMMA Fields ==
  ASSUME NEW in, NEW held, NEW out
  PROVE  /\ State(in, held, out).in = in
         /\ State(in, held, out).held = held
         /\ State(in, held, out).out = out
BY DEF State

LEMMA PutClean ==
  ASSUME NEW in, NEW held, NEW out, NEW x
  PROVE  Put(State(in, held, out), x) = Clean(out \o x)
BY Fields DEF Put, Clean

LEMMA HoldMore ==
  ASSUME NEW in, NEW held, NEW out, NEW c
  PROVE  Hold(State(in, held, out), c) = State(in, Append(held, c), out)
BY Fields DEF Hold

LEMMA ReadText ==
  ASSUME NEW out, NEW c, NEW env
  PROVE  /\ c = "$" => Read(Clean(out), c, env) = State("dollar", << >>, out)
         /\ c # "$" => Read(Clean(out), c, env) = Clean(out \o <<c>>)
         /\ Read(Clean(out), c, env) = Plain(Clean(out), c)
<1>1. Read(Clean(out), c, env) = Plain(Clean(out), c)
  BY Fields DEF Read, Clean
<1>2. c = "$" => Plain(Clean(out), c) = State("dollar", << >>, out)
  BY Fields DEF Plain, Clean
<1>3. c # "$" => Plain(Clean(out), c) = Clean(out \o <<c>>)
  BY PutClean DEF Plain, Clean
<1>. QED
  BY <1>1, <1>2, <1>3

LEMMA ReadDollar ==
  ASSUME NEW out, NEW c, NEW env, NEW s, s = Read(State("dollar", << >>, out), c, env)
  PROVE  /\ c = "$" => s = Clean(out \o <<"$">>)
         /\ c = "{" => s = State("brace", << >>, out)
         /\ IsNameStart(c) => s = State("name", <<c>>, out)
         /\ c \notin {"$", "{"} /\ ~ IsNameStart(c) => s = Clean(out \o <<"$", c>>)
<1>. DEFINE d == State("dollar", << >>, out)
<1>1. s = AfterDollar(d, c)
  BY Fields DEF Read
<1>2. (c = "$" => ~ IsNameStart(c)) /\ (c = "{" => ~ IsNameStart(c))
  BY TokensAssumption, Zenon DEF IsNameStart
<1>3. d.out = out /\ \A x : Put(d, x) = Clean(out \o x)
  BY Fields, PutClean
<1>. HIDE DEF d
<1>4. /\ c = "$" => s = Put(d, <<"$">>)
      /\ c = "{" => s = State("brace", << >>, out)
      /\ IsNameStart(c) => s = State("name", <<c>>, out)
      /\ c \notin {"$", "{"} /\ ~ IsNameStart(c) => s = Put(d, <<"$", c>>)
  BY <1>1, <1>2, <1>3 DEF AfterDollar
<1>. QED
  BY <1>3, <1>4

(* The brace that ends a name (the SMT solver takes no braces). *)
Closes(c) == c = "}"

LEMMA ReadBrace ==
  ASSUME NEW held, NEW out, NEW c, NEW env
  PROVE  LET s == Read(State("brace", held, out), c, env)
         IN  /\ ~ Closes(c) => s = State("brace", Append(held, c), out)
             /\ Closes(c) /\ Refuses(Braced(held)) => s.in = "refused"
             /\ Closes(c) /\ ~ Refuses(Braced(held)) => s = Clean(out \o Substituted(Braced(held), env))
<1>. DEFINE s == Read(State("brace", held, out), c, env)
            d == State("brace", held, out)
<1>1. s = InBrace(d, c, env)
  BY Fields DEF Read
<1>2. /\ d.held = held /\ \A x : Put(d, x) = Clean(out \o x)
      /\ Hold(d, c) = State("brace", Append(held, c), out)
      /\ Refuse(d).in = "refused"
  BY Fields, PutClean, HoldMore DEF Refuse
<1>. HIDE DEF d, s
<1>3. /\ ~ Closes(c) => InBrace(d, c, env) = Hold(d, c)
      /\ Closes(c) /\ Refuses(Braced(d.held)) => InBrace(d, c, env) = Refuse(d)
      /\ Closes(c) /\ ~ Refuses(Braced(d.held)) => InBrace(d, c, env) = Put(d, Substituted(Braced(d.held), env))
  BY Zenon DEF InBrace, Closes
<1>4. /\ ~ Closes(c) => s = State("brace", Append(held, c), out)
      /\ Closes(c) /\ Refuses(Braced(held)) => s.in = "refused"
      /\ Closes(c) /\ ~ Refuses(Braced(held)) => s = Clean(out \o Substituted(Braced(held), env))
  BY <1>1, <1>2, <1>3
<1>. QED
  BY <1>4 DEF s

LEMMA ReadName ==
  ASSUME NEW held, NEW out, NEW c, NEW env, NEW s, s = Read(State("name", held, out), c, env)
  PROVE  /\ IsNameChar(c) => s = State("name", Append(held, c), out)
         /\ ~ IsNameChar(c) => s = Read(Clean(out \o Value(held, env)), c, env)
<1>. DEFINE d == State("name", held, out)
<1>1. s = InName(d, c, env)
  BY Fields DEF Read
<1>2. /\ d.held = held /\ \A x : Put(d, x) = Clean(out \o x)
      /\ Hold(d, c) = State("name", Append(held, c), out)
  BY Fields, PutClean, HoldMore
<1>. HIDE DEF d
<1>3. /\ IsNameChar(c) => s = Hold(d, c)
      /\ ~ IsNameChar(c) => s = Plain(Put(d, Value(held, env)), c)
  BY <1>1, <1>2 DEF InName
<1>4. \A o : Plain(Clean(o), c) = Read(Clean(o), c, env)
  BY ReadText
<1>. QED
  BY <1>2, <1>3, <1>4

LEMMA EndedAs ==
  ASSUME NEW held, NEW out, NEW env
  PROVE  /\ Ended(Clean(out), env) = Clean(out)
         /\ Ended(State("dollar", << >>, out), env) = Clean(out \o <<"$">>)
         /\ Ended(State("name", held, out), env) = Clean(out \o Value(held, env))
         /\ Ended(State("brace", held, out), env).in = "refused"
<1>1. Ended(Clean(out), env) = Clean(out)
  BY Fields DEF Ended, Clean
<1>2. Ended(State("dollar", << >>, out), env) = Put(State("dollar", << >>, out), <<"$">>)
  BY Fields DEF Ended
<1>3. Ended(State("name", held, out), env) = Put(State("name", held, out), Value(held, env))
  BY Fields DEF Ended
<1>4. Ended(State("brace", held, out), env) = Refuse(State("brace", held, out))
  BY Fields DEF Ended
<1>5. Ended(State("brace", held, out), env).in = "refused"
  BY <1>4, Fields DEF Refuse
<1>. QED
  BY <1>1, <1>2, <1>3, <1>5, PutClean

(* A text that is refused stays so. *)
LEMMA RefusedStays ==
  ASSUME NEW s, s.in = "refused", NEW c, NEW env
  PROVE  Read(s, c, env) = s /\ Ended(s, env) = s
BY DEF Read, Ended

(* Several characters at once: h is what the states are to be.  The first step need only come out *)
(* as it would from h[0].                                                                         *)
LEMMA ReadOn ==
  ASSUME NEW t \in Text, NEW x \in Text, x # << >>, NEW env, NEW h,
         Read(Reached(t, env), x[1], env) = Read(h[0], x[1], env),
         \A n \in 0 .. Len(x) - 1 : Read(h[n], x[n + 1], env) = h[n + 1]
  PROVE  Reached(t \o x, env) = h[Len(x)]
<1>1. Len(x) \in Nat /\ Len(x) > 0 /\ DOMAIN x = 1 .. Len(x) /\ \A i \in 1 .. Len(x) : x[i] \in Tokens
  BY LenProperties, EmptySeq, ElementOfSeq DEF Text
<1>. DEFINE pre(n) == SubSeq(x, 1, n)
            N == {n \in Nat : n + 1 <= Len(x) => Reached(t \o pre(n + 1), env) = h[n + 1]}
<1>2. \A n \in 0 .. Len(x) : pre(n) \in Text /\ Len(pre(n)) = n /\ \A i \in 1 .. n : pre(n)[i] = x[i]
  BY <1>1, SubSeqProperties DEF Text
<1>3. \A n \in 0 .. Len(x) - 1 : pre(n + 1) = Append(pre(n), x[n + 1])
  <2>1. SUFFICES ASSUME NEW n \in 0 .. Len(x) - 1 PROVE pre(n + 1) = Append(pre(n), x[n + 1])
    OBVIOUS
  <2>2. /\ pre(n + 1) \in Text /\ Len(pre(n + 1)) = n + 1 /\ \A i \in 1 .. n + 1 : pre(n + 1)[i] = x[i]
        /\ pre(n) \in Text /\ Len(pre(n)) = n /\ \A i \in 1 .. n : pre(n)[i] = x[i]
        /\ x[n + 1] \in Tokens /\ n \in Nat
    BY <1>1, <1>2
  <2>. DEFINE a == pre(n + 1)
              b == Append(pre(n), x[n + 1])
  <2>. HIDE DEF pre
  <2>a. /\ b \in Text /\ Len(b) = Len(pre(n)) + 1 /\ b[Len(pre(n)) + 1] = x[n + 1]
        /\ \A i \in 1 .. Len(pre(n)) : b[i] = pre(n)[i]
    BY <2>2, Longer
  <2>3. b \in Text /\ Len(b) = n + 1 /\ b[n + 1] = x[n + 1] /\ \A i \in 1 .. n : b[i] = x[i]
    BY <2>2, <2>a
  <2>4. \A i \in 1 .. Len(a) : a[i] = b[i]
    BY <2>2, <2>3
  <2>. QED
    BY <2>2, <2>3, <2>4, SeqEqual DEF Text
<1>. HIDE DEF pre
<1>4. ASSUME NEW n \in 0 .. Len(x) - 1
      PROVE  Reached(t \o pre(n + 1), env) = Read(Reached(t \o pre(n), env), x[n + 1], env)
  <2>1. pre(n) \in Text /\ x[n + 1] \in Tokens /\ pre(n + 1) = Append(pre(n), x[n + 1])
    BY <1>1, <1>2, <1>3
  <2>a. \A s \in Text : \A c \in Tokens : t \o Append(s, c) = Append(t \o s, c)
    BY Longer
  <2>2. t \o pre(n + 1) = Append(t \o pre(n), x[n + 1]) /\ t \o pre(n) \in Text
    BY <2>1, <2>a, TextsJoined, ZenonT(60)
  <2>. QED
    BY <2>1, <2>2, ReachedMore
<1>5. 0 \in N
  <2>1. pre(0) = << >> /\ t \o << >> = t
    BY <1>1, <1>2, EmptySeq, TextsJoined DEF Text
  <2>2. 0 \in 0 .. Len(x) - 1 /\ 0 + 1 = 1
    BY <1>1
  <2>. QED
    BY <1>4, <2>1, <2>2
<1>6. ASSUME NEW n \in Nat, n \in N PROVE n + 1 \in N
  <2>1. SUFFICES ASSUME n + 1 + 1 <= Len(x) PROVE Reached(t \o pre(n + 1 + 1), env) = h[n + 1 + 1]
    OBVIOUS
  <2>2. n + 1 \in 0 .. Len(x) - 1 /\ n + 1 <= Len(x)
    BY <1>1, <2>1
  <2>. QED
    BY <1>4, <1>6, <2>2
<1>. HIDE DEF N
<1>7. Nat \subseteq N
  BY <1>5, <1>6, Induct
<1>8. Reached(t \o pre(Len(x)), env) = h[Len(x)]
  <2>1. Len(x) - 1 \in Nat /\ (Len(x) - 1) + 1 = Len(x)
    BY <1>1
  <2>. QED
    BY <1>7, <2>1 DEF N
<1>9. pre(Len(x)) = x
  BY SubSeqFull DEF pre, Text
<1>. QED
  BY <1>8, <1>9

-----------------------------------------------------------------------------
(* What has the form of a substitution is read as one.                     *)

LEMMA TailOf ==
  ASSUME NEW c \in Tokens, NEW w \in Text
  PROVE  /\ <<c>> \o w \in Text /\ <<c>> \o w # << >> /\ (<<c>> \o w)[1] = c /\ Tail(<<c>> \o w) = w
         /\ Len(<<c>> \o w) = 1 + Len(w) /\ \A i \in 1 .. Len(w) : (<<c>> \o w)[1 + i] = w[i]
<1>. DEFINE x == <<c>> \o w
<1>1. <<c>> \in Text /\ Len(<<c>>) = 1 /\ <<c>>[1] = c
  BY Single
<1>2. /\ x \in Text /\ Len(x) = 1 + Len(w) /\ Len(w) \in Nat /\ x[1] = c
      /\ \A i \in 1 .. Len(w) : x[1 + i] = w[i]
  BY <1>1, TextsJoined
<1>. HIDE DEF x
<1>3. x # << >>
  BY <1>2, Empty
<1>4. Tail(x) \in Text /\ Len(Tail(x)) = Len(w) /\ \A i \in 1 .. Len(w) : Tail(x)[i] = w[i]
  BY <1>2, <1>3, HeadTailProperties DEF Text
<1>5. Tail(x) = w
  BY <1>2, <1>4, SeqEqual DEF Text
<1>. QED
  BY <1>2, <1>3, <1>5 DEF x

LEMMA NameMarks == \A name \in Names : \A i \in 1 .. Len(name) : name[i] \notin {":", "-", "+", "}", "$"}
<1>. SUFFICES ASSUME NEW name \in Names, NEW i \in 1 .. Len(name)
              PROVE  name[i] \notin {":", "-", "+", "}", "$"}
  OBVIOUS
<1>1. i \in DOMAIN name
  BY NameTexts, LenProperties DEF Text
<1>. QED
  BY <1>1, NameTexts, TokensAssumption, Zenon DEF IsName, IsNameChar

LEMMA SignStarts ==
  ASSUME NEW sign \in Signs, NEW word \in Text
  PROVE  LET rest == sign \o word
             signed == IF rest[1] = ":" THEN Tail(rest) ELSE rest
         IN  /\ rest \in Text /\ rest # << >> /\ Len(rest) > 0 /\ rest[1] \in {":", "-", "+"}
             /\ (rest[1] = ":") = (sign \in {<<":", "-">>, <<":", "+">>})
             /\ signed # << >> /\ Tail(signed) = word
             /\ signed[1] = IF sign \in {<<":", "-">>, <<"-">>} THEN "-" ELSE "+"
<1>1. /\ sign \o word \in Text
      /\ \A c \in Tokens : <<c>> \o word \in Text
  BY SignTexts, Single, TextsJoined
<1>2. ASSUME NEW c \in {"-", "+"}, sign = <<c>>
      PROVE  LET rest == sign \o word
             IN rest[1] = c /\ rest # << >> /\ Len(rest) > 0 /\ Tail(rest) = word
  <2>1. c \in Tokens
    BY <1>2, MarkTokens
  <2>2. Len(word) \in Nat
    BY LenProperties DEF Text
  <2>. QED
    BY <1>2, <2>1, <2>2, TailOf
<1>3. ASSUME NEW c \in {"-", "+"}, sign = <<":", c>>
      PROVE  LET rest == sign \o word
             IN  /\ rest[1] = ":" /\ rest # << >> /\ Len(rest) > 0 /\ Tail(rest) = <<c>> \o word
                 /\ Tail(rest) # << >> /\ Tail(rest)[1] = c /\ Tail(Tail(rest)) = word
  <2>1. c \in Tokens /\ ":" \in Tokens
    BY <1>3, MarkTokens
  <2>. DEFINE w == <<c>> \o word
  <2>2. w \in Text /\ w # << >> /\ w[1] = c /\ Tail(w) = word /\ Len(w) \in Nat
    <3>1. Len(word) \in Nat
      BY LenProperties DEF Text
    <3>. QED
      BY <2>1, <3>1, TailOf
  <2>3. sign \o word = <<":">> \o w
    <3>1. <<":", c>> = <<":">> \o <<c>>
      OBVIOUS
    <3>2. <<":">> \in Text /\ <<c>> \in Text
      BY <2>1, Single
    <3>. QED
      BY <1>3, <3>1, <3>2, Regroup
  <2>. HIDE DEF w
  <2>4. LET x == <<":">> \o w IN x # << >> /\ x[1] = ":" /\ Tail(x) = w /\ Len(x) > 0
    BY <2>1, <2>2, TailOf
  <2>. QED
    BY <2>2, <2>3, <2>4 DEF w
<1>4. CASE sign = <<"-">>
  <2>1. sign \notin {<<":", "-">>, <<":", "+">>}
    BY <1>4
  <2>. QED
    BY <1>1, <1>2, <1>4, <2>1
<1>5. CASE sign = <<"+">>
  <2>1. sign \notin {<<":", "-">>, <<":", "+">>, <<"-">>}
    BY <1>5
  <2>. QED
    BY <1>1, <1>2, <1>5, <2>1
<1>6. CASE sign = <<":", "-">>
  BY <1>1, <1>3, <1>6
<1>7. CASE sign = <<":", "+">>
  <2>1. sign \notin {<<":", "-">>, <<"-">>}
    BY <1>7
  <2>. QED
    BY <1>1, <1>3, <1>7, <2>1
<1>. QED
  BY <1>4, <1>5, <1>6, <1>7 DEF Signs

LEMMA BracedSigned ==
  ASSUME NEW name \in Names, NEW sign \in Signs, NEW word \in Text,
         NEW b, b = Braced(name \o (sign \o word))
  PROVE  /\ b.name = name /\ b.word = word
         /\ b.colon = (sign \in {<<":", "-">>, <<":", "+">>})
         /\ b.sign = IF sign \in {<<":", "-">>, <<"-">>} THEN "-" ELSE "+"
<1>. DEFINE rest == sign \o word
            inner == name \o rest
            n == Len(name)
            signed == IF rest[1] = ":" THEN Tail(rest) ELSE rest
<1>1. /\ rest \in Text /\ rest # << >> /\ Len(rest) > 0 /\ rest[1] \in {":", "-", "+"}
      /\ (rest[1] = ":") = (sign \in {<<":", "-">>, <<":", "+">>})
      /\ signed # << >> /\ Tail(signed) = word
      /\ signed[1] = IF sign \in {<<":", "-">>, <<"-">>} THEN "-" ELSE "+"
  BY SignStarts
<1>. HIDE DEF rest
<1>2. name \in Text
  BY NameTexts
<1>3. /\ inner \in Text /\ n \in Nat /\ Len(rest) \in Nat /\ Len(inner) = n + Len(rest)
      /\ DOMAIN inner = 1 .. n + Len(rest)
      /\ \A i \in 1 .. n : inner[i] = name[i]
      /\ \A i \in 1 .. Len(rest) : inner[n + i] = rest[i]
  <2>1. inner \in Text
    BY <1>1, <1>2, TextsJoined
  <2>2. DOMAIN inner = 1 .. Len(inner)
    BY <2>1, LenProperties DEF Text
  <2>. QED
    BY <1>1, <1>2, <2>1, <2>2, TextsJoined
<1>4. name \o (sign \o word) = inner
  BY DEF rest
<1>. HIDE DEF n
<1>5. NameEnd(inner) = n + 1
  <2>. DEFINE marks == {i \in DOMAIN inner : inner[i] \in {":", "-", "+"}}
  <2>. HIDE DEF inner
  <2>1. n + 1 \in marks
    BY <1>1, <1>3
  <2>2. ASSUME NEW i \in marks PROVE n + 1 <= i
    <3>1. i \in 1 .. n + Len(rest) /\ inner[i] \in {":", "-", "+"}
      BY <1>3
    <3>2. \A k \in 1 .. n : name[k] \notin {":", "-", "+"}
      BY NameMarks DEF n
    <3>3. i \notin 1 .. n
      BY <1>3, <3>1, <3>2
    <3>. QED
      BY <1>3, <3>1, <3>3
  <2>3. (CHOOSE i \in marks : \A j \in marks : i <= j) = n + 1
    <3>1. \A i \in marks : i \in Int
      BY <1>3
    <3>. HIDE DEF marks
    <3>. QED
      BY <2>1, <2>2, <3>1, <1>3
  <2>. QED
    BY <2>1, <2>3 DEF NameEnd
<1>6. SubSeq(inner, n + 1, Len(inner)) = rest
  <2>1. /\ n + 1 \in Len(name) + 1 .. Len(name) + Len(rest)
        /\ n + Len(rest) \in Len(name) + 1 .. Len(name) + Len(rest)
    BY <1>1, <1>3 DEF n
  <2>2. ASSUME NEW i, NEW j, i = n + 1, j = n + Len(rest)
        PROVE  SubSeq(inner, i, j) = SubSeq(rest, i - Len(name), j - Len(name))
    <3>1. i \in Len(name) + 1 .. Len(name) + Len(rest) /\ j \in Len(name) + 1 .. Len(name) + Len(rest)
      BY <2>1, <2>2
    <3>. QED
      BY <1>1, <1>2, <3>1, SubSeqOfConcat2 DEF Text
  <2>3. (n + 1) - Len(name) = 1 /\ (n + Len(rest)) - Len(name) = Len(rest)
    BY <1>3 DEF n
  <2>4. SubSeq(rest, 1, Len(rest)) = rest
    BY <1>1, SubSeqFull DEF Text
  <2>. HIDE DEF inner
  <2>5. SubSeq(inner, n + 1, n + Len(rest)) = SubSeq(rest, (n + 1) - Len(name), (n + Len(rest)) - Len(name))
    BY <2>2
  <2>. QED
    BY <1>3, <2>3, <2>4, <2>5
<1>7. SubSeq(inner, 1, (n + 1) - 1) = name
  <2>1. Len(name) > 0
    BY <1>2, NameTexts, EmptySeq DEF Text
  <2>2. 1 \in 1 .. Len(name) /\ n \in 1 .. Len(name) /\ (n + 1) - 1 = n
    BY <1>3, <2>1 DEF n
  <2>3. SubSeq(inner, 1, n) = SubSeq(name, 1, n)
    BY <1>1, <1>2, <2>2, SubSeqOfConcat1 DEF Text
  <2>4. SubSeq(name, 1, n) = name
    BY <1>2, SubSeqFull DEF n, Text
  <2>. QED
    BY <2>2, <2>3, <2>4
<1>8. /\ b.name = SubSeq(inner, 1, (n + 1) - 1)
      /\ b.colon = (rest # << >> /\ rest[1] = ":")
      /\ b.sign = (IF signed = << >> THEN "" ELSE signed[1])
      /\ b.word = (IF signed = << >> THEN << >> ELSE Tail(signed))
  <2>. HIDE DEF inner
  <2>. QED
    BY <1>1, <1>4, <1>5, <1>6 DEF Braced
<1>. QED
  BY <1>1, <1>7, <1>8

LEMMA BracedPlain ==
  ASSUME NEW name \in Names, NEW b, b = Braced(name)
  PROVE  b.name = name /\ b.word = << >> /\ b.colon = FALSE /\ b.sign = ""
<1>. DEFINE n == Len(name)
<1>1. name \in Text /\ n \in Nat /\ DOMAIN name = 1 .. n
  BY NameTexts, LenProperties DEF Text
<1>2. {i \in DOMAIN name : name[i] \in {":", "-", "+"}} = {}
  BY <1>1, NameMarks
<1>3. NameEnd(name) = n + 1
  BY <1>2 DEF NameEnd
<1>. HIDE DEF n
<1>4. SubSeq(name, n + 1, Len(name)) = << >>
  BY <1>1, SubSeqEmpty DEF n
<1>5. SubSeq(name, 1, (n + 1) - 1) = name
  <2>1. (n + 1) - 1 = n
    BY <1>1
  <2>. QED
    BY <1>1, <2>1, SubSeqFull DEF n, Text
<1>. QED
  BY <1>3, <1>4, <1>5 DEF Braced

LEMMA BracedForm ==
  ASSUME NEW p \in Parts, p.kind = "braced", NEW env
  PROVE  LET b == Braced(p.name \o (p.sign \o p.word))
         IN  ~ Refuses(b) /\ Substituted(b, env) = Meant(p, env)
<1>. DEFINE name == p.name
            b == Braced(p.name \o (p.sign \o p.word))
            set == name \in DOMAIN env
            value == Value(name, env)
<1>1. name \in Names /\ IsName(name) /\ name \in Text
  BY PartKinds, NameTexts
<1>2. Meant(p, env) = InBraces(p, env)
  BY DEF Meant
<1>3. value = IF set THEN env[name] ELSE << >>
  BY DEF Value
<1>4. CASE p.sign = << >> /\ p.word = << >>
  <2>1. p.name \o (p.sign \o p.word) = name
    <3>1. << >> \o << >> = << >>
      BY Empty, TextsJoined
    <3>. QED
      BY <1>1, <1>4, <3>1, Empty, TextsJoined
  <2>2. b.name = name /\ b.word = << >> /\ b.colon = FALSE /\ b.sign = ""
    BY <1>1, <2>1, BracedPlain
  <2>3. ~ Refuses(b)
    BY <1>1, <2>2 DEF Refuses
  <2>4. Substituted(b, env) = IF set THEN env[name] ELSE << >>
    BY <2>2 DEF Substituted, Present
  <2>5. InBraces(p, env) = value
    BY <1>4 DEF InBraces, Signs
  <2>. QED
    BY <1>2, <1>3, <2>3, <2>4, <2>5
<1>5. CASE p.sign \in Signs /\ p.word \in Text
  <2>1. /\ b.name = name /\ b.word = p.word
        /\ b.colon = (p.sign \in {<<":", "-">>, <<":", "+">>})
        /\ b.sign = IF p.sign \in {<<":", "-">>, <<"-">>} THEN "-" ELSE "+"
    BY <1>1, <1>5, BracedSigned
  <2>2. ~ Refuses(b)
    BY <1>1, <2>1 DEF Refuses
  <2>. HIDE DEF b
  <2>3. CASE p.sign = <<":", "-">>
    <3>1. b.colon = TRUE /\ b.sign = "-"
      BY <2>1, <2>3
    <3>2. Substituted(b, env) = IF set /\ env[name] # << >> THEN env[name] ELSE p.word
      BY <2>1, <3>1 DEF Substituted, Present
    <3>3. InBraces(p, env) = IF value = << >> THEN p.word ELSE value
      BY <2>3 DEF InBraces
    <3>. QED
      BY <1>2, <1>3, <2>2, <3>2, <3>3 DEF b
  <2>4. CASE p.sign = <<"-">>
    <3>0. (p.sign \in {<<":", "-">>, <<":", "+">>}) = FALSE /\ p.sign \in {<<":", "-">>, <<"-">>}
      BY <2>4
    <3>a. b.colon = FALSE
      BY <2>1, <3>0, Zenon
    <3>b. b.sign = "-"
      BY <2>1, <3>0
    <3>1. b.colon = FALSE /\ b.sign = "-"
      BY <3>a, <3>b
    <3>2. Substituted(b, env) = IF set THEN env[name] ELSE p.word
      BY <2>1, <3>1 DEF Substituted, Present
    <3>3. InBraces(p, env) = IF set THEN value ELSE p.word
      BY <2>4 DEF InBraces
    <3>. QED
      BY <1>2, <1>3, <2>2, <3>2, <3>3 DEF b
  <2>5. CASE p.sign = <<":", "+">>
    <3>0. p.sign \notin {<<":", "-">>, <<"-">>}
      BY <2>5
    <3>1. b.colon = TRUE /\ b.sign = "+"
      BY <2>1, <2>5, <3>0
    <3>2. Substituted(b, env) = IF set /\ env[name] # << >> THEN p.word ELSE << >>
      BY <2>1, <3>1 DEF Substituted, Present
    <3>3. InBraces(p, env) = IF value = << >> THEN << >> ELSE p.word
      BY <2>5 DEF InBraces
    <3>. QED
      BY <1>2, <1>3, <2>2, <3>2, <3>3 DEF b
  <2>6. CASE p.sign = <<"+">>
    <3>0. (p.sign \in {<<":", "-">>, <<":", "+">>}) = FALSE /\ p.sign \notin {<<":", "-">>, <<"-">>}
      BY <2>6
    <3>a. b.colon = FALSE
      BY <2>1, <3>0, Zenon
    <3>b. b.sign = "+"
      BY <2>1, <3>0
    <3>1. b.colon = FALSE /\ b.sign = "+"
      BY <3>a, <3>b
    <3>2. Substituted(b, env) = IF set THEN p.word ELSE << >>
      BY <2>1, <3>1 DEF Substituted, Present
    <3>3. InBraces(p, env) = IF set THEN p.word ELSE << >>
      BY <2>6 DEF InBraces
    <3>. QED
      BY <1>2, <1>3, <2>2, <3>2, <3>3 DEF b
  <2>. QED
    BY <1>5, <2>3, <2>4, <2>5, <2>6 DEF Signs
<1>. QED
  BY <1>4, <1>5, PartKinds

-----------------------------------------------------------------------------
(* A text of one of the forms expands to what dinit makes of it.           *)

(* Where the loop is after some parts: a name may still go on, and a dollar still be something else. *)
Stands(parts, env) ==
    LET s == Reached(TextOf(parts), env)
        o == Said(parts, env)
        p == Last(parts)
    IN  \/ s = Clean(o)
        \/ /\ parts # << >> /\ p.kind = "bare"
           /\ \E q \in Text : s = State("name", p.name, q) /\ o = q \o Value(p.name, env)
        \/ /\ parts # << >> /\ p.kind = "loose"
           /\ \E q \in Text : s = State("dollar", << >>, q) /\ o = q \o <<"$">>

(* The beginnings of a text. *)
LEMMA Beginnings ==
  ASSUME NEW x \in Text
  PROVE  /\ Len(x) \in Nat /\ DOMAIN x = 1 .. Len(x) /\ \A i \in 1 .. Len(x) : x[i] \in Tokens
         /\ (x # << >> <=> Len(x) > 0)
         /\ SubSeq(x, 1, 0) = << >> /\ SubSeq(x, 1, Len(x)) = x
         /\ \A n \in 0 .. Len(x) : SubSeq(x, 1, n) \in Text
         /\ \A n \in 0 .. Len(x) - 1 : /\ n + 1 \in 1 .. Len(x)
                                      /\ SubSeq(x, 1, n + 1) = Append(SubSeq(x, 1, n), x[n + 1])
<1>1. /\ Len(x) \in Nat /\ DOMAIN x = 1 .. Len(x) /\ \A i \in 1 .. Len(x) : x[i] \in Tokens
      /\ (x # << >> <=> Len(x) > 0)
  BY LenProperties, EmptySeq, ElementOfSeq DEF Text
<1>2. \A n \in 0 .. Len(x) : SubSeq(x, 1, n) \in Text
  BY <1>1, SubSeqProperties DEF Text
<1>3. SubSeq(x, 1, 0) = << >>
  <2>1. 0 < 1 /\ 0 \in Int /\ 1 \in Int
    OBVIOUS
  <2>. QED
    BY <2>1, SubSeqEmpty DEF Text
<1>4. ASSUME NEW n \in 0 .. Len(x) - 1
      PROVE  n + 1 \in 1 .. Len(x) /\ SubSeq(x, 1, n + 1) = Append(SubSeq(x, 1, n), x[n + 1])
  <2>1. 1 \in 1 .. Len(x) /\ n + 1 \in 1 .. Len(x) /\ (n + 1) - 1 = n /\ n \in 0 .. Len(x)
    BY <1>1
  <2>2. SubSeq(x, 1, n + 1) = SubSeq(x, 1, n) \o <<x[n + 1]>>
    BY <2>1, SubSeqRecursiveSecond DEF Text
  <2>3. SubSeq(x, 1, n) \in Text /\ x[n + 1] \in Tokens
    BY <1>1, <1>2, <2>1
  <2>4. Append(SubSeq(x, 1, n), x[n + 1]) = SubSeq(x, 1, n) \o <<x[n + 1]>>
    BY <2>3, Longer
  <2>. QED
    BY <2>1, <2>2, <2>4
<1>5. SubSeq(x, 1, Len(x)) = x
  BY SubSeqFull DEF Text
<1>. QED
  BY <1>1, <1>2, <1>3, <1>4, <1>5

LEMMA PairIsTwo == ASSUME NEW c \in Tokens, NEW d \in Tokens PROVE <<c, d>> = Append(<<c>>, d) /\ <<c>> \o <<d>> = <<c, d>>
<1>1. \A S : \A x, y \in S : <<x, y>> = Append(<<x>>, y)
  OBVIOUS
<1>2. <<c>> \in Text
  BY Single
<1>3. Append(<<c>>, d) = <<c>> \o <<d>>
  BY <1>2, Longer
<1>. QED
  BY <1>1, <1>3

(* What comes next is read as if the parts before it were done with. *)
LEMMA NextCharacter ==
  ASSUME NEW parts \in Seq(Parts), NEW env, Stands(parts, env), NEW c \in Tokens, Fits(parts, c)
  PROVE  Read(Reached(TextOf(parts), env), c, env) = Read(Clean(Said(parts, env)), c, env)
<1>. DEFINE s == Reached(TextOf(parts), env)
            o == Said(parts, env)
            p == Last(parts)
<1>1. CASE s = Clean(o)
  BY <1>1
<1>2. ASSUME parts # << >>, p.kind = "bare",
             NEW q \in Text, s = State("name", p.name, q), o = q \o Value(p.name, env)
      PROVE  Read(s, c, env) = Read(Clean(o), c, env)
  <2>1. ~ IsNameChar(c)
    BY <1>2 DEF Fits, MayFollow
  <2>. QED
    BY <1>2, <2>1, ReadName
<1>3. ASSUME parts # << >>, p.kind = "loose",
             NEW q \in Text, s = State("dollar", << >>, q), o = q \o <<"$">>
      PROVE  Read(s, c, env) = Read(Clean(o), c, env)
  <2>1. c \notin {"$", "{"} /\ ~ IsNameStart(c)
    BY <1>3 DEF Fits, MayFollow
  <2>2. Read(s, c, env) = Clean(q \o <<"$", c>>)
    BY <1>3, <2>1, ReadDollar
  <2>3. Read(Clean(o), c, env) = Clean(o \o <<c>>)
    BY <2>1, ReadText
  <2>4. o \o <<c>> = q \o <<"$", c>>
    <3>1. <<"$">> \in Text /\ <<c>> \in Text
      BY Single, MarkTokens
    <3>2. <<"$">> \o <<c>> = <<"$", c>>
      BY PairIsTwo, MarkTokens
    <3>3. (q \o <<"$">>) \o <<c>> = q \o (<<"$">> \o <<c>>)
      BY <3>1, Regroup
    <3>. QED
      BY <1>3, <3>2, <3>3
  <2>. QED
    BY <2>2, <2>3, <2>4
<1>. QED
  BY <1>1, <1>2, <1>3 DEF Stands

(* The parts one by one, from where their first character is read as in clean text. *)
LEMMA TextRead ==
  ASSUME NEW t \in Text, NEW o \in Text, NEW env, NEW x \in Text, x # << >>, ~ Contains(x, "$"),
         Read(Reached(t, env), x[1], env) = Read(Clean(o), x[1], env)
  PROVE  Reached(t \o x, env) = Clean(o \o x)
<1>. DEFINE h == [n \in 0 .. Len(x) |-> Clean(o \o SubSeq(x, 1, n))]
<1>1. Len(x) \in Nat /\ DOMAIN x = 1 .. Len(x) /\ \A i \in 1 .. Len(x) : x[i] # "$" /\ x[i] \in Tokens
  BY Beginnings DEF Contains
<1>2. \A n \in 0 .. Len(x) : h[n] = Clean(o \o SubSeq(x, 1, n))
  OBVIOUS
<1>. HIDE DEF h
<1>3. ASSUME NEW n \in 0 .. Len(x) - 1 PROVE Read(h[n], x[n + 1], env) = h[n + 1]
  <2>1. n + 1 \in 1 .. Len(x) /\ n \in 0 .. Len(x) /\ n + 1 \in 0 .. Len(x)
    BY <1>1
  <2>2. x[n + 1] # "$" /\ x[n + 1] \in Tokens
    BY <1>1, <2>1
  <2>3. SubSeq(x, 1, n) \in Text /\ SubSeq(x, 1, n + 1) = Append(SubSeq(x, 1, n), x[n + 1])
    BY <2>1, Beginnings
  <2>4. o \o SubSeq(x, 1, n) \in Text /\ o \o Append(SubSeq(x, 1, n), x[n + 1]) = Append(o \o SubSeq(x, 1, n), x[n + 1])
    <3>1. o \o SubSeq(x, 1, n) \in Text
      BY <2>3, TextsJoined
    <3>2. \A u \in Text : \A c \in Tokens : o \o Append(u, c) = Append(o \o u, c)
      BY Longer
    <3>. QED
      BY <2>2, <2>3, <3>1, <3>2
  <2>5. Append(o \o SubSeq(x, 1, n), x[n + 1]) = (o \o SubSeq(x, 1, n)) \o <<x[n + 1]>>
    BY <2>2, <2>4, Longer
  <2>6. Read(Clean(o \o SubSeq(x, 1, n)), x[n + 1], env) = Clean((o \o SubSeq(x, 1, n)) \o <<x[n + 1]>>)
    BY <2>2, ReadText
  <2>7. h[n] = Clean(o \o SubSeq(x, 1, n)) /\ h[n + 1] = Clean(o \o SubSeq(x, 1, n + 1))
    BY <1>2, <2>1
  <2>. QED
    BY <2>3, <2>4, <2>5, <2>6, <2>7
<1>4. h[0] = Clean(o) /\ h[Len(x)] = Clean(o \o x)
  <2>1. 0 \in 0 .. Len(x) /\ Len(x) \in 0 .. Len(x)
    BY <1>1
  <2>2. h[0] = Clean(o \o SubSeq(x, 1, 0)) /\ h[Len(x)] = Clean(o \o SubSeq(x, 1, Len(x)))
    BY <1>2, <2>1
  <2>. QED
    BY <2>2, Beginnings, TextsJoined
<1>5. Reached(t \o x, env) = h[Len(x)]
  BY <1>3, <1>4, ReadOn
<1>. QED
  BY <1>4, <1>5

LEMMA DollarRead ==
  ASSUME NEW t \in Text, NEW o \in Text, NEW env,
         Read(Reached(t, env), "$", env) = Read(Clean(o), "$", env)
  PROVE  /\ t \o <<"$">> \in Text
         /\ Reached(t \o <<"$">>, env) = State("dollar", << >>, o)
         /\ Reached(t \o <<"$", "$">>, env) = Clean(o \o <<"$">>)
         /\ t \o <<"$", "{">> \in Text
         /\ Reached(t \o <<"$", "{">>, env) = State("brace", << >>, o)
<1>1. /\ t \o <<"$">> \in Text /\ Append(t, "$") = t \o <<"$">>
      /\ \A c \in Tokens : t \o <<"$", c>> = Append(t \o <<"$">>, c) /\ t \o <<"$", c>> \in Text
  <2>1. "$" \in Tokens /\ <<"$">> \in Text
    BY MarkTokens, Single
  <2>2. \A c \in Tokens : <<"$", c>> = Append(<<"$">>, c)
    BY <2>1, PairIsTwo
  <2>3. Append(t, "$") = t \o <<"$">>
    BY <2>1, Longer
  <2>4. \A c \in Tokens : t \o Append(<<"$">>, c) = Append(t \o <<"$">>, c)
    BY <2>1, Longer
  <2>5. t \o <<"$">> \in Text /\ \A c \in Tokens : <<"$", c>> \in Text /\ t \o <<"$", c>> \in Text
    BY <2>1, Pair, TextsJoined
  <2>. QED
    BY <2>2, <2>3, <2>4, <2>5
<1>2. Reached(t \o <<"$">>, env) = State("dollar", << >>, o)
  <2>1. Reached(Append(t, "$"), env) = Read(Clean(o), "$", env)
    BY MarkTokens, ReachedMore
  <2>. QED
    BY <1>1, <2>1, ReadText
<1>3. \A c \in Tokens : Reached(t \o <<"$", c>>, env) = Read(State("dollar", << >>, o), c, env)
  BY <1>1, <1>2, ReachedMore, ZenonT(60)
<1>4. Read(State("dollar", << >>, o), "$", env) = Clean(o \o <<"$">>)
  BY ReadDollar
<1>5. Read(State("dollar", << >>, o), "{", env) = State("brace", << >>, o)
  BY ReadDollar
<1>. QED
  BY <1>1, <1>2, <1>3, <1>4, <1>5, MarkTokens

LEMMA NameRead ==
  ASSUME NEW t \in Text, NEW o \in Text, NEW env, NEW name \in Names,
         Reached(t, env) = State("dollar", << >>, o)
  PROVE  Reached(t \o name, env) = State("name", name, o)
<1>. DEFINE h == [n \in 0 .. Len(name) |-> IF n = 0 THEN State("dollar", << >>, o)
                                           ELSE State("name", SubSeq(name, 1, n), o)]
<1>1. /\ name \in Text /\ name # << >> /\ Len(name) \in Nat /\ Len(name) > 0 /\ DOMAIN name = 1 .. Len(name)
      /\ IsNameStart(name[1]) /\ \A i \in 1 .. Len(name) : IsNameChar(name[i]) /\ name[i] \in Tokens
  <2>1. name \in Text /\ name # << >> /\ IsName(name)
    BY NameTexts
  <2>. QED
    BY <2>1, Beginnings DEF IsName
<1>2. h[0] = State("dollar", << >>, o) /\ \A n \in 1 .. Len(name) : h[n] = State("name", SubSeq(name, 1, n), o)
  <2>1. 0 \in 0 .. Len(name) /\ \A n \in 1 .. Len(name) : n \in 0 .. Len(name) /\ n # 0
    BY <1>1
  <2>. QED
    BY <2>1
<1>. HIDE DEF h
<1>3. ASSUME NEW n \in 0 .. Len(name) - 1 PROVE Read(h[n], name[n + 1], env) = h[n + 1]
  <2>1. n + 1 \in 1 .. Len(name) /\ n \in 0 .. Len(name)
    BY <1>1
  <2>2. SubSeq(name, 1, n) \in Text /\ SubSeq(name, 1, n + 1) = Append(SubSeq(name, 1, n), name[n + 1])
    BY <1>1, <2>1, Beginnings
  <2>3. h[n + 1] = State("name", Append(SubSeq(name, 1, n), name[n + 1]), o)
    BY <1>2, <2>1, <2>2
  <2>4. CASE n = 0
    <3>1. SubSeq(name, 1, 0) = << >> /\ 0 + 1 = 1
      BY <1>1, Beginnings
    <3>2. Append(<< >>, name[1]) = <<name[1]>>
      OBVIOUS
    <3>3. Read(State("dollar", << >>, o), name[1], env) = State("name", <<name[1]>>, o)
      BY <1>1, ReadDollar
    <3>. QED
      BY <1>2, <2>3, <2>4, <3>1, <3>2, <3>3
  <2>5. CASE n # 0
    <3>1. h[n] = State("name", SubSeq(name, 1, n), o)
      BY <1>2, <2>1, <2>5
    <3>2. IsNameChar(name[n + 1])
      BY <1>1, <2>1
    <3>3. Read(State("name", SubSeq(name, 1, n), o), name[n + 1], env)
             = State("name", Append(SubSeq(name, 1, n), name[n + 1]), o)
      BY <3>2, ReadName
    <3>. QED
      BY <2>3, <3>1, <3>3
  <2>. QED
    BY <2>4, <2>5
<1>4. h[Len(name)] = State("name", name, o)
  <2>1. SubSeq(name, 1, Len(name)) = name /\ Len(name) \in 1 .. Len(name)
    BY <1>1, Beginnings
  <2>. QED
    BY <1>2, <2>1
<1>5. Reached(t \o name, env) = h[Len(name)]
  BY <1>1, <1>2, <1>3, ReadOn
<1>. QED
  BY <1>4, <1>5

LEMMA BraceRead ==
  ASSUME NEW t \in Text, NEW o \in Text, NEW env, NEW x \in Text, \A i \in DOMAIN x : ~ Closes(x[i]),
         Reached(t, env) = State("brace", << >>, o)
  PROVE  Reached(t \o x, env) = State("brace", x, o)
<1>. DEFINE h == [n \in 0 .. Len(x) |-> State("brace", SubSeq(x, 1, n), o)]
<1>1. Len(x) \in Nat /\ DOMAIN x = 1 .. Len(x) /\ \A i \in 1 .. Len(x) : ~ Closes(x[i])
  BY Beginnings
<1>2. \A n \in 0 .. Len(x) : h[n] = State("brace", SubSeq(x, 1, n), o)
  OBVIOUS
<1>. HIDE DEF h
<1>3. ASSUME NEW n \in 0 .. Len(x) - 1 PROVE Read(h[n], x[n + 1], env) = h[n + 1]
  <2>1. n + 1 \in 1 .. Len(x) /\ n \in 0 .. Len(x) /\ n + 1 \in 0 .. Len(x)
    BY <1>1
  <2>2. SubSeq(x, 1, n + 1) = Append(SubSeq(x, 1, n), x[n + 1])
    BY <2>1, Beginnings
  <2>3. ~ Closes(x[n + 1])
    BY <1>1, <2>1
  <2>4. Read(State("brace", SubSeq(x, 1, n), o), x[n + 1], env) = State("brace", Append(SubSeq(x, 1, n), x[n + 1]), o)
    BY <2>3, ReadBrace
  <2>5. h[n] = State("brace", SubSeq(x, 1, n), o) /\ h[n + 1] = State("brace", SubSeq(x, 1, n + 1), o)
    BY <1>2, <2>1
  <2>. QED
    BY <2>2, <2>4, <2>5
<1>4. h[0] = State("brace", << >>, o) /\ h[Len(x)] = State("brace", x, o)
  <2>1. 0 \in 0 .. Len(x) /\ Len(x) \in 0 .. Len(x)
    BY <1>1
  <2>2. SubSeq(x, 1, 0) = << >> /\ SubSeq(x, 1, Len(x)) = x
    BY Beginnings
  <2>. QED
    BY <1>2, <2>1, <2>2
<1>5. CASE x = << >>
  BY <1>5, TextsJoined
<1>6. CASE x # << >>
  <2>1. Reached(t \o x, env) = h[Len(x)]
    BY <1>3, <1>4, <1>6, ReadOn
  <2>. QED
    BY <1>4, <2>1
<1>. QED
  BY <1>5, <1>6

LEMMA NoneCloses ==
  ASSUME NEW s \in Text, NEW t \in Text,
         \A i \in DOMAIN s : ~ Closes(s[i]), \A i \in DOMAIN t : ~ Closes(t[i])
  PROVE  \A i \in DOMAIN (s \o t) : ~ Closes((s \o t)[i])
<1>. DEFINE x == s \o t
<1>1. /\ x \in Text /\ Len(x) = Len(s) + Len(t) /\ Len(s) \in Nat /\ Len(t) \in Nat
      /\ \A i \in 1 .. Len(s) : x[i] = s[i]
      /\ \A i \in 1 .. Len(t) : x[Len(s) + i] = t[i]
  BY TextsJoined
<1>2. DOMAIN x = 1 .. Len(x) /\ DOMAIN s = 1 .. Len(s) /\ DOMAIN t = 1 .. Len(t)
  BY <1>1, LenProperties DEF Text
<1>. HIDE DEF x
<1>3. ASSUME NEW i \in 1 .. Len(x) PROVE ~ Closes(x[i])
  <2>1. CASE i <= Len(s)
    BY <1>1, <1>2, <2>1
  <2>2. CASE i > Len(s)
    <3>1. i - Len(s) \in 1 .. Len(t) /\ Len(s) + (i - Len(s)) = i
      BY <1>1, <2>2
    <3>2. x[Len(s) + (i - Len(s))] = t[i - Len(s)]
      BY <1>1, <3>1
    <3>. QED
      BY <1>2, <3>1, <3>2
  <2>. QED
    BY <1>1, <2>1, <2>2
<1>. QED
  BY <1>2, <1>3 DEF x

LEMMA InsideStaysOpen ==
  ASSUME NEW p \in Parts, p.kind = "braced"
  PROVE  /\ p.name \in Text /\ p.sign \in Text /\ p.word \in Text
         /\ LET inner == p.name \o (p.sign \o p.word)
            IN  inner \in Text /\ \A i \in DOMAIN inner : ~ Closes(inner[i])
<1>1. /\ p.name \in Names /\ p.sign \in {<< >>} \cup Signs /\ p.word \in Text
      /\ p.word = << >> \/ ~ Contains(p.word, "}")
  BY PartKinds, Empty, Zenon
<1>2. p.name \in Text /\ p.sign \in Text
  BY <1>1, NameTexts, SignTexts
<1>3. \A i \in DOMAIN p.name : ~ Closes(p.name[i])
  <2>1. DOMAIN p.name = 1 .. Len(p.name)
    BY <1>2, LenProperties DEF Text
  <2>2. \A i \in 1 .. Len(p.name) : p.name[i] # "}"
    BY <1>1, NameMarks, Zenon
  <2>. QED
    BY <2>1, <2>2, Zenon DEF Closes
<1>4. \A i \in DOMAIN p.sign : ~ Closes(p.sign[i])
  <2>1. ~ Closes(":") /\ ~ Closes("-") /\ ~ Closes("+")
    BY Zenon DEF Closes
  <2>2. \A s \in {<< >>} \cup Signs : \A i \in DOMAIN s : s[i] \in {":", "-", "+"}
    BY DEF Signs
  <2>. QED
    BY <1>1, <2>1, <2>2
<1>5. \A i \in DOMAIN p.word : ~ Closes(p.word[i])
  <2>1. CASE p.word = << >>
    <3>1. DOMAIN << >> = {}
      OBVIOUS
    <3>. QED
      BY <2>1, <3>1
  <2>2. CASE ~ Contains(p.word, "}")
    <3>1. DOMAIN p.word = 1 .. Len(p.word)
      BY <1>1, Beginnings
    <3>. QED
      BY <2>2, <3>1, Zenon DEF Contains, Closes
  <2>. QED
    BY <1>1, <2>1, <2>2, Zenon
<1>. DEFINE rest == p.sign \o p.word
<1>6. rest \in Text /\ \A i \in DOMAIN rest : ~ Closes(rest[i])
  BY <1>1, <1>2, <1>4, <1>5, TextsJoined, NoneCloses
<1>. HIDE DEF rest
<1>7. p.name \o rest \in Text /\ \A i \in DOMAIN (p.name \o rest) : ~ Closes((p.name \o rest)[i])
  BY <1>2, <1>3, <1>6, TextsJoined, NoneCloses
<1>. QED
  BY <1>1, <1>2, <1>7 DEF rest

LEMMA EnclosedRead ==
  ASSUME NEW t \in Text, NEW o \in Text, NEW env, IsEnv(env), NEW p \in Parts, p.kind = "braced",
         Read(Reached(t, env), "$", env) = Read(Clean(o), "$", env)
  PROVE  Reached(t \o Written(p), env) = Clean(o \o Meant(p, env))
<1>. DEFINE open == <<"$", "{">>
            mark == "}"
            inner == p.name \o (p.sign \o p.word)
            w == (open \o inner) \o <<mark>>
<1>1. open \in Text /\ t \o open \in Text /\ mark \in Tokens /\ Closes(mark)
  BY DollarRead, Pair, MarkTokens, Zenon DEF Closes
<1>2. Reached(t \o open, env) = State("brace", << >>, o)
  BY DollarRead, Zenon
<1>3. p.name \in Text /\ p.sign \in Text /\ p.word \in Text /\ inner \in Text /\ \A i \in DOMAIN inner : ~ Closes(inner[i])
  BY InsideStaysOpen
<1>4. Written(p) = w
  <2>1. Written(p) = Enclosed(p.name, p.sign, p.word)
    BY WrittenAs
  <2>2. Enclosed(p.name, p.sign, p.word) = w
    <3>1. p.name \in Text /\ p.sign \in Text /\ p.word \in Text
      BY <1>3, Zenon
    <3>. QED
      BY <3>1, BracesText, ZenonT(60)
  <2>. QED
    BY <2>1, <2>2
<1>. HIDE DEF open, mark, w
<1>5. ~ Refuses(Braced(inner)) /\ Substituted(Braced(inner), env) = Meant(p, env)
  BY BracedForm
<1>. HIDE DEF inner
<1>6. Reached((t \o open) \o inner, env) = State("brace", inner, o)
  BY <1>1, <1>2, <1>3, BraceRead
<1>7. (t \o open) \o inner \in Text /\ Reached(Append((t \o open) \o inner, mark), env) = Read(State("brace", inner, o), mark, env)
  <2>1. (t \o open) \o inner \in Text
    BY <1>1, <1>3, TextsJoined
  <2>. QED
    BY <1>1, <1>6, <2>1, ReachedMore
<1>8. Read(State("brace", inner, o), mark, env) = Clean(o \o Meant(p, env))
  BY <1>1, <1>5, ReadBrace
<1>9. Append((t \o open) \o inner, mark) = t \o w
  <2>1. open \o inner \in Text
    BY <1>1, <1>3, TextsJoined
  <2>0. inner \in Text
    BY <1>3, Zenon
  <2>a. (t \o open) \o inner = t \o (open \o inner)
    BY <1>1, <2>0, Regroup, ZenonT(60)
  <2>2. w = Append(open \o inner, mark)
    BY <1>1, <2>1, Longer DEF w
  <2>3. \A u \in Text : t \o Append(u, mark) = Append(t \o u, mark)
    BY <1>1, Longer
  <2>. QED
    BY <2>1, <2>a, <2>2, <2>3
<1>. QED
  BY <1>4, <1>7, <1>8, <1>9

LEMMA StandsThere ==
  ASSUME NEW parts, NEW env
  PROVE  LET s == Reached(TextOf(parts), env)
             o == Said(parts, env)
         IN
         /\ s = Clean(o) => Stands(parts, env)
         /\ \A q \in Text : /\ parts # << >> /\ Last(parts).kind = "bare"
                           /\ s = State("name", Last(parts).name, q)
                           /\ o = q \o Value(Last(parts).name, env)
                           => Stands(parts, env)
         /\ \A q \in Text : /\ parts # << >> /\ Last(parts).kind = "loose"
                           /\ s = State("dollar", << >>, q)
                           /\ o = q \o <<"$">>
                           => Stands(parts, env)
BY DEF Stands

LEMMA StandsMore ==
  ASSUME NEW parts \in Seq(Parts), NEW env, IsEnv(env), Stands(parts, env),
         NEW p \in Parts, Fits(parts, Written(p)[1])
  PROVE  Stands(Append(parts, p), env)
<1>. DEFINE t == TextOf(parts)
            o == Said(parts, env)
            more == Append(parts, p)
            c == Written(p)[1]
<1>1. t \in Text /\ o \in Text /\ TextOf(more) = t \o Written(p) /\ Said(more, env) = o \o Meant(p, env)
  BY TextMore, SaidMore
<1>2. Written(p) \in Text /\ Written(p) # << >> /\ c \in Tokens /\ (p.kind # "text" => c = "$")
  <2>1. Written(p) \in Text /\ Written(p) # << >> /\ (p.kind # "text" => c = "$")
    BY WrittenIsText
  <2>2. 1 \in 1 .. Len(Written(p))
    BY <2>1, Beginnings
  <2>. QED
    BY <2>1, <2>2, Beginnings
<1>3. Read(Reached(t, env), c, env) = Read(Clean(o), c, env)
  BY <1>2, NextCharacter
<1>4. more \in Seq(Parts) /\ more # << >> /\ Last(more) = p
  BY FormMore
<1>. SUFFICES Stands(more, env)
  OBVIOUS
<1>. HIDE DEF t, o, more
<1>5. CASE p.kind = "text"
  <2>1. Written(p) = p.text /\ Meant(p, env) = p.text /\ ~ Contains(p.text, "$")
    BY <1>5, WrittenAs, PartKinds DEF Meant
  <2>2. Reached(t \o p.text, env) = Clean(o \o p.text)
    BY <1>1, <1>2, <1>3, <2>1, TextRead
  <2>. QED
    BY <1>1, <2>1, <2>2, StandsThere
<1>6. ASSUME c = "$"
      PROVE  /\ t \o <<"$">> \in Text
             /\ Reached(t \o <<"$">>, env) = State("dollar", << >>, o)
             /\ Reached(t \o <<"$", "$">>, env) = Clean(o \o <<"$">>)
  <2>1. Read(Reached(t, env), "$", env) = Read(Clean(o), "$", env)
    BY <1>3, <1>6
  <2>. QED
    BY <1>1, <2>1, DollarRead, ZenonT(60)
<1>7. CASE p.kind = "dollar"
  <2>1. Written(p) = <<"$", "$">> /\ Meant(p, env) = <<"$">>
    BY <1>7, WrittenAs DEF Meant
  <2>2. Reached(TextOf(more), env) = Clean(o \o <<"$">>) /\ Said(more, env) = o \o <<"$">>
    BY <1>1, <1>2, <1>6, <1>7, <2>1
  <2>. QED
    BY <2>2, StandsThere
<1>8. CASE p.kind = "loose"
  <2>1. Written(p) = <<"$">> /\ Meant(p, env) = <<"$">>
    BY <1>8, WrittenAs DEF Meant
  <2>2. Reached(TextOf(more), env) = State("dollar", << >>, o) /\ Said(more, env) = o \o <<"$">>
    BY <1>1, <1>2, <1>6, <1>8, <2>1
  <2>. QED
    BY <1>1, <1>4, <1>8, <2>2, StandsThere
<1>9. CASE p.kind = "bare"
  <2>1. Written(p) = <<"$">> \o p.name /\ Meant(p, env) = Value(p.name, env) /\ p.name \in Names /\ p.name \in Text
    BY <1>9, WrittenAs, PartKinds, NameTexts DEF Meant
  <2>2. Reached((t \o <<"$">>) \o p.name, env) = State("name", p.name, o)
    BY <1>1, <1>2, <1>6, <1>9, <2>1, NameRead
  <2>3. t \o Written(p) = (t \o <<"$">>) \o p.name
    <3>1. <<"$">> \in Text
      BY Single, MarkTokens
    <3>2. (t \o <<"$">>) \o p.name = t \o (<<"$">> \o p.name)
      BY <1>1, <2>1, <3>1, Regroup
    <3>. QED
      BY <2>1, <3>2
  <2>4. Reached(TextOf(more), env) = State("name", p.name, o) /\ Said(more, env) = o \o Value(p.name, env)
    BY <1>1, <2>1, <2>2, <2>3
  <2>. QED
    BY <1>1, <1>4, <1>9, <2>4, StandsThere
<1>10. CASE p.kind = "braced"
  <2>1. Reached(t \o Written(p), env) = Clean(o \o Meant(p, env))
    BY <1>1, <1>2, <1>3, <1>10, EnclosedRead
  <2>. QED
    BY <1>1, <2>1, StandsThere
<1>. QED
  BY <1>5, <1>7, <1>8, <1>9, <1>10, PartKinds

(* Forms are read as what they say: no text of one is refused, and what it expands to is what dinit *)
(* makes of its parts.                                                                             *)
THEOREM FormsAreRead ==
  ASSUME NEW parts, IsForm(parts), NEW env, IsEnv(env)
  PROVE  /\ Expand(TextOf(parts), env).in # "refused"
         /\ Expand(TextOf(parts), env).out = Said(parts, env)
<1>. DEFINE T == {q \in Seq(Parts) : IsForm(q) => Stands(q, env)}
<1>1. << >> \in T
  <2>1. Reached(TextOf(<< >>), env) = Clean(Said(<< >>, env))
    BY TextMore, SaidMore, ReachedNothing, FreshIsClean
  <2>. QED
    BY <2>1 DEF Stands
<1>2. ASSUME NEW q \in Seq(Parts), NEW p \in Parts, q \in T PROVE Append(q, p) \in T
  <2>1. Append(q, p) \in Seq(Parts)
    BY FormMore
  <2>2. ASSUME IsForm(Append(q, p)) PROVE Stands(Append(q, p), env)
    <3>1. IsForm(q) /\ Fits(q, Written(p)[1])
      BY <2>2, FormMore
    <3>. QED
      BY <1>2, <3>1, StandsMore
  <2>. QED
    BY <2>1, <2>2
<1>. HIDE DEF T
<1>3. Seq(Parts) \subseteq T
  BY <1>1, <1>2, SeqInduct
<1>4. parts \in Seq(Parts) /\ Stands(parts, env)
  BY <1>3 DEF T, IsForm
<1>. DEFINE s == Reached(TextOf(parts), env)
            o == Said(parts, env)
<1>5. Expand(TextOf(parts), env) = Ended(s, env)
  BY DEF Expand, Reached
<1>6. Ended(s, env) = Clean(o)
  <2>1. CASE s = Clean(o)
    BY <2>1, EndedAs
  <2>2. CASE \E q \in Text : s = State("name", Last(parts).name, q) /\ o = q \o Value(Last(parts).name, env)
    BY <2>2, EndedAs
  <2>3. CASE \E q \in Text : s = State("dollar", << >>, q) /\ o = q \o <<"$">>
    BY <2>3, EndedAs
  <2>. QED
    BY <1>4, <2>1, <2>2, <2>3 DEF Stands
<1>7. Clean(o).in # "refused" /\ Clean(o).out = o
  BY Fields DEF Clean
<1>. QED
  BY <1>5, <1>6, <1>7

-----------------------------------------------------------------------------
(* What is not refused has the form of a substitution.                     *)

LEMMA FirstAndTail ==
  ASSUME NEW s \in Text, s # << >>
  PROVE  s[1] \in Tokens /\ Tail(s) \in Text /\ <<s[1]>> \o Tail(s) = s
<1>. DEFINE n == Len(s)
            x == <<s[1]>> \o Tail(s)
<1>1. n \in Nat /\ n > 0 /\ \A i \in 1 .. n : s[i] \in Tokens
  BY Beginnings
<1>2. s[1] \in Tokens
  BY <1>1
<1>3. Tail(s) \in Text /\ Len(Tail(s)) = n - 1 /\ \A i \in 1 .. n - 1 : Tail(s)[i] = s[i + 1]
  BY HeadTailProperties DEF Text
<1>4. /\ x \in Text /\ x[1] = s[1] /\ Len(x) = 1 + (n - 1)
      /\ \A i \in 1 .. n - 1 : x[1 + i] = Tail(s)[i]
  BY <1>2, <1>3, TailOf
<1>. HIDE DEF x, n
<1>5. ASSUME NEW i \in 1 .. n PROVE x[i] = s[i]
  <2>1. CASE i = 1
    BY <1>4, <2>1
  <2>2. CASE i # 1
    <3>. DEFINE j == i - 1
    <3>1. j \in 1 .. n - 1 /\ 1 + j = i /\ j + 1 = i
      BY <1>1, <2>2
    <3>2. x[1 + j] = Tail(s)[j] /\ Tail(s)[j] = s[j + 1]
      BY <1>3, <1>4, <3>1
    <3>. QED
      BY <3>1, <3>2
  <2>. QED
    BY <2>1, <2>2
<1>6. Len(x) = n
  BY <1>1, <1>4
<1>7. x = s
  BY <1>4, <1>5, <1>6, SeqEqual DEF Text, n
<1>. QED
  BY <1>2, <1>3, <1>7 DEF x

LEMMA NoneClosesAfter ==
  ASSUME NEW s \in Text, NEW t \in Text, \A i \in DOMAIN (s \o t) : ~ Closes((s \o t)[i])
  PROVE  \A i \in DOMAIN t : ~ Closes(t[i])
<1>. DEFINE x == s \o t
<1>1. /\ x \in Text /\ Len(x) = Len(s) + Len(t) /\ Len(s) \in Nat /\ Len(t) \in Nat
      /\ \A i \in 1 .. Len(t) : x[Len(s) + i] = t[i]
  BY TextsJoined
<1>2. DOMAIN x = 1 .. Len(x) /\ DOMAIN t = 1 .. Len(t)
  BY <1>1, LenProperties DEF Text
<1>. HIDE DEF x
<1>3. ASSUME NEW i \in 1 .. Len(t) PROVE ~ Closes(t[i])
  <2>1. Len(s) + i \in DOMAIN x /\ x[Len(s) + i] = t[i]
    BY <1>1, <1>2
  <2>. QED
    BY <2>1 DEF x
<1>. QED
  BY <1>2, <1>3

LEMMA NameEnds ==
  ASSUME NEW inner \in Text
  PROVE  LET at == NameEnd(inner)
         IN  /\ at \in 1 .. Len(inner) + 1
             /\ at \in 1 .. Len(inner) => inner[at] \in {":", "-", "+"}
<1>. DEFINE marks == {i \in DOMAIN inner : inner[i] \in {":", "-", "+"}}
<1>1. Len(inner) \in Nat /\ DOMAIN inner = 1 .. Len(inner)
  BY Beginnings
<1>2. NameEnd(inner) = IF marks = {} THEN Len(inner) + 1 ELSE CHOOSE i \in marks : \A j \in marks : i <= j
  BY DEF NameEnd
<1>3. marks \subseteq Nat /\ marks \subseteq 1 .. Len(inner) /\ \A i \in marks : inner[i] \in {":", "-", "+"}
  BY <1>1
<1>. HIDE DEF marks
<1>4. CASE marks = {}
  <2>1. NameEnd(inner) = Len(inner) + 1
    BY <1>2, <1>4
  <2>. QED
    BY <1>1, <2>1
<1>5. CASE marks # {}
  <2>1. \E i \in marks : \A j \in marks : i <= j
    BY <1>3, <1>5, LeastNumber
  <2>2. NameEnd(inner) \in marks
    BY <1>2, <1>5, <2>1
  <2>3. NameEnd(inner) \in 1 .. Len(inner) /\ inner[NameEnd(inner)] \in {":", "-", "+"}
    BY <1>3, <2>2
  <2>. QED
    BY <1>1, <2>3
<1>. QED
  BY <1>4, <1>5

(* What braces enclose without being refused is written by a part of the grammar. *)
LEMMA BracedIsPart ==
  ASSUME NEW inner \in Text, \A i \in DOMAIN inner : ~ Closes(inner[i]), ~ Refuses(Braced(inner))
  PROVE  \E p \in Parts : p.kind = "braced" /\ p.name \o (p.sign \o p.word) = inner
<1>. DEFINE at == NameEnd(inner)
            name == SubSeq(inner, 1, at - 1)
            rest == SubSeq(inner, at, Len(inner))
            colon == rest # << >> /\ rest[1] = ":"
            signed == IF colon THEN Tail(rest) ELSE rest
            b == Braced(inner)
<1>1. Len(inner) \in Nat /\ DOMAIN inner = 1 .. Len(inner) /\ \A i \in 1 .. Len(inner) : inner[i] \in Tokens
  BY Beginnings
<1>2. at \in 1 .. Len(inner) + 1 /\ (at \in 1 .. Len(inner) => inner[at] \in {":", "-", "+"})
  BY NameEnds
<1>3. /\ b.name = name /\ b.colon = colon
      /\ b.sign = (IF signed = << >> THEN "" ELSE signed[1])
      /\ b.word = (IF signed = << >> THEN << >> ELSE Tail(signed))
  BY DEF Braced
<1>. HIDE DEF at
<1>4. name \in Text /\ rest \in Text /\ Len(rest) = (Len(inner) - at) + 1
      /\ (Len(rest) > 0 => rest[1] = inner[at])
  BY <1>1, <1>2, SubSeqProperties DEF Text
<1>5. name \o rest = inner
  <2>1. /\ 1 \in 1 .. Len(inner) + 1 /\ at - 1 \in 1 - 1 .. Len(inner) /\ Len(inner) \in at - 1 .. Len(inner)
        /\ (at - 1) + 1 = at
    BY <1>1, <1>2
  <2>2. SubSeq(inner, 1, at - 1) \o SubSeq(inner, (at - 1) + 1, Len(inner)) = SubSeq(inner, 1, Len(inner))
    BY <2>1, ConcatAdjacentSubSeq DEF Text
  <2>3. SubSeq(inner, 1, Len(inner)) = inner
    BY Beginnings
  <2>. QED
    BY <2>1, <2>2, <2>3
<1>6. rest # << >> => rest[1] \in {":", "-", "+"}
  <2>1. rest # << >> => Len(rest) > 0
    BY <1>4, Beginnings
  <2>2. Len(rest) > 0 => at \in 1 .. Len(inner)
    BY <1>1, <1>2, <1>4
  <2>. QED
    BY <1>2, <1>4, <2>1, <2>2
<1>7. \A i \in DOMAIN rest : ~ Closes(rest[i])
  BY <1>4, <1>5, NoneClosesAfter
<1>8. name \in Names
  BY <1>3, <1>4 DEF Refuses, Names
<1>9. b.sign \in {"-", "+"} \/ (b.sign = "" /\ b.colon = FALSE)
  <2>1. b.colon \in BOOLEAN
    BY <1>3
  <2>. QED
    BY <2>1 DEF Refuses
<1>. HIDE DEF name, rest, b
<1>10. ASSUME NEW sign \in Signs, NEW word \in Text, sign \o word = rest
       PROVE  \E p \in Parts : p.kind = "braced" /\ p.name \o (p.sign \o p.word) = inner
  <2>1. \A i \in DOMAIN word : ~ Closes(word[i])
    <3>1. sign \in Text
      BY SignTexts
    <3>. QED
      BY <1>7, <1>10, <3>1, NoneClosesAfter
  <2>a. DOMAIN word = 1 .. Len(word)
    BY Beginnings
  <2>2. ~ Contains(word, "}")
    BY <2>1, <2>a, Zenon DEF Contains, Closes
  <2>. DEFINE p == [kind |-> "braced", name |-> name, sign |-> sign, word |-> word]
  <2>3. p \in Parts
    BY <1>8, <2>2, Zenon DEF Parts
  <2>4. p.kind = "braced" /\ p.name \o (p.sign \o p.word) = inner
    BY <1>5, <1>10
  <2>. QED
    BY <2>3, <2>4
<1>11. CASE rest = << >>
  <2>. DEFINE p == [kind |-> "braced", name |-> name, sign |-> << >>, word |-> << >>]
  <2>1. p \in Parts
    BY <1>8, Zenon DEF Parts
  <2>2. << >> \o << >> = << >> /\ name \o << >> = inner
    BY <1>5, <1>11, Empty, TextsJoined
  <2>3. p.kind = "braced" /\ p.name \o (p.sign \o p.word) = inner
    BY <2>2
  <2>. QED
    BY <2>1, <2>3
<1>12. CASE rest # << >> /\ rest[1] \in {"-", "+"}
  <2>1. <<rest[1]>> \in Signs /\ Tail(rest) \in Text /\ <<rest[1]>> \o Tail(rest) = rest
    BY <1>4, <1>12, FirstAndTail DEF Signs
  <2>. QED
    BY <1>10, <2>1
<1>13. CASE rest # << >> /\ rest[1] = ":"
  <2>. DEFINE after == Tail(rest)
  <2>1. after \in Text /\ <<":">> \o after = rest
    BY <1>4, <1>13, FirstAndTail
  <2>2. b.colon = TRUE /\ b.sign = IF after = << >> THEN "" ELSE after[1]
    BY <1>3, <1>13
  <2>. HIDE DEF after
  <2>3. after # << >> /\ after[1] \in {"-", "+"}
    BY <1>9, <2>2
  <2>4. Tail(after) \in Text /\ <<after[1]>> \o Tail(after) = after
    BY <2>1, <2>3, FirstAndTail
  <2>5. <<":", after[1]>> \in Signs
    BY <2>3 DEF Signs
  <2>6. <<":", after[1]>> \o Tail(after) = rest
    <3>1. after[1] \in Tokens /\ ":" \in Tokens
      BY <2>3, MarkTokens
    <3>2. <<":", after[1]>> = <<":">> \o <<after[1]>> /\ <<":">> \in Text /\ <<after[1]>> \in Text
      BY <3>1, PairIsTwo, Single
    <3>3. (<<":">> \o <<after[1]>>) \o Tail(after) = <<":">> \o (<<after[1]>> \o Tail(after))
      BY <2>4, <3>2, Regroup
    <3>. QED
      BY <2>1, <2>4, <3>2, <3>3
  <2>. QED
    BY <1>10, <2>4, <2>5, <2>6
<1>. QED
  BY <1>6, <1>11, <1>12, <1>13

(* Where the loop is in a text, in terms of the parts it has passed. *)
Passed(text, s, parts) ==
    /\ IsForm(parts)
    /\ \/ /\ \E out : s = Clean(out)
          /\ TextOf(parts) = text /\ (parts # << >> => Last(parts).kind \notin {"bare", "loose"})
       \/ /\ \E out : s = State("dollar", << >>, out)
          /\ Fits(parts, "$") /\ TextOf(parts) \o <<"$">> = text
       \/ \E held \in Text :
             /\ \E out : s = State("brace", held, out)
             /\ \A i \in DOMAIN held : ~ Closes(held[i])
             /\ Fits(parts, "$") /\ TextOf(parts) \o (<<"$", "{">> \o held) = text
       \/ \E held \in Names :
             /\ \E out : s = State("name", held, out)
             /\ Fits(parts, "$") /\ TextOf(parts) \o (<<"$">> \o held) = text

(* One part more, as long as it may come there. *)
LEMMA PartAdded ==
  ASSUME NEW parts, IsForm(parts), NEW p \in Parts, Fits(parts, Written(p)[1])
  PROVE  LET more == Append(parts, p)
         IN  /\ IsForm(more) /\ more # << >> /\ Last(more) = p
             /\ TextOf(more) = TextOf(parts) \o Written(p)
             /\ TextOf(parts) \in Text /\ TextOf(more) \in Text
<1>1. parts \in Seq(Parts)
  BY DEF IsForm
<1>2. Append(parts, p) \in Seq(Parts)
  BY <1>1, FormMore
<1>. QED
  BY <1>1, <1>2, FormMore, TextMore

(* One character more, as a part of its own. *)
LEMMA CharacterAdded ==
  ASSUME NEW parts, IsForm(parts), NEW c \in Tokens, c # "$", Fits(parts, c)
  PROVE  \E more : /\ IsForm(more) /\ more # << >> /\ Last(more).kind = "text"
                   /\ TextOf(more) = TextOf(parts) \o <<c>>
<1>. DEFINE p == [kind |-> "text", text |-> <<c>>]
<1>1. <<c>> \in Text /\ <<c>> # << >> /\ <<c>>[1] = c /\ ~ Contains(<<c>>, "$")
  <2>1. <<c>> \in Text /\ Len(<<c>>) = 1 /\ <<c>>[1] = c
    BY Single
  <2>2. DOMAIN <<c>> = {1}
    BY <2>1, LenProperties DEF Text
  <2>. QED
    BY <2>1, <2>2, Empty DEF Contains
<1>2. p \in Parts /\ p.kind = "text" /\ p.text = <<c>>
  BY <1>1 DEF Parts
<1>. HIDE DEF p
<1>3. Written(p) = <<c>> /\ Written(p)[1] = c
  BY <1>1, <1>2, WrittenAs
<1>. QED
  BY <1>2, <1>3, PartAdded

(* A dollar, a pair of dollars and a bare name, as parts. *)
LEMMA DollarsAdded ==
  ASSUME NEW parts, IsForm(parts), Fits(parts, "$"), NEW kind \in {"dollar", "loose"}
  PROVE  \E more : /\ IsForm(more) /\ more # << >> /\ Last(more).kind = kind
                   /\ TextOf(more) = TextOf(parts) \o (IF kind = "dollar" THEN <<"$", "$">> ELSE <<"$">>)
<1>. DEFINE p == [kind |-> kind]
<1>1. p \in Parts /\ p.kind = kind
  BY DEF Parts
<1>. HIDE DEF p
<1>2. Written(p) = (IF kind = "dollar" THEN <<"$", "$">> ELSE <<"$">>) /\ Written(p)[1] = "$"
  <2>1. CASE kind = "dollar"
    BY <1>1, <2>1, WrittenAs, WrittenIsText
  <2>2. CASE kind = "loose"
    BY <1>1, <2>2, WrittenAs, WrittenIsText
  <2>. QED
    BY <2>1, <2>2
<1>. QED
  BY <1>1, <1>2, PartAdded

LEMMA NameAdded ==
  ASSUME NEW parts, IsForm(parts), Fits(parts, "$"), NEW name \in Names
  PROVE  \E more : /\ IsForm(more) /\ more # << >> /\ Last(more).kind = "bare"
                   /\ TextOf(more) = TextOf(parts) \o (<<"$">> \o name)
<1>. DEFINE p == [kind |-> "bare", name |-> name]
<1>1. p \in Parts /\ p.kind = "bare" /\ p.name = name
  BY DEF Parts
<1>. HIDE DEF p
<1>2. Written(p) = <<"$">> \o name /\ Written(p)[1] = "$"
  BY <1>1, WrittenAs, WrittenIsText
<1>. QED
  BY <1>1, <1>2, PartAdded

LEMMA BracesAdded ==
  ASSUME NEW parts, IsForm(parts), Fits(parts, "$"), NEW held \in Text, \A i \in DOMAIN held : ~ Closes(held[i]),
         ~ Refuses(Braced(held)), NEW c \in Tokens, Closes(c)
  PROVE  \E more : /\ IsForm(more) /\ more # << >> /\ Last(more).kind = "braced"
                   /\ TextOf(more) = Append(TextOf(parts) \o (<<"$", "{">> \o held), c)
<1>1. PICK p \in Parts : p.kind = "braced" /\ p.name \o (p.sign \o p.word) = held
  BY BracedIsPart
<1>. DEFINE open == <<"$", "{">>
<1>2. p.name \in Text /\ p.sign \in Text /\ p.word \in Text
  BY <1>1, InsideStaysOpen
<1>3. Written(p) = Enclosed(p.name, p.sign, p.word) /\ Written(p)[1] = "$"
  BY <1>1, WrittenAs, WrittenIsText
<1>4. Enclosed(p.name, p.sign, p.word) = (open \o held) \o <<c>>
  <2>1. c = "}"
    BY Zenon DEF Closes
  <2>2. \A n, s, v \in Text : Enclosed(n, s, v) = (open \o (n \o (s \o v))) \o <<"}">>
    BY BracesText
  <2>. HIDE DEF open
  <2>3. \A n, s, v \in Text : Enclosed(n, s, v) = (open \o (n \o (s \o v))) \o <<c>>
    BY <2>1, <2>2, Zenon
  <2>. QED
    BY <1>1, <1>2, <2>3, ZenonT(60)
<1>5. TextOf(parts) \in Text
  BY <1>1, <1>3, PartAdded
<1>6. open \in Text
  BY Pair, MarkTokens
<1>. HIDE DEF open
<1>7. TextOf(parts) \o ((open \o held) \o <<c>>) = Append(TextOf(parts) \o (open \o held), c)
  <2>1. open \o held \in Text
    BY <1>6, TextsJoined
  <2>2. Append(open \o held, c) = (open \o held) \o <<c>>
    BY <2>1, Longer
  <2>3. \A t \in Text : t \o Append(open \o held, c) = Append(t \o (open \o held), c)
    BY <2>1, Longer
  <2>. QED
    BY <1>5, <2>2, <2>3
<1>8. TextOf(parts) \o Written(p) = Append(TextOf(parts) \o (open \o held), c)
  BY <1>3, <1>4, <1>7
<1>9. LET more == Append(parts, p)
      IN  /\ IsForm(more) /\ more # << >> /\ Last(more) = p
          /\ TextOf(more) = TextOf(parts) \o Written(p)
  BY <1>3, PartAdded
<1>. QED
  BY <1>1, <1>8, <1>9 DEF open

(* Outside of any variable, the next character is a part of its own or begins one. *)
LEMMA PassedOn ==
  ASSUME NEW text \in Text, NEW parts, IsForm(parts), NEW out, NEW c \in Tokens, NEW env,
         TextOf(parts) = text, Fits(parts, c), c = "$" => Fits(parts, "$")
  PROVE  \E more : Passed(Append(text, c), Read(Clean(out), c, env), more)
<1>1. Append(text, c) = text \o <<c>>
  BY Longer
<1>2. CASE c = "$"
  <2>1. Read(Clean(out), c, env) = State("dollar", << >>, out)
    BY <1>2, ReadText
  <2>2. TextOf(parts) \o <<"$">> = Append(text, c)
    BY <1>1, <1>2
  <2>3. Passed(Append(text, c), Read(Clean(out), c, env), parts)
    BY <1>2, <2>1, <2>2 DEF Passed
  <2>. QED
    BY <2>3
<1>3. CASE c # "$"
  <2>1. Read(Clean(out), c, env) = Clean(out \o <<c>>)
    BY <1>3, ReadText
  <2>2. PICK more : /\ IsForm(more) /\ more # << >> /\ Last(more).kind = "text"
                    /\ TextOf(more) = TextOf(parts) \o <<c>>
    BY <1>3, CharacterAdded
  <2>3. Passed(Append(text, c), Read(Clean(out), c, env), more)
    BY <1>1, <2>1, <2>2 DEF Passed
  <2>. QED
    BY <2>3
<1>. QED
  BY <1>2, <1>3

LEMMA PassedMore ==
  ASSUME NEW text \in Text, NEW s, NEW parts, Passed(text, s, parts), NEW c \in Tokens, NEW env
  PROVE  LET next == Read(s, c, env)
         IN  next.in = "refused" \/ \E more : Passed(Append(text, c), next, more)
<1>. DEFINE next == Read(s, c, env)
            t == TextOf(parts)
            longer == Append(text, c)
<1>1. IsForm(parts) /\ parts \in Seq(Parts) /\ t \in Text
  BY TextMore DEF Passed, IsForm
<1>2. longer = text \o <<c>> /\ <<c>> \in Text
  BY Longer, Single
<1>3. ASSUME NEW out, s = Clean(out), t = text, parts # << >> => Last(parts).kind \notin {"bare", "loose"}
      PROVE  \E more : Passed(longer, next, more)
  <2>1. Fits(parts, c) /\ Fits(parts, "$")
    BY <1>3 DEF Fits, MayFollow
  <2>. QED
    BY <1>1, <1>3, <2>1, PassedOn
<1>4. ASSUME NEW out, s = State("dollar", << >>, out), Fits(parts, "$"), t \o <<"$">> = text
      PROVE  \E more : Passed(longer, next, more)
  <2>a. <<"$">> \in Text
    BY Single, MarkTokens
  <2>b. t \o (<<"$">> \o <<c>>) = longer
    BY <1>1, <1>2, <1>4, <2>a, Regroup
  <2>c. t \o <<"$", c>> = longer
    BY <2>b, PairIsTwo, MarkTokens
  <2>1. CASE c = "$"
    <3>1. next = Clean(out \o <<"$">>)
      BY <1>4, <2>1, ReadDollar
    <3>2. PICK more : /\ IsForm(more) /\ more # << >> /\ Last(more).kind = "dollar"
                      /\ TextOf(more) = TextOf(parts) \o <<"$", "$">>
      BY <1>1, <1>4, DollarsAdded
    <3>3. TextOf(more) = longer
      BY <2>1, <2>c, <3>2
    <3>4. Passed(longer, next, more)
      BY <3>1, <3>2, <3>3 DEF Passed
    <3>. QED
      BY <3>4
  <2>2. CASE c = "{"
    <3>1. next = State("brace", << >>, out)
      BY <1>4, <2>2, ReadDollar, Zenon
    <3>. DEFINE open == <<"$", "{">>
    <3>2. open \in Text /\ t \o open = longer
      BY <2>2, <2>c, Pair, MarkTokens, Zenon
    <3>. HIDE DEF open
    <3>3. t \o (open \o << >>) = longer
      BY <3>2, TextsJoined
    <3>4. << >> \in Text /\ \A i \in DOMAIN << >> : ~ Closes(<< >>[i])
      <4>1. DOMAIN << >> = {}
        OBVIOUS
      <4>. QED
        BY <4>1, Empty
    <3>5. \E held \in Text :
             /\ \E o : next = State("brace", held, o)
             /\ \A i \in DOMAIN held : ~ Closes(held[i])
             /\ Fits(parts, "$") /\ TextOf(parts) \o (open \o held) = longer
      BY <1>4, <3>1, <3>3, <3>4
    <3>6. Passed(longer, next, parts)
      BY <1>1, <3>5, Zenon DEF Passed, open
    <3>. QED
      BY <3>6
  <2>3. CASE IsNameStart(c)
    <3>1. next = State("name", <<c>>, out)
      BY <1>4, <2>3, ReadDollar
    <3>2. <<c>> \in Names
      <4>1. <<c>> \in Text /\ Len(<<c>>) = 1 /\ <<c>>[1] = c
        BY Single
      <4>2. DOMAIN <<c>> = {1} /\ <<c>> # << >>
        BY <4>1, LenProperties, Empty DEF Text
      <4>3. IsNameChar(c)
        BY <2>3 DEF IsNameStart, IsNameChar
      <4>. QED
        BY <2>3, <4>1, <4>2, <4>3 DEF Names, IsName
    <3>3. Passed(longer, next, parts)
      BY <1>1, <1>4, <2>b, <3>1, <3>2 DEF Passed
    <3>. QED
      BY <3>3
  <2>4. CASE c # "$" /\ c # "{" /\ ~ IsNameStart(c)
    <3>1. next = Clean(out \o <<"$", c>>)
      BY <1>4, <2>4, ReadDollar, Zenon
    <3>2. PICK q : /\ IsForm(q) /\ q # << >> /\ Last(q).kind = "loose"
                   /\ TextOf(q) = TextOf(parts) \o <<"$">>
      BY <1>1, <1>4, DollarsAdded
    <3>3. Fits(q, c)
      BY <2>4, <3>2, Zenon DEF Fits, MayFollow
    <3>4. PICK more : /\ IsForm(more) /\ more # << >> /\ Last(more).kind = "text"
                      /\ TextOf(more) = TextOf(q) \o <<c>>
      BY <2>4, <3>2, <3>3, CharacterAdded
    <3>5. TextOf(more) = longer
      BY <1>2, <1>4, <3>2, <3>4
    <3>6. Passed(longer, next, more)
      BY <3>1, <3>4, <3>5 DEF Passed
    <3>. QED
      BY <3>6
  <2>. QED
    BY <2>1, <2>2, <2>3, <2>4, Zenon
<1>5. ASSUME NEW out, NEW held \in Text, s = State("brace", held, out),
             \A i \in DOMAIN held : ~ Closes(held[i]),
             Fits(parts, "$"), t \o (<<"$", "{">> \o held) = text
      PROVE  next.in = "refused" \/ \E more : Passed(longer, next, more)
  <2>. DEFINE open == <<"$", "{">>
  <2>1. open \in Text /\ t \o (open \o held) = text
    BY <1>5, Pair, MarkTokens, Zenon
  <2>2. CASE ~ Closes(c)
    <3>. DEFINE more == Append(held, c)
    <3>1. next = State("brace", more, out)
      BY <1>5, <2>2, ReadBrace
    <3>2. more \in Text /\ more = held \o <<c>>
      BY Longer
    <3>. HIDE DEF open
    <3>3. \A i \in DOMAIN more : ~ Closes(more[i])
      <4>1. /\ DOMAIN more = 1 .. Len(held) + 1 /\ more[Len(held) + 1] = c
            /\ \A i \in 1 .. Len(held) : more[i] = held[i]
            /\ DOMAIN held = 1 .. Len(held) /\ Len(held) \in Nat
        BY Longer, Beginnings, LenProperties DEF Text
      <4>. HIDE DEF more
      <4>2. \A i \in 1 .. Len(held) : ~ Closes(more[i])
        BY <1>5, <4>1
      <4>3. ~ Closes(more[Len(held) + 1])
        BY <2>2, <4>1
      <4>4. \A i \in DOMAIN more : i \in 1 .. Len(held) \/ i = Len(held) + 1
        BY <4>1
      <4>. QED
        BY <4>2, <4>3, <4>4
    <3>. HIDE DEF more
    <3>4. t \o (open \o more) = longer
      <4>1. open \o held \in Text
        BY <2>1, TextsJoined
      <4>2. open \o more = Append(open \o held, c)
        <5>1. \A u \in Text : u \o Append(held, c) = Append(u \o held, c)
          BY Longer
        <5>. QED
          BY <2>1, <5>1 DEF more
      <4>3. \A u \in Text : u \o Append(open \o held, c) = Append(u \o (open \o held), c)
        BY <4>1, Longer
      <4>. QED
        BY <1>1, <2>1, <4>2, <4>3
    <3>5. \E h \in Text :
             /\ \E o : next = State("brace", h, o)
             /\ \A i \in DOMAIN h : ~ Closes(h[i])
             /\ Fits(parts, "$") /\ TextOf(parts) \o (open \o h) = longer
      BY <1>5, <3>1, <3>2, <3>3, <3>4
    <3>6. Passed(longer, next, parts)
      BY <1>1, <3>5, Zenon DEF Passed, open
    <3>. QED
      BY <3>6
  <2>3. CASE Closes(c) /\ Refuses(Braced(held))
    <3>1. Read(State("brace", held, out), c, env).in = "refused"
      BY <2>3, ReadBrace
    <3>. QED
      BY <1>5, <3>1
  <2>4. CASE Closes(c) /\ ~ Refuses(Braced(held))
    <3>1. next = Clean(out \o Substituted(Braced(held), env))
      BY <1>5, <2>4, ReadBrace
    <3>2. \E more : /\ IsForm(more) /\ more # << >> /\ Last(more).kind = "braced"
                    /\ TextOf(more) = Append(TextOf(parts) \o (open \o held), c)
      BY <1>1, <1>5, <2>4, BracesAdded
    <3>3. PICK more : /\ IsForm(more) /\ more # << >> /\ Last(more).kind = "braced"
                      /\ TextOf(more) = Append(TextOf(parts) \o (open \o held), c)
      BY <3>2
    <3>. HIDE DEF open
    <3>4. TextOf(more) = longer
      BY <2>1, <3>3
    <3>5. Passed(longer, next, more)
      BY <3>1, <3>3, <3>4 DEF Passed
    <3>. QED
      BY <3>5
  <2>. QED
    BY <2>2, <2>3, <2>4
<1>6. ASSUME NEW out, NEW held \in Names, s = State("name", held, out),
             Fits(parts, "$"), t \o (<<"$">> \o held) = text
      PROVE  \E more : Passed(longer, next, more)
  <2>a. <<"$">> \in Text /\ held \in Text /\ <<"$">> \o held \in Text
    BY Single, MarkTokens, NameTexts, TextsJoined
  <2>1. CASE IsNameChar(c)
    <3>. DEFINE more == Append(held, c)
    <3>1. next = State("name", more, out)
      BY <1>6, <2>1, ReadName
    <3>2. /\ more \in Text /\ more # << >> /\ DOMAIN more = 1 .. Len(held) + 1 /\ more[Len(held) + 1] = c
          /\ \A i \in 1 .. Len(held) : more[i] = held[i]
          /\ DOMAIN held = 1 .. Len(held) /\ Len(held) \in Nat /\ Len(held) > 0
      BY <2>a, Longer, Beginnings, NameTexts, LenProperties DEF Text
    <3>3. IsName(held)
      BY NameTexts
    <3>. HIDE DEF more
    <3>4. more \in Names
      <4>1. more[1] = held[1] /\ \A i \in DOMAIN more : IsNameChar(more[i])
        BY <2>1, <3>2, <3>3 DEF IsName
      <4>. QED
        BY <3>2, <3>3, <4>1 DEF Names, IsName
    <3>5. t \o (<<"$">> \o more) = longer
      <4>2. <<"$">> \o more = Append(<<"$">> \o held, c)
        <5>1. \A u \in Text : u \o Append(held, c) = Append(u \o held, c)
          BY <2>a, Longer
        <5>. QED
          BY <2>a, <5>1 DEF more
      <4>3. \A u \in Text : u \o Append(<<"$">> \o held, c) = Append(u \o (<<"$">> \o held), c)
        BY <2>a, Longer
      <4>. QED
        BY <1>1, <1>6, <4>2, <4>3
    <3>6. Passed(longer, next, parts)
      BY <1>1, <1>6, <3>1, <3>4, <3>5 DEF Passed
    <3>. QED
      BY <3>6
  <2>2. CASE ~ IsNameChar(c)
    <3>1. next = Read(Clean(out \o Value(held, env)), c, env)
      BY <1>6, <2>2, ReadName
    <3>2. PICK q : /\ IsForm(q) /\ q # << >> /\ Last(q).kind = "bare"
                   /\ TextOf(q) = TextOf(parts) \o (<<"$">> \o held)
      BY <1>1, <1>6, NameAdded
    <3>3. Fits(q, c)
      BY <2>2, <3>2 DEF Fits, MayFollow
    <3>4. TextOf(q) = text
      BY <1>6, <3>2
    <3>. QED
      BY <3>1, <3>2, <3>3, <3>4, PassedOn
  <2>. QED
    BY <2>1, <2>2
<1>. QED
  BY <1>3, <1>4, <1>5, <1>6, Zenon DEF Passed

LEMMA AllPassed ==
  ASSUME NEW env
  PROVE  \A text \in Text : Reached(text, env).in = "refused" \/ \E parts : Passed(text, Reached(text, env), parts)
<1>. DEFINE T == {text \in Text : \/ Reached(text, env).in = "refused"
                                  \/ \E parts : Passed(text, Reached(text, env), parts)}
<1>1. << >> \in T
  <2>1. Reached(<< >>, env) = Clean(<< >>)
    BY ReachedNothing, FreshIsClean
  <2>2. Passed(<< >>, Reached(<< >>, env), << >>)
    BY <2>1, NoPartsIsForm, TextMore DEF Passed
  <2>. QED
    BY <2>2, Empty
<1>2. ASSUME NEW text \in Seq(Tokens), NEW c \in Tokens, text \in T PROVE Append(text, c) \in T
  <2>1. text \in Text /\ Append(text, c) \in Text
    BY Longer DEF Text
  <2>2. Reached(Append(text, c), env) = Read(Reached(text, env), c, env)
    BY <2>1, ReachedMore
  <2>3. CASE Reached(text, env).in = "refused"
    BY <2>1, <2>2, <2>3, RefusedStays
  <2>4. CASE \E parts : Passed(text, Reached(text, env), parts)
    BY <2>1, <2>2, <2>4, PassedMore
  <2>. QED
    BY <1>2, <2>3, <2>4
<1>. HIDE DEF T
<1>3. Seq(Tokens) \subseteq T
  BY <1>1, <1>2, SeqInduct
<1>. QED
  BY <1>3 DEF T, Text

(* Nothing else is read: a text that is not refused is that of a form, so that the two readers *)
(* accept the same texts.                                                                       *)
THEOREM OnlyFormsAreRead ==
  ASSUME NEW text \in Text, NEW env, Expand(text, env).in # "refused"
  PROVE  \E parts : IsForm(parts) /\ TextOf(parts) = text
<1>. DEFINE s == Reached(text, env)
<1>1. Expand(text, env) = Ended(s, env)
  BY DEF Expand, Reached
<1>. HIDE DEF s
<1>2. s.in # "refused"
  BY <1>1, RefusedStays
<1>3. PICK parts : Passed(text, s, parts)
  BY <1>2, AllPassed DEF s
<1>4. ASSUME NEW held, NEW out, s = State("brace", held, out) PROVE FALSE
  BY <1>1, <1>4, EndedAs
<1>5. CASE Fits(parts, "$") /\ TextOf(parts) \o <<"$">> = text
  BY <1>3, <1>5, DollarsAdded DEF Passed
<1>6. CASE \E held \in Names : Fits(parts, "$") /\ TextOf(parts) \o (<<"$">> \o held) = text
  BY <1>3, <1>6, NameAdded, ZenonT(60) DEF Passed
<1>7. IsForm(parts)
  BY <1>3 DEF Passed
<1>8. \/ TextOf(parts) = text
      \/ Fits(parts, "$") /\ TextOf(parts) \o <<"$">> = text
      \/ \E held \in Names : Fits(parts, "$") /\ TextOf(parts) \o (<<"$">> \o held) = text
  BY <1>3, <1>4, Zenon DEF Passed
<1>. QED
  BY <1>5, <1>6, <1>7, <1>8

=============================================================================
