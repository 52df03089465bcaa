----------------------------- MODULE SpecFile -----------------------------
(***************************************************************************)
(* How dinix-init reads its spec file: the substitution of environment     *)
(* variables in a path (dinix-init/src/expand.rs) and the lines            *)
(* (dinix-init/src/spec.rs).                                               *)
(*                                                                         *)
(* A text is a sequence of tokens: characters, or words, runs of letters   *)
(* and digits that nothing looks inside.  An environment is a function     *)
(* from the names that are set, which are texts, to their values.          *)
(* Recursion is over the length of a text, so that it can be proved about. *)
(***************************************************************************)
EXTENDS Integers, Sequences, SequencesExt

CONSTANTS Tokens,     \* what texts are made of
          Marks,      \* the characters that no name has
          Digits,     \* what a name may have but not begin with
          Malformed   \* a field, or a text, that is not what its place asks for

ASSUME TokensAssumption ==
    /\ {"$", "{", "}", ":", "-", "+", "/"} \subseteq Marks
    /\ Marks \subseteq Tokens

IsNameChar(c)  == c \notin Marks
IsNameStart(c) == c \notin Marks \cup Digits
IsName(name)   == name # << >> /\ IsNameStart(name[1]) /\ \A i \in DOMAIN name : IsNameChar(name[i])

Text == Seq(Tokens)
IsEnv(env) == \A name \in DOMAIN env : env[name] \in Text

Value(name, env) == IF name \in DOMAIN env THEN env[name] ELSE << >>

-----------------------------------------------------------------------------
(* ${...}: the name, the operator and the word.                            *)

\* Where the name ends: at the first mark of an operator.
NameEnd(inner) ==
    LET marks == {i \in DOMAIN inner : inner[i] \in {":", "-", "+"}}
    IN  IF marks = {} THEN Len(inner) + 1 ELSE CHOOSE i \in marks : \A j \in marks : i <= j

(* Mutant of Braced: the operator is looked for from the end, so that it is found in the word. *)
BracedFromEnd(inner) ==
    LET marks == {i \in DOMAIN inner : inner[i] \in {"-", "+"}}
        at    == IF marks = {} THEN Len(inner) + 1 ELSE CHOOSE i \in marks : \A j \in marks : i >= j
        colon == at \in 2 .. Len(inner) /\ inner[at - 1] = ":"
    IN  [name |-> SubSeq(inner, 1, IF colon THEN at - 2 ELSE at - 1), colon |-> colon,
         sign |-> IF at > Len(inner) THEN "" ELSE inner[at],
         word |-> SubSeq(inner, at + 1, Len(inner))]

Braced(inner) ==
    LET at    == NameEnd(inner)
        rest  == SubSeq(inner, at, Len(inner))
        colon == rest # << >> /\ rest[1] = ":"
        signed == IF colon THEN Tail(rest) ELSE rest
    IN  [name |-> SubSeq(inner, 1, at - 1), colon |-> colon,
         sign |-> IF signed = << >> THEN "" ELSE signed[1],
         word |-> IF signed = << >> THEN << >> ELSE Tail(signed)]

\* expand_braced refuses an operator it does not know, and what is no name.
Refuses(b) == (b.sign \notin {"-", "+"} /\ (b.sign # "" \/ b.colon)) \/ ~ IsName(b.name)

(* Mutant of Present: an empty value counts as set, whatever the operator. *)
PresentIfSet(b, env) == b.name \in DOMAIN env

\* With a colon an empty value is as good as none.
Present(b, env) == b.name \in DOMAIN env /\ (b.colon => env[b.name] # << >>)

Substituted(b, env) ==
    IF b.sign = "+" THEN IF Present(b, env) THEN b.word ELSE << >>
                    ELSE IF Present(b, env) THEN env[b.name] ELSE b.word

-----------------------------------------------------------------------------
(* expand: one character at a time.                                        *)

State(in, held, out) == [in |-> in, held |-> held, out |-> out]
Fresh == State("text", << >>, << >>)

Put(s, text)  == State("text", << >>, s.out \o text)
Hold(s, c)    == State(s.in, Append(s.held, c), s.out)
Refuse(s)     == State("refused", << >>, s.out)

\* A character outside of any variable.
Plain(s, c) == IF c = "$" THEN State("dollar", << >>, s.out) ELSE Put(s, <<c>>)

AfterDollar(s, c) ==
    CASE c = "$"        -> Put(s, <<"$">>)
      [] c = "{"        -> State("brace", << >>, s.out)
      [] IsNameStart(c) -> State("name", <<c>>, s.out)
      [] OTHER          -> Put(s, <<"$", c>>)

InBrace(s, c, env) ==
    LET b == Braced(s.held)
    IN  IF c # "}" THEN Hold(s, c)
        ELSE IF Refuses(b) THEN Refuse(s) ELSE Put(s, Substituted(b, env))

InName(s, c, env) == IF IsNameChar(c) THEN Hold(s, c) ELSE Plain(Put(s, Value(s.held, env)), c)

Read(s, c, env) ==
    CASE s.in = "text"   -> Plain(s, c)
      [] s.in = "dollar" -> AfterDollar(s, c)
      [] s.in = "brace"  -> InBrace(s, c, env)
      [] s.in = "name"   -> InName(s, c, env)
      [] OTHER           -> s

\* The end of the text ends a name, makes a dollar a dollar, and leaves a brace unmatched.
Ended(s, env) ==
    CASE s.in = "brace"  -> Refuse(s)
      [] s.in = "dollar" -> Put(s, <<"$">>)
      [] s.in = "name"   -> Put(s, Value(s.held, env))
      [] OTHER           -> s

\* The state of the loop after each number of characters.
After(text, env) ==
    LET s[n \in 0 .. Len(text)] == IF n = 0 THEN Fresh ELSE Read(s[n - 1], text[n], env)
    IN  s

Expand(text, env) == Ended(After(text, env)[Len(text)], env)

\* A text as a path: the names between the slashes.
PathOf(text) ==
    LET cut(names, c) == IF c = "/" THEN Append(names, << >>)
                         ELSE Append(Front(names), Append(Last(names), c))
    IN  SelectSeq(FoldLeft(cut, << << >> >>, text), LAMBDA name : name # << >>)

-----------------------------------------------------------------------------
(* parse: every line, or nothing.                                          *)

WellFormed(line) ==
    \/ line.op = "dir" /\ Malformed \notin {line.mode, line.uid, line.gid}
    \/ line.op = "must-exist" /\ line.kind # Malformed

Readable(line, env) == WellFormed(line) /\ line.path # << >> /\ Expand(line.path, env).in # "refused"

StepOf(line, env) == [line EXCEPT !.path = PathOf(Expand(line.path, env).out)]

(* Mutant of Parse: the lines before one that cannot be read are carried out. *)
ParseUpToError(lines, env) ==
    LET good == {n \in 0 .. Len(lines) : \A i \in 1 .. n : Readable(lines[i], env)}
        last == CHOOSE n \in good : \A k \in good : k <= n
    IN  [ok |-> last > 0, steps |-> [i \in 1 .. last |-> StepOf(lines[i], env)]]

Parse(lines, env) ==
    IF \A i \in DOMAIN lines : Readable(lines[i], env)
    THEN [ok |-> TRUE, steps |-> [i \in DOMAIN lines |-> StepOf(lines[i], env)]]
    ELSE [ok |-> FALSE, steps |-> << >>]

-----------------------------------------------------------------------------
(* What dinit makes of the same text in a service's description: the forms *)
(* of dinit-service(5), as expand.rs quotes them.  A text that has one of  *)
(* these forms is the sequence of its parts.                               *)

Names == {name \in Text : IsName(name)}
Signs == {<<":", "-">>, <<"-">>, <<":", "+">>, <<"+">>}

Parts ==
    [kind : {"text"}, text : {t \in Text : t # << >> /\ ~ Contains(t, "$")}]
        \cup [kind : {"dollar", "loose"}]                     \* $$, and a $ before anything else
        \cup [kind : {"bare"}, name : Names]
        \cup [kind : {"braced"}, name : Names, sign : {<< >>}, word : {<< >>}]
        \cup [kind : {"braced"}, name : Names, sign : Signs, word : {w \in Text : ~ Contains(w, "}")}]

Written(part) ==
    CASE part.kind = "text"   -> part.text
      [] part.kind = "dollar" -> <<"$", "$">>
      [] part.kind = "loose"  -> <<"$">>
      [] part.kind = "bare"   -> <<"$">> \o part.name
      [] part.kind = "braced" ->
             <<"$", "{">> \o part.name \o part.sign \o part.word \o <<"}">>

\* A variable in braces: its value, or the word in its place.
InBraces(part, env) ==
    LET value == Value(part.name, env)
        set   == part.name \in DOMAIN env
    IN  CASE part.sign = << >>       -> value
          [] part.sign = <<":", "-">> -> IF value = << >> THEN part.word ELSE value
          [] part.sign = <<"-">>      -> IF set THEN value ELSE part.word
          [] part.sign = <<":", "+">> -> IF value = << >> THEN << >> ELSE part.word
          [] part.sign = <<"+">>      -> IF set THEN part.word ELSE << >>

Meant(part, env) ==
    CASE part.kind = "text"   -> part.text
      [] part.kind \in {"dollar", "loose"} -> <<"$">>
      [] part.kind = "bare"   -> Value(part.name, env)
      [] part.kind = "braced" -> InBraces(part, env)

\* A name goes on as long as it can, and a dollar is loose only where nothing else fits.
MayFollow(part, c) ==
    /\ part.kind = "bare" => ~ IsNameChar(c)
    /\ part.kind = "loose" => c \notin {"$", "{"} /\ ~ IsNameStart(c)

IsForm(parts) ==
    /\ parts \in Seq(Parts)
    /\ \A i \in 1 .. Len(parts) - 1 : MayFollow(parts[i], Written(parts[i + 1])[1])

TextOf(parts)       == FlattenSeq([i \in DOMAIN parts |-> Written(parts[i])])
Said(parts, env)    == FlattenSeq([i \in DOMAIN parts |-> Meant(parts[i], env)])
Meaning(parts, env) == PathOf(Said(parts, env))
=============================================================================
