--------------------------- MODULE MCProvision ---------------------------
(***************************************************************************)
(* Instances of Provision: a volume /data that may be mounted late, a      *)
(* place /vol for links to lead to, and /run, which every container makes  *)
(* makes anew.  User 7 is the ordinary user.  StateVar is DINIX_STATE_DIR, *)
(* which leads to /vol outside a container.                                *)
(***************************************************************************)
EXTENDS Provision, TLC

Data == << <<"data">> >>
Pg   == << <<"data">>, <<"pg">> >>
Vol  == << <<"vol">> >>
VolPg == << <<"vol">>, <<"pg">> >>
Run  == << <<"run">> >>
Sock == << <<"run">>, <<"sock">> >>
Cash == << <<"$", ".", "run">> >>

\* The point is a mark that no substitution has a use for.
MCMarks  == {"$", "{", "}", ":", "-", "+", "/", "."}
MCDigits == {"1"}
MCTokens == MCMarks \cup MCDigits \cup {"data", "pg", "vol", "run", "sock", "STATE", "SUB", "NO", "a", "b"}

MCPaths   == {Data, Pg, Vol, VolPg, Run, Sock, Cash}
MCVolumes == {Data, Pg, Vol, VolPg}
MCMounts  == {Data}

StateVar == <<"STATE">>
SUB   == <<"SUB", "1">>
ToVol == <<"/", "vol">>
ToPg  == <<"/", "pg">>

\* In a container; outside one; and with a variable that is set and empty.
MCEnvs == { << >>, StateVar :> ToVol @@ SUB :> ToPg, SUB :> << >> }

T(text)               == [kind |-> "text", text |-> text]
Dollar                == [kind |-> "dollar"]
Loose                 == [kind |-> "loose"]
Bare(name)            == [kind |-> "bare", name |-> name]
Var(name, sign, word) == [kind |-> "braced", name |-> name, sign |-> sign, word |-> word]

Make(parts, mode, uid, gid) ==
    [op |-> "dir", path |-> TextOf(parts), parts |-> parts, mode |-> mode, uid |-> uid, gid |-> gid]
Need(parts, kind) == [op |-> "must-exist", path |-> TextOf(parts), parts |-> parts, kind |-> kind]

StateDir == <<Var(StateVar, <<":", "-">>, <<"/", "data">>)>>      \* service-lib.nix's stateDir
ToData   == <<T(<<"/", "data">>)>>

MCSpecFiles ==
    { \* a mounted volume with a directory to make in it, as postgres asks for
      <<Need(StateDir, "dir"), Make(StateDir, 493, Unset, Unset),
        Make(Append(StateDir, T(ToPg)), 448, 7, 7)>>,
      \* a parent named after its child, with a mode wider than chmod keeps
      <<Make(<<T(<<"/", "run", "/", "/", "sock">>)>>, 448, 7, Unset),
        Make(<<T(<<"/", "run">>), Var(SUB, <<":", "+">>, << >>)>>, 4096 + 493, 0, Unset)>>,
      \* one directory named twice, the first time with no search bit for the group; and one
      \* that may or may not be below it
      <<Make(ToData, 448, Unset, 7), Make(Append(ToData, Var(SUB, <<":", "-">>, ToPg)), 493, Unset, Unset),
        Make(ToData, 488, 7, 0)>>,
      <<Make(<<T(<<"/">>), Dollar, T(<<".", "run">>), Var(<<"NO">>, << >>, << >>)>>, 493, 0, 0),
        Make(Append(ToData, Bare(SUB)), 448, 7, Unset), Make(Append(ToData, Var(SUB, <<"-">>, ToPg)), 493, 7, 7)>>,
      <<Make(<<T(<<"/">>), Loose, T(<<".", "run">>)>>, 493, 0, 0),
        Make(<<T(<<"/", "data">>), Var(SUB, <<"+">>, ToPg)>>, 493, 0, 0),
        Make(<<Var(<<"NO">>, <<"-">>, ToVol), Var(StateVar, <<":", "+">>, ToPg),
               Var(<<"NO">>, <<":", "+">>, <<"a", "-", "b">>)>>, 493, 0, 0)>>,
      \* a brace that is not closed, after a line that is well
      <<Make(ToData, 493, 7, 7), [Make(<< >>, 493, 7, 7) EXCEPT !.path = <<"$", "{", "STATE">>,
                                                               !.parts = Malformed]>>,
      \* a mode that is not octal
      <<Need(ToData, "dir"), Make(ToData, 448, 7, 7), Make(ToData, Malformed, 7, 7)>> }

Nothing == [p \in MCPaths |-> Absent]

MCTrees ==
    { Nothing,
      [Nothing EXCEPT ![Data] = Dir(493, 7, 7)],
      [Nothing EXCEPT ![Data] = Dir(493, 0, 0), ![Pg] = Dir(448, 7, 7), ![Run] = Dir(511, 0, 0)],
      [Nothing EXCEPT ![Data] = Dir(448, 7, 0), ![Pg] = Link(Vol), ![Vol] = Dir(493, 0, 0)],
      [Nothing EXCEPT ![Data] = Link(Vol), ![Vol] = Dir(493, 7, 0), ![Run] = File],
      [Nothing EXCEPT ![Data] = Link(Vol), ![Run] = Dir(493, 7, 7), ![Sock] = File] }
=============================================================================
