---------------------------- MODULE MCConfigFile ----------------------------
(* Short names and words, and a variable of every kind.                      *)
EXTENDS Ctl, SequencesExt

LettersDef == {"i", "p", "d", "s", "x", "1", "0"}
DestIpDef == <<"i">>
DestPortDef == <<"p">>
DevicesDef == <<"d", "s">>
VarsDef == {DestIpDef, DestPortDef, DevicesDef}
WordsDef == {<<"x", "x">>, <<"x">>, <<"1">>, <<"0">>}
LocalhostDef == <<"0">>
NumberDef == [w \in WordsDef |-> IF w = <<"1">> THEN 16307 ELSE 0]

SettingsDef ==
  {DestIpDef} \X {<<"x", "x">>, <<"0">>}
  \cup {DestPortDef} \X {<<"1">>, <<"0">>}
  \cup {DevicesDef} \X {<<"x">>}

Option(opt, arg) == [opt |-> opt, arg |-> arg]

OptionsDef ==
  {Option("t", c) : c \in {"SWITCH", "KILL", "other"}}
  \cup {Option("d", <<"1">>), Option("i", <<"x", "x">>)}
  \cup {Option("n", flag) : flag \in {"0", "1"}} \cup {Option("?", <<>>)}

ArgvsDef == SeqOf(OptionsDef, 2)
=============================================================================
