---------------------------- MODULE MCTextEngine ----------------------------
(***************************************************************************)
(* TextEngine for TLC: three words, of which the first is the secret's     *)
(* shortcut and the last its phrase; a second field that asks for a        *)
(* password; and the scenarios its run goes through.                       *)
(***************************************************************************)
EXTENDS TextEngine

SecondField == {2}

Writing == [kinds |-> {"type", "delete", "space", "punctuate", "move", "select"}, most |-> 4]
Unlocking == [kinds |-> {"start", "finish", "type", "select", "pattern"}, most |-> 5]
Settings == [kinds |-> {"type", "select", "space", "toggle", "pattern", "dismiss"}, most |-> 4]
Bilingual == [kinds |-> {"accent", "select", "trim"}, most |-> 3]
Password == [kinds |-> {"start", "finish", "type", "delete", "space"}, most |-> 4]
Memory == [kinds |-> {"start", "finish", "language", "trim", "reload"}, most |-> 4]
AllScenarios == {Writing, Unlocking, Settings, Bilingual, Password, Memory}
=============================================================================
