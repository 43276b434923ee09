--------------------------- MODULE MCMetaPlugins ---------------------------
(***************************************************************************)
(* Small instances of MetaPlugins: two or three plugin files and a list of *)
(* two slots.                                                              *)
(***************************************************************************)
EXTENDS MetaPlugins

CONSTANTS a, b, c

TwoFiles == {a, b}
ThreeFiles == {a, b, c}

(* Two plugins; the general and the specific build of one, b; or both: a   *)
(* plugin a and two builds of b, of which c is the specific one.           *)
TwoPlugins == [p \in TwoFiles |-> p]
OnePlugin  == [p \in TwoFiles |-> b]
TwoAndBuild == [p \in ThreeFiles |-> IF p = c THEN b ELSE p]

SpecificB == [p \in TwoFiles |-> IF p = b THEN 1 ELSE 0]
SpecificC == [p \in ThreeFiles |-> IF p = c THEN 1 ELSE 0]

B(load, unload) == [valid |-> TRUE, loadable |-> load, unloadable |-> unload]

(* Any time, at changelevels only, at server start only, and not a plugin  *)
(* at all.                                                                 *)
Anytime == B(PT_ANYPAUSE, PT_ANYPAUSE)
AtLevel == B(PT_CHANGELEVEL, PT_CHANGELEVEL)
AtStart == B(PT_STARTUP, PT_STARTUP)
Bad     == [valid |-> FALSE, loadable |-> PT_NEVER, unloadable |-> PT_NEVER]

MCBuild == {Anytime, AtLevel, AtStart, Bad}

(* What the files hold: always the same, or one disappears and comes back  *)
(* and another turns bad.                                                  *)
LevelAny == [p \in TwoFiles |-> IF p = a THEN {AtLevel} ELSE {Anytime}]
Changing == [p \in ThreeFiles |-> CASE p = a -> {AtLevel, NoFile}
                                    [] p = b -> {Anytime}
                                    [] p = c -> {AtStart, Bad}]

IniBuilds == {<<a, c>>, <<b>>, <<b, c>>}
IniMore   == {NoFile, <<>>, <<a>>, <<b>>, <<b, a>>}
IniTwice  == IniMore \cup {<<a, a, b>>}

=============================================================================
