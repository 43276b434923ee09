----------------------------- MODULE MCMetaHooks -----------------------------
(***************************************************************************)
(* An instance of MetaHooks for TLC with two plugins and three routines:   *)
(* "f" of the game, which the engine calls; "g" of the engine, which hooks *)
(* and routines call; and "h", which is not there.                         *)
(***************************************************************************)
EXTENDS MetaHooks

HookedByTwo ==
  {<<"f", "pre", 1>>, <<"f", "pre", 2>>, <<"f", "post", 1>>, <<"f", "post", 2>>,
   <<"g", "pre", 1>>, <<"g", "post", 2>>,
   <<"h", "post", 1>>, <<"h", "post", 2>>}

SomeMissing == [f |-> "there", g |-> "there", h |-> "missing"]

=============================================================================
