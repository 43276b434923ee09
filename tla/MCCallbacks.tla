----------------------------- MODULE MCCallbacks -----------------------------
(***************************************************************************)
(* Instances of Callbacks for TLC: two plugins.                            *)
(***************************************************************************)
EXTENDS Callbacks

CONSTANTS p1, p2

TwoPlugins == {p1, p2}

(* A repeat of -1 loops for ever, as flag "b"; 0 is never called. *)
Repeats == {-1, 0, 2}

=============================================================================
