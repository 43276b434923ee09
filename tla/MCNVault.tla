------------------------------ MODULE MCNVault ------------------------------
(***************************************************************************)
(* Instances of NVault for TLC, which differ in what may happen.           *)
(***************************************************************************)
EXTENDS NVault, TLC

CONSTANTS k1, k2, v1, v2

TwoKeys == {k1, k2}
TwoValues == {v1, v2}

Keys == Permutations(TwoKeys)

AllOrSome == {<<0, 0>>, <<0, 2>>, <<1, 0>>}

(* A crash, and a second one in the session that began with a recovery.    *)
Twice == {"crash", "crash again"}

=============================================================================
