----------------------------- MODULE MCAccount -----------------------------
(* Instances of AccountLifecycle with two coroutines. *)
EXTENDS AccountLifecycle, TLC

CONSTANTS x1, x2

MCAuths    == {x1, x2}
MCSymmetry == Permutations(MCAuths)
=============================================================================
