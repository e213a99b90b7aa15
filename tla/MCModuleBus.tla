---------------------------- MODULE MCModuleBus ----------------------------
(***************************************************************************)
(* ModuleBus for TLC: two modules on one hub, replies of a few bytes.      *)
(***************************************************************************)
EXTENDS ModuleBus, TLC

CONSTANTS m1, m2

MCChild == {m1, m2}

OneChild == {m1}

Symmetry == Permutations(MCChild)

AllKinds == {"exchange", "raw", "query", "set"}

ExchangeAndQuery == {"exchange", "query"}
=============================================================================
