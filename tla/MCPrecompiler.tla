---------------------------- MODULE MCPrecompiler ----------------------------
(* Instances of Precompiler for TLC.                                          *)
EXTENDS Precompiler, TLC

CONSTANTS k1, k2, k3

ThreeKeys == {k1, k2, k3}
=============================================================================
