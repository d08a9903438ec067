------------------------------ MODULE MCCommand ------------------------------
(* An instance of Command for TLC: two threads, and as many descriptors and   *)
(* process identifiers as two calls use at once, so that both are reused.     *)
EXTENDS Command

CONSTANTS c1, c2

OneCall == {c1}
TwoCalls == {c1, c2}
=============================================================================
