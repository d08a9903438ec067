---------------------------- MODULE MCIncludeParser ----------------------------
(* An instance of IncludeParser for TLC: every tree of three headers in two   *)
(* directories, chains, diamonds, cycles, shadowed and missing files included. *)
EXTENDS IncludeParser

CONSTANTS f, g, h

ThreeFiles == {f, g, h}

(* The first directory has most of the headers, the second the one-line text  *)
(* that shadowing must never pick.                                            *)
Texts == <<{<<>>, <<f>>, <<h>>, <<g, h>>, <<BadLine>>}, {<<g>>}>>

Kernels == {<<f>>, <<g>>, <<f, h>>, <<h, BadLine>>}
=============================================================================
