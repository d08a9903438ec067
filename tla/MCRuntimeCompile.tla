--------------------------- MODULE MCRuntimeCompile ---------------------------
(* An instance of RuntimeCompile for TLC: no override, the check of spills    *)
(* with and without one flag more, free-form flags that spell that check out  *)
(* (and a dump, which no key knows of), and a post hook.                      *)
EXTENDS RuntimeCompile, TLC

CONSTANTS t1, t2, g1, g2, s1, s2, h1

TwoThreads == {t1, t2}
TwoTags == {g1, g2}
TwoSources == {s1, s2}
Spills == {s2}
OneHook == {h1}

DefaultOptions == [f \in OptionFields |->
    CASE f = "optimize_level" -> "-O3"
      [] f = "nvcc_flags" -> <<"-std=c++20">>
      [] f = "extra_nvcc_flags" -> <<>>
      [] f = "post_hook" -> Unset
      [] OTHER -> FALSE]

NoOverride == [f \in OptionFields |-> IF f = "extra_nvcc_flags" THEN <<>> ELSE Unset]

CallOptions == {NoOverride,
                [NoOverride EXCEPT !.check_no_spills = TRUE],
                [NoOverride EXCEPT !.check_no_spills = TRUE, !.extra_nvcc_flags = <<"-DX">>],
                [NoOverride EXCEPT !.nvcc_flags = <<"--warn-on-spills", "-std=c++20">>,
                                   !.dump_sass = TRUE],
                [NoOverride EXCEPT !.post_hook = h1]}

Symmetry == Permutations(TwoThreads) \cup Permutations(TwoTags)
=============================================================================
