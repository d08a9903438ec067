----------------------------- MODULE IncludeParser -----------------------------
(***************************************************************************)
(* Parser (utils/parser.hpp): the digest of a source and of the tracked      *)
(* headers it includes, directly or not.  The recursion is a stack of frames, *)
(* one per text being scanned, that an error unwinds one by one; cache and    *)
(* visiting outlive it and serve every later request of the runtime.          *)
(*                                                                           *)
(* A text is the sequence of its tracked include lines: a file's name, or     *)
(* BadLine for an include in a form that is refused.  A digest is the term    *)
(* <<text, digest of the 1st include, ...>>: FNV-1a is taken to be injective. *)
(* Requests come one at a time: the runtime's callers hold the GIL.           *)
(***************************************************************************)
EXTENDS Naturals, Sequences, FiniteSets

CONSTANTS Files,       (* names that tracked include lines mention          *)
          NumDirs,     (* Parser::include_dirs, searched in order           *)
          Contents,    (* for each directory, the texts its files may have  *)
          Sources,     (* texts a kernel may have                           *)
          MaxRequests, (* bound: requests                                   *)
          MaxEdits,    (* bound: edits of header files                      *)
          BadLine,     (* #include "x", #include < x> ...                   *)
          NoFile       (* no such file; the kernel's own text               *)

Dirs == 1 .. NumDirs

ASSUME ParserAssumption ==
    /\ IsFiniteSet(Files)
    /\ NumDirs \in Nat \ {0}
    /\ MaxRequests \in Nat /\ MaxEdits \in Nat
    /\ {BadLine, NoFile} \cap Files = {} /\ BadLine # NoFile
    /\ \A d \in Dirs : Contents[d] \subseteq Seq(Files \cup {BadLine})
    /\ Sources \subseteq Seq(Files \cup {BadLine})

VARIABLES
    tree,     (* the text of each file in each directory, or <<NoFile>>      *)
    cache,    (* Parser::cache: the digests of files scanned to the end      *)
    visiting, (* Parser::visiting                                            *)
    stack,    (* frames: the file, what is left of its text, the digest so far *)
    failing,  (* an exception is on its way up                               *)
    answer,   (* of the last request, until the next one or an edit          *)
    asked,    (* bound: requests made                                        *)
    edits     (* bound: files edited                                         *)

vars == <<tree, cache, visiting, stack, failing, answer, asked, edits>>

Missing == <<NoFile>>
NoAnswer == [source |-> <<>>, outcome |-> "none", digest |-> <<>>]
Frame(f, text) == [file |-> f, rest |-> text, digest |-> <<text>>]

Trees(d) == [Files -> Contents[d] \cup {Missing}]

Init == /\ tree \in {t \in [Dirs -> UNION {Trees(d) : d \in Dirs}] : \A d \in Dirs : t[d] \in Trees(d)}
        /\ cache = [f \in {} |-> <<>>]
        /\ visiting = {}
        /\ stack = <<>>
        /\ failing = FALSE
        /\ answer = NoAnswer
        /\ asked = 0
        /\ edits = 0

(* The first directory that has the file gives its text.                      *)
Find(f) ==
    LET having == {d \in Dirs : tree[d][f] # Missing}
    IN IF having = {} THEN Missing
       ELSE tree[CHOOSE d \in having : \A e \in having : d <= e][f]

-----------------------------------------------------------------------------
Depth == Len(stack)
Top == stack[Depth]
Scanning == Depth > 0 /\ ~failing
NextLine == Head(Top.rest)
SkipLine(fr) == [fr EXCEPT !.rest = Tail(@)]

(* The caller's loop after a digest d was obtained for its current line.      *)
Absorb(fr, d) == [SkipLine(fr) EXCEPT !.digest = Append(@, d)]

(* parse_into_hash on a kernel's source.                                      *)
Ask(source) ==
    /\ Depth = 0 /\ ~failing
    /\ asked < MaxRequests
    /\ asked' = asked + 1
    /\ stack' = <<Frame(NoFile, source)>>
    /\ answer' = [NoAnswer EXCEPT !.source = source]
    /\ UNCHANGED <<tree, cache, visiting, failing, edits>>

(* Between two requests somebody edits or creates a header, one whose digest  *)
(* is not cached: after changing any other the runtime must be recreated      *)
(* (README.md).                                                               *)
Edit(f, d, text) ==
    /\ Depth = 0 /\ ~failing
    /\ edits < MaxEdits
    /\ f \notin DOMAIN cache
    /\ tree' = [tree EXCEPT ![d][f] = text]
    /\ edits' = edits + 1
    /\ answer' = NoAnswer
    /\ UNCHANGED <<cache, visiting, stack, failing, asked>>

(* parse_include panics.                                                      *)
Refuse ==
    /\ Scanning /\ Top.rest # <<>>
    /\ NextLine = BadLine
    /\ failing' = TRUE
    /\ UNCHANGED <<tree, cache, visiting, stack, answer, asked, edits>>

(* MUTANT of UseCache: the view is not moved past the line.                   *)
UseCacheAgain ==
    /\ Scanning /\ Top.rest # <<>>
    /\ NextLine \in DOMAIN cache
    /\ UNCHANGED vars

UseCache ==
    /\ Scanning /\ Top.rest # <<>>
    /\ NextLine \in DOMAIN cache
    /\ stack' = [stack EXCEPT ![Depth] = Absorb(@, cache[NextLine])]
    /\ UNCHANGED <<tree, cache, visiting, failing, answer, asked, edits>>

(* The panic comes before the try block: the name stays with the frame that   *)
(* put it into visiting.                                                      *)
Circular ==
    /\ Scanning /\ Top.rest # <<>>
    /\ NextLine \in visiting \ DOMAIN cache
    /\ failing' = TRUE
    /\ UNCHANGED <<tree, cache, visiting, stack, answer, asked, edits>>

(* The name enters visiting, then the file is looked for: one that does not   *)
(* exist fails inside the try block, with a frame of its own to unwind.       *)
Enter ==
    /\ Scanning /\ Top.rest # <<>>
    /\ NextLine \in Files \ (visiting \cup DOMAIN cache)
    /\ visiting' = visiting \cup {NextLine}
    /\ stack' = Append(stack, Frame(NextLine, Find(NextLine)))
    /\ failing' = (Find(NextLine) = Missing)
    /\ UNCHANGED <<tree, cache, answer, asked, edits>>

(* MUTANT of Leave: the digest is cached under the name of the file that      *)
(* included this one.                                                         *)
LeaveWrongKey ==
    /\ Scanning /\ Depth > 1 /\ Top.rest = <<>>
    /\ visiting' = visiting \ {Top.file}
    /\ cache' = [f \in DOMAIN cache \cup {stack[Depth - 1].file} |->
                    IF f = stack[Depth - 1].file THEN Top.digest ELSE cache[f]]
    /\ stack' = [SubSeq(stack, 1, Depth - 1) EXCEPT ![Depth - 1] = Absorb(@, Top.digest)]
    /\ UNCHANGED <<tree, failing, answer, asked, edits>>

Leave ==
    /\ Scanning /\ Depth > 1 /\ Top.rest = <<>>
    /\ visiting' = visiting \ {Top.file}
    /\ cache' = [f \in DOMAIN cache \cup {Top.file} |->
                    IF f = Top.file THEN Top.digest ELSE cache[f]]
    /\ stack' = [SubSeq(stack, 1, Depth - 1) EXCEPT ![Depth - 1] = Absorb(@, Top.digest)]
    /\ UNCHANGED <<tree, failing, answer, asked, edits>>

Answer(outcome, digest) ==
    answer' = [answer EXCEPT !.outcome = outcome, !.digest = digest]

Return ==
    /\ Scanning /\ Depth = 1 /\ Top.rest = <<>>
    /\ Answer("digest", Top.digest)
    /\ stack' = <<>>
    /\ UNCHANGED <<tree, cache, visiting, failing, asked, edits>>

(* The catch block of parse_includes_into_hash, once per level; the kernel's  *)
(* own level has none and the caller gets the exception.                      *)
(* MUTANT: the catch block only rethrows.                                     *)
UnwindKeepsVisiting ==
    /\ failing
    /\ IF Depth > 1
       THEN UNCHANGED <<failing, answer>>
       ELSE failing' = FALSE /\ Answer("error", <<>>)
    /\ stack' = SubSeq(stack, 1, Depth - 1)
    /\ UNCHANGED <<tree, cache, visiting, asked, edits>>

Unwind ==
    /\ failing
    /\ IF Depth > 1
       THEN UNCHANGED <<failing, answer>>
       ELSE failing' = FALSE /\ Answer("error", <<>>)
    /\ visiting' = visiting \ {Top.file}
    /\ stack' = SubSeq(stack, 1, Depth - 1)
    /\ UNCHANGED <<tree, cache, asked, edits>>

Step == Refuse \/ UseCache \/ Circular \/ Enter \/ Leave \/ Return \/ Unwind

Next == \/ Step
        \/ \E s \in Sources : Ask(s)
        \/ \E f \in Files, d \in Dirs : \E text \in Contents[d] : Edit(f, d, text)

Spec == Init /\ [][Next]_vars

(* A request is one call of a thread that runs.                               *)
FairSpec == Spec /\ WF_vars(Step)

-----------------------------------------------------------------------------
(* What a digest is, without cache, visiting or stack: Digest[n][f] is that   *)
(* of a file whose includes are nested less than n deep.  A file all of whose *)
(* includes exist and which reaches no cycle is nested less than the number   *)
(* of files; any other has no digest.                                         *)
NoDigest == <<>>

DigestOf(text, known) ==
    IF \E i \in DOMAIN text : text[i] \notin Files \/ known[text[i]] = NoDigest
    THEN NoDigest
    ELSE <<text>> \o [i \in DOMAIN text |-> known[text[i]]]

Digest[n \in 0 .. Cardinality(Files)] ==
    IF n = 0 THEN [f \in Files |-> NoDigest]
    ELSE [f \in Files |-> DigestOf(Find(f), Digest[n - 1])]

Reference == Digest[Cardinality(Files)]

-----------------------------------------------------------------------------
TypeOK ==
    /\ DOMAIN tree = Dirs /\ \A d \in Dirs : tree[d] \in Trees(d)
    /\ DOMAIN cache \subseteq Files
    /\ visiting \subseteq Files
    /\ failing \in BOOLEAN
    /\ \A i \in DOMAIN stack : stack[i].file \in Files \cup {NoFile}
    /\ asked \in 0 .. MaxRequests
    /\ edits \in 0 .. MaxEdits

(* Whatever was asked before, however it failed, and whatever header was      *)
(* mended since, a request is answered as if it were the first one: with the  *)
(* digest of its whole tree when every tracked include of it exists and none  *)
(* is circular, with an error if not.                                         *)
AnswersMatchTree ==
    answer.outcome # "none" =>
        LET d == DigestOf(answer.source, Reference)
        IN /\ answer.outcome = "digest" <=> d # NoDigest
           /\ answer.digest = d

(* The cache holds digests of complete trees only, never one from a scan that *)
(* failed or met a cycle; and visiting is exactly the path from the source to *)
(* the file being scanned, each file on it once, so that it is empty again    *)
(* after an error at any depth.                                               *)
CacheSound ==
    /\ \A f \in DOMAIN cache : f \in Files /\ cache[f] = Reference[f]
    /\ visiting = {stack[i].file : i \in 2 .. Depth}
    /\ Cardinality(visiting) = IF Depth = 0 THEN 0 ELSE Depth - 1

(* Every request ends, on a tree with cycles too.                             *)
RequestsEnd == Depth > 0 ~> Depth = 0
=============================================================================
