-------------------------- MODULE IncludeParserProofs --------------------------
(***************************************************************************)
(* Theorems of IncludeParser: whatever was asked before, the digest of a      *)
(* source is that of its whole tree, or there is none; the cache holds        *)
(* digests of complete trees, and visiting is the path being scanned.         *)
(*                                                                           *)
(* What a digest is, is defined by recursion; the facts about it are proved   *)
(* by induction on how deep includes are nested, over a set of numbers.       *)
(***************************************************************************)
EXTENDS IncludeParser, FiniteSetTheorems, FunctionTheorems, WellFoundedInduction,
        SequenceTheorems, TLAPS

-----------------------------------------------------------------------------
(* What the search of the directories finds, and the text of a frame.          *)
Lines == Files \cup {BadLine, NoFile}

TextIn(dirs, f) ==
    LET having == {d \in Dirs : dirs[d][f] # Missing}
    IN IF having = {} THEN Missing
       ELSE dirs[CHOOSE d \in having : \A e \in having : d <= e][f]

TextOf(i) == IF i = 1 THEN answer.source ELSE TextIn(tree, stack[i].file)

(* Reference, as a function of what each name is found to contain.            *)
Depths == 0 .. Cardinality(Files)

TextsIn(dirs) == [f \in Files |-> TextIn(dirs, f)]

(* Digests for includes nested less and less deep.                            *)
Nested(D, N, texts) ==
    /\ DOMAIN D = 0 .. N
    /\ D[0] = [f \in Files |-> NoDigest]
    /\ \A n \in 0 .. N : n < N => D[n + 1] = [f \in Files |-> DigestOf(texts[f], D[n])]

Digests(texts) == CHOOSE D : Nested(D, Cardinality(Files), texts)

(* What DigestIs shows Reference to be.                                        *)
Final == Digests(TextsIn(tree))[Cardinality(Files)]

-----------------------------------------------------------------------------
(* A text of which k lines have been scanned.                                 *)
Scanned(text, k, known) == <<text>> \o [j \in 1 .. k |-> known[text[j]]]

FrameAt(fr, k, text, known) ==
    /\ fr = [file |-> fr.file, rest |-> SubSeq(text, k + 1, Len(text)),
             digest |-> Scanned(text, k, known)]
    /\ \A j \in 1 .. k : text[j] \in DOMAIN known

IsStack == \E S : stack \in Seq(S)

(* Every frame is some lines into its text, at the one that the next frame is *)
(* a scan of; what it has passed is in the cache.                             *)
FrameInv ==
    \A i \in 1 .. Depth : \E k \in 0 .. Len(TextOf(i)) :
        /\ FrameAt(stack[i], k, TextOf(i), cache)
        /\ i < Depth => k < Len(TextOf(i)) /\ TextOf(i)[k + 1] = stack[i + 1].file

(* The frames after the source's are of the files in visiting, each once.     *)
PathInv ==
    /\ Depth > 0 => stack[1].file = NoFile
    /\ \A i \in 2 .. Depth : stack[i].file \in Files \ DOMAIN cache
    /\ \A i, j \in 2 .. Depth : stack[i].file = stack[j].file => i = j
    /\ visiting = {stack[i].file : i \in 2 .. Depth}

(* A file in the cache includes only such files, nested less deep than the    *)
(* cache has files.                                                           *)
CacheInv ==
    \A f \in DOMAIN cache :
        /\ f \in Files
        /\ \A j \in DOMAIN TextIn(tree, f) : TextIn(tree, f)[j] \in DOMAIN cache
        /\ cache[f] # NoDigest
        /\ Digests(TextsIn(tree))[Cardinality(DOMAIN cache)][f] = cache[f]

(* An exception is on its way up only from what has no digest.                *)
Hopeless ==
    /\ Depth > 0
    /\ \A i \in 2 .. Depth : Final[stack[i].file] = NoDigest
    /\ DigestOf(answer.source, Final) = NoDigest

AtDeadEnd == \E k \in DOMAIN TextOf(Depth) : TextOf(Depth)[k] \notin Files \ visiting

FailInv == failing => Hopeless

AnswerInv ==
    /\ answer = [source |-> answer.source, outcome |-> answer.outcome, digest |-> answer.digest]
    /\ answer.source \in Sources \cup {<<>>}
    /\ answer.outcome \in {"none", "digest", "error"}
    /\ Depth > 0 => answer.outcome = "none"

Scan == TypeOK /\ IsStack /\ AnswerInv /\ PathInv /\ FrameInv

IInv == Scan /\ CacheInv /\ FailInv /\ AnswersMatchTree

-----------------------------------------------------------------------------
(* Induction.                                                                 *)
LEMMA Smallest ==
    ASSUME NEW S \in SUBSET Nat, S # {}
    PROVE  \E n \in S : \A m \in S : n <= m
<1> DEFINE Less == OpToRel(<, Nat)
<1>1. IsWellFoundedOn(Less, Nat)
  BY NatLessThanWellFounded
<1>2. \E n \in S : \A m \in S : <<m, n>> \notin Less
  <2> HIDE DEF Less
  <2> QED
    BY <1>1, WFMin
<1>3. \A m, n \in Nat : <<m, n>> \notin Less => n <= m
  BY DEF OpToRel
<1>4. PICK n \in S : \A m \in S : <<m, n>> \notin Less
  BY <1>2
<1>5. \A m \in S : n <= m
  BY <1>3, <1>4
<1> QED
  BY <1>5

LEMMA Induction ==
    ASSUME NEW N \in Nat, NEW S, 0 \in S, \A n \in 0 .. N : n \in S /\ n < N => n + 1 \in S
    PROVE  \A n \in 0 .. N : n \in S
<1> SUFFICES ASSUME {n \in 0 .. N : n \notin S} # {} PROVE FALSE
  OBVIOUS
<1>1. PICK n \in {m \in 0 .. N : m \notin S} : \A m \in {k \in 0 .. N : k \notin S} : n <= m
  <2>1. {m \in 0 .. N : m \notin S} \in SUBSET Nat
    OBVIOUS
  <2> QED
    BY <2>1, Smallest
<1>2. n # 0 /\ n - 1 \in 0 .. N /\ n - 1 < N /\ (n - 1) + 1 = n
  BY <1>1
<1>3. n - 1 \in S
  BY <1>1, <1>2
<1> QED
  BY <1>1, <1>2, <1>3

-----------------------------------------------------------------------------
(* The digest of a text of which k lines have been scanned.                   *)
LEMMA ScannedNone ==
    ASSUME NEW text, NEW known
    PROVE  Scanned(text, 0, known) = <<text>>
BY DEF Scanned

LEMMA ScannedMore ==
    ASSUME NEW text, NEW k \in Nat, NEW known
    PROVE  Append(Scanned(text, k, known), known[text[k + 1]]) = Scanned(text, k + 1, known)
BY DEF Scanned

LEMMA ScannedSome ==
    ASSUME NEW text, NEW k \in Nat, NEW known
    PROVE  Scanned(text, k, known) # NoDigest
BY DEF Scanned, NoDigest

LEMMA ScannedSame ==
    ASSUME NEW text, NEW k \in Nat, NEW known, NEW other,
           \A j \in 1 .. k : known[text[j]] = other[text[j]]
    PROVE  Scanned(text, k, known) = Scanned(text, k, other)
BY DEF Scanned

-----------------------------------------------------------------------------
(* The digests of every depth.                                                *)
LEMMA FilesCounted == Cardinality(Files) \in Nat
BY ParserAssumption, FS_CardinalityType

LEMMA NestedExists ==
    ASSUME NEW texts, NEW N \in Nat
    PROVE  \E D : Nested(D, N, texts)
<1> DEFINE S == {n \in 0 .. N : \E D : Nested(D, n, texts)}
<1>1. 0 \in S
  <2>1. Nested([m \in 0 .. 0 |-> [f \in Files |-> NoDigest]], 0, texts)
    BY DEF Nested
  <2> QED
    BY <2>1
<1>2. ASSUME NEW n \in 0 .. N, n \in S, n < N PROVE n + 1 \in S
  <2>1. PICK D : Nested(D, n, texts)
    BY <1>2
  <2> DEFINE E == [m \in 0 .. n + 1 |->
                     IF m <= n THEN D[m] ELSE [f \in Files |-> DigestOf(texts[f], D[n])]]
  <2>2. DOMAIN E = 0 .. n + 1 /\ E[0] = D[0]
    OBVIOUS
  <2>3. ASSUME NEW m \in 0 .. n + 1, m < n + 1
        PROVE  E[m + 1] = [f \in Files |-> DigestOf(texts[f], E[m])]
    <3>1. E[m] = D[m]
      BY <2>3
    <3>2. CASE m = n
      <4>1. E[m + 1] = [f \in Files |-> DigestOf(texts[f], D[n])]
        BY <3>2
      <4> HIDE DEF E
      <4> QED
        BY <3>1, <3>2, <4>1
    <3>3. CASE m < n
      <4>1. E[m + 1] = D[m + 1] /\ m \in 0 .. n
        BY <3>3
      <4>2. D[m + 1] = [f \in Files |-> DigestOf(texts[f], D[m])]
        BY <2>1, <3>3, <4>1 DEF Nested
      <4> HIDE DEF E
      <4> QED
        BY <3>1, <4>1, <4>2
    <3> QED
      BY <2>3, <3>2, <3>3
  <2>4. Nested(E, n + 1, texts)
    <3> HIDE DEF E
    <3> QED
      BY <2>1, <2>2, <2>3 DEF Nested
  <2>5. n + 1 \in 0 .. N
    BY <1>2
  <2> HIDE DEF E
  <2> QED
    BY <2>4, <2>5
<1>3. \A n \in 0 .. N : n \in S
  <2> HIDE DEF S
  <2> QED
    BY <1>1, <1>2, Induction
<1> QED
  BY <1>3

LEMMA NestedOnce ==
    ASSUME NEW texts, NEW N \in Nat, NEW D, NEW E, Nested(D, N, texts), Nested(E, N, texts)
    PROVE  \A n \in 0 .. N : D[n] = E[n]
<1> DEFINE S == {n \in 0 .. N : D[n] = E[n]}
<1>1. 0 \in S
  BY DEF Nested
<1>2. ASSUME NEW n \in 0 .. N, n \in S, n < N PROVE n + 1 \in S
  <2>1. n + 1 \in 0 .. N /\ D[n] = E[n]
    BY <1>2
  <2>2. /\ D[n + 1] = [f \in Files |-> DigestOf(texts[f], D[n])]
        /\ E[n + 1] = [f \in Files |-> DigestOf(texts[f], E[n])]
    BY <1>2 DEF Nested
  <2> QED
    BY <2>1, <2>2
<1>3. \A n \in 0 .. N : n \in S
  <2> HIDE DEF S
  <2> QED
    BY <1>1, <1>2, Induction
<1> QED
  BY <1>3

LEMMA DigestsNested == \A texts : Nested(Digests(texts), Cardinality(Files), texts)
<1> SUFFICES ASSUME NEW texts PROVE Nested(Digests(texts), Cardinality(Files), texts)
  OBVIOUS
<1>1. \E D : Nested(D, Cardinality(Files), texts)
  BY FilesCounted, NestedExists
<1> QED
  BY <1>1 DEF Digests

LEMMA DigestsStep ==
    ASSUME NEW texts
    PROVE  /\ \A f \in Files : Digests(texts)[0][f] = NoDigest
           /\ \A n \in Depths : n < Cardinality(Files) =>
                 \A f \in Files : Digests(texts)[n + 1][f] = DigestOf(texts[f], Digests(texts)[n])
<1>1. Nested(Digests(texts), Cardinality(Files), texts)
  BY DigestsNested
<1> DEFINE D == Digests(texts)
<1>2. \A f \in Files : D[0][f] = NoDigest
  BY <1>1 DEF Nested
<1>3. ASSUME NEW n \in Depths, n < Cardinality(Files), NEW f \in Files
      PROVE  D[n + 1][f] = DigestOf(texts[f], D[n])
  <2>1. D[n + 1] = [g \in Files |-> DigestOf(texts[g], D[n])]
    BY <1>1, <1>3 DEF Nested, Depths
  <2> HIDE DEF D
  <2> QED
    BY <2>1
<1> QED
  BY <1>2, <1>3

(* The definition of the model is this one.                                   *)
LEMMA DigestIs == \A n \in Depths : Digest[n] = Digests(TextsIn(tree))[n]
<1> DEFINE texts == TextsIn(tree)
           N == Cardinality(Files)
<1>1. N \in Nat
  BY FilesCounted
<1>2. \A f \in Files : texts[f] = Find(f)
  BY DEF TextsIn, TextIn, Find
<1>3. PICK D : Nested(D, N, texts)
  BY <1>1, NestedExists
<1> DEFINE E == [n \in 0 .. N |-> D[n]]
<1>4. E = [n \in 0 .. N |-> IF n = 0 THEN [f \in Files |-> NoDigest]
                            ELSE [f \in Files |-> DigestOf(Find(f), E[n - 1])]]
  <2> SUFFICES ASSUME NEW n \in 0 .. N
               PROVE  D[n] = IF n = 0 THEN [f \in Files |-> NoDigest]
                             ELSE [f \in Files |-> DigestOf(Find(f), E[n - 1])]
    OBVIOUS
  <2>1. CASE n = 0
    BY <1>3, <2>1 DEF Nested
  <2>2. CASE n # 0
    <3>1. n - 1 \in 0 .. N /\ n - 1 < N /\ (n - 1) + 1 = n
      BY <1>1, <2>2
    <3>2. D[n] = [f \in Files |-> DigestOf(texts[f], D[n - 1])]
      BY <1>3, <3>1 DEF Nested
    <3>3. E[n - 1] = D[n - 1]
      BY <3>1
    <3> HIDE DEF E, texts
    <3> QED
      BY <1>2, <2>2, <3>2, <3>3
  <2> QED
    BY <2>1, <2>2
<1>5. Digest = [n \in 0 .. N |-> IF n = 0 THEN [f \in Files |-> NoDigest]
                                 ELSE [f \in Files |-> DigestOf(Find(f), Digest[n - 1])]]
  <2> HIDE DEF E
  <2> QED
    BY <1>4 DEF Digest
<1>6. Nested(Digest, N, texts)
  <2>1. DOMAIN Digest = 0 .. N
    BY <1>5
  <2>2. Digest[0] = [f \in Files |-> NoDigest]
    BY <1>1, <1>5
  <2>3. ASSUME NEW n \in 0 .. N, n < N
        PROVE  Digest[n + 1] = [f \in Files |-> DigestOf(texts[f], Digest[n])]
    <3>1. n + 1 \in 0 .. N /\ n + 1 # 0 /\ (n + 1) - 1 = n
      BY <1>1, <2>3
    <3>2. Digest[n + 1] = [f \in Files |-> DigestOf(Find(f), Digest[n])]
      BY <1>5, <3>1
    <3> HIDE DEF texts
    <3> QED
      BY <1>2, <3>2
  <2> QED
    BY <2>1, <2>2, <2>3 DEF Nested
<1>7. \A n \in 0 .. N : Digest[n] = Digests(texts)[n]
  <2>1. Nested(Digests(texts), N, texts)
    BY DigestsNested
  <2> HIDE DEF texts
  <2> QED
    BY <1>1, <1>6, <2>1, NestedOnce
<1> QED
  BY <1>7 DEF Depths

-----------------------------------------------------------------------------
(* A digest, once it is there, is that of every greater depth.                *)
LEMMA DigestsStay ==
    ASSUME NEW texts
    PROVE  \A n \in Depths : n < Cardinality(Files) =>
              \A f \in Files : Digests(texts)[n][f] # NoDigest =>
                 Digests(texts)[n + 1][f] = Digests(texts)[n][f]
<1> DEFINE D == Digests(texts)
           N == Cardinality(Files)
           S == {n \in Depths : n < N => \A f \in Files : D[n][f] # NoDigest => D[n + 1][f] = D[n][f]}
<1>1. N \in Nat /\ Depths = 0 .. N
  BY FilesCounted DEF Depths
<1>2. \A f \in Files : D[0][f] = NoDigest
  BY DigestsStep
<1>3. \A n \in Depths : n < N => \A f \in Files : D[n + 1][f] = DigestOf(texts[f], D[n])
  BY DigestsStep
<1> HIDE DEF D
<1>4. 0 \in S
  BY <1>1, <1>2
<1>5. ASSUME NEW n \in 0 .. N, n \in S, n < N PROVE n + 1 \in S
  <2> SUFFICES ASSUME n + 1 < N, NEW f \in Files, D[n + 1][f] # NoDigest
               PROVE  D[(n + 1) + 1][f] = D[n + 1][f]
    BY <1>1, <1>5
  <2>1. n \in Depths /\ n + 1 \in Depths
    BY <1>1, <1>5
  <2>2. D[n + 1][f] = DigestOf(texts[f], D[n]) /\ D[(n + 1) + 1][f] = DigestOf(texts[f], D[n + 1])
    BY <1>3, <1>5, <2>1
  <2>3. \A i \in DOMAIN texts[f] : texts[f][i] \in Files /\ D[n][texts[f][i]] # NoDigest
    BY <2>2 DEF DigestOf
  <2>4. \A i \in DOMAIN texts[f] : D[n + 1][texts[f][i]] = D[n][texts[f][i]]
    BY <1>5, <2>3
  <2>5. [i \in DOMAIN texts[f] |-> D[n + 1][texts[f][i]]] = [i \in DOMAIN texts[f] |-> D[n][texts[f][i]]]
    BY <2>4
  <2> QED
    BY <2>2, <2>3, <2>4, <2>5 DEF DigestOf
<1>6. \A n \in 0 .. N : n \in S
  <2> HIDE DEF S
  <2> QED
    BY <1>1, <1>4, <1>5, Induction
<1> QED
  BY <1>1, <1>6 DEF D

LEMMA DigestsLast ==
    ASSUME NEW texts, NEW n \in Depths, NEW f \in Files, Digests(texts)[n][f] # NoDigest
    PROVE  \A m \in Depths : n <= m => Digests(texts)[m][f] = Digests(texts)[n][f]
<1> DEFINE D == Digests(texts)
           N == Cardinality(Files)
           S == {m \in Depths : n <= m => D[m][f] = D[n][f]}
<1>1. N \in Nat /\ Depths = 0 .. N
  BY FilesCounted DEF Depths
<1>2. \A m \in Depths : m < N /\ D[m][f] # NoDigest => D[m + 1][f] = D[m][f]
  BY DigestsStay
<1> HIDE DEF D
<1>3. 0 \in S
  BY <1>1
<1>4. ASSUME NEW m \in 0 .. N, m \in S, m < N PROVE m + 1 \in S
  <2>1. m + 1 \in Depths /\ m \in Depths
    BY <1>1, <1>4
  <2>2. CASE n <= m
    BY <1>2, <1>4, <2>1, <2>2 DEF D
  <2>3. CASE ~(n <= m)
    <3>1. n <= m + 1 => n = m + 1
      BY <1>1, <2>1, <2>3
    <3> QED
      BY <2>1, <3>1
  <2> QED
    BY <2>2, <2>3
<1>5. \A m \in 0 .. N : m \in S
  <2> HIDE DEF S
  <2> QED
    BY <1>1, <1>3, <1>4, Induction
<1> QED
  BY <1>1, <1>5 DEF D

(* Files none of which can be scanned without another of them, or at all,     *)
(* have no digest.                                                            *)
LEMMA NoDigests ==
    ASSUME NEW texts, NEW Bad \in SUBSET Files,
           \A f \in Bad : \E i \in DOMAIN texts[f] : texts[f][i] \notin Files \ Bad
    PROVE  \A n \in Depths : \A f \in Bad : Digests(texts)[n][f] = NoDigest
<1> DEFINE D == Digests(texts)
           N == Cardinality(Files)
           S == {n \in Depths : \A f \in Bad : D[n][f] = NoDigest}
<1>1. N \in Nat /\ Depths = 0 .. N
  BY FilesCounted DEF Depths
<1>2. \A f \in Files : D[0][f] = NoDigest
  BY DigestsStep
<1>3. \A n \in Depths : n < N => \A f \in Files : D[n + 1][f] = DigestOf(texts[f], D[n])
  BY DigestsStep
<1> HIDE DEF D
<1>4. 0 \in S
  BY <1>1, <1>2
<1>5. ASSUME NEW n \in 0 .. N, n \in S, n < N PROVE n + 1 \in S
  <2>1. n + 1 \in Depths /\ n \in Depths
    BY <1>1, <1>5
  <2>2. ASSUME NEW f \in Bad PROVE D[n + 1][f] = NoDigest
    <3>1. D[n + 1][f] = DigestOf(texts[f], D[n])
      BY <1>3, <1>5, <2>1
    <3>2. PICK i \in DOMAIN texts[f] : texts[f][i] \notin Files \ Bad
      BY <2>2
    <3>3. texts[f][i] \notin Files \/ D[n][texts[f][i]] = NoDigest
      BY <1>5, <3>2
    <3> QED
      BY <3>1, <3>3 DEF DigestOf
  <2> QED
    BY <2>1, <2>2
<1>6. \A n \in 0 .. N : n \in S
  <2> HIDE DEF S
  <2> QED
    BY <1>1, <1>4, <1>5, Induction
<1> QED
  BY <1>1, <1>6 DEF D

(* Files that include only each other have the digests that their own texts   *)
(* give them, whatever the others contain.                                    *)
LEMMA DigestsSame ==
    ASSUME NEW texts, NEW others, NEW Known \in SUBSET Files,
           \A f \in Known : others[f] = texts[f] /\ \A i \in DOMAIN texts[f] : texts[f][i] \in Known
    PROVE  \A n \in Depths : \A f \in Known : Digests(others)[n][f] = Digests(texts)[n][f]
<1> DEFINE D == Digests(texts)
           E == Digests(others)
           N == Cardinality(Files)
           S == {n \in Depths : \A f \in Known : E[n][f] = D[n][f]}
<1>1. N \in Nat /\ Depths = 0 .. N
  BY FilesCounted DEF Depths
<1>2. \A f \in Files : D[0][f] = NoDigest /\ E[0][f] = NoDigest
  BY DigestsStep
<1>3. \A n \in Depths : n < N => \A f \in Files : D[n + 1][f] = DigestOf(texts[f], D[n])
  BY DigestsStep
<1>4. \A n \in Depths : n < N => \A f \in Files : E[n + 1][f] = DigestOf(others[f], E[n])
  BY DigestsStep
<1> HIDE DEF D, E
<1>5. 0 \in S
  BY <1>1, <1>2
<1>6. ASSUME NEW n \in 0 .. N, n \in S, n < N PROVE n + 1 \in S
  <2>1. n + 1 \in Depths /\ n \in Depths
    BY <1>1, <1>6
  <2>2. ASSUME NEW f \in Known PROVE E[n + 1][f] = D[n + 1][f]
    <3>1. D[n + 1][f] = DigestOf(texts[f], D[n]) /\ E[n + 1][f] = DigestOf(texts[f], E[n])
      BY <1>3, <1>4, <1>6, <2>1
    <3>2. \A i \in DOMAIN texts[f] : E[n][texts[f][i]] = D[n][texts[f][i]]
      BY <1>6
    <3>3. [i \in DOMAIN texts[f] |-> E[n][texts[f][i]]] = [i \in DOMAIN texts[f] |-> D[n][texts[f][i]]]
      BY <3>2
    <3> QED
      BY <3>1, <3>2, <3>3 DEF DigestOf
  <2> QED
    BY <2>1, <2>2
<1>7. \A n \in 0 .. N : n \in S
  <2> HIDE DEF S
  <2> QED
    BY <1>1, <1>5, <1>6, Induction
<1> QED
  BY <1>1, <1>7 DEF D, E

-----------------------------------------------------------------------------
(* The stack and its frames.                                                  *)
LEMMA Pushed ==
    ASSUME IsStack, NEW fr, stack' = Append(stack, fr)
    PROVE  /\ IsStack' /\ Depth' = Depth + 1 /\ stack'[Depth + 1] = fr
           /\ \A i \in 1 .. Depth : stack'[i] = stack[i]
<1>1. PICK S : stack \in Seq(S)
  BY DEF IsStack
<1>2. stack \in Seq(S \cup {fr}) /\ fr \in S \cup {fr}
  BY <1>1
<1>3. stack' \in Seq(S \cup {fr})
  BY <1>2
<1> QED
  BY <1>2, <1>3 DEF IsStack, Depth

LEMMA Replaced ==
    ASSUME IsStack, Depth > 0, NEW fr, stack' = [stack EXCEPT ![Depth] = fr]
    PROVE  /\ IsStack' /\ Depth' = Depth /\ stack'[Depth] = fr
           /\ \A i \in 1 .. Depth : i # Depth => stack'[i] = stack[i]
<1>1. PICK S : stack \in Seq(S)
  BY DEF IsStack
<1>2. stack \in Seq(S \cup {fr}) /\ fr \in S \cup {fr}
  BY <1>1
<1>3. stack' \in Seq(S \cup {fr})
  BY <1>2 DEF Depth
<1> QED
  BY <1>2, <1>3 DEF IsStack, Depth

LEMMA Popped ==
    ASSUME IsStack, Depth > 0, stack' = SubSeq(stack, 1, Depth - 1)
    PROVE  /\ IsStack' /\ Depth' = Depth - 1
           /\ \A i \in 1 .. Depth - 1 : stack'[i] = stack[i]
<1>1. PICK S : stack \in Seq(S)
  BY DEF IsStack
<1>2. Depth \in Nat
  BY <1>1 DEF Depth
<1>3. 1 \in Int /\ Depth - 1 \in Int /\ \A i \in 1 .. Depth - 1 : stack[i] \in S
  BY <1>1, <1>2 DEF Depth
<1>4. /\ SubSeq(stack, 1, Depth - 1) \in Seq(S)
      /\ Len(SubSeq(stack, 1, Depth - 1)) = IF 1 <= Depth - 1 THEN Depth - 1 - 1 + 1 ELSE 0
      /\ \A i \in 1 .. Depth - 1 - 1 + 1 : SubSeq(stack, 1, Depth - 1)[i] = stack[1 + i - 1]
  BY <1>3, SubSeqProperties
<1>5. stack' \in Seq(S) /\ Len(stack') = Depth - 1
  BY <1>2, <1>4
<1>6. \A i \in 1 .. Depth - 1 : stack'[i] = stack[i]
  BY <1>2, <1>4
<1>7. Depth' = Len(stack')
  BY DEF Depth
<1> QED
  BY <1>5, <1>6, <1>7 DEF IsStack

LEMMA PoppedInto ==
    ASSUME IsStack, Depth > 1, NEW fr,
           stack' = [SubSeq(stack, 1, Depth - 1) EXCEPT ![Depth - 1] = fr]
    PROVE  /\ IsStack' /\ Depth' = Depth - 1 /\ stack'[Depth - 1] = fr
           /\ \A i \in 1 .. Depth - 2 : stack'[i] = stack[i]
<1>1. PICK S : stack \in Seq(S)
  BY DEF IsStack
<1>2. stack \in Seq(S \cup {fr}) /\ fr \in S \cup {fr} /\ Depth \in Nat
  BY <1>1 DEF Depth
<1> DEFINE rest == SubSeq(stack, 1, Depth - 1)
<1>3. rest \in Seq(S \cup {fr}) /\ Len(rest) = Depth - 1 /\ \A i \in 1 .. Depth - 1 : rest[i] = stack[i]
  BY <1>2 DEF Depth
<1>4. stack' = [rest EXCEPT ![Depth - 1] = fr]
  OBVIOUS
<1> HIDE DEF rest
<1>5. stack' \in Seq(S \cup {fr}) /\ Len(stack') = Depth - 1
  BY <1>2, <1>3, <1>4
<1>6. stack'[Depth - 1] = fr /\ \A i \in 1 .. Depth - 2 : stack'[i] = stack[i]
  BY <1>2, <1>3, <1>4
<1> QED
  BY <1>5, <1>6 DEF IsStack, Depth

LEMMA FrameStarts ==
    ASSUME NEW f, NEW text \in Seq(Lines), NEW known
    PROVE  FrameAt(Frame(f, text), 0, text, known) /\ Frame(f, text).file = f
<1>1. SubSeq(text, 0 + 1, Len(text)) = text
  OBVIOUS
<1>2. Scanned(text, 0, known) = <<text>>
  BY ScannedNone
<1> QED
  BY <1>1, <1>2 DEF FrameAt, Frame

LEMMA FrameLine ==
    ASSUME NEW fr, NEW text \in Seq(Lines), NEW k \in 0 .. Len(text), NEW known,
           FrameAt(fr, k, text, known)
    PROVE  /\ fr.rest = <<>> <=> k = Len(text)
           /\ fr.digest = Scanned(text, k, known)
           /\ k < Len(text) => Head(fr.rest) = text[k + 1] /\ k + 1 \in 0 .. Len(text)
<1>1. fr.rest = SubSeq(text, k + 1, Len(text)) /\ fr.digest = Scanned(text, k, known)
  BY DEF FrameAt
<1>2. Len(text) \in Nat /\ k \in Int /\ \A j \in k + 1 .. Len(text) : text[j] \in Lines
  OBVIOUS
<1>3. Len(SubSeq(text, k + 1, Len(text))) = IF k + 1 <= Len(text) THEN Len(text) - (k + 1) + 1 ELSE 0
  BY <1>2, SubSeqProperties
<1>4. SubSeq(text, k + 1, Len(text)) = <<>> <=> k = Len(text)
  <2>1. CASE k = Len(text)
    BY <1>2, <2>1, SubSeqEmpty
  <2>2. CASE k # Len(text)
    <3>1. Len(SubSeq(text, k + 1, Len(text))) # 0
      BY <1>2, <1>3, <2>2
    <3>2. SubSeq(text, k + 1, Len(text)) # <<>>
      <4> DEFINE r == SubSeq(text, k + 1, Len(text))
      <4>1. Len(r) # 0
        BY <3>1
      <4> HIDE DEF r
      <4>2. r # <<>>
        BY <4>1
      <4> QED
        BY <4>2 DEF r
    <3> QED
      BY <2>2, <3>2
  <2> QED
    BY <2>1, <2>2
<1>5. ASSUME k < Len(text)
      PROVE  Head(SubSeq(text, k + 1, Len(text))) = text[k + 1] /\ k + 1 \in 0 .. Len(text)
  <2>1. k + 1 \in 1 .. Len(text) /\ Len(text) \in k + 1 .. Len(text)
    BY <1>2, <1>5
  <2> QED
    BY <2>1, HeadTailOfSubSeq
<1> QED
  BY <1>1, <1>4, <1>5

LEMMA Absorbed ==
    ASSUME NEW d, NEW fr, fr = [file |-> fr.file, rest |-> fr.rest, digest |-> fr.digest]
    PROVE  Absorb(fr, d)
             = [file |-> fr.file, rest |-> Tail(fr.rest), digest |-> Append(fr.digest, d)]
<1> DEFINE f == fr.file
           x == fr.digest
           t == Tail(fr.rest)
           more == Append(x, d)
           skipped == SkipLine(fr)
<1>1. skipped = [fr EXCEPT !.rest = t]
  BY DEF SkipLine
<1>2. Absorb(fr, d) = [skipped EXCEPT !.digest = Append(skipped.digest, d)]
  BY DEF Absorb
<1>a. fr = [file |-> f, rest |-> fr.rest, digest |-> x]
  OBVIOUS
<1> HIDE DEF t, skipped, f, x
<1>3. skipped = [file |-> f, rest |-> t, digest |-> x]
  BY <1>1, <1>a
<1>4. skipped.digest = x
  BY <1>3
<1>5. Absorb(fr, d) = [skipped EXCEPT !.digest = more]
  BY <1>2, <1>4
<1> HIDE DEF more
<1>6. Absorb(fr, d) = [file |-> f, rest |-> t, digest |-> more]
  BY <1>3, <1>5
<1> QED
  BY <1>6 DEF t, more, f, x

LEMMA FrameAbsorbs ==
    ASSUME NEW fr, NEW text \in Seq(Lines), NEW k \in 0 .. Len(text), k < Len(text), NEW known,
           FrameAt(fr, k, text, known), text[k + 1] \in DOMAIN known
    PROVE  /\ FrameAt(Absorb(fr, known[text[k + 1]]), k + 1, text, known)
           /\ Absorb(fr, known[text[k + 1]]).file = fr.file
<1>1. fr = [file |-> fr.file, rest |-> SubSeq(text, k + 1, Len(text)), digest |-> Scanned(text, k, known)]
  BY DEF FrameAt
<1>2. Tail(SubSeq(text, k + 1, Len(text))) = SubSeq(text, (k + 1) + 1, Len(text))
  <2>1. k + 1 \in 1 .. Len(text) /\ Len(text) \in k + 1 .. Len(text)
    OBVIOUS
  <2> QED
    BY <2>1, HeadTailOfSubSeq
<1>3. Append(Scanned(text, k, known), known[text[k + 1]]) = Scanned(text, k + 1, known)
  BY ScannedMore
<1>4. Absorb(fr, known[text[k + 1]]) =
        [file |-> fr.file, rest |-> Tail(SubSeq(text, k + 1, Len(text))),
         digest |-> Append(Scanned(text, k, known), known[text[k + 1]])]
  <2>1. /\ fr.rest = SubSeq(text, k + 1, Len(text)) /\ fr.digest = Scanned(text, k, known)
        /\ fr = [file |-> fr.file, rest |-> fr.rest, digest |-> fr.digest]
    BY <1>1
  <2>2. Absorb(fr, known[text[k + 1]])
          = [file |-> fr.file, rest |-> Tail(fr.rest), digest |-> Append(fr.digest, known[text[k + 1]])]
    BY <2>1, Absorbed
  <2> QED
    BY <2>1, <2>2
<1>5. \A j \in 1 .. k + 1 : text[j] \in DOMAIN known
  <2>1. \A j \in 1 .. k + 1 : j \in 1 .. k \/ j = k + 1
    OBVIOUS
  <2> QED
    BY <2>1 DEF FrameAt
<1> DEFINE new == Absorb(fr, known[text[k + 1]])
<1>6. new = [file |-> fr.file, rest |-> SubSeq(text, (k + 1) + 1, Len(text)),
             digest |-> Scanned(text, k + 1, known)]
  BY <1>2, <1>3, <1>4
<1> HIDE DEF new
<1>7. new.file = fr.file /\ FrameAt(new, k + 1, text, known)
  BY <1>5, <1>6 DEF FrameAt
<1> QED
  BY <1>7 DEF new

(* What has been passed stays as it is when the cache grows.                  *)
LEMMA FrameKept ==
    ASSUME NEW fr, NEW text, NEW k \in Nat, NEW known, NEW more, FrameAt(fr, k, text, known),
           \A f \in DOMAIN known : f \in DOMAIN more /\ more[f] = known[f]
    PROVE  FrameAt(fr, k, text, more)
<1>1. Scanned(text, k, known) = Scanned(text, k, more)
  BY ScannedSame DEF FrameAt
<1> QED
  BY <1>1 DEF FrameAt

-----------------------------------------------------------------------------
(* What the search finds.                                                     *)
LEMMA First ==
    ASSUME NEW S \in SUBSET Dirs, S # {}
    PROVE  (CHOOSE d \in S : \A e \in S : d <= e) \in S
<1>1. S \in SUBSET Nat
  BY ParserAssumption DEF Dirs
<1> QED
  BY <1>1, Smallest

LEMMA TextTyped == TypeOK => \A f \in Files : TextIn(tree, f) \in Seq(Lines)
<1> SUFFICES ASSUME TypeOK, NEW f \in Files PROVE TextIn(tree, f) \in Seq(Lines)
  OBVIOUS
<1>1. \A d \in Dirs : tree[d][f] \in Contents[d] \cup {Missing}
  BY DEF TypeOK, Trees
<1>2. \A d \in Dirs : Contents[d] \subseteq Seq(Files \cup {BadLine})
  BY ParserAssumption
<1>3. Seq(Files \cup {BadLine}) \subseteq Seq(Lines)
  BY DEF Lines
<1>4. Missing \in Seq(Lines)
  BY DEF Missing, Lines
<1>5. \A d \in Dirs : tree[d][f] \in Seq(Lines)
  BY <1>1, <1>2, <1>3, <1>4
<1> DEFINE having == {d \in Dirs : tree[d][f] # Missing}
<1>6. CASE having = {}
  BY <1>4, <1>6 DEF TextIn
<1>7. CASE having # {}
  <2>1. (CHOOSE d \in having : \A e \in having : d <= e) \in having
    BY <1>7, First
  <2> QED
    BY <1>5, <1>7, <2>1 DEF TextIn
<1> QED
  BY <1>6, <1>7

LEMMA TextsTyped ==
    TypeOK /\ IsStack /\ AnswerInv /\ PathInv => \A i \in 1 .. Depth : TextOf(i) \in Seq(Lines)
<1> SUFFICES ASSUME TypeOK, IsStack, AnswerInv, PathInv, NEW i \in 1 .. Depth
             PROVE  TextOf(i) \in Seq(Lines)
  OBVIOUS
<1>1. CASE i = 1
  <2>1. answer.source \in Sources \cup {<<>>}
    BY DEF AnswerInv
  <2>2. Sources \subseteq Seq(Files \cup {BadLine}) /\ Seq(Files \cup {BadLine}) \subseteq Seq(Lines)
    BY ParserAssumption DEF Lines
  <2>3. <<>> \in Seq(Lines)
    OBVIOUS
  <2> QED
    BY <1>1, <2>1, <2>2, <2>3 DEF TextOf
<1>2. CASE i # 1
  <2>1. Depth \in Nat
    BY DEF IsStack, Depth
  <2>2. i \in 2 .. Depth
    BY <1>2, <2>1
  <2>3. stack[i].file \in Files
    BY <2>2 DEF PathInv
  <2> QED
    BY <1>2, <2>3, TextTyped DEF TextOf
<1> QED
  BY <1>1, <1>2

(* An edit of a file leaves what is found under the other names.              *)
LEMMA EditsOne ==
    ASSUME NEW dirs, NEW others, NEW f, \A d \in Dirs : others[d][f] = dirs[d][f]
    PROVE  TextIn(others, f) = TextIn(dirs, f)
<1> DEFINE having == {d \in Dirs : dirs[d][f] # Missing}
           having2 == {d \in Dirs : others[d][f] # Missing}
           first == CHOOSE d \in having : \A e \in having : d <= e
           first2 == CHOOSE d \in having2 : \A e \in having2 : d <= e
<1>1. having = having2
  OBVIOUS
<1>2. having # {} => first \in Dirs
  BY First
<1>3. TextIn(dirs, f) = IF having = {} THEN Missing ELSE dirs[first][f]
  BY DEF TextIn
<1>4. TextIn(others, f) = IF having2 = {} THEN Missing ELSE others[first2][f]
  BY DEF TextIn
<1>5. first = first2
  BY <1>1
<1> HIDE DEF having, having2, first, first2
<1> QED
  BY <1>1, <1>2, <1>3, <1>4, <1>5

-----------------------------------------------------------------------------
(* What the invariant says of the scan and of the cache.                      *)
LEMMA FinalIs == Reference = Final
<1>1. Cardinality(Files) \in Depths
  BY FilesCounted DEF Depths
<1> QED
  BY <1>1, DigestIs DEF Reference, Final

LEMMA DigestIsScanned ==
    ASSUME NEW text \in Seq(Lines), NEW known,
           \A j \in DOMAIN text : text[j] \in Files /\ known[text[j]] # NoDigest
    PROVE  /\ DigestOf(text, known) = Scanned(text, Len(text), known)
           /\ DigestOf(text, known) # NoDigest
<1>1. DOMAIN text = 1 .. Len(text) /\ Len(text) \in Nat
  OBVIOUS
<1>2. DigestOf(text, known) = <<text>> \o [i \in DOMAIN text |-> known[text[i]]]
  BY DEF DigestOf
<1>3. DigestOf(text, known) = Scanned(text, Len(text), known)
  BY <1>1, <1>2 DEF Scanned
<1> QED
  BY <1>1, <1>3, ScannedSome

LEMMA CacheCounted ==
    ASSUME TypeOK
    PROVE  IsFiniteSet(DOMAIN cache) /\ Cardinality(DOMAIN cache) \in Depths
<1>1. DOMAIN cache \subseteq Files /\ IsFiniteSet(Files)
  BY ParserAssumption DEF TypeOK
<1>2. IsFiniteSet(DOMAIN cache) /\ Cardinality(DOMAIN cache) <= Cardinality(Files)
  BY <1>1, FS_Subset
<1>3. Cardinality(DOMAIN cache) \in Nat
  BY <1>2, FS_CardinalityType
<1> QED
  BY <1>2, <1>3, FilesCounted DEF Depths

LEMMA CacheFinal ==
    ASSUME TypeOK, CacheInv
    PROVE  \A f \in DOMAIN cache : f \in Files /\ cache[f] # NoDigest /\ Final[f] = cache[f]
<1> SUFFICES ASSUME NEW f \in DOMAIN cache
             PROVE  f \in Files /\ cache[f] # NoDigest /\ Final[f] = cache[f]
  OBVIOUS
<1> DEFINE D == Digests(TextsIn(tree))
           n == Cardinality(DOMAIN cache)
           N == Cardinality(Files)
<1>1. f \in Files /\ cache[f] # NoDigest /\ D[n][f] = cache[f]
  BY DEF CacheInv
<1>2. n \in Depths /\ N \in Depths /\ n <= N
  BY CacheCounted, FilesCounted DEF Depths
<1>3. D[N][f] = D[n][f]
  <2>1. D[n][f] # NoDigest
    BY <1>1
  <2> HIDE DEF n, N
  <2> QED
    BY <1>1, <1>2, <2>1, DigestsLast
<1> QED
  BY <1>1, <1>3 DEF Final

(* A scan that meets a line it cannot scan, or one it is scanning already, is *)
(* of a source that has no digest: each file on the path includes the next.   *)
LEMMA DeadEnd == Scan /\ Depth > 0 /\ AtDeadEnd => Hopeless
<1> SUFFICES ASSUME Scan, Depth > 0, AtDeadEnd PROVE Hopeless
  OBVIOUS
<1>1. Depth \in Nat
  BY DEF Scan, IsStack, Depth
<1>2. \A i \in 1 .. Depth : TextOf(i) \in Seq(Lines)
  BY TextsTyped DEF Scan
<1>3. ASSUME NEW i \in 1 .. Depth
      PROVE  \E k \in DOMAIN TextOf(i) : TextOf(i)[k] \notin Files \ visiting
  <2>1. CASE i = Depth
    BY <2>1 DEF AtDeadEnd
  <2>2. CASE i < Depth
    <3>1. PICK k \in 0 .. Len(TextOf(i)) : k < Len(TextOf(i)) /\ TextOf(i)[k + 1] = stack[i + 1].file
      BY <2>2 DEF Scan, FrameInv
    <3>2. i + 1 \in 2 .. Depth
      BY <1>1, <2>2
    <3>3. stack[i + 1].file \in visiting
      BY <3>2 DEF Scan, PathInv
    <3>4. k + 1 \in DOMAIN TextOf(i)
      BY <1>2, <3>1
    <3> QED
      BY <3>1, <3>3, <3>4
  <2> QED
    BY <1>1, <2>1, <2>2
<1> DEFINE texts == TextsIn(tree)
<1>4. visiting \in SUBSET Files
  BY DEF Scan, TypeOK
<1>5. ASSUME NEW f \in visiting PROVE \E k \in DOMAIN texts[f] : texts[f][k] \notin Files \ visiting
  <2>1. PICK i \in 2 .. Depth : stack[i].file = f
    BY DEF Scan, PathInv
  <2>2. i \in 1 .. Depth /\ i # 1
    BY <1>1
  <2>3. texts[f] = TextOf(i)
    BY <1>4, <2>1, <2>2 DEF TextsIn, TextOf
  <2> HIDE DEF texts
  <2> QED
    BY <1>3, <2>2, <2>3
<1>6. \A f \in visiting : Final[f] = NoDigest
  <2>1. \A n \in Depths : \A f \in visiting : Digests(texts)[n][f] = NoDigest
    <3> HIDE DEF texts
    <3> QED
      BY <1>4, <1>5, NoDigests
  <2>2. Cardinality(Files) \in Depths
    BY FilesCounted DEF Depths
  <2> QED
    BY <2>1, <2>2 DEF Final
<1>7. \A i \in 2 .. Depth : Final[stack[i].file] = NoDigest
  BY <1>6 DEF Scan, PathInv
<1>8. DigestOf(answer.source, Final) = NoDigest
  <2>1. TextOf(1) = answer.source /\ 1 \in 1 .. Depth
    BY <1>1 DEF TextOf
  <2>2. PICK k \in DOMAIN answer.source : answer.source[k] \notin Files \ visiting
    BY <1>3, <2>1
  <2>3. answer.source[k] \notin Files \/ Final[answer.source[k]] = NoDigest
    BY <1>6, <2>2
  <2> QED
    BY <2>3 DEF DigestOf
<1> QED
  BY <1>7, <1>8 DEF Hopeless

LEMMA TextStays ==
    ASSUME NEW i, tree' = tree, answer'.source = answer.source,
           i = 1 \/ stack'[i].file = stack[i].file
    PROVE  TextOf(i)' = TextOf(i)
BY DEF TextOf

-----------------------------------------------------------------------------
(* Each action keeps the invariant.                                           *)
LEMMA StackTyped ==
    IsStack /\ PathInv => /\ Depth \in Nat /\ DOMAIN stack = 1 .. Depth
                          /\ \A i \in DOMAIN stack : stack[i].file \in Files \cup {NoFile}
<1> SUFFICES ASSUME IsStack, PathInv
             PROVE  /\ Depth \in Nat /\ DOMAIN stack = 1 .. Depth
                    /\ \A i \in DOMAIN stack : stack[i].file \in Files \cup {NoFile}
  OBVIOUS
<1>1. Depth \in Nat /\ DOMAIN stack = 1 .. Depth
  BY DEF IsStack, Depth
<1>2. \A i \in 1 .. Depth : i = 1 \/ i \in 2 .. Depth
  BY <1>1
<1>3. ASSUME NEW i \in 1 .. Depth PROVE stack[i].file \in Files \cup {NoFile}
  <2>1. CASE i = 1
    BY <1>1, <2>1 DEF PathInv
  <2>2. CASE i # 1
    BY <1>2, <2>2 DEF PathInv
  <2> QED
    BY <2>1, <2>2
<1> QED
  BY <1>1, <1>3

LEMMA FinalStays == tree' = tree => Final' = Final
BY DEF Final, TextsIn

LEMMA CacheStays == tree' = tree /\ cache' = cache /\ CacheInv => CacheInv'
BY DEF CacheInv, TextsIn

(* The frame at the top is at its next line, or at the end of its text.       *)
LEMMA TopLine ==
    ASSUME Scan, Depth > 0
    PROVE  \E k \in 0 .. Len(TextOf(Depth)) :
              /\ TextOf(Depth) \in Seq(Lines)
              /\ FrameAt(Top, k, TextOf(Depth), cache)
              /\ Top.rest = <<>> <=> k = Len(TextOf(Depth))
              /\ Top.digest = Scanned(TextOf(Depth), k, cache)
              /\ k < Len(TextOf(Depth)) =>
                    NextLine = TextOf(Depth)[k + 1] /\ k + 1 \in DOMAIN TextOf(Depth)
<1>1. Depth \in 1 .. Depth
  BY StackTyped DEF Scan
<1>2. TextOf(Depth) \in Seq(Lines)
  BY <1>1, TextsTyped DEF Scan
<1>3. PICK k \in 0 .. Len(TextOf(Depth)) : FrameAt(stack[Depth], k, TextOf(Depth), cache)
  BY <1>1 DEF Scan, FrameInv
<1>4. /\ Top.rest = <<>> <=> k = Len(TextOf(Depth))
      /\ Top.digest = Scanned(TextOf(Depth), k, cache)
      /\ k < Len(TextOf(Depth)) => Head(Top.rest) = TextOf(Depth)[k + 1] /\ k + 1 \in 0 .. Len(TextOf(Depth))
  <2> DEFINE text == TextOf(Depth)
             fr == stack[Depth]
  <2>1. text \in Seq(Lines) /\ k \in 0 .. Len(text) /\ FrameAt(fr, k, text, cache)
    BY <1>2, <1>3
  <2> HIDE DEF text, fr
  <2>2. /\ fr.rest = <<>> <=> k = Len(text)
        /\ fr.digest = Scanned(text, k, cache)
        /\ k < Len(text) => Head(fr.rest) = text[k + 1] /\ k + 1 \in 0 .. Len(text)
    BY <2>1, FrameLine
  <2> QED
    BY <2>2 DEF text, fr, Top
<1>5. k < Len(TextOf(Depth)) => k + 1 \in DOMAIN TextOf(Depth)
  BY <1>2
<1> QED
  BY <1>2, <1>3, <1>4, <1>5 DEF Top, NextLine

LEMMA AskKeeps ==
    ASSUME IInv, NEW source \in Sources, Ask(source)
    PROVE  IInv'
<1>1. /\ Depth = 0 /\ ~failing /\ asked' = asked + 1 /\ asked < MaxRequests
      /\ stack' = <<Frame(NoFile, source)>>
      /\ answer' = [NoAnswer EXCEPT !.source = source]
      /\ UNCHANGED <<tree, cache, visiting, failing, edits>>
  BY DEF Ask
<1>2. answer' = [source |-> source, outcome |-> "none", digest |-> <<>>]
  BY <1>1 DEF NoAnswer
<1>3. Depth' = 1 /\ stack'[1] = Frame(NoFile, source) /\ IsStack'
  <2>1. stack' \in Seq({Frame(NoFile, source)}) /\ Len(stack') = 1
    BY <1>1
  <2> QED
    BY <1>1, <2>1 DEF IsStack, Depth
<1>4. source \in Seq(Lines)
  BY ParserAssumption DEF Lines
<1>5. /\ FrameAt(Frame(NoFile, source), 0, source, cache)
      /\ Frame(NoFile, source).file = NoFile
  BY <1>4, FrameStarts
<1>6. AnswerInv'
  BY <1>2 DEF AnswerInv
<1>7. PathInv'
  <2>1. visiting = {}
    BY <1>1 DEF IInv, Scan, PathInv
  <2> QED
    BY <1>1, <1>3, <1>5, <2>1 DEF PathInv
<1>8. FrameInv'
  <2>1. TextOf(1)' = source
    BY <1>2 DEF TextOf
  <2>2. FrameAt(stack'[1], 0, source, cache')
    BY <1>1, <1>3, <1>5
  <2>3. 0 \in 0 .. Len(source)
    BY <1>4
  <2>4. ASSUME NEW i \in 1 .. Depth'
        PROVE  \E k \in 0 .. Len(TextOf(i)') :
                  /\ FrameAt(stack'[i], k, TextOf(i)', cache')
                  /\ i < Depth' => k < Len(TextOf(i)') /\ TextOf(i)'[k + 1] = stack'[i + 1].file
    <3>1. i = 1 /\ ~(i < Depth')
      BY <1>3, <2>4
    <3> QED
      BY <2>1, <2>2, <2>3, <3>1
  <2> QED
    BY <2>4 DEF FrameInv
<1>9. TypeOK'
  <2>1. asked + 1 \in 0 .. MaxRequests
    BY <1>1, ParserAssumption DEF IInv, Scan, TypeOK
  <2>2. \A i \in DOMAIN stack' : stack'[i].file \in Files \cup {NoFile}
    <3>1. (IsStack /\ PathInv => \A i \in DOMAIN stack : stack[i].file \in Files \cup {NoFile})'
      BY StackTyped, PTL
    <3> QED
      BY <1>3, <1>7, <3>1
  <2> QED
    BY <1>1, <2>1, <2>2 DEF IInv, Scan, TypeOK
<1>10. CacheInv'
  BY <1>1, CacheStays DEF IInv
<1>11. FailInv'
  BY <1>1 DEF FailInv
<1>12. AnswersMatchTree'
  BY <1>2 DEF AnswersMatchTree
<1> QED
  BY <1>3, <1>6, <1>7, <1>8, <1>9, <1>10, <1>11, <1>12 DEF IInv, Scan

LEMMA EditKeeps ==
    ASSUME IInv, NEW f \in Files, NEW d \in Dirs, NEW text \in Contents[d], Edit(f, d, text)
    PROVE  IInv'
<1>1. /\ Depth = 0 /\ ~failing /\ f \notin DOMAIN cache
      /\ edits' = edits + 1 /\ edits < MaxEdits
      /\ tree' = [tree EXCEPT ![d][f] = text]
      /\ answer' = NoAnswer
      /\ UNCHANGED <<cache, visiting, stack, failing, asked>>
  BY DEF Edit
<1>2. AnswerInv' /\ IsStack' /\ PathInv' /\ FrameInv' /\ Depth' = 0
  <2>1. Depth' = 0 /\ IsStack'
    BY <1>1 DEF IInv, Scan, IsStack, Depth
  <2>2. PathInv'
    BY <1>1, <2>1 DEF IInv, Scan, PathInv
  <2>3. FrameInv'
    BY <2>1 DEF FrameInv
  <2>4. AnswerInv'
    BY <1>1, <2>1 DEF AnswerInv, NoAnswer
  <2> QED
    BY <2>1, <2>2, <2>3, <2>4
<1>3. DOMAIN tree' = Dirs /\ \A e \in Dirs : tree'[e] \in Trees(e)
  <2>1. DOMAIN tree = Dirs /\ \A e \in Dirs : tree[e] \in Trees(e)
    BY DEF IInv, Scan, TypeOK
  <2>2. tree'[d] = [tree[d] EXCEPT ![f] = text] /\ \A e \in Dirs : e # d => tree'[e] = tree[e]
    BY <1>1, <2>1
  <2>3. tree'[d] \in Trees(d)
    BY <2>1, <2>2 DEF Trees
  <2> QED
    BY <1>1, <2>1, <2>2, <2>3
<1>4. TypeOK'
  <2>1. edits + 1 \in 0 .. MaxEdits
    BY <1>1, ParserAssumption DEF IInv, Scan, TypeOK
  <2> QED
    BY <1>1, <1>3, <2>1 DEF IInv, Scan, TypeOK
<1>5. \A g \in DOMAIN cache : TextIn(tree', g) = TextIn(tree, g)
  <2> SUFFICES ASSUME NEW g \in DOMAIN cache PROVE TextIn(tree', g) = TextIn(tree, g)
    OBVIOUS
  <2>1. g # f
    BY <1>1
  <2>2. \A e \in Dirs : tree'[e][g] = tree[e][g]
    BY <1>1, <2>1 DEF IInv, Scan, TypeOK, Trees
  <2> DEFINE other == tree'
             old == tree
  <2>3. \A e \in Dirs : other[e][g] = old[e][g]
    BY <2>2
  <2> HIDE DEF other, old
  <2>4. TextIn(other, g) = TextIn(old, g)
    BY <2>3, EditsOne
  <2> QED
    BY <2>4 DEF other, old
<1>6. CacheInv'
  <2> DEFINE texts == TextsIn(tree)
             others == TextsIn(tree')
             Known == DOMAIN cache
  <2>1. Known \in SUBSET Files
    BY DEF IInv, Scan, TypeOK
  <2>2. \A g \in Known : others[g] = texts[g] /\ \A i \in DOMAIN texts[g] : texts[g][i] \in Known
    BY <1>5, <2>1 DEF TextsIn, IInv, CacheInv
  <2>3. \A n \in Depths : \A g \in Known : Digests(others)[n][g] = Digests(texts)[n][g]
    <3> HIDE DEF texts, others, Known
    <3> QED
      BY <2>1, <2>2, DigestsSame
  <2>4. Cardinality(DOMAIN cache) \in Depths
    BY CacheCounted DEF IInv, Scan
  <2>5. cache' = cache
    BY <1>1
  <2>6. \A g \in DOMAIN cache' : cache'[g] # NoDigest
          /\ Digests(TextsIn(tree'))[Cardinality(DOMAIN cache')][g] = cache'[g]
    BY <2>3, <2>4, <2>5 DEF IInv, CacheInv
  <2>7. \A g \in DOMAIN cache' : g \in Files
          /\ \A j \in DOMAIN TextIn(tree', g) : TextIn(tree', g)[j] \in DOMAIN cache'
    BY <1>5, <2>5 DEF IInv, CacheInv
  <2> QED
    BY <2>6, <2>7 DEF CacheInv
<1>7. FailInv' /\ AnswersMatchTree'
  BY <1>1 DEF FailInv, AnswersMatchTree, NoAnswer
<1> QED
  BY <1>2, <1>4, <1>6, <1>7 DEF IInv, Scan

(* A line that cannot be followed: an exception starts.                       *)
LEMMA FailureStarts ==
    ASSUME IInv, Scanning, Top.rest # <<>>, NextLine \notin Files \ visiting, failing' = TRUE,
           UNCHANGED <<tree, cache, visiting, stack, answer, asked, edits>>
    PROVE  IInv'
<1>1. Scan'
  <2>1. TypeOK'
    BY DEF IInv, Scan, TypeOK
  <2>2. IsStack' /\ AnswerInv' /\ PathInv'
    BY DEF IInv, Scan, IsStack, AnswerInv, PathInv, Depth
  <2>3. FrameInv'
    BY DEF IInv, Scan, FrameInv, Depth, TextOf
  <2> QED
    BY <2>1, <2>2, <2>3 DEF Scan
<1>2. CacheInv'
  BY CacheStays DEF IInv
<1>3. AnswersMatchTree'
  <2>1. answer'.outcome = "none"
    BY DEF IInv, Scan, AnswerInv, Scanning
  <2> QED
    BY <2>1 DEF AnswersMatchTree
<1>4. Hopeless
  <2>1. PICK k \in 0 .. Len(TextOf(Depth)) :
           /\ TextOf(Depth) \in Seq(Lines)
           /\ Top.rest = <<>> <=> k = Len(TextOf(Depth))
           /\ k < Len(TextOf(Depth)) =>
                 NextLine = TextOf(Depth)[k + 1] /\ k + 1 \in DOMAIN TextOf(Depth)
    BY TopLine DEF IInv, Scanning
  <2>2. k < Len(TextOf(Depth))
    BY <2>1
  <2>3. AtDeadEnd
    BY <2>1, <2>2 DEF AtDeadEnd
  <2> QED
    BY <2>3, DeadEnd DEF IInv, Scanning
<1>5. Hopeless'
  BY <1>4, FinalStays DEF Hopeless, Depth
<1> QED
  BY <1>1, <1>2, <1>3, <1>5 DEF IInv, FailInv

LEMMA RefuseKeeps == ASSUME IInv, Refuse PROVE IInv'
<1>1. BadLine \notin Files
  BY ParserAssumption
<1> QED
  BY <1>1, FailureStarts DEF Refuse

LEMMA CircularKeeps == ASSUME IInv, Circular PROVE IInv'
BY FailureStarts DEF Circular

LEMMA UseCacheKeeps == ASSUME IInv, UseCache PROVE IInv'
<1>1. /\ Depth > 0 /\ ~failing /\ Top.rest # <<>> /\ NextLine \in DOMAIN cache
      /\ stack' = [stack EXCEPT ![Depth] = Absorb(Top, cache[NextLine])]
      /\ UNCHANGED <<tree, cache, visiting, failing, answer, asked, edits>>
  BY DEF UseCache, Scanning, Top
<1>2. Depth \in Nat
  BY StackTyped DEF IInv, Scan
<1>3. PICK k \in 0 .. Len(TextOf(Depth)) :
         /\ TextOf(Depth) \in Seq(Lines)
         /\ FrameAt(Top, k, TextOf(Depth), cache)
         /\ Top.rest = <<>> <=> k = Len(TextOf(Depth))
         /\ k < Len(TextOf(Depth)) => NextLine = TextOf(Depth)[k + 1]
  BY <1>1, TopLine DEF IInv
<1>4. k < Len(TextOf(Depth)) /\ NextLine = TextOf(Depth)[k + 1] /\ k + 1 \in 0 .. Len(TextOf(Depth))
  BY <1>1, <1>3
<1> DEFINE new == Absorb(Top, cache[NextLine])
<1>5. FrameAt(new, k + 1, TextOf(Depth), cache) /\ new.file = stack[Depth].file
  BY <1>1, <1>3, <1>4, FrameAbsorbs DEF Top
<1>6. /\ IsStack' /\ Depth' = Depth /\ stack'[Depth] = new
      /\ \A i \in 1 .. Depth : i # Depth => stack'[i] = stack[i]
  BY <1>1, Replaced DEF IInv, Scan
<1> HIDE DEF new
<1>7. \A i \in 1 .. Depth : stack'[i].file = stack[i].file
  BY <1>5, <1>6
<1>8. PathInv'
  <2>1. \A i \in 2 .. Depth : i \in 1 .. Depth
    BY <1>2
  <2>2. 1 \in 1 .. Depth
    BY <1>1, <1>2
  <2> QED
    BY <1>1, <1>6, <1>7, <2>1, <2>2 DEF IInv, Scan, PathInv
<1>9. \A i \in 1 .. Depth : TextOf(i)' = TextOf(i)
  BY <1>1, <1>7, TextStays
<1>10. FrameInv'
  <2>1. ASSUME NEW i \in 1 .. Depth
        PROVE  \E j \in 0 .. Len(TextOf(i)) :
                  /\ FrameAt(stack'[i], j, TextOf(i), cache)
                  /\ i < Depth => j < Len(TextOf(i)) /\ TextOf(i)[j + 1] = stack'[i + 1].file
    <3>1. CASE i = Depth
      BY <1>2, <1>4, <1>5, <1>6, <3>1
    <3>2. CASE i # Depth
      <4>1. PICK j \in 0 .. Len(TextOf(i)) :
               /\ FrameAt(stack[i], j, TextOf(i), cache)
               /\ i < Depth => j < Len(TextOf(i)) /\ TextOf(i)[j + 1] = stack[i + 1].file
        BY DEF IInv, Scan, FrameInv
      <4>2. i < Depth => i + 1 \in 1 .. Depth
        BY <1>2
      <4> QED
        BY <1>6, <1>7, <3>2, <4>1, <4>2
    <3> QED
      BY <3>1, <3>2
  <2> QED
    BY <1>1, <1>6, <1>9, <2>1 DEF FrameInv
<1>11. TypeOK'
  <2>1. (IsStack /\ PathInv => \A i \in DOMAIN stack : stack[i].file \in Files \cup {NoFile})'
    BY StackTyped, PTL
  <2> QED
    BY <1>1, <1>6, <1>8, <2>1 DEF IInv, Scan, TypeOK
<1>12. AnswerInv' /\ AnswersMatchTree'
  BY <1>1, <1>6 DEF IInv, Scan, AnswerInv, AnswersMatchTree
<1>13. CacheInv' /\ FailInv'
  BY <1>1, CacheStays DEF IInv, FailInv
<1> QED
  BY <1>6, <1>8, <1>10, <1>11, <1>12, <1>13 DEF IInv, Scan

LEMMA EnterKeeps == ASSUME IInv, Enter PROVE IInv'
<1>1. /\ Depth > 0 /\ ~failing /\ Top.rest # <<>>
      /\ NextLine \in Files \ (visiting \cup DOMAIN cache)
      /\ visiting' = visiting \cup {NextLine}
      /\ stack' = Append(stack, Frame(NextLine, Find(NextLine)))
      /\ failing' = (Find(NextLine) = Missing)
      /\ UNCHANGED <<tree, cache, answer, asked, edits>>
  BY DEF Enter, Scanning
<1>2. Depth \in Nat
  BY StackTyped DEF IInv, Scan
<1>3. PICK k \in 0 .. Len(TextOf(Depth)) :
         /\ FrameAt(Top, k, TextOf(Depth), cache)
         /\ Top.rest = <<>> <=> k = Len(TextOf(Depth))
         /\ k < Len(TextOf(Depth)) => NextLine = TextOf(Depth)[k + 1]
         /\ TextOf(Depth) \in Seq(Lines)
  BY <1>1, TopLine DEF IInv
<1>4. k < Len(TextOf(Depth)) /\ NextLine = TextOf(Depth)[k + 1]
  BY <1>1, <1>3
<1> DEFINE f == NextLine
           text == TextIn(tree, f)
           new == Frame(f, text)
<1>5. Find(f) = text
  BY DEF Find, TextIn
<1>6. f \in Files /\ f \notin visiting /\ f \notin DOMAIN cache /\ text \in Seq(Lines)
  BY <1>1, TextTyped DEF IInv, Scan
<1>7. /\ IsStack' /\ Depth' = Depth + 1 /\ stack'[Depth + 1] = new
      /\ \A i \in 1 .. Depth : stack'[i] = stack[i]
  BY <1>1, <1>5, Pushed DEF IInv, Scan
<1>8. FrameAt(new, 0, text, cache) /\ new.file = f
  <2> HIDE DEF f, text
  <2> QED
    BY <1>6, FrameStarts
<1> HIDE DEF f, text, new
<1>9. PathInv'
  <2>1. \A i \in 2 .. Depth + 1 : i = Depth + 1 \/ (i \in 2 .. Depth /\ i \in 1 .. Depth)
    BY <1>2
  <2>2. 1 \in 1 .. Depth /\ Depth + 1 \in 2 .. Depth + 1 /\ \A i \in 2 .. Depth : i \in 2 .. Depth + 1
    BY <1>1, <1>2
  <2>3. \A i \in 2 .. Depth : stack'[i] = stack[i] /\ stack[i].file \in visiting
    BY <1>7, <2>1, <2>2 DEF IInv, Scan, PathInv
  <2>4. stack'[1].file = NoFile
    BY <1>1, <1>7, <2>2 DEF IInv, Scan, PathInv
  <2>5. \A i \in 2 .. Depth + 1 : stack'[i].file \in Files \ DOMAIN cache
    BY <1>6, <1>7, <1>8, <2>1, <2>3 DEF IInv, Scan, PathInv
  <2>6. \A i, j \in 2 .. Depth + 1 : stack'[i].file = stack'[j].file => i = j
    BY <1>6, <1>7, <1>8, <2>1, <2>3 DEF IInv, Scan, PathInv
  <2>7. visiting' = {stack'[i].file : i \in 2 .. Depth + 1}
    <3>1. visiting = {stack[i].file : i \in 2 .. Depth} /\ visiting' = visiting \cup {f}
      BY <1>1 DEF IInv, Scan, PathInv, f
    <3> QED
      BY <1>7, <1>8, <2>1, <2>2, <2>3, <3>1
  <2> QED
    BY <1>1, <1>7, <2>4, <2>5, <2>6, <2>7 DEF PathInv
<1>10. \A i \in 1 .. Depth : TextOf(i)' = TextOf(i)
  BY <1>1, <1>7, TextStays
<1>11. \A i \in {Depth + 1} : TextOf(i)' = text
  <2> SUFFICES ASSUME NEW i \in {Depth + 1} PROVE TextOf(i)' = text
    OBVIOUS
  <2>a. i = Depth + 1 /\ i # 1
    BY <1>1, <1>2
  <2>1. i # 1 /\ stack'[i].file = f
    <3>1. stack'[i] = new
      BY <1>7, <2>a
    <3> QED
      BY <1>8, <2>a, <3>1
  <2>2. TextOf(i)' = TextIn(tree', stack'[i].file)
    BY <2>1 DEF TextOf
  <2> QED
    BY <1>1, <2>1, <2>2 DEF text
<1>12. FrameInv'
  <2>1. ASSUME NEW i \in 1 .. Depth + 1
        PROVE  \E j \in 0 .. Len(TextOf(i)') :
                  /\ FrameAt(stack'[i], j, TextOf(i)', cache')
                  /\ i < Depth' => j < Len(TextOf(i)') /\ TextOf(i)'[j + 1] = stack'[i + 1].file
    <3>1. CASE i = Depth + 1
      <4>1. i \in {Depth + 1}
        BY <3>1
      <4>2. TextOf(i)' = text /\ ~(i < Depth')
        BY <1>2, <1>7, <1>11, <3>1, <4>1
      <4>3. FrameAt(stack'[i], 0, text, cache')
        BY <1>1, <1>7, <1>8, <3>1
      <4>4. Len(text) \in Nat
        BY <1>6
      <4>5. 0 \in 0 .. Len(text)
        BY <4>4
      <4> QED
        BY <4>2, <4>3, <4>5
    <3>2. CASE i = Depth
      <4>1. i \in 1 .. Depth
        BY <1>1, <1>2, <3>2
      <4>2. stack'[i] = stack[i] /\ TextOf(i)' = TextOf(i) /\ stack'[i + 1].file = f
        BY <1>7, <1>8, <1>10, <3>2, <4>1
      <4>3. /\ FrameAt(stack[i], k, TextOf(i), cache)
            /\ k \in 0 .. Len(TextOf(i)) /\ k < Len(TextOf(i)) /\ TextOf(i)[k + 1] = f
        BY <1>3, <1>4, <3>2 DEF Top, f
      <4> QED
        BY <1>1, <4>2, <4>3
    <3>3. CASE i < Depth
      <4>1. i \in 1 .. Depth /\ i + 1 \in 1 .. Depth
        BY <1>2, <3>3
      <4>2. PICK j \in 0 .. Len(TextOf(i)) :
               /\ FrameAt(stack[i], j, TextOf(i), cache)
               /\ j < Len(TextOf(i)) /\ TextOf(i)[j + 1] = stack[i + 1].file
        BY <3>3, <4>1 DEF IInv, Scan, FrameInv
      <4> QED
        BY <1>1, <1>7, <1>10, <4>1, <4>2
    <3> QED
      BY <1>2, <3>1, <3>2, <3>3
  <2> QED
    BY <1>7, <2>1 DEF FrameInv
<1>13. AnswerInv' /\ AnswersMatchTree'
  BY <1>1, <1>2, <1>7 DEF IInv, Scan, AnswerInv, AnswersMatchTree
<1>14. TypeOK'
  <2>1. (IsStack /\ PathInv => \A i \in DOMAIN stack : stack[i].file \in Files \cup {NoFile})'
    BY StackTyped, PTL
  <2>2. failing' \in BOOLEAN
    BY <1>1
  <2> QED
    BY <1>1, <1>7, <1>9, <2>1, <2>2 DEF IInv, Scan, TypeOK
<1>15. CacheInv'
  BY <1>1, CacheStays DEF IInv
<1>16. Scan'
  BY <1>7, <1>9, <1>12, <1>13, <1>14 DEF Scan
<1>17. FailInv'
  <2> SUFFICES ASSUME failing' PROVE Hopeless'
    BY DEF FailInv
  <2>1. text = <<NoFile>> /\ NoFile \notin Files
    BY <1>1, <1>5, ParserAssumption DEF f, Missing
  <2>2. AtDeadEnd'
    <3> DEFINE Ended(i) == \E j \in DOMAIN TextOf(i) : TextOf(i)[j] \notin Files \ visiting
    <3>1. \A i \in {Depth + 1} : Ended(i)'
      <4>1. 1 \in DOMAIN text /\ text[1] \notin Files
        BY <2>1
      <4> QED
        BY <1>11, <4>1
    <3>2. (Depth \in {Depth} => AtDeadEnd = Ended(Depth))'
      BY DEF AtDeadEnd
    <3> QED
      BY <1>7, <3>1, <3>2 DEF AtDeadEnd
  <2>3. (Scan /\ Depth > 0 /\ AtDeadEnd => Hopeless)'
    BY DeadEnd, PTL
  <2>4. Depth' > 0
    BY <1>2, <1>7
  <2> QED
    BY <1>16, <2>2, <2>3, <2>4
<1> QED
  BY <1>13, <1>15, <1>16, <1>17 DEF IInv

LEMMA ReturnKeeps == ASSUME IInv, Return PROVE IInv'
<1>1. /\ Depth = 1 /\ ~failing /\ Top.rest = <<>> /\ stack' = <<>>
      /\ answer' = [answer EXCEPT !.outcome = "digest", !.digest = Top.digest]
      /\ UNCHANGED <<tree, cache, visiting, failing, asked, edits>>
  BY DEF Return, Scanning, Answer
<1>2. Depth' = 0 /\ IsStack'
  <2>1. stack' \in Seq({}) /\ Len(stack') = 0
    BY <1>1
  <2> QED
    BY <1>1, <2>1 DEF IsStack, Depth
<1>3. PICK k \in 0 .. Len(TextOf(Depth)) :
         /\ FrameAt(Top, k, TextOf(Depth), cache)
         /\ Top.rest = <<>> <=> k = Len(TextOf(Depth))
         /\ Top.digest = Scanned(TextOf(Depth), k, cache)
         /\ TextOf(Depth) \in Seq(Lines)
  BY <1>1, TopLine DEF IInv
<1> DEFINE text == answer.source
<1>4. text = TextOf(Depth) /\ k = Len(text) /\ text \in Seq(Lines)
  BY <1>1, <1>3 DEF TextOf
<1>5. \A j \in 1 .. Len(text) : text[j] \in DOMAIN cache
  BY <1>3, <1>4 DEF FrameAt
<1>6. \A f \in DOMAIN cache : f \in Files /\ Final[f] # NoDigest /\ Final[f] = cache[f]
  BY CacheFinal DEF IInv, Scan
<1>7. DigestOf(text, Final) = Top.digest /\ DigestOf(text, Final) # NoDigest
  <2>1. \A j \in DOMAIN text : text[j] \in Files /\ Final[text[j]] # NoDigest
    BY <1>4, <1>5, <1>6
  <2> HIDE DEF text
  <2>2. DigestOf(text, Final) = Scanned(text, Len(text), Final) /\ DigestOf(text, Final) # NoDigest
    BY <1>4, <2>1, DigestIsScanned
  <2>3. Scanned(text, Len(text), Final) = Scanned(text, Len(text), cache)
    <3> DEFINE known == Final
               other == cache
               n == Len(text)
    <3>1. n \in Nat /\ \A j \in 1 .. n : known[text[j]] = other[text[j]]
      BY <1>4, <1>5, <1>6
    <3> HIDE DEF known, other, n
    <3>2. Scanned(text, n, known) = Scanned(text, n, other)
      BY <3>1, ScannedSame
    <3> QED
      BY <3>2 DEF known, other, n
  <2> QED
    BY <1>3, <1>4, <2>2, <2>3
<1>8. answer' = [source |-> text, outcome |-> "digest", digest |-> Top.digest]
  BY <1>1 DEF IInv, Scan, AnswerInv
<1>9. AnswersMatchTree'
  <2>a. (Reference = Final)'
    BY FinalIs, PTL
  <2>1. Reference' = Final' /\ Final' = Final
    BY <1>1, <2>a, FinalStays
  <2>2. answer'.source = text /\ answer'.outcome = "digest" /\ answer'.digest = Top.digest
    BY <1>8
  <2> HIDE DEF text
  <2> QED
    BY <1>7, <2>1, <2>2 DEF AnswersMatchTree
<1>10. AnswerInv'
  BY <1>2, <1>8 DEF IInv, Scan, AnswerInv
<1>11. PathInv' /\ FrameInv'
  BY <1>1, <1>2 DEF IInv, Scan, PathInv, FrameInv
<1>12. TypeOK'
  BY <1>1 DEF IInv, Scan, TypeOK
<1>13. CacheInv' /\ FailInv'
  BY <1>1, CacheStays DEF IInv, FailInv
<1> QED
  BY <1>2, <1>9, <1>10, <1>11, <1>12, <1>13 DEF IInv, Scan

(* The cache gains the file at the top, whose includes it had all.            *)
LEMMA LeaveCaches ==
    ASSUME IInv, Leave
    PROVE  /\ Top.file \in Files \ DOMAIN cache
           /\ DOMAIN cache' = DOMAIN cache \cup {Top.file}
           /\ cache'[Top.file] = Top.digest
           /\ \A f \in DOMAIN cache : cache'[f] = cache[f]
           /\ CacheInv'
<1>1. /\ Depth > 1 /\ Top.rest = <<>> /\ tree' = tree
      /\ cache' = [f \in DOMAIN cache \cup {Top.file} |-> IF f = Top.file THEN Top.digest ELSE cache[f]]
  BY DEF Leave, Scanning
<1>2. Depth \in 2 .. Depth /\ Depth \in Nat
  BY <1>1, StackTyped DEF IInv, Scan
<1> DEFINE g == Top.file
           text == TextIn(tree, g)
           D == Digests(TextsIn(tree))
           C == Cardinality(DOMAIN cache)
<1>3. g \in Files \ DOMAIN cache
  BY <1>2 DEF IInv, Scan, PathInv, Top
<1>4. /\ DOMAIN cache' = DOMAIN cache \cup {g}
      /\ cache'[g] = Top.digest
      /\ \A f \in DOMAIN cache : cache'[f] = cache[f]
  BY <1>1, <1>3
<1>5. PICK k \in 0 .. Len(TextOf(Depth)) :
         /\ FrameAt(Top, k, TextOf(Depth), cache)
         /\ Top.rest = <<>> <=> k = Len(TextOf(Depth))
         /\ Top.digest = Scanned(TextOf(Depth), k, cache)
         /\ TextOf(Depth) \in Seq(Lines)
  BY <1>1, <1>2, TopLine DEF IInv
<1>6. TextOf(Depth) = text
  BY <1>1 DEF TextOf, Top
<1>7. /\ text \in Seq(Lines) /\ Len(text) \in Nat /\ DOMAIN text = 1 .. Len(text)
      /\ Top.digest = Scanned(text, Len(text), cache)
      /\ \A j \in DOMAIN text : text[j] \in DOMAIN cache
  BY <1>1, <1>5, <1>6 DEF FrameAt
<1>8. \A f \in DOMAIN cache :
         /\ f \in Files /\ cache[f] # NoDigest /\ D[C][f] = cache[f]
         /\ \A j \in DOMAIN TextIn(tree, f) : TextIn(tree, f)[j] \in DOMAIN cache
  BY DEF IInv, CacheInv
<1>9. C \in Depths /\ C + 1 \in Depths /\ C < Cardinality(Files) /\ Cardinality(DOMAIN cache') = C + 1
  <2>1. IsFiniteSet(DOMAIN cache) /\ C \in Depths
    BY CacheCounted DEF IInv, Scan
  <2>2. Cardinality(DOMAIN cache \cup {g}) = C + 1
    BY <1>3, <2>1, FS_AddElement
  <2>3. DOMAIN cache \cup {g} \subseteq Files /\ IsFiniteSet(Files)
    BY <1>3, <1>8, ParserAssumption
  <2>4. Cardinality(DOMAIN cache \cup {g}) <= Cardinality(Files)
    BY <2>3, FS_Subset
  <2> QED
    BY <1>4, <2>1, <2>2, <2>4, FilesCounted DEF Depths
<1>10. D[C + 1][g] = DigestOf(text, D[C])
  <2>1. D[C + 1][g] = DigestOf(TextsIn(tree)[g], D[C])
    <3> HIDE DEF C
    <3> QED
      BY <1>3, <1>9, DigestsStep
  <2>2. TextsIn(tree)[g] = text
    BY <1>3 DEF TextsIn
  <2> QED
    BY <2>1, <2>2
<1>11. \A f \in DOMAIN cache : D[C + 1][f] = D[C][f]
  <2> HIDE DEF C
  <2> QED
    BY <1>8, <1>9, DigestsStay
<1> HIDE DEF g, text, D, C
<1>12. D[C + 1][g] = Top.digest /\ Top.digest # NoDigest
  <2> DEFINE known == D[C]
             n == Len(text)
  <2>1. \A j \in DOMAIN text : text[j] \in Files /\ known[text[j]] # NoDigest
    BY <1>7, <1>8
  <2>2. \A j \in 1 .. n : known[text[j]] = cache[text[j]]
    BY <1>7, <1>8
  <2> HIDE DEF known
  <2>3. DigestOf(text, known) = Scanned(text, n, known) /\ DigestOf(text, known) # NoDigest
    BY <1>7, <2>1, DigestIsScanned
  <2>4. Scanned(text, n, known) = Scanned(text, n, cache)
    <3> DEFINE other == cache
    <3>1. \A j \in 1 .. n : known[text[j]] = other[text[j]]
      BY <2>2
    <3> HIDE DEF other
    <3>2. n \in Nat
      BY <1>7
    <3> HIDE DEF n
    <3>3. Scanned(text, n, known) = Scanned(text, n, other)
      BY <3>1, <3>2, ScannedSame
    <3> QED
      BY <3>3 DEF other
  <2> QED
    BY <1>7, <1>10, <2>3, <2>4 DEF known
<1>13. CacheInv'
  <2>1. D' = D
    BY <1>1 DEF D, TextsIn
  <2>2. ASSUME NEW f \in DOMAIN cache'
        PROVE  /\ f \in Files /\ cache'[f] # NoDigest
               /\ D[C + 1][f] = cache'[f]
               /\ \A j \in DOMAIN TextIn(tree', f) : TextIn(tree', f)[j] \in DOMAIN cache'
    <3>1. CASE f = g
      BY <1>1, <1>3, <1>4, <1>7, <1>12, <3>1 DEF text
    <3>2. CASE f # g
      BY <1>1, <1>4, <1>8, <1>11, <3>2
    <3> QED
      BY <3>1, <3>2
  <2>3. \A f \in DOMAIN cache' :
           /\ f \in Files /\ cache'[f] # NoDigest
           /\ Digests(TextsIn(tree'))[Cardinality(DOMAIN cache')][f] = cache'[f]
           /\ \A j \in DOMAIN TextIn(tree', f) : TextIn(tree', f)[j] \in DOMAIN cache'
    BY <1>1, <1>9, <2>2 DEF D, TextsIn
  <2> QED
    BY <2>3 DEF CacheInv
<1> QED
  BY <1>3, <1>4, <1>13 DEF g

LEMMA LeaveKeeps == ASSUME IInv, Leave PROVE IInv'
<1>1. /\ Depth > 1 /\ ~failing /\ Top.rest = <<>>
      /\ visiting' = visiting \ {Top.file}
      /\ stack' = [SubSeq(stack, 1, Depth - 1) EXCEPT ![Depth - 1] = Absorb(@, Top.digest)]
      /\ UNCHANGED <<tree, failing, answer, asked, edits>>
  BY DEF Leave, Scanning
<1>2. Depth \in Nat
  BY StackTyped DEF IInv, Scan
<1> DEFINE g == Top.file
           below == Depth - 1
           text == TextOf(below)
           new == Absorb(stack[below], cache'[g])
<1>3. /\ g \in Files \ DOMAIN cache
      /\ DOMAIN cache' = DOMAIN cache \cup {g}
      /\ cache'[g] = Top.digest
      /\ \A f \in DOMAIN cache : cache'[f] = cache[f]
      /\ CacheInv'
  BY LeaveCaches
<1>4. below \in 1 .. Depth /\ below < Depth /\ below + 1 = Depth /\ below \in Nat /\ below > 0
  BY <1>1, <1>2
<1>5. stack' = [SubSeq(stack, 1, Depth - 1) EXCEPT ![Depth - 1] = new]
  <2>1. PICK S : stack \in Seq(S)
    BY DEF IInv, Scan, IsStack
  <2>2. 1 \in Int /\ Depth - 1 \in Int /\ \A i \in 1 .. Depth - 1 : stack[i] \in S
    BY <1>2, <2>1 DEF Depth
  <2>3. \A i \in 1 .. Depth - 1 - 1 + 1 : SubSeq(stack, 1, Depth - 1)[i] = stack[1 + i - 1]
    BY <2>2, SubSeqProperties
  <2>4. SubSeq(stack, 1, Depth - 1)[Depth - 1] = stack[Depth - 1]
    BY <1>2, <1>4, <2>3
  <2> QED
    BY <1>1, <1>3, <2>4
<1>6. /\ IsStack' /\ Depth' = Depth - 1 /\ stack'[Depth - 1] = new
      /\ \A i \in 1 .. Depth - 2 : stack'[i] = stack[i]
  <2> HIDE DEF new
  <2> QED
    BY <1>1, <1>5, PoppedInto DEF IInv, Scan
<1>7. PICK k \in 0 .. Len(text) :
         FrameAt(stack[below], k, text, cache) /\ k < Len(text) /\ text[k + 1] = stack[below + 1].file
  BY <1>4 DEF IInv, Scan, FrameInv
<1>8. text[k + 1] = g
  BY <1>4, <1>7 DEF Top
<1>9. text \in Seq(Lines)
  BY <1>4, TextsTyped DEF IInv, Scan
<1> HIDE DEF g, below, text
<1>10. FrameAt(new, k + 1, text, cache') /\ new.file = stack[below].file
  <2> DEFINE fr == stack[below]
             known == cache
             more == cache'
  <2>1. k \in Nat /\ \A f \in DOMAIN known : f \in DOMAIN more /\ more[f] = known[f]
    BY <1>3, <1>7
  <2>2. FrameAt(fr, k, text, known)
    BY <1>7
  <2>3. text[k + 1] \in DOMAIN more
    BY <1>3, <1>8
  <2> HIDE DEF fr, known, more
  <2>4. FrameAt(fr, k, text, more)
    BY <2>1, <2>2, FrameKept
  <2>5. /\ FrameAt(Absorb(fr, more[text[k + 1]]), k + 1, text, more)
        /\ Absorb(fr, more[text[k + 1]]).file = fr.file
    BY <1>7, <1>9, <2>3, <2>4, FrameAbsorbs
  <2> QED
    BY <1>8, <2>5 DEF fr, more
<1> HIDE DEF new
<1>11. \A i \in 1 .. below : i = below \/ i \in 1 .. Depth - 2
  BY <1>2 DEF below
<1>12. stack'[below] = new /\ Depth' = below
  BY <1>6 DEF below
<1>13. \A i \in 1 .. below : i \in 1 .. Depth /\ stack'[i].file = stack[i].file
  BY <1>4, <1>6, <1>10, <1>11, <1>12
<1>14. PathInv'
  <2>1. \A i \in 2 .. Depth : i = Depth \/ (i \in 2 .. below /\ i \in 1 .. below)
    BY <1>2 DEF below
  <2>2. 1 \in 1 .. below /\ Depth \in 2 .. Depth /\ \A i \in 2 .. below : i \in 2 .. Depth /\ i \in 1 .. below /\ i # Depth
    BY <1>1, <1>4
  <2>3. stack[1].file = NoFile /\ g = stack[Depth].file
    BY <1>1, <1>2 DEF IInv, Scan, PathInv, g, Top
  <2>4. \A i \in 2 .. below : stack'[i].file = stack[i].file /\ stack[i].file # g
    BY <1>13, <2>2, <2>3 DEF IInv, Scan, PathInv
  <2>5. \A i \in 2 .. below : stack'[i].file \in Files \ DOMAIN cache'
    BY <1>3, <2>2, <2>4 DEF IInv, Scan, PathInv
  <2>6. \A i, j \in 2 .. below : stack'[i].file = stack'[j].file => i = j
    BY <2>2, <2>4 DEF IInv, Scan, PathInv
  <2>7. visiting' = {stack'[i].file : i \in 2 .. below}
    <3>1. visiting = {stack[i].file : i \in 2 .. Depth} /\ visiting' = visiting \ {g}
      BY <1>1 DEF IInv, Scan, PathInv, g
    <3> QED
      BY <2>1, <2>2, <2>3, <2>4, <3>1
  <2> QED
    BY <1>12, <1>13, <2>2, <2>3, <2>5, <2>6, <2>7 DEF PathInv
<1>15. \A i \in 1 .. below : TextOf(i)' = TextOf(i)
  BY <1>1, <1>13, TextStays
<1>16. FrameInv'
  <2>1. ASSUME NEW i \in 1 .. below
        PROVE  \E j \in 0 .. Len(TextOf(i)) :
                  /\ FrameAt(stack'[i], j, TextOf(i), cache')
                  /\ i < below => j < Len(TextOf(i)) /\ TextOf(i)[j + 1] = stack'[i + 1].file
    <3>1. CASE i = below
      <4>1. Len(text) \in Nat /\ k + 1 \in 0 .. Len(text)
        BY <1>7, <1>9
      <4>2. TextOf(i) = text /\ stack'[i] = new /\ ~(i < below)
        BY <1>4, <1>12, <3>1 DEF text
      <4> QED
        BY <1>10, <4>1, <4>2
    <3>2. CASE i # below
      <4>1. i \in 1 .. Depth /\ i < Depth /\ i + 1 \in 1 .. below /\ stack'[i] = stack[i]
        BY <1>4, <1>6, <1>11, <3>2
      <4>2. PICK j \in 0 .. Len(TextOf(i)) :
               FrameAt(stack[i], j, TextOf(i), cache) /\ j < Len(TextOf(i)) /\ TextOf(i)[j + 1] = stack[i + 1].file
        BY <4>1 DEF IInv, Scan, FrameInv
      <4>3. FrameAt(stack[i], j, TextOf(i), cache')
        <5> DEFINE fr == stack[i]
                   line == TextOf(i)
                   known == cache
                   more == cache'
        <5>1. j \in Nat /\ \A f \in DOMAIN known : f \in DOMAIN more /\ more[f] = known[f]
          BY <1>3
        <5>2. FrameAt(fr, j, line, known)
          BY <4>2
        <5> HIDE DEF fr, line, known, more
        <5>3. FrameAt(fr, j, line, more)
          BY <5>1, <5>2, FrameKept
        <5> QED
          BY <5>3 DEF fr, line, more
      <4> QED
        BY <1>13, <4>1, <4>2, <4>3
    <3> QED
      BY <3>1, <3>2
  <2> QED
    BY <1>12, <1>15, <2>1 DEF FrameInv
<1>17. TypeOK'
  <2>1. (IsStack /\ PathInv => \A i \in DOMAIN stack : stack[i].file \in Files \cup {NoFile})'
    BY StackTyped, PTL
  <2> QED
    BY <1>1, <1>3, <1>6, <1>14, <2>1 DEF IInv, Scan, TypeOK
<1>18. AnswerInv' /\ AnswersMatchTree'
  BY <1>1, <1>2, <1>6 DEF IInv, Scan, AnswerInv, AnswersMatchTree
<1>19. FailInv'
  BY <1>1 DEF FailInv
<1> QED
  BY <1>3, <1>6, <1>14, <1>16, <1>17, <1>18, <1>19 DEF IInv, Scan

LEMMA UnwindKeeps == ASSUME IInv, Unwind PROVE IInv'
<1>1. /\ failing
      /\ visiting' = visiting \ {Top.file}
      /\ stack' = SubSeq(stack, 1, Depth - 1)
      /\ UNCHANGED <<tree, cache, asked, edits>>
  BY DEF Unwind
<1>2. Depth \in Nat /\ Depth > 0 /\ Hopeless
  BY <1>1, StackTyped DEF IInv, Scan, FailInv, Hopeless
<1>3. /\ IsStack' /\ Depth' = Depth - 1
      /\ \A i \in 1 .. Depth - 1 : stack'[i] = stack[i]
  BY <1>1, <1>2, Popped DEF IInv, Scan
<1> DEFINE below == Depth - 1
<1>4. below \in Nat /\ Depth' = below /\ \A i \in 1 .. below : i \in 1 .. Depth /\ stack'[i] = stack[i]
  BY <1>2, <1>3
<1>5. \A i \in 2 .. Depth : i = Depth \/ i \in 2 .. below
  BY <1>2
<1>6. \A i \in 2 .. below : i \in 2 .. Depth /\ i \in 1 .. below /\ i # Depth /\ 1 \in 1 .. below /\ Depth \in 2 .. Depth
  BY <1>2
<1>7. /\ answer' = [source |-> answer.source, outcome |-> answer'.outcome, digest |-> answer'.digest]
      /\ answer'.source = answer.source
      /\ IF Depth > 1 THEN answer'.outcome = "none" /\ UNCHANGED <<failing, answer>>
         ELSE answer'.outcome = "error" /\ answer'.digest = NoDigest /\ failing' = FALSE
  <2>1. /\ answer = [source |-> answer.source, outcome |-> answer.outcome, digest |-> answer.digest]
        /\ answer.outcome = "none"
    BY <1>2 DEF IInv, Scan, AnswerInv
  <2>2. CASE Depth > 1
    BY <2>1, <2>2 DEF Unwind
  <2>3. CASE ~(Depth > 1)
    <3>1. answer' = [answer EXCEPT !.outcome = "error", !.digest = <<>>] /\ failing' = FALSE
      BY <2>3 DEF Unwind, Answer
    <3>2. answer' = [source |-> answer.source, outcome |-> "error", digest |-> <<>>]
      BY <2>1, <3>1
    <3> QED
      BY <2>3, <3>1, <3>2 DEF NoDigest
  <2> QED
    BY <2>2, <2>3
<1>8. PathInv'
  <2>1. below > 0 => 1 \in 1 .. below
    BY <1>4
  <2>2. below > 0 => stack'[1].file = NoFile
    BY <1>2, <1>4, <2>1 DEF IInv, Scan, PathInv
  <2>3. \A i \in 2 .. below : stack'[i].file = stack[i].file /\ stack[i].file # Top.file
    BY <1>4, <1>6 DEF IInv, Scan, PathInv, Top
  <2>4. \A i \in 2 .. below : stack'[i].file \in Files \ DOMAIN cache'
    BY <1>1, <1>6, <2>3 DEF IInv, Scan, PathInv
  <2>5. \A i, j \in 2 .. below : stack'[i].file = stack'[j].file => i = j
    BY <1>6, <2>3 DEF IInv, Scan, PathInv
  <2>6. visiting' = {stack'[i].file : i \in 2 .. below}
    <3>1. visiting = {stack[i].file : i \in 2 .. Depth} /\ visiting' = visiting \ {stack[Depth].file}
      BY <1>1 DEF IInv, Scan, PathInv, Top
    <3> HIDE DEF below
    <3> QED
      BY <1>5, <1>6, <2>3, <3>1 DEF Top
  <2> HIDE DEF below
  <2> QED
    BY <1>4, <2>2, <2>4, <2>5, <2>6 DEF PathInv
<1> HIDE DEF below
<1>9. \A i \in 1 .. below : TextOf(i)' = TextOf(i)
  BY <1>1, <1>4, <1>7, TextStays
<1>10. FrameInv'
  <2>1. ASSUME NEW i \in 1 .. below
        PROVE  \E j \in 0 .. Len(TextOf(i)) :
                  /\ FrameAt(stack'[i], j, TextOf(i), cache')
                  /\ i < below => j < Len(TextOf(i)) /\ TextOf(i)[j + 1] = stack'[i + 1].file
    <3>1. PICK j \in 0 .. Len(TextOf(i)) :
             /\ FrameAt(stack[i], j, TextOf(i), cache)
             /\ i < Depth => j < Len(TextOf(i)) /\ TextOf(i)[j + 1] = stack[i + 1].file
      BY <1>4 DEF IInv, Scan, FrameInv
    <3>2. i < below => i < Depth /\ i + 1 \in 1 .. below
      BY <1>2 DEF below
    <3> QED
      BY <1>1, <1>4, <3>1, <3>2
  <2> QED
    BY <1>4, <1>9, <2>1 DEF FrameInv
<1>11. TypeOK'
  <2>1. (IsStack /\ PathInv => \A i \in DOMAIN stack : stack[i].file \in Files \cup {NoFile})'
    BY StackTyped, PTL
  <2>2. failing' \in BOOLEAN
    BY <1>1, <1>7
  <2> QED
    BY <1>1, <1>3, <1>8, <2>1, <2>2 DEF IInv, Scan, TypeOK
<1>12. AnswerInv'
  <2>1. below > 0 => Depth > 1
    BY <1>2 DEF below
  <2> QED
    BY <1>4, <1>7, <2>1 DEF IInv, Scan, AnswerInv
<1>13. Final' = Final
  BY <1>1, FinalStays
<1>14. FailInv'
  <2> SUFFICES ASSUME failing' PROVE Hopeless'
    BY DEF FailInv
  <2>a. Depth > 1
    BY <1>7, Zenon
  <2>1. below > 0
    BY <1>2, <2>a DEF below
  <2> QED
    BY <1>2, <1>4, <1>6, <1>7, <1>13, <2>1 DEF Hopeless
<1>15. AnswersMatchTree'
  <2>1. CASE answer'.outcome = "none"
    BY <2>1 DEF AnswersMatchTree
  <2>2. CASE answer'.outcome = "error" /\ answer'.digest = NoDigest
    <3>1. (Reference = Final)'
      BY FinalIs, PTL
    <3>2. DigestOf(answer'.source, Reference') = NoDigest
      BY <1>2, <1>7, <1>13, <3>1 DEF Hopeless
    <3> QED
      BY <2>2, <3>2 DEF AnswersMatchTree
  <2> QED
    BY <1>7, <2>1, <2>2
<1>16. CacheInv'
  BY <1>1, CacheStays DEF IInv
<1> QED
  BY <1>3, <1>8, <1>10, <1>11, <1>12, <1>14, <1>15, <1>16 DEF IInv, Scan

LEMMA StutterKeeps == ASSUME IInv, UNCHANGED vars PROVE IInv'
<1>1. UNCHANGED <<tree, cache, visiting, stack, failing, answer, asked, edits>>
  BY DEF vars
<1>2. Scan'
  <2>1. TypeOK'
    BY <1>1 DEF IInv, Scan, TypeOK
  <2>2. IsStack' /\ AnswerInv' /\ PathInv'
    BY <1>1 DEF IInv, Scan, IsStack, AnswerInv, PathInv, Depth
  <2>3. FrameInv'
    BY <1>1 DEF IInv, Scan, FrameInv, Depth, TextOf
  <2> QED
    BY <2>1, <2>2, <2>3 DEF Scan
<1>3. Final' = Final /\ CacheInv'
  BY <1>1, FinalStays, CacheStays DEF IInv
<1>4. FailInv'
  BY <1>1, <1>3 DEF IInv, FailInv, Hopeless, Depth
<1>5. AnswersMatchTree'
  <2>1. Reference = Final /\ (Reference = Final)'
    BY FinalIs, PTL
  <2> QED
    BY <1>1, <1>3, <2>1 DEF IInv, AnswersMatchTree
<1> QED
  BY <1>2, <1>3, <1>4, <1>5 DEF IInv

LEMMA InitInvariant == Init => IInv
<1> SUFFICES ASSUME Init PROVE IInv
  OBVIOUS
<1>1. /\ cache = [f \in {} |-> <<>>] /\ visiting = {} /\ stack = <<>> /\ failing = FALSE
      /\ answer = [source |-> <<>>, outcome |-> "none", digest |-> <<>>]
      /\ asked = 0 /\ edits = 0
  BY DEF Init, NoAnswer
<1>2. Depth = 0 /\ IsStack
  <2>1. stack \in Seq({}) /\ Len(stack) = 0
    BY <1>1
  <2> QED
    BY <2>1 DEF IsStack, Depth
<1>3. DOMAIN tree = Dirs /\ \A d \in Dirs : tree[d] \in Trees(d)
  BY DEF Init
<1>4. TypeOK
  <2>1. DOMAIN cache \subseteq Files /\ visiting \subseteq Files /\ failing \in BOOLEAN
    BY <1>1
  <2>2. asked \in 0 .. MaxRequests /\ edits \in 0 .. MaxEdits
    BY <1>1, ParserAssumption
  <2>3. DOMAIN stack = {}
    BY <1>1
  <2> QED
    BY <1>3, <2>1, <2>2, <2>3 DEF TypeOK
<1>5. AnswerInv /\ PathInv /\ FrameInv
  BY <1>1, <1>2 DEF AnswerInv, PathInv, FrameInv
<1>6. CacheInv /\ FailInv /\ AnswersMatchTree
  BY <1>1 DEF CacheInv, FailInv, AnswersMatchTree
<1> QED
  BY <1>2, <1>4, <1>5, <1>6 DEF IInv, Scan

LEMMA NextInvariant == IInv /\ [Next]_vars => IInv'
<1> SUFFICES ASSUME IInv, [Next]_vars PROVE IInv'
  OBVIOUS
<1>1. CASE Refuse
  BY <1>1, RefuseKeeps
<1>2. CASE UseCache
  BY <1>2, UseCacheKeeps
<1>3. CASE Circular
  BY <1>3, CircularKeeps
<1>4. CASE Enter
  BY <1>4, EnterKeeps
<1>5. CASE Leave
  BY <1>5, LeaveKeeps
<1>6. CASE Return
  BY <1>6, ReturnKeeps
<1>7. CASE Unwind
  BY <1>7, UnwindKeeps
<1>8. ASSUME NEW s \in Sources, Ask(s) PROVE IInv'
  BY <1>8, AskKeeps
<1>9. ASSUME NEW f \in Files, NEW d \in Dirs, NEW text \in Contents[d], Edit(f, d, text) PROVE IInv'
  BY <1>9, EditKeeps
<1>10. CASE UNCHANGED vars
  BY <1>10, StutterKeeps
<1> QED
  BY <1>1, <1>2, <1>3, <1>4, <1>5, <1>6, <1>7, <1>8, <1>9, <1>10 DEF Next, Step

LEMMA Invariant == Spec => []IInv
BY InitInvariant, NextInvariant, PTL DEF Spec

-----------------------------------------------------------------------------
(* Cache, path and counters keep their types through every scan, however it   *)
(* ends (Parser::cache, Parser::visiting).                                    *)
THEOREM TypeCorrect == Spec => []TypeOK
<1>1. IInv => TypeOK
  BY DEF IInv, Scan
<1> QED
  BY <1>1, Invariant, PTL

(* For every tree of headers, of whatever depth: parse_into_hash answers with *)
(* the digest of the source's whole tree when each tracked include exists and *)
(* none is circular, and with an error if not, whatever the cache holds from  *)
(* earlier requests, failed ones and other versions of headers among them.    *)
THEOREM AnswersAreOfTheTree == Spec => []AnswersMatchTree
<1>1. IInv => AnswersMatchTree
  BY DEF IInv
<1> QED
  BY <1>1, Invariant, PTL

(* The catch block and the normal end of parse_includes_into_hash both leave  *)
(* visiting with the path alone, each file on it once, and only a scan that   *)
(* came to its end puts a digest into the cache, the one of the whole tree.   *)
THEOREM CacheIsOfTheTree == Spec => []CacheSound
<1>1. IInv => CacheSound
  <2> SUFFICES ASSUME IInv PROVE CacheSound
    OBVIOUS
  <2>1. \A f \in DOMAIN cache : f \in Files /\ cache[f] = Reference[f]
    <3>1. \A f \in DOMAIN cache : f \in Files /\ Final[f] = cache[f]
      BY CacheFinal DEF IInv, Scan
    <3> QED
      BY <3>1, FinalIs
  <2>2. visiting = {stack[i].file : i \in 2 .. Depth}
    BY DEF IInv, Scan, PathInv
  <2>3. Cardinality(visiting) = IF Depth = 0 THEN 0 ELSE Depth - 1
    <3>1. Depth \in Nat
      BY StackTyped DEF IInv, Scan
    <3> DEFINE file == [i \in 2 .. Depth |-> stack[i].file]
    <3>2. file \in Bijection(2 .. Depth, visiting)
      <4>1. \A i, j \in 2 .. Depth : stack[i].file = stack[j].file => i = j
        BY DEF IInv, Scan, PathInv
      <4>2. file \in [2 .. Depth -> visiting]
        BY <2>2
      <4>3. \A v \in visiting : \E i \in 2 .. Depth : file[i] = v
        BY <2>2
      <4>4. \A i, j \in 2 .. Depth : file[i] = file[j] => i = j
        BY <4>1
      <4> HIDE DEF file
      <4> QED
        BY <4>2, <4>3, <4>4, Fun_IsBij
    <3>3. IsFiniteSet(2 .. Depth) /\ Cardinality(2 .. Depth) = IF 2 > Depth THEN 0 ELSE Depth - 2 + 1
      BY <3>1, FS_Interval
    <3>4. Cardinality(visiting) = Cardinality(2 .. Depth)
      <4> HIDE DEF file
      <4> QED
        BY <3>2, <3>3, FS_Bijection, Fun_ExistsBij
    <3> QED
      BY <3>1, <3>3, <3>4
  <2> QED
    BY <2>1, <2>2, <2>3 DEF CacheSound
<1> QED
  BY <1>1, Invariant, PTL
=============================================================================
