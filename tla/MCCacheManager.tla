--------------------------- MODULE MCCacheManager ---------------------------
(***************************************************************************)
(* Values for the constants of CacheManager that a configuration file      *)
(* cannot write down.                                                      *)
(***************************************************************************)
EXTENDS CacheManager

CONSTANTS a1, a2, a3, p1, p2, r1, r2, e1, t1, t2, t3

\* A temporary directory for each adapter, or one for the first two, whose IDs differ
\* as x/y and x__y do, and another for the third.
OwnTmp    == [a \in Adapters |-> CASE a = a1 -> t1 [] a = a2 -> t2 [] OTHER -> t3]
SharedTmp == [a \in Adapters |-> IF a \in {a1, a2} THEN t1 ELSE t2]

\* Weights of one size, or one adapter twice as large as the others.
EqualWeights == [a \in Adapters |-> 1]
MixedWeights == [a \in Adapters |-> IF a = a1 THEN 2 ELSE 1]

HTTP         == <<"http">>
HuggingFace  == <<"huggingface">>
S3ThenNoETag == <<"s3", "noetag">>

\* Both files are there, or perhaps neither.
Complete          == {[f \in Files |-> 1]}
CompleteOrMissing == {[f \in Files |-> 1], [f \in Files |-> 0]}

\* What an author replaces: nothing, or all files.
NothingNew == {}
BothFiles  == {{"cfg", "mdl"}}

\* Goroutines of one kind are interchangeable.
GoroutineSymmetry == Permutations(Requests) \cup Permutations(Revalidators)
=============================================================================
