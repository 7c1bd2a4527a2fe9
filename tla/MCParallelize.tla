--------------------------- MODULE MCParallelize ---------------------------
(* Instances of Parallelize for TLC. *)
EXTENDS Parallelize, FiniteSets

\* An image of w by h, with jobs counted in units of four pixels: the one
\* call of a composite in rows or in pixels, and the two of a blur.
Calls(w, h, concurrency) ==
    {[jobs |-> JobsByImageSize(w, h, concurrency, 6, 4), sizes |-> s] :
        s \in {<<h>>, <<w * h>>, <<h, w>>}}

ImageUses ==
    UNION {Calls(w, h, c) : w \in {0, 1, 3}, h \in {1, 2, 4}, c \in {0, 2}}
    \cup Calls(1, 8, 0)

\* Numbers of jobs and sizes an image does not give.
OddUses == {[jobs |-> j, sizes |-> <<n>>] : j \in 0..4, n \in 0..5}

AllUses == ImageUses \cup OddUses
=============================================================================
