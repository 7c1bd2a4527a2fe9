-------------------------- MODULE MCConnectionPool --------------------------
(* Instances of ConnectionPool for TLC. *)
EXTENDS ConnectionPool, TLC

CONSTANTS t1, t2, t3

ThreeThreads == {t1, t2, t3}

\* A later datasource asks for more connections than the first one.
GrowingConfigs == {[initial |-> 0, max |-> 1], [initial |-> 2, max |-> 2]}
\* Fewer connections than threads; a later datasource asks for enough.
ScarceThenEnough == {[initial |-> 1, max |-> 1], [initial |-> 0, max |-> 3]}

ThreadSymmetry == Permutations(Threads)
=============================================================================
