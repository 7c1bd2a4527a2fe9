--------------------------- MODULE MCPostgisAsync ---------------------------
(* Instances of PostgisAsync for TLC. *)
EXTENDS PostgisAsync, TLC

CONSTANTS t1, t2

OneThread == {t1}
TwoThreads == {t1, t2}
ThreadSymmetry == Permutations(Threads)

Async(p, n) ==
    [pool |-> p, plugin |-> "postgis", mode |-> "async", max_async |-> n]
Raster(p, n) == [Async(p, n) EXCEPT !.plugin = "pgraster"]
Plain(p) == [pool |-> p, plugin |-> "postgis", mode |-> "sync", max_async |-> 1]
Cursor(p) == [Plain(p) EXCEPT !.mode = "cursor"]
Extent(p, n) == [Async(p, n) EXCEPT !.mode = "extent"]

OnePool == {"a"}
TwoPools == {"a", "b"}

\* More queries than max_async; plain, cursor and raster layers and a layer
\* whose extent is not known among them.
\* Each map can be rendered with the pool to itself.
ContendedMaps ==
    {<<Async("a", 2), Async("a", 2), Extent("a", 2), Async("a", 2), Async("a", 2),
       Async("a", 2)>>,
     <<Cursor("a"), Async("a", 2), Plain("a"), Async("a", 2), Async("a", 2)>>,
     <<Async("a", 2), Raster("a", 2), Plain("a"), Async("a", 2)>>}
ContendedSizes == [p \in {"a"} |-> 3]

\* Two databases, different max_async in one context, a cursor and extents;
\* four connections for each thread, which is just enough.
SizedMaps ==
    {<<Async("a", 3), Async("a", 3), Async("b", 3), Extent("b", 3), Async("b", 3)>>,
     <<Cursor("a"), Async("a", 2), Async("a", 2), Extent("a", 2), Async("a", 2),
       Async("a", 2)>>}
SizedSizes == [p \in TwoPools |-> 8]

\* max_size = max_async_connection, and a plain layer in the same database.
MixedMaps == {<<Async("a", 2), Async("a", 2), Plain("a")>>,
              <<Plain("a"), Async("a", 2), Async("a", 2), Async("a", 2), Async("a", 2)>>}
MixedSizes == [p \in {"a"} |-> 2]

\* Two threads, and max_size for one of them.
AsyncMaps == {<<Async("a", 2), Async("a", 2), Async("a", 2)>>}

\* One thread, max_size = max_async_connection, a layer with two styles and one
\* whose extent is not known.
ExtentMaps == {<<Async("a", 2), Async("a", 2), Extent("a", 2), Async("a", 2)>>}
=============================================================================
