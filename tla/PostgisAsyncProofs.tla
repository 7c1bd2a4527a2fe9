------------------------- MODULE PostgisAsyncProofs -------------------------
(***************************************************************************)
(* What a rendering over PostGIS datasources guarantees, for every map,    *)
(* every number of threads and pools of every size.  Renderings only meet  *)
(* at the pools, so that the argument is about one thread: the invariant   *)
(* Rendered relates its phase, its map, where it is, the states of its     *)
(* result sets and the queues of its contexts.                             *)
(*                                                                         *)
(* The heart of it is a count.  The j-th query in a queue has at least j   *)
(* asynchronous queries of its context before it that are still to be      *)
(* read, and each of them sends one from the head of the queue.            *)
(***************************************************************************)
EXTENDS PostgisAsync, FiniteSetTheorems, TLAPS

\* The asynchronous queries of a context, and those at a..b-1.
IsAsync(m, i, p) == i \in DOMAIN m /\ m[i].mode = "async" /\ m[i].plugin = p
Between(m, p, a, b) == {i \in DOMAIN m : IsAsync(m, i, p) /\ a <= i /\ i < b}
Under(m, rs, p) == {i \in DOMAIN m : IsAsync(m, i, p) /\ rs[i] \in WithHandle}

\* The first query whose result set has yet to send another one.
Base(ph, ps) == IF ph = "prepare" THEN 1 ELSE IF ph = "sending" THEN ps + 1 ELSE ps

Running(ph) == ph \in {"prepare", "render", "closed", "sending", "done"}

Typed(ph, m, ps, rs, pn, la, qu, nx) ==
    /\ ph \in Phases
    /\ m \in Maps \cup {<<>>}
    /\ ph = "idle" => m = <<>>
    /\ ps \in Nat \ {0}
    /\ DOMAIN rs = DOMAIN m
    /\ \A i \in DOMAIN m : rs[i] \in ResultStates
    /\ pn \subseteq Nat
    /\ la \in [Plugins -> Nat]
    /\ qu \in [Plugins -> Seq(Nat)]
    /\ nx \in Nat

\* What is in the queues is what waits to be sent, in the order of the map.
Queued(ph, m, rs, qu, nx) ==
    /\ \A p \in Plugins : \A j \in 1..Len(qu[p]) :
         /\ IsAsync(m, qu[p][j], p) /\ rs[qu[p][j]] = "queued"
         /\ \A k \in 1..Len(qu[p]) : j < k => qu[p][j] < qu[p][k]
         /\ ph = "sending" => qu[p][j] # nx
    /\ \A i \in DOMAIN m : rs[i] = "queued" =>
         /\ m[i].mode = "async"
         /\ \/ \E j \in 1..Len(qu[m[i].plugin]) : qu[m[i].plugin][j] = i
            \/ ph = "sending" /\ nx = i

\* The count.
EnoughBefore(ph, m, ps, qu) ==
    \A p \in Plugins : \A j \in 1..Len(qu[p]) :
        Cardinality(Between(m, p, Base(ph, ps), qu[p][j])) >= j

Prepared(i, m, rs) ==
    \/ m[i].mode = "async" /\ rs[i] \in {"pending", "queued"}
    \/ m[i].mode = "cursor" /\ rs[i] = "cursor"
    \/ m[i].mode \in {"sync", "extent"} /\ rs[i] \in {"buffered", "known"}
WasRead(i, m, rs) ==
    \/ rs[i] \in {"read", "dropped", "buffered", "known"}
    \/ m[i].mode = "cursor" /\ rs[i] = "fetched"

\* Where the result sets stand, before and after the query at hand.
States(ph, m, ps, rs, pn, nx) ==
    /\ ph = "prepare" => \A i \in DOMAIN m :
         /\ i < ps => Prepared(i, m, rs)
         /\ i = ps => rs[i] \in {"none", "borrowed"}
         /\ i > ps => rs[i] = "none"
    /\ ph \in {"render", "done"} => \A i \in DOMAIN m :
         /\ i < ps => WasRead(i, m, rs)
         /\ i = ps => Prepared(i, m, rs) \/ (m[i].mode = "async" /\ rs[i] = "reading")
         /\ i > ps => Prepared(i, m, rs)
    /\ ph \in {"closed", "sending"} =>
         /\ ps \in DOMAIN m /\ m[ps].mode = "async"
         /\ \A i \in DOMAIN m :
              /\ i <= ps => WasRead(i, m, rs)
              /\ i > ps => \/ Prepared(i, m, rs)
                           \/ ph = "sending" /\ i = nx /\ rs[i] = "borrowed"
    /\ ph = "sending" =>
         /\ nx \in DOMAIN m /\ nx > ps /\ IsAsync(m, nx, m[ps].plugin)
         /\ rs[nx] \in {"queued", "borrowed"}
    /\ ph = "done" => ps \notin DOMAIN m
    /\ \A i \in pn : i \in DOMAIN m /\ rs[i] \in {"pending", "reading"}

\* A query that is read has left its place to the next one of its context.
Vacant(ph, m, ps, rs, nx, p) ==
    /\ ph = "closed" \/ (ph = "sending" /\ rs[nx] = "queued")
    /\ m[ps].plugin = p

Counted(ph, m, ps, rs, la, qu, nx) ==
    \A p \in Plugins :
        /\ Cardinality(Under(m, rs, p)) <= la[p]
        /\ Vacant(ph, m, ps, rs, nx, p) => Cardinality(Under(m, rs, p)) + 1 <= la[p]
        /\ ph # "idle" /\ la[p] > 0 =>
             \E i \in DOMAIN m : IsAsync(m, i, p) /\ la[p] <= m[i].max_async
        /\ ph = "prepare" =>
             Cardinality(Between(m, p, 1, ps))
               + (IF IsAsync(m, ps, p) /\ rs[ps] = "borrowed" THEN 1 ELSE 0)
               >= Len(qu[p]) + la[p]

\* A query that is answered at once holds a connection while it is at hand.
Alone(m, ps, rs) ==
    \A i \in DOMAIN m : AnsweredAtOnce(m, i) /\ rs[i] \in WithHandle => i = ps

Rendered(ph, m, ps, rs, pn, la, qu, nx) ==
    /\ Typed(ph, m, ps, rs, pn, la, qu, nx)
    /\ Running(ph) => /\ Queued(ph, m, rs, qu, nx)
                      /\ EnoughBefore(ph, m, ps, qu)
                      /\ States(ph, m, ps, rs, pn, nx)
    /\ ~Running(ph) => Alone(m, ps, rs)
    /\ Counted(ph, m, ps, rs, la, qu, nx)

Shape ==
    /\ phase \in [Threads -> Phases] /\ map \in [Threads -> Seq(Queries)]
    /\ pos \in [Threads -> Nat \ {0}] /\ launched \in [Threads -> [Plugins -> Nat]]
    /\ next \in [Threads -> Nat]
    /\ DOMAIN results = Threads /\ DOMAIN pending = Threads /\ DOMAIN queue = Threads
    /\ left \in [Threads -> Nat] /\ crashed \in BOOLEAN

Inv ==
    /\ Shape
    /\ \A t \in Threads :
         Rendered(phase[t], map[t], pos[t], results[t], pending[t], launched[t],
                  queue[t], next[t])

-----------------------------------------------------------------------------
(* Counting *)

\* What a map is made of.
LEMMA MapFacts ==
    ASSUME NEW m \in Maps \cup {<<>>}
    PROVE  /\ m \in Seq(Queries)
           /\ Len(m) \in Nat /\ DOMAIN m = 1..Len(m)
           /\ \A i \in DOMAIN m :
                /\ m[i].plugin \in Plugins /\ m[i].mode \in Modes
                /\ m[i].max_async \in Nat /\ m[i].pool \in Pools
                /\ m[i].mode = "async" => m[i].max_async >= 2
<1>1. m \in Seq(Queries) /\ (m \in Maps \/ m = <<>>)
  <2>1. CASE m \in Maps
    BY <2>1, MapsAssumption
  <2>2. CASE m = <<>>
    BY <2>2
  <2>3. QED
    BY <2>1, <2>2
<1>2. Len(m) \in Nat /\ DOMAIN m = 1..Len(m)
  BY <1>1
<1>3. ASSUME NEW i \in DOMAIN m
      PROVE  /\ m[i].plugin \in Plugins /\ m[i].mode \in Modes
             /\ m[i].max_async \in Nat /\ m[i].pool \in Pools
  <2>1. m[i] \in Queries
    BY <1>1, <1>2
  <2>2. QED
    BY <2>1 DEF Queries
<1>4. ASSUME NEW i \in DOMAIN m, m[i].mode = "async" PROVE m[i].max_async >= 2
  <2>1. m # <<>>
    OBVIOUS
  <2>2. m[i].max_async \in 2..MaxSize[m[i].pool]
    BY <1>1, <1>4, <2>1, MapsAssumption
  <2>3. MaxSize[m[i].pool] \in Nat
    BY <1>3, PoolsAssumption
  <2>4. QED
    BY <2>2, <2>3
<1>5. QED
  BY <1>1, <1>2, <1>3, <1>4

\* Sets of positions in a map are finite.
LEMMA Positions ==
    ASSUME NEW m \in Maps \cup {<<>>}, NEW S \in SUBSET (DOMAIN m)
    PROVE  IsFiniteSet(S) /\ Cardinality(S) \in Nat
<1>1. DOMAIN m = 1..Len(m) /\ Len(m) \in Nat
  BY MapFacts
<1>2. IsFiniteSet(1..Len(m))
  BY <1>1, FS_Interval
<1>3. IsFiniteSet(S)
  BY <1>1, <1>2, FS_Subset
<1>4. QED
  BY <1>3, FS_CardinalityType

\* The count of the queries before b, when b is added.
LEMMA BetweenUp ==
    ASSUME NEW m \in Maps \cup {<<>>}, NEW p, NEW a \in Nat, NEW b \in Nat, a <= b
    PROVE  /\ Cardinality(Between(m, p, a, b)) \in Nat
           /\ IsAsync(m, b, p) =>
                Cardinality(Between(m, p, a, b + 1)) = Cardinality(Between(m, p, a, b)) + 1
           /\ ~IsAsync(m, b, p) => Between(m, p, a, b + 1) = Between(m, p, a, b)
<1>1. DOMAIN m \subseteq Nat
  BY MapFacts
<1>2. /\ IsFiniteSet(Between(m, p, a, b))
      /\ Cardinality(Between(m, p, a, b)) \in Nat
  BY Positions DEF Between
<1>3. ASSUME IsAsync(m, b, p)
      PROVE  Cardinality(Between(m, p, a, b + 1)) = Cardinality(Between(m, p, a, b)) + 1
  <2>1. Between(m, p, a, b + 1) = Between(m, p, a, b) \cup {b}
    BY <1>1, <1>3 DEF Between, IsAsync
  <2>2. b \notin Between(m, p, a, b)
    BY DEF Between
  <2>3. QED
    BY <1>2, <2>1, <2>2, FS_AddElement
<1>4. ASSUME ~IsAsync(m, b, p)
      PROVE  Between(m, p, a, b + 1) = Between(m, p, a, b)
  BY <1>1, <1>4 DEF Between, IsAsync
<1>5. QED
  BY <1>2, <1>3, <1>4

\* The count of the queries from a on, when a is left out.
LEMMA BetweenOn ==
    ASSUME NEW m \in Maps \cup {<<>>}, NEW p, NEW a \in Nat, NEW b \in Nat
    PROVE  /\ Cardinality(Between(m, p, a, b)) \in Nat
           /\ Cardinality(Between(m, p, a + 1, b)) \in Nat
           /\ Cardinality(Between(m, p, a, b)) <= Cardinality(Between(m, p, a + 1, b)) + 1
           /\ ~IsAsync(m, a, p) => Between(m, p, a + 1, b) = Between(m, p, a, b)
           /\ b <= a => Cardinality(Between(m, p, a, b)) = 0
<1>1. DOMAIN m \subseteq Nat
  BY MapFacts
<1>2. /\ IsFiniteSet(Between(m, p, a, b))
      /\ Cardinality(Between(m, p, a, b)) \in Nat
      /\ IsFiniteSet(Between(m, p, a + 1, b))
      /\ Cardinality(Between(m, p, a + 1, b)) \in Nat
  BY Positions DEF Between
<1>3. Cardinality(Between(m, p, a, b)) <= Cardinality(Between(m, p, a + 1, b)) + 1
  <2>1. Between(m, p, a, b) \subseteq Between(m, p, a + 1, b) \cup {a}
    BY <1>1 DEF Between
  <2>2. /\ IsFiniteSet(Between(m, p, a + 1, b) \cup {a})
        /\ Cardinality(Between(m, p, a + 1, b) \cup {a})
             <= Cardinality(Between(m, p, a + 1, b)) + 1
    <3> DEFINE S == Between(m, p, a + 1, b)
    <3>1. IsFiniteSet(S) /\ Cardinality(S) \in Nat
      BY <1>2
    <3> HIDE DEF S
    <3>2. /\ IsFiniteSet(S \cup {a})
          /\ Cardinality(S \cup {a}) = IF a \in S THEN Cardinality(S) ELSE Cardinality(S) + 1
      BY <3>1, FS_AddElement
    <3> DEFINE c == Cardinality(S)
               d == Cardinality(S \cup {a})
    <3>3. c \in Nat /\ (d = c \/ d = c + 1)
      BY <3>1, <3>2
    <3> HIDE DEF c, d
    <3>4. d <= c + 1
      BY <3>3
    <3> USE DEF c, d
    <3>5. QED
      BY <3>2, <3>4 DEF S
  <2>3. /\ Cardinality(Between(m, p, a, b)) <= Cardinality(Between(m, p, a + 1, b) \cup {a})
        /\ Cardinality(Between(m, p, a + 1, b) \cup {a}) \in Nat
    BY <2>1, <2>2, FS_Subset, FS_CardinalityType
  <2>4. QED
    BY <1>2, <2>2, <2>3
<1>4. ~IsAsync(m, a, p) => Between(m, p, a + 1, b) = Between(m, p, a, b)
  BY <1>1 DEF Between, IsAsync
<1>5. ASSUME b <= a PROVE Cardinality(Between(m, p, a, b)) = 0
  <2>1. Between(m, p, a, b) = {}
    BY <1>1, <1>5 DEF Between
  <2>2. QED
    BY <2>1, FS_EmptySet
<1>6. QED
  BY <1>2, <1>3, <1>4, <1>5

\* Only the result set of query i changes, and becomes s.
OnlyAt(i, m, rs, rt) == \A j \in DOMAIN m \ {i} : rt[j] = rs[j]
Turns(i, s, m, rs, rt) ==
    i \in DOMAIN m /\ DOMAIN rt = DOMAIN m /\ rt[i] = s /\ OnlyAt(i, m, rs, rt)

\* Only the queue of context p changes, and becomes s.
QueueTurns(p, s, qu, qv) ==
    /\ qv \in [Plugins -> Seq(Nat)] /\ qv[p] = s
    /\ \A x \in Plugins \ {p} : qv[x] = qu[x]

\* The queries under way, when one result set changes: it is none of the
\* context's or keeps its connection or lack of one, it gets one, it gives it
\* back.
LEMMA UnderType ==
    ASSUME NEW m \in Maps \cup {<<>>}, NEW rs, NEW p
    PROVE  IsFiniteSet(Under(m, rs, p)) /\ Cardinality(Under(m, rs, p)) \in Nat
BY Positions DEF Under

LEMMA UnderSame ==
    ASSUME NEW m, NEW rs, NEW rt, NEW i \in DOMAIN m, OnlyAt(i, m, rs, rt), NEW p,
           ~IsAsync(m, i, p) \/ (rs[i] \in WithHandle <=> rt[i] \in WithHandle)
    PROVE  Under(m, rt, p) = Under(m, rs, p)
BY DEF Under, OnlyAt

LEMMA UnderMore ==
    ASSUME NEW m \in Maps \cup {<<>>}, NEW rs, NEW rt, NEW i \in DOMAIN m,
           OnlyAt(i, m, rs, rt), NEW p, IsAsync(m, i, p),
           rs[i] \notin WithHandle, rt[i] \in WithHandle
    PROVE  Cardinality(Under(m, rt, p)) = Cardinality(Under(m, rs, p)) + 1
<1>1. Under(m, rt, p) = Under(m, rs, p) \cup {i} /\ i \notin Under(m, rs, p)
  BY DEF Under, OnlyAt
<1>2. QED
  BY <1>1, UnderType, FS_AddElement

LEMMA UnderLess ==
    ASSUME NEW m \in Maps \cup {<<>>}, NEW rs, NEW rt, NEW i \in DOMAIN m,
           OnlyAt(i, m, rs, rt), NEW p, IsAsync(m, i, p),
           rs[i] \in WithHandle, rt[i] \notin WithHandle
    PROVE  Cardinality(Under(m, rs, p)) = Cardinality(Under(m, rt, p)) + 1
<1>1. OnlyAt(i, m, rt, rs)
  BY DEF OnlyAt
<1>2. QED
  BY <1>1, UnderMore

\* The queues stay right while no result set enters or leaves them.
LEMMA QueuedKept ==
    ASSUME NEW ph, NEW pg, ph # "sending", pg # "sending", NEW m, NEW rs, NEW rt,
           NEW qu, NEW nx, NEW ny, Queued(ph, m, rs, qu, nx),
           \A i \in DOMAIN m : rt[i] = "queued" <=> rs[i] = "queued"
    PROVE  Queued(pg, m, rt, qu, ny)
<1>1. ASSUME NEW p \in Plugins, NEW j \in 1..Len(qu[p])
      PROVE  /\ IsAsync(m, qu[p][j], p) /\ rt[qu[p][j]] = "queued"
             /\ \A k \in 1..Len(qu[p]) : j < k => qu[p][j] < qu[p][k]
  BY DEF Queued, IsAsync
<1>2. ASSUME NEW i \in DOMAIN m, rt[i] = "queued"
      PROVE  /\ m[i].mode = "async"
             /\ \E j \in 1..Len(qu[m[i].plugin]) : qu[m[i].plugin][j] = i
  BY <1>2 DEF Queued
<1>3. QED
  BY <1>1, <1>2 DEF Queued

-----------------------------------------------------------------------------
(* Preparing: what one step does to the rendering of its thread *)

\* apply starts with fresh contexts.
LEMMA StartRendered ==
    ASSUME NEW m \in Maps, NEW nx \in Nat
    PROVE  Rendered("prepare", m, 1, [i \in DOMAIN m |-> "none"], {}, NoRequests,
                    NoQueues, nx)
<1> DEFINE rs == [i \in DOMAIN m |-> "none"]
<1>1. DOMAIN m = 1..Len(m) /\ Len(m) \in Nat
  BY MapFacts
<1>2. /\ \A p \in Plugins : NoRequests[p] = 0 /\ NoQueues[p] = <<>> /\ Len(NoQueues[p]) = 0
      /\ NoRequests \in [Plugins -> Nat] /\ NoQueues \in [Plugins -> Seq(Nat)]
  BY DEF NoRequests, NoQueues
<1>3. Typed("prepare", m, 1, rs, {}, NoRequests, NoQueues, nx)
  BY <1>2 DEF Typed, Phases, ResultStates
<1>4. Queued("prepare", m, rs, NoQueues, nx)
  BY <1>2 DEF Queued
<1>5. EnoughBefore("prepare", m, 1, NoQueues)
  BY <1>2 DEF EnoughBefore
<1>6. States("prepare", m, 1, rs, {}, nx)
  BY <1>1 DEF States
<1>7. Counted("prepare", m, 1, rs, NoRequests, NoQueues, nx)
  <2> SUFFICES ASSUME NEW p \in Plugins
               PROVE  /\ Cardinality(Under(m, rs, p)) = 0
                      /\ ~Vacant("prepare", m, 1, rs, nx, p)
                      /\ Cardinality(Between(m, p, 1, 1)) = 0
                      /\ ~(IsAsync(m, 1, p) /\ rs[1] = "borrowed")
    BY <1>2 DEF Counted
  <2>1. Under(m, rs, p) = {}
    BY DEF Under, WithHandle
  <2>2. Cardinality(Between(m, p, 1, 1)) = 0
    <3>1. m \in Maps \cup {<<>>} /\ 1 \in Nat /\ 1 <= 1
      OBVIOUS
    <3>2. QED
      BY <3>1, BetweenOn
  <2>3. ~(IsAsync(m, 1, p) /\ rs[1] = "borrowed")
    BY DEF IsAsync
  <2>4. QED
    BY <2>1, <2>2, <2>3, FS_EmptySet DEF Vacant
<1>8. QED
  BY <1>3, <1>4, <1>5, <1>6, <1>7 DEF Rendered, Running

\* The last query was prepared.
LEMMA BeginRendered ==
    ASSUME NEW m, NEW ps, NEW rs, NEW pn, NEW la, NEW qu, NEW nx,
           Rendered("prepare", m, ps, rs, pn, la, qu, nx), ps \notin DOMAIN m
    PROVE  Rendered("render", m, 1, rs, pn, la, qu, nx)
<1>1. /\ Typed("prepare", m, ps, rs, pn, la, qu, nx)
      /\ Queued("prepare", m, rs, qu, nx)
      /\ EnoughBefore("prepare", m, ps, qu)
      /\ States("prepare", m, ps, rs, pn, nx)
      /\ Counted("prepare", m, ps, rs, la, qu, nx)
  BY DEF Rendered, Running
<1>2. DOMAIN m = 1..Len(m) /\ Len(m) \in Nat /\ ps \in Nat \ {0}
  BY <1>1, MapFacts DEF Typed
<1>3. \A i \in DOMAIN m : i >= 1 /\ i < ps
  BY <1>2
<1>4. Typed("render", m, 1, rs, pn, la, qu, nx)
  BY <1>1 DEF Typed, Phases
<1>5. Queued("render", m, rs, qu, nx)
  BY <1>1 DEF Queued
<1>6. EnoughBefore("render", m, 1, qu)
  BY <1>1 DEF EnoughBefore, Base
<1>7. States("render", m, 1, rs, pn, nx)
  <2>1. \A i \in DOMAIN m : Prepared(i, m, rs)
    BY <1>1, <1>3 DEF States
  <2>2. \A i \in DOMAIN m : ~(i < 1)
    BY <1>2
  <2>3. QED
    BY <1>1, <2>1, <2>2 DEF States
<1>8. Counted("render", m, 1, rs, la, qu, nx)
  BY <1>1 DEF Counted, Vacant
<1>9. QED
  BY <1>4, <1>5, <1>6, <1>7, <1>8 DEF Rendered, Running

\* A query below its limit gets a connection.
LEMMA BorrowRendered ==
    ASSUME NEW m, NEW ps, NEW rs, NEW pn, NEW la, NEW qu, NEW nx, NEW lb, NEW rt,
           Rendered("prepare", m, ps, rs, pn, la, qu, nx),
           rs[ps] = "none", Turns(ps, "borrowed", m, rs, rt),
           IF m[ps].mode = "async"
           THEN /\ la[m[ps].plugin] < m[ps].max_async
                /\ lb = [la EXCEPT ![m[ps].plugin] = @ + 1]
           ELSE lb = la
    PROVE  Rendered("prepare", m, ps, rt, pn, lb, qu, nx)
<1>1. /\ Typed("prepare", m, ps, rs, pn, la, qu, nx)
      /\ Queued("prepare", m, rs, qu, nx)
      /\ EnoughBefore("prepare", m, ps, qu)
      /\ States("prepare", m, ps, rs, pn, nx)
      /\ Counted("prepare", m, ps, rs, la, qu, nx)
  BY DEF Rendered, Running
<1>2. /\ m \in Maps \cup {<<>>} /\ DOMAIN m = 1..Len(m) /\ Len(m) \in Nat /\ ps \in Nat \ {0}
      /\ \A i \in DOMAIN m : m[i].plugin \in Plugins /\ m[i].max_async \in Nat
      /\ DOMAIN rs = DOMAIN m /\ la \in [Plugins -> Nat]
      /\ ps \in DOMAIN m /\ rt[ps] = "borrowed" /\ DOMAIN rt = DOMAIN m
      /\ OnlyAt(ps, m, rs, rt) /\ \A i \in DOMAIN m \ {ps} : rt[i] = rs[i]
  BY <1>1, MapFacts DEF Typed, Turns, OnlyAt
<1>3. Typed("prepare", m, ps, rt, pn, lb, qu, nx)
  <2>1. lb \in [Plugins -> Nat]
    BY <1>2
  <2>2. DOMAIN rt = DOMAIN m /\ \A i \in DOMAIN m : rt[i] \in ResultStates
    BY <1>1, <1>2 DEF Typed, ResultStates
  <2>3. QED
    BY <1>1, <2>1, <2>2 DEF Typed
<1>4. Queued("prepare", m, rt, qu, nx)
  BY <1>1, <1>2, QueuedKept
<1>5. States("prepare", m, ps, rt, pn, nx)
  BY <1>1, <1>2 DEF States, Prepared
<1>6. Counted("prepare", m, ps, rt, lb, qu, nx)
  <2> SUFFICES ASSUME NEW p \in Plugins
               PROVE  /\ Cardinality(Under(m, rt, p)) <= lb[p]
                      /\ lb[p] > 0 =>
                           \E i \in DOMAIN m : IsAsync(m, i, p) /\ lb[p] <= m[i].max_async
                      /\ Cardinality(Between(m, p, 1, ps))
                           + (IF IsAsync(m, ps, p) /\ rt[ps] = "borrowed" THEN 1 ELSE 0)
                           >= Len(qu[p]) + lb[p]
    BY DEF Counted, Vacant
  <2>1. /\ Cardinality(Under(m, rs, p)) <= la[p]
        /\ la[p] > 0 => \E i \in DOMAIN m : IsAsync(m, i, p) /\ la[p] <= m[i].max_async
        /\ Cardinality(Between(m, p, 1, ps)) + 0 >= Len(qu[p]) + la[p]
    BY <1>1 DEF Counted
  <2>2. CASE IsAsync(m, ps, p)
    <3>1. lb[p] = la[p] + 1 /\ lb[p] <= m[ps].max_async /\ la[p] \in Nat
      BY <1>2, <2>2 DEF IsAsync
    <3>2. /\ Cardinality(Under(m, rs, p)) \in Nat
          /\ Cardinality(Under(m, rt, p)) = Cardinality(Under(m, rs, p)) + 1
      <4>1. rs[ps] \notin WithHandle /\ rt[ps] \in WithHandle
        BY <1>2 DEF WithHandle
      <4>2. m \in Maps \cup {<<>>} /\ ps \in DOMAIN m /\ OnlyAt(ps, m, rs, rt) /\ IsAsync(m, ps, p)
        BY <1>2, <2>2
      <4>3. Cardinality(Under(m, rt, p)) = Cardinality(Under(m, rs, p)) + 1
        BY <4>1, <4>2, UnderMore
      <4>4. Cardinality(Under(m, rs, p)) \in Nat
        BY <4>2, UnderType
      <4>5. QED
        BY <4>3, <4>4
    <3>3. Cardinality(Between(m, p, 1, ps)) \in Nat /\ Len(qu[p]) \in Nat
      BY <1>1, <1>2, BetweenUp DEF Typed
    <3>4. QED
      BY <1>2, <2>1, <2>2, <3>1, <3>2, <3>3
  <2>3. CASE ~IsAsync(m, ps, p)
    <3>1. lb[p] = la[p]
      BY <1>2, <2>3 DEF IsAsync
    <3>2. Under(m, rt, p) = Under(m, rs, p)
      BY <1>2, <2>3, UnderSame
    <3>3. Cardinality(Between(m, p, 1, ps)) \in Nat /\ Len(qu[p]) \in Nat
      BY <1>1, <1>2, BetweenUp DEF Typed
    <3>4. QED
      BY <2>1, <2>3, <3>1, <3>2, <3>3
  <2>4. QED
    BY <2>2, <2>3
<1>7. QED
  BY <1>1, <1>3, <1>4, <1>5, <1>6 DEF Rendered, Running

\* A query at the limit of its datasource goes to the end of the queue.  At
\* least max_async of its context are before it besides those in the queue.
LEMMA PostponeRendered ==
    ASSUME NEW m, NEW ps, NEW rs, NEW pn, NEW la, NEW qu, NEW nx, NEW qv, NEW rt,
           Rendered("prepare", m, ps, rs, pn, la, qu, nx),
           rs[ps] = "none", Turns(ps, "queued", m, rs, rt),
           m[ps].mode = "async", la[m[ps].plugin] >= m[ps].max_async,
           QueueTurns(m[ps].plugin, Append(qu[m[ps].plugin], ps), qu, qv)
    PROVE  Rendered("prepare", m, ps + 1, rt, pn, la, qv, nx)
<1>1. /\ Typed("prepare", m, ps, rs, pn, la, qu, nx)
      /\ Queued("prepare", m, rs, qu, nx)
      /\ EnoughBefore("prepare", m, ps, qu)
      /\ States("prepare", m, ps, rs, pn, nx)
      /\ Counted("prepare", m, ps, rs, la, qu, nx)
  BY DEF Rendered, Running
<1>2. /\ m \in Maps \cup {<<>>} /\ DOMAIN m = 1..Len(m) /\ Len(m) \in Nat
      /\ ps \in Nat \ {0} /\ ps \in DOMAIN m /\ DOMAIN rs = DOMAIN m
      /\ la \in [Plugins -> Nat] /\ qu \in [Plugins -> Seq(Nat)]
      /\ rt[ps] = "queued" /\ DOMAIN rt = DOMAIN m
      /\ OnlyAt(ps, m, rs, rt) /\ \A i \in DOMAIN m \ {ps} : rt[i] = rs[i]
  BY <1>1, MapFacts DEF Typed, Turns, OnlyAt
<1> DEFINE q == m[ps].plugin
           n == Len(qu[q])
<1>a. /\ qv \in [Plugins -> Seq(Nat)] /\ qv[q] = Append(qu[q], ps)
      /\ \A p \in Plugins \ {q} : qv[p] = qu[p]
  BY DEF QueueTurns
<1>3. /\ q \in Plugins /\ IsAsync(m, ps, q) /\ m[ps].max_async >= 2
      /\ m[ps].max_async \in Nat /\ la[q] >= 2 /\ la[q] \in Nat
  BY <1>2, MapFacts DEF IsAsync
<1>4. /\ n \in Nat /\ Len(qv[q]) = n + 1 /\ qv[q][n + 1] = ps
      /\ \A j \in 1..n : qv[q][j] = qu[q][j]
  BY <1>2, <1>3, <1>a
<1>5. \A p \in Plugins \ {q} : qv[p] = qu[p]
  BY <1>a
<1>6. ASSUME NEW p \in Plugins, NEW j \in 1..Len(qu[p])
      PROVE  qu[p][j] \in DOMAIN m /\ qu[p][j] < ps /\ qu[p][j] \in Nat
  <2>1. IsAsync(m, qu[p][j], p) /\ rs[qu[p][j]] = "queued"
    BY <1>1 DEF Queued
  <2>2. qu[p][j] \in DOMAIN m
    BY <2>1 DEF IsAsync
  <2>3. qu[p][j] # ps /\ ~(qu[p][j] > ps)
    BY <1>1, <2>1, <2>2 DEF States
  <2>4. QED
    BY <1>2, <2>2, <2>3
<1>7. Typed("prepare", m, ps + 1, rt, pn, la, qv, nx)
  <2>1. \A i \in DOMAIN m : rt[i] \in ResultStates
    BY <1>1, <1>2 DEF Typed, ResultStates
  <2>2. QED
    BY <1>1, <1>2, <1>a, <2>1 DEF Typed
<1>8. Queued("prepare", m, rt, qv, nx)
  <2>1. ASSUME NEW p \in Plugins, NEW j \in 1..Len(qv[p])
        PROVE  /\ IsAsync(m, qv[p][j], p) /\ rt[qv[p][j]] = "queued"
               /\ \A k \in 1..Len(qv[p]) : j < k => qv[p][j] < qv[p][k]
    <3>1. CASE p # q
      <4>1. IsAsync(m, qu[p][j], p) /\ rs[qu[p][j]] = "queued" /\ qu[p][j] \in DOMAIN m
        BY <1>1, <1>5, <3>1 DEF Queued, IsAsync
      <4>2. \A k \in 1..Len(qu[p]) : j < k => qu[p][j] < qu[p][k]
        BY <1>1, <1>5, <3>1 DEF Queued
      <4>3. QED
        BY <1>2, <1>5, <3>1, <4>1, <4>2
    <3>2. CASE p = q /\ j = n + 1
      BY <1>2, <1>3, <1>4, <3>2
    <3>3. CASE p = q /\ j # n + 1
      <4>1. j \in 1..n
        BY <1>4, <3>3
      <4>2. IsAsync(m, qu[q][j], q) /\ rs[qu[q][j]] = "queued" /\ qu[q][j] \in DOMAIN m
        <5>1. IsAsync(m, qu[q][j], q) /\ rs[qu[q][j]] = "queued"
          BY <1>1, <1>3, <4>1 DEF Queued
        <5>2. QED
          BY <5>1 DEF IsAsync
      <4>3. \A k \in 1..n : j < k => qu[q][j] < qu[q][k]
        BY <1>1, <1>3, <4>1 DEF Queued
      <4>4. \A k \in 1..n + 1 : k \in 1..n \/ k = n + 1
        BY <1>4
      <4>5. qu[q][j] < ps
        BY <1>3, <1>6, <4>1
      <4>6. QED
        BY <1>2, <1>4, <3>3, <4>1, <4>2, <4>3, <4>4, <4>5
    <3>4. QED
      BY <3>1, <3>2, <3>3
  <2>2. ASSUME NEW i \in DOMAIN m, rt[i] = "queued"
        PROVE  /\ m[i].mode = "async"
               /\ \E j \in 1..Len(qv[m[i].plugin]) : qv[m[i].plugin][j] = i
    <3>1. CASE i = ps
      BY <1>4, <3>1
    <3>2. CASE i # ps
      <4>1. m[i].mode = "async" /\ m[i].plugin \in Plugins
        BY <1>1, <1>2, <2>2, <3>2, MapFacts DEF Queued
      <4>2. PICK j \in 1..Len(qu[m[i].plugin]) : qu[m[i].plugin][j] = i
        BY <1>1, <1>2, <2>2, <3>2 DEF Queued
      <4>3. j \in 1..Len(qv[m[i].plugin]) /\ qv[m[i].plugin][j] = i
        <5>1. CASE m[i].plugin = q
          <6>1. j \in 1..n /\ qv[q][j] = i
            BY <1>4, <4>2, <5>1
          <6>2. QED
            BY <1>4, <5>1, <6>1
        <5>2. CASE m[i].plugin # q
          BY <1>5, <4>1, <4>2, <5>2
        <5>3. QED
          BY <5>1, <5>2
      <4>4. QED
        BY <4>1, <4>3
    <3>3. QED
      BY <3>1, <3>2
  <2>3. QED
    BY <2>1, <2>2 DEF Queued
<1>9. EnoughBefore("prepare", m, ps + 1, qv)
  <2> SUFFICES ASSUME NEW p \in Plugins, NEW j \in 1..Len(qv[p])
               PROVE  Cardinality(Between(m, p, 1, qv[p][j])) >= j
    BY DEF EnoughBefore, Base
  <2>1. \A x \in Plugins : \A k \in 1..Len(qu[x]) : Cardinality(Between(m, x, 1, qu[x][k])) >= k
    BY <1>1 DEF EnoughBefore, Base
  <2>2. CASE p # q \/ j # n + 1
    <3>1. j \in 1..Len(qu[p]) /\ qv[p][j] = qu[p][j]
      <4>1. CASE p # q
        BY <1>5, <4>1
      <4>2. CASE p = q
        <5>1. j \in 1..n + 1 /\ j # n + 1
          BY <1>4, <2>2, <4>2
        <5>2. j \in 1..n
          BY <1>4, <5>1
        <5>3. QED
          BY <1>4, <4>2, <5>2
      <4>3. QED
        BY <4>1, <4>2
    <3>2. QED
      BY <2>1, <3>1
  <2>3. CASE p = q /\ j = n + 1
    <3>1. /\ Cardinality(Between(m, q, 1, ps)) + 0 >= n + la[q]
          /\ Cardinality(Between(m, q, 1, ps)) \in Nat
      BY <1>1, <1>2, <1>3, BetweenUp DEF Counted
    <3> DEFINE c == Cardinality(Between(m, q, 1, ps))
               l == la[q]
    <3>a. c \in Nat /\ n \in Nat /\ l \in Nat /\ l >= 2 /\ c >= n + l
      BY <1>3, <1>4, <3>1
    <3> HIDE DEF c, l, n
    <3>b. c >= n + 1
      BY <3>a
    <3> USE DEF c, l, n
    <3>2. Cardinality(Between(m, q, 1, ps)) >= n + 1
      BY <3>b
    <3>3. QED
      BY <1>4, <2>3, <3>2
  <2>4. QED
    BY <2>2, <2>3
<1>10. States("prepare", m, ps + 1, rt, pn, nx)
  <2>1. ASSUME NEW i \in DOMAIN m
        PROVE  /\ i < ps + 1 => Prepared(i, m, rt)
               /\ i = ps + 1 => rt[i] \in {"none", "borrowed"}
               /\ i > ps + 1 => rt[i] = "none"
    <3>1. CASE i = ps
      BY <1>2, <3>1 DEF Prepared
    <3>2. CASE i # ps
      BY <1>1, <1>2, <3>2 DEF States, Prepared
    <3>3. QED
      BY <3>1, <3>2
  <2>2. \A i \in pn : i \in DOMAIN m /\ rt[i] \in {"pending", "reading"}
    BY <1>1, <1>2 DEF States
  <2>3. QED
    BY <2>1, <2>2 DEF States
<1>11. Counted("prepare", m, ps + 1, rt, la, qv, nx)
  <2> SUFFICES ASSUME NEW p \in Plugins
               PROVE  /\ Cardinality(Under(m, rt, p)) <= la[p]
                      /\ la[p] > 0 =>
                           \E i \in DOMAIN m : IsAsync(m, i, p) /\ la[p] <= m[i].max_async
                      /\ Cardinality(Between(m, p, 1, ps + 1)) >= Len(qv[p]) + la[p]
                      /\ ~(rt[ps + 1] = "borrowed" /\ IsAsync(m, ps + 1, p))
    <3>1. ASSUME NEW p \in Plugins
          PROVE  Cardinality(Between(m, p, 1, ps + 1)) \in Nat
      BY <1>2, BetweenUp
    <3>2. QED
      BY <3>1 DEF Counted, Vacant
  <2>1. /\ Cardinality(Under(m, rs, p)) <= la[p]
        /\ la[p] > 0 => \E i \in DOMAIN m : IsAsync(m, i, p) /\ la[p] <= m[i].max_async
        /\ Cardinality(Between(m, p, 1, ps)) + 0 >= Len(qu[p]) + la[p]
    BY <1>1 DEF Counted
  <2>2. Under(m, rt, p) = Under(m, rs, p)
    <3>1. rs[ps] \in WithHandle <=> rt[ps] \in WithHandle
      BY <1>2 DEF WithHandle
    <3>2. QED
      BY ONLY <1>2, <3>1, UnderSame
  <2>3. ~(rt[ps + 1] = "borrowed" /\ IsAsync(m, ps + 1, p))
    <3>1. ASSUME ps + 1 \in DOMAIN m PROVE rt[ps + 1] = "none"
      <4>1. ps + 1 > ps /\ ps + 1 # ps
        BY <1>2
      <4>2. rs[ps + 1] = "none"
        BY <1>1, <3>1, <4>1 DEF States
      <4>3. QED
        BY <1>2, <3>1, <4>1, <4>2
    <3>2. QED
      BY <3>1 DEF IsAsync
  <2>4. Cardinality(Between(m, p, 1, ps + 1)) >= Len(qv[p]) + la[p]
    <3>1. Cardinality(Between(m, p, 1, ps)) \in Nat /\ la[p] \in Nat /\ Len(qu[p]) \in Nat
      BY <1>2, BetweenUp
    <3>2. CASE p = q
      <4>1. Cardinality(Between(m, p, 1, ps + 1)) = Cardinality(Between(m, p, 1, ps)) + 1
        BY <1>2, <1>3, <3>2, BetweenUp
      <4>2. QED
        BY <1>4, <2>1, <3>1, <3>2, <4>1
    <3>3. CASE p # q
      <4>1. Between(m, p, 1, ps + 1) = Between(m, p, 1, ps)
        BY <1>2, <3>3, BetweenUp DEF IsAsync
      <4>2. QED
        BY <1>5, <2>1, <3>1, <3>3, <4>1
    <3>4. QED
      BY <3>2, <3>3
  <2>5. QED
    BY <2>1, <2>2, <2>3, <2>4
<1>12. QED
  BY <1>7, <1>8, <1>9, <1>10, <1>11 DEF Rendered, Running

\* The query is sent, or executed at once.
LEMMA QueryRendered ==
    ASSUME NEW m, NEW ps, NEW rs, NEW pn, NEW la, NEW qu, NEW nx, NEW rt, NEW pb,
           NEW s, Rendered("prepare", m, ps, rs, pn, la, qu, nx),
           rs[ps] = "borrowed", Turns(ps, s, m, rs, rt),
           \/ m[ps].mode = "async" /\ s = "pending" /\ pb = pn \cup {ps}
           \/ m[ps].mode = "cursor" /\ s = "cursor" /\ pb = pn
           \/ m[ps].mode \in {"sync", "extent"} /\ s \in {"buffered", "known"} /\ pb = pn
    PROVE  Rendered("prepare", m, ps + 1, rt, pb, la, qu, nx)
<1>1. /\ Typed("prepare", m, ps, rs, pn, la, qu, nx)
      /\ Queued("prepare", m, rs, qu, nx)
      /\ EnoughBefore("prepare", m, ps, qu)
      /\ States("prepare", m, ps, rs, pn, nx)
      /\ Counted("prepare", m, ps, rs, la, qu, nx)
  BY DEF Rendered, Running
<1>2. /\ m \in Maps \cup {<<>>} /\ DOMAIN m = 1..Len(m) /\ Len(m) \in Nat
      /\ ps \in Nat \ {0} /\ ps \in DOMAIN m /\ DOMAIN rs = DOMAIN m
      /\ la \in [Plugins -> Nat] /\ qu \in [Plugins -> Seq(Nat)]
      /\ rt[ps] = s /\ DOMAIN rt = DOMAIN m /\ s \in {"pending", "cursor", "buffered", "known"}
      /\ OnlyAt(ps, m, rs, rt) /\ \A i \in DOMAIN m \ {ps} : rt[i] = rs[i]
  BY <1>1, MapFacts DEF Typed, Turns, OnlyAt
<1>3. Typed("prepare", m, ps + 1, rt, pb, la, qu, nx)
  <2>1. \A i \in DOMAIN m : rt[i] \in ResultStates
    BY <1>1, <1>2 DEF Typed, ResultStates
  <2>2. pb \subseteq Nat
    BY <1>1, <1>2 DEF Typed
  <2>3. QED
    BY <1>1, <1>2, <2>1, <2>2 DEF Typed
<1>4. Queued("prepare", m, rt, qu, nx)
  <2>1. \A i \in DOMAIN m : rt[i] = "queued" <=> rs[i] = "queued"
    BY <1>2
  <2>2. QED
    BY <1>1, <2>1, QueuedKept
<1>5. EnoughBefore("prepare", m, ps + 1, qu)
  BY <1>1 DEF EnoughBefore, Base
<1>6. States("prepare", m, ps + 1, rt, pb, nx)
  <2>1. ASSUME NEW i \in DOMAIN m
        PROVE  /\ i < ps + 1 => Prepared(i, m, rt)
               /\ i = ps + 1 => rt[i] \in {"none", "borrowed"}
               /\ i > ps + 1 => rt[i] = "none"
    <3>1. CASE i = ps
      BY <1>2, <3>1 DEF Prepared
    <3>2. CASE i # ps
      BY <1>1, <1>2, <3>2 DEF States, Prepared
    <3>3. QED
      BY <3>1, <3>2
  <2>2. \A i \in pn : i \in DOMAIN m /\ i # ps /\ rt[i] \in {"pending", "reading"}
    BY <1>1, <1>2 DEF States
  <2>3. \A i \in pb : i \in DOMAIN m /\ rt[i] \in {"pending", "reading"}
    BY <1>2, <2>2
  <2>4. QED
    BY <2>1, <2>3 DEF States
<1>7. Counted("prepare", m, ps + 1, rt, la, qu, nx)
  <2> SUFFICES ASSUME NEW p \in Plugins
               PROVE  /\ Cardinality(Under(m, rt, p)) <= la[p]
                      /\ la[p] > 0 =>
                           \E i \in DOMAIN m : IsAsync(m, i, p) /\ la[p] <= m[i].max_async
                      /\ Cardinality(Between(m, p, 1, ps + 1)) >= Len(qu[p]) + la[p]
                      /\ ~(rt[ps + 1] = "borrowed" /\ IsAsync(m, ps + 1, p))
    <3>1. ASSUME NEW p \in Plugins
          PROVE  Cardinality(Between(m, p, 1, ps + 1)) \in Nat
      BY <1>2, BetweenUp
    <3>2. QED
      BY <3>1 DEF Counted, Vacant
  <2>1. /\ Cardinality(Under(m, rs, p)) <= la[p]
        /\ la[p] > 0 => \E i \in DOMAIN m : IsAsync(m, i, p) /\ la[p] <= m[i].max_async
        /\ Cardinality(Between(m, p, 1, ps))
             + (IF IsAsync(m, ps, p) /\ rs[ps] = "borrowed" THEN 1 ELSE 0)
             >= Len(qu[p]) + la[p]
    BY <1>1 DEF Counted
  <2>2. Under(m, rt, p) = Under(m, rs, p)
    <3>1. ~IsAsync(m, ps, p) \/ (rs[ps] \in WithHandle <=> rt[ps] \in WithHandle)
      BY <1>2 DEF WithHandle, IsAsync
    <3>2. QED
      BY ONLY <1>2, <3>1, UnderSame
  <2>3. ~(rt[ps + 1] = "borrowed" /\ IsAsync(m, ps + 1, p))
    <3>1. ASSUME ps + 1 \in DOMAIN m PROVE rt[ps + 1] = "none"
      <4>1. ps + 1 > ps /\ ps + 1 # ps
        BY <1>2
      <4>2. rs[ps + 1] = "none"
        BY <1>1, <3>1, <4>1 DEF States
      <4>3. QED
        BY <1>2, <3>1, <4>1, <4>2
    <3>2. QED
      BY <3>1 DEF IsAsync
  <2>4. Cardinality(Between(m, p, 1, ps + 1)) >= Len(qu[p]) + la[p]
    <3>1. Cardinality(Between(m, p, 1, ps)) \in Nat /\ la[p] \in Nat /\ Len(qu[p]) \in Nat
      BY <1>2, BetweenUp
    <3>2. CASE IsAsync(m, ps, p)
      <4>1. Cardinality(Between(m, p, 1, ps + 1)) = Cardinality(Between(m, p, 1, ps)) + 1
        BY <1>2, <3>2, BetweenUp
      <4>2. Cardinality(Between(m, p, 1, ps)) + 1 >= Len(qu[p]) + la[p]
        BY <2>1, <3>2
      <4>3. QED
        BY ONLY <4>1, <4>2
    <3>3. CASE ~IsAsync(m, ps, p)
      <4>1. Between(m, p, 1, ps + 1) = Between(m, p, 1, ps)
        BY <1>2, <3>3, BetweenUp
      <4>2. QED
        BY <2>1, <3>1, <3>3, <4>1
    <3>4. QED
      BY <3>2, <3>3
  <2>5. QED
    BY <2>1, <2>2, <2>3, <2>4
<1>8. QED
  BY <1>3, <1>4, <1>5, <1>6, <1>7 DEF Rendered, Running

-----------------------------------------------------------------------------
(* Rendering: what one step does to the rendering of its thread *)

\* While the maps are read the counts of a context depend on what is under way
\* alone.
LEMMA CountedReading ==
    ASSUME NEW ph, NEW m, NEW ps, NEW rs, NEW la, NEW qu, NEW nx,
           NEW pg, NEW pt, NEW rt, NEW qv, NEW ny,
           ph # "idle", pg # "prepare", Counted(ph, m, ps, rs, la, qu, nx),
           \A p \in Plugins : Under(m, rt, p) = Under(m, rs, p),
           \A p \in Plugins : Vacant(pg, m, pt, rt, ny, p) => Vacant(ph, m, ps, rs, nx, p)
    PROVE  Counted(pg, m, pt, rt, la, qv, ny)
BY DEF Counted

\* The first row of a result: nothing is given back yet.
LEMMA FirstRowRendered ==
    ASSUME NEW m, NEW ps, NEW rs, NEW pn, NEW la, NEW qu, NEW nx, NEW rt,
           Rendered("render", m, ps, rs, pn, la, qu, nx),
           rs[ps] = "pending", Turns(ps, "reading", m, rs, rt)
    PROVE  Rendered("render", m, ps, rt, pn, la, qu, nx)
<1>1. /\ Typed("render", m, ps, rs, pn, la, qu, nx)
      /\ Queued("render", m, rs, qu, nx)
      /\ EnoughBefore("render", m, ps, qu)
      /\ States("render", m, ps, rs, pn, nx)
      /\ Counted("render", m, ps, rs, la, qu, nx)
  BY DEF Rendered, Running
<1>2. /\ m \in Maps \cup {<<>>} /\ DOMAIN m = 1..Len(m) /\ Len(m) \in Nat
      /\ ps \in Nat \ {0} /\ ps \in DOMAIN m /\ DOMAIN rs = DOMAIN m
      /\ rt[ps] = "reading" /\ DOMAIN rt = DOMAIN m
      /\ OnlyAt(ps, m, rs, rt) /\ \A i \in DOMAIN m \ {ps} : rt[i] = rs[i]
  BY <1>1, MapFacts DEF Typed, Turns, OnlyAt
<1>3. Typed("render", m, ps, rt, pn, la, qu, nx)
  <2>1. \A i \in DOMAIN m : rt[i] \in ResultStates
    BY <1>1, <1>2 DEF Typed, ResultStates
  <2>2. QED
    BY <1>1, <1>2, <2>1 DEF Typed
<1>4. Queued("render", m, rt, qu, nx)
  <2>1. \A i \in DOMAIN m : rt[i] = "queued" <=> rs[i] = "queued"
    BY <1>2
  <2>2. QED
    BY <1>1, <2>1, QueuedKept
<1>5. States("render", m, ps, rt, pn, nx)
  <2>1. m[ps].mode = "async"
    BY <1>1, <1>2 DEF States, Prepared
  <2>2. ASSUME NEW i \in DOMAIN m \ {ps}
        PROVE  (i < ps => WasRead(i, m, rt)) /\ (i > ps => Prepared(i, m, rt))
    BY <1>1, <1>2 DEF States, Prepared, WasRead
  <2>3. \A i \in pn : i \in DOMAIN m /\ rt[i] \in {"pending", "reading"}
    BY <1>1, <1>2 DEF States
  <2>4. QED
    BY <1>2, <2>1, <2>2, <2>3 DEF States
<1>6. Counted("render", m, ps, rt, la, qu, nx)
  <2>1. ASSUME NEW p \in Plugins PROVE Under(m, rt, p) = Under(m, rs, p)
    <3>1. rs[ps] \in WithHandle <=> rt[ps] \in WithHandle
      BY <1>2 DEF WithHandle
    <3>2. QED
      BY ONLY <1>2, <3>1, UnderSame
  <2>2. \A p \in Plugins : ~Vacant("render", m, ps, rt, nx, p)
    BY DEF Vacant
  <2>3. QED
    BY <1>1, <2>1, <2>2 DEF Counted
<1>7. QED
  BY <1>1, <1>3, <1>4, <1>5, <1>6 DEF Rendered, Running

\* The last row: the connection is given back, and its place is vacant.
LEMMA LastRowRendered ==
    ASSUME NEW m, NEW ps, NEW rs, NEW pn, NEW la, NEW qu, NEW nx, NEW rt, NEW s,
           Rendered("render", m, ps, rs, pn, la, qu, nx),
           rs[ps] = "reading", s \in {"read", "dropped"}, Turns(ps, s, m, rs, rt)
    PROVE  Rendered("closed", m, ps, rt, pn \ {ps}, la, qu, nx)
<1>1. /\ Typed("render", m, ps, rs, pn, la, qu, nx)
      /\ Queued("render", m, rs, qu, nx)
      /\ EnoughBefore("render", m, ps, qu)
      /\ States("render", m, ps, rs, pn, nx)
      /\ Counted("render", m, ps, rs, la, qu, nx)
  BY DEF Rendered, Running
<1>2. /\ m \in Maps \cup {<<>>} /\ DOMAIN m = 1..Len(m) /\ Len(m) \in Nat
      /\ ps \in Nat \ {0} /\ ps \in DOMAIN m /\ DOMAIN rs = DOMAIN m
      /\ la \in [Plugins -> Nat]
      /\ rt[ps] = s /\ DOMAIN rt = DOMAIN m
      /\ OnlyAt(ps, m, rs, rt) /\ \A i \in DOMAIN m \ {ps} : rt[i] = rs[i]
  BY <1>1, MapFacts DEF Typed, Turns, OnlyAt
<1>3. Typed("closed", m, ps, rt, pn \ {ps}, la, qu, nx)
  <2>1. \A i \in DOMAIN m : rt[i] \in ResultStates
    BY <1>1, <1>2 DEF Typed, ResultStates
  <2>2. QED
    BY <1>1, <1>2, <2>1 DEF Typed, Phases
<1>4. Queued("closed", m, rt, qu, nx)
  <2>1. \A i \in DOMAIN m : rt[i] = "queued" <=> rs[i] = "queued"
    BY <1>2
  <2>2. QED
    BY <1>1, <2>1, QueuedKept
<1>5. EnoughBefore("closed", m, ps, qu)
  BY <1>1 DEF EnoughBefore, Base
<1>6. m[ps].mode = "async"
  BY <1>1, <1>2 DEF States, Prepared
<1>7. States("closed", m, ps, rt, pn \ {ps}, nx)
  <2>1. ASSUME NEW i \in DOMAIN m
        PROVE  (i <= ps => WasRead(i, m, rt)) /\ (i > ps => Prepared(i, m, rt))
    <3>1. CASE i = ps
      BY <1>2, <3>1 DEF WasRead
    <3>2. CASE i # ps
      BY <1>1, <1>2, <3>2 DEF States, Prepared, WasRead
    <3>3. QED
      BY <3>1, <3>2
  <2>2. \A i \in pn \ {ps} : i \in DOMAIN m /\ rt[i] \in {"pending", "reading"}
    BY <1>1, <1>2 DEF States
  <2>3. QED
    BY <1>2, <1>6, <2>1, <2>2 DEF States
<1>8. Counted("closed", m, ps, rt, la, qu, nx)
  <2> SUFFICES ASSUME NEW p \in Plugins
               PROVE  /\ Cardinality(Under(m, rt, p)) <= la[p]
                      /\ m[ps].plugin = p => Cardinality(Under(m, rt, p)) + 1 <= la[p]
                      /\ la[p] > 0 =>
                           \E i \in DOMAIN m : IsAsync(m, i, p) /\ la[p] <= m[i].max_async
    BY DEF Counted, Vacant
  <2>1. /\ Cardinality(Under(m, rs, p)) <= la[p]
        /\ la[p] > 0 => \E i \in DOMAIN m : IsAsync(m, i, p) /\ la[p] <= m[i].max_async
    BY <1>1 DEF Counted
  <2>2. CASE m[ps].plugin = p
    <3>1. rs[ps] \in WithHandle /\ rt[ps] \notin WithHandle /\ IsAsync(m, ps, p)
      BY <1>2, <1>6, <2>2 DEF WithHandle, IsAsync
    <3>2. Cardinality(Under(m, rs, p)) = Cardinality(Under(m, rt, p)) + 1
      BY ONLY <1>2, <3>1, UnderLess
    <3>3. Cardinality(Under(m, rt, p)) \in Nat /\ la[p] \in Nat
      BY <1>2, UnderType
    <3>4. QED
      BY <2>1, <3>2, <3>3
  <2>3. CASE m[ps].plugin # p
    <3>1. ~IsAsync(m, ps, p)
      BY <2>3 DEF IsAsync
    <3>2. Under(m, rt, p) = Under(m, rs, p)
      BY ONLY <1>2, <3>1, UnderSame
    <3>3. QED
      BY <2>1, <2>3, <3>2
  <2>4. QED
    BY <2>2, <2>3
<1>9. QED
  BY <1>3, <1>4, <1>5, <1>7, <1>8 DEF Rendered, Running

\* The queue is empty: the next layer is rendered.
LEMMA NothingToSend ==
    ASSUME NEW m, NEW ps, NEW rs, NEW pn, NEW la, NEW qu, NEW nx,
           Rendered("closed", m, ps, rs, pn, la, qu, nx),
           qu[m[ps].plugin] = <<>>
    PROVE  Rendered("render", m, ps + 1, rs, pn, la, qu, nx)
<1>1. /\ Typed("closed", m, ps, rs, pn, la, qu, nx)
      /\ Queued("closed", m, rs, qu, nx)
      /\ EnoughBefore("closed", m, ps, qu)
      /\ States("closed", m, ps, rs, pn, nx)
      /\ Counted("closed", m, ps, rs, la, qu, nx)
  BY DEF Rendered, Running
<1>2. /\ m \in Maps \cup {<<>>} /\ DOMAIN m = 1..Len(m) /\ Len(m) \in Nat
      /\ ps \in Nat \ {0} /\ ps \in DOMAIN m
      /\ qu \in [Plugins -> Seq(Nat)]
  BY <1>1, MapFacts DEF Typed, States
<1>3. Typed("render", m, ps + 1, rs, pn, la, qu, nx)
  BY <1>1, <1>2 DEF Typed, Phases
<1>4. Queued("render", m, rs, qu, nx)
  BY <1>1, QueuedKept
<1>5. EnoughBefore("render", m, ps + 1, qu)
  <2> SUFFICES ASSUME NEW p \in Plugins, NEW j \in 1..Len(qu[p])
               PROVE  Cardinality(Between(m, p, ps + 1, qu[p][j])) >= j
    BY DEF EnoughBefore, Base
  <2>1. Cardinality(Between(m, p, ps, qu[p][j])) >= j
    BY <1>1 DEF EnoughBefore, Base
  <2>2. p # m[ps].plugin
    <3>1. Len(<<>>) = 0 /\ 1..0 = {}
      OBVIOUS
    <3>2. QED
      BY <3>1
  <2>3. ~IsAsync(m, ps, p) /\ qu[p][j] \in Nat
    BY <1>2, <2>2 DEF IsAsync
  <2>4. Between(m, p, ps + 1, qu[p][j]) = Between(m, p, ps, qu[p][j])
    BY <1>2, <2>3, BetweenOn
  <2>5. QED
    BY <2>1, <2>4
<1>6. States("render", m, ps + 1, rs, pn, nx)
  <2>1. ASSUME NEW i \in DOMAIN m
        PROVE  /\ i < ps + 1 => WasRead(i, m, rs)
               /\ i >= ps + 1 => Prepared(i, m, rs)
    <3>1. (i <= ps => WasRead(i, m, rs)) /\ (i > ps => Prepared(i, m, rs))
      BY <1>1 DEF States
    <3>2. (i < ps + 1 <=> i <= ps) /\ (i >= ps + 1 <=> i > ps)
      BY <1>2
    <3>3. QED
      BY <3>1, <3>2
  <2>2. \A i \in DOMAIN m : (i = ps + 1 => i >= ps + 1) /\ (i > ps + 1 => i >= ps + 1)
    BY <1>2
  <2>3. QED
    BY <1>1, <2>1, <2>2 DEF States
<1>7. Counted("render", m, ps + 1, rs, la, qu, nx)
  <2>1. \A p \in Plugins : ~Vacant("render", m, ps + 1, rs, nx, p)
    BY DEF Vacant
  <2>2. QED
    BY <1>1, <2>1, CountedReading
<1>8. QED
  BY <1>3, <1>4, <1>5, <1>6, <1>7 DEF Rendered, Running

\* The head of the queue is taken.  Each query in the queue moves one place
\* forward, and has the query just read before it no more.
LEMMA PopRendered ==
    ASSUME NEW m, NEW ps, NEW rs, NEW pn, NEW la, NEW qu, NEW nx, NEW qv,
           Rendered("closed", m, ps, rs, pn, la, qu, nx),
           qu[m[ps].plugin] # <<>>,
           QueueTurns(m[ps].plugin, Tail(qu[m[ps].plugin]), qu, qv)
    PROVE  Rendered("sending", m, ps, rs, pn, la, qv, Head(qu[m[ps].plugin]))
<1> DEFINE q == m[ps].plugin
           n == Len(qu[q])
           h == Head(qu[q])
<1>1. /\ Typed("closed", m, ps, rs, pn, la, qu, nx)
      /\ Queued("closed", m, rs, qu, nx)
      /\ EnoughBefore("closed", m, ps, qu)
      /\ States("closed", m, ps, rs, pn, nx)
      /\ Counted("closed", m, ps, rs, la, qu, nx)
  BY DEF Rendered, Running
<1>2. /\ m \in Maps \cup {<<>>} /\ DOMAIN m = 1..Len(m) /\ Len(m) \in Nat
      /\ ps \in Nat \ {0} /\ ps \in DOMAIN m /\ m[ps].mode = "async"
      /\ qu \in [Plugins -> Seq(Nat)] /\ q \in Plugins
  BY <1>1, MapFacts DEF Typed, States
<1>3. /\ n \in Nat /\ n >= 1 /\ h = qu[q][1] /\ 1 \in 1..n /\ h \in Nat
      /\ Len(qv[q]) = n - 1
      /\ \A j \in 1..n - 1 : j \in Nat /\ j + 1 \in 1..n /\ qv[q][j] = qu[q][j + 1]
      /\ \A j \in 1..n : qu[q][j] \in Nat
  <2>1. qu[q] \in Seq(Nat) /\ qu[q] # <<>> /\ qv[q] = Tail(qu[q])
    BY <1>2 DEF QueueTurns
  <2>2. QED
    BY <2>1
<1>4. IsAsync(m, h, q) /\ rs[h] = "queued" /\ h \in DOMAIN m
  <2>1. IsAsync(m, h, q) /\ rs[h] = "queued"
    BY <1>1, <1>2, <1>3 DEF Queued
  <2>2. QED
    BY <2>1 DEF IsAsync
<1>5. qv \in [Plugins -> Seq(Nat)] /\ \A p \in Plugins \ {q} : qv[p] = qu[p]
  BY DEF QueueTurns
<1> HIDE DEF h
<1>6. h > ps
  <2>1. h <= ps => WasRead(h, m, rs)
    BY <1>1, <1>4 DEF States
  <2>2. ~WasRead(h, m, rs)
    BY <1>4 DEF WasRead
  <2>3. h \in Nat /\ ps \in Nat
    BY <1>2, <1>3
  <2>4. QED
    BY <2>1, <2>2, <2>3
<1>7. Typed("sending", m, ps, rs, pn, la, qv, h)
  BY <1>1, <1>3, <1>5 DEF Typed, Phases
<1>8. Queued("sending", m, rs, qv, h)
  <2>1. ASSUME NEW j \in 1..n - 1
        PROVE  /\ IsAsync(m, qv[q][j], q) /\ rs[qv[q][j]] = "queued"
               /\ qv[q][j] # h
               /\ \A k \in 1..n - 1 : j < k => qv[q][j] < qv[q][k]
    <3>1. j + 1 \in 1..n /\ 1 < j + 1 /\ qv[q][j] = qu[q][j + 1] /\ j \in Nat
      BY <1>3
    <3>2. /\ IsAsync(m, qu[q][j + 1], q) /\ rs[qu[q][j + 1]] = "queued"
          /\ \A k \in 1..n : j + 1 < k => qu[q][j + 1] < qu[q][k]
          /\ qu[q][1] < qu[q][j + 1]
      BY <1>1, <1>2, <1>3, <3>1 DEF Queued
    <3>3. qu[q][j + 1] \in Nat
      BY <1>2, <3>1
    <3>4. ASSUME NEW k \in 1..n - 1, j < k PROVE qv[q][j] < qv[q][k]
      <4>1. k + 1 \in 1..n /\ k \in Nat /\ qv[q][k] = qu[q][k + 1]
        BY <1>3
      <4>2. j + 1 < k + 1
        BY ONLY <3>1, <3>4, <4>1
      <4>3. QED
        BY <3>1, <3>2, <4>1, <4>2
    <3>5. QED
      BY <1>3, <3>1, <3>2, <3>3, <3>4
  <2>2. ASSUME NEW p \in Plugins, NEW j \in 1..Len(qv[p])
        PROVE  /\ IsAsync(m, qv[p][j], p) /\ rs[qv[p][j]] = "queued"
               /\ \A k \in 1..Len(qv[p]) : j < k => qv[p][j] < qv[p][k]
               /\ qv[p][j] # h
    <3>1. CASE p = q
      BY <1>3, <2>1, <3>1
    <3>2. CASE p # q
      <4>1. IsAsync(m, qu[p][j], p) /\ rs[qu[p][j]] = "queued"
        BY <1>1, <1>5, <3>2 DEF Queued
      <4>2. \A k \in 1..Len(qu[p]) : j < k => qu[p][j] < qu[p][k]
        BY <1>1, <1>5, <3>2 DEF Queued
      <4>3. qu[p][j] # h
        BY <1>4, <3>2, <4>1 DEF IsAsync
      <4>4. QED
        BY <1>5, <3>2, <4>1, <4>2, <4>3
    <3>3. QED
      BY <3>1, <3>2
  <2>3. ASSUME NEW i \in DOMAIN m, rs[i] = "queued", i # h
        PROVE  /\ m[i].mode = "async"
               /\ \E j \in 1..Len(qv[m[i].plugin]) : qv[m[i].plugin][j] = i
    <3>1. m[i].mode = "async" /\ m[i].plugin \in Plugins
      BY <1>1, <1>2, <2>3, MapFacts DEF Queued
    <3>2. PICK j \in 1..Len(qu[m[i].plugin]) : qu[m[i].plugin][j] = i
      BY <1>1, <2>3 DEF Queued
    <3>3. CASE m[i].plugin # q
      BY <1>5, <3>1, <3>2, <3>3
    <3>4. CASE m[i].plugin = q
      <4>1. j \in 1..n /\ j # 1 /\ qu[q][j] = i
        BY <1>3, <2>3, <3>2, <3>4
      <4>2. j - 1 \in 1..n - 1 /\ (j - 1) + 1 = j
        BY <1>3, <4>1
      <4>3. qv[q][j - 1] = i
        BY <1>3, <4>1, <4>2
      <4>4. QED
        BY <1>3, <3>1, <3>4, <4>2, <4>3
    <3>5. QED
      BY <3>3, <3>4
  <2>4. QED
    BY <1>4, <2>2, <2>3 DEF Queued, IsAsync
<1>9. EnoughBefore("sending", m, ps, qv)
  <2> SUFFICES ASSUME NEW p \in Plugins, NEW j \in 1..Len(qv[p])
               PROVE  Cardinality(Between(m, p, ps + 1, qv[p][j])) >= j
    BY DEF EnoughBefore, Base
  <2>1. \A x \in Plugins : \A k \in 1..Len(qu[x]) :
            Cardinality(Between(m, x, ps, qu[x][k])) >= k
    BY <1>1 DEF EnoughBefore, Base
  <2>2. CASE p # q
    <3>1. Cardinality(Between(m, p, ps, qv[p][j])) >= j /\ qv[p][j] \in Nat
      BY <1>2, <1>5, <2>1, <2>2
    <3>2. ~IsAsync(m, ps, p)
      BY <2>2 DEF IsAsync
    <3>3. Between(m, p, ps + 1, qv[p][j]) = Between(m, p, ps, qv[p][j])
      BY <1>2, <3>1, <3>2, BetweenOn
    <3>4. QED
      BY <3>1, <3>3
  <2>3. CASE p = q
    <3>1. j \in Nat /\ j + 1 \in 1..n /\ qv[q][j] = qu[q][j + 1] /\ qu[q][j + 1] \in Nat
      <4>1. j \in 1..n - 1
        BY <1>3, <2>3
      <4>2. j \in Nat /\ j + 1 \in 1..n /\ qv[q][j] = qu[q][j + 1]
        BY <1>3, <4>1
      <4>3. qu[q][j + 1] \in Nat
        BY <1>3, <4>2
      <4>4. QED
        BY <4>2, <4>3
    <3>2. Cardinality(Between(m, q, ps, qv[q][j])) >= j + 1
      BY <1>2, <2>1, <3>1
    <3>3. /\ Cardinality(Between(m, q, ps, qv[q][j]))
               <= Cardinality(Between(m, q, ps + 1, qv[q][j])) + 1
          /\ Cardinality(Between(m, q, ps, qv[q][j])) \in Nat
          /\ Cardinality(Between(m, q, ps + 1, qv[q][j])) \in Nat
      BY <1>2, <3>1, BetweenOn
    <3>4. Cardinality(Between(m, q, ps + 1, qv[q][j])) >= j
      BY ONLY <3>1, <3>2, <3>3
    <3>5. QED
      BY <2>3, <3>4
  <2>4. QED
    BY <2>2, <2>3
<1>10. States("sending", m, ps, rs, pn, h)
  BY <1>1, <1>4, <1>6 DEF States
<1>11. Counted("sending", m, ps, rs, la, qv, h)
  <2>1. \A p \in Plugins : Vacant("sending", m, ps, rs, h, p)
                             => Vacant("closed", m, ps, rs, nx, p)
    BY DEF Vacant
  <2>2. QED
    BY <1>1, <2>1, CountedReading
<1>12. Rendered("sending", m, ps, rs, pn, la, qv, h)
  BY <1>7, <1>8, <1>9, <1>10, <1>11 DEF Rendered, Running
<1>13. QED
  BY <1>12 DEF h

\* It gets a connection, in the place of the query just read.
LEMMA BorrowNextRendered ==
    ASSUME NEW m, NEW ps, NEW rs, NEW pn, NEW la, NEW qu, NEW nx, NEW rt,
           Rendered("sending", m, ps, rs, pn, la, qu, nx),
           rs[nx] = "queued", Turns(nx, "borrowed", m, rs, rt)
    PROVE  Rendered("sending", m, ps, rt, pn, la, qu, nx)
<1>1. /\ Typed("sending", m, ps, rs, pn, la, qu, nx)
      /\ Queued("sending", m, rs, qu, nx)
      /\ EnoughBefore("sending", m, ps, qu)
      /\ States("sending", m, ps, rs, pn, nx)
      /\ Counted("sending", m, ps, rs, la, qu, nx)
  BY DEF Rendered, Running
<1>2. /\ m \in Maps \cup {<<>>} /\ DOMAIN m = 1..Len(m) /\ Len(m) \in Nat
      /\ ps \in Nat \ {0} /\ ps \in DOMAIN m /\ DOMAIN rs = DOMAIN m
      /\ nx \in DOMAIN m /\ nx > ps /\ IsAsync(m, nx, m[ps].plugin)
      /\ m[ps].plugin \in Plugins /\ la \in [Plugins -> Nat]
      /\ rt[nx] = "borrowed" /\ DOMAIN rt = DOMAIN m
      /\ OnlyAt(nx, m, rs, rt) /\ \A i \in DOMAIN m \ {nx} : rt[i] = rs[i]
  BY <1>1, MapFacts DEF Typed, Turns, OnlyAt, States
<1>3. Typed("sending", m, ps, rt, pn, la, qu, nx)
  <2>1. \A i \in DOMAIN m : rt[i] \in ResultStates
    BY <1>1, <1>2 DEF Typed, ResultStates
  <2>2. QED
    BY <1>1, <1>2, <2>1 DEF Typed
<1>4. Queued("sending", m, rt, qu, nx)
  <2>1. ASSUME NEW p \in Plugins, NEW j \in 1..Len(qu[p])
        PROVE  /\ IsAsync(m, qu[p][j], p) /\ rt[qu[p][j]] = "queued"
               /\ \A k \in 1..Len(qu[p]) : j < k => qu[p][j] < qu[p][k]
               /\ qu[p][j] # nx
    <3>1. /\ IsAsync(m, qu[p][j], p) /\ rs[qu[p][j]] = "queued" /\ qu[p][j] # nx
          /\ \A k \in 1..Len(qu[p]) : j < k => qu[p][j] < qu[p][k]
      BY <1>1 DEF Queued
    <3>2. qu[p][j] \in DOMAIN m
      BY <3>1 DEF IsAsync
    <3>3. QED
      BY <1>2, <3>1, <3>2
  <2>2. ASSUME NEW i \in DOMAIN m, rt[i] = "queued"
        PROVE  /\ m[i].mode = "async"
               /\ \E j \in 1..Len(qu[m[i].plugin]) : qu[m[i].plugin][j] = i
    <3>1. i # nx /\ rs[i] = "queued"
      BY <1>2, <2>2
    <3>2. QED
      BY <1>1, <3>1 DEF Queued
  <2>3. QED
    BY <2>1, <2>2 DEF Queued
<1>5. States("sending", m, ps, rt, pn, nx)
  <2>1. ASSUME NEW i \in DOMAIN m
        PROVE  /\ i <= ps => WasRead(i, m, rt)
               /\ i > ps => Prepared(i, m, rt) \/ (i = nx /\ rt[i] = "borrowed")
    <3>1. CASE i = nx
      BY <1>2, <3>1
    <3>2. CASE i # nx
      <4>1. /\ i <= ps => WasRead(i, m, rs)
            /\ i > ps => Prepared(i, m, rs)
        BY <1>1, <3>2 DEF States
      <4>2. QED
        BY <1>2, <3>2, <4>1 DEF Prepared, WasRead
    <3>3. QED
      BY <3>1, <3>2
  <2>2. ASSUME NEW i \in pn PROVE i \in DOMAIN m /\ rt[i] \in {"pending", "reading"}
    <3>1. i \in DOMAIN m /\ rs[i] \in {"pending", "reading"}
      BY <1>1 DEF States
    <3>2. QED
      BY <1>2, <3>1
  <2>3. m[ps].mode = "async"
    BY <1>1 DEF States
  <2>4. QED
    BY <1>2, <2>1, <2>2, <2>3 DEF States
<1>6. Counted("sending", m, ps, rt, la, qu, nx)
  <2>1. \A p \in Plugins : ~Vacant("sending", m, ps, rt, nx, p)
    BY <1>2 DEF Vacant
  <2>2. ASSUME NEW p \in Plugins PROVE Cardinality(Under(m, rt, p)) <= la[p]
    <3>1. CASE p = m[ps].plugin
      <4>1. Cardinality(Under(m, rs, p)) + 1 <= la[p]
        BY <1>1, <3>1 DEF Counted, Vacant
      <4>2. rs[nx] \notin WithHandle /\ rt[nx] \in WithHandle /\ IsAsync(m, nx, p)
        BY <1>2, <3>1 DEF WithHandle
      <4>3. Cardinality(Under(m, rt, p)) = Cardinality(Under(m, rs, p)) + 1
        BY ONLY <1>2, <4>2, UnderMore
      <4>4. QED
        BY <4>1, <4>3
    <3>2. CASE p # m[ps].plugin
      <4>1. ~IsAsync(m, nx, p)
        BY <1>2, <3>2 DEF IsAsync
      <4>2. Under(m, rt, p) = Under(m, rs, p)
        BY ONLY <1>2, <4>1, UnderSame
      <4>3. QED
        BY <1>1, <4>2 DEF Counted
    <3>3. QED
      BY <3>1, <3>2
  <2>3. QED
    BY <1>1, <2>1, <2>2 DEF Counted
<1>7. QED
  BY <1>1, <1>3, <1>4, <1>5, <1>6 DEF Rendered, Running, EnoughBefore

\* It is sent, and the next layer is rendered.
LEMMA SendNextRendered ==
    ASSUME NEW m, NEW ps, NEW rs, NEW pn, NEW la, NEW qu, NEW nx, NEW rt,
           Rendered("sending", m, ps, rs, pn, la, qu, nx),
           rs[nx] = "borrowed", Turns(nx, "pending", m, rs, rt)
    PROVE  Rendered("render", m, ps + 1, rt, pn \cup {nx}, la, qu, 0)
<1>1. /\ Typed("sending", m, ps, rs, pn, la, qu, nx)
      /\ Queued("sending", m, rs, qu, nx)
      /\ EnoughBefore("sending", m, ps, qu)
      /\ States("sending", m, ps, rs, pn, nx)
      /\ Counted("sending", m, ps, rs, la, qu, nx)
  BY DEF Rendered, Running
<1>2. /\ m \in Maps \cup {<<>>} /\ DOMAIN m = 1..Len(m) /\ Len(m) \in Nat
      /\ ps \in Nat \ {0} /\ ps \in DOMAIN m /\ DOMAIN rs = DOMAIN m
      /\ nx \in DOMAIN m /\ nx > ps /\ nx \in Nat /\ IsAsync(m, nx, m[ps].plugin)
      /\ rt[nx] = "pending" /\ DOMAIN rt = DOMAIN m
      /\ OnlyAt(nx, m, rs, rt) /\ \A i \in DOMAIN m \ {nx} : rt[i] = rs[i]
  BY <1>1, MapFacts DEF Typed, Turns, OnlyAt, States
<1>3. Typed("render", m, ps + 1, rt, pn \cup {nx}, la, qu, 0)
  <2>1. \A i \in DOMAIN m : rt[i] \in ResultStates
    BY <1>1, <1>2 DEF Typed, ResultStates
  <2>2. pn \cup {nx} \subseteq Nat
    BY <1>1, <1>2 DEF Typed
  <2>3. QED
    BY <1>1, <1>2, <2>1, <2>2 DEF Typed, Phases
<1>4. Queued("render", m, rt, qu, 0)
  <2>1. ASSUME NEW p \in Plugins, NEW j \in 1..Len(qu[p])
        PROVE  /\ IsAsync(m, qu[p][j], p) /\ rt[qu[p][j]] = "queued"
               /\ \A k \in 1..Len(qu[p]) : j < k => qu[p][j] < qu[p][k]
    <3>1. /\ IsAsync(m, qu[p][j], p) /\ rs[qu[p][j]] = "queued" /\ qu[p][j] # nx
          /\ \A k \in 1..Len(qu[p]) : j < k => qu[p][j] < qu[p][k]
      BY <1>1 DEF Queued
    <3>2. qu[p][j] \in DOMAIN m
      BY <3>1 DEF IsAsync
    <3>3. QED
      BY <1>2, <3>1, <3>2
  <2>2. ASSUME NEW i \in DOMAIN m, rt[i] = "queued"
        PROVE  /\ m[i].mode = "async"
               /\ \E j \in 1..Len(qu[m[i].plugin]) : qu[m[i].plugin][j] = i
    <3>1. i # nx /\ rs[i] = "queued"
      BY <1>2, <2>2
    <3>2. QED
      BY <1>1, <3>1 DEF Queued
  <2>3. QED
    BY <2>1, <2>2 DEF Queued
<1>5. EnoughBefore("render", m, ps + 1, qu)
  BY <1>1 DEF EnoughBefore, Base
<1>6. States("render", m, ps + 1, rt, pn \cup {nx}, 0)
  <2>1. ASSUME NEW i \in DOMAIN m
        PROVE  /\ i < ps + 1 => WasRead(i, m, rt)
               /\ i >= ps + 1 => Prepared(i, m, rt)
    <3>1. CASE i = nx
      BY <1>2, <3>1 DEF Prepared, IsAsync
    <3>2. CASE i # nx
      <4>1. /\ i <= ps => WasRead(i, m, rs)
            /\ i > ps => Prepared(i, m, rs)
        BY <1>1, <3>2 DEF States
      <4>2. (i < ps + 1 <=> i <= ps) /\ (i >= ps + 1 <=> i > ps)
        BY <1>2
      <4>3. QED
        BY <1>2, <3>2, <4>1, <4>2 DEF Prepared, WasRead
    <3>3. QED
      BY <3>1, <3>2
  <2>2. \A i \in DOMAIN m : (i = ps + 1 => i >= ps + 1) /\ (i > ps + 1 => i >= ps + 1)
    BY <1>2
  <2>3. ASSUME NEW i \in pn PROVE i \in DOMAIN m /\ rt[i] \in {"pending", "reading"}
    <3>1. i \in DOMAIN m /\ rs[i] \in {"pending", "reading"}
      BY <1>1 DEF States
    <3>2. QED
      BY <1>2, <3>1
  <2>4. QED
    BY <1>2, <2>1, <2>2, <2>3 DEF States
<1>7. Counted("render", m, ps + 1, rt, la, qu, 0)
  <2>1. ASSUME NEW p \in Plugins PROVE Under(m, rt, p) = Under(m, rs, p)
    <3>1. rs[nx] \in WithHandle <=> rt[nx] \in WithHandle
      BY <1>2 DEF WithHandle
    <3>2. QED
      BY ONLY <1>2, <3>1, UnderSame
  <2>2. \A p \in Plugins : ~Vacant("render", m, ps + 1, rt, 0, p)
    BY DEF Vacant
  <2>3. QED
    BY <1>1, <2>1, <2>2, CountedReading
<1>8. QED
  BY <1>3, <1>4, <1>5, <1>6, <1>7 DEF Rendered, Running

\* A result set that is no asynchronous one is read, or an extent passed by:
\* nothing is sent.
LEMMA ReadRowsRendered ==
    ASSUME NEW m, NEW ps, NEW rs, NEW pn, NEW la, NEW qu, NEW nx, NEW rt,
           Rendered("render", m, ps, rs, pn, la, qu, nx), ps \in DOMAIN m,
           \/ rs[ps] \in {"buffered", "known"} /\ rt = rs
           \/ rs[ps] = "cursor" /\ \E s \in {"fetched", "read"} : Turns(ps, s, m, rs, rt)
    PROVE  Rendered("render", m, ps + 1, rt, pn, la, qu, nx)
<1>1. /\ Typed("render", m, ps, rs, pn, la, qu, nx)
      /\ Queued("render", m, rs, qu, nx)
      /\ EnoughBefore("render", m, ps, qu)
      /\ States("render", m, ps, rs, pn, nx)
      /\ Counted("render", m, ps, rs, la, qu, nx)
  BY DEF Rendered, Running
<1>2. /\ m \in Maps \cup {<<>>} /\ DOMAIN m = 1..Len(m) /\ Len(m) \in Nat
      /\ ps \in Nat \ {0} /\ ps \in DOMAIN m /\ DOMAIN rs = DOMAIN m
      /\ DOMAIN rt = DOMAIN m /\ rs[ps] \in {"buffered", "known", "cursor"}
      /\ rt[ps] \in {"buffered", "known"} \/ (rs[ps] = "cursor" /\ rt[ps] \in {"fetched", "read"})
      /\ qu \in [Plugins -> Seq(Nat)]
      /\ OnlyAt(ps, m, rs, rt) /\ \A i \in DOMAIN m \ {ps} : rt[i] = rs[i]
  BY <1>1, MapFacts DEF Typed, Turns, OnlyAt
<1>3. m[ps].mode # "async" /\ (rs[ps] = "cursor" => m[ps].mode = "cursor")
  BY <1>1, <1>2 DEF States, Prepared
<1>4. Typed("render", m, ps + 1, rt, pn, la, qu, nx)
  <2>1. \A i \in DOMAIN m : rt[i] \in ResultStates
    BY <1>1, <1>2 DEF Typed, ResultStates
  <2>2. QED
    BY <1>1, <1>2, <2>1 DEF Typed
<1>5. Queued("render", m, rt, qu, nx)
  <2>1. \A i \in DOMAIN m : rt[i] = "queued" <=> rs[i] = "queued"
    BY <1>2
  <2>2. QED
    BY <1>1, <2>1, QueuedKept
<1>6. EnoughBefore("render", m, ps + 1, qu)
  <2> SUFFICES ASSUME NEW p \in Plugins, NEW j \in 1..Len(qu[p])
               PROVE  Cardinality(Between(m, p, ps + 1, qu[p][j])) >= j
    BY DEF EnoughBefore, Base
  <2>1. Cardinality(Between(m, p, ps, qu[p][j])) >= j
    BY <1>1 DEF EnoughBefore, Base
  <2>2. ~IsAsync(m, ps, p)
    BY <1>3 DEF IsAsync
  <2>3. qu[p][j] \in Nat /\ ps \in Nat /\ m \in Maps \cup {<<>>}
    BY <1>2
  <2>4. Between(m, p, ps + 1, qu[p][j]) = Between(m, p, ps, qu[p][j])
    BY ONLY <2>2, <2>3, BetweenOn
  <2>5. QED
    BY <2>1, <2>4
<1>7. States("render", m, ps + 1, rt, pn, nx)
  <2>1. ASSUME NEW i \in DOMAIN m
        PROVE  /\ i < ps + 1 => WasRead(i, m, rt)
               /\ i >= ps + 1 => Prepared(i, m, rt)
    <3>1. CASE i = ps
      BY <1>2, <1>3, <3>1 DEF WasRead
    <3>2. CASE i # ps
      <4>1. (i < ps => WasRead(i, m, rs)) /\ (i > ps => Prepared(i, m, rs))
        BY <1>1 DEF States
      <4>2. (i < ps + 1 => i < ps) /\ (i >= ps + 1 => i > ps)
        BY <1>2, <3>2
      <4>3. QED
        BY <1>2, <3>2, <4>1, <4>2 DEF Prepared, WasRead
    <3>3. QED
      BY <3>1, <3>2
  <2>2. \A i \in DOMAIN m : (i = ps + 1 => i >= ps + 1) /\ (i > ps + 1 => i >= ps + 1)
    BY <1>2
  <2>3. ASSUME NEW i \in pn PROVE i \in DOMAIN m /\ rt[i] \in {"pending", "reading"}
    <3>1. i \in DOMAIN m /\ rs[i] \in {"pending", "reading"}
      BY <1>1 DEF States
    <3>2. QED
      BY <1>2, <3>1
  <2>4. QED
    BY <2>1, <2>2, <2>3 DEF States
<1>8. Counted("render", m, ps + 1, rt, la, qu, nx)
  <2>1. ASSUME NEW p \in Plugins PROVE Under(m, rt, p) = Under(m, rs, p)
    <3>1. ~IsAsync(m, ps, p)
      BY <1>3 DEF IsAsync
    <3>2. QED
      BY ONLY <1>2, <3>1, UnderSame
  <2>2. \A p \in Plugins : ~Vacant("render", m, ps + 1, rt, nx, p)
    BY DEF Vacant
  <2>3. QED
    BY <1>1, <2>1, <2>2, CountedReading
<1>9. QED
  BY <1>4, <1>5, <1>6, <1>7, <1>8 DEF Rendered, Running

\* apply returns after the last layer.
LEMMA FinishRendered ==
    ASSUME NEW m, NEW ps, NEW rs, NEW pn, NEW la, NEW qu, NEW nx,
           Rendered("render", m, ps, rs, pn, la, qu, nx), ps \notin DOMAIN m
    PROVE  Rendered("done", m, ps, rs, pn, la, qu, nx)
<1>1. /\ Typed("render", m, ps, rs, pn, la, qu, nx)
      /\ Queued("render", m, rs, qu, nx)
      /\ EnoughBefore("render", m, ps, qu)
      /\ States("render", m, ps, rs, pn, nx)
      /\ Counted("render", m, ps, rs, la, qu, nx)
  BY DEF Rendered, Running
<1>2. Typed("done", m, ps, rs, pn, la, qu, nx)
  BY <1>1 DEF Typed, Phases
<1>3. Queued("done", m, rs, qu, nx)
  BY <1>1, QueuedKept
<1>4. EnoughBefore("done", m, ps, qu)
  BY <1>1 DEF EnoughBefore, Base
<1>5. States("done", m, ps, rs, pn, nx)
  BY <1>1 DEF States
<1>6. Counted("done", m, ps, rs, la, qu, nx)
  <2>1. \A p \in Plugins : ~Vacant("done", m, ps, rs, nx, p)
    BY DEF Vacant
  <2>2. QED
    BY <1>1, <2>1, CountedReading
<1>7. QED
  BY <1>2, <1>3, <1>4, <1>5, <1>6 DEF Rendered, Running

-----------------------------------------------------------------------------
(* Failures, and the end of a rendering *)

\* A query that is answered at once holds its connection while it is at hand.
LEMMA OneAtOnce ==
    ASSUME NEW ph, NEW m, NEW ps, NEW rs, NEW pn, NEW la, NEW qu, NEW nx,
           Rendered(ph, m, ps, rs, pn, la, qu, nx)
    PROVE  Alone(m, ps, rs)
<1>1. CASE ~Running(ph)
  BY <1>1 DEF Rendered
<1>2. ASSUME Running(ph), NEW i \in DOMAIN m, AnsweredAtOnce(m, i), rs[i] \in WithHandle
      PROVE  i = ps
  <2>1. /\ States(ph, m, ps, rs, pn, nx) /\ ps \in Nat \ {0}
        /\ m \in Maps \cup {<<>>} /\ DOMAIN m = 1..Len(m) /\ Len(m) \in Nat
    BY <1>2, MapFacts DEF Rendered, Typed
  <2>2. m[i].mode \in {"sync", "extent"} /\ i \in Nat
    BY <1>2, <2>1 DEF AnsweredAtOnce
  <2>3. ~Prepared(i, m, rs) /\ ~WasRead(i, m, rs) /\ rs[i] # "none"
    BY <1>2, <2>2 DEF Prepared, WasRead, WithHandle
  <2>4. CASE ph = "prepare"
    BY <2>1, <2>2, <2>3, <2>4 DEF States
  <2>5. CASE ph \in {"render", "done"}
    BY <2>1, <2>2, <2>3, <2>5 DEF States
  <2>6. CASE ph \in {"closed", "sending"}
    <3>1. ~(ph = "sending" /\ i = nx)
      BY <2>1, <2>2 DEF States, IsAsync
    <3>2. QED
      BY <2>1, <2>2, <2>3, <2>6, <3>1 DEF States
  <2>7. QED
    BY <1>2, <2>4, <2>5, <2>6 DEF Running
<1>3. QED
  BY <1>1, <1>2 DEF Alone

\* An exception, and the end of a rendering without its layers, leave the
\* counts as they are, or give connections back.
LEMMA UnwindRendered ==
    ASSUME NEW ph, ph # "idle", NEW m, NEW ps, NEW rs, NEW pn, NEW la, NEW qu, NEW nx,
           Rendered(ph, m, ps, rs, pn, la, qu, nx),
           NEW rt, DOMAIN rt = DOMAIN m, \A i \in DOMAIN m : rt[i] \in ResultStates,
           \A i \in DOMAIN m : rt[i] \in WithHandle => rs[i] \in WithHandle,
           NEW pb, pb \subseteq pn, NEW pg \in {"unwind", "unread"}
    PROVE  Rendered(pg, m, ps, rt, pb, la, qu, nx)
<1>1. Typed(ph, m, ps, rs, pn, la, qu, nx) /\ Counted(ph, m, ps, rs, la, qu, nx)
  BY DEF Rendered
<1>2. m \in Maps \cup {<<>>} /\ la \in [Plugins -> Nat]
  BY <1>1 DEF Typed
<1>3. Typed(pg, m, ps, rt, pb, la, qu, nx)
  BY <1>1 DEF Typed, Phases
<1>4. ASSUME NEW p \in Plugins PROVE Cardinality(Under(m, rt, p)) <= la[p]
  <2>1. Under(m, rt, p) \subseteq Under(m, rs, p)
    BY DEF Under
  <2>2. Cardinality(Under(m, rt, p)) <= Cardinality(Under(m, rs, p))
    BY <1>2, <2>1, UnderType, FS_Subset
  <2>3. /\ Cardinality(Under(m, rt, p)) \in Nat /\ Cardinality(Under(m, rs, p)) \in Nat
        /\ la[p] \in Nat /\ Cardinality(Under(m, rs, p)) <= la[p]
    BY <1>1, <1>2, UnderType DEF Counted
  <2>4. QED
    BY <2>2, <2>3
<1>5. Counted(pg, m, ps, rt, la, qu, nx)
  BY <1>1, <1>4 DEF Counted, Vacant
<1>6. Alone(m, ps, rt)
  BY OneAtOnce DEF Alone
<1>7. QED
  BY <1>3, <1>5, <1>6 DEF Rendered, Running

\* When all was read, a cursor is the only one left to give its connection
\* back.
LEMMA DestroyRendered ==
    ASSUME NEW m, NEW ps, NEW rs, NEW pn, NEW la, NEW qu, NEW nx, NEW rt, NEW i, NEW s,
           Rendered("done", m, ps, rs, pn, la, qu, nx),
           rs[i] \in WithHandle, s \in {"read", "dropped"}, Turns(i, s, m, rs, rt)
    PROVE  Rendered("done", m, ps, rt, pn \ {i}, la, qu, nx)
<1>1. /\ Typed("done", m, ps, rs, pn, la, qu, nx)
      /\ Queued("done", m, rs, qu, nx)
      /\ EnoughBefore("done", m, ps, qu)
      /\ States("done", m, ps, rs, pn, nx)
      /\ Counted("done", m, ps, rs, la, qu, nx)
  BY DEF Rendered, Running
<1>2. /\ m \in Maps \cup {<<>>} /\ DOMAIN m = 1..Len(m) /\ Len(m) \in Nat
      /\ ps \in Nat \ {0} /\ i \in DOMAIN m /\ DOMAIN rs = DOMAIN m
      /\ rt[i] = s /\ DOMAIN rt = DOMAIN m
      /\ OnlyAt(i, m, rs, rt) /\ \A j \in DOMAIN m \ {i} : rt[j] = rs[j]
  BY <1>1, MapFacts DEF Typed, Turns, OnlyAt
<1>3. ps \notin DOMAIN m /\ \A j \in DOMAIN m : j < ps
  <2>1. ps \notin DOMAIN m
    BY <1>1 DEF States
  <2>2. QED
    BY <1>2, <2>1
<1>4. m[i].mode = "cursor" /\ rs[i] = "fetched"
  <2>1. WasRead(i, m, rs)
    BY <1>1, <1>2, <1>3 DEF States
  <2>2. QED
    BY <2>1 DEF WasRead, WithHandle
<1>5. Typed("done", m, ps, rt, pn \ {i}, la, qu, nx)
  <2>1. \A j \in DOMAIN m : rt[j] \in ResultStates
    BY <1>1, <1>2 DEF Typed, ResultStates
  <2>2. QED
    BY <1>1, <1>2, <2>1 DEF Typed
<1>6. Queued("done", m, rt, qu, nx)
  <2>1. \A j \in DOMAIN m : rt[j] = "queued" <=> rs[j] = "queued"
    BY <1>2, <1>4
  <2>2. QED
    BY <1>1, <2>1, QueuedKept
<1>7. States("done", m, ps, rt, pn \ {i}, nx)
  <2>1. ASSUME NEW j \in DOMAIN m PROVE WasRead(j, m, rt)
    <3>1. CASE j = i
      BY <1>2, <3>1 DEF WasRead
    <3>2. CASE j # i
      <4>1. WasRead(j, m, rs)
        BY <1>1, <1>3 DEF States
      <4>2. QED
        BY <1>2, <3>2, <4>1 DEF WasRead
    <3>3. QED
      BY <3>1, <3>2
  <2>2. ASSUME NEW j \in pn \ {i} PROVE j \in DOMAIN m /\ rt[j] \in {"pending", "reading"}
    BY <1>1, <1>2 DEF States
  <2>3. ASSUME NEW j \in DOMAIN m PROVE j # ps /\ ~(j > ps)
    BY <1>2, <1>3
  <2>4. QED
    BY <1>3, <2>1, <2>2, <2>3 DEF States
<1>8. Counted("done", m, ps, rt, la, qu, nx)
  <2>1. ASSUME NEW p \in Plugins PROVE Under(m, rt, p) = Under(m, rs, p)
    <3>1. ~IsAsync(m, i, p)
      BY <1>4 DEF IsAsync
    <3>2. QED
      BY ONLY <1>2, <3>1, UnderSame
  <2>2. \A p \in Plugins : ~Vacant("done", m, ps, rt, nx, p)
    BY DEF Vacant
  <2>3. QED
    BY <1>1, <2>1, <2>2, CountedReading
<1>9. QED
  BY <1>1, <1>5, <1>6, <1>7, <1>8 DEF Rendered, Running

\* Between two renderings there is no map.
LEMMA IdleRendered ==
    ASSUME NEW ph, NEW m, NEW ps, NEW rs, NEW pn, NEW la, NEW qu, NEW nx,
           Typed(ph, m, ps, rs, pn, la, qu, nx), NEW ny \in Nat
    PROVE  Rendered("idle", <<>>, 1, <<>>, pn, la, qu, ny)
<1>1. DOMAIN <<>> = {} /\ <<>> \in Maps \cup {<<>>}
  OBVIOUS
<1>2. Typed("idle", <<>>, 1, <<>>, pn, la, qu, ny)
  BY <1>1 DEF Typed, Phases
<1>3. ASSUME NEW p \in Plugins
      PROVE  Cardinality(Under(<<>>, <<>>, p)) <= la[p] /\ ~Vacant("idle", <<>>, 1, <<>>, ny, p)
  <2>1. Under(<<>>, <<>>, p) = {}
    BY <1>1 DEF Under
  <2>2. Cardinality(Under(<<>>, <<>>, p)) = 0 /\ la[p] \in Nat
    BY <2>1, FS_EmptySet DEF Typed
  <2>3. QED
    BY <2>2 DEF Vacant
<1>4. Counted("idle", <<>>, 1, <<>>, la, qu, ny)
  BY <1>3 DEF Counted
<1>5. Alone(<<>>, 1, <<>>)
  BY <1>1 DEF Alone
<1>6. QED
  BY <1>2, <1>4, <1>5 DEF Rendered, Running

-----------------------------------------------------------------------------
(* The steps of the specification *)

Rend(t) ==
    Rendered(phase[t], map[t], pos[t], results[t], pending[t], launched[t],
             queue[t], next[t])

Same(u) ==
    /\ phase'[u] = phase[u] /\ map'[u] = map[u] /\ pos'[u] = pos[u]
    /\ results'[u] = results[u] /\ pending'[u] = pending[u]
    /\ launched'[u] = launched[u] /\ queue'[u] = queue[u] /\ next'[u] = next[u]

\* A step of t, which leaves the renderings of the other threads alone.
Moves(t) == Shape' /\ Rend(t)' /\ \A u \in Threads \ {t} : Same(u)

LEMMA MovesKeepInv ==
    ASSUME Inv, NEW t \in Threads, Moves(t)
    PROVE  Inv'
<1>1. ASSUME NEW u \in Threads PROVE Rend(u)'
  <2>1. CASE u = t
    BY <2>1 DEF Moves
  <2>2. CASE u # t
    <3>1. Same(u) /\ Rend(u)
      BY <2>2 DEF Moves, Inv, Rend
    <3>2. QED
      BY <3>1 DEF Same, Rend
  <2>3. QED
    BY <2>1, <2>2
<1>2. QED
  BY <1>1 DEF Moves, Inv, Rend

\* Init: nothing is rendered.
LEMMA InitInv == Init => Inv
<1> SUFFICES ASSUME Init PROVE Inv
  OBVIOUS
<1>1. <<>> \in Seq(Queries) /\ "idle" \in Phases /\ 1 \in Nat \ {0} /\ 0 \in Nat
  BY DEF Phases
<1>2. NoRequests \in [Plugins -> Nat] /\ NoQueues \in [Plugins -> Seq(Nat)]
  BY DEF NoRequests, NoQueues
<1>3. Shape
  BY <1>1, <1>2, RunAssumption DEF Init, Shape
<1>4. ASSUME NEW t \in Threads PROVE Rend(t)
  <2>1. /\ phase[t] = "idle" /\ map[t] = <<>> /\ pos[t] = 1 /\ results[t] = <<>>
        /\ pending[t] = {} /\ launched[t] = NoRequests /\ queue[t] = NoQueues
        /\ next[t] = 0
    BY DEF Init
  <2>2. DOMAIN <<>> = {} /\ <<>> \in Maps \cup {<<>>}
    OBVIOUS
  <2>3. Typed("idle", <<>>, 1, <<>>, {}, NoRequests, NoQueues, 0)
    BY <1>1, <1>2, <2>2 DEF Typed
  <2>4. Rendered("idle", <<>>, 1, <<>>, {}, NoRequests, NoQueues, 0)
    BY <1>1, <2>3, IdleRendered
  <2>5. QED
    BY <2>1, <2>4 DEF Rend
<1>5. QED
  BY <1>3, <1>4 DEF Inv, Rend

\* What the type of a thread's rendering says.
LEMMA ThreadType ==
    ASSUME Inv, NEW t \in Threads
    PROVE  /\ Shape /\ Rend(t)
           /\ Typed(phase[t], map[t], pos[t], results[t], pending[t], launched[t],
                    queue[t], next[t])
           /\ map[t] \in Maps \cup {<<>>} /\ DOMAIN results[t] = DOMAIN map[t]
           /\ pos[t] \in Nat \ {0} /\ next[t] \in Nat /\ launched[t] \in [Plugins -> Nat]
           /\ queue[t] \in [Plugins -> Seq(Nat)]
           /\ \A i \in DOMAIN map[t] : /\ map[t][i].plugin \in Plugins
                                       /\ map[t][i].max_async \in Nat
<1>1. Shape /\ Rend(t)
  BY DEF Inv, Rend
<1>2. Typed(phase[t], map[t], pos[t], results[t], pending[t], launched[t], queue[t], next[t])
  BY <1>1 DEF Rend, Rendered
<1>3. QED
  BY <1>1, <1>2, MapFacts DEF Typed

LEMMA StartMoves ==
    ASSUME Inv, NEW t \in Threads, NEW m \in Maps, Start(t, m)
    PROVE  Moves(t)
<1>1. Shape /\ next[t] \in Nat /\ m \in Seq(Queries)
  BY ThreadType, MapsAssumption
<1>2. /\ phase'[t] = "prepare" /\ map'[t] = m /\ pos'[t] = 1
      /\ results'[t] = [i \in DOMAIN m |-> "none"] /\ pending'[t] = {}
      /\ launched'[t] = NoRequests /\ queue'[t] = NoQueues /\ next'[t] = next[t]
  BY <1>1 DEF Start, Enter, Shape
<1>3. Rend(t)'
  BY <1>1, <1>2, StartRendered DEF Rend
<1>4. Shape'
  <2>1. NoRequests \in [Plugins -> Nat]
    BY DEF NoRequests
  <2>2. left' \in [Threads -> Nat]
    BY <1>1 DEF Start, Shape
  <2>3. QED
    BY <1>1, <2>1, <2>2 DEF Start, Enter, Shape, Phases
<1>5. \A u \in Threads \ {t} : Same(u)
  BY <1>1 DEF Start, Enter, Shape, Same
<1>6. QED
  BY <1>3, <1>4, <1>5 DEF Moves

LEMMA BorrowMoves ==
    ASSUME Inv, NEW t \in Threads, Borrow(t)
    PROVE  Moves(t)
<1> DEFINE m == map[t]
           q == map[t][pos[t]].plugin
<1>1. /\ Shape /\ Rend(t) /\ DOMAIN results[t] = DOMAIN m /\ launched[t] \in [Plugins -> Nat]
      /\ phase[t] = "prepare" /\ pos[t] \in DOMAIN m /\ results[t][pos[t]] = "none"
      /\ q \in Plugins /\ m[pos[t]].max_async \in Nat
      /\ Current(t) = pos[t]
  BY ThreadType DEF Borrow, Preparing, InMap, State, Current
<1>2. /\ phase' = phase /\ map' = map /\ pos' = pos /\ pending' = pending
      /\ queue' = queue /\ next' = next /\ left' = left /\ crashed' = crashed
      /\ results' = [results EXCEPT ![t][pos[t]] = "borrowed"]
      /\ launched' = IF m[pos[t]].mode = "async" THEN [launched EXCEPT ![t][q] = @ + 1]
                     ELSE launched
      /\ m[pos[t]].mode = "async" => ~(launched[t][q] >= m[pos[t]].max_async)
  BY <1>1 DEF Borrow, Becomes, Query, Postponed
<1>3. Turns(pos[t], "borrowed", m, results[t], results'[t])
  BY <1>1, <1>2 DEF Shape, Turns, OnlyAt
<1>4. CASE m[pos[t]].mode = "async"
  <2>1. launched' = [launched EXCEPT ![t] = [launched[t] EXCEPT ![q] = @ + 1]]
    BY <1>2, <1>4
  <2>2. launched'[t] = [launched[t] EXCEPT ![q] = @ + 1]
    BY <1>1, <2>1 DEF Shape
  <2>3. launched[t][q] < m[pos[t]].max_async
    BY <1>1, <1>2, <1>4
  <2>4. Rendered("prepare", m, pos[t], results'[t], pending[t], launched'[t], queue[t], next[t])
    BY <1>1, <1>3, <1>4, <2>2, <2>3, BorrowRendered DEF Rend
  <2>5. launched'[t] \in [Plugins -> Nat]
    BY <1>1, <2>2
  <2>6. launched' \in [Threads -> [Plugins -> Nat]]
    BY <1>1, <2>1, <2>2, <2>5 DEF Shape
  <2>7. \A u \in Threads \ {t} : launched'[u] = launched[u]
    BY <1>1, <2>1 DEF Shape
  <2>8. QED
    BY <1>1, <1>2, <2>4, <2>6, <2>7 DEF Moves, Rend, Shape, Same
<1>5. CASE m[pos[t]].mode # "async"
  <2>1. Rendered("prepare", m, pos[t], results'[t], pending[t], launched'[t], queue[t], next[t])
    BY <1>1, <1>2, <1>3, <1>5, BorrowRendered DEF Rend
  <2>2. QED
    BY <1>1, <1>2, <1>5, <2>1 DEF Moves, Rend, Shape, Same
<1>6. QED
  BY <1>4, <1>5

LEMMA PostponeMoves ==
    ASSUME Inv, NEW t \in Threads, Postpone(t)
    PROVE  Moves(t)
<1> DEFINE m == map[t]
           q == map[t][pos[t]].plugin
<1>1. /\ Shape /\ Rend(t) /\ DOMAIN results[t] = DOMAIN m
      /\ queue[t] \in [Plugins -> Seq(Nat)] /\ pos[t] \in Nat \ {0}
      /\ phase[t] = "prepare" /\ pos[t] \in DOMAIN m /\ results[t][pos[t]] = "none"
      /\ q \in Plugins /\ Current(t) = pos[t]
  BY ThreadType DEF Postpone, Preparing, InMap, State, Current
<1>2. /\ phase' = phase /\ map' = map /\ pending' = pending /\ launched' = launched
      /\ next' = next /\ left' = left /\ crashed' = crashed
      /\ results' = [results EXCEPT ![t][pos[t]] = "queued"]
      /\ pos' = [pos EXCEPT ![t] = @ + 1]
      /\ queue' = [queue EXCEPT ![t][q] = Append(@, pos[t])]
      /\ m[pos[t]].mode = "async" /\ launched[t][q] >= m[pos[t]].max_async
  BY <1>1 DEF Postpone, Becomes, Advance, Query, Postponed
<1>3. Turns(pos[t], "queued", m, results[t], results'[t]) /\ pos'[t] = pos[t] + 1
  BY <1>1, <1>2 DEF Shape, Turns, OnlyAt
<1>4. queue'[t] = [queue[t] EXCEPT ![q] = Append(@, pos[t])]
  BY <1>1, <1>2 DEF Shape
<1>5. QueueTurns(q, Append(queue[t][q], pos[t]), queue[t], queue'[t])
  <2>1. Append(queue[t][q], pos[t]) \in Seq(Nat)
    BY <1>1
  <2>2. QED
    BY <1>1, <1>4, <2>1 DEF QueueTurns
<1>6. Rendered("prepare", m, pos[t] + 1, results'[t], pending[t], launched[t], queue'[t], next[t])
  <2>1. Rendered("prepare", m, pos[t], results[t], pending[t], launched[t], queue[t], next[t])
    BY <1>1 DEF Rend
  <2>2. QED
    BY ONLY <1>1, <1>2, <1>3, <1>5, <2>1, PostponeRendered
<1>7. Shape'
  BY <1>1, <1>2 DEF Shape
<1>8. \A u \in Threads \ {t} : Same(u)
  BY <1>1, <1>2 DEF Shape, Same
<1>9. QED
  BY <1>1, <1>2, <1>3, <1>6, <1>7, <1>8 DEF Moves, Rend

LEMMA LaunchMoves ==
    ASSUME Inv, NEW t \in Threads, Launch(t)
    PROVE  Moves(t)
<1> DEFINE m == map[t]
<1>1. /\ Shape /\ Rend(t) /\ DOMAIN results[t] = DOMAIN m /\ pos[t] \in Nat \ {0}
      /\ phase[t] = "prepare" /\ pos[t] \in DOMAIN m /\ results[t][pos[t]] = "borrowed"
      /\ m[pos[t]].mode = "async" /\ Current(t) = pos[t]
  BY ThreadType DEF Launch, Preparing, InMap, State, Query, Current
<1>2. /\ phase' = phase /\ map' = map /\ launched' = launched /\ queue' = queue
      /\ next' = next /\ left' = left /\ crashed' = crashed
      /\ results' = [results EXCEPT ![t][pos[t]] = "pending"]
      /\ pending' = [pending EXCEPT ![t] = @ \cup {pos[t]}]
      /\ pos' = [pos EXCEPT ![t] = @ + 1]
  BY <1>1 DEF Launch, Send, Becomes, Advance
<1>3. /\ Turns(pos[t], "pending", m, results[t], results'[t]) /\ pos'[t] = pos[t] + 1
      /\ pending'[t] = pending[t] \cup {pos[t]}
  BY <1>1, <1>2 DEF Shape, Turns, OnlyAt
<1>4. Rendered("prepare", m, pos[t] + 1, results'[t], pending'[t], launched[t], queue[t], next[t])
  <2>1. Rendered("prepare", m, pos[t], results[t], pending[t], launched[t], queue[t], next[t])
    BY <1>1 DEF Rend
  <2>2. QED
    BY ONLY <1>1, <1>3, <2>1, QueryRendered
<1>5. Shape'
  BY <1>1, <1>2 DEF Shape
<1>6. \A u \in Threads \ {t} : Same(u)
  BY <1>1, <1>2 DEF Shape, Same
<1>7. QED
  BY <1>1, <1>2, <1>3, <1>4, <1>5, <1>6 DEF Moves, Rend

LEMMA ExecuteMoves ==
    ASSUME Inv, NEW t \in Threads, Execute(t)
    PROVE  Moves(t)
<1> DEFINE m == map[t]
<1>1. /\ Shape /\ Rend(t) /\ DOMAIN results[t] = DOMAIN m /\ pos[t] \in Nat \ {0}
      /\ phase[t] = "prepare" /\ pos[t] \in DOMAIN m /\ results[t][pos[t]] = "borrowed"
      /\ Current(t) = pos[t]
  BY ThreadType DEF Execute, Preparing, InMap, State, Current
<1>2. PICK s \in {"buffered", "cursor", "known"} :
        /\ \/ m[pos[t]].mode = "cursor" /\ s = "cursor"
           \/ m[pos[t]].mode \in {"sync", "extent"} /\ s \in {"buffered", "known"}
        /\ results' = [results EXCEPT ![t][pos[t]] = s]
  BY <1>1 DEF Execute, Becomes, Query
<1>3. /\ phase' = phase /\ map' = map /\ pending' = pending /\ launched' = launched
      /\ queue' = queue /\ next' = next /\ left' = left /\ crashed' = crashed
      /\ pos' = [pos EXCEPT ![t] = @ + 1]
  BY <1>1 DEF Execute, Advance
<1>4. Turns(pos[t], s, m, results[t], results'[t]) /\ pos'[t] = pos[t] + 1
  BY <1>1, <1>2, <1>3 DEF Shape, Turns, OnlyAt
<1>5. Rendered("prepare", m, pos[t] + 1, results'[t], pending[t], launched[t], queue[t], next[t])
  <2>1. Rendered("prepare", m, pos[t], results[t], pending[t], launched[t], queue[t], next[t])
    BY <1>1 DEF Rend
  <2>2. QED
    BY ONLY <1>1, <1>2, <1>4, <2>1, QueryRendered
<1>6. Shape'
  BY <1>1, <1>2, <1>3 DEF Shape
<1>7. \A u \in Threads \ {t} : Same(u)
  BY <1>1, <1>2, <1>3 DEF Shape, Same
<1>8. QED
  BY <1>1, <1>3, <1>4, <1>5, <1>6, <1>7 DEF Moves, Rend

LEMMA BeginMoves ==
    ASSUME Inv, NEW t \in Threads, BeginRendering(t)
    PROVE  Moves(t)
<1>1. Shape /\ Rend(t)
  BY ThreadType
<1>2. /\ phase[t] = "prepare" /\ pos[t] \notin DOMAIN map[t]
      /\ phase' = [phase EXCEPT ![t] = "render"] /\ pos' = [pos EXCEPT ![t] = 1]
      /\ map' = map /\ results' = results /\ pending' = pending /\ launched' = launched
      /\ queue' = queue /\ next' = next /\ left' = left /\ crashed' = crashed
  BY DEF BeginRendering, InMap, Enter
<1>3. phase'[t] = "render" /\ pos'[t] = 1
  BY <1>1, <1>2 DEF Shape
<1>4. Rendered("render", map[t], 1, results[t], pending[t], launched[t], queue[t], next[t])
  BY <1>1, <1>2, BeginRendered DEF Rend
<1>5. Shape'
  BY <1>1, <1>2 DEF Shape, Phases
<1>6. \A u \in Threads \ {t} : Same(u)
  BY <1>1, <1>2 DEF Shape, Same
<1>7. QED
  BY <1>2, <1>3, <1>4, <1>5, <1>6 DEF Moves, Rend

LEMMA FirstRowMoves ==
    ASSUME Inv, NEW t \in Threads, FirstRow(t)
    PROVE  Moves(t)
<1> DEFINE m == map[t]
<1>1. /\ Shape /\ Rend(t) /\ DOMAIN results[t] = DOMAIN m
      /\ phase[t] = "render" /\ pos[t] \in DOMAIN m /\ results[t][pos[t]] = "pending"
      /\ Current(t) = pos[t]
  BY ThreadType DEF FirstRow, Rendering, InMap, State, Current
<1>2. /\ phase' = phase /\ map' = map /\ pos' = pos /\ pending' = pending
      /\ launched' = launched /\ queue' = queue /\ next' = next /\ left' = left
      /\ crashed' = crashed /\ results' = [results EXCEPT ![t][pos[t]] = "reading"]
  BY <1>1 DEF FirstRow, Becomes
<1>3. Turns(pos[t], "reading", m, results[t], results'[t])
  BY <1>1, <1>2 DEF Shape, Turns, OnlyAt
<1>4. Rendered("render", m, pos[t], results'[t], pending[t], launched[t], queue[t], next[t])
  BY <1>1, <1>3, FirstRowRendered DEF Rend
<1>5. Shape'
  BY <1>1, <1>2 DEF Shape
<1>6. \A u \in Threads \ {t} : Same(u)
  BY <1>1, <1>2 DEF Shape, Same
<1>7. QED
  BY <1>1, <1>2, <1>4, <1>5, <1>6 DEF Moves, Rend

LEMMA LastRowMoves ==
    ASSUME Inv, NEW t \in Threads, LastRow(t)
    PROVE  Moves(t)
<1> DEFINE m == map[t]
           s == IF pos[t] \in pending[t] THEN "dropped" ELSE "read"
<1>1. /\ Shape /\ Rend(t) /\ DOMAIN results[t] = DOMAIN m
      /\ phase[t] = "render" /\ pos[t] \in DOMAIN m /\ results[t][pos[t]] = "reading"
      /\ Current(t) = pos[t]
  BY ThreadType DEF LastRow, Rendering, InMap, State, Current
<1>2. /\ phase' = [phase EXCEPT ![t] = "closed"] /\ map' = map /\ pos' = pos
      /\ pending' = [pending EXCEPT ![t] = @ \ {pos[t]}]
      /\ launched' = launched /\ queue' = queue /\ next' = next /\ left' = left
      /\ crashed' = crashed /\ results' = [results EXCEPT ![t][pos[t]] = s]
      /\ s \in {"read", "dropped"}
  BY <1>1 DEF LastRow, Becomes, Enter
<1> HIDE DEF s
<1>3. /\ Turns(pos[t], s, m, results[t], results'[t])
      /\ phase'[t] = "closed" /\ pending'[t] = pending[t] \ {pos[t]}
  BY <1>1, <1>2 DEF Shape, Turns, OnlyAt
<1>4. Rendered("closed", m, pos[t], results'[t], pending'[t], launched[t], queue[t], next[t])
  BY <1>1, <1>2, <1>3, LastRowRendered DEF Rend
<1>5. Shape'
  BY <1>1, <1>2 DEF Shape, Phases
<1>6. \A u \in Threads \ {t} : Same(u)
  BY <1>1, <1>2 DEF Shape, Same
<1>7. QED
  BY <1>2, <1>3, <1>4, <1>5, <1>6 DEF Moves, Rend

\* What is taken off a queue, and what is left.
LEMMA TakenOff ==
    ASSUME NEW s \in Seq(Nat), s # <<>>
    PROVE  Head(s) \in Nat /\ Tail(s) \in Seq(Nat)
OBVIOUS

LEMMA PopNextMoves ==
    ASSUME Inv, NEW t \in Threads, PopNext(t)
    PROVE  Moves(t)
<1> DEFINE m == map[t]
           p == map[t][pos[t]].plugin
<1>1. /\ Shape /\ Rend(t) /\ queue[t] \in [Plugins -> Seq(Nat)] /\ phase[t] = "closed"
      /\ pos[t] \in Nat \ {0} /\ pos[t] \in DOMAIN m /\ p \in Plugins
      /\ Current(t) = pos[t]
  <2>1. Shape /\ Rend(t) /\ phase[t] = "closed"
    BY ThreadType DEF PopNext
  <2>2. pos[t] \in DOMAIN m
    BY <2>1 DEF Rend, Rendered, Running, States
  <2>3. QED
    BY <2>1, <2>2, ThreadType DEF Current
<1>2. /\ map' = map /\ results' = results /\ pending' = pending /\ launched' = launched
      /\ left' = left /\ crashed' = crashed
  BY DEF PopNext
<1>3. CASE queue[t][p] = <<>>
  <2>1. /\ phase' = [phase EXCEPT ![t] = "render"] /\ pos' = [pos EXCEPT ![t] = @ + 1]
        /\ queue' = queue /\ next' = next
    BY <1>1, <1>3 DEF PopNext, Query, Enter, Advance
  <2>2. phase'[t] = "render" /\ pos'[t] = pos[t] + 1
    BY <1>1, <2>1 DEF Shape
  <2>3. Rendered("render", m, pos[t] + 1, results[t], pending[t], launched[t], queue[t], next[t])
    BY <1>1, <1>3, NothingToSend DEF Rend
  <2>4. Shape'
    BY <1>1, <1>2, <2>1 DEF Shape, Phases
  <2>5. \A u \in Threads \ {t} : Same(u)
    BY <1>1, <1>2, <2>1 DEF Shape, Same
  <2>6. QED
    BY <1>2, <2>1, <2>2, <2>3, <2>4, <2>5 DEF Moves, Rend
<1>4. CASE queue[t][p] # <<>>
  <2>1. /\ phase' = [phase EXCEPT ![t] = "sending"] /\ pos' = pos
        /\ queue' = [queue EXCEPT ![t][p] = Tail(@)]
        /\ next' = [next EXCEPT ![t] = Head(queue[t][p])]
    BY <1>1, <1>4 DEF PopNext, Query, Enter
  <2>2. queue[t][p] \in Seq(Nat)
    BY <1>1
  <2>3. Tail(queue[t][p]) \in Seq(Nat) /\ Head(queue[t][p]) \in Nat
    BY <1>4, <2>2, TakenOff
  <2>4. /\ phase'[t] = "sending" /\ next'[t] = Head(queue[t][p])
        /\ queue'[t] = [queue[t] EXCEPT ![p] = Tail(@)]
    BY <1>1, <2>1 DEF Shape
  <2>5. QueueTurns(p, Tail(queue[t][p]), queue[t], queue'[t])
    BY <1>1, <2>3, <2>4 DEF QueueTurns
  <2>6. Rendered("sending", m, pos[t], results[t], pending[t], launched[t], queue'[t],
                 Head(queue[t][p]))
    <3>1. Rendered("closed", m, pos[t], results[t], pending[t], launched[t], queue[t], next[t])
      BY <1>1 DEF Rend
    <3>2. QED
      BY ONLY <1>4, <2>5, <3>1, PopRendered
  <2>7. Shape'
    BY <1>1, <1>2, <2>1, <2>3 DEF Shape, Phases
  <2>8. \A u \in Threads \ {t} : Same(u)
    BY <1>1, <1>2, <2>1 DEF Shape, Same
  <2>9. QED
    BY <1>2, <2>1, <2>4, <2>6, <2>7, <2>8 DEF Moves, Rend
<1>5. QED
  BY <1>3, <1>4

LEMMA BorrowNextMoves ==
    ASSUME Inv, NEW t \in Threads, BorrowNext(t)
    PROVE  Moves(t)
<1> DEFINE m == map[t]
<1>1. /\ Shape /\ Rend(t) /\ DOMAIN results[t] = DOMAIN m
      /\ phase[t] = "sending" /\ Current(t) = next[t] /\ results[t][next[t]] = "queued"
  BY ThreadType DEF BorrowNext, State, Current
<1>2. next[t] \in DOMAIN m
  BY <1>1 DEF Rend, Rendered, Running, States
<1>3. /\ phase' = phase /\ map' = map /\ pos' = pos /\ pending' = pending
      /\ launched' = launched /\ queue' = queue /\ next' = next /\ left' = left
      /\ crashed' = crashed /\ results' = [results EXCEPT ![t][next[t]] = "borrowed"]
  BY <1>1 DEF BorrowNext, Becomes
<1>4. Turns(next[t], "borrowed", m, results[t], results'[t])
  BY <1>1, <1>2, <1>3 DEF Shape, Turns, OnlyAt
<1>5. Rendered("sending", m, pos[t], results'[t], pending[t], launched[t], queue[t], next[t])
  BY <1>1, <1>4, BorrowNextRendered DEF Rend
<1>6. Shape'
  BY <1>1, <1>3 DEF Shape
<1>7. \A u \in Threads \ {t} : Same(u)
  BY <1>1, <1>3 DEF Shape, Same
<1>8. QED
  BY <1>1, <1>3, <1>5, <1>6, <1>7 DEF Moves, Rend

LEMMA SendNextMoves ==
    ASSUME Inv, NEW t \in Threads, SendNext(t)
    PROVE  Moves(t)
<1> DEFINE m == map[t]
<1>1. /\ Shape /\ Rend(t) /\ DOMAIN results[t] = DOMAIN m /\ pos[t] \in Nat \ {0}
      /\ phase[t] = "sending" /\ Current(t) = next[t] /\ results[t][next[t]] = "borrowed"
  BY ThreadType DEF SendNext, State, Current
<1>2. next[t] \in DOMAIN m
  BY <1>1 DEF Rend, Rendered, Running, States
<1>3. /\ phase' = [phase EXCEPT ![t] = "render"] /\ map' = map
      /\ pos' = [pos EXCEPT ![t] = @ + 1] /\ next' = [next EXCEPT ![t] = 0]
      /\ pending' = [pending EXCEPT ![t] = @ \cup {next[t]}]
      /\ launched' = launched /\ queue' = queue /\ left' = left
      /\ crashed' = crashed /\ results' = [results EXCEPT ![t][next[t]] = "pending"]
  BY <1>1 DEF SendNext, Send, Becomes, Enter, Advance
<1>4. /\ Turns(next[t], "pending", m, results[t], results'[t])
      /\ phase'[t] = "render" /\ pos'[t] = pos[t] + 1 /\ next'[t] = 0
      /\ pending'[t] = pending[t] \cup {next[t]}
  BY <1>1, <1>2, <1>3 DEF Shape, Turns, OnlyAt
<1>5. Rendered("render", m, pos[t] + 1, results'[t], pending'[t], launched[t], queue[t], 0)
  BY <1>1, <1>4, SendNextRendered DEF Rend
<1>6. Shape'
  BY <1>1, <1>3 DEF Shape, Phases
<1>7. \A u \in Threads \ {t} : Same(u)
  BY <1>1, <1>3 DEF Shape, Same
<1>8. QED
  BY <1>1, <1>3, <1>4, <1>5, <1>6, <1>7 DEF Moves, Rend

LEMMA ReadRowsMoves ==
    ASSUME Inv, NEW t \in Threads, ReadRows(t) \/ PassExtent(t)
    PROVE  Moves(t)
<1> DEFINE m == map[t]
<1>1. /\ Shape /\ Rend(t) /\ DOMAIN results[t] = DOMAIN m /\ pos[t] \in Nat \ {0}
      /\ phase[t] = "render" /\ pos[t] \in DOMAIN m /\ Current(t) = pos[t]
  BY ThreadType DEF ReadRows, PassExtent, Rendering, InMap, Current
<1>2. /\ phase' = phase /\ map' = map /\ pos' = [pos EXCEPT ![t] = @ + 1]
      /\ pending' = pending /\ launched' = launched /\ queue' = queue
      /\ next' = next /\ left' = left /\ crashed' = crashed
  BY <1>1 DEF ReadRows, PassExtent, Advance
<1>3. \/ results[t][pos[t]] \in {"buffered", "known"} /\ results' = results
      \/ /\ results[t][pos[t]] = "cursor"
         /\ \E s \in {"fetched", "read"} : results' = [results EXCEPT ![t][pos[t]] = s]
  BY <1>1 DEF ReadRows, PassExtent, Rendering, State, Becomes
<1>4. pos'[t] = pos[t] + 1 /\ DOMAIN results' = Threads
  BY <1>1, <1>2, <1>3 DEF Shape
<1>5. \/ results[t][pos[t]] \in {"buffered", "known"} /\ results'[t] = results[t]
      \/ /\ results[t][pos[t]] = "cursor"
         /\ \E s \in {"fetched", "read"} : Turns(pos[t], s, m, results[t], results'[t])
  BY <1>1, <1>3 DEF Shape, Turns, OnlyAt
<1>6. Rendered("render", m, pos[t] + 1, results'[t], pending[t], launched[t], queue[t], next[t])
  <2>1. Rendered("render", m, pos[t], results[t], pending[t], launched[t], queue[t], next[t])
    BY <1>1 DEF Rend
  <2>2. QED
    BY ONLY <1>1, <1>5, <2>1, ReadRowsRendered
<1>7. Shape'
  BY <1>1, <1>2, <1>4 DEF Shape
<1>8. \A u \in Threads \ {t} : Same(u)
  BY <1>1, <1>2, <1>3 DEF Shape, Same
<1>9. QED
  BY <1>1, <1>2, <1>4, <1>6, <1>7, <1>8 DEF Moves, Rend

LEMMA FinishMoves ==
    ASSUME Inv, NEW t \in Threads, Finish(t)
    PROVE  Moves(t)
<1>1. Shape /\ Rend(t)
  BY ThreadType
<1>2. /\ phase[t] = "render" /\ pos[t] \notin DOMAIN map[t]
      /\ phase' = [phase EXCEPT ![t] = "done"] /\ pos' = pos
      /\ map' = map /\ results' = results /\ pending' = pending /\ launched' = launched
      /\ queue' = queue /\ next' = next /\ left' = left /\ crashed' = crashed
  BY DEF Finish, InMap, Enter
<1>3. phase'[t] = "done"
  BY <1>1, <1>2 DEF Shape
<1>4. Rendered("done", map[t], pos[t], results[t], pending[t], launched[t], queue[t], next[t])
  BY <1>1, <1>2, FinishRendered DEF Rend
<1>5. Shape'
  BY <1>1, <1>2 DEF Shape, Phases
<1>6. \A u \in Threads \ {t} : Same(u)
  BY <1>1, <1>2 DEF Shape, Same
<1>7. QED
  BY <1>2, <1>3, <1>4, <1>5, <1>6 DEF Moves, Rend

\* Every end of a rendering clears the map.
LEMMA LeaveMoves ==
    ASSUME Inv, NEW t \in Threads, Leave(t)
    PROVE  Moves(t)
<1>1. /\ Shape
      /\ Typed(phase[t], map[t], pos[t], results[t], pending[t], launched[t],
               queue[t], next[t])
      /\ <<>> \in Seq(Queries) /\ next[t] \in Nat
  BY ThreadType
<1>2. /\ phase' = [phase EXCEPT ![t] = "idle"] /\ map' = [map EXCEPT ![t] = <<>>]
      /\ results' = [results EXCEPT ![t] = <<>>] /\ pos' = [pos EXCEPT ![t] = 1]
      /\ next' = [next EXCEPT ![t] = 0]
      /\ pending' = pending /\ launched' = launched /\ queue' = queue
      /\ left' = left /\ crashed' = crashed
  BY DEF Leave, Enter
<1>3. /\ phase'[t] = "idle" /\ map'[t] = <<>> /\ results'[t] = <<>> /\ pos'[t] = 1
      /\ next'[t] \in Nat
  BY <1>1, <1>2 DEF Shape
<1>4. Rendered("idle", <<>>, 1, <<>>, pending[t], launched[t], queue[t], next'[t])
  BY <1>1, <1>3, IdleRendered
<1>5. Shape'
  BY <1>1, <1>2 DEF Shape, Phases
<1>6. \A u \in Threads \ {t} : Same(u)
  BY <1>1, <1>2 DEF Shape, Same
<1>7. QED
  BY <1>2, <1>3, <1>4, <1>5, <1>6 DEF Moves, Rend

\* An exception leaves next of a result set without a connection, or a call of
\* the database; or no layer is rendered.
LEMMA ThrowMoves ==
    ASSUME Inv, NEW t \in Threads, NotLaunched(t) \/ DatabaseError(t) \/ LeaveUnread(t)
    PROVE  Moves(t)
<1> DEFINE m == map[t]
<1>1. /\ Shape /\ Rend(t) /\ DOMAIN results[t] = DOMAIN m
      /\ \A i \in DOMAIN m : results[t][i] \in ResultStates
  BY ThreadType DEF Typed
<1>2. phase[t] # "idle"
  BY DEF NotLaunched, DatabaseError, LeaveUnread, AtBorrow, AtSend, Rendering, Preparing
<1>3. PICK pg \in {"unwind", "unread"} :
      /\ phase' = [phase EXCEPT ![t] = pg] /\ map' = map /\ pos' = pos
      /\ launched' = launched /\ queue' = queue /\ next' = next /\ left' = left
      /\ crashed' = crashed
  BY DEF NotLaunched, DatabaseError, LeaveUnread, Enter
<1>4. \/ results' = results /\ pending' = pending
      \/ /\ phase[t] = "render" /\ pos[t] \in DOMAIN m /\ results[t][pos[t]] = "cursor"
         /\ results' = [results EXCEPT ![t][pos[t]] = "broken"] /\ pending' = pending
      \/ results' = results /\ pending' = [pending EXCEPT ![t] = @ \ {pos[t]}]
  BY DEF NotLaunched, DatabaseError, LeaveUnread, Rendering, InMap, State, Current, Becomes
<1>5. /\ DOMAIN results' = Threads /\ DOMAIN pending' = Threads /\ pending'[t] \subseteq pending[t]
      /\ \A u \in Threads \ {t} : results'[u] = results[u] /\ pending'[u] = pending[u]
  BY <1>1, <1>4 DEF Shape
<1>6. /\ DOMAIN results'[t] = DOMAIN m
      /\ \A i \in DOMAIN m : /\ results'[t][i] \in ResultStates
                             /\ results'[t][i] \in WithHandle => results[t][i] \in WithHandle
  <2>1. CASE results' = results
    BY <1>1, <2>1
  <2>2. CASE /\ pos[t] \in DOMAIN m /\ results[t][pos[t]] = "cursor"
             /\ results' = [results EXCEPT ![t][pos[t]] = "broken"]
    <3>1. results'[t] = [results[t] EXCEPT ![pos[t]] = "broken"]
      BY <1>1, <2>2 DEF Shape
    <3>2. /\ DOMAIN results'[t] = DOMAIN m /\ results'[t][pos[t]] = "broken"
          /\ \A i \in DOMAIN m \ {pos[t]} : results'[t][i] = results[t][i]
      BY <1>1, <2>2, <3>1
    <3>3. "broken" \in ResultStates /\ "cursor" \in WithHandle
      BY DEF ResultStates, WithHandle
    <3>4. QED
      BY <1>1, <2>2, <3>2, <3>3
  <2>3. QED
    BY <1>4, <2>1, <2>2
<1>7. phase'[t] = pg
  BY <1>1, <1>3 DEF Shape
<1>8. Rendered(pg, m, pos[t], results'[t], pending'[t], launched[t], queue[t], next[t])
  <2>1. Rendered(phase[t], m, pos[t], results[t], pending[t], launched[t], queue[t], next[t])
    BY <1>1 DEF Rend
  <2>2. QED
    BY ONLY <1>2, <1>5, <1>6, <2>1, UnwindRendered
<1>9. Shape'
  BY <1>1, <1>3, <1>5 DEF Shape, Phases
<1>10. \A u \in Threads \ {t} : Same(u)
  BY <1>1, <1>3, <1>5 DEF Shape, Same
<1>11. QED
  BY <1>3, <1>7, <1>8, <1>9, <1>10 DEF Moves, Rend

\* A result set is destroyed, or its destructor throws.
LEMMA DestroyMoves ==
    ASSUME Inv, NEW t \in Threads, Destroy(t)
    PROVE  Moves(t)
<1> DEFINE m == map[t]
<1>1. /\ Shape /\ Rend(t) /\ DOMAIN results[t] = DOMAIN m
      /\ \A i \in DOMAIN m : results[t][i] \in ResultStates
  BY ThreadType DEF Typed
<1>2. /\ phase[t] \in {"done", "unread", "unwind"} /\ phase' = phase /\ map' = map
      /\ pos' = pos /\ launched' = launched /\ queue' = queue /\ next' = next
      /\ left' = left
  BY DEF Destroy, Ending
<1>3. PICK i \in DOMAIN m, s \in {"read", "dropped"} :
        /\ results[t][i] \in WithHandle
        /\ \/ /\ results' = [results EXCEPT ![t][i] = s]
              /\ pending' = [pending EXCEPT ![t] = @ \ {i}]
              /\ crashed' = crashed
           \/ crashed' = TRUE /\ results' = results /\ pending' = pending
  <2>1. PICK i \in Held(t) :
          \/ /\ results' = [results EXCEPT ![t][i] =
                             IF results[t][i] \in {"cursor", "fetched"} THEN "read"
                             ELSE "dropped"]
             /\ pending' = [pending EXCEPT ![t] = @ \ {i}]
             /\ crashed' = crashed
          \/ crashed' = TRUE /\ results' = results /\ pending' = pending
    BY DEF Destroy
  <2>2. i \in DOMAIN m /\ results[t][i] \in WithHandle
    BY <1>1 DEF Held
  <2>3. QED
    BY <2>1, <2>2
<1>4. /\ DOMAIN results' = Threads /\ DOMAIN pending' = Threads /\ pending'[t] \subseteq pending[t]
      /\ \A u \in Threads \ {t} : results'[u] = results[u] /\ pending'[u] = pending[u]
      /\ crashed' \in BOOLEAN
  BY <1>1, <1>3 DEF Shape
<1>5. \/ results'[t] = results[t] /\ pending'[t] = pending[t]
      \/ Turns(i, s, m, results[t], results'[t]) /\ pending'[t] = pending[t] \ {i}
  <2>1. CASE results' = results /\ pending' = pending
    BY <2>1
  <2>2. CASE /\ results' = [results EXCEPT ![t][i] = s]
             /\ pending' = [pending EXCEPT ![t] = @ \ {i}]
    <3>1. /\ results'[t] = [results[t] EXCEPT ![i] = s]
          /\ pending'[t] = pending[t] \ {i}
      BY <1>1, <2>2 DEF Shape
    <3>2. QED
      BY <1>1, <3>1 DEF Turns, OnlyAt
  <2>3. QED
    BY <1>3, <2>1, <2>2
<1>6. Rendered(phase[t], m, pos[t], results'[t], pending'[t], launched[t], queue[t], next[t])
  <2>1. Rendered(phase[t], m, pos[t], results[t], pending[t], launched[t], queue[t], next[t])
    BY <1>1 DEF Rend
  <2>2. CASE results'[t] = results[t] /\ pending'[t] = pending[t]
    BY <2>1, <2>2
  <2>3. CASE Turns(i, s, m, results[t], results'[t]) /\ pending'[t] = pending[t] \ {i}
    <3>1. CASE phase[t] = "done"
      <4>1. Rendered("done", m, pos[t], results[t], pending[t], launched[t], queue[t], next[t])
        BY ONLY <2>1, <3>1
      <4>2. Rendered("done", m, pos[t], results'[t], pending[t] \ {i}, launched[t], queue[t],
                     next[t])
        BY ONLY <1>3, <2>3, <4>1, DestroyRendered
      <4>3. QED
        BY ONLY <2>3, <3>1, <4>2
    <3>2. CASE phase[t] # "done"
      <4>1. /\ DOMAIN results'[t] = DOMAIN m
            /\ \A j \in DOMAIN m : /\ results'[t][j] \in ResultStates
                                   /\ results'[t][j] \in WithHandle
                                        => results[t][j] \in WithHandle
        BY <1>1, <1>3, <2>3 DEF Turns, OnlyAt, ResultStates
      <4>2. phase[t] \in {"unwind", "unread"} /\ phase[t] # "idle"
        BY <1>2, <3>2
      <4>3. QED
        BY ONLY <1>4, <2>1, <4>1, <4>2, UnwindRendered
    <3>3. QED
      BY <3>1, <3>2
  <2>4. QED
    BY <1>5, <2>2, <2>3
<1>7. Shape'
  BY <1>1, <1>2, <1>4 DEF Shape
<1>8. \A u \in Threads \ {t} : Same(u)
  BY <1>1, <1>2, <1>4 DEF Shape, Same
<1>9. QED
  BY <1>2, <1>6, <1>7, <1>8 DEF Moves, Rend

\* Inv is inductive.
LEMMA StepInv == Inv /\ [Next]_vars => Inv'
<1> SUFFICES ASSUME Inv, [Next]_vars PROVE Inv'
  OBVIOUS
<1>1. ASSUME NEW t \in Threads, NEW m \in Maps, Start(t, m) PROVE Inv'
  BY <1>1, StartMoves, MovesKeepInv
<1>2. ASSUME NEW t \in Threads, Work(t) PROVE Inv'
  <2>1. Moves(t)
    <3>1. CASE Borrow(t)
      BY <3>1, BorrowMoves
    <3>2. CASE Postpone(t)
      BY <3>2, PostponeMoves
    <3>3. CASE Launch(t)
      BY <3>3, LaunchMoves
    <3>4. CASE Execute(t)
      BY <3>4, ExecuteMoves
    <3>5. CASE BeginRendering(t)
      BY <3>5, BeginMoves
    <3>6. CASE FirstRow(t)
      BY <3>6, FirstRowMoves
    <3>7. CASE LastRow(t)
      BY <3>7, LastRowMoves
    <3>8. CASE PopNext(t)
      BY <3>8, PopNextMoves
    <3>9. CASE BorrowNext(t)
      BY <3>9, BorrowNextMoves
    <3>10. CASE SendNext(t)
      BY <3>10, SendNextMoves
    <3>11. CASE ReadRows(t) \/ PassExtent(t)
      BY <3>11, ReadRowsMoves
    <3>12. CASE Finish(t)
      BY <3>12, FinishMoves
    <3>13. CASE Leave(t)
      BY <3>13, LeaveMoves
    <3>14. CASE NotLaunched(t) \/ LeaveUnread(t)
      BY <3>14, ThrowMoves
    <3>15. CASE Destroy(t)
      BY <3>15, DestroyMoves
    <3>16. QED
      BY <1>2, <3>1, <3>2, <3>3, <3>4, <3>5, <3>6, <3>7, <3>8, <3>9, <3>10, <3>11,
         <3>12, <3>13, <3>14, <3>15 DEF Work
  <2>2. QED
    BY <2>1, MovesKeepInv
<1>3. ASSUME NEW t \in Threads, DatabaseError(t) PROVE Inv'
  BY <1>3, ThrowMoves, MovesKeepInv
<1>4. CASE UNCHANGED vars
  BY <1>4 DEF vars, Inv, Shape
<1>5. QED
  BY <1>1, <1>2, <1>3, <1>4 DEF Next

LEMMA InvHolds == Spec => []Inv
<1>1. QED
  BY InitInv, StepInv, PTL DEF Spec

-----------------------------------------------------------------------------
(* What the invariant says *)

\* Types: every rendering's state is one that features_with_context, next and
\* the destructors know.
LEMMA InvTypeOK == Inv => TypeOK
<1> SUFFICES ASSUME Inv PROVE TypeOK
  OBVIOUS
<1>1. Shape /\ \A t \in Threads :
        Typed(phase[t], map[t], pos[t], results[t], pending[t], launched[t], queue[t], next[t])
  BY ThreadType DEF Inv
<1>2. ASSUME NEW t \in Threads
      PROVE  /\ DOMAIN results[t] = DOMAIN map[t]
             /\ \A i \in DOMAIN map[t] : results[t][i] \in ResultStates
             /\ pending[t] \subseteq Nat
             /\ \A p \in Plugins : queue[t][p] \in Seq(Nat)
  BY <1>1 DEF Typed
<1>3. QED
  BY <1>1, <1>2 DEF TypeOK, Shape

\* A queued result set cannot be the one at hand: nothing lies between the two
\* that could have sent it.
LEMMA InvSentBeforeRead == Inv => SentBeforeRead
<1> SUFFICES ASSUME Inv, NEW t \in Threads, Rendering(t, "queued") PROVE FALSE
  BY DEF SentBeforeRead
<1> DEFINE m == map[t]
           i == pos[t]
           p == map[t][pos[t]].plugin
<1>1. /\ phase[t] = "render" /\ i \in DOMAIN m /\ results[t][i] = "queued"
  BY DEF Rendering, InMap, State, Current
<1>2. /\ Queued("render", m, results[t], queue[t], next[t])
      /\ EnoughBefore("render", m, i, queue[t])
  BY <1>1, ThreadType DEF Rend, Rendered, Running
<1>3. m \in Maps \cup {<<>>} /\ i \in Nat /\ p \in Plugins
  BY <1>1, ThreadType
<1>4. PICK j \in 1..Len(queue[t][p]) : queue[t][p][j] = i
  BY <1>1, <1>2 DEF Queued
<1>5. Cardinality(Between(m, p, i, i)) >= j
  BY <1>2, <1>3, <1>4 DEF EnoughBefore, Base
<1>6. Cardinality(Between(m, p, i, i)) = 0
  <2>1. i <= i
    BY <1>3
  <2>2. QED
    BY ONLY <1>3, <2>1, BetweenOn
<1>7. QED
  BY <1>4, <1>5, <1>6

\* What is under way was counted, and the count is within a limit.
LEMMA InvWithinMaxAsync == Inv => WithinMaxAsync
<1> SUFFICES ASSUME Inv, NEW t \in Threads, NEW p \in Plugins, UnderWay(t, p) # {}
             PROVE  \E i \in DOMAIN map[t] :
                      /\ map[t][i].mode = "async" /\ map[t][i].plugin = p
                      /\ Cardinality(UnderWay(t, p)) <= map[t][i].max_async
  BY DEF WithinMaxAsync
<1> DEFINE c == Cardinality(UnderWay(t, p))
           l == launched[t][p]
<1>1. /\ Typed(phase[t], map[t], pos[t], results[t], pending[t], launched[t], queue[t], next[t])
      /\ Counted(phase[t], map[t], pos[t], results[t], launched[t], queue[t], next[t])
      /\ map[t] \in Maps \cup {<<>>} /\ DOMAIN results[t] = DOMAIN map[t]
      /\ l \in Nat /\ \A i \in DOMAIN map[t] : map[t][i].max_async \in Nat
  BY ThreadType DEF Rend, Rendered
<1>2. UnderWay(t, p) = Under(map[t], results[t], p)
  BY <1>1 DEF UnderWay, Held, Under, IsAsync
<1>3. c \in Nat /\ c <= l
  BY <1>1, <1>2, UnderType DEF Counted
<1>4. c # 0
  <2>1. IsFiniteSet(UnderWay(t, p))
    BY <1>1, <1>2, UnderType
  <2>2. QED
    BY <2>1, FS_EmptySet
<1>5. phase[t] # "idle"
  <2>1. DOMAIN <<>> = {}
    OBVIOUS
  <2>2. map[t] # <<>>
    BY <1>2, <2>1 DEF Under
  <2>3. QED
    BY <1>1, <2>2 DEF Typed
<1>6. l > 0
  BY <1>1, <1>3, <1>4
<1>7. PICK i \in DOMAIN map[t] : IsAsync(map[t], i, p) /\ l <= map[t][i].max_async
  BY <1>1, <1>5, <1>6 DEF Counted
<1>8. c <= map[t][i].max_async
  BY <1>1, <1>3, <1>7
<1>9. QED
  BY <1>7, <1>8 DEF IsAsync

\* A rendering that is done is past its last query.
LEMMA InvNothingLeftBehind == Inv => NothingLeftBehind
<1> SUFFICES ASSUME Inv, NEW t \in Threads, phase[t] = "done"
             PROVE  /\ \A i \in DOMAIN map[t] : WasRead(i, map[t], results[t])
                    /\ queue[t] = NoQueues
                    /\ pending[t] = {}
  BY DEF NothingLeftBehind, WasRead
<1>1. /\ States("done", map[t], pos[t], results[t], pending[t], next[t])
      /\ Queued("done", map[t], results[t], queue[t], next[t])
      /\ map[t] \in Maps \cup {<<>>} /\ pos[t] \in Nat \ {0}
      /\ queue[t] \in [Plugins -> Seq(Nat)]
  BY ThreadType DEF Rend, Rendered, Running
<1>2. DOMAIN map[t] = 1..Len(map[t]) /\ Len(map[t]) \in Nat
  BY <1>1, MapFacts
<1>3. pos[t] \notin DOMAIN map[t]
  BY <1>1 DEF States
<1>4. \A i \in DOMAIN map[t] : i < pos[t]
  BY <1>1, <1>2, <1>3
<1>5. \A i \in DOMAIN map[t] : WasRead(i, map[t], results[t])
  BY <1>1, <1>4 DEF States
<1>6. queue[t] = NoQueues
  <2>1. ASSUME NEW p \in Plugins PROVE queue[t][p] = <<>>
    <3>1. queue[t][p] \in Seq(Nat)
      BY <1>1
    <3>2. 1 \notin 1..Len(queue[t][p])
      <4>1. ASSUME 1 \in 1..Len(queue[t][p]) PROVE FALSE
        <5>1. /\ queue[t][p][1] \in DOMAIN map[t]
              /\ results[t][queue[t][p][1]] = "queued"
          BY <1>1, <4>1 DEF Queued, IsAsync
        <5>2. QED
          BY <1>5, <5>1 DEF WasRead
      <4>2. QED
        BY <4>1
    <3>3. Len(queue[t][p]) = 0
      BY <3>1, <3>2
    <3>4. QED
      BY <3>1, <3>3
  <2>2. QED
    BY <1>1, <2>1 DEF NoQueues
<1>7. pending[t] = {}
  BY <1>1, <1>5 DEF States, WasRead
<1>8. QED
  BY <1>5, <1>6, <1>7

\* TypeOK holds for every set of threads, pools and maps: the queues, result
\* sets and counts of postgis_processor_context keep their types through
\* every interleaving and every failure.
THEOREM TypeCorrect == Spec => []TypeOK
<1>1. QED
  BY InvHolds, InvTypeOK, PTL

\* The n-th queued query is sent before the n-th next result set is read: the
\* exception of AsyncResultSet::next for a result set without a connection is
\* never thrown, whatever the map and the limits.
THEOREM NeverReadUnsent == Spec => []SentBeforeRead
<1>1. QED
  BY InvHolds, InvSentBeforeRead, PTL

\* No context has more asynchronous queries under way than a
\* max_async_connection of its datasources, whatever fails.
THEOREM LimitIsKept == Spec => []WithinMaxAsync
<1>1. QED
  BY InvHolds, InvWithinMaxAsync, PTL

\* A rendering that has gone through its layers has read all it queried and
\* emptied the queues of its contexts, so that nothing keeps them alive, and
\* leaves to the destructors no connection but those of cursors that had rows.
THEOREM AllIsRead == Spec => []NothingLeftBehind
<1>1. QED
  BY InvHolds, InvNothingLeftBehind, PTL

-----------------------------------------------------------------------------
(* The sizing rule *)

\* The largest share of M that N can have.
LEMMA EqualShares ==
    ASSUME NEW M \in Nat, NEW N \in Nat \ {0}
    PROVE  \E K \in Nat : N * K <= M /\ \A a \in Nat : N * a <= M => a <= K
<1> DEFINE K == M \div N
<1>1. K \in Nat /\ N * K <= M /\ M < N * K + N
  OBVIOUS
<1> HIDE DEF K
<1>2. ASSUME NEW a \in Nat, N * a <= M, ~(a <= K) PROVE FALSE
  <2>1. PICK d \in Nat : a = K + 1 + d
    <3>1. a - K - 1 \in Nat /\ a = K + 1 + (a - K - 1)
      BY <1>1, <1>2
    <3>2. QED
      BY <3>1
  <2>2. N * a = N * K + N + N * d
    BY <1>1, <2>1
  <2>3. N * d \in Nat /\ N * K \in Nat
    BY <1>1, <2>1
  <2>4. QED
    BY <1>1, <1>2, <2>2, <2>3
<1>3. QED
  BY <1>1, <1>2

\* Counting: when everybody holds at most K, and t fewer, what is held is less
\* than all shares.  The pairs <<u, n>>, for the n-th of what u holds, cover
\* it and miss <<t, K>>.
LEMMA LessThanShares ==
    ASSUME NEW T, IsFiniteSet(T), NEW K \in Nat, NEW H,
           \A u \in T : IsFiniteSet(H[u]) /\ Cardinality(H[u]) <= K,
           NEW t \in T, Cardinality(H[t]) < K,
           NEW L \in SUBSET (UNION {{u} \X H[u] : u \in T})
    PROVE  Cardinality(L) \in Nat /\ Cardinality(L) < Cardinality(T) * K
<1> DEFINE num == [u \in T |-> CHOOSE f \in Bijection(1..Cardinality(H[u]), H[u]) : TRUE]
           All == UNION {{u} \X H[u] : u \in T}
           Grid == T \X (1..K)
           Part == {p \in Grid : p[2] <= Cardinality(H[p[1]])}
           g == [p \in Part |-> <<p[1], num[p[1]][p[2]]>>]
<1>1. ASSUME NEW u \in T
      PROVE  /\ Cardinality(H[u]) \in Nat
             /\ num[u] \in Bijection(1..Cardinality(H[u]), H[u])
  <2>1. /\ Cardinality(H[u]) \in Nat
        /\ ExistsBijection(1..Cardinality(H[u]), H[u])
    BY FS_CardinalityType
  <2>2. QED
    BY <2>1 DEF ExistsBijection
<1>2. /\ IsFiniteSet(Grid) /\ Cardinality(Grid) = Cardinality(T) * K
      /\ Cardinality(T) * K \in Nat
  <2>1. IsFiniteSet(1..K) /\ Cardinality(1..K) = K
    BY FS_Interval
  <2>2. Cardinality(T) \in Nat
    BY FS_CardinalityType
  <2>3. QED
    BY <2>1, <2>2, FS_Product
<1>3. K \in 1..K
  BY <1>1
<1>4. /\ IsFiniteSet(Part) /\ Cardinality(Part) \in Nat
      /\ Cardinality(Part) < Cardinality(T) * K
  <2>1. Part \in SUBSET (Grid \ {<<t, K>>})
    BY <1>1
  <2>2. <<t, K>> \in Grid
    BY <1>3
  <2>3. /\ IsFiniteSet(Grid \ {<<t, K>>})
        /\ Cardinality(Grid \ {<<t, K>>}) = Cardinality(T) * K - 1
    <3>1. /\ IsFiniteSet(Grid \ {<<t, K>>})
          /\ Cardinality(Grid \ {<<t, K>>}) = Cardinality(Grid) - 1
      BY ONLY <1>2, <2>2, FS_RemoveElement
    <3>2. QED
      BY ONLY <1>2, <3>1
  <2>4. IsFiniteSet(Part) /\ Cardinality(Part) <= Cardinality(T) * K - 1
    BY <2>1, <2>3, FS_Subset
  <2>5. Cardinality(Part) \in Nat
    BY <2>4, FS_CardinalityType
  <2>6. QED
    BY <1>2, <2>4, <2>5
<1>5. g \in Surjection(Part, All)
  <2>1. ASSUME NEW p \in Part PROVE g[p] \in All
    <3>1. p[1] \in T /\ p[2] \in 1..Cardinality(H[p[1]])
      BY <1>1
    <3>2. num[p[1]][p[2]] \in H[p[1]]
      BY <1>1, <3>1 DEF Bijection, Injection
    <3>3. <<p[1], num[p[1]][p[2]]>> \in {p[1]} \X H[p[1]]
      BY <3>2
    <3>4. QED
      BY <3>1, <3>3
  <2>2. ASSUME NEW x \in All PROVE \E p \in Part : g[p] = x
    <3>1. PICK u \in T : x \in {u} \X H[u]
      OBVIOUS
    <3>2. x = <<u, x[2]>> /\ x[2] \in H[u]
      BY <3>1
    <3>3. PICK n \in 1..Cardinality(H[u]) : num[u][n] = x[2]
      BY <1>1, <3>2 DEF Bijection, Surjection
    <3>4. <<u, n>> \in Part
      <4> DEFINE k == Cardinality(H[u])
      <4>a. k \in Nat /\ k <= K /\ n \in 1..k
        BY <1>1, <3>3
      <4> HIDE DEF k
      <4>1. n \in 1..K
        BY <4>a
      <4> USE DEF k
      <4>2. <<u, n>> \in Grid /\ n <= Cardinality(H[u])
        BY <1>1, <3>3, <4>1
      <4>3. QED
        BY <4>2
    <3>5. g[<<u, n>>] = <<u, num[u][n]>>
      BY <3>4
    <3>6. g[<<u, n>>] = x
      BY <3>2, <3>3, <3>5
    <3>7. QED
      BY <3>4, <3>6
  <2>3. g \in [Part -> All]
    BY <2>1
  <2>4. QED
    BY <2>2, <2>3 DEF Surjection
<1>6. IsFiniteSet(All) /\ Cardinality(All) <= Cardinality(Part)
  BY <1>4, <1>5, FS_Surjection
<1>7. IsFiniteSet(L) /\ Cardinality(L) <= Cardinality(All)
  BY <1>6, FS_Subset
<1>8. Cardinality(L) \in Nat /\ Cardinality(All) \in Nat
  BY <1>6, <1>7, FS_CardinalityType
<1>9. QED
  BY <1>2, <1>4, <1>6, <1>7, <1>8

\* Of two sets together there are at most as many as of both.
LEMMA Together ==
    ASSUME NEW A, NEW B, IsFiniteSet(A), IsFiniteSet(B)
    PROVE  /\ IsFiniteSet(A \cup B) /\ Cardinality(A \cup B) \in Nat
           /\ Cardinality(A \cup B) <= Cardinality(A) + Cardinality(B)
<1>1. /\ Cardinality(A) \in Nat /\ Cardinality(B) \in Nat
      /\ IsFiniteSet(A \cap B) /\ Cardinality(A \cap B) \in Nat
  <2>1. IsFiniteSet(A \cap B)
    BY FS_Subset
  <2>2. QED
    BY <2>1, FS_CardinalityType
<1>2. /\ IsFiniteSet(A \cup B)
      /\ Cardinality(A \cup B) = Cardinality(A) + Cardinality(B) - Cardinality(A \cap B)
  BY FS_Union
<1>3. Cardinality(A \cup B) \in Nat
  BY <1>2, FS_CardinalityType
<1>4. QED
  BY <1>1, <1>2, <1>3

\* The limits of a map and what it holds beside them are numbers.
LEMMA ShareType ==
    ASSUME NEW m \in Maps
    PROVE  /\ IsFiniteSet(Cursors(m)) /\ Cardinality(Cursors(m)) \in Nat
           /\ Beside(m) \in Nat /\ \A l \in Limits(m) : l \in Nat
<1>1. m \in Maps \cup {<<>>}
  OBVIOUS
<1>2. IsFiniteSet(Cursors(m)) /\ Cardinality(Cursors(m)) \in Nat
  BY <1>1, Positions DEF Cursors
<1>3. Beside(m) \in Nat
  BY <1>2 DEF Beside
<1>4. \A l \in Limits(m) : l \in Nat
  BY <1>1, MapFacts DEF Limits
<1>5. QED
  BY <1>2, <1>3, <1>4

\* The asynchronous queries under way are within a limit of the map, and one
\* that asks for a connection leaves room for it.
LEMMA UnderShare ==
    ASSUME Inv, NEW t \in Threads, phase[t] # "idle", NEW plugin \in Plugins,
           \A i \in DOMAIN map[t] : map[t][i].mode = "async" => map[t][i].plugin = plugin
    PROVE  LET c == Cardinality(Under(map[t], results[t], plugin))
           IN  /\ c \in Nat
               /\ \E l \in Limits(map[t]) : l \in Nat /\ c <= l
               /\ AtBorrow(t) /\ Query(t).mode = "async" =>
                    \E l \in Limits(map[t]) : l \in Nat /\ c + 1 <= l
<1> DEFINE m == map[t]
           a == launched[t][plugin]
           c == Cardinality(Under(m, results[t], plugin))
<1>1. /\ Counted(phase[t], m, pos[t], results[t], launched[t], queue[t], next[t])
      /\ m \in Maps \cup {<<>>} /\ DOMAIN results[t] = DOMAIN m
      /\ a \in Nat /\ \A i \in DOMAIN m : m[i].max_async \in Nat
  BY ThreadType DEF Rend, Rendered
<1>2. c \in Nat /\ c <= a
  BY <1>1, UnderType DEF Counted
<1>3. a > 0 => \E l \in Limits(m) : l \in Nat /\ a <= l
  <2>1. ASSUME a > 0 PROVE \E l \in Limits(m) : l \in Nat /\ a <= l
    <3>1. PICK i \in DOMAIN m : IsAsync(m, i, plugin) /\ a <= m[i].max_async
      BY <1>1, <2>1 DEF Counted
    <3>2. m[i].max_async \in Limits(m) /\ m[i].max_async \in Nat
      BY <1>1, <3>1 DEF Limits, IsAsync
    <3>3. QED
      BY <3>1, <3>2
  <2>2. QED
    BY <2>1
<1>4. \E l \in Limits(m) : l \in Nat /\ c <= l
  <2>1. CASE a > 0
    BY <1>1, <1>2, <1>3, <2>1
  <2>2. CASE ~(a > 0)
    <3>1. 0 \in Limits(m) /\ c <= 0
      BY <1>1, <1>2, <2>2 DEF Limits
    <3>2. QED
      BY <3>1
  <2>3. QED
    BY <2>1, <2>2
<1>5. ASSUME Preparing(t, "none"), ~Postponed(t), Query(t).mode = "async"
      PROVE  \E l \in Limits(m) : l \in Nat /\ c + 1 <= l
  <2>1. pos[t] \in DOMAIN m /\ Current(t) = pos[t]
    BY <1>5 DEF Preparing, InMap, Current
  <2>2. m[pos[t]].mode = "async" /\ m[pos[t]].plugin = plugin
    BY <1>5, <2>1 DEF Query
  <2>3. ~(a >= m[pos[t]].max_async)
    BY <1>5, <2>1, <2>2 DEF Postponed, Query
  <2>4. m[pos[t]].max_async \in Limits(m) /\ m[pos[t]].max_async \in Nat
    BY <1>1, <2>1, <2>2 DEF Limits
  <2>5. c + 1 <= m[pos[t]].max_async
    BY <1>1, <1>2, <2>3, <2>4
  <2>6. QED
    BY <2>4, <2>5
<1>6. ASSUME phase[t] = "sending", State(t) = "queued"
      PROVE  \E l \in Limits(m) : l \in Nat /\ c + 1 <= l
  <2>1. results[t][next[t]] = "queued"
    BY <1>6 DEF State, Current
  <2>2. States("sending", m, pos[t], results[t], pending[t], next[t])
    BY <1>6, ThreadType DEF Rend, Rendered, Running
  <2>3. pos[t] \in DOMAIN m /\ m[pos[t]].mode = "async"
    BY <2>2 DEF States
  <2>4. m[pos[t]].plugin = plugin
    BY <2>3
  <2>5. Vacant(phase[t], m, pos[t], results[t], next[t], plugin)
    BY <1>6, <2>1, <2>4 DEF Vacant
  <2>6. c + 1 <= a
    BY <1>1, <2>5 DEF Counted
  <2>7. PICK l \in Limits(m) : l \in Nat /\ a <= l
    BY <1>1, <1>2, <1>3, <2>6
  <2>8. c + 1 <= l
    BY <1>1, <1>2, <2>6, <2>7
  <2>9. QED
    BY <2>7, <2>8
<1>7. QED
  BY <1>2, <1>4, <1>5, <1>6 DEF AtBorrow

\* Cursors and the one query answered at once have their own share, and one of
\* them that asks for a connection leaves room for it.
LEMMA BesideShare ==
    ASSUME Inv, NEW t \in Threads, map[t] \in Maps
    PROVE  LET B == {i \in Held(t) : map[t][i].mode # "async"}
               b == Cardinality(B)
           IN  /\ IsFiniteSet(B) /\ b \in Nat
               /\ b <= Beside(map[t])
               /\ Preparing(t, "none") /\ Query(t).mode # "async" => b + 1 <= Beside(map[t])
<1> DEFINE m == map[t]
           rs == results[t]
           C == {i \in Held(t) : m[i].mode = "cursor"}
           A == {i \in Held(t) : AnsweredAtOnce(m, i)}
           B == {i \in Held(t) : m[i].mode # "async"}
           one == IF \E i \in DOMAIN m : AnsweredAtOnce(m, i) THEN 1 ELSE 0
           n == Cardinality(Cursors(m))
<1>1. /\ DOMAIN rs = DOMAIN m /\ Alone(m, pos[t], rs)
      /\ m \in Maps \cup {<<>>} /\ \A i \in DOMAIN m : m[i].mode \in Modes
  BY ThreadType, OneAtOnce, MapFacts DEF Rend
<1>2. /\ IsFiniteSet(Cursors(m)) /\ n \in Nat /\ one \in Nat /\ Beside(m) = n + one
      /\ Beside(m) \in Nat
  BY ShareType DEF Beside
<1>3. B = C \cup A /\ C \subseteq Cursors(m) /\ A \subseteq {pos[t]}
  BY <1>1 DEF Held, Modes, AnsweredAtOnce, Cursors, Alone
<1>4. /\ IsFiniteSet(C) /\ Cardinality(C) \in Nat /\ Cardinality(C) <= n
  BY <1>2, <1>3, FS_Subset, FS_CardinalityType
<1>5. /\ IsFiniteSet(A) /\ Cardinality(A) \in Nat /\ Cardinality(A) <= one
      /\ A = {} => Cardinality(A) = 0
  <2>1. A = {} => IsFiniteSet(A) /\ Cardinality(A) = 0
    BY FS_EmptySet
  <2>2. ASSUME A # {} PROVE IsFiniteSet(A) /\ Cardinality(A) = 1 /\ one = 1
    <3>1. A = {pos[t]}
      BY <1>3, <2>2
    <3>2. \E i \in DOMAIN m : AnsweredAtOnce(m, i)
      BY <1>1, <2>2 DEF Held
    <3>3. QED
      BY <3>1, <3>2, FS_Singleton
  <2>3. QED
    BY <1>2, <2>1, <2>2
<1>6. /\ IsFiniteSet(B) /\ Cardinality(B) \in Nat
      /\ Cardinality(B) <= Cardinality(C) + Cardinality(A)
  <2>1. B = C \cup A /\ IsFiniteSet(C) /\ IsFiniteSet(A)
    BY <1>3, <1>4, <1>5
  <2> HIDE DEF A, B, C
  <2>2. QED
    BY ONLY <2>1, Together
<1>7. ASSUME Preparing(t, "none"), Query(t).mode # "async"
      PROVE  Cardinality(B) + 1 <= Beside(m)
  <2>1. pos[t] \in DOMAIN m /\ rs[pos[t]] = "none" /\ m[pos[t]].mode # "async"
    BY <1>7 DEF Preparing, InMap, State, Query, Current
  <2>2. pos[t] \notin Held(t)
    BY <2>1 DEF Held, WithHandle
  <2>3. A = {}
    BY <1>3, <2>2
  <2>4. CASE m[pos[t]].mode = "cursor"
    <3>1. C \subseteq Cursors(m) \ {pos[t]} /\ pos[t] \in Cursors(m)
      BY <1>3, <2>1, <2>2, <2>4 DEF Cursors
    <3>2. /\ IsFiniteSet(Cursors(m) \ {pos[t]})
          /\ Cardinality(Cursors(m) \ {pos[t]}) = n - 1
      BY ONLY <1>2, <3>1, FS_RemoveElement
    <3>3. Cardinality(C) <= n - 1
      BY ONLY <3>1, <3>2, FS_Subset
    <3>4. QED
      BY <1>2, <1>4, <1>5, <1>6, <2>3, <3>3
  <2>5. CASE m[pos[t]].mode # "cursor"
    <3>1. AnsweredAtOnce(m, pos[t])
      BY <1>1, <2>1, <2>5 DEF AnsweredAtOnce, Modes
    <3>2. one = 1
      BY <2>1, <3>1
    <3>3. QED
      BY <1>2, <1>4, <1>5, <1>6, <2>3, <3>2
  <2>6. QED
    BY <2>4, <2>5
<1>8. Cardinality(B) <= Beside(m)
  BY <1>2, <1>4, <1>5, <1>6
<1>9. QED
  BY <1>6, <1>7, <1>8

\* A rendering of maps of that kind holds at most its share, and one that asks
\* for a connection holds less.
LEMMA HoldsItsShare ==
    ASSUME Inv,
           \A m \in Maps : \E plugin \in Plugins : \A i \in DOMAIN m :
               m[i].mode = "async" => m[i].plugin = plugin,
           NEW K \in Nat,
           \A m \in Maps : \A l \in Limits(m) : l + Beside(m) <= K,
           NEW t \in Threads
    PROVE  /\ IsFiniteSet(Held(t)) /\ Cardinality(Held(t)) <= K
           /\ AtBorrow(t) => Cardinality(Held(t)) < K
<1> DEFINE m == map[t]
           B == {i \in Held(t) : m[i].mode # "async"}
<1>1. /\ m \in Maps \cup {<<>>} /\ DOMAIN results[t] = DOMAIN m
      /\ phase[t] = "idle" => m = <<>>
  BY ThreadType DEF Typed
<1>2. CASE m = <<>>
  <2>1. DOMAIN m = {}
    BY <1>2
  <2>2. Held(t) = {}
    BY <1>1, <2>1 DEF Held
  <2>3. ~AtBorrow(t)
    <3>1. ~Preparing(t, "none")
      BY <2>1 DEF Preparing, InMap
    <3>2. phase[t] # "sending"
      BY <2>1, ThreadType DEF Rend, Rendered, Running, States
    <3>3. QED
      BY <3>1, <3>2 DEF AtBorrow
  <2>4. QED
    BY <2>2, <2>3, FS_EmptySet
<1>3. CASE m \in Maps /\ m # <<>>
  <2>1. PICK plugin \in Plugins : \A i \in DOMAIN m : m[i].mode = "async" => m[i].plugin = plugin
    BY <1>3
  <2> DEFINE U == Under(m, results[t], plugin)
  <2>2. phase[t] # "idle"
    BY <1>1, <1>3
  <2>3. /\ Cardinality(U) \in Nat
        /\ \E l \in Limits(m) : l \in Nat /\ Cardinality(U) <= l
        /\ AtBorrow(t) /\ Query(t).mode = "async" =>
             \E l \in Limits(m) : l \in Nat /\ Cardinality(U) + 1 <= l
    BY <2>1, <2>2, UnderShare
  <2>4. /\ IsFiniteSet(B) /\ Cardinality(B) \in Nat /\ Cardinality(B) <= Beside(m)
        /\ Preparing(t, "none") /\ Query(t).mode # "async" => Cardinality(B) + 1 <= Beside(m)
    BY <1>3, BesideShare
  <2>5. Held(t) = U \cup B
    BY <1>1, <2>1 DEF Held, Under, IsAsync
  <2>6. IsFiniteSet(U) /\ Beside(m) \in Nat
    BY <1>1, <1>3, UnderType, ShareType
  <2> HIDE DEF U, B
  <2>7. /\ IsFiniteSet(Held(t)) /\ Cardinality(Held(t)) \in Nat
        /\ Cardinality(Held(t)) <= Cardinality(U) + Cardinality(B)
    BY <2>4, <2>5, <2>6, Together
  <2>8. Cardinality(Held(t)) <= K
    <3>1. PICK l \in Limits(m) : l \in Nat /\ Cardinality(U) <= l
      BY <2>3
    <3>2. l + Beside(m) <= K
      BY <1>3
    <3>3. QED
      BY <2>3, <2>4, <2>6, <2>7, <3>1, <3>2
  <2>9. ASSUME AtBorrow(t) PROVE Cardinality(Held(t)) < K
    <3>1. CASE Query(t).mode = "async"
      <4>1. PICK l \in Limits(m) : l \in Nat /\ Cardinality(U) + 1 <= l
        BY <2>3, <2>9, <3>1
      <4>2. l + Beside(m) <= K
        BY <1>3
      <4>3. QED
        BY <2>3, <2>4, <2>6, <2>7, <4>1, <4>2
    <3>2. CASE Query(t).mode # "async"
      <4>1. PICK l \in Limits(m) : l \in Nat /\ Cardinality(U) <= l
        BY <2>3
      <4>2. l + Beside(m) <= K
        BY <1>3
      <4>3. Preparing(t, "none")
        <5>1. ASSUME phase[t] = "sending" PROVE FALSE
          <6>1. States("sending", m, pos[t], results[t], pending[t], next[t])
            BY <5>1, ThreadType DEF Rend, Rendered, Running
          <6>2. m[next[t]].mode = "async"
            BY <6>1 DEF States, IsAsync
          <6>3. QED
            BY <3>2, <5>1, <6>2 DEF Query, Current
        <5>2. QED
          BY <2>9, <5>1 DEF AtBorrow
      <4>4. Cardinality(B) + 1 <= Beside(m)
        BY <2>4, <3>2, <4>3
      <4>5. QED
        BY <2>3, <2>4, <2>6, <2>7, <4>1, <4>2, <4>4
    <3>3. QED
      BY <3>1, <3>2
  <2>10. QED
    BY <2>7, <2>8, <2>9
<1>4. QED
  BY <1>1, <1>2, <1>3

\* With pools of the size that Sized asks for no borrow waits.
LEMMA InvNeverWaits == Inv => NeverWaits
<1> SUFFICES ASSUME Inv, Sized, NEW t \in Threads, Waits(t) PROVE FALSE
  BY DEF NeverWaits
<1> DEFINE N == Cardinality(Threads)
           m == map[t]
           P == Query(t).pool
           M == MaxSize[P]
           H == [u \in Threads |-> Held(u)]
<1>1. \A x \in Maps :
        /\ \E plugin \in Plugins : \A i \in DOMAIN x :
             x[i].mode = "async" => x[i].plugin = plugin
        /\ \A l \in Limits(x), p \in Pools : N * (l + Beside(x)) <= MaxSize[p]
  BY DEF Sized
<1>2. AtBorrow(t) /\ ~MayLend(P)
  BY DEF Waits
<1>3. P \in Pools /\ M \in Nat
  <2>1. CASE Preparing(t, "none")
    <3>1. Current(t) \in DOMAIN m
      BY <2>1 DEF Preparing, InMap, Current
    <3>2. QED
      BY <3>1, ThreadType, MapFacts, PoolsAssumption DEF Query
  <2>2. CASE phase[t] = "sending"
    <3>1. States("sending", m, pos[t], results[t], pending[t], next[t])
      BY <2>2, ThreadType DEF Rend, Rendered, Running
    <3>2. Current(t) \in DOMAIN m
      BY <2>2, <3>1 DEF States, Current
    <3>3. QED
      BY <3>2, ThreadType, MapFacts, PoolsAssumption DEF Query
  <2>3. QED
    BY <1>2, <2>1, <2>2 DEF AtBorrow
<1>4. N \in Nat \ {0}
  <2>1. IsFiniteSet(Threads)
    BY RunAssumption
  <2>2. N \in Nat /\ (N = 0 <=> Threads = {})
    BY <2>1, FS_CardinalityType, FS_EmptySet
  <2>3. QED
    BY <2>2
<1>5. PICK K \in Nat : N * K <= M /\ \A a \in Nat : N * a <= M => a <= K
  BY <1>3, <1>4, EqualShares
<1>6. ASSUME NEW x \in Maps, NEW l \in Limits(x) PROVE l + Beside(x) <= K
  <2>1. l + Beside(x) \in Nat
    BY ShareType
  <2>2. N * (l + Beside(x)) <= M
    BY <1>1, <1>3
  <2>3. QED
    BY <1>5, <2>1, <2>2
<1>7. ASSUME NEW u \in Threads
      PROVE  /\ IsFiniteSet(Held(u)) /\ Cardinality(Held(u)) <= K
             /\ AtBorrow(u) => Cardinality(Held(u)) < K
  BY <1>1, <1>6, HoldsItsShare
<1>8. Cardinality(OnLoan(P)) \in Nat /\ Cardinality(OnLoan(P)) < N * K
  <2>1. \A u \in Threads : IsFiniteSet(H[u]) /\ Cardinality(H[u]) <= K
    BY <1>7
  <2>2. Cardinality(H[t]) < K
    BY <1>2, <1>7
  <2>3. OnLoan(P) \in SUBSET (UNION {{u} \X H[u] : u \in Threads})
    BY DEF OnLoan
  <2>4. IsFiniteSet(Threads)
    BY RunAssumption
  <2> HIDE DEF H
  <2>5. QED
    BY <2>1, <2>2, <2>3, <2>4, LessThanShares
<1>9. N * K \in Nat
  BY <1>4, <1>5
<1>10. QED
  BY <1>2, <1>3, <1>5, <1>8, <1>9 DEF MayLend

\* With pools that cover, for each thread, the queries a context has under way,
\* its cursors and one query or extent that is answered at once, no thread
\* waits in borrow, and prepare_next finds a connection.
THEOREM SizedNeverWaits == Spec => []NeverWaits
<1>1. QED
  BY InvHolds, InvNeverWaits, PTL

=============================================================================
