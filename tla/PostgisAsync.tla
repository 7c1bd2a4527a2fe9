---------------------------- MODULE PostgisAsync ----------------------------
(***************************************************************************)
(* Rendering maps from PostGIS datasources.  Each thread renders one map   *)
(* at a time (feature_style_processor::apply) in two phases: it prepares   *)
(* every layer, which asks for the extent of its datasource (envelope) and *)
(* sends queries (features_with_context), and then renders the layers in   *)
(* the same order, which reads the results (AsyncResultSet,                *)
(* CursorResultSet, ResultSet).                                            *)
(* An asynchronous datasource sends at most max_async_connection queries   *)
(* ahead; the others wait in the queue of the rendering's                  *)
(* postgis_processor_context, and each result set that has been read sends *)
(* the next one.                                                           *)
(*                                                                         *)
(* All threads share the connection pools.  A pool is here what            *)
(* LendingPool promises: a connection is lent while fewer than max_size    *)
(* are on loan, and borrow waits otherwise.                                *)
(***************************************************************************)
EXTENDS Integers, Sequences, FiniteSets

CONSTANTS
    Threads,        \* rendering threads
    Pools,          \* connection pools, one per connection string
    MaxSize,        \* the max_size of each pool
    Maps,           \* the maps that may be rendered: sequences of queries
    Renderings,     \* BOUND: maps rendered by one thread
    ServerMayFail   \* TRUE: any call to the database may fail

\* A query of a map, in the order of prepare_layers: its pool, the plugin whose
\* name keys the context, and the parameters of its datasource.  A layer has
\* one per featureset, and one for its extent when its datasource has neither
\* the parameter nor the answer of an earlier query.
Plugins == {"postgis", "pgraster"}
Modes == {"async", "sync", "cursor", "extent"}
Queries == [pool : Pools, plugin : Plugins, mode : Modes, max_async : Nat]

ASSUME PoolsAssumption == MaxSize \in [Pools -> Nat]
\* The constructor of an asynchronous datasource checks its max_async.
ASSUME MapsAssumption ==
    /\ Maps \subseteq Seq(Queries)
    /\ \A m \in Maps : \A i \in DOMAIN m :
           m[i].mode = "async" => m[i].max_async \in 2..MaxSize[m[i].pool]
ASSUME RunAssumption ==
    /\ IsFiniteSet(Threads)
    /\ Renderings \in Nat
    /\ ServerMayFail \in BOOLEAN

VARIABLES
    phase,      \* where the thread stands in the rendering
    map,        \* its queries
    pos,        \* the query it prepares, or reads
    results,    \* the state of each query's result set
    pending,    \* the result sets whose connection has pending_ set
    launched,   \* num_async_requests_ of each context
    queue,      \* q_ of each context: the result sets to be sent later
    next,       \* the result set that prepare_next has taken off the queue
    left,       \* renderings left (Renderings)
    crashed     \* std::terminate was called, or a finished connection used

vars == <<phase, map, pos, results, pending, launched, queue, next, left,
          crashed>>

-----------------------------------------------------------------------------
\* "idle"; "prepare"; "render"; "closed": an asynchronous result set was read
\* and closed, prepare_next is next; "sending": prepare_next has popped one.
\* The result sets die: "done", after the last layer; "unread", as no layer is
\* rendered; "unwind", as an exception leaves apply.
Phases == {"idle", "prepare", "render", "closed", "sending", "done", "unread",
           "unwind"}
Ending == {"done", "unread", "unwind"}

\* "none": not prepared; "borrowed": a handle and no query yet; "queued": in
\* q_, no handle; "pending": sent; "reading": rs_ is set; "cursor": open, with
\* its first rows; "fetched": open, all rows read; "broken": a cursor whose
\* connection is lost; "buffered": rows in memory; "known": an extent; "read":
\* finished, the connection given back open; "dropped": given back closed, or
\* while an exception is under way.
ResultStates == {"none", "borrowed", "queued", "pending", "reading", "cursor",
                 "fetched", "broken", "buffered", "known", "read", "dropped"}
WithHandle == {"borrowed", "pending", "reading", "cursor", "fetched", "broken"}

Held(t) == {i \in DOMAIN results[t] : results[t][i] \in WithHandle}
OnLoan(p) == {ti \in UNION {{t} \X Held(t) : t \in Threads} :
                map[ti[1]][ti[2]].pool = p}
\* Whether borrow returns: a connection is free, or the pool may grow.
MayLend(p) == Cardinality(OnLoan(p)) < MaxSize[p]

\* The query at hand, and its result set.
Current(t) == IF phase[t] = "sending" THEN next[t] ELSE pos[t]
Query(t) == map[t][Current(t)]
State(t) == results[t][Current(t)]
InMap(t) == pos[t] \in DOMAIN map[t]

Enter(t, p) == phase' = [phase EXCEPT ![t] = p]
Becomes(t, s) == results' = [results EXCEPT ![t][Current(t)] = s]
Advance(t) == pos' = [pos EXCEPT ![t] = @ + 1]

NoRequests == [p \in Plugins |-> 0]
NoQueues == [p \in Plugins |-> <<>>]

Init ==
    /\ phase = [t \in Threads |-> "idle"]
    /\ map = [t \in Threads |-> <<>>]
    /\ pos = [t \in Threads |-> 1]
    /\ results = [t \in Threads |-> <<>>]
    /\ pending = [t \in Threads |-> {}]
    /\ launched = [t \in Threads |-> NoRequests]
    /\ queue = [t \in Threads |-> NoQueues]
    /\ next = [t \in Threads |-> 0]
    /\ left = [t \in Threads |-> Renderings]
    /\ crashed = FALSE

\* Mutant: the result sets of the last map are kept.
StartStale(t, m) ==
    /\ phase[t] = "idle"
    /\ left[t] > 0
    /\ Enter(t, "prepare")
    /\ map' = [map EXCEPT ![t] = m]
    /\ left' = [left EXCEPT ![t] = @ - 1]
    /\ UNCHANGED <<pos, results, pending, launched, queue, next, crashed>>

\* apply: a fresh map of contexts.
Start(t, m) ==
    /\ phase[t] = "idle"
    /\ left[t] > 0
    /\ Enter(t, "prepare")
    /\ map' = [map EXCEPT ![t] = m]
    /\ pos' = [pos EXCEPT ![t] = 1]
    /\ results' = [results EXCEPT ![t] = [i \in DOMAIN m |-> "none"]]
    /\ pending' = [pending EXCEPT ![t] = {}]
    /\ launched' = [launched EXCEPT ![t] = NoRequests]
    /\ queue' = [queue EXCEPT ![t] = NoQueues]
    /\ left' = [left EXCEPT ![t] = @ - 1]
    /\ UNCHANGED <<next, crashed>>

-----------------------------------------------------------------------------
(* Preparing: features_with_context and get_resultset *)

Preparing(t, s) == phase[t] = "prepare" /\ InMap(t) /\ State(t) = s

\* Mutant: one query too many.
PostponedLate(t) ==
    /\ Query(t).mode = "async"
    /\ launched[t][Query(t).plugin] > Query(t).max_async

\* Asynchronous queries beyond the datasource's max_async_connections_ get no
\* connection yet.
Postponed(t) ==
    /\ Query(t).mode = "async"
    /\ launched[t][Query(t).plugin] >= Query(t).max_async

\* A thread about to call borrow (in envelope, features_with_context or
\* prepare), or to send a query on what it borrowed.
AtBorrow(t) ==
    \/ Preparing(t, "none") /\ ~Postponed(t)
    \/ phase[t] = "sending" /\ State(t) = "queued"
AtSend(t) ==
    \/ Preparing(t, "borrowed")
    \/ phase[t] = "sending" /\ State(t) = "borrowed"

Borrow(t) ==
    /\ Preparing(t, "none")
    /\ ~Postponed(t)
    /\ MayLend(Query(t).pool)
    /\ Becomes(t, "borrowed")
    /\ launched' = IF Query(t).mode = "async"
                   THEN [launched EXCEPT ![t][Query(t).plugin] = @ + 1]
                   ELSE launched
    /\ UNCHANGED <<phase, map, pos, pending, queue, next, left, crashed>>

Postpone(t) ==
    /\ Preparing(t, "none")
    /\ Postponed(t)
    /\ Becomes(t, "queued")
    /\ queue' = [queue EXCEPT ![t][Query(t).plugin] = Append(@, pos[t])]
    /\ Advance(t)
    /\ UNCHANGED <<phase, map, pending, launched, next, left, crashed>>

\* The query is sent; pending_ is set, and only an error ever resets it.
Send(t) ==
    /\ Becomes(t, "pending")
    /\ pending' = [pending EXCEPT ![t] = @ \cup {Current(t)}]

Launch(t) ==
    /\ Preparing(t, "borrowed")
    /\ Query(t).mode = "async"
    /\ Send(t)
    /\ Advance(t)
    /\ UNCHANGED <<phase, map, launched, queue, next, left, crashed>>

\* Answered at once, and the handle dies with envelope, or without a cursor
\* with features_with_context; a cursor keeps it.
Execute(t) ==
    /\ Preparing(t, "borrowed")
    /\ \/ Query(t).mode = "extent" /\ Becomes(t, "known")
       \/ Query(t).mode = "sync" /\ Becomes(t, "buffered")
       \/ Query(t).mode = "cursor" /\ Becomes(t, "cursor")
    /\ Advance(t)
    /\ UNCHANGED <<phase, map, pending, launched, queue, next, left, crashed>>

BeginRendering(t) ==
    /\ phase[t] = "prepare"
    /\ ~InMap(t)
    /\ Enter(t, "render")
    /\ pos' = [pos EXCEPT ![t] = 1]
    /\ UNCHANGED <<map, results, pending, launched, queue, next, left, crashed>>

\* apply_to_layer: a layer alone without an active style is not rendered,
\* although the layers nested in it were prepared.
LeaveUnread(t) ==
    /\ phase[t] = "prepare"
    /\ ~InMap(t)
    /\ Enter(t, "unread")
    /\ UNCHANGED <<map, pos, results, pending, launched, queue, next, left,
                   crashed>>

-----------------------------------------------------------------------------
(* Rendering: the next and close of the result sets *)

Rendering(t, s) == phase[t] = "render" /\ InMap(t) /\ State(t) = s

\* The first next of an asynchronous result set waits for its result.
FirstRow(t) ==
    /\ Rendering(t, "pending")
    /\ Becomes(t, "reading")
    /\ UNCHANGED <<phase, map, pos, pending, launched, queue, next, left, crashed>>

\* Mutant: close keeps the handle.
LastRowHolding(t) ==
    /\ Rendering(t, "reading")
    /\ Enter(t, "closed")
    /\ UNCHANGED <<map, pos, results, pending, launched, queue, next, left, crashed>>

\* Its last next: close aborts the connection while pending_ is set, and
\* gives it back.
LastRow(t) ==
    /\ Rendering(t, "reading")
    /\ Becomes(t, IF pos[t] \in pending[t] THEN "dropped" ELSE "read")
    /\ pending' = [pending EXCEPT ![t] = @ \ {pos[t]}]
    /\ Enter(t, "closed")
    /\ UNCHANGED <<map, pos, launched, queue, next, left, crashed>>

\* Mutant: the latest result set of the queue is taken.
PopLatest(t) ==
    /\ phase[t] = "closed"
    /\ LET q == queue[t][Query(t).plugin] IN
       \/ /\ q = <<>>
          /\ Enter(t, "render")
          /\ Advance(t)
          /\ UNCHANGED <<queue, next>>
       \/ /\ q # <<>>
          /\ queue' = [queue EXCEPT ![t][Query(t).plugin] = SubSeq(@, 1, Len(@) - 1)]
          /\ next' = [next EXCEPT ![t] = q[Len(q)]]
          /\ Enter(t, "sending")
          /\ UNCHANGED pos
    /\ UNCHANGED <<map, results, pending, launched, left, crashed>>

\* Mutant: the head of the queue is read and not removed.
PeekNext(t) ==
    /\ phase[t] = "closed"
    /\ LET q == queue[t][Query(t).plugin] IN
       \/ /\ q = <<>>
          /\ Enter(t, "render")
          /\ Advance(t)
          /\ UNCHANGED next
       \/ /\ q # <<>>
          /\ next' = [next EXCEPT ![t] = Head(q)]
          /\ Enter(t, "sending")
          /\ UNCHANGED pos
    /\ UNCHANGED <<map, results, pending, launched, queue, left, crashed>>

\* prepare_next, of the context of the result set that was read.
PopNext(t) ==
    /\ phase[t] = "closed"
    /\ LET q == queue[t][Query(t).plugin] IN
       \/ /\ q = <<>>
          /\ Enter(t, "render")
          /\ Advance(t)
          /\ UNCHANGED <<queue, next>>
       \/ /\ q # <<>>
          /\ queue' = [queue EXCEPT ![t][Query(t).plugin] = Tail(@)]
          /\ next' = [next EXCEPT ![t] = Head(q)]
          /\ Enter(t, "sending")
          /\ UNCHANGED pos
    /\ UNCHANGED <<map, results, pending, launched, left, crashed>>

BorrowNext(t) ==
    /\ phase[t] = "sending"
    /\ State(t) = "queued"
    /\ MayLend(Query(t).pool)
    /\ Becomes(t, "borrowed")
    /\ UNCHANGED <<phase, map, pos, pending, launched, queue, next, left, crashed>>

SendNext(t) ==
    /\ phase[t] = "sending"
    /\ State(t) = "borrowed"
    /\ Send(t)
    /\ Enter(t, "render")
    /\ Advance(t)
    /\ next' = [next EXCEPT ![t] = 0]
    /\ UNCHANGED <<map, launched, queue, left, crashed>>

\* A cursor closes itself only if it had no rows at all: its last next fetches
\* an empty batch and returns, and nobody calls it again.
ReadRows(t) ==
    /\ \/ Rendering(t, "buffered") /\ UNCHANGED results
       \/ Rendering(t, "cursor") /\ \E s \in {"fetched", "read"} : Becomes(t, s)
    /\ Advance(t)
    /\ UNCHANGED <<phase, map, pending, launched, queue, next, left, crashed>>

\* Extents are for the preparing alone.
PassExtent(t) ==
    /\ Rendering(t, "known")
    /\ Advance(t)
    /\ UNCHANGED <<phase, map, results, pending, launched, queue, next, left,
                   crashed>>

\* The last layer was rendered; the materials die.
Finish(t) ==
    /\ phase[t] = "render"
    /\ ~InMap(t)
    /\ Enter(t, "done")
    /\ UNCHANGED <<map, pos, results, pending, launched, queue, next, left,
                   crashed>>

\* The result sets are destroyed with the materials, and each gives back the
\* connection it has: an asynchronous one aborts it, a cursor sends CLOSE on
\* it, and when that fails its destructor throws.
Destroy(t) ==
    /\ phase[t] \in Ending
    /\ \E i \in Held(t) :
        LET s == results[t][i] IN
        \/ /\ s # "broken"
           /\ results' = [results EXCEPT ![t][i] =
                             IF s \in {"cursor", "fetched"} THEN "read" ELSE "dropped"]
           /\ pending' = [pending EXCEPT ![t] = @ \ {i}]
           /\ UNCHANGED crashed
        \/ /\ s = "broken" \/ (s \in {"cursor", "fetched"} /\ ServerMayFail)
           /\ crashed' = TRUE
           /\ UNCHANGED <<results, pending>>
    /\ UNCHANGED <<phase, map, pos, launched, queue, next, left>>

\* apply returns or throws; the contexts die, but for one with a queue, which
\* its requests refer to.
Leave(t) ==
    /\ phase[t] \in Ending
    /\ Held(t) = {}
    /\ Enter(t, "idle")
    /\ map' = [map EXCEPT ![t] = <<>>]
    /\ results' = [results EXCEPT ![t] = <<>>]
    /\ pos' = [pos EXCEPT ![t] = 1]
    /\ next' = [next EXCEPT ![t] = 0]
    /\ UNCHANGED <<pending, launched, queue, left, crashed>>

-----------------------------------------------------------------------------
(* Failures *)

\* next of a result set without a connection throws.
NotLaunched(t) ==
    /\ Rendering(t, "queued")
    /\ Enter(t, "unwind")
    /\ UNCHANGED <<map, pos, results, pending, launched, queue, next, left, crashed>>

\* A call to the database fails, at any point where one is made, and throws.
\* The asynchronous calls close the connection and reset pending_; a cursor
\* may have lost its connection.
DatabaseError(t) ==
    /\ ServerMayFail
    /\ Enter(t, "unwind")
    /\ \/ /\ \/ AtBorrow(t) /\ MayLend(Query(t).pool)
             \/ AtSend(t)
             \/ Rendering(t, "cursor")
          /\ UNCHANGED <<results, pending>>
       \/ /\ Rendering(t, "cursor")
          /\ Becomes(t, "broken")
          /\ UNCHANGED pending
       \/ /\ Rendering(t, "pending") \/ Rendering(t, "reading")
          /\ pending' = [pending EXCEPT ![t] = @ \ {pos[t]}]
          /\ UNCHANGED results
    /\ UNCHANGED <<map, pos, launched, queue, next, left, crashed>>

-----------------------------------------------------------------------------
\* What a thread that renders does until apply is over.
Work(t) ==
    \/ Borrow(t) \/ Postpone(t) \/ Launch(t) \/ Execute(t) \/ BeginRendering(t)
    \/ LeaveUnread(t)
    \/ FirstRow(t) \/ LastRow(t) \/ PopNext(t) \/ BorrowNext(t) \/ SendNext(t)
    \/ ReadRows(t) \/ PassExtent(t) \/ Finish(t) \/ NotLaunched(t)
    \/ Destroy(t) \/ Leave(t)

Next ==
    /\ ~crashed
    /\ \E t \in Threads :
        \/ \E m \in Maps : Start(t, m)
        \/ Work(t)
        \/ DatabaseError(t)

Spec == Init /\ [][Next]_vars

\* A rendering thread is never suspended for ever, and the server answers.
Fairness == \A t \in Threads : WF_vars(~crashed /\ Work(t))
FairSpec == Spec /\ Fairness

-----------------------------------------------------------------------------
(* Properties *)

TypeOK ==
    /\ phase \in [Threads -> Phases]
    /\ map \in [Threads -> Seq(Queries)]
    /\ pos \in [Threads -> Nat \ {0}]
    /\ \A t \in Threads :
        /\ DOMAIN results[t] = DOMAIN map[t]
        /\ \A i \in DOMAIN map[t] : results[t][i] \in ResultStates
        /\ pending[t] \subseteq Nat
        /\ \A p \in Plugins : queue[t][p] \in Seq(Nat)
    /\ launched \in [Threads -> [Plugins -> Nat]]
    /\ next \in [Threads -> Nat]
    /\ left \in [Threads -> Nat]
    /\ crashed \in BOOLEAN

\* Reading never comes upon a result set whose query was not sent: the layers
\* are read in the order they were prepared in, and each result set that was
\* read has sent another one.  The exception "invalid connection in
\* AsyncResultSet::next" is for failed connections only.
SentBeforeRead == \A t \in Threads : ~Rendering(t, "queued")

\* The queries a context has under way never exceed the largest
\* max_async_connection of its datasources, through closing, popping and
\* sending in turn.
UnderWay(t, p) == {i \in Held(t) : map[t][i].mode = "async" /\ map[t][i].plugin = p}
WithinMaxAsync ==
    \A t \in Threads, p \in Plugins :
        UnderWay(t, p) # {} =>
            \E i \in DOMAIN map[t] :
                /\ map[t][i].mode = "async" /\ map[t][i].plugin = p
                /\ Cardinality(UnderWay(t, p)) <= map[t][i].max_async

\* A rendering that has gone through its layers has read every result set and
\* left none in a queue: the cycle between a context and its queued result
\* sets is broken, and the only connections left to the destructors are those
\* of cursors that had rows.
NothingLeftBehind ==
    \A t \in Threads : phase[t] = "done" =>
        /\ \A i \in DOMAIN map[t] :
             \/ results[t][i] \in {"read", "dropped", "buffered", "known"}
             \/ map[t][i].mode = "cursor" /\ results[t][i] = "fetched"
        /\ queue[t] = NoQueues
        /\ pending[t] = {}

\* The queries of a map that hold a connection beside those under way in its
\* context: every cursor, and one that is answered at once.
AnsweredAtOnce(m, i) == m[i].mode \in {"sync", "extent"}
Cursors(m) == {i \in DOMAIN m : m[i].mode = "cursor"}
Beside(m) ==
    Cardinality(Cursors(m))
      + (IF \E i \in DOMAIN m : AnsweredAtOnce(m, i) THEN 1 ELSE 0)

\* The limits of the one context of a map, 0 if it needs none.
Limits(m) == {0} \cup {m[i].max_async : i \in {j \in DOMAIN m : m[j].mode = "async"}}

\* The sizing rule of the constructor's note, with what it does not count: for
\* maps whose asynchronous layers are of one plugin, every pool covers for each
\* thread the queries a context has under way and the connections beside them
\* (those to the other pools, too).
Sized ==
    \A m \in Maps :
        /\ \E plugin \in Plugins : \A i \in DOMAIN m :
             m[i].mode = "async" => m[i].plugin = plugin
        /\ \A l \in Limits(m), p \in Pools :
             Cardinality(Threads) * (l + Beside(m)) <= MaxSize[p]

Waits(t) == AtBorrow(t) /\ ~MayLend(Query(t).pool)

\* With pools of that size a rendering never waits for a connection, and
\* prepare_next always finds one.
NeverWaits == Sized => \A t \in Threads : ~Waits(t)

\* Every rendering ends, with its image or with an exception, which the
\* destructor of a cursor turns into the end of the program.
RenderingEnds ==
    \A t \in Threads : phase[t] # "idle" ~> phase[t] = "idle" \/ crashed

\* The error "All connections from the pool have been taken" of a synchronous
\* query: a rendering that asks for a connection gets an answer.
BorrowAnswers == \A t \in Threads : AtBorrow(t) ~> ~AtBorrow(t)

\* The note itself, "pool_max_size_ should be max_async_connections_ *
\* num_threads", for maps of asynchronous layers: no borrow takes for ever.
SizedAsNoted ==
    \A m \in Maps : \A i \in DOMAIN m :
        /\ m[i].mode \in {"async", "extent"}
        /\ \A p \in Pools : Cardinality(Threads) * m[i].max_async <= MaxSize[p]
NotedSizeSuffices == SizedAsNoted => BorrowAnswers

\* "ensure cnx pool has unused cnx": what close has given back is there when
\* prepare_next borrows.
NextFindsConnection ==
    \A t \in Threads :
        phase[t] = "sending" /\ State(t) = "queued" => MayLend(Query(t).pool)
=============================================================================
