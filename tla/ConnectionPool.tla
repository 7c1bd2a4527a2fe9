--------------------------- MODULE ConnectionPool ---------------------------
(***************************************************************************)
(* mapnik::connection_pool (include/mapnik/util/connection_pool.hpp) as    *)
(* the PostGIS plugin uses it: one pool of one ConnectionManager, the      *)
(* libpq connections in its holders and the threads that borrow them.      *)
(*                                                                         *)
(* A critical section of mutex_ is one step.  Everything the code does     *)
(* outside the mutex is a step of its own: the gap between the try_borrow  *)
(* of borrow and its wait, the notify_one of give_back after the unlock,   *)
(* the two calls of registerPool, the use of a connection by its holder.   *)
(***************************************************************************)
EXTENDS Integers, FiniteSets

CONSTANTS
    Threads,        \* threads that use datasources of this pool
    Configs,        \* [initial, max]: the sizes the datasources register
    MaxHeld,        \* handles one thread keeps at a time
    MaxBorrows,     \* BOUND: calls of borrow by one thread
    Preping,        \* the datasources' preping parameter
    ServerMayFail   \* TRUE: the server may stop, and may refuse a connection

ASSUME ConfigsAssumption ==
    /\ Configs # {}
    /\ Configs \subseteq [initial : Nat, max : Nat]
ASSUME ThreadsAssumption == IsFiniteSet(Threads)
ASSUME BoundsAssumption ==
    /\ MaxHeld \in Nat
    /\ MaxBorrows \in Nat
    /\ Preping \in BOOLEAN
    /\ ServerMayFail \in BOOLEAN

VARIABLES
    initialSize,    \* initial_size_
    maxSize,        \* max_size_
    size,           \* holders_.size()
    holders,        \* holders_: the connection of a holder and is_free
    held,           \* the holders behind the live handles of each thread
    pc,             \* where a thread stands in borrow, give_back, registerPool
    wanted,         \* the maxSize argument of a registerPool under way
    borrows,        \* calls of borrow left (MaxBorrows)
    server,         \* the database server
    unannounced     \* history: free holders no notify_one is due for

poolVars == <<initialSize, maxSize, size, holders>>
vars == <<initialSize, maxSize, size, holders, held, pc, wanted, borrows,
          server, unannounced>>

-----------------------------------------------------------------------------
(* A Connection: "live", or "stale" once the server dropped it and libpq    *)
(* has not noticed, "bad" once PQstatus says so, "closed" after close().    *)
ConnStates == {"live", "stale", "bad", "closed"}
Holder == [conn : ConnStates, is_free : BOOLEAN]
FreshHolder == [conn |-> "live", is_free |-> TRUE]

\* "run": outside the pool; "unlocked": try_borrow returned null and the
\* mutex is free again; "waiting": asleep on cv_; "woken": off cv_, about to
\* re-check; "notifying": is_free is set, notify_one is next; "raising":
\* between set_initial_size and set_max_size of registerPool.
PCs == {"run", "unlocked", "waiting", "woken", "notifying", "raising"}

At(label) == {t \in Threads : pc[t] = label}
Goto(t, label) == pc' = [pc EXCEPT ![t] = label]

\* Connection::isOK without a ping: open, and libpq has seen no failure.
IsOK(c) == c \in {"live", "stale"}

\* Mutant: a broken connection may be reclaimed although it is lent.
FreeOrBroken == {i \in 1..size : holders[i].is_free \/ holders[i].conn = "bad"}

FreeHolders == {i \in 1..size : holders[i].is_free}
\* find_free: the first free holder of the deque.
IsFirstFree(i) == i \in FreeHolders /\ \A j \in FreeHolders : i <= j

Larger(a, b) == IF a >= b THEN a ELSE b
Smaller(a, b) == IF a <= b THEN a ELSE b

\* The creator: PQconnectdb succeeds only on a running server, and throws
\* otherwise.
ConnectOK == server = "up"
ConnectThrows == ServerMayFail

Init ==
    \E c \in Configs :
        /\ initialSize = c.initial
        /\ maxSize = c.max
        /\ size = Smaller(c.initial, c.max)
        /\ holders = [i \in 1..size |-> FreshHolder]
        /\ held = [t \in Threads |-> {}]
        /\ pc = [t \in Threads |-> "run"]
        /\ wanted = [t \in Threads |-> 0]
        /\ borrows = [t \in Threads |-> MaxBorrows]
        /\ server = "up"
        /\ unannounced = 0

-----------------------------------------------------------------------------
(* borrow *)

\* Mutant: the handle leaves is_free as it was.
LendUnmarked(t, i, c) ==
    /\ holders' = [holders EXCEPT ![i].conn = c]
    /\ held' = [held EXCEPT ![t] = @ \cup {i}]
    /\ UNCHANGED size

\* handle::handle: is_free goes FALSE under the mutex, and t owns holder i.
Lend(t, i, c) ==
    /\ holders' = [holders EXCEPT ![i] = [conn |-> c, is_free |-> FALSE]]
    /\ held' = [held EXCEPT ![t] = @ \cup {i}]
    /\ UNCHANGED size

\* A free holder is handed out as it is while its connection is OK, and is
\* reconnected first when it is not.
LendFree(t) ==
    \E i \in FreeHolders :
        /\ IsFirstFree(i)
        /\ \/ IsOK(holders[i].conn) /\ Lend(t, i, holders[i].conn)
           \/ ~IsOK(holders[i].conn) /\ ConnectOK /\ Lend(t, i, "live")

\* Mutant: one connection more than max_size_.
LendNewPastMax(t) ==
    /\ FreeHolders = {}
    /\ size <= maxSize
    /\ ConnectOK
    /\ size' = size + 1
    /\ holders' = [i \in 1..size + 1 |->
                     IF i \in 1..size THEN holders[i]
                     ELSE [conn |-> "live", is_free |-> FALSE]]
    /\ held' = [held EXCEPT ![t] = @ \cup {size + 1}]

\* Mutant: the new connection is lent and not kept in holders_.
LendNewUnstored(t) ==
    /\ FreeHolders = {}
    /\ size < maxSize
    /\ ConnectOK
    /\ held' = [held EXCEPT ![t] = @ \cup {size + 1}]
    /\ UNCHANGED <<size, holders>>

\* No holder is free and the pool may grow: the new one goes to t.
LendNew(t) ==
    /\ FreeHolders = {}
    /\ size < maxSize
    /\ ConnectOK
    /\ size' = size + 1
    /\ holders' = [i \in 1..size + 1 |->
                     IF i \in 1..size THEN holders[i]
                     ELSE [conn |-> "live", is_free |-> FALSE]]
    /\ held' = [held EXCEPT ![t] = @ \cup {size + 1}]

\* The creator throws out of try_borrow; no holder was touched.
ReconnectThrows ==
    /\ ConnectThrows
    /\ \/ \E i \in FreeHolders : IsFirstFree(i) /\ ~IsOK(holders[i].conn)
       \/ FreeHolders = {} /\ size < maxSize

MayBorrow(t) ==
    /\ pc[t] = "run"
    /\ Cardinality(held[t]) < MaxHeld
    /\ borrows[t] > 0

\* The try_borrow at the head of borrow (which forgets the ping argument).
\* The try_borrow of ~postgis_datasource is the same step, its null result
\* a stuttering one.
Borrow(t) ==
    /\ MayBorrow(t)
    /\ LendFree(t) \/ LendNew(t)
    /\ borrows' = [borrows EXCEPT ![t] = @ - 1]
    /\ UNCHANGED <<initialSize, maxSize, pc, wanted, server, unannounced>>

BorrowThrows(t) ==
    /\ MayBorrow(t)
    /\ ReconnectThrows
    /\ borrows' = [borrows EXCEPT ![t] = @ - 1]
    /\ UNCHANGED <<initialSize, maxSize, size, holders, held, pc, wanted,
                   server, unannounced>>

\* try_borrow returns null: its lock is released before borrow locks again.
BorrowExhausted(t) ==
    /\ MayBorrow(t)
    /\ FreeHolders = {}
    /\ size >= maxSize
    /\ Goto(t, "unlocked")
    /\ borrows' = [borrows EXCEPT ![t] = @ - 1]
    /\ UNCHANGED <<initialSize, maxSize, size, holders, held, wanted, server,
                   unannounced>>

\* cv_.wait with its predicate false: asleep.
Sleep(t) ==
    /\ pc[t] \in {"unlocked", "woken"}
    /\ FreeHolders = {}
    /\ Goto(t, "waiting")
    /\ UNCHANGED <<initialSize, maxSize, size, holders, held, wanted, borrows,
                   server, unannounced>>

\* isOK(ping) in borrow's second half.  execute answers TRUE for
\* PGRES_COMMAND_OK alone and SELECT 1 yields PGRES_TUPLES_OK, so a ping of a
\* healthy connection fails too and the connection is made anew.
OKAfterWait(c) == IsOK(c) /\ ~Preping

\* The wait is over: the predicate holds and the first free holder is lent.
BorrowAfterWait(t) ==
    /\ pc[t] \in {"unlocked", "woken"}
    /\ \E i \in FreeHolders :
        /\ IsFirstFree(i)
        /\ \/ OKAfterWait(holders[i].conn) /\ Lend(t, i, holders[i].conn)
           \/ ~OKAfterWait(holders[i].conn) /\ ConnectOK /\ Lend(t, i, "live")
    /\ Goto(t, "run")
    /\ UNCHANGED <<initialSize, maxSize, wanted, borrows, server, unannounced>>

\* The ping cannot be sent (executeAsyncQuery closes the connection), or the
\* reconnect fails: the exception leaves borrow, the holder stays free, and
\* the wake-up this thread consumed is not passed on.
BorrowAfterWaitThrows(t) ==
    /\ pc[t] \in {"unlocked", "woken"}
    /\ \E i \in FreeHolders :
        /\ IsFirstFree(i)
        /\ \/ /\ ~OKAfterWait(holders[i].conn)
              /\ ConnectThrows
              /\ UNCHANGED holders
           \/ /\ Preping /\ holders[i].conn = "stale"
              /\ holders' = [holders EXCEPT ![i].conn = "closed"]
    /\ Goto(t, "run")
    /\ unannounced' = IF pc[t] = "woken" THEN unannounced + 1 ELSE unannounced
    /\ UNCHANGED <<initialSize, maxSize, size, held, wanted, borrows, server>>

\* A condition variable may wake a sleeper for no reason.
SpuriousWakeup(t) ==
    /\ pc[t] = "waiting"
    /\ Goto(t, "woken")
    /\ UNCHANGED <<initialSize, maxSize, size, holders, held, wanted, borrows,
                   server, unannounced>>

-----------------------------------------------------------------------------
(* ~handle, the connection under a handle, registerPool, the server *)

\* Mutant: the handle dies and its holder stays taken.
GiveBackUnmarked(t, i) ==
    /\ pc[t] = "run"
    /\ i \in held[t]
    /\ held' = [held EXCEPT ![t] = @ \ {i}]
    /\ Goto(t, "notifying")
    /\ UNCHANGED <<initialSize, maxSize, size, holders, wanted, borrows, server,
                   unannounced>>

\* give_back, up to the end of its critical section.
GiveBack(t, i) ==
    /\ pc[t] = "run"
    /\ i \in held[t]
    /\ holders' = [holders EXCEPT ![i].is_free = TRUE]
    /\ held' = [held EXCEPT ![t] = @ \ {i}]
    /\ Goto(t, "notifying")
    /\ UNCHANGED <<initialSize, maxSize, size, wanted, borrows, server,
                   unannounced>>

\* Mutant: give_back notifies nobody.
NotifyNobody(t) ==
    /\ pc[t] = "notifying"
    /\ Goto(t, "run")
    /\ UNCHANGED <<initialSize, maxSize, size, holders, held, wanted, borrows,
                   server, unannounced>>

\* cv_.notify_one, which is lost when nobody sleeps.
NotifyOne(t) ==
    /\ pc[t] = "notifying"
    /\ \/ /\ At("waiting") = {}
          /\ Goto(t, "run")
       \/ \E w \in At("waiting") :
              pc' = [pc EXCEPT ![t] = "run", ![w] = "woken"]
    /\ UNCHANGED <<initialSize, maxSize, size, holders, held, wanted, borrows,
                   server, unannounced>>

\* The owner uses its connection: a query that fails leaves it bad or closed,
\* and the datasource constructor, abort and ~postgis_datasource close it.
UseConnection(t, i) ==
    /\ pc[t] = "run"
    /\ i \in held[t]
    /\ \/ holders' = [holders EXCEPT ![i].conn = "closed"]
       \/ /\ holders[i].conn = "stale"
          /\ holders' = [holders EXCEPT ![i].conn = "bad"]
    /\ UNCHANGED <<initialSize, maxSize, size, held, pc, wanted, borrows,
                   server, unannounced>>

\* grow(n): holders up to n and max_size_, fewer when the creator throws.
\* The new holders are free and nobody is notified of them.
GrowBy(k) ==
    /\ size' = size + k
    /\ holders' = [i \in 1..size + k |->
                     IF i \in 1..size THEN holders[i] ELSE FreshHolder]
    /\ k = 0 \/ ConnectOK
    /\ unannounced' = unannounced + k

\* registerPool for a known pool, under the manager's mutex: first
\* set_initial_size, bounded by the max_size_ of the earlier registrations.
SetInitialSize(t, c) ==
    /\ pc[t] = "run"
    /\ At("raising") = {}
    /\ \/ /\ c.initial <= initialSize
          /\ UNCHANGED poolVars
          /\ UNCHANGED unannounced
          /\ Goto(t, "raising")
          /\ wanted' = [wanted EXCEPT ![t] = c.max]
       \/ /\ c.initial > initialSize
          /\ initialSize' = c.initial
          /\ UNCHANGED maxSize
          /\ LET missing == Larger(Smaller(c.initial, maxSize) - size, 0) IN
             \/ /\ GrowBy(missing)
                /\ Goto(t, "raising")
                /\ wanted' = [wanted EXCEPT ![t] = c.max]
             \/ /\ ConnectThrows
                /\ \E k \in 0..missing - 1 : GrowBy(k)
                /\ UNCHANGED <<pc, wanted>>
    /\ UNCHANGED <<held, borrows, server>>

\* ... then set_max_size, which never lowers it and wakes nobody.
SetMaxSize(t) ==
    /\ pc[t] = "raising"
    /\ maxSize' = Larger(maxSize, wanted[t])
    /\ wanted' = [wanted EXCEPT ![t] = 0]
    /\ Goto(t, "run")
    /\ UNCHANGED <<initialSize, size, holders, held, borrows, server,
                   unannounced>>

\* The server stops: the connections are lost, and libpq does not know yet.
ServerStops ==
    /\ ServerMayFail
    /\ server = "up"
    /\ server' = "down"
    /\ holders' = [i \in 1..size |->
                     IF holders[i].conn = "live"
                     THEN [holders[i] EXCEPT !.conn = "stale"]
                     ELSE holders[i]]
    /\ UNCHANGED <<initialSize, maxSize, size, held, pc, wanted, borrows,
                   unannounced>>

ServerStarts ==
    /\ server = "down"
    /\ server' = "up"
    /\ UNCHANGED <<initialSize, maxSize, size, holders, held, pc, wanted,
                   borrows, unannounced>>

-----------------------------------------------------------------------------
\* What a thread does inside the pool, and never stops half-way through.
PoolStep(t) ==
    \/ Sleep(t) \/ BorrowAfterWait(t) \/ BorrowAfterWaitThrows(t)
    \/ NotifyOne(t) \/ SetMaxSize(t)

Next ==
    \/ \E t \in Threads :
        \/ Borrow(t) \/ BorrowThrows(t) \/ BorrowExhausted(t)
        \/ PoolStep(t) \/ SpuriousWakeup(t)
        \/ \E i \in 1..size : GiveBack(t, i) \/ UseConnection(t, i)
        \/ \E c \in Configs : SetInitialSize(t, c)
    \/ ServerStops \/ ServerStarts

Spec == Init /\ [][Next]_vars

\* A thread scheduled inside the pool goes on (WF), and whatever else it does
\* in between, a thread destroys its handles in the end (SF: they are members
\* of the objects of one rendering).  No thread is obliged to borrow, and no
\* wake-up is favoured.
Fairness ==
    \A t \in Threads :
        /\ WF_vars(PoolStep(t))
        /\ SF_vars(\E i \in 1..size : GiveBack(t, i))

FairSpec == Spec /\ Fairness

-----------------------------------------------------------------------------
\* The abstract pool: a handle is a loan, holders are numbered connections.
Loans == {loan \in Threads \X (1..size) : loan[2] \in held[loan[1]]}
Abstract == INSTANCE LendingPool
                WITH cap <- maxSize, slots <- size, loans <- Loans

(* Properties *)

\* The pool implements the abstract lending pool: whatever its flags, mutex
\* and condition variable do, a step of it is a loan of a connection nobody
\* has, of a new one when all are lent, a return, a growth, or nothing.
LendsAsPromised == Abstract!Spec

\* Types of the variables, and the deque's indices.
TypeOK ==
    /\ initialSize \in Nat
    /\ maxSize \in Nat
    /\ size \in Nat
    /\ holders \in [1..size -> Holder]
    /\ held \in [Threads -> SUBSET (1..size)]
    /\ pc \in [Threads -> PCs]
    /\ wanted \in [Threads -> Nat]
    /\ borrows \in [Threads -> Nat]
    /\ server \in {"up", "down"}
    /\ unannounced \in Nat

\* No connection is ever behind the handles of two threads, and is_free tells
\* exactly whether a handle is alive, whatever order borrow, give_back and
\* grow run in (connection_pool.hpp, handle and give_back).
ExclusiveLending ==
    /\ \A t, u \in Threads : t # u => held[t] \cap held[u] = {}
    /\ \A i \in 1..size :
           holders[i].is_free <=> \A t \in Threads : i \notin held[t]

\* The pool never has more connections than max_size_, through try_borrow's
\* growth, set_initial_size and a registration that arrives in between.
WithinMaxSize == size <= maxSize

\* A free holder is never left beside a sleeping thread without a wake-up on
\* its way: as many notify_one calls are due or delivered as holders are free,
\* but for those that grow added silently and those whose wake-up was spent
\* by a thread that left borrow with an exception.
NoLostWakeup ==
    At("waiting") # {} =>
        Cardinality(FreeHolders) <=
            Cardinality(At("notifying")) + Cardinality(At("woken")) + unannounced

\* The rule stated in postgis_datasource.cpp (max_size is max_async_connection
\* times the number of threads) is enough: in a pool that may be as large, no
\* call of borrow begins to wait, whatever was registered before.
Blocked(t) == pc[t] \in {"unlocked", "waiting", "woken"}
Demand == Cardinality(Threads) * MaxHeld
NobodyBlocks ==
    [][\A t \in Threads : Blocked(t)' /\ ~Blocked(t) => maxSize < Demand]_vars

\* Nobody reconnects a connection that is behind somebody's handle: while it
\* is lent it can only get worse.
Rank(c) == CASE c = "live" -> 0 [] c = "stale" -> 1 [] c = "bad" -> 2
             [] c = "closed" -> 3
LentConnectionKept ==
    [][\A t \in Threads : \A i \in held[t] \cap held'[t] :
           Rank(holders[i].conn) <= Rank(holders'[i].conn)]_vars

\* A thread asleep in borrow comes back, with a handle or an exception, when
\* the others give theirs back (each thread one handle at a time), although
\* they may go on borrowing.
SleeperReturns ==
    \A t \in Threads : pc[t] = "waiting" ~> pc[t] = "run"
=============================================================================
