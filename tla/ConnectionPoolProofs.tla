------------------------ MODULE ConnectionPoolProofs ------------------------
(***************************************************************************)
(* Proofs about ConnectionPool for any number of threads, any registered   *)
(* sizes and any number of calls.                                          *)
(***************************************************************************)
EXTENDS ConnectionPool, FiniteSetTheorems, TLAPS

\* The inductive invariant.  ExclusiveLending needs the types (a new holder
\* has an index nobody can hold), WithinMaxSize needs them for arithmetic.
IInv == TypeOK /\ ExclusiveLending /\ WithinMaxSize

\* The pool starts in the invariant, whichever datasource registers it.
LEMMA InitIInv == Init => IInv
<1>1. SUFFICES ASSUME Init PROVE IInv
  OBVIOUS
<1>2. PICK c \in Configs :
        /\ initialSize = c.initial
        /\ maxSize = c.max
        /\ size = Smaller(c.initial, c.max)
        /\ holders = [i \in 1..size |-> FreshHolder]
  BY <1>1 DEF Init
<1>3. c.initial \in Nat /\ c.max \in Nat
  BY ConfigsAssumption
<1>4. size \in Nat /\ size <= maxSize
  BY <1>2, <1>3 DEF Smaller
<1>5. TypeOK
  BY <1>1, <1>2, <1>3, <1>4, BoundsAssumption
  DEF Init, TypeOK, FreshHolder, Holder, ConnStates, PCs
<1>6. ExclusiveLending
  BY <1>1, <1>2 DEF Init, ExclusiveLending, FreshHolder
<1>7. QED
  BY <1>4, <1>5, <1>6 DEF IInv, WithinMaxSize

\* The part of the invariant about handles and flags.
LendingInv ==
    /\ size \in Nat
    /\ holders \in [1..size -> Holder]
    /\ held \in [Threads -> SUBSET (1..size)]
    /\ ExclusiveLending

\* Lending a free holder keeps it: nobody else can have a handle on it.
LEMMA LendKeeps ==
    ASSUME IInv, NEW t \in Threads, NEW i \in FreeHolders,
           NEW c \in ConnStates, Lend(t, i, c)
    PROVE  LendingInv'
<1>1. i \in 1..size /\ holders[i].is_free
  BY DEF FreeHolders
<1>2. size' = size
  BY DEF Lend
<1>3. holders' \in [1..size -> Holder]
  BY <1>1 DEF IInv, TypeOK, Lend, Holder
<1>4. held' \in [Threads -> SUBSET (1..size)]
  BY <1>1 DEF IInv, TypeOK, Lend
<1>5. \A u \in Threads : i \notin held[u]
  BY <1>1 DEF IInv, ExclusiveLending
<1>6. ASSUME NEW u \in Threads, NEW v \in Threads, u # v
      PROVE  held'[u] \cap held'[v] = {}
  BY <1>5, <1>6 DEF IInv, TypeOK, ExclusiveLending, Lend
<1>7. ASSUME NEW j \in 1..size
      PROVE  holders'[j].is_free <=> \A u \in Threads : j \notin held'[u]
  <2>1. CASE j = i
    <3>1. holders'[j].is_free = FALSE
      BY <1>1, <2>1 DEF IInv, TypeOK, Lend
    <3>2. j \in held'[t]
      BY <2>1 DEF IInv, TypeOK, Lend
    <3>3. QED
      BY <3>1, <3>2
  <2>2. CASE j # i
    <3>1. holders'[j] = holders[j]
      BY <2>2 DEF IInv, TypeOK, Lend
    <3>2. \A u \in Threads : j \in held'[u] <=> j \in held[u]
      BY <2>2 DEF IInv, TypeOK, Lend
    <3>3. QED
      BY <3>1, <3>2, <1>7 DEF IInv, ExclusiveLending
  <2>3. QED
    BY <2>1, <2>2
<1>8. QED
  BY <1>2, <1>3, <1>4, <1>6, <1>7 DEF LendingInv, ExclusiveLending, IInv, TypeOK

\* Lending a holder made on the spot keeps it: its index is beyond the deque,
\* so no handle names it.
LEMMA LendNewKeeps ==
    ASSUME IInv, NEW t \in Threads, LendNew(t)
    PROVE  LendingInv'
<1>1. size \in Nat /\ size' = size + 1 /\ size + 1 \in Nat
  BY DEF IInv, TypeOK, LendNew
<1>2. size + 1 \notin 1..size /\ 1..size \subseteq 1..size + 1
      /\ size + 1 \in 1..size + 1
  BY <1>1
<1>3. \A u \in Threads : held[u] \subseteq 1..size
  BY DEF IInv, TypeOK
<1>4. holders' \in [1..size' -> Holder]
  BY <1>1, <1>2 DEF IInv, TypeOK, LendNew, Holder, ConnStates
<1>5. held' \in [Threads -> SUBSET (1..size')]
  BY <1>1, <1>2, <1>3 DEF IInv, TypeOK, LendNew
<1>6. ASSUME NEW u \in Threads, NEW v \in Threads, u # v
      PROVE  held'[u] \cap held'[v] = {}
  BY <1>2, <1>3, <1>6 DEF IInv, TypeOK, ExclusiveLending, LendNew
<1>7. ASSUME NEW j \in 1..size'
      PROVE  holders'[j].is_free <=> \A u \in Threads : j \notin held'[u]
  <2>1. CASE j = size + 1
    <3>1. holders'[j].is_free = FALSE
      BY <1>2, <2>1 DEF LendNew
    <3>2. j \in held'[t]
      BY <2>1 DEF IInv, TypeOK, LendNew
    <3>3. QED
      BY <3>1, <3>2
  <2>2. CASE j # size + 1
    <3>1. j \in 1..size
      BY <1>1, <2>2
    <3>2. holders'[j] = holders[j]
      BY <1>1, <3>1 DEF LendNew
    <3>3. \A u \in Threads : j \in held'[u] <=> j \in held[u]
      BY <2>2 DEF IInv, TypeOK, LendNew
    <3>4. QED
      BY <3>1, <3>2, <3>3 DEF IInv, ExclusiveLending
  <2>3. QED
    BY <2>1, <2>2
<1>8. QED
  BY <1>1, <1>4, <1>5, <1>6, <1>7 DEF LendingInv, ExclusiveLending

\* Giving a holder back keeps it: its owner was the only one.
LEMMA GiveBackKeeps ==
    ASSUME IInv, NEW t \in Threads, NEW i \in 1..size, GiveBack(t, i)
    PROVE  LendingInv'
<1>1. size' = size /\ i \in held[t]
  BY DEF GiveBack
<1>2. holders' \in [1..size -> Holder]
  BY DEF IInv, TypeOK, GiveBack, Holder
<1>3. held' \in [Threads -> SUBSET (1..size)]
  BY DEF IInv, TypeOK, GiveBack
<1>4. \A u \in Threads : i \notin held'[u]
  BY <1>1 DEF IInv, TypeOK, ExclusiveLending, GiveBack
<1>5. ASSUME NEW u \in Threads, NEW v \in Threads, u # v
      PROVE  held'[u] \cap held'[v] = {}
  BY <1>5 DEF IInv, TypeOK, ExclusiveLending, GiveBack
<1>6. ASSUME NEW j \in 1..size
      PROVE  holders'[j].is_free <=> \A u \in Threads : j \notin held'[u]
  <2>1. CASE j = i
    <3>1. holders'[j].is_free = TRUE
      BY <2>1 DEF IInv, TypeOK, GiveBack, Holder
    <3>2. QED
      BY <2>1, <3>1, <1>4
  <2>2. CASE j # i
    <3>1. holders'[j] = holders[j]
      BY <2>2 DEF IInv, TypeOK, GiveBack
    <3>2. \A u \in Threads : j \in held'[u] <=> j \in held[u]
      BY <2>2 DEF IInv, TypeOK, GiveBack
    <3>3. QED
      BY <3>1, <3>2, <1>6 DEF IInv, ExclusiveLending
  <2>3. QED
    BY <2>1, <2>2
<1>7. QED
  BY <1>1, <1>2, <1>3, <1>5, <1>6 DEF LendingInv, ExclusiveLending, IInv, TypeOK

\* Replacing the connection of one holder leaves a deque of holders, with the
\* flags they had.
LEMMA ReplaceConn ==
    ASSUME IInv, NEW i \in 1..size, NEW c \in ConnStates,
           holders' = [holders EXCEPT ![i].conn = c]
    PROVE  /\ holders' \in [1..size -> Holder]
           /\ \A j \in 1..size : holders'[j].is_free = holders[j].is_free
<1>1. holders \in [1..size -> Holder]
  BY DEF IInv, TypeOK
<1>2. \A h \in Holder : /\ [h EXCEPT !.conn = c] \in Holder
                        /\ [h EXCEPT !.conn = c].is_free = h.is_free
  BY DEF Holder
<1>3. holders' = [holders EXCEPT ![i] = [holders[i] EXCEPT !.conn = c]]
  OBVIOUS
<1>4. QED
  BY <1>1, <1>2, <1>3

\* A step that changes connections only, and neither flags nor handles.
LEMMA ReconnectKeeps ==
    ASSUME IInv, size' = size, held' = held,
           holders' \in [1..size -> Holder],
           \A i \in 1..size : holders'[i].is_free = holders[i].is_free
    PROVE  LendingInv'
  BY DEF IInv, TypeOK, ExclusiveLending, LendingInv

\* Growing the deque with free holders.
LEMMA GrowKeeps ==
    ASSUME IInv, NEW k \in Nat, GrowBy(k), held' = held
    PROVE  LendingInv'
<1>1. size \in Nat /\ size' = size + k /\ size' \in Nat
      /\ 1..size \subseteq 1..size'
  BY DEF IInv, TypeOK, GrowBy
<1>2. holders' \in [1..size' -> Holder]
  BY <1>1 DEF IInv, TypeOK, GrowBy, FreshHolder, Holder, ConnStates
<1>3. \A u \in Threads : held[u] \subseteq 1..size
  BY DEF IInv, TypeOK
<1>4. held' \in [Threads -> SUBSET (1..size')]
  BY <1>1 DEF IInv, TypeOK
<1>5. ASSUME NEW j \in 1..size'
      PROVE  holders'[j].is_free <=> \A u \in Threads : j \notin held'[u]
  <2>1. CASE j \in 1..size
    BY <1>1, <2>1 DEF GrowBy, IInv, ExclusiveLending
  <2>2. CASE j \notin 1..size
    <3>1. holders'[j].is_free = TRUE
      BY <1>1, <2>2 DEF GrowBy, FreshHolder
    <3>2. QED
      BY <3>1, <1>3, <2>2
  <2>3. QED
    BY <2>1, <2>2
<1>6. QED
  BY <1>1, <1>2, <1>4, <1>5 DEF LendingInv, ExclusiveLending, IInv

\* What the lending lemmas leave: the other variables, and the bound.
LEMMA Rest ==
    ASSUME LendingInv', maxSize' \in Nat, size' <= maxSize',
           initialSize' \in Nat, pc' \in [Threads -> PCs],
           wanted' \in [Threads -> Nat], borrows' \in [Threads -> Nat],
           server' \in {"up", "down"}, unannounced' \in Nat
    PROVE  IInv'
  BY DEF IInv, LendingInv, TypeOK, WithinMaxSize

\* The connection LendFree hands out is of the right kind.
LEMMA LendFreeKeeps ==
    ASSUME IInv, NEW t \in Threads, LendFree(t)
    PROVE  LendingInv' /\ size' = size
<1>1. PICK i \in FreeHolders :
        \/ IsOK(holders[i].conn) /\ Lend(t, i, holders[i].conn)
        \/ ~IsOK(holders[i].conn) /\ Lend(t, i, "live")
  BY DEF LendFree
<1>2. holders[i].conn \in ConnStates /\ "live" \in ConnStates
  BY DEF IInv, TypeOK, Holder, ConnStates, FreeHolders
<1>3. QED
  BY <1>1, <1>2, LendKeeps DEF Lend

\* The invariant is inductive: one case per action.
LEMMA StepIInv == IInv /\ [Next]_vars => IInv'
<1> SUFFICES ASSUME IInv, [Next]_vars PROVE IInv'
  OBVIOUS
<1> USE DEF PCs
<1>0. /\ initialSize \in Nat /\ maxSize \in Nat /\ size \in Nat
      /\ size <= maxSize /\ unannounced \in Nat
      /\ pc \in [Threads -> PCs] /\ wanted \in [Threads -> Nat]
      /\ borrows \in [Threads -> Nat] /\ server \in {"up", "down"}
  BY DEF IInv, TypeOK, WithinMaxSize
<1>1. LendingInv
  BY DEF IInv, TypeOK, LendingInv
<1>2. ASSUME NEW t \in Threads, Borrow(t) PROVE IInv'
  <2>1. LendingInv' /\ size' <= maxSize
    <3>1. CASE LendFree(t)
      BY <1>0, <3>1, LendFreeKeeps
    <3>2. CASE LendNew(t)
      <4>1. size' = size + 1 /\ size < maxSize
        BY <3>2 DEF LendNew
      <4>2. QED
        BY <1>0, <3>2, <4>1, LendNewKeeps
    <3>3. QED
      BY <1>2, <3>1, <3>2 DEF Borrow
  <2>2. borrows' \in [Threads -> Nat]
    BY <1>0, <1>2 DEF Borrow, MayBorrow
  <2>3. QED
    BY <1>0, <1>2, <2>1, <2>2, Rest DEF Borrow
<1>3. ASSUME NEW t \in Threads, BorrowThrows(t) \/ BorrowExhausted(t)
      PROVE  IInv'
  <2>1. LendingInv'
    BY <1>1, <1>3 DEF BorrowThrows, BorrowExhausted, LendingInv, ExclusiveLending
  <2>2. borrows' \in [Threads -> Nat] /\ pc' \in [Threads -> PCs]
    BY <1>0, <1>3 DEF BorrowThrows, BorrowExhausted, MayBorrow, Goto
  <2>3. QED
    BY <1>0, <1>3, <2>1, <2>2, Rest DEF BorrowThrows, BorrowExhausted
<1>4. ASSUME NEW t \in Threads, Sleep(t) \/ SpuriousWakeup(t)
      PROVE  IInv'
  <2>1. LendingInv'
    BY <1>1, <1>4 DEF Sleep, SpuriousWakeup, LendingInv, ExclusiveLending
  <2>2. pc' \in [Threads -> PCs]
    BY <1>0, <1>4 DEF Sleep, SpuriousWakeup, Goto
  <2>3. QED
    BY <1>0, <1>4, <2>1, <2>2, Rest DEF Sleep, SpuriousWakeup
<1>5. ASSUME NEW t \in Threads, BorrowAfterWait(t) PROVE IInv'
  <2>1. PICK i \in FreeHolders :
          Lend(t, i, holders[i].conn) \/ Lend(t, i, "live")
    BY <1>5 DEF BorrowAfterWait
  <2>2. holders[i].conn \in ConnStates /\ "live" \in ConnStates
    BY DEF IInv, TypeOK, Holder, ConnStates, FreeHolders
  <2>3. LendingInv' /\ size' = size
    BY <2>1, <2>2, LendKeeps DEF Lend
  <2>4. pc' \in [Threads -> PCs]
    BY <1>0, <1>5 DEF BorrowAfterWait, Goto
  <2>5. QED
    BY <1>0, <1>5, <2>3, <2>4, Rest DEF BorrowAfterWait
<1>6. ASSUME NEW t \in Threads, BorrowAfterWaitThrows(t) PROVE IInv'
  <2>1. holders' = holders \/
        \E i \in 1..size : holders' = [holders EXCEPT ![i].conn = "closed"]
    BY <1>6 DEF BorrowAfterWaitThrows, FreeHolders
  <2>2. /\ holders' \in [1..size -> Holder]
        /\ \A i \in 1..size : holders'[i].is_free = holders[i].is_free
    BY <1>1, <2>1, ReplaceConn DEF LendingInv, ConnStates
  <2>3. LendingInv'
    BY <1>6, <2>2, ReconnectKeeps DEF BorrowAfterWaitThrows
  <2>4. pc' \in [Threads -> PCs] /\ unannounced' \in Nat
    BY <1>0, <1>6 DEF BorrowAfterWaitThrows, Goto
  <2>5. QED
    BY <1>0, <1>6, <2>3, <2>4, Rest DEF BorrowAfterWaitThrows
<1>7. ASSUME NEW t \in Threads, NEW i \in 1..size, GiveBack(t, i)
      PROVE  IInv'
  <2>1. LendingInv'
    BY <1>7, GiveBackKeeps
  <2>2. pc' \in [Threads -> PCs]
    BY <1>0, <1>7 DEF GiveBack, Goto
  <2>3. QED
    BY <1>0, <1>7, <2>1, <2>2, Rest DEF GiveBack
<1>8. ASSUME NEW t \in Threads, NotifyOne(t) PROVE IInv'
  <2>1. LendingInv'
    BY <1>1, <1>8 DEF NotifyOne, LendingInv, ExclusiveLending
  <2>2. pc' \in [Threads -> PCs]
    BY <1>0, <1>8 DEF NotifyOne, Goto
  <2>3. QED
    BY <1>0, <1>8, <2>1, <2>2, Rest DEF NotifyOne
<1>9. ASSUME NEW t \in Threads, NEW i \in 1..size, UseConnection(t, i)
      PROVE  IInv'
  <2>1. \/ holders' = [holders EXCEPT ![i].conn = "closed"]
        \/ holders' = [holders EXCEPT ![i].conn = "bad"]
    BY <1>9 DEF UseConnection
  <2>2. /\ holders' \in [1..size -> Holder]
        /\ \A j \in 1..size : holders'[j].is_free = holders[j].is_free
    BY <2>1, ReplaceConn DEF ConnStates
  <2>3. LendingInv'
    BY <1>9, <2>2, ReconnectKeeps DEF UseConnection
  <2>4. QED
    BY <1>0, <1>9, <2>3, Rest DEF UseConnection
<1>10. ASSUME NEW t \in Threads, NEW c \in Configs, SetInitialSize(t, c)
       PROVE  IInv'
  <2>1. c.initial \in Nat /\ c.max \in Nat
    BY ConfigsAssumption
  <2>2. pc' \in [Threads -> PCs] /\ wanted' \in [Threads -> Nat]
    BY <1>0, <1>10, <2>1 DEF SetInitialSize, Goto
  <2>3. CASE c.initial <= initialSize
    <3>1. UNCHANGED <<poolVars, held, unannounced>>
      BY <1>10, <2>1, <2>3, <1>0 DEF SetInitialSize
    <3>2. LendingInv'
      BY <1>1, <3>1 DEF LendingInv, ExclusiveLending, poolVars
    <3>3. QED
      BY <1>0, <1>10, <2>2, <3>1, <3>2, Rest DEF SetInitialSize, poolVars
  <2>4. CASE c.initial > initialSize
    <3> DEFINE missing == Larger(Smaller(c.initial, maxSize) - size, 0)
    <3>1. missing \in Nat /\ size + missing <= maxSize
      BY <1>0, <2>1 DEF Larger, Smaller
    <3>2. PICK k \in 0..missing : GrowBy(k)
      BY <1>0, <1>10, <2>1, <2>4, <3>1 DEF SetInitialSize
    <3>3. k \in Nat /\ size + k <= maxSize
      BY <1>0, <3>1
    <3>4. LendingInv'
      BY <1>10, <3>2, <3>3, GrowKeeps DEF SetInitialSize
    <3>5. size' <= maxSize /\ unannounced' \in Nat
      BY <1>0, <3>2, <3>3 DEF GrowBy
    <3>6. maxSize' = maxSize /\ initialSize' = c.initial
      BY <1>0, <1>10, <2>1, <2>4 DEF SetInitialSize
    <3>7. QED
      BY <1>0, <1>10, <2>1, <2>2, <3>4, <3>5, <3>6, Rest DEF SetInitialSize
  <2>5. QED
    BY <1>0, <2>1, <2>3, <2>4
<1>11. ASSUME NEW t \in Threads, SetMaxSize(t) PROVE IInv'
  <2>1. LendingInv'
    BY <1>1, <1>11 DEF SetMaxSize, LendingInv, ExclusiveLending
  <2>2. maxSize' \in Nat /\ maxSize <= maxSize'
    BY <1>0, <1>11 DEF SetMaxSize, Larger
  <2>3. pc' \in [Threads -> PCs] /\ wanted' \in [Threads -> Nat]
    BY <1>0, <1>11 DEF SetMaxSize, Goto
  <2>4. QED
    BY <1>0, <1>11, <2>1, <2>2, <2>3, Rest DEF SetMaxSize
<1>12. ASSUME ServerStops \/ ServerStarts PROVE IInv'
  <2>1. /\ holders' \in [1..size -> Holder]
        /\ \A i \in 1..size : holders'[i].is_free = holders[i].is_free
    BY <1>1, <1>12 DEF ServerStops, ServerStarts, LendingInv, Holder, ConnStates
  <2>2. LendingInv'
    BY <1>12, <2>1, ReconnectKeeps DEF ServerStops, ServerStarts
  <2>3. QED
    BY <1>0, <1>12, <2>2, Rest DEF ServerStops, ServerStarts
<1>13. CASE UNCHANGED vars
  <2>1. LendingInv'
    BY <1>1, <1>13 DEF LendingInv, ExclusiveLending, vars
  <2>2. QED
    BY <1>0, <1>13, <2>1, Rest DEF vars
<1>14. QED
  BY <1>2, <1>3, <1>4, <1>5, <1>6, <1>7, <1>8, <1>9, <1>10, <1>11, <1>12, <1>13
  DEF Next, PoolStep

\* Every reachable state satisfies the invariant.
THEOREM Invariance == Spec => []IInv
<1>1. QED
  BY InitIInv, StepIInv, PTL DEF Spec

\* The variables keep their types, and every handle names a holder.
THEOREM TypeCorrect == Spec => []TypeOK
<1>1. IInv => TypeOK
  BY DEF IInv
<1>2. QED
  BY <1>1, Invariance, PTL

\* No connection is lent twice, and is_free tells the truth, for any number
\* of threads, sizes and registrations.
THEOREM LendsOnce == Spec => []ExclusiveLending
<1>1. IInv => ExclusiveLending
  BY DEF IInv
<1>2. QED
  BY <1>1, Invariance, PTL

\* The pool never outgrows max_size_, although registerPool grows it first
\* and raises max_size_ afterwards.
THEOREM NeverOutgrows == Spec => []WithinMaxSize
<1>1. IInv => WithinMaxSize
  BY DEF IInv
<1>2. QED
  BY <1>1, Invariance, PTL

-----------------------------------------------------------------------------
(* A lent connection is left alone *)

KeepsLent ==
    \A t \in Threads : \A i \in held[t] \cap held'[t] :
        Rank(holders[i].conn) <= Rank(holders'[i].conn)

\* The order in which connections get worse.
LEMMA RankValues ==
    /\ Rank("live") = 0 /\ Rank("stale") = 1 /\ Rank("bad") = 2
    /\ Rank("closed") = 3
    /\ \A c \in ConnStates : Rank(c) \in 0..3
  BY DEF ConnStates, Rank

\* It is enough that a step reconnects free holders only.
LEMMA KeepsLentIf ==
    ASSUME IInv,
           \A i \in 1..size :
               \/ holders[i].is_free
               \/ holders'[i].conn = holders[i].conn
               \/ holders'[i].conn = "closed"
               \/ holders[i].conn = "stale" /\ holders'[i].conn = "bad"
               \/ holders[i].conn = "live" /\ holders'[i].conn = "stale"
    PROVE  KeepsLent
<1>1. SUFFICES ASSUME NEW t \in Threads, NEW i \in held[t]
               PROVE  Rank(holders[i].conn) <= Rank(holders'[i].conn)
  BY DEF KeepsLent
<1>2. i \in 1..size /\ ~holders[i].is_free
  BY DEF IInv, TypeOK, ExclusiveLending
<1>3. holders[i].conn \in ConnStates
  BY <1>2 DEF IInv, TypeOK, Holder
<1>4. Rank(holders[i].conn) \in 0..3
  BY <1>3, RankValues
<1>5. QED
  BY <1>2, <1>4, RankValues

\* No step improves a connection behind a handle: one case per action that
\* touches connections.
LEMMA StepKeepsLent == IInv /\ [Next]_vars => KeepsLent
<1> SUFFICES ASSUME IInv, [Next]_vars PROVE KeepsLent
  OBVIOUS
<1>0. size \in Nat /\ holders \in [1..size -> Holder]
  BY DEF IInv, TypeOK
<1>1. ASSUME NEW t \in Threads, NEW i \in FreeHolders,
             NEW c \in ConnStates, Lend(t, i, c)
      PROVE  KeepsLent
  BY <1>0, <1>1, KeepsLentIf DEF Lend, FreeHolders
<1>2. ASSUME \A i \in 1..size : holders'[i] = holders[i]
      PROVE  KeepsLent
  BY <1>2, KeepsLentIf
<1>3. ASSUME NEW i \in FreeHolders,
             holders' = [holders EXCEPT ![i].conn = "closed"]
      PROVE  KeepsLent
  BY <1>0, <1>3, KeepsLentIf DEF FreeHolders
<1>4. \A i \in 1..size : holders[i].conn \in ConnStates
  BY <1>0 DEF Holder
<1>5. "live" \in ConnStates
  BY DEF ConnStates
<1>6. ASSUME NEW t \in Threads, Borrow(t) PROVE KeepsLent
  <2>1. CASE LendFree(t)
    BY <1>1, <1>4, <1>5, <2>1 DEF LendFree, FreeHolders
  <2>2. CASE LendNew(t)
    BY <1>0, <2>2, KeepsLentIf DEF LendNew
  <2>3. QED
    BY <1>6, <2>1, <2>2 DEF Borrow
<1>7. ASSUME NEW t \in Threads, BorrowAfterWait(t) PROVE KeepsLent
  BY <1>1, <1>4, <1>5, <1>7 DEF BorrowAfterWait, FreeHolders
<1>8. ASSUME NEW t \in Threads, BorrowAfterWaitThrows(t) PROVE KeepsLent
  BY <1>3, <1>8, KeepsLentIf DEF BorrowAfterWaitThrows
<1>9. ASSUME NEW t \in Threads, NEW i \in 1..size, GiveBack(t, i)
      PROVE  KeepsLent
  BY <1>0, <1>9, KeepsLentIf DEF GiveBack
<1>10. ASSUME NEW t \in Threads, NEW i \in 1..size, UseConnection(t, i)
       PROVE  KeepsLent
  <2>1. CASE holders' = [holders EXCEPT ![i].conn = "closed"]
    BY <1>0, <2>1, KeepsLentIf
  <2>2. CASE /\ holders[i].conn = "stale"
             /\ holders' = [holders EXCEPT ![i].conn = "bad"]
    BY <1>0, <2>2, KeepsLentIf
  <2>3. QED
    BY <1>10, <2>1, <2>2 DEF UseConnection
<1>11. ASSUME NEW t \in Threads, NEW c \in Configs, SetInitialSize(t, c)
       PROVE  KeepsLent
  <2>1. \/ holders' = holders
        \/ \E k \in Nat : GrowBy(k)
    <3>1. c.initial \in Nat /\ initialSize \in Nat /\ maxSize \in Nat
      BY ConfigsAssumption DEF IInv, TypeOK
    <3>2. CASE c.initial <= initialSize
      BY <1>11, <3>1, <3>2 DEF SetInitialSize, poolVars
    <3>3. CASE c.initial > initialSize
      <4> DEFINE missing == Larger(Smaller(c.initial, maxSize) - size, 0)
      <4>1. missing \in Nat
        BY <1>0, <3>1 DEF Larger, Smaller
      <4>2. \E k \in 0..missing : GrowBy(k)
        BY <1>0, <1>11, <3>1, <3>3, <4>1 DEF SetInitialSize
      <4>3. 0..missing \subseteq Nat
        BY <4>1
      <4>4. QED
        BY <4>2, <4>3
    <3>4. QED
      BY <3>1, <3>2, <3>3
  <2>2. ASSUME NEW k \in Nat, GrowBy(k)
        PROVE  \A i \in 1..size : holders'[i] = holders[i]
    BY <1>0, <2>2 DEF GrowBy
  <2>3. QED
    BY <2>1, <2>2, KeepsLentIf
<1>12. ASSUME ServerStops PROVE KeepsLent
  BY <1>0, <1>12, KeepsLentIf DEF ServerStops
<1>13. ASSUME UNCHANGED holders PROVE KeepsLent
  BY <1>13, KeepsLentIf
<1>14. ASSUME NEW t \in Threads,
              \/ BorrowThrows(t) \/ BorrowExhausted(t) \/ Sleep(t)
              \/ SpuriousWakeup(t) \/ NotifyOne(t) \/ SetMaxSize(t)
       PROVE  UNCHANGED holders
  BY <1>14 DEF BorrowThrows, BorrowExhausted, Sleep, SpuriousWakeup,
               NotifyOne, SetMaxSize
<1>15. CASE ServerStarts \/ UNCHANGED vars
  BY <1>13, <1>15 DEF ServerStarts, vars
<1>16. QED
  BY <1>6, <1>7, <1>8, <1>9, <1>10, <1>11, <1>12, <1>13, <1>14, <1>15
  DEF Next, PoolStep

\* Nobody reconnects a connection while another thread has a handle on it,
\* although borrow reconnects holders under the mutex only.
THEOREM LentIsLeftAlone == Spec => LentConnectionKept
<1>1. KeepsLent = \A t \in Threads : \A i \in held[t] \cap held'[t] :
                      Rank(holders[i].conn) <= Rank(holders'[i].conn)
  BY DEF KeepsLent
<1>2. IInv /\ [Next]_vars =>
        [\A t \in Threads : \A i \in held[t] \cap held'[t] :
             Rank(holders[i].conn) <= Rank(holders'[i].conn)]_vars
  BY <1>1, StepKeepsLent
<1>3. QED
  BY <1>2, Invariance, PTL DEF Spec, LentConnectionKept

-----------------------------------------------------------------------------
(* The pool implements the abstract lending pool *)

\* Sets of pairs are equal when they have the same pairs.
LEMMA SamePairs ==
    ASSUME NEW A, NEW B, NEW S, NEW R, S \subseteq A \X B, R \subseteq A \X B,
           \A a \in A, b \in B : <<a, b>> \in S <=> <<a, b>> \in R
    PROVE  S = R
<1>1. \A x \in A \X B : x \in S <=> x \in R
  OBVIOUS
<1>2. QED
  BY <1>1

\* Loans are handles.
LEMMA LoansAreHandles ==
    ASSUME TypeOK
    PROVE  /\ Loans \subseteq Threads \X (1..size)
           /\ \A t \in Threads : \A i : <<t, i>> \in Loans <=> i \in held[t]
  BY DEF TypeOK, Loans

\* On loan is the opposite of free.
LEMMA OnLoanIsNotFree ==
    ASSUME IInv
    PROVE  \A i \in 1..size : Abstract!OnLoan(i) <=> ~holders[i].is_free
<1>1. TypeOK
  BY DEF IInv
<1>2. QED
  BY <1>1, LoansAreHandles DEF IInv, ExclusiveLending, Abstract!OnLoan

\* Steps without a change of sizes and handles do not show in the abstraction.
LEMMA Unseen ==
    ASSUME UNCHANGED <<maxSize, size, held>>
    PROVE  UNCHANGED Abstract!vars
  BY DEF Abstract!vars, Loans

\* Lending a free holder is the abstract Lend.
LEMMA LendIsLend ==
    ASSUME IInv, IInv', NEW t \in Threads, NEW i \in FreeHolders, NEW c,
           Lend(t, i, c), UNCHANGED maxSize
    PROVE  Abstract!Lend(t)
<1>1. TypeOK /\ TypeOK'
  BY DEF IInv
<1>2. i \in 1..size /\ ~Abstract!OnLoan(i)
  BY OnLoanIsNotFree DEF FreeHolders
<1>3. \A u \in Threads : held'[u] = IF u = t THEN held[u] \cup {i} ELSE held[u]
  BY <1>1 DEF Lend, TypeOK
<1>4. size' = size
  BY DEF Lend
<1>5. Loans' = Loans \cup {<<t, i>>}
  BY <1>1, <1>2, <1>3, <1>4 DEF Loans, TypeOK
<1>6. QED
  BY <1>2, <1>4, <1>5 DEF Abstract!Lend

\* Lending a new holder is the abstract LendNew.
LEMMA LendNewIsLendNew ==
    ASSUME IInv, IInv', NEW t \in Threads, LendNew(t), UNCHANGED maxSize
    PROVE  Abstract!LendNew(t)
<1>1. TypeOK /\ TypeOK' /\ size \in Nat
  BY DEF IInv, TypeOK
<1>2. \A i \in 1..size : Abstract!OnLoan(i)
  BY OnLoanIsNotFree DEF FreeHolders, LendNew
<1>3. \A u \in Threads :
        held'[u] = IF u = t THEN held[u] \cup {size + 1} ELSE held[u]
  BY <1>1 DEF LendNew, TypeOK
<1>4. size' = size + 1 /\ size < maxSize
  BY DEF LendNew
<1>5. \A u \in Threads : held[u] \subseteq 1..size
  BY <1>1 DEF TypeOK
<1>6. Loans' = Loans \cup {<<t, size + 1>>}
  <2>1. \A u \in Threads, j \in 1..size' :
          <<u, j>> \in Loans' <=> <<u, j>> \in Loans \cup {<<t, size + 1>>}
    <3>1. \A u \in Threads, j \in 1..size' : <<u, j>> \in Loans' <=> j \in held'[u]
      BY DEF Loans
    <3>2. QED
      BY <1>1, <1>3, <3>1, LoansAreHandles
  <2>2. Loans \cup {<<t, size + 1>>} \subseteq Threads \X (1..size')
    BY <1>1, <1>4, LoansAreHandles
  <2>3. Loans' \subseteq Threads \X (1..size')
    BY DEF Loans
  <2>4. QED
    BY <2>1, <2>2, <2>3, SamePairs
<1>7. QED
  BY <1>2, <1>4, <1>6 DEF Abstract!LendNew

\* Destroying a handle is the abstract Return.
LEMMA GiveBackIsReturn ==
    ASSUME IInv, IInv', NEW t \in Threads, NEW i \in 1..size, GiveBack(t, i)
    PROVE  Abstract!Return(t)
<1>1. TypeOK /\ TypeOK'
  BY DEF IInv
<1>2. <<t, i>> \in Loans
  BY <1>1, LoansAreHandles DEF GiveBack
<1>3. \A u \in Threads : held'[u] = IF u = t THEN held[u] \ {i} ELSE held[u]
  BY <1>1 DEF GiveBack, TypeOK
<1>4. size' = size /\ maxSize' = maxSize
  BY DEF GiveBack
<1>5. Loans' = Loans \ {<<t, i>>}
  <2>1. \A u \in Threads, j \in 1..size :
          <<u, j>> \in Loans' <=> <<u, j>> \in Loans \ {<<t, i>>}
    <3>1. \A u \in Threads, j \in 1..size : <<u, j>> \in Loans' <=> j \in held'[u]
      BY <1>4 DEF Loans
    <3>2. QED
      BY <1>1, <1>3, <3>1, LoansAreHandles
  <2>2. Loans \ {<<t, i>>} \subseteq Threads \X (1..size)
    BY <1>1, LoansAreHandles
  <2>3. Loans' \subseteq Threads \X (1..size)
    BY <1>4 DEF Loans
  <2>4. QED
    BY <2>1, <2>2, <2>3, SamePairs
<1>6. QED
  BY <1>2, <1>4, <1>5 DEF Abstract!Return

\* Growing is the abstract Stock: the new connections are nobody's.
LEMMA GrowIsStock ==
    ASSUME IInv, IInv', UNCHANGED <<maxSize, held>>, size <= size'
    PROVE  Abstract!Stock
<1>1. TypeOK /\ TypeOK' /\ size \in Nat /\ size' \in size..maxSize
  BY DEF IInv, TypeOK, WithinMaxSize
<1>2. Loans' = Loans
  BY <1>1 DEF Loans, TypeOK
<1>3. QED
  BY <1>1, <1>2 DEF Abstract!Stock

\* The registration of the first datasource sets up an abstract pool.
LEMMA InitIsInit == Init => Abstract!Init
<1> SUFFICES ASSUME Init PROVE Abstract!Init
  OBVIOUS
<1>1. IInv
  BY InitIInv
<1>2. size \in 0..maxSize /\ maxSize \in Nat
  BY <1>1 DEF IInv, TypeOK, WithinMaxSize
<1>3. Loans = {}
  BY DEF Init, Loans
<1>4. QED
  BY <1>2, <1>3 DEF Abstract!Init

\* Every step is an abstract step, or does not show.
LEMMA StepIsStep ==
    IInv /\ IInv' /\ [Next]_vars => [Abstract!Next]_(Abstract!vars)
<1> SUFFICES ASSUME IInv, IInv', [Next]_vars
             PROVE  Abstract!Next \/ UNCHANGED Abstract!vars
  OBVIOUS
<1> DEFINE Goal == Abstract!Next \/ UNCHANGED Abstract!vars
<1>1. ASSUME NEW t \in Threads, Borrow(t) PROVE Goal
  <2>1. CASE LendFree(t)
    <3>1. Abstract!Lend(t)
      BY <1>1, <2>1, LendIsLend DEF LendFree, Borrow
    <3>2. QED
      BY <3>1 DEF Abstract!Next
  <2>2. CASE LendNew(t)
    <3>1. Abstract!LendNew(t)
      BY <1>1, <2>2, LendNewIsLendNew DEF Borrow
    <3>2. QED
      BY <3>1 DEF Abstract!Next
  <2>3. QED
    BY <1>1, <2>1, <2>2 DEF Borrow
<1>2. ASSUME NEW t \in Threads, BorrowAfterWait(t) PROVE Goal
  <2>1. Abstract!Lend(t)
    BY <1>2, LendIsLend DEF BorrowAfterWait
  <2>2. QED
    BY <2>1 DEF Abstract!Next
<1>3. ASSUME NEW t \in Threads, NEW i \in 1..size, GiveBack(t, i) PROVE Goal
  <2>1. Abstract!Return(t)
    BY <1>3, GiveBackIsReturn
  <2>2. QED
    BY <2>1 DEF Abstract!Next
<1>4. ASSUME NEW t \in Threads, NEW c \in Configs, SetInitialSize(t, c)
      PROVE  Goal
  <2>1. c.initial \in Nat /\ initialSize \in Nat /\ maxSize \in Nat
        /\ size \in Nat
    BY ConfigsAssumption DEF IInv, TypeOK
  <2>2. UNCHANGED <<maxSize, held>> /\ size <= size'
    <3>1. CASE c.initial <= initialSize
      BY <1>4, <2>1, <3>1 DEF SetInitialSize, poolVars
    <3>2. CASE c.initial > initialSize
      <4> DEFINE missing == Larger(Smaller(c.initial, maxSize) - size, 0)
      <4>1. missing \in Nat
        BY <2>1 DEF Larger, Smaller
      <4>2. PICK k \in 0..missing : GrowBy(k)
        BY <1>4, <2>1, <3>2, <4>1 DEF SetInitialSize
      <4>3. size <= size'
        BY <2>1, <4>1, <4>2 DEF GrowBy
      <4>4. QED
        BY <1>4, <2>1, <3>2, <4>3 DEF SetInitialSize
    <3>3. QED
      BY <2>1, <3>1, <3>2
  <2>3. Abstract!Stock
    BY <2>2, GrowIsStock
  <2>4. QED
    BY <2>3 DEF Abstract!Next
<1>5. ASSUME NEW t \in Threads, SetMaxSize(t) PROVE Goal
  <2>1. wanted[t] \in Nat /\ maxSize \in Nat
    BY DEF IInv, TypeOK
  <2>2. maxSize' \in Nat /\ maxSize' >= maxSize
    BY <1>5, <2>1 DEF SetMaxSize, Larger
  <2>3. Abstract!RaiseCap
    BY <1>5, <2>2 DEF Abstract!RaiseCap, SetMaxSize, Loans
  <2>4. QED
    BY <2>3 DEF Abstract!Next
<1>6. ASSUME UNCHANGED <<maxSize, size, held>> PROVE Goal
  BY <1>6, Unseen
<1>7. ASSUME NEW t \in Threads,
             \/ BorrowThrows(t) \/ BorrowExhausted(t) \/ Sleep(t)
             \/ BorrowAfterWaitThrows(t) \/ SpuriousWakeup(t) \/ NotifyOne(t)
      PROVE  UNCHANGED <<maxSize, size, held>>
  BY <1>7 DEF BorrowThrows, BorrowExhausted, Sleep, BorrowAfterWaitThrows,
              SpuriousWakeup, NotifyOne
<1>8. ASSUME NEW t \in Threads, NEW i \in 1..size, UseConnection(t, i)
      PROVE  UNCHANGED <<maxSize, size, held>>
  BY <1>8 DEF UseConnection
<1>9. CASE ServerStops \/ ServerStarts \/ UNCHANGED vars
  BY <1>6, <1>9 DEF ServerStops, ServerStarts, vars
<1>10. QED
  BY <1>1, <1>2, <1>3, <1>4, <1>5, <1>6, <1>7, <1>8, <1>9 DEF Next, PoolStep

\* The pool implements the abstract lending pool, for every instance.
THEOREM ImplementsLending == Spec => LendsAsPromised
<1>1. QED
  BY InitIsInit, StepIsStep, Invariance, PTL
  DEF Spec, LendsAsPromised, Abstract!Spec

-----------------------------------------------------------------------------
(* No wake-up is lost.  NoLostWakeup is inductive on top of IInv: what       *)
(* follows counts, step by step, the free holders against the calls of       *)
(* notify_one that are due or have been delivered.                           *)

\* The threads at a place are finitely many.
LEMMA Standing ==
    ASSUME NEW l
    PROVE  /\ IsFiniteSet(At(l)) /\ Cardinality(At(l)) \in Nat
           /\ IsFiniteSet(At(l)') /\ Cardinality(At(l)') \in Nat
<1>1. At(l) \in SUBSET Threads /\ At(l)' \in SUBSET Threads
  BY DEF At
<1>2. IsFiniteSet(At(l)) /\ IsFiniteSet(At(l)')
  BY <1>1, ThreadsAssumption, FS_Subset
<1>3. QED
  BY <1>2, FS_CardinalityType

\* So are the free holders.
LEMMA FreeFinite ==
    ASSUME NEW n \in Nat, NEW S \in SUBSET (1..n)
    PROVE  IsFiniteSet(S) /\ Cardinality(S) \in Nat
<1>1. IsFiniteSet(1..n)
  BY FS_Interval
<1>2. IsFiniteSet(S)
  BY <1>1, FS_Subset
<1>3. QED
  BY <1>2, FS_CardinalityType

\* A thread that goes to l is counted there, and no longer where it was.
LEMMA GotoCounts ==
    ASSUME pc \in [Threads -> PCs], NEW t \in Threads, NEW l, Goto(t, l), NEW m
    PROVE  /\ At(m)' = IF m = l THEN At(m) \cup {t} ELSE At(m) \ {t}
           /\ Cardinality(At(m)') =
                IF m = l
                THEN IF pc[t] = l THEN Cardinality(At(m))
                                  ELSE Cardinality(At(m)) + 1
                ELSE IF pc[t] = m THEN Cardinality(At(m)) - 1
                                  ELSE Cardinality(At(m))
<1>1. At(m)' = IF m = l THEN At(m) \cup {t} ELSE At(m) \ {t}
  BY DEF Goto, At
<1>2. t \in At(m) <=> pc[t] = m
  BY DEF At
<1>3. IsFiniteSet(At(m))
  BY Standing
<1>4. QED
  BY <1>1, <1>2, <1>3, FS_AddElement, FS_RemoveElement

\* With no holder free there is nothing to wake anybody for.
LEMMA NoneFree ==
    ASSUME FreeHolders' = {}, unannounced' \in Nat
    PROVE  NoLostWakeup'
<1>1. Cardinality(FreeHolders') = 0
  BY FS_EmptySet
<1>2. /\ Cardinality(At("notifying")') \in Nat
      /\ Cardinality(At("woken")') \in Nat
  BY Standing
<1>3. QED
  BY <1>1, <1>2 DEF NoLostWakeup

\* A step that puts nobody to sleep and lets the free holders grow by no more
\* than the wake-ups keeps the invariant.
LEMMA Balance ==
    ASSUME NoLostWakeup, At("waiting") = {} => At("waiting")' = {},
           Cardinality(FreeHolders) \in Nat, Cardinality(FreeHolders') \in Nat,
           unannounced \in Nat, unannounced' \in Nat,
           Cardinality(FreeHolders') - Cardinality(FreeHolders)
             <= Cardinality(At("notifying")') - Cardinality(At("notifying"))
                + (Cardinality(At("woken")') - Cardinality(At("woken")))
                + (unannounced' - unannounced)
    PROVE  NoLostWakeup'
<1>1. /\ Cardinality(At("notifying")) \in Nat
      /\ Cardinality(At("notifying")') \in Nat
      /\ Cardinality(At("woken")) \in Nat
      /\ Cardinality(At("woken")') \in Nat
  BY Standing
<1>2. QED
  BY <1>1 DEF NoLostWakeup

\* One holder fewer is free after a lending.
LEMMA LendCounts ==
    ASSUME IInv, NEW t \in Threads, NEW i \in FreeHolders, \E c : Lend(t, i, c)
    PROVE  /\ Cardinality(FreeHolders) \in Nat /\ Cardinality(FreeHolders') \in Nat
           /\ Cardinality(FreeHolders') = Cardinality(FreeHolders) - 1
<1>1. size \in Nat /\ holders \in [1..size -> Holder] /\ size' = size
  BY DEF IInv, TypeOK, Lend
<1>2. FreeHolders \in SUBSET (1..size)
  BY DEF FreeHolders
<1>3. FreeHolders' = FreeHolders \ {i}
  BY <1>1 DEF FreeHolders, Lend
<1>4. IsFiniteSet(FreeHolders)
  BY <1>1, <1>2, FreeFinite
<1>5. IsFiniteSet(FreeHolders')
  BY <1>3, <1>4, FS_RemoveElement
<1>6. QED
  BY <1>3, <1>4, <1>5, FS_RemoveElement, FS_CardinalityType

\* grow adds free holders, and counts each of them as unannounced.
LEMMA GrowCounts ==
    ASSUME IInv, NEW k \in Nat, GrowBy(k)
    PROVE  /\ Cardinality(FreeHolders) \in Nat /\ Cardinality(FreeHolders') \in Nat
           /\ Cardinality(FreeHolders') = Cardinality(FreeHolders) + k
<1> DEFINE New == (size + 1)..(size + k)
<1>1. size \in Nat /\ holders \in [1..size -> Holder] /\ size' = size + k
  BY DEF IInv, TypeOK, GrowBy
<1>2. FreeHolders \in SUBSET (1..size)
  BY DEF FreeHolders
<1>3. FreeHolders' = FreeHolders \cup New
  <2>1. \A j \in 1..size + k : j \in 1..size \/ j \in New
    BY <1>1
  <2>2. \A j \in 1..size : j \in 1..size + k
    BY <1>1
  <2>3. \A j \in New : j \in 1..size + k /\ j \notin 1..size
    BY <1>1
  <2>4. \A j \in 1..size : holders'[j] = holders[j]
    BY <2>2 DEF GrowBy
  <2>5. \A j \in New : holders'[j].is_free
    BY <2>3 DEF GrowBy, FreshHolder
  <2>6. QED
    BY <1>1, <2>1, <2>2, <2>3, <2>4, <2>5 DEF FreeHolders
<1>4. IsFiniteSet(FreeHolders) /\ Cardinality(FreeHolders) \in Nat
  BY <1>1, <1>2, FreeFinite
<1>5. IsFiniteSet(New) /\ Cardinality(New) = k
  BY <1>1, FS_Interval
<1>6. FreeHolders \cap New = {}
  BY <1>1, <1>2
<1>7. Cardinality(FreeHolders \cap New) = 0
  BY <1>6, FS_EmptySet
<1>8. Cardinality(FreeHolders') = Cardinality(FreeHolders) + k
  <2>1. Cardinality(FreeHolders \cup New)
          = Cardinality(FreeHolders) + Cardinality(New)
            - Cardinality(FreeHolders \cap New)
    BY <1>4, <1>5, FS_Union
  <2> HIDE DEF New
  <2>2. QED
    BY <1>3, <1>4, <1>5, <1>7, <2>1
<1>9. QED
  BY <1>4, <1>8

\* Each kind of step moves both sides of the balance alike: a lending takes a
\* holder and at most the wake-up of its thread, a return adds a holder and a
\* notify_one that is due, which becomes a woken thread when it is called.
LEMMA StepNoLostWakeup == IInv /\ NoLostWakeup /\ [Next]_vars => NoLostWakeup'
<1> SUFFICES ASSUME IInv, NoLostWakeup, [Next]_vars PROVE NoLostWakeup'
  OBVIOUS
<1>0. IInv'
  BY StepIInv
<1>1. /\ size \in Nat /\ pc \in [Threads -> PCs] /\ holders \in [1..size -> Holder]
      /\ unannounced \in Nat /\ unannounced' \in Nat /\ size' \in Nat
  BY <1>0 DEF IInv, TypeOK
<1>2. /\ Cardinality(FreeHolders) \in Nat /\ Cardinality(FreeHolders') \in Nat
      /\ IsFiniteSet(FreeHolders)
  <2>1. FreeHolders \in SUBSET (1..size) /\ FreeHolders' \in SUBSET (1..size')
    BY DEF FreeHolders
  <2>2. QED
    BY <1>1, <2>1, FreeFinite
<1>3. /\ Cardinality(At("notifying")) \in Nat
      /\ Cardinality(At("woken")) \in Nat
  BY Standing
<1>4. ASSUME NEW t \in Threads, LendNew(t) PROVE NoLostWakeup'
  <2>1. FreeHolders' = {}
    BY <1>1, <1>4 DEF FreeHolders, LendNew
  <2>2. QED
    BY <1>1, <2>1, NoneFree
<1>5. ASSUME NEW t \in Threads, Borrow(t) PROVE NoLostWakeup'
  <2>1. CASE LendFree(t)
    <3>1. PICK i \in FreeHolders : \E c : Lend(t, i, c)
      BY <2>1 DEF LendFree
    <3>2. Cardinality(FreeHolders') = Cardinality(FreeHolders) - 1
      BY <3>1, LendCounts
    <3>3. pc' = pc /\ unannounced' = unannounced
      BY <1>5 DEF Borrow
    <3>4. \A l : At(l)' = At(l)
      BY <3>3 DEF At
    <3>5. QED
      BY <1>1, <1>2, <1>3, <3>2, <3>3, <3>4, Balance
  <2>2. QED
    BY <1>4, <1>5, <2>1 DEF Borrow
<1>6. ASSUME NEW t \in Threads, Sleep(t) PROVE NoLostWakeup'
  <2>1. FreeHolders' = {}
    BY <1>6 DEF Sleep, FreeHolders
  <2>2. QED
    BY <1>1, <2>1, NoneFree
<1>7. ASSUME NEW t \in Threads, BorrowAfterWait(t) PROVE NoLostWakeup'
  <2>1. PICK i \in FreeHolders : \E c : Lend(t, i, c)
    BY <1>7 DEF BorrowAfterWait
  <2>2. Cardinality(FreeHolders') = Cardinality(FreeHolders) - 1
    BY <2>1, LendCounts
  <2>3. /\ Goto(t, "run") /\ unannounced' = unannounced
        /\ pc[t] \in {"unlocked", "woken"}
    BY <1>7 DEF BorrowAfterWait
  <2>4. /\ At("waiting")' = At("waiting") \ {t}
        /\ Cardinality(At("notifying")') = Cardinality(At("notifying"))
        /\ Cardinality(At("woken")') >= Cardinality(At("woken")) - 1
    BY <1>1, <1>3, <2>3, GotoCounts
  <2>5. Cardinality(At("woken")') \in Nat
    BY Standing
  <2>6. QED
    BY <1>1, <1>2, <1>3, <2>2, <2>3, <2>4, <2>5, Balance
<1>8. ASSUME NEW t \in Threads, BorrowAfterWaitThrows(t) PROVE NoLostWakeup'
  <2>1. FreeHolders' = FreeHolders
    <3>1. CASE UNCHANGED <<size, holders>>
      BY <3>1 DEF FreeHolders
    <3>2. ASSUME NEW i \in 1..size, size' = size,
                 holders' = [holders EXCEPT ![i].conn = "closed"]
          PROVE  FreeHolders' = FreeHolders
      BY <1>1, <3>2 DEF FreeHolders, Holder
    <3>3. QED
      BY <1>8, <3>1, <3>2 DEF BorrowAfterWaitThrows, IsFirstFree, FreeHolders
  <2>2. /\ Goto(t, "run") /\ pc[t] \in {"unlocked", "woken"}
        /\ unannounced' = IF pc[t] = "woken" THEN unannounced + 1
                                             ELSE unannounced
    BY <1>8 DEF BorrowAfterWaitThrows
  <2>3. /\ At("waiting")' = At("waiting") \ {t}
        /\ Cardinality(At("notifying")') = Cardinality(At("notifying"))
        /\ Cardinality(At("woken")') =
             IF pc[t] = "woken" THEN Cardinality(At("woken")) - 1
                                ELSE Cardinality(At("woken"))
    BY <1>1, <2>2, GotoCounts
  <2>4. QED
    BY <1>1, <1>2, <1>3, <2>1, <2>2, <2>3, Balance
<1>9. ASSUME NEW t \in Threads, SpuriousWakeup(t) PROVE NoLostWakeup'
  <2>1. Goto(t, "woken") /\ pc[t] = "waiting" /\ unannounced' = unannounced
    BY <1>9 DEF SpuriousWakeup
  <2>2. FreeHolders' = FreeHolders
    BY <1>9 DEF SpuriousWakeup, FreeHolders
  <2>3. /\ At("waiting")' = At("waiting") \ {t}
        /\ Cardinality(At("notifying")') = Cardinality(At("notifying"))
        /\ Cardinality(At("woken")') = Cardinality(At("woken")) + 1
    BY <1>1, <2>1, GotoCounts
  <2>4. QED
    BY <1>1, <1>2, <1>3, <2>1, <2>2, <2>3, Balance
<1>10. ASSUME NEW t \in Threads, NEW i \in 1..size, GiveBack(t, i)
       PROVE  NoLostWakeup'
  <2>1. /\ Goto(t, "notifying") /\ pc[t] = "run" /\ unannounced' = unannounced
        /\ size' = size
    BY <1>10 DEF GiveBack
  <2>2. FreeHolders' = FreeHolders \cup {i}
    BY <1>1, <1>10 DEF GiveBack, FreeHolders
  <2>3. Cardinality(FreeHolders') <= Cardinality(FreeHolders) + 1
    <3>1. Cardinality(FreeHolders \cup {i})
            = IF i \in FreeHolders THEN Cardinality(FreeHolders)
                                   ELSE Cardinality(FreeHolders) + 1
      BY <1>2, FS_AddElement
    <3>2. QED
      BY <1>2, <2>2, <3>1
  <2>4. /\ At("waiting")' = At("waiting") \ {t}
        /\ Cardinality(At("notifying")') = Cardinality(At("notifying")) + 1
        /\ Cardinality(At("woken")') = Cardinality(At("woken"))
    BY <1>1, <2>1, GotoCounts
  <2>5. QED
    BY <1>1, <1>2, <1>3, <2>1, <2>3, <2>4, Balance
<1>11. ASSUME NEW t \in Threads, NotifyOne(t) PROVE NoLostWakeup'
  <2>1. FreeHolders' = FreeHolders /\ unannounced' = unannounced
    BY <1>11 DEF NotifyOne, FreeHolders
  <2>2. CASE At("waiting") = {} /\ Goto(t, "run")
    <3>1. At("waiting")' = {}
      BY <1>1, <2>2, GotoCounts
    <3>2. QED
      BY <3>1 DEF NoLostWakeup
  <2>3. ASSUME NEW w \in At("waiting"),
               pc' = [pc EXCEPT ![t] = "run", ![w] = "woken"]
        PROVE  NoLostWakeup'
    <3>1. pc[t] = "notifying" /\ pc[w] = "waiting" /\ w \in Threads
      BY <1>11 DEF NotifyOne, At
    <3>2. /\ At("notifying")' = At("notifying") \ {t} /\ t \in At("notifying")
          /\ At("woken")' = At("woken") \cup {w} /\ w \notin At("woken")
      BY <1>1, <2>3, <3>1 DEF At
    <3>3. /\ Cardinality(At("notifying")') = Cardinality(At("notifying")) - 1
          /\ Cardinality(At("woken")') = Cardinality(At("woken")) + 1
      BY <3>2, Standing, FS_AddElement, FS_RemoveElement
    <3>4. QED
      BY <1>1, <1>2, <1>3, <2>1, <3>3, Balance
  <2>4. QED
    BY <1>11, <2>2, <2>3 DEF NotifyOne
<1>12. ASSUME NEW t \in Threads, NEW c \in Configs, SetInitialSize(t, c)
       PROVE  NoLostWakeup'
  <2>1. c.initial \in Nat /\ initialSize \in Nat /\ maxSize \in Nat
    BY ConfigsAssumption DEF IInv, TypeOK
  <2>2. /\ pc[t] = "run"
        /\ pc' = pc \/ Goto(t, "raising")
    BY <1>12 DEF SetInitialSize
  <2>3. /\ At("waiting")' \subseteq At("waiting")
        /\ Cardinality(At("notifying")') = Cardinality(At("notifying"))
        /\ Cardinality(At("woken")') = Cardinality(At("woken"))
    <3>1. CASE pc' = pc
      <4>1. \A l : At(l)' = At(l)
        BY <3>1 DEF At
      <4>2. QED
        BY <4>1
    <3>2. CASE Goto(t, "raising")
      BY <1>1, <2>2, <3>2, GotoCounts
    <3>3. QED
      BY <2>2, <3>1, <3>2
  <2>4. CASE c.initial <= initialSize
    <3>1. FreeHolders' = FreeHolders /\ unannounced' = unannounced
      BY <1>12, <2>1, <2>4 DEF SetInitialSize, poolVars, FreeHolders
    <3>2. QED
      BY <1>1, <1>2, <1>3, <2>3, <3>1, Balance
  <2>5. CASE c.initial > initialSize
    <3> DEFINE missing == Larger(Smaller(c.initial, maxSize) - size, 0)
    <3>1. missing \in Nat
      BY <1>1, <2>1 DEF Larger, Smaller
    <3>2. PICK k \in 0..missing : GrowBy(k)
      BY <1>12, <2>1, <2>5, <3>1 DEF SetInitialSize
    <3>3. k \in Nat
      BY <3>1, <3>2
    <3>4. Cardinality(FreeHolders') = Cardinality(FreeHolders) + k
      BY <3>2, <3>3, GrowCounts
    <3>5. unannounced' = unannounced + k
      BY <3>2 DEF GrowBy
    <3>6. QED
      BY <1>1, <1>2, <1>3, <2>3, <3>3, <3>4, <3>5, Balance
  <2>6. QED
    BY <2>1, <2>4, <2>5
<1>13. ASSUME NEW t \in Threads, SetMaxSize(t) \/ BorrowExhausted(t)
       PROVE  NoLostWakeup'
  <2>1. /\ pc[t] \in {"raising", "run"}
        /\ Goto(t, "run") \/ Goto(t, "unlocked")
        /\ unannounced' = unannounced
    BY <1>13 DEF SetMaxSize, BorrowExhausted, MayBorrow
  <2>2. FreeHolders' = FreeHolders
    BY <1>13 DEF SetMaxSize, BorrowExhausted, FreeHolders
  <2>3. /\ At("waiting")' = At("waiting") \ {t}
        /\ Cardinality(At("notifying")') = Cardinality(At("notifying"))
        /\ Cardinality(At("woken")') = Cardinality(At("woken"))
    BY <1>1, <2>1, GotoCounts
  <2>4. QED
    BY <1>1, <1>2, <1>3, <2>1, <2>2, <2>3, Balance
<1>14. ASSUME UNCHANGED <<pc, unannounced>>, FreeHolders' = FreeHolders
       PROVE  NoLostWakeup'
  BY <1>14 DEF NoLostWakeup, At
<1>15. ASSUME NEW t \in Threads, BorrowThrows(t) PROVE NoLostWakeup'
  BY <1>14, <1>15 DEF BorrowThrows, FreeHolders
<1>16. ASSUME NEW t \in Threads, NEW i \in 1..size, UseConnection(t, i)
       PROVE  NoLostWakeup'
  <2>1. FreeHolders' = FreeHolders
    BY <1>1, <1>16 DEF UseConnection, FreeHolders, Holder
  <2>2. QED
    BY <1>14, <1>16, <2>1 DEF UseConnection
<1>17. CASE ServerStops
  <2>1. FreeHolders' = FreeHolders
    BY <1>1, <1>17 DEF ServerStops, FreeHolders, Holder
  <2>2. QED
    BY <1>14, <1>17, <2>1 DEF ServerStops
<1>18. CASE ServerStarts \/ UNCHANGED vars
  BY <1>14, <1>18 DEF ServerStarts, vars, FreeHolders
<1>19. QED
  BY <1>5, <1>6, <1>7, <1>8, <1>9, <1>10, <1>11, <1>12, <1>13, <1>15, <1>16,
     <1>17, <1>18 DEF Next, PoolStep

\* Nobody waits at the start.
LEMMA InitNoLostWakeup == Init => NoLostWakeup
BY DEF Init, NoLostWakeup, At

\* No call of give_back is in vain, for any number of threads: while somebody
\* sleeps in borrow, every free holder has a notify_one due or a woken thread,
\* but for the holders of grow and of threads that left with an exception.
THEOREM NoWakeupIsLost == Spec => []NoLostWakeup
<1>1. QED
  BY InitNoLostWakeup, StepNoLostWakeup, Invariance, PTL DEF Spec

-----------------------------------------------------------------------------
(* The sizing rule of the PostGIS plugin, proved for every instance: when  *)
(* max_size is at least the number of threads times the connections one    *)
(* thread keeps, no call of borrow blocks.                                 *)

\* No thread exceeds its share of the demand, and one that waits in borrow
\* has not yet what it waits for.
Share(t) ==
    /\ IsFiniteSet(held[t])
    /\ Cardinality(held[t]) <= MaxHeld
    /\ Blocked(t) => Cardinality(held[t]) < MaxHeld
SharesKept == \A t \in Threads : Share(t)

\* The demand is a number.
LEMMA DemandType == Demand \in Nat
<1>1. Cardinality(Threads) \in Nat
  BY ThreadsAssumption, FS_CardinalityType
<1>2. MaxHeld \in Nat
  BY BoundsAssumption
<1>3. QED
  BY <1>1, <1>2 DEF Demand

\* Counting: when every holder is lent and one thread could still borrow, the
\* pool has not reached the demand.  The pairs <<u, n>>, for the n-th handle
\* of thread u, cover the holders and miss <<t, MaxHeld>>.
LEMMA Counting ==
    ASSUME IInv, FreeHolders = {},
           \A u \in Threads : /\ IsFiniteSet(held[u])
                              /\ Cardinality(held[u]) <= MaxHeld,
           NEW t \in Threads, Cardinality(held[t]) < MaxHeld
    PROVE  size < Demand
<1> DEFINE num == [u \in Threads |->
                     CHOOSE f \in Bijection(1..Cardinality(held[u]), held[u]) : TRUE]
           Grid == Threads \X (1..MaxHeld)
           Handles == {p \in Grid : p[2] <= Cardinality(held[p[1]])}
           g == [p \in Handles |-> num[p[1]][p[2]]]
<1>1. size \in Nat /\ MaxHeld \in Nat /\ held \in [Threads -> SUBSET (1..size)]
  BY BoundsAssumption DEF IInv, TypeOK
<1>2. ASSUME NEW u \in Threads
      PROVE  /\ Cardinality(held[u]) \in Nat
             /\ num[u] \in Bijection(1..Cardinality(held[u]), held[u])
  <2>1. /\ Cardinality(held[u]) \in Nat
        /\ ExistsBijection(1..Cardinality(held[u]), held[u])
    BY FS_CardinalityType
  <2>2. QED
    BY <2>1 DEF ExistsBijection
<1>3. /\ IsFiniteSet(Grid)
      /\ Cardinality(Grid) = Demand
  <2>1. IsFiniteSet(1..MaxHeld) /\ Cardinality(1..MaxHeld) = MaxHeld
    BY <1>1, FS_Interval
  <2>2. QED
    BY <2>1, ThreadsAssumption, FS_Product DEF Demand
<1>4. MaxHeld \in 1..MaxHeld
  BY <1>1, <1>2
<1>5. /\ IsFiniteSet(Handles)
      /\ Cardinality(Handles) < Demand
  <2>1. Handles \in SUBSET (Grid \ {<<t, MaxHeld>>})
    BY <1>1, <1>2
  <2>2. <<t, MaxHeld>> \in Grid
    BY <1>4
  <2>3. /\ IsFiniteSet(Grid \ {<<t, MaxHeld>>})
        /\ Cardinality(Grid \ {<<t, MaxHeld>>}) = Demand - 1
    BY <1>3, <2>2, FS_RemoveElement
  <2>4. /\ IsFiniteSet(Handles)
        /\ Cardinality(Handles) <= Demand - 1
    BY <2>1, <2>3, FS_Subset
  <2>5. Cardinality(Handles) \in Nat
    BY <2>4, FS_CardinalityType
  <2>6. QED
    BY <2>4, <2>5, DemandType
<1>6. g \in Surjection(Handles, 1..size)
  <2>1. ASSUME NEW p \in Handles PROVE g[p] \in 1..size
    <3>1. p[1] \in Threads /\ p[2] \in 1..Cardinality(held[p[1]])
      BY <1>1, <1>2
    <3>2. num[p[1]][p[2]] \in held[p[1]]
      BY <1>2, <3>1 DEF Bijection, Injection
    <3>3. QED
      BY <1>1, <3>1, <3>2
  <2>2. ASSUME NEW i \in 1..size PROVE \E p \in Handles : g[p] = i
    <3>1. PICK u \in Threads : i \in held[u]
      BY DEF IInv, ExclusiveLending, FreeHolders
    <3>2. PICK n \in 1..Cardinality(held[u]) : num[u][n] = i
      BY <1>2, <3>1 DEF Bijection, Surjection
    <3>3. <<u, n>> \in Handles
      BY <1>1, <1>2, <3>2
    <3>4. g[<<u, n>>] = i
      BY <3>2, <3>3
    <3>5. QED
      BY <3>3, <3>4
  <2>3. g \in [Handles -> 1..size]
    BY <2>1
  <2>4. QED
    BY <2>2, <2>3 DEF Surjection
<1>7. Cardinality(1..size) <= Cardinality(Handles)
  BY <1>5, <1>6, FS_Surjection
<1>8. Cardinality(1..size) = size
  BY <1>1, FS_Interval
<1>9. Cardinality(Handles) \in Nat
  BY <1>5, FS_CardinalityType
<1>10. QED
  BY <1>1, <1>5, <1>7, <1>8, <1>9, DemandType

\* Nobody holds anything at the start.
LEMMA InitShares == Init => SharesKept
<1> SUFFICES ASSUME Init, NEW t \in Threads PROVE Share(t)
  BY DEF SharesKept
<1>1. held[t] = {} /\ pc[t] = "run"
  BY DEF Init
<1>2. QED
  BY <1>1, FS_EmptySet, BoundsAssumption DEF Share, Blocked

\* Lending to a thread below its share leaves it within its share.
LEMMA LendWithinShare ==
    ASSUME NEW t \in Threads, NEW i,
           held \in [Threads -> SUBSET (1..size)],
           IsFiniteSet(held[t]), Cardinality(held[t]) < MaxHeld,
           held' = [held EXCEPT ![t] = @ \cup {i}]
    PROVE  IsFiniteSet(held'[t]) /\ Cardinality(held'[t]) <= MaxHeld
<1>1. held'[t] = held[t] \cup {i}
  OBVIOUS
<1>2. Cardinality(held[t]) \in Nat /\ MaxHeld \in Nat
  BY FS_CardinalityType, BoundsAssumption
<1>3. QED
  BY <1>1, <1>2, FS_AddElement

\* A step that lends to t alone, which leaves borrow with it, if it was there.
LEMMA LendingKeepsShares ==
    ASSUME SharesKept, NEW t \in Threads, NEW i,
           held \in [Threads -> SUBSET (1..size)], pc \in [Threads -> PCs],
           Cardinality(held[t]) < MaxHeld,
           held' = [held EXCEPT ![t] = @ \cup {i}],
           Goto(t, "run")
    PROVE  SharesKept'
<1> SUFFICES ASSUME NEW u \in Threads PROVE Share(u)'
  BY DEF SharesKept
<1>1. Share(u) /\ Share(t)
  BY DEF SharesKept
<1>2. pc'[t] = "run" /\ (u # t => pc'[u] = pc[u] /\ held'[u] = held[u])
  BY DEF Goto
<1>3. CASE u = t
  <2>1. IsFiniteSet(held'[t]) /\ Cardinality(held'[t]) <= MaxHeld
    BY <1>1, LendWithinShare DEF Share
  <2>2. ~Blocked(t)'
    BY <1>2 DEF Blocked
  <2>3. QED
    BY <1>3, <2>1, <2>2 DEF Share
<1>4. CASE u # t
  BY <1>1, <1>2, <1>4 DEF Share, Blocked
<1>5. QED
  BY <1>3, <1>4

\* A step that lends nothing, and lets nobody wait who did not.
LEMMA OthersKeepShares ==
    ASSUME SharesKept, held' = held, \A u \in Threads : Blocked(u)' => Blocked(u)
    PROVE  SharesKept'
BY DEF SharesKept, Share

\* Only Borrow and BorrowAfterWait lend; the latter to a thread that was
\* below its share when it called borrow, and has kept what it held.
LEMMA StepShares == IInv /\ SharesKept /\ [Next]_vars => SharesKept'
<1> SUFFICES ASSUME IInv, SharesKept, [Next]_vars PROVE SharesKept'
  OBVIOUS
<1>1. /\ held \in [Threads -> SUBSET (1..size)] /\ pc \in [Threads -> PCs]
      /\ initialSize \in Nat
  BY DEF IInv, TypeOK
<1>2. ASSUME NEW t \in Threads, Borrow(t) PROVE SharesKept'
  <2>1. Cardinality(held[t]) < MaxHeld /\ pc[t] = "run" /\ pc' = pc
    BY <1>2 DEF Borrow, MayBorrow
  <2>2. PICK i : held' = [held EXCEPT ![t] = @ \cup {i}]
    BY <1>2 DEF Borrow, LendFree, LendNew, Lend
  <2>3. Goto(t, "run")
    BY <1>1, <2>1 DEF Goto
  <2>4. QED
    BY <1>1, <2>1, <2>2, <2>3, LendingKeepsShares
<1>3. ASSUME NEW t \in Threads, BorrowAfterWait(t) PROVE SharesKept'
  <2>1. Blocked(t) /\ Goto(t, "run")
    BY <1>3 DEF BorrowAfterWait, Blocked
  <2>2. Cardinality(held[t]) < MaxHeld
    BY <2>1 DEF SharesKept, Share
  <2>3. PICK i : held' = [held EXCEPT ![t] = @ \cup {i}]
    BY <1>3 DEF BorrowAfterWait, Lend
  <2>4. QED
    BY <1>1, <2>1, <2>2, <2>3, LendingKeepsShares
<1>4. ASSUME NEW t \in Threads, BorrowExhausted(t) PROVE SharesKept'
  <2>1. Cardinality(held[t]) < MaxHeld /\ held' = held /\ Goto(t, "unlocked")
    BY <1>4 DEF BorrowExhausted, MayBorrow
  <2>2. \A u \in Threads : u # t => (Blocked(u)' => Blocked(u))
    BY <1>1, <2>1 DEF Goto, Blocked
  <2>3. QED
    BY <2>1, <2>2 DEF SharesKept, Share
<1>5. ASSUME NEW t \in Threads, NEW i \in 1..size, GiveBack(t, i)
      PROVE  SharesKept'
  <2>1. /\ held'[t] = held[t] \ {i}
        /\ \A u \in Threads : u # t => held'[u] = held[u]
    BY <1>1, <1>5 DEF GiveBack
  <2>2. \A u \in Threads : Blocked(u)' => u # t /\ Blocked(u)
    BY <1>1, <1>5 DEF GiveBack, Goto, Blocked
  <2>3. Share(t)'
    <3>1. IsFiniteSet(held[t]) /\ Cardinality(held[t]) <= MaxHeld
      BY DEF SharesKept, Share
    <3>2. IsFiniteSet(held'[t]) /\ Cardinality(held'[t]) <= Cardinality(held[t])
      BY <2>1, <3>1, FS_Subset
    <3>3. /\ Cardinality(held'[t]) \in Nat /\ Cardinality(held[t]) \in Nat
          /\ MaxHeld \in Nat
      BY <3>1, <3>2, FS_CardinalityType, BoundsAssumption
    <3>4. QED
      BY <2>2, <3>1, <3>2, <3>3 DEF Share
  <2>4. ASSUME NEW u \in Threads, u # t PROVE Share(u)'
    BY <2>1, <2>2, <2>4 DEF SharesKept, Share
  <2>5. QED
    BY <2>3, <2>4 DEF SharesKept
<1>6. ASSUME NEW t \in Threads, Sleep(t) \/ SpuriousWakeup(t) PROVE SharesKept'
  <2>1. held' = held /\ Blocked(t) /\ \E l \in {"waiting", "woken"} : Goto(t, l)
    BY <1>6 DEF Sleep, SpuriousWakeup, Blocked
  <2>2. \A u \in Threads : Blocked(u)' => Blocked(u)
    BY <1>1, <2>1 DEF Goto, Blocked
  <2>3. QED
    BY <2>1, <2>2, OthersKeepShares
<1>7. ASSUME NEW t \in Threads,
             \/ BorrowAfterWaitThrows(t) \/ SetMaxSize(t)
             \/ \E c \in Configs : SetInitialSize(t, c)
      PROVE  SharesKept'
  <2>1. /\ held' = held
        /\ pc' = pc \/ \E l \in {"run", "raising"} : Goto(t, l)
    BY <1>7 DEF BorrowAfterWaitThrows, SetMaxSize, SetInitialSize
  <2>2. \A u \in Threads : Blocked(u)' => Blocked(u)
    BY <1>1, <2>1 DEF Goto, Blocked
  <2>3. QED
    BY <2>1, <2>2, OthersKeepShares
<1>8. ASSUME NEW t \in Threads, NotifyOne(t) PROVE SharesKept'
  <2>1. held' = held
    BY <1>8 DEF NotifyOne
  <2>2. \A u \in Threads : Blocked(u)' => Blocked(u)
    BY <1>1, <1>8 DEF NotifyOne, Goto, At, Blocked
  <2>3. QED
    BY <2>1, <2>2, OthersKeepShares
<1>9. ASSUME UNCHANGED <<held, pc>> PROVE SharesKept'
  BY <1>9 DEF SharesKept, Share, Blocked
<1>10. ASSUME NEW t \in Threads,
              BorrowThrows(t) \/ \E i \in 1..size : UseConnection(t, i)
       PROVE  SharesKept'
  BY <1>9, <1>10 DEF BorrowThrows, UseConnection
<1>11. CASE ServerStops \/ ServerStarts \/ UNCHANGED vars
  BY <1>9, <1>11 DEF ServerStops, ServerStarts, vars
<1>12. QED
  BY <1>2, <1>3, <1>4, <1>5, <1>6, <1>7, <1>8, <1>10, <1>11 DEF Next, PoolStep

\* A thread begins to wait when every holder is lent and the pool is full; by
\* Counting the pool is then smaller than the demand.
LEMMA FullPoolIsSmall ==
    ASSUME IInv, SharesKept, [Next]_vars,
           NEW t \in Threads, Blocked(t)', ~Blocked(t)
    PROVE  maxSize < Demand
<1>1. /\ pc \in [Threads -> PCs] /\ size \in Nat /\ maxSize \in Nat
  BY DEF IInv, TypeOK
<1>2. PICK u \in Threads : BorrowExhausted(u) /\ u = t
  <2>1. ASSUME NEW u \in Threads, BorrowExhausted(u) PROVE u = t
    BY <1>1, <2>1 DEF BorrowExhausted, Goto, Blocked
  <2>2. ASSUME NEW u \in Threads,
               \/ Borrow(u) \/ BorrowThrows(u) \/ PoolStep(u)
               \/ SpuriousWakeup(u)
               \/ \E i \in 1..size : GiveBack(u, i) \/ UseConnection(u, i)
               \/ \E c \in Configs : SetInitialSize(u, c)
        PROVE  FALSE
    <3>1. CASE \/ Borrow(u) \/ BorrowThrows(u) \/ SetMaxSize(u)
               \/ \E i \in 1..size : GiveBack(u, i) \/ UseConnection(u, i)
               \/ \E c \in Configs : SetInitialSize(u, c)
      <4>1. pc' = pc \/ \E l \in {"run", "notifying", "raising"} : Goto(u, l)
        BY <3>1 DEF Borrow, BorrowThrows, SetMaxSize, GiveBack, UseConnection,
                    SetInitialSize
      <4>2. QED
        BY <1>1, <4>1 DEF Goto, Blocked
    <3>2. CASE Sleep(u) \/ BorrowAfterWait(u) \/ BorrowAfterWaitThrows(u)
               \/ SpuriousWakeup(u)
      BY <1>1, <3>2 DEF Sleep, BorrowAfterWait, BorrowAfterWaitThrows,
                        SpuriousWakeup, Goto, Blocked
    <3>3. CASE NotifyOne(u)
      BY <1>1, <3>3 DEF NotifyOne, Goto, At, Blocked
    <3>4. QED
      BY <2>2, <3>1, <3>2, <3>3 DEF PoolStep
  <2>3. ASSUME ServerStops \/ ServerStarts \/ UNCHANGED vars PROVE FALSE
    BY <2>3 DEF ServerStops, ServerStarts, vars, Blocked
  <2>4. QED
    BY <2>1, <2>2, <2>3 DEF Next
<1>3. /\ FreeHolders = {} /\ size >= maxSize /\ Cardinality(held[t]) < MaxHeld
  BY <1>2 DEF BorrowExhausted, MayBorrow
<1>4. size < Demand
  BY <1>3, Counting DEF SharesKept, Share
<1>5. QED
  BY <1>1, <1>3, <1>4, DemandType

\* The note in the datasource's constructor is right about the pool: when
\* max_size is at least max_async_connection times the number of threads, and
\* a thread keeps at most max_async_connection handles, no call of borrow
\* begins to wait.
THEOREM SizingRuleSuffices == Spec => NobodyBlocks
<1>1. IInv /\ SharesKept /\ [Next]_vars
        => [\A t \in Threads : Blocked(t)' /\ ~Blocked(t) => maxSize < Demand]_vars
  BY FullPoolIsSmall
<1>2. Spec => []SharesKept
  BY InitShares, StepShares, Invariance, PTL DEF Spec
<1>3. QED
  BY <1>1, <1>2, Invariance, PTL DEF Spec, NobodyBlocks
=============================================================================
