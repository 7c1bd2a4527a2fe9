-------------------------- MODULE ParallelizeProofs --------------------------
(***************************************************************************)
(* Proofs about Parallelize, for every number of jobs and every size: the  *)
(* chunks partition the work, and a call that returns has done each index  *)
(* of it once.                                                             *)
(***************************************************************************)
EXTENDS Parallelize, TLAPS

(* The chunks: arithmetic only *)

\* A product of naturals grows with its first factor.
LEMMA TimesMonotone ==
    ASSUME NEW a \in Nat, NEW b \in Nat, NEW c \in Nat, a <= b
    PROVE  a * c <= b * c
<1>1. (b - a) * c >= 0
  OBVIOUS
<1>2. b * c = a * c + (b - a) * c
  OBVIOUS
<1> QED
  BY <1>1, <1>2

\* There is a job at least, and the chunks of all of them fit in the work.
LEMMA ChunksFit ==
    ASSUME NEW asked \in Nat, NEW size \in Nat
    PROVE  /\ JobsFor(asked, size) \in Nat \ {0}
           /\ ChunkFor(asked, size) \in Nat
           /\ JobsFor(asked, size) * ChunkFor(asked, size) <= size
           /\ JobsFor(asked, size) > 1 => ChunkFor(asked, size) > 0
<1> DEFINE j == Greater(asked, 1)
<1>1. j \in Nat \ {0}
  BY DEF Greater
<1>2. size \div j \in Nat /\ j * (size \div j) <= size
  <2> HIDE DEF j
  <2> QED
    BY <1>1
<1> HIDE DEF j
<1>3. CASE size \div j = 0
  <2>1. JobsFor(asked, size) = 1 /\ ChunkFor(asked, size) = size
    BY <1>3 DEF JobsFor, ChunkFor, j
  <2> QED
    BY <2>1
<1>4. CASE size \div j # 0
  <2>1. JobsFor(asked, size) = j /\ ChunkFor(asked, size) = size \div j
    BY <1>4 DEF JobsFor, ChunkFor, j
  <2> QED
    BY <1>1, <1>2, <1>4, <2>1
<1> QED
  BY <1>3, <1>4

\* The bounds of a chunk lie within the work, in order.
LEMMA ChunkBounds ==
    ASSUME NEW asked \in Nat, NEW size \in Nat,
           NEW n \in 0..JobsFor(asked, size) - 1
    PROVE  /\ ChunkBegin(asked, size, n) \in Nat
           /\ ChunkEnd(asked, size, n) \in Nat
           /\ ChunkBegin(asked, size, n) <= ChunkEnd(asked, size, n)
           /\ ChunkEnd(asked, size, n) <= size
<1> DEFINE jobs == JobsFor(asked, size)
           chunk == ChunkFor(asked, size)
<1>1. jobs \in Nat \ {0} /\ chunk \in Nat /\ jobs * chunk <= size
  BY ChunksFit
<1>2. n \in Nat /\ n + 1 \in Nat /\ n + 1 <= jobs
  BY <1>1
<1> HIDE DEF jobs, chunk
<1>3. n * chunk \in Nat /\ (n + 1) * chunk \in Nat
  BY <1>1, <1>2
<1>4. n * chunk <= (n + 1) * chunk
  BY <1>1, <1>2, TimesMonotone
<1>5. (n + 1) * chunk <= jobs * chunk
  BY <1>1, <1>2, TimesMonotone
<1>6. jobs * chunk \in Nat
  BY <1>1
<1>7. (n + 1) * chunk <= size
  BY <1>1, <1>3, <1>5, <1>6
<1>8. n * chunk <= size
  BY <1>3, <1>4, <1>7
<1> QED
  BY <1>3, <1>4, <1>7, <1>8 DEF ChunkBegin, ChunkEnd, jobs, chunk

\* No index is in two chunks.
LEMMA ChunksDisjoint ==
    ASSUME NEW asked \in Nat, NEW size \in Nat,
           NEW m \in 0..JobsFor(asked, size) - 1,
           NEW n \in 0..JobsFor(asked, size) - 1,
           m < n
    PROVE  ChunkEnd(asked, size, m) <= ChunkBegin(asked, size, n)
<1>1. JobsFor(asked, size) \in Nat /\ ChunkFor(asked, size) \in Nat
  BY ChunksFit
<1>2. m + 1 \in Nat /\ n \in Nat /\ m + 1 <= n /\ m # JobsFor(asked, size) - 1
  BY <1>1
<1>3. (m + 1) * ChunkFor(asked, size) <= n * ChunkFor(asked, size)
  BY <1>1, <1>2, TimesMonotone
<1> QED
  BY <1>2, <1>3 DEF ChunkBegin, ChunkEnd

\* Every index is in a chunk: in that of its quotient, or in the last one.
LEMMA ChunksCover ==
    ASSUME NEW asked \in Nat, NEW size \in Nat, NEW k \in 0..size - 1
    PROVE  \E n \in 0..JobsFor(asked, size) - 1 :
              ChunkBegin(asked, size, n) <= k /\ k < ChunkEnd(asked, size, n)
<1> DEFINE jobs == JobsFor(asked, size)
           chunk == ChunkFor(asked, size)
           q == k \div chunk
<1>1. jobs \in Nat \ {0} /\ chunk \in Nat /\ (jobs > 1 => chunk > 0)
  BY ChunksFit
<1>2. k \in Nat /\ k < size
  OBVIOUS
<1> HIDE DEF jobs, chunk
<1>3. CASE jobs = 1
  <2>1. 0 * chunk = 0
    BY <1>1
  <2>2. ChunkBegin(asked, size, 0) = 0 /\ ChunkEnd(asked, size, 0) = size
    BY <1>3, <2>1 DEF ChunkBegin, ChunkEnd, jobs, chunk
  <2> QED
    BY <1>2, <1>3, <2>2 DEF jobs
<1>4. CASE jobs > 1
  <2>1. q \in Nat /\ q * chunk <= k /\ k < (q + 1) * chunk
    BY <1>1, <1>2, <1>4
  <2> HIDE DEF q
  <2>2. CASE q < jobs - 1
    <3>1. ChunkBegin(asked, size, q) = q * chunk
          /\ ChunkEnd(asked, size, q) = (q + 1) * chunk
      BY <1>1, <2>1, <2>2 DEF ChunkBegin, ChunkEnd, jobs, chunk
    <3>2. q \in 0..jobs - 1
      BY <1>1, <2>1, <2>2
    <3> QED
      BY <2>1, <3>1, <3>2 DEF jobs
  <2>3. CASE q >= jobs - 1
    <3>1. (jobs - 1) * chunk <= q * chunk
      BY <1>1, <2>1, <2>3, TimesMonotone
    <3>2. (jobs - 1) * chunk \in Nat /\ q * chunk \in Nat
      BY <1>1, <2>1
    <3>3. (jobs - 1) * chunk <= k
      BY <1>2, <2>1, <3>1, <3>2
    <3>4. ChunkBegin(asked, size, jobs - 1) = (jobs - 1) * chunk
          /\ ChunkEnd(asked, size, jobs - 1) = size
      BY DEF ChunkBegin, ChunkEnd, jobs, chunk
    <3>5. jobs - 1 \in 0..jobs - 1
      BY <1>1
    <3> QED
      BY <1>2, <3>3, <3>4, <3>5 DEF jobs
  <2> QED
    BY <1>1, <2>1, <2>2, <2>3
<1> QED
  BY <1>1, <1>3, <1>4

-----------------------------------------------------------------------------
(* The inductive invariant *)

\* A call that is over was done, one that is still to come was not begun, and
\* of the call under way each task has done the indices before its own next
\* one, within the bounds of its chunk.
TaskProgress(n) ==
    /\ Begin(call, n) <= at[n] /\ at[n] <= End(call, n)
    /\ tasks[n] \in {"none", "deferred"} => at[n] = Begin(call, n)
    /\ tasks[n] = "done" => at[n] = End(call, n)
    /\ \A k \in Items(call) :
          Begin(call, n) <= k /\ k < End(call, n) =>
              visits[call][k] = IF k < at[n] THEN 1 ELSE 0

Progress ==
    /\ \A n \in Tasks : TaskProgress(n)
    /\ \A c \in DOMAIN use.sizes : \A k \in Items(c) :
          /\ c < call => visits[c][k] = 1
          /\ c > call => visits[c][k] = 0

\* The caller has joined the tasks it went past, all of them at the end, and
\* leaves through an exception when none runs.
Joined ==
    /\ pc = "join" => \A n \in Tasks : n < i => tasks[n] = "done"
    /\ pc = "returned" =>
          /\ call = Len(use.sizes)
          /\ \A n \in Tasks : tasks[n] = "done"
    /\ pc = "thrown" => \A n \in Tasks : tasks[n] # "running"
    /\ pc = "spawn" => \A n \in Tasks : n >= i => tasks[n] = "none"

IInv == TypeOK /\ Progress /\ Joined

\* The calls have natural sizes, so the chunk lemmas speak of them.
LEMMA CallArithmetic ==
    ASSUME use \in Uses, NEW c \in DOMAIN use.sizes
    PROVE  /\ use.jobs \in Nat
           /\ Size(c) \in Nat
           /\ c \in Nat
           /\ Jobs(c) \in Nat \ {0}
<1>1. use.jobs \in Nat /\ use.sizes \in Seq(Nat)
  BY UsesAssumption
<1>2. Size(c) \in Nat /\ c \in Nat
  BY <1>1 DEF Size
<1> QED
  BY <1>1, <1>2, ChunksFit DEF Jobs

LEMMA CallBounds ==
    ASSUME use \in Uses, NEW c \in DOMAIN use.sizes, NEW n \in 0..Jobs(c) - 1
    PROVE  /\ Begin(c, n) \in Nat
           /\ End(c, n) \in Nat
           /\ Begin(c, n) <= End(c, n)
           /\ End(c, n) <= Size(c)
BY CallArithmetic, ChunkBounds DEF Jobs, Begin, End

\* An index of one task's chunk is in no other task's.
LEMMA CallDisjoint ==
    ASSUME use \in Uses, NEW c \in DOMAIN use.sizes,
           NEW m \in 0..Jobs(c) - 1, NEW n \in 0..Jobs(c) - 1, m # n,
           NEW k \in Items(c), Begin(c, n) <= k, k < End(c, n)
    PROVE  ~(Begin(c, m) <= k /\ k < End(c, m))
<1>1. use.jobs \in Nat /\ Size(c) \in Nat /\ Jobs(c) \in Nat
  BY CallArithmetic
<1>2. /\ Begin(c, m) \in Nat /\ End(c, m) \in Nat
      /\ Begin(c, n) \in Nat /\ End(c, n) \in Nat
  BY CallBounds
<1>3. k \in Int
  BY <1>1 DEF Items
<1>4. CASE m < n
  <2>1. End(c, m) <= Begin(c, n)
    BY <1>1, <1>4, ChunksDisjoint DEF Jobs, Begin, End
  <2> QED
    BY <1>2, <1>3, <2>1
<1>5. CASE n < m
  <2>1. End(c, n) <= Begin(c, m)
    BY <1>1, <1>5, ChunksDisjoint DEF Jobs, Begin, End
  <2> QED
    BY <1>2, <1>3, <2>1
<1> QED
  BY <1>1, <1>4, <1>5

\* When all tasks of a call are done, each index of it was processed once.
LEMMA AllDone ==
    ASSUME IInv, \A n \in Tasks : tasks[n] = "done"
    PROVE  \A k \in Items(call) : visits[call][k] = 1
<1> SUFFICES ASSUME NEW k \in Items(call)
             PROVE  visits[call][k] = 1
  OBVIOUS
<1>1. use \in Uses /\ call \in DOMAIN use.sizes
  BY DEF IInv, TypeOK
<1>2. use.jobs \in Nat /\ Size(call) \in Nat
  BY <1>1, CallArithmetic
<1>3. PICK n \in Tasks : Begin(call, n) <= k /\ k < End(call, n)
  BY <1>2, ChunksCover DEF Items, Tasks, Jobs, Begin, End
<1>4. at[n] = End(call, n)
  BY <1>3 DEF IInv, Progress, TaskProgress
<1> QED
  BY <1>3, <1>4 DEF IInv, Progress, TaskProgress

LEMMA InitIInv == Init => IInv
<1> SUFFICES ASSUME Init PROVE IInv
  OBVIOUS
<1>1. use \in Uses /\ call = 1 /\ use.sizes \in Seq(Nat) /\ use.sizes # <<>>
  BY UsesAssumption DEF Init
<1>2. call \in DOMAIN use.sizes
  BY <1>1
<1>3. Jobs(call) \in Nat \ {0}
  BY <1>1, <1>2, CallArithmetic
<1>4. \A n \in Tasks : Begin(call, n) \in Nat /\ End(call, n) \in Nat
                       /\ Begin(call, n) <= End(call, n)
  BY <1>1, <1>2, CallBounds DEF Tasks
<1>5. TypeOK
  BY <1>1, <1>2, <1>3, <1>4 DEF Init, TypeOK, TaskStates
<1>6. Progress
  <2>1. ASSUME NEW n \in Tasks PROVE TaskProgress(n)
    <3>1. at[n] = Begin(call, n) /\ tasks[n] = "none"
      BY DEF Init
    <3>2. ASSUME NEW k \in Items(call), Begin(call, n) <= k
          PROVE  visits[call][k] = IF k < at[n] THEN 1 ELSE 0
      <4>1. visits[call][k] = 0
        BY <1>2 DEF Init
      <4>2. k \in Int /\ ~(k < at[n])
        BY <1>1, <1>2, <1>4, <3>1, <3>2, CallArithmetic DEF Items
      <4> QED
        BY <4>1, <4>2
    <3> QED
      BY <1>4, <3>1, <3>2 DEF TaskProgress
  <2>2. \A c \in DOMAIN use.sizes : ~(c < call) /\ c \in Nat
    BY <1>1
  <2>3. \A c \in DOMAIN use.sizes : \A k \in Items(c) : visits[c][k] = 0
    BY DEF Init
  <2> QED
    BY <2>1, <2>2, <2>3 DEF Progress
<1>7. Joined
  BY <1>3 DEF Init, Joined
<1> QED
  BY <1>5, <1>6, <1>7 DEF IInv

-----------------------------------------------------------------------------
(* The steps *)

\* What most steps leave alone: the positions and the counts.
LEMMA ProgressKept ==
    ASSUME IInv, UNCHANGED <<use, call, at, visits>>,
           tasks' \in [Tasks -> TaskStates],
           \A n \in Tasks :
              /\ tasks'[n] \in {"none", "deferred"} => at[n] = Begin(call, n)
              /\ tasks'[n] = "done" => at[n] = End(call, n)
    PROVE  Progress'
BY DEF IInv, Progress, TaskProgress, Tasks, Jobs, Size, Begin, End, Items

LEMMA StepAsync == IInv /\ Async => IInv'
<1> SUFFICES ASSUME IInv, Async PROVE IInv'
  OBVIOUS
<1>1. use \in Uses /\ call \in DOMAIN use.sizes /\ i \in 0..Jobs(call)
      /\ tasks \in [Tasks -> TaskStates]
  BY DEF IInv, TypeOK
<1>2. Jobs(call) \in Nat
  BY <1>1, CallArithmetic
<1>3. i \in Tasks /\ tasks[i] = "none"
  BY <1>1, <1>2 DEF Async, IInv, Joined, Tasks
<1>4. TypeOK'
  BY <1>1, <1>2, <1>3
     DEF Async, TaskIs, IInv, TypeOK, TaskStates, Tasks, Jobs, Size, Items
<1>5. Progress'
  BY <1>1, <1>3, ProgressKept
     DEF Async, TaskIs, TaskStates, IInv, Progress, TaskProgress
<1>6. Joined'
  BY <1>1, <1>2, <1>3 DEF Async, TaskIs, IInv, Joined, Tasks, Jobs, Size
<1> QED
  BY <1>4, <1>5, <1>6 DEF IInv

\* The steps of the caller that only move it.
LEMMA StepCallerMoves ==
    ASSUME IInv, AsyncThrows \/ StartJoining \/ Get \/ GetThrows \/ Unwound
    PROVE  IInv'
<1>1. use \in Uses /\ call \in DOMAIN use.sizes /\ i \in 0..Jobs(call)
      /\ tasks \in [Tasks -> TaskStates]
  BY DEF IInv, TypeOK
<1>2. Jobs(call) \in Nat
  BY <1>1, CallArithmetic
<1>3. UNCHANGED <<use, call, tasks, at, visits>>
  BY DEF AsyncThrows, StartJoining, Get, GetThrows, Unwound
<1>4. TypeOK'
  BY <1>1, <1>2, <1>3
     DEF AsyncThrows, StartJoining, Get, GetThrows, Unwound, IInv, TypeOK,
         TaskStates, Tasks, Jobs, Size, Begin, Items
<1>5. Progress'
  BY <1>3, ProgressKept DEF IInv, TypeOK, Progress, TaskProgress
<1>6. Joined'
  BY <1>1, <1>2, <1>3
     DEF AsyncThrows, StartJoining, Get, GetThrows, Unwound, Running, IInv,
         Joined, Tasks, Jobs, Size
<1> QED
  BY <1>4, <1>5, <1>6 DEF IInv

LEMMA StepRunDeferred == IInv /\ RunDeferred => IInv'
<1> SUFFICES ASSUME IInv, RunDeferred PROVE IInv'
  OBVIOUS
<1>1. use \in Uses /\ call \in DOMAIN use.sizes /\ i \in 0..Jobs(call)
      /\ tasks \in [Tasks -> TaskStates]
  BY DEF IInv, TypeOK
<1>2. Jobs(call) \in Nat /\ i \in Tasks
  BY <1>1, CallArithmetic DEF RunDeferred, Tasks
<1>3. TypeOK'
  BY <1>1, <1>2
     DEF RunDeferred, TaskIs, IInv, TypeOK, TaskStates, Tasks, Jobs, Size, Items
<1>4. Progress'
  BY <1>1, <1>2, ProgressKept
     DEF RunDeferred, TaskIs, TaskStates, IInv, Progress, TaskProgress
<1>5. Joined'
  BY <1>1, <1>2 DEF RunDeferred, TaskIs, IInv, Joined, Tasks, Jobs, Size
<1> QED
  BY <1>3, <1>4, <1>5 DEF IInv

\* A task that ends: it runs, so the caller has not gone past it.
LEMMA StepTaskEnds ==
    ASSUME IInv, NEW n \in Tasks, Complete(n) \/ Fail(n)
    PROVE  IInv'
<1>1. use \in Uses /\ call \in DOMAIN use.sizes /\ i \in 0..Jobs(call)
      /\ tasks \in [Tasks -> TaskStates]
  BY DEF IInv, TypeOK
<1>2. tasks[n] = "running" /\ UNCHANGED <<use, call, pc, i, at, visits>>
  BY DEF Complete, Fail
<1>3. PICK s \in {"done", "failed"} :
        tasks' = [tasks EXCEPT ![n] = s] /\ (s = "done" => at[n] = End(call, n))
  BY DEF Complete, Fail, TaskIs
<1>4. TypeOK'
  BY <1>1, <1>2, <1>3 DEF IInv, TypeOK, TaskStates, Tasks, Jobs, Size, Items
<1>5. Progress'
  BY <1>1, <1>2, <1>3, ProgressKept
     DEF TaskStates, IInv, Progress, TaskProgress
<1>6. Joined'
  BY <1>1, <1>2, <1>3 DEF IInv, Joined, Tasks, Jobs, Size
<1> QED
  BY <1>4, <1>5, <1>6 DEF IInv

\* The next index of a running task was not processed before.
LEMMA StepProcess ==
    ASSUME IInv, NEW n \in Tasks, Process(n)
    PROVE  IInv'
<1>1. use \in Uses /\ call \in DOMAIN use.sizes /\ at \in [Tasks -> Nat]
      /\ tasks \in [Tasks -> TaskStates]
  BY DEF IInv, TypeOK
<1>2. /\ use.jobs \in Nat /\ Size(call) \in Nat /\ Jobs(call) \in Nat
      /\ call \in Nat
  BY <1>1, CallArithmetic
<1>3. Begin(call, n) \in Nat /\ End(call, n) \in Nat /\ End(call, n) <= Size(call)
  BY <1>1, CallBounds DEF Tasks
<1>4. /\ tasks[n] = "running" /\ at[n] < End(call, n) /\ at[n] \in Nat
      /\ Begin(call, n) <= at[n]
      /\ at' = [at EXCEPT ![n] = @ + 1]
      /\ visits' = [visits EXCEPT ![call][at[n]] = @ + 1]
      /\ UNCHANGED <<use, call, pc, i, tasks>>
  BY <1>1 DEF Process, IInv, Progress, TaskProgress
<1>5. at[n] \in Items(call)
  BY <1>2, <1>3, <1>4 DEF Items
<1>6. visits[call][at[n]] = 0
  BY <1>4, <1>5 DEF IInv, Progress, TaskProgress
<1>7. /\ \A c \in DOMAIN use.sizes : c # call => visits'[c] = visits[c]
      /\ \A k \in Items(call) :
            visits'[call][k] = IF k = at[n] THEN 1 ELSE visits[call][k]
      /\ DOMAIN visits' = DOMAIN use.sizes
      /\ visits'[call] \in [Items(call) -> Nat]
  BY <1>1, <1>4, <1>5, <1>6 DEF IInv, TypeOK
<1>8. TypeOK'
  BY <1>1, <1>4, <1>7 DEF IInv, TypeOK, Tasks, Jobs, Size, Items
<1>9. Progress'
  <2>1. ASSUME NEW m \in Tasks PROVE TaskProgress(m)'
    <3>1. CASE m = n
      <4>1. at'[n] = at[n] + 1
        BY <1>1, <1>4
      <4>2. ASSUME NEW k \in Items(call), Begin(call, n) <= k, k < End(call, n)
            PROVE  visits'[call][k] = IF k < at[n] + 1 THEN 1 ELSE 0
        <5>1. k \in Int
          BY <1>2 DEF Items
        <5>2. visits[call][k] = IF k < at[n] THEN 1 ELSE 0
          BY <4>2 DEF IInv, Progress, TaskProgress
        <5> QED
          BY <1>4, <1>7, <5>1, <5>2
      <4> QED
        BY <1>3, <1>4, <3>1, <4>1, <4>2
           DEF TaskProgress, Begin, End, Size, Items
    <3>2. CASE m # n
      <4>1. at'[m] = at[m] /\ tasks'[m] = tasks[m]
        BY <1>1, <1>4, <3>2
      <4>2. ASSUME NEW k \in Items(call), Begin(call, m) <= k, k < End(call, m)
            PROVE  visits'[call][k] = visits[call][k]
        BY <1>1, <1>4, <1>5, <1>7, <3>2, <4>2, CallDisjoint DEF Tasks
      <4>3. TaskProgress(m)
        BY DEF IInv, Progress
      <4> QED
        BY <1>4, <4>1, <4>2, <4>3 DEF TaskProgress, Begin, End, Size, Items
    <3> QED
      BY <3>1, <3>2
  <2>2. \A c \in DOMAIN use.sizes : c \in Nat /\ (c < call \/ c > call => c # call)
    BY <1>1, <1>2, CallArithmetic
  <2> QED
    BY <1>1, <1>4, <1>7, <2>1, <2>2 DEF IInv, Progress, Tasks, Jobs, Size, Items
<1>10. Joined'
  BY <1>4 DEF IInv, Joined, Tasks, Jobs, Size
<1> QED
  BY <1>8, <1>9, <1>10 DEF IInv

\* A call is over when all its tasks are done, and the next one starts afresh.
LEMMA StepReturn == IInv /\ Return => IInv'
<1> SUFFICES ASSUME IInv, Return PROVE IInv'
  OBVIOUS
<1>1. use \in Uses /\ call \in DOMAIN use.sizes /\ i = Jobs(call) /\ pc = "join"
  BY DEF IInv, TypeOK, Return
<1>2. call \in Nat /\ Jobs(call) \in Nat \ {0}
  BY <1>1, CallArithmetic
<1>3. \A n \in Tasks : tasks[n] = "done"
  BY <1>1, <1>2 DEF IInv, Joined, Tasks
<1>4. \A k \in Items(call) : visits[call][k] = 1
  BY <1>3, AllDone
<1>5. CASE call = Len(use.sizes) /\ UNCHANGED call
  <2>1. UNCHANGED <<use, call, i, tasks, at, visits>> /\ pc' = "returned"
    BY <1>2, <1>5 DEF Return
  <2>2. TypeOK'
    BY <1>1, <2>1
       DEF IInv, TypeOK, TaskStates, Tasks, Jobs, Size, Begin, Items
  <2>3. Progress'
    BY <2>1, ProgressKept DEF IInv, TypeOK, Progress, TaskProgress
  <2>4. Joined'
    BY <1>3, <1>5, <2>1 DEF Joined, Tasks, Jobs, Size
  <2> QED
    BY <2>2, <2>3, <2>4 DEF IInv
<1>6. CASE call < Len(use.sizes) /\ call' = call + 1
  <2>1. /\ call' = call + 1 /\ pc' = "spawn" /\ i' = 0
        /\ UNCHANGED <<use, visits>>
        /\ tasks' = [n \in 0..Jobs(call + 1) - 1 |-> "none"]
        /\ at' = [n \in 0..Jobs(call + 1) - 1 |-> Begin(call + 1, n)]
    BY <1>2, <1>6 DEF Return
  <2>2. use.sizes \in Seq(Nat)
    BY <1>1, UsesAssumption
  <2>3. call + 1 \in DOMAIN use.sizes
    BY <1>2, <1>6, <2>2
  <2>4. Jobs(call + 1) \in Nat \ {0}
    BY <1>1, <2>3, CallArithmetic
  <2>5. \A n \in 0..Jobs(call + 1) - 1 :
          /\ Begin(call + 1, n) \in Nat /\ End(call + 1, n) \in Nat
          /\ Begin(call + 1, n) <= End(call + 1, n)
    BY <1>1, <2>3, CallBounds
  <2>6. /\ Tasks' = 0..Jobs(call + 1) - 1
        /\ Jobs(call)' = Jobs(call + 1)
        /\ Items(call)' = Items(call + 1)
        /\ \A n : Begin(call, n)' = Begin(call + 1, n)
                  /\ End(call, n)' = End(call + 1, n)
        /\ \A c : Items(c)' = Items(c)
    BY <2>1 DEF Tasks, Jobs, Size, Begin, End, Items
  <2>7. TypeOK'
    BY <1>1, <2>1, <2>3, <2>4, <2>5, <2>6 DEF IInv, TypeOK, TaskStates
  <2>8. \A c \in DOMAIN use.sizes :
          /\ c \in Nat
          /\ c < call + 1 => c < call \/ c = call
          /\ c >= call + 1 => c > call
    BY <1>1, <1>2, CallArithmetic
  <2>9. \A c \in DOMAIN use.sizes : \A k \in Items(c) :
          /\ c < call + 1 => visits[c][k] = 1
          /\ c >= call + 1 => visits[c][k] = 0
    BY <1>4, <2>8 DEF IInv, Progress
  <2>10. ASSUME NEW n \in Tasks' PROVE TaskProgress(n)'
    <3>1. at'[n] = Begin(call + 1, n) /\ tasks'[n] = "none"
      BY <2>1, <2>6
    <3>2. ASSUME NEW k \in Items(call + 1), Begin(call + 1, n) <= k
          PROVE  visits'[call + 1][k] = IF k < at'[n] THEN 1 ELSE 0
      <4>1. visits[call + 1][k] = 0
        BY <1>2, <2>3, <2>9
      <4>2. k \in Int /\ Begin(call + 1, n) \in Nat
        BY <1>1, <2>3, <2>5, <2>6, CallArithmetic DEF Items
      <4> QED
        BY <2>1, <3>1, <3>2, <4>1, <4>2
    <3> QED
      BY <2>1, <2>5, <2>6, <3>1, <3>2 DEF TaskProgress
  <2>11. Progress'
    <3>1. \A c \in DOMAIN use.sizes : c > call + 1 => c >= call + 1
      BY <1>2, <2>8
    <3> QED
      BY <2>1, <2>6, <2>9, <2>10, <3>1 DEF Progress
  <2>12. Joined'
    BY <2>1, <2>6 DEF Joined
  <2> QED
    BY <2>7, <2>11, <2>12 DEF IInv
<1> QED
  BY <1>5, <1>6 DEF Return

LEMMA StepIInv == IInv /\ [Next]_vars => IInv'
<1> SUFFICES ASSUME IInv, [Next]_vars PROVE IInv'
  OBVIOUS
<1>1. CASE Async
  BY <1>1, StepAsync
<1>2. CASE AsyncThrows \/ StartJoining \/ Get \/ GetThrows \/ Unwound
  BY <1>2, StepCallerMoves
<1>3. CASE RunDeferred
  BY <1>3, StepRunDeferred
<1>4. CASE Return
  BY <1>4, StepReturn
<1>5. CASE \E n \in Tasks : Process(n)
  BY <1>5, StepProcess
<1>6. CASE \E n \in Tasks : Complete(n) \/ Fail(n)
  BY <1>6, StepTaskEnds
<1>7. CASE UNCHANGED vars
  <2>1. UNCHANGED <<use, call, pc, i, tasks, at, visits>>
    BY <1>7 DEF vars
  <2>2. TypeOK' /\ Joined'
    BY <2>1 DEF IInv, TypeOK, TaskStates, Joined, Tasks, Jobs, Size, Items
  <2>3. Progress'
    BY <2>1, ProgressKept DEF IInv, TypeOK, Progress, TaskProgress
  <2> QED
    BY <2>2, <2>3 DEF IInv
<1> QED
  BY <1>1, <1>2, <1>3, <1>4, <1>5, <1>6, <1>7 DEF Next, Caller

-----------------------------------------------------------------------------
(* What follows for every behaviour *)

\* IInv holds in every reachable state.
THEOREM Invariance == Spec => []IInv
<1> QED
  BY InitIInv, StepIInv, PTL DEF Spec

\* The variables keep their types, for every number of jobs and every size.
THEOREM TypeCorrect == Spec => []TypeOK
<1>1. IInv => TypeOK
  BY DEF IInv
<1> QED
  BY <1>1, Invariance, PTL

\* No index is processed twice: an index of the call under way is in one
\* task's chunk, and that task has passed it at most once.
THEOREM NoIndexTwice == Spec => []NeverTwice
<1>1. IInv => NeverTwice
  <2> SUFFICES ASSUME IInv, NEW c \in DOMAIN use.sizes, NEW k \in Items(c)
               PROVE  visits[c][k] <= 1
    BY DEF NeverTwice
  <2>1. use \in Uses /\ call \in DOMAIN use.sizes
    BY DEF IInv, TypeOK
  <2>2. /\ use.jobs \in Nat /\ Size(c) \in Nat /\ c \in Nat
        /\ call \in Nat /\ Size(call) \in Nat
    BY <2>1, CallArithmetic
  <2>3. CASE c # call
    <3>1. c < call \/ c > call
      BY <2>2, <2>3
    <3>2. visits[c][k] = 1 \/ visits[c][k] = 0
      BY <3>1 DEF IInv, Progress
    <3> QED
      BY <3>2
  <2>4. CASE c = call
    <3>1. PICK n \in Tasks : Begin(call, n) <= k /\ k < End(call, n)
      BY <2>2, <2>4, ChunksCover DEF Items, Tasks, Jobs, Begin, End
    <3>2. visits[call][k] = 1 \/ visits[call][k] = 0
      BY <2>4, <3>1 DEF IInv, Progress, TaskProgress
    <3> QED
      BY <2>4, <3>2
  <2> QED
    BY <2>3, <2>4
<1> QED
  BY <1>1, Invariance, PTL

\* A call that returned has processed every index exactly once, so the column
\* pass of a blur reads finished rows, whatever the remainder of the division.
THEOREM NothingLeftOut == Spec => []CompleteBeforeNext
<1>1. IInv => CompleteBeforeNext
  <2> SUFFICES ASSUME IInv, NEW c \in DOMAIN use.sizes, NEW k \in Items(c),
                      c < call \/ pc = "returned"
               PROVE  visits[c][k] = 1
    BY DEF CompleteBeforeNext
  <2>1. CASE c < call
    BY <2>1 DEF IInv, Progress
  <2>2. CASE pc = "returned" /\ ~(c < call)
    <3>1. use \in Uses /\ call = Len(use.sizes) /\ \A n \in Tasks : tasks[n] = "done"
      BY <2>2 DEF IInv, TypeOK, Joined
    <3>2. use.sizes \in Seq(Nat)
      BY <3>1, UsesAssumption
    <3>3. c = call
      BY <2>2, <3>1, <3>2
    <3> QED
      BY <3>1, <3>3, AllDone
  <2> QED
    BY <2>1, <2>2
<1> QED
  BY <1>1, Invariance, PTL

\* When parallelize is left, by return or by exception, no task runs.
THEOREM NoTaskOutlives == Spec => []NothingLeftRunning
<1>1. IInv => NothingLeftRunning
  BY DEF IInv, Joined, NothingLeftRunning, Running
<1> QED
  BY <1>1, Invariance, PTL

=============================================================================
