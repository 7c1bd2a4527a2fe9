---------------------------- MODULE Parallelize ----------------------------
(***************************************************************************)
(* mapnik::util::parallelize (include/mapnik/util/parallelize.hpp): a work *)
(* of 0..work_size-1 is cut into chunks, one std::async task per chunk,    *)
(* and the caller joins the tasks in their order.  Compositing and scaling *)
(* call it once per image; the stack blur calls it for the rows and, once  *)
(* that returned, for the columns, which read what the rows wrote.         *)
(***************************************************************************)
EXTENDS Integers, Sequences

CONSTANTS
    Uses,       \* [jobs, sizes]: the calls one user makes in a row
    MayThrow    \* TRUE: a task may throw, and std::async may fail

ASSUME UsesAssumption ==
    /\ \A u \in Uses : u.jobs \in Nat /\ u.sizes \in Seq(Nat) /\ u.sizes # <<>>
    /\ MayThrow \in BOOLEAN

VARIABLES
    use,        \* the calls the caller makes
    call,       \* the number of the one under way
    pc,         \* where the caller stands in it
    i,          \* its loop counter
    tasks,      \* futures: the state of the task behind each
    at,         \* the next index of each task's chunk
    visits      \* history: how often each index of each call was processed

vars == <<use, call, pc, i, tasks, at, visits>>

-----------------------------------------------------------------------------
Greater(a, b) == IF a >= b THEN a ELSE b
Lesser(a, b) == IF a <= b THEN a ELSE b

\* The jobs argument for an image: one for each million pixels, and no more
\* than max_concurrency or, without one, half the hardware threads.  Images
\* are at most 65535 pixels wide and high: the 32-bit product does not wrap.
JobsByImageSize(width, height, max_concurrency, hardware, million) ==
    LET max_jobs == IF max_concurrency # 0 THEN max_concurrency
                    ELSE Greater(1, hardware \div 2)
    IN  Greater(1, Lesser((width * height) \div million, max_jobs))

(* The chunks of a work of the given size, for the asked number of jobs *)

\* jobs and chunk_size: less work than jobs is one chunk.
JobsFor(asked, size) ==
    IF size \div Greater(asked, 1) = 0 THEN 1 ELSE Greater(asked, 1)
ChunkFor(asked, size) ==
    IF size \div Greater(asked, 1) = 0 THEN size ELSE size \div Greater(asked, 1)

ChunkBegin(asked, size, n) == n * ChunkFor(asked, size)

\* Mutant: the remainder is nobody's.
ChunkEndRounded(asked, size, n) == (n + 1) * ChunkFor(asked, size)

\* Mutant: the chunks are closed intervals.
ChunkEndInclusive(asked, size, n) ==
    IF n = JobsFor(asked, size) - 1 THEN size
    ELSE (n + 1) * ChunkFor(asked, size) + 1

\* chunk_end: the last chunk takes the remainder.
ChunkEnd(asked, size, n) ==
    IF n = JobsFor(asked, size) - 1 THEN size ELSE (n + 1) * ChunkFor(asked, size)

Size(c) == use.sizes[c]
Jobs(c) == JobsFor(use.jobs, Size(c))
Begin(c, n) == ChunkBegin(use.jobs, Size(c), n)
End(c, n) == ChunkEnd(use.jobs, Size(c), n)
Items(c) == 0..Size(c) - 1
Tasks == 0..Jobs(call) - 1

\* "none": no task yet; "deferred": to run when its result is asked for;
\* "running"; "done"; "failed": it threw.
TaskStates == {"none", "deferred", "running", "done", "failed"}

Running == {n \in Tasks : tasks[n] = "running"}
TaskIs(n, s) == tasks' = [tasks EXCEPT ![n] = s]

Init ==
    /\ use \in Uses
    /\ call = 1
    /\ pc = "spawn"
    /\ i = 0
    /\ tasks = [n \in Tasks |-> "none"]
    /\ at = [n \in Tasks |-> Begin(call, n)]
    /\ visits = [c \in DOMAIN use.sizes |-> [k \in Items(c) |-> 0]]

-----------------------------------------------------------------------------
(* The caller *)

\* std::async: one chunk alone is deferred, several run at once.
Async ==
    /\ pc = "spawn"
    /\ i < Jobs(call)
    /\ TaskIs(i, IF Jobs(call) = 1 THEN "deferred" ELSE "running")
    /\ i' = i + 1
    /\ UNCHANGED <<use, call, pc, at, visits>>

\* No thread can be started.
AsyncThrows ==
    /\ MayThrow
    /\ pc = "spawn"
    /\ i < Jobs(call)
    /\ Jobs(call) > 1
    /\ pc' = "unwind"
    /\ UNCHANGED <<use, call, i, tasks, at, visits>>

StartJoining ==
    /\ pc = "spawn"
    /\ i = Jobs(call)
    /\ pc' = "join"
    /\ i' = 0
    /\ UNCHANGED <<use, call, tasks, at, visits>>

\* Mutant: the caller polls with wait_for, which starts no deferred task.
RunDeferredNever == FALSE /\ UNCHANGED vars

\* get of a deferred task runs it, in the thread of the caller.
RunDeferred ==
    /\ pc = "join"
    /\ i < Jobs(call)
    /\ tasks[i] = "deferred"
    /\ TaskIs(i, "running")
    /\ UNCHANGED <<use, call, pc, i, at, visits>>

\* Mutant: the caller goes on without the result.
GetReady ==
    /\ pc = "join"
    /\ i < Jobs(call)
    /\ tasks[i] \in {"running", "done"}
    /\ i' = i + 1
    /\ UNCHANGED <<use, call, pc, tasks, at, visits>>

Get ==
    /\ pc = "join"
    /\ i < Jobs(call)
    /\ tasks[i] = "done"
    /\ i' = i + 1
    /\ UNCHANGED <<use, call, pc, tasks, at, visits>>

\* get rethrows, and the futures are destroyed.
GetThrows ==
    /\ pc = "join"
    /\ i < Jobs(call)
    /\ tasks[i] = "failed"
    /\ pc' = "unwind"
    /\ UNCHANGED <<use, call, i, tasks, at, visits>>

\* Mutant: the next call goes on with the counter of this one.
ReturnCounting ==
    /\ pc = "join"
    /\ i = Jobs(call)
    /\ \/ /\ call = Len(use.sizes)
          /\ pc' = "returned"
          /\ UNCHANGED <<call, tasks, at>>
       \/ /\ call < Len(use.sizes)
          /\ call' = call + 1
          /\ pc' = "spawn"
          /\ tasks' = [n \in 0..Jobs(call + 1) - 1 |-> "none"]
          /\ at' = [n \in 0..Jobs(call + 1) - 1 |-> Begin(call + 1, n)]
    /\ UNCHANGED <<use, i, visits>>

\* parallelize returns, and its user goes on with the next call.
Return ==
    /\ pc = "join"
    /\ i = Jobs(call)
    /\ \/ /\ call = Len(use.sizes)
          /\ pc' = "returned"
          /\ UNCHANGED <<call, i, tasks, at>>
       \/ /\ call < Len(use.sizes)
          /\ call' = call + 1
          /\ pc' = "spawn"
          /\ i' = 0
          /\ tasks' = [n \in 0..Jobs(call + 1) - 1 |-> "none"]
          /\ at' = [n \in 0..Jobs(call + 1) - 1 |-> Begin(call + 1, n)]
    /\ UNCHANGED <<use, visits>>

\* Mutant: the destructor of a future abandons its task.
UnwoundAtOnce ==
    /\ pc = "unwind"
    /\ pc' = "thrown"
    /\ UNCHANGED <<use, call, i, tasks, at, visits>>

\* The destructor of the future of an async task waits for the task.
Unwound ==
    /\ pc = "unwind"
    /\ Running = {}
    /\ pc' = "thrown"
    /\ UNCHANGED <<use, call, i, tasks, at, visits>>

-----------------------------------------------------------------------------
(* The tasks: func, called on the bounds of a chunk *)

Process(n) ==
    /\ tasks[n] = "running"
    /\ at[n] < End(call, n)
    /\ at' = [at EXCEPT ![n] = @ + 1]
    /\ visits' = [visits EXCEPT ![call][at[n]] = @ + 1]
    /\ UNCHANGED <<use, call, pc, i, tasks>>

Complete(n) ==
    /\ tasks[n] = "running"
    /\ at[n] = End(call, n)
    /\ TaskIs(n, "done")
    /\ UNCHANGED <<use, call, pc, i, at, visits>>

Fail(n) ==
    /\ MayThrow
    /\ tasks[n] = "running"
    /\ TaskIs(n, "failed")
    /\ UNCHANGED <<use, call, pc, i, at, visits>>

Caller ==
    \/ Async \/ StartJoining \/ RunDeferred \/ Get \/ GetThrows \/ Return
    \/ Unwound

Next ==
    \/ Caller
    \/ AsyncThrows
    \/ \E n \in Tasks : Process(n) \/ Complete(n) \/ Fail(n)

Spec == Init /\ [][Next]_vars

\* Started threads run, and so does the caller.
Fairness ==
    /\ WF_vars(Caller)
    /\ WF_vars(\E n \in Tasks : Process(n) \/ Complete(n))
FairSpec == Spec /\ Fairness

-----------------------------------------------------------------------------
(* Properties *)

TypeOK ==
    /\ use \in Uses
    /\ call \in DOMAIN use.sizes
    /\ pc \in {"spawn", "join", "unwind", "returned", "thrown"}
    /\ i \in 0..Jobs(call)
    /\ tasks \in [Tasks -> TaskStates]
    /\ at \in [Tasks -> Nat]
    /\ DOMAIN visits = DOMAIN use.sizes
    /\ \A c \in DOMAIN use.sizes : visits[c] \in [Items(c) -> Nat]

\* However the chunks are cut and interleaved, and whichever task throws, no
\* index is processed twice: two threads never write the same pixel row.
NeverTwice ==
    \A c \in DOMAIN use.sizes : \A k \in Items(c) : visits[c][k] <= 1

\* A call that returned has processed every index once, the remainder of the
\* division included; the columns of a blur are begun on finished rows.
CompleteBeforeNext ==
    \A c \in DOMAIN use.sizes :
        c < call \/ pc = "returned" => \A k \in Items(c) : visits[c][k] = 1

\* Once the caller is out of parallelize, by return or by exception, no task
\* works on the images it referred to.
NothingLeftRunning == pc \in {"returned", "thrown"} => Running = {}

\* Every call ends, in a result or in an exception.
CallsEnd == <>(pc \in {"returned", "thrown"})
=============================================================================
