--------------------------- MODULE SpiderThreadPool ---------------------------
(***************************************************************************)
(* Spider_Thread_Pool (Spider/spider_thread_pool.cpp) over the Win32       *)
(* semaphore and mutex of Porting/CrotonPorting.cpp.                       *)
(*                                                                         *)
(* One client thread (in the program, the executor's main thread) calls    *)
(* push_work and, at most once, the destructor.  The pool's threads run    *)
(* manage_function.  m_worker_count is a plain volatile int: its ++ and -- *)
(* are a load and a store, in two steps, outside the mutex.                *)
(***************************************************************************)
EXTENDS Integers, Sequences, FiniteSets

CONSTANTS
    Workers,    \* the threads the constructor managed to create
    Jobs,       \* the Job objects the client may push
    MaxPermits, \* max_thread_count, also the semaphore's maximum count
    NoJob       \* the NULL that pop_work returns on an empty queue

ASSUME PoolAssumption ==
    /\ IsFiniteSet(Workers)
    /\ MaxPermits \in Nat \ {0}
    /\ Cardinality(Workers) <= MaxPermits
    /\ NoJob \notin Jobs

VARIABLES
    queue,       \* m_work_queue
    permits,     \* the count of m_semaphore
    workerCount, \* m_worker_count
    pc,          \* pc[w]: where w is in manage_function
    job,         \* job[w]: its local "work"
    reg,         \* reg[w]: the register between load and store of m_worker_count
                 \* (0 when it is dead)
    client,      \* where the client is: idle, in push_work with the mutex
                 \* held, in the destructor with m_exit_flag set
    released,    \* permits the destructor's loop has released so far
    pushed,      \* jobs given to push_work so far
    failedPosts  \* post_semaphore calls that failed, a result push_work ignores

countVars == <<workerCount, reg>>
clientVars == <<client, released, pushed, failedPosts>>
vars == <<queue, permits, workerCount, pc, job, reg, clientVars>>

WorkerPC == {"check", "wait", "pop", "inc", "incStore", "run",
             "dec", "decStore", "exited"}

ClientPC == {"idle", "pushing", "releasing", "destroyed"}

Init ==
    /\ queue = <<>> /\ permits = 0 /\ workerCount = 0
    /\ pc = [w \in Workers |-> "check"]
    /\ job = [w \in Workers |-> NoJob]
    /\ reg = [w \in Workers |-> 0]
    /\ client = "idle" /\ released = 0
    /\ pushed = {} /\ failedPosts = 0

(* m_mutex is in push_work's hands; a worker's use of it is one step.      *)
MutexHeld == client = "pushing"

(* m_exit_flag: set by the destructor, never cleared.                      *)
ExitFlag == client \in {"releasing", "destroyed"}
-------------------------------------------------------------------------------
(* Porting: ReleaseSemaphore fails, and changes nothing, at the maximum.  *)

SemaphoreFull == permits >= MaxPermits

SemaphoreReleaseUnbounded == permits' = permits + 1   \* mutant: no maximum

SemaphoreRelease ==
    permits' = IF SemaphoreFull THEN permits ELSE permits + 1
-------------------------------------------------------------------------------
(* The client.                                                             *)

(* push_work up to the queue's push, with the mutex taken. *)
PushWork(j) ==
    /\ client = "idle"
    /\ j \notin pushed
    /\ queue' = Append(queue, j)
    /\ pushed' = pushed \cup {j}
    /\ client' = "pushing"
    /\ UNCHANGED <<permits, pc, job, countVars, released, failedPosts>>

(* Mutant: push_work returns without post_semaphore. *)
PostSemaphoreForgotten ==
    /\ client = "pushing"
    /\ client' = "idle"
    /\ UNCHANGED <<queue, permits, pc, job, countVars, released, pushed,
                   failedPosts>>

(* The rest of push_work: post_semaphore, whose result is dropped, and     *)
(* unlock_mutex.                                                           *)
PostSemaphore ==
    /\ client = "pushing"
    /\ SemaphoreRelease
    /\ failedPosts' = failedPosts + (IF SemaphoreFull THEN 1 ELSE 0)
    /\ client' = "idle"
    /\ UNCHANGED <<queue, pc, job, countVars, released, pushed>>

(* The destructor: raise the flag ... *)
SetExitFlag ==
    /\ client = "idle"
    /\ client' = "releasing"
    /\ UNCHANGED <<queue, permits, pc, job, countVars, released, pushed,
                   failedPosts>>

(* Mutant: the destructor releases once, for all threads together. *)
ReleasePermitOnce ==
    /\ client = "releasing"
    /\ released < Cardinality(Workers)
    /\ released' = Cardinality(Workers)
    /\ SemaphoreRelease
    /\ UNCHANGED <<queue, pc, job, countVars, client, pushed, failedPosts>>

(* ... release one permit per thread ... *)
ReleasePermit ==
    /\ client = "releasing"
    /\ released < Cardinality(Workers)
    /\ released' = released + 1
    /\ SemaphoreRelease
    /\ UNCHANGED <<queue, pc, job, countVars, client, pushed, failedPosts>>

(* ... and join them all. *)
JoinThreads ==
    /\ client = "releasing"
    /\ released = Cardinality(Workers)
    /\ \A w \in Workers : pc[w] = "exited"
    /\ client' = "destroyed"
    /\ UNCHANGED <<queue, permits, pc, job, countVars, released, pushed,
                   failedPosts>>
-------------------------------------------------------------------------------
(* manage_function, run by worker w.                                       *)

Goto(w, l) == pc' = [pc EXCEPT ![w] = l]

CheckExit(w) ==
    /\ pc[w] = "check"
    /\ Goto(w, IF ExitFlag THEN "exited" ELSE "wait")
    /\ UNCHANGED <<queue, permits, job, countVars, clientVars>>

WaitSemaphore(w) ==
    /\ pc[w] = "wait"
    /\ permits > 0
    /\ permits' = permits - 1
    /\ Goto(w, "pop")
    /\ UNCHANGED <<queue, job, countVars, clientVars>>

(* Mutant: pop_work returns front() and forgets pop(). *)
PopWorkKeeps(w) ==
    /\ pc[w] = "pop"
    /\ ~MutexHeld
    /\ job' = [job EXCEPT ![w] = IF queue = <<>> THEN @ ELSE Head(queue)]
    /\ Goto(w, "inc")
    /\ UNCHANGED <<queue, permits, countVars, clientVars>>

(* Mutant: pop_work takes the newest job. *)
PopWorkNewest(w) ==
    /\ pc[w] = "pop"
    /\ ~MutexHeld
    /\ IF queue = <<>>
       THEN UNCHANGED <<queue, job>>
       ELSE /\ job' = [job EXCEPT ![w] = queue[Len(queue)]]
            /\ queue' = SubSeq(queue, 1, Len(queue) - 1)
    /\ Goto(w, "inc")
    /\ UNCHANGED <<permits, countVars, clientVars>>

(* lock_mutex; pop_work; unlock_mutex: one change of the queue, so one step *)
(* that the client's critical section excludes.                            *)
PopWork(w) ==
    /\ pc[w] = "pop"
    /\ ~MutexHeld
    /\ IF queue = <<>>
       THEN UNCHANGED <<queue, job>>
       ELSE /\ job' = [job EXCEPT ![w] = Head(queue)]
            /\ queue' = Tail(queue)
    /\ Goto(w, "inc")
    /\ UNCHANGED <<permits, countVars, clientVars>>

LoadForIncrement(w) ==
    /\ pc[w] = "inc"
    /\ reg' = [reg EXCEPT ![w] = workerCount]
    /\ Goto(w, "incStore")
    /\ UNCHANGED <<queue, permits, job, workerCount, clientVars>>

StoreIncrement(w) ==
    /\ pc[w] = "incStore"
    /\ workerCount' = reg[w] + 1
    /\ reg' = [reg EXCEPT ![w] = 0]
    /\ Goto(w, "run")
    /\ UNCHANGED <<queue, permits, job, clientVars>>

(* run_thread_function returns: the job, when there is one, is executed.   *)
RunThreadFunction(w) ==
    /\ pc[w] = "run"
    /\ job' = [job EXCEPT ![w] = NoJob]
    /\ Goto(w, "dec")
    /\ UNCHANGED <<queue, permits, countVars, clientVars>>

LoadForDecrement(w) ==
    /\ pc[w] = "dec"
    /\ reg' = [reg EXCEPT ![w] = workerCount]
    /\ Goto(w, "decStore")
    /\ UNCHANGED <<queue, permits, job, workerCount, clientVars>>

StoreDecrement(w) ==
    /\ pc[w] = "decStore"
    /\ workerCount' = reg[w] - 1
    /\ reg' = [reg EXCEPT ![w] = 0]
    /\ Goto(w, "check")
    /\ UNCHANGED <<queue, permits, job, clientVars>>

ManageFunction(w) ==
    \/ CheckExit(w) \/ WaitSemaphore(w) \/ PopWork(w)
    \/ LoadForIncrement(w) \/ StoreIncrement(w)
    \/ RunThreadFunction(w)
    \/ LoadForDecrement(w) \/ StoreDecrement(w)
-------------------------------------------------------------------------------
Destructor == SetExitFlag \/ ReleasePermit \/ JoinThreads

Next ==
    \/ \E j \in Jobs : PushWork(j)
    \/ PostSemaphore
    \/ Destructor
    \/ \E w \in Workers : ManageFunction(w)

Spec == Init /\ [][Next]_vars

(* Every thread that can run keeps running, and a call once begun goes on; *)
(* the client need not push anything nor call the destructor.              *)
Fairness ==
    /\ WF_vars(PostSemaphore)
    /\ WF_vars(ReleasePermit \/ JoinThreads)
    /\ \A w \in Workers : WF_vars(ManageFunction(w))

FairSpec == Spec /\ Fairness
-------------------------------------------------------------------------------
Queued == {queue[i] : i \in 1..Len(queue)}

(* The jobs in workers' hands. *)
Taken == {job[w] : w \in Workers} \ {NoJob}

Executed == pushed \ (Queued \cup Taken)

(* The workers that have consumed a permit and not yet popped. *)
Entitled == {w \in Workers : pc[w] = "pop"}

Posting == IF client = "pushing" THEN 1 ELSE 0

TypeOK ==
    /\ queue \in Seq(Jobs)
    /\ permits \in 0..MaxPermits
    /\ workerCount \in Int
    /\ pc \in [Workers -> WorkerPC]
    /\ job \in [Workers -> Jobs \cup {NoJob}]
    /\ reg \in [Workers -> Int]
    /\ client \in ClientPC
    /\ released \in 0..Cardinality(Workers)
    /\ pushed \in SUBSET Jobs
    /\ failedPosts \in Nat

(* Until the destructor runs, every queued job is accounted for: a permit,  *)
(* a worker already past the semaphore, the post push_work is about to do,  *)
(* or a post that failed.  So a worker never pops from an empty queue, and  *)
(* the jobs nobody will ever be woken for are exactly the failed posts      *)
(* (manage_function lines 12-16, push_work lines 83-86).                    *)
PermitsMatchQueue ==
    ~ExitFlag =>
        Len(queue) = permits + Cardinality(Entitled) + Posting + failedPosts

(* A pushed job is in the queue once, or with one worker, never in two of   *)
(* these places: execute_func_ runs at most once per push.                  *)
NoJobTwice ==
    /\ \A i, k \in 1..Len(queue) : queue[i] = queue[k] => i = k
    /\ \A v, w \in Workers : job[v] = job[w] /\ job[v] # NoJob => v = w
    /\ Queued \cap Taken = {}
    /\ Queued \cup Taken \subseteq pushed

(* The pool implements its promise: FIFO, one job per thread and one thread *)
(* per job, no job dropped other than by being left in the queue.           *)
Abstract == INSTANCE JobPool WITH
    Threads <- Workers, None <- NoJob,
    waiting <- queue, holds <- job, finished <- Executed

ImplementsJobPool == Abstract!Spec

(* Every job is executed in the end, unless the pool is destroyed or some   *)
(* post failed: the semaphore's limit is the only way a push is forgotten.  *)
EveryJobExecuted ==
    \A j \in Jobs :
        j \in Queued ~> (j \in Executed \/ ExitFlag \/ failedPosts > 0)

(* The destructor's n releases are enough to get every worker out of its    *)
(* loop, whatever is queued and however many of the releases fail.          *)
DestructorTerminates == client = "releasing" ~> client = "destroyed"

(* spider_thread_pool.h:24 says of get_worker_count that it gets "the       *)
(* number of running threads": when no worker is between the two halves of  *)
(* an update, the count is the number of workers inside run_thread_function.*)
WorkerCountIsRunning ==
    (\A w \in Workers : pc[w] \notin {"incStore", "decStore"}) =>
        workerCount = Cardinality({w \in Workers : pc[w] \in {"run", "dec"}})
===============================================================================
