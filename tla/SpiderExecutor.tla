----------------------------- MODULE SpiderExecutor -----------------------------
(***************************************************************************)
(* Spider_Executor (Spider/spider_executor.cpp): the crawl loop.           *)
(*                                                                         *)
(* Three kinds of thread meet here.  The program's main thread puts the    *)
(* seeds' URLs in m_task_queue and then sits in execute_loop, polling for  *)
(* idleness.  The executor's own thread (main_thread_aid) moves URLs from  *)
(* the task queue to sockets, from sockets that select reports to the      *)
(* thread pool.  The pool's workers (SpiderThreadPool, whose actions are   *)
(* reused step by step) run worker_work, which may put further URLs.       *)
(*                                                                         *)
(* A URL of the task queue is a record: the page it names and whether      *)
(* Spider_Url_Rinse resolved its address.  A socket and a job are named by *)
(* the page they fetch: rinse hands over a page at most once.              *)
(***************************************************************************)
EXTENDS Integers, Sequences, FiniteSets, SequencesExt

CONSTANTS
    Pages,            \* the pages rinse may hand over
    Workers, MaxPermits, NoPage,
    KMinSet,          \* kMinSet: fill the fd_set when it holds fewer sockets
    KProcessCountPer, \* kProcessCountPer: URLs taken from the queue at a time
    QueueLimit,       \* the 4 of line 103: and fewer jobs wait in the pool
    IdleLimit         \* the 10 of line 69: idle polls before giving up

ASSUME ExecutorAssumption ==
    /\ IsFiniteSet(Pages) /\ NoPage \notin Pages
    /\ IsFiniteSet(Workers)
    /\ MaxPermits \in Nat \ {0}
    /\ Cardinality(Workers) <= MaxPermits
    /\ KMinSet \in Nat \ {0}
    /\ KProcessCountPer \in Nat \ {0}
    /\ QueueLimit \in Nat \ {0}
    /\ IdleLimit \in Nat

VARIABLES
    taskQueue,  \* m_task_queue
    known,      \* the pages rinse has handed over (its m_url_table)
    allFds,     \* m_all_fdset
    ready,      \* the sockets of allFds on which the server has answered
    fdRead,     \* fd_read: what select returned and main_thread_aid has not done
    mainPc,     \* where main_thread_aid is
    loopPc,     \* where the program's main() is
    idleNum,    \* execute_loop's num == 0
    idleCount,  \* execute_loop's count
    dropped,    \* the URLs whose send_request failed: nobody remembers them
    stage,      \* stage[w]: how far worker_work is with the job of worker w
    queue, permits, workerCount, pc, job, reg,
    client, released, pushed, failedPosts     \* the pool's

Pool == INSTANCE SpiderThreadPool WITH Jobs <- Pages, NoJob <- NoPage

poolVars == <<queue, permits, workerCount, pc, job, reg,
              client, released, pushed, failedPosts>>
fdVars == <<allFds, ready, fdRead>>
loopVars == <<loopPc, idleNum, idleCount>>
vars == <<taskQueue, known, fdVars, mainPc, loopVars, dropped, stage, poolVars>>

Url == [page : Pages, resolved : BOOLEAN]

MainPC == {"fill", "select", "dispatch", "exited"}
LoopPC == {"seeding", "count", "queue", "left", "joining", "ended"}

(* "spin": recv_response's loops, which go on whatever recv's 0 means, turn  *)
(* for ever on a connection the server closed early, or wait for a server   *)
(* that says no more.                                                      *)
Stage == {"receive", "spin", "parse"}

Init ==
    /\ taskQueue = <<>> /\ known = {} /\ dropped = {}
    /\ allFds = {} /\ ready = {} /\ fdRead = {}
    /\ mainPc = "fill"
    /\ loopPc = "seeding" /\ idleNum = FALSE /\ idleCount = 0
    /\ stage = [w \in Workers |-> "receive"]
    /\ Pool!Init

PagesOf(urls) == {urls[i].page : i \in 1..Len(urls)}

ResolvedIn(urls) ==
    {urls[i].page : i \in {k \in 1..Len(urls) : urls[k].resolved}}
-------------------------------------------------------------------------------
(* Spider_Url_Rinse hands over a page it has not handed over before; it may *)
(* have failed to resolve its address, and queues it all the same.         *)

PutUrls(p, resolved) ==
    /\ p \notin known
    /\ known' = known \cup {p}
    /\ taskQueue' = Append(taskQueue, [page |-> p, resolved |-> resolved])

(* main() lines 32-49: a link of a seed's start page. *)
Seed(p) ==
    /\ loopPc = "seeding"
    /\ \E resolved \in BOOLEAN : PutUrls(p, resolved)
    /\ UNCHANGED <<fdVars, mainPc, loopVars, dropped, stage, poolVars>>

(* main() line 45: "load all seed". *)
LoadAllSeed ==
    /\ loopPc = "seeding"
    /\ loopPc' = "count"
    /\ UNCHANGED <<taskQueue, known, fdVars, mainPc, idleNum, idleCount,
                   dropped, stage, poolVars>>
-------------------------------------------------------------------------------
(* execute_loop, one poll in two unlocked reads, and main()'s end.         *)

ReadWorkerCount ==
    /\ loopPc = "count"
    /\ idleNum' = (workerCount = 0)
    /\ loopPc' = "queue"
    /\ UNCHANGED <<taskQueue, known, fdVars, mainPc, idleCount, dropped, stage, poolVars>>

(* Mutant: the break at line 72 is missing. *)
ReadTaskQueueNoBreak ==
    /\ loopPc = "queue"
    /\ idleCount' = IF idleNum /\ taskQueue = <<>> THEN idleCount + 1 ELSE 0
    /\ loopPc' = "count"
    /\ idleNum' = FALSE
    /\ idleCount <= IdleLimit + 1
    /\ UNCHANGED <<taskQueue, known, fdVars, mainPc, dropped, stage, poolVars>>

ReadTaskQueue ==
    /\ loopPc = "queue"
    /\ LET count == IF idleNum /\ taskQueue = <<>> THEN idleCount + 1 ELSE 0
       IN  /\ idleCount' = count
           /\ loopPc' = IF count > IdleLimit THEN "left" ELSE "count"
    /\ idleNum' = FALSE
    /\ UNCHANGED <<taskQueue, known, fdVars, mainPc, dropped, stage, poolVars>>

ExitNeverSet == loopPc = "ended"       \* mutant: uninitialize forgets m_exit

(* m_exit: uninitialize sets it, after execute_loop has been left ...      *)
Exit == loopPc \in {"joining", "ended"}

SetExit ==
    /\ loopPc = "left"
    /\ loopPc' = "joining"
    /\ UNCHANGED <<taskQueue, known, fdVars, mainPc, idleNum, idleCount,
                   dropped, stage, poolVars>>

(* ... and joins the executor's thread.                                    *)
JoinMainThread ==
    /\ loopPc = "joining"
    /\ mainPc = "exited"
    /\ loopPc' = "ended"
    /\ UNCHANGED <<taskQueue, known, fdVars, mainPc, idleNum, idleCount,
                   dropped, stage, poolVars>>
-------------------------------------------------------------------------------
(* main_thread_aid.                                                        *)

BatchSize == IF Len(taskQueue) < KProcessCountPer THEN Len(taskQueue)
                                                 ELSE KProcessCountPer
Batch == SubSeq(taskQueue, 1, BatchSize)

(* Mutants: the thresholds of line 103 are passed when they are equalled;   *)
(* the pool's queue is not looked at.                                      *)
MayFillAtThreshold == Cardinality(allFds) <= KMinSet /\ Len(queue) < QueueLimit

MayFillAnyQueue == Cardinality(allFds) < KMinSet

MayFill == Cardinality(allFds) < KMinSet /\ Len(queue) < QueueLimit

(* Mutant: the loop of line 107 pops before it tests, and loses a URL. *)
FillFdSetPopsFirst ==
    /\ mainPc = "fill"
    /\ ~Exit
    /\ IF MayFill
       THEN /\ taskQueue' = SubSeq(taskQueue, BatchSize + 2, Len(taskQueue))
            /\ allFds' = allFds \cup ResolvedIn(Batch)
            /\ dropped' = dropped \cup {u \in Range(Batch) : ~u.resolved}
       ELSE UNCHANGED <<taskQueue, allFds, dropped>>
    /\ mainPc' = IF allFds' = {} THEN "fill" ELSE "select"
    /\ UNCHANGED <<known, ready, fdRead, loopVars, stage, poolVars>>

(* Lines 103-122, under m_queue_mutex: send_request fails at once for a URL *)
(* without address, and may fail to connect ("refused").                   *)
FillFdSet ==
    /\ mainPc = "fill"
    /\ ~Exit
    /\ IF MayFill
       THEN \E refused \in SUBSET ResolvedIn(Batch) :
              LET gone == {u \in Range(Batch) : u.resolved => u.page \in refused}
              IN  /\ taskQueue' = SubSeq(taskQueue, BatchSize + 1, Len(taskQueue))
                  /\ allFds' = allFds \cup (ResolvedIn(Batch) \ refused)
                  /\ dropped' = dropped \cup gone
       ELSE UNCHANGED <<taskQueue, allFds, dropped>>
    /\ mainPc' = IF allFds' = {} THEN "fill" ELSE "select"
    /\ UNCHANGED <<known, ready, fdRead, loopVars, stage, poolVars>>

ExitMainThread ==
    /\ mainPc = "fill"
    /\ Exit
    /\ mainPc' = "exited"
    /\ UNCHANGED <<taskQueue, known, fdVars, loopVars, dropped, stage, poolVars>>

(* select has no timeout: it returns when some socket is readable ...      *)
Select ==
    /\ mainPc = "select"
    /\ allFds \cap ready # {}
    /\ fdRead' = allFds \cap ready
    /\ mainPc' = "dispatch"
    /\ UNCHANGED <<taskQueue, known, allFds, ready, loopVars, dropped, stage, poolVars>>

(* ... or when it fails, and nothing is done.                              *)
SelectError ==
    /\ mainPc = "select"
    /\ mainPc' = "fill"
    /\ UNCHANGED <<taskQueue, known, fdVars, loopVars, dropped, stage, poolVars>>

(* Lines 141-150 for one socket: push_work, in two steps, then FD_CLR.     *)
PushJob(s) ==
    /\ mainPc = "dispatch"
    /\ s \in fdRead /\ fdRead \cap pushed = {}
    /\ s \in allFds
    /\ Pool!PushWork(s)
    /\ UNCHANGED <<taskQueue, known, fdVars, mainPc, loopVars, dropped, stage>>

PostJob ==
    /\ Pool!PostSemaphore
    /\ UNCHANGED <<taskQueue, known, fdVars, mainPc, loopVars, dropped, stage>>

(* Mutant: FD_CLR is missing. *)
ClearFdForgotten(s) ==
    /\ mainPc = "dispatch"
    /\ client = "idle"
    /\ s \in fdRead \cap pushed
    /\ fdRead' = fdRead \ {s}
    /\ UNCHANGED <<taskQueue, known, allFds, ready, mainPc, loopVars, dropped,
                   stage, poolVars>>

ClearFd(s) ==
    /\ mainPc = "dispatch"
    /\ client = "idle"
    /\ s \in fdRead \cap pushed
    /\ allFds' = allFds \ {s}
    /\ fdRead' = fdRead \ {s}
    /\ ready' = ready \ {s}
    /\ UNCHANGED <<taskQueue, known, mainPc, loopVars, dropped, stage, poolVars>>

DispatchDone ==
    /\ mainPc = "dispatch"
    /\ fdRead = {}
    /\ mainPc' = "fill"
    /\ UNCHANGED <<taskQueue, known, fdVars, loopVars, dropped, stage, poolVars>>

MainThread ==
    \/ FillFdSet \/ ExitMainThread \/ Select \/ PostJob \/ DispatchDone
    \/ \E s \in Pages : PushJob(s) \/ ClearFd(s)

(* The server of an open connection says something, or closes it: select   *)
(* has it for readable, though a job for it may find no end.               *)
ServerAnswers(s) ==
    /\ s \in allFds \ (ready \cup pushed)
    /\ ready' = ready \cup {s}
    /\ UNCHANGED <<taskQueue, known, allFds, fdRead, mainPc, loopVars, dropped,
                   stage, poolVars>>
-------------------------------------------------------------------------------
(* worker_work, the job of worker w.                                       *)

At(w, where) == pc[w] = "run" /\ job[w] # NoPage /\ stage[w] = where

(* recv_response: a page to be processed, or no end at all.                *)
RecvResponse(w) ==
    /\ At(w, "receive")
    /\ \E next \in {"parse", "spin"} : stage' = [stage EXCEPT ![w] = next]
    /\ UNCHANGED <<taskQueue, known, fdVars, mainPc, loopVars, dropped, poolVars>>

(* A redirect or a failed download: create_url makes a URL anew, and a new  *)
(* URL has no address (spider_url.cpp create_url).  Which page a redirect   *)
(* names makes no difference: its URL is named for the page it came from.  *)
PutAgain(w) ==
    /\ At(w, "receive")
    /\ Pool!RunThreadFunction(w)
    /\ taskQueue' = Append(taskQueue, [page |-> job[w], resolved |-> FALSE])
    /\ UNCHANGED <<known, fdVars, mainPc, loopVars, dropped, stage>>

(* Status 200: the site's process() gives a link it found to rinse ...     *)
PutLink(w) ==
    /\ At(w, "parse")
    /\ \E p \in Pages, resolved \in BOOLEAN : PutUrls(p, resolved)
    /\ UNCHANGED <<fdVars, mainPc, loopVars, dropped, stage, poolVars>>

(* ... and has given the last; or there is nothing to process.             *)
ProcessPage(w) ==
    /\ At(w, "parse")
    /\ Pool!RunThreadFunction(w)
    /\ stage' = [stage EXCEPT ![w] = "receive"]
    /\ UNCHANGED <<taskQueue, known, fdVars, mainPc, loopVars, dropped>>

(* The rest of manage_function.                                            *)
WorkerStep(w) ==
    /\ \/ Pool!CheckExit(w) \/ Pool!WaitSemaphore(w) \/ Pool!PopWork(w)
       \/ Pool!LoadForIncrement(w) \/ Pool!StoreIncrement(w)
       \/ Pool!LoadForDecrement(w) \/ Pool!StoreDecrement(w)
       \/ job[w] = NoPage /\ Pool!RunThreadFunction(w)
    /\ UNCHANGED <<taskQueue, known, fdVars, mainPc, loopVars, dropped, stage>>

Worker(w) ==
    WorkerStep(w) \/ RecvResponse(w) \/ PutAgain(w) \/ PutLink(w) \/ ProcessPage(w)
-------------------------------------------------------------------------------
ExecuteLoop == ReadWorkerCount \/ ReadTaskQueue

Next ==
    \/ \E p \in Pages : Seed(p)
    \/ LoadAllSeed \/ ExecuteLoop \/ SetExit \/ JoinMainThread
    \/ MainThread \/ SelectError
    \/ \E s \in Pages : ServerAnswers(s)
    \/ \E w \in Workers : Worker(w)

Spec == Init /\ [][Next]_vars

(* Threads that can run keep running; a server answers or closes in the    *)
(* end; select does not fail for ever.                                     *)
Fairness ==
    /\ WF_vars(MainThread) /\ SF_vars(Select)
    /\ WF_vars(SetExit \/ JoinMainThread)
    /\ \A w \in Workers : WF_vars(Worker(w))
    /\ \A s \in Pages : WF_vars(ServerAnswers(s))

FairSpec == Spec /\ Fairness
-------------------------------------------------------------------------------
TypeOK ==
    /\ taskQueue \in Seq(Url)
    /\ known \subseteq Pages /\ dropped \subseteq Url
    /\ allFds \subseteq Pages /\ ready \subseteq allFds /\ fdRead \subseteq allFds
    /\ mainPc \in MainPC /\ loopPc \in LoopPC
    /\ idleNum \in BOOLEAN /\ idleCount \in 0..IdleLimit + 1
    /\ stage \in [Workers -> Stage]
    /\ Pool!TypeOK

(* A page handed over with an address waits in the task queue, or on an    *)
(* open socket, or its request was refused, or it became a job: in exactly *)
(* one of these, but for the socket between push_work and FD_CLR (lines    *)
(* 148-150).  No page is lost on the way and none is fetched twice.        *)
PagesAccounted ==
    LET waiting == ResolvedIn(taskQueue)
        sockets == allFds \ pushed
        refused == {u.page : u \in {v \in dropped : v.resolved}}
    IN  /\ \A i, k \in 1..Len(taskQueue) :
             taskQueue[i].resolved /\ taskQueue[i] = taskQueue[k] => i = k
        /\ waiting \cap sockets = {} /\ waiting \cap pushed = {}
        /\ refused \cap (waiting \cup allFds \cup pushed) = {}
        /\ known = waiting \cup sockets \cup refused \cup pushed
                     \cup {u.page : u \in {v \in Range(taskQueue) \cup dropped :
                                             ~v.resolved}}

(* main_thread_aid never holds more sockets than it can start from one     *)
(* batch above the threshold: kMinSet - 1 + kProcessCountPer, far below    *)
(* FD_SETSIZE (lines 103-119).                                             *)
FdSetBounded == Cardinality(allFds) <= KMinSet - 1 + KProcessCountPer

(* The same test of line 103 bounds the pool's queue, by QueueLimit - 1     *)
(* jobs left over and all the sockets of one batch.  With the program's     *)
(* constants that is 27: more than the 20 its semaphore can count.          *)
PoolQueueBounded ==
    Len(queue) + Cardinality(allFds \ pushed)
        <= QueueLimit - 1 + KMinSet - 1 + KProcessCountPer

(* Every page with an address is asked for in the end: it becomes a job, or *)
(* is refused.  It takes a server that answers each request at all, a pool  *)
(* that lost no job, and an executor not told to exit; and one thread of    *)
(* the pool that does not turn in recv_response for ever: when the last one *)
(* does, the pool's queue stays at the limit of line 103.                   *)
EveryPageRequested ==
    \A p \in Pages :
        p \in ResolvedIn(taskQueue) ~>
            \/ p \in pushed
            \/ [page |-> p, resolved |-> TRUE] \in dropped
            \/ failedPosts > 0 \/ Exit
            \/ \A w \in Workers : stage[w] = "spin"

(* Once execute_loop is left the program ends: the executor's thread comes  *)
(* out of select, through its loop, and is joined (lines 27-34, 98-164).    *)
ShutdownCompletes == loopPc = "left" ~> loopPc = "ended"

(* spider_main.cpp:51 calls execute_loop to "loop and wait for completion": *)
(* when it returns, no URL waits, no request is open, no job is queued.     *)
LeftOnlyWhenDone ==
    loopPc = "left" => taskQueue = <<>> /\ allFds = {} /\ queue = <<>>

(* spider_executor.cpp:206 puts a URL whose download failed "to be          *)
(* downloaded again": it is not thrown away without a request.              *)
FailedIsDownloadedAgain ==
    \A u \in dropped : u.page \in pushed => u.resolved
===============================================================================
