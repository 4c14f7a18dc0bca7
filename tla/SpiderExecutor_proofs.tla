------------------------- MODULE SpiderExecutor_proofs -------------------------
(***************************************************************************)
(* Theorems about the executor over the pool: what line 103 of             *)
(* spider_executor.cpp bounds, for every value of kMinSet,                 *)
(* kProcessCountPer and the queue limit; types; and that no page is lost    *)
(* between the task queue, the sockets and the pool, for every number of    *)
(* pages and threads.                                                      *)
(***************************************************************************)
EXTENDS SpiderExecutor, FiniteSetTheorems, SequenceTheorems, TLAPS

PP == INSTANCE SpiderThreadPool_proofs WITH Jobs <- Pages, NoJob <- NoPage

(* The part of the state the bounds depend on, and its types. *)
BoundType ==
    /\ taskQueue \in Seq(Url)
    /\ queue \in Seq(Pages)
    /\ allFds \subseteq Pages

BoundInv == BoundType /\ FdSetBounded /\ PoolQueueBounded
-------------------------------------------------------------------------------
LEMMA BatchSmall ==
  ASSUME BoundType
  PROVE  /\ SubSeq(taskQueue, BatchSize + 1, Len(taskQueue)) \in Seq(Url)
         /\ ResolvedIn(Batch) \subseteq Pages
         /\ IsFiniteSet(ResolvedIn(Batch))
         /\ Cardinality(ResolvedIn(Batch)) \in Nat
         /\ Cardinality(ResolvedIn(Batch)) <= KProcessCountPer
<1>1. /\ taskQueue \in Seq(Url) /\ Len(taskQueue) \in Nat
      /\ BatchSize \in Nat /\ BatchSize <= KProcessCountPer
      /\ BatchSize <= Len(taskQueue)
  BY ExecutorAssumption DEF BoundType, BatchSize
<1>2. /\ Batch \in Seq(Url) /\ Len(Batch) = BatchSize
      /\ SubSeq(taskQueue, BatchSize + 1, Len(taskQueue)) \in Seq(Url)
  BY <1>1 DEF Batch
<1> DEFINE I == {k \in 1..Len(Batch) : Batch[k].resolved}
           f == [k \in I |-> Batch[k].page]
<1>3. f \in Surjection(I, ResolvedIn(Batch))
  BY DEF Surjection, ResolvedIn
<1>4. /\ IsFiniteSet(I) /\ Cardinality(I) \in Nat
      /\ Cardinality(I) <= BatchSize
  <2>1. IsFiniteSet(1..BatchSize) /\ Cardinality(1..BatchSize) = BatchSize
    BY <1>1, FS_Interval
  <2>2. I \in SUBSET (1..BatchSize)
    BY <1>2
  <2> HIDE DEF I
  <2>3. QED
    BY <2>1, <2>2, FS_Subset, FS_CardinalityType
<1>5. ResolvedIn(Batch) \subseteq Pages
  <2>1. ASSUME NEW i \in 1..Len(Batch)
        PROVE  Batch[i].page \in Pages
    <3>1. Batch[i] \in Url
      BY <1>2
    <3>2. QED
      BY <3>1 DEF Url
  <2>2. QED
    BY <2>1 DEF ResolvedIn
<1>6. /\ IsFiniteSet(ResolvedIn(Batch))
      /\ Cardinality(ResolvedIn(Batch)) <= Cardinality(I)
  <2> HIDE DEF I, f
  <2>1. QED
    BY <1>3, <1>4, FS_Surjection
<1>7. Cardinality(ResolvedIn(Batch)) \in Nat
  BY <1>6, FS_CardinalityType
<1>8. QED
  BY <1>1, <1>2, <1>4, <1>5, <1>6, <1>7, ExecutorAssumption

LEMMA FdsFinite ==
  ASSUME NEW S, S \subseteq Pages, NEW T, T \subseteq S
  PROVE  /\ IsFiniteSet(S) /\ Cardinality(S) \in Nat
         /\ IsFiniteSet(T) /\ Cardinality(T) \in Nat
         /\ Cardinality(T) <= Cardinality(S)
BY ExecutorAssumption, FS_Subset, FS_CardinalityType

(* A step that changes none of queue, allFds and pushed, and keeps the      *)
(* task queue a sequence of URLs.                                          *)
LEMMA BoundFrame ==
  ASSUME BoundInv, UNCHANGED <<queue, allFds, pushed>>, taskQueue' \in Seq(Url)
  PROVE  BoundInv'
BY DEF BoundInv, BoundType, FdSetBounded, PoolQueueBounded

LEMMA PutUrlsType ==
  ASSUME BoundType, NEW p \in Pages, NEW b \in BOOLEAN, PutUrls(p, b)
  PROVE  taskQueue' \in Seq(Url)
<1>1. [page |-> p, resolved |-> b] \in Url
  BY DEF Url
<1>2. QED
  BY <1>1 DEF PutUrls, BoundType

LEMMA BoundFill ==
  ASSUME BoundInv, FillFdSet
  PROVE  BoundInv'
<1>0. UNCHANGED <<queue, pushed>>
  BY DEF FillFdSet, poolVars
<1>1. CASE ~MayFill
  <2>1. UNCHANGED <<taskQueue, allFds>>
    BY <1>1 DEF FillFdSet
  <2>2. QED
    BY <1>0, <2>1, BoundFrame DEF BoundInv, BoundType
<1>2. CASE MayFill
  <2>1. PICK refused \in SUBSET ResolvedIn(Batch) :
          /\ taskQueue' = SubSeq(taskQueue, BatchSize + 1, Len(taskQueue))
          /\ allFds' = allFds \cup (ResolvedIn(Batch) \ refused)
    BY <1>2 DEF FillFdSet
  <2> DEFINE R == ResolvedIn(Batch) \ refused
  <2>2. /\ R \subseteq Pages /\ IsFiniteSet(R) /\ Cardinality(R) \in Nat
        /\ Cardinality(R) <= KProcessCountPer
    <3>1. Cardinality(R) <= Cardinality(ResolvedIn(Batch))
      BY BatchSmall, FS_Subset DEF BoundInv
    <3>2. R \subseteq Pages
      BY BatchSmall DEF BoundInv
    <3>3. IsFiniteSet(R) /\ Cardinality(R) \in Nat
      BY <3>2, FdsFinite
    <3>4. QED
      BY <3>1, <3>2, <3>3, BatchSmall, ExecutorAssumption DEF BoundInv
  <2>3. /\ allFds \subseteq Pages /\ IsFiniteSet(allFds)
        /\ Cardinality(allFds) \in Nat /\ Cardinality(allFds) <= KMinSet - 1
        /\ Len(queue) \in Nat /\ Len(queue) <= QueueLimit - 1
    BY <1>2, FdsFinite, ExecutorAssumption DEF MayFill, BoundInv, BoundType
  <2>4. allFds' = allFds \cup R
    BY <2>1
  <2> HIDE DEF R
  <2>5. /\ Cardinality(allFds') \in Nat
        /\ Cardinality(allFds') <= KMinSet - 1 + KProcessCountPer
    <3>1. Cardinality(allFds') = Cardinality(allFds) + Cardinality(R)
                                   - Cardinality(allFds \cap R)
      BY <2>2, <2>3, <2>4, FS_Union
    <3>2. Cardinality(allFds \cap R) \in Nat
      BY <2>3, FdsFinite
    <3>3. Cardinality(allFds') \in Nat
      BY <2>2, <2>3, <2>4, FdsFinite
    <3>4. QED
      BY <2>2, <2>3, <3>1, <3>2, <3>3, ExecutorAssumption
  <2>6. allFds' \subseteq Pages
    BY <2>2, <2>3, <2>4
  <2>7. /\ Cardinality(allFds' \ pushed') \in Nat
        /\ Cardinality(allFds' \ pushed') <= Cardinality(allFds')
    BY <2>6, FdsFinite
  <2>8. BoundType'
    BY <1>0, <2>1, <2>6, BatchSmall DEF BoundInv, BoundType
  <2>9. PoolQueueBounded'
    BY <1>0, <2>3, <2>5, <2>7, ExecutorAssumption DEF PoolQueueBounded
  <2>10. QED
    BY <2>5, <2>8, <2>9 DEF BoundInv, FdSetBounded
<1>3. QED
  BY <1>1, <1>2

(* push_work moves a socket from one side of the sum to the other.          *)
LEMMA BoundPush ==
  ASSUME BoundInv, NEW s \in Pages, PushJob(s)
  PROVE  BoundInv'
<1>1. /\ queue' = Append(queue, s) /\ pushed' = pushed \cup {s}
      /\ s \in allFds \ pushed /\ UNCHANGED <<taskQueue, allFds>>
  BY DEF PushJob, Pool!PushWork, fdVars
<1>2. queue' \in Seq(Pages) /\ Len(queue') = Len(queue) + 1 /\ Len(queue) \in Nat
  BY <1>1 DEF BoundInv, BoundType
<1>3. /\ IsFiniteSet(allFds \ pushed)
      /\ Cardinality(allFds \ pushed) \in Nat
  BY FdsFinite DEF BoundInv, BoundType
<1>4. allFds' \ pushed' = (allFds \ pushed) \ {s}
  BY <1>1
<1>5. Cardinality(allFds' \ pushed') = Cardinality(allFds \ pushed) - 1
  BY <1>1, <1>3, <1>4, FS_RemoveElement
<1>6. PoolQueueBounded'
  BY <1>2, <1>3, <1>5, ExecutorAssumption DEF BoundInv, PoolQueueBounded
<1>7. QED
  BY <1>1, <1>2, <1>6 DEF BoundInv, BoundType, FdSetBounded

LEMMA BoundClear ==
  ASSUME BoundInv, NEW s \in Pages, ClearFd(s)
  PROVE  BoundInv'
<1>1. /\ allFds' = allFds \ {s} /\ s \in pushed
      /\ UNCHANGED <<taskQueue, queue, pushed>>
  BY DEF ClearFd, poolVars
<1>2. allFds' \ pushed' = allFds \ pushed
  BY <1>1
<1>3. /\ Cardinality(allFds') \in Nat /\ Cardinality(allFds) \in Nat
      /\ Cardinality(allFds') <= Cardinality(allFds)
  BY <1>1, FdsFinite DEF BoundInv, BoundType
<1>4. FdSetBounded'
  BY <1>3, ExecutorAssumption DEF BoundInv, FdSetBounded
<1>5. QED
  BY <1>1, <1>2, <1>4 DEF BoundInv, BoundType, PoolQueueBounded

LEMMA BoundPop ==
  ASSUME BoundInv, NEW w \in Workers, Pool!PopWork(w),
         UNCHANGED <<taskQueue, allFds>>
  PROVE  BoundInv'
<1>1. pushed' = pushed
  BY DEF Pool!PopWork, Pool!clientVars
<1>2. CASE queue = <<>>
  <2>1. queue' = queue
    BY <1>2 DEF Pool!PopWork
  <2>2. QED
    BY <1>1, <2>1, BoundFrame DEF BoundInv, BoundType
<1>3. CASE queue # <<>>
  <2>1. queue' = Tail(queue)
    BY <1>3 DEF Pool!PopWork
  <2>2. queue' \in Seq(Pages) /\ Len(queue') = Len(queue) - 1 /\ Len(queue) \in Nat
    BY <1>3, <2>1 DEF BoundInv, BoundType
  <2>3. Cardinality(allFds \ pushed) \in Nat
    BY FdsFinite DEF BoundInv, BoundType
  <2>4. PoolQueueBounded'
    BY <1>1, <2>2, <2>3, ExecutorAssumption DEF BoundInv, PoolQueueBounded
  <2>5. QED
    BY <1>1, <2>2, <2>4 DEF BoundInv, BoundType, FdSetBounded
<1>4. QED
  BY <1>2, <1>3

(* RunThreadFunction takes job[w], a page, out of the worker's hands.       *)
LEMMA BoundWorker ==
  ASSUME BoundInv, NEW w \in Workers, Worker(w), job[w] \in Pages \cup {NoPage}
  PROVE  BoundInv'
<1> USE DEF Pool!clientVars, Pool!countVars, fdVars
<1>0. taskQueue \in Seq(Url)
  BY DEF BoundInv, BoundType
<1>1. CASE PutLink(w)
  <2>1. UNCHANGED <<queue, allFds, pushed>>
    BY <1>1 DEF PutLink, poolVars
  <2>2. taskQueue' \in Seq(Url)
    BY <1>1, PutUrlsType DEF PutLink, BoundInv
  <2>3. QED
    BY <2>1, <2>2, BoundFrame
<1>2. CASE PutAgain(w)
  <2>1. UNCHANGED <<queue, allFds, pushed>>
    BY <1>2 DEF PutAgain, Pool!RunThreadFunction
  <2>2. [page |-> job[w], resolved |-> FALSE] \in Url
    BY <1>2 DEF PutAgain, At, Url
  <2>3. taskQueue' \in Seq(Url)
    BY <1>0, <1>2, <2>2 DEF PutAgain
  <2>4. QED
    BY <2>1, <2>3, BoundFrame
<1>3. CASE WorkerStep(w) /\ Pool!PopWork(w)
  BY <1>3, BoundPop DEF WorkerStep
<1>4. CASE WorkerStep(w) /\ ~Pool!PopWork(w)
  <2>1. UNCHANGED <<queue, allFds, pushed, taskQueue>>
    BY <1>4 DEF WorkerStep, Pool!CheckExit, Pool!WaitSemaphore,
         Pool!LoadForIncrement, Pool!StoreIncrement, Pool!RunThreadFunction,
         Pool!LoadForDecrement, Pool!StoreDecrement
  <2>2. QED
    BY <1>0, <2>1, BoundFrame
<1>5. CASE RecvResponse(w) \/ ProcessPage(w)
  <2>1. UNCHANGED <<queue, allFds, pushed, taskQueue>>
    BY <1>5 DEF RecvResponse, ProcessPage, Pool!RunThreadFunction, poolVars
  <2>2. QED
    BY <1>0, <2>1, BoundFrame
<1>6. QED
  BY <1>1, <1>2, <1>3, <1>4, <1>5 DEF Worker

(* The jobs in the workers' hands are pages: they came from the queue.      *)
JobType == job \in [Workers -> Pages \cup {NoPage}]

LEMMA JobTypeStep ==
  ASSUME BoundInv, JobType, [Next]_vars
  PROVE  JobType'
<1> USE DEF JobType, Pool!clientVars, Pool!countVars, poolVars
<1>1. ASSUME NEW w \in Workers, Pool!PopWork(w)
      PROVE  JobType'
  <2>1. queue \in Seq(Pages)
    BY DEF BoundInv, BoundType
  <2>2. queue # <<>> => Head(queue) \in Pages
    BY <2>1
  <2>3. QED
    BY <1>1, <2>2 DEF Pool!PopWork
<1>2. ASSUME NEW w \in Workers, Pool!RunThreadFunction(w)
      PROVE  JobType'
  BY <1>2 DEF Pool!RunThreadFunction
<1>3. ASSUME NEW w \in Workers, Worker(w)
      PROVE  JobType'
  BY <1>1, <1>2, <1>3 DEF Worker, WorkerStep, RecvResponse, ProcessPage, PutAgain, PutLink,
       Pool!CheckExit,
       Pool!WaitSemaphore, Pool!LoadForIncrement, Pool!StoreIncrement,
       Pool!LoadForDecrement, Pool!StoreDecrement
<1>4. CASE MainThread
  BY <1>4 DEF MainThread, FillFdSet, ExitMainThread, Select, PostJob, DispatchDone,
       PushJob, ClearFd, Pool!PushWork, Pool!PostSemaphore
<1>5. CASE ExecuteLoop \/ SetExit \/ JoinMainThread \/ LoadAllSeed \/ SelectError
  BY <1>5 DEF ExecuteLoop, ReadWorkerCount, ReadTaskQueue, SetExit, JoinMainThread,
       LoadAllSeed, SelectError
<1>6. ASSUME NEW p \in Pages, Seed(p)
      PROVE  JobType'
  BY <1>6 DEF Seed
<1>7. ASSUME NEW s \in Pages, ServerAnswers(s)
      PROVE  JobType'
  BY <1>7 DEF ServerAnswers
<1>8. CASE UNCHANGED vars
  BY <1>8 DEF vars
<1>9. QED
  BY <1>3, <1>4, <1>5, <1>6, <1>7, <1>8 DEF Next

LEMMA BoundStep ==
  ASSUME BoundInv, JobType, [Next]_vars
  PROVE  BoundInv'
<1>0. taskQueue \in Seq(Url)
  BY DEF BoundInv, BoundType
<1> USE DEF poolVars, fdVars
<1>1. ASSUME NEW p \in Pages, Seed(p)
      PROVE  BoundInv'
  <2>1. taskQueue' \in Seq(Url)
    BY <1>1, PutUrlsType DEF Seed, BoundInv
  <2>2. QED
    BY <1>1, <2>1, BoundFrame DEF Seed
<1>2. CASE FillFdSet
  BY <1>2, BoundFill
<1>3. ASSUME NEW s \in Pages, PushJob(s)
      PROVE  BoundInv'
  BY <1>3, BoundPush
<1>4. ASSUME NEW s \in Pages, ClearFd(s)
      PROVE  BoundInv'
  BY <1>4, BoundClear
<1>5. CASE ExitMainThread \/ Select \/ PostJob \/ DispatchDone \/ SelectError
  <2>1. UNCHANGED <<queue, allFds, pushed, taskQueue>>
    BY <1>5 DEF ExitMainThread, Select, PostJob, DispatchDone, SelectError,
         Pool!PostSemaphore
  <2>2. QED
    BY <1>0, <2>1, BoundFrame
<1>6. CASE ExecuteLoop \/ SetExit \/ JoinMainThread \/ LoadAllSeed
  <2>1. UNCHANGED <<queue, allFds, pushed, taskQueue>>
    BY <1>6 DEF ExecuteLoop, ReadWorkerCount, ReadTaskQueue, SetExit,
         JoinMainThread, LoadAllSeed
  <2>2. QED
    BY <1>0, <2>1, BoundFrame
<1>7. ASSUME NEW s \in Pages, ServerAnswers(s)
      PROVE  BoundInv'
  <2>1. UNCHANGED <<queue, allFds, pushed, taskQueue>>
    BY <1>7 DEF ServerAnswers
  <2>2. QED
    BY <1>0, <2>1, BoundFrame
<1>8. ASSUME NEW w \in Workers, Worker(w)
      PROVE  BoundInv'
  BY <1>8, BoundWorker DEF JobType
<1>9. CASE UNCHANGED vars
  BY <1>0, <1>9, BoundFrame DEF vars
<1>10. QED
  BY <1>1, <1>2, <1>3, <1>4, <1>5, <1>6, <1>7, <1>8, <1>9 DEF Next, MainThread

LEMMA BoundInitially == Init => BoundInv /\ JobType
<1> SUFFICES ASSUME Init PROVE BoundInv /\ JobType
  OBVIOUS
<1>1. /\ taskQueue = <<>> /\ queue = <<>> /\ allFds = {} /\ pushed = {}
      /\ job = [w \in Workers |-> NoPage]
  BY DEF Init, Pool!Init
<1>2. Cardinality(allFds) = 0 /\ Cardinality(allFds \ pushed) = 0
  BY <1>1, FS_EmptySet
<1>3. BoundType /\ JobType
  BY <1>1 DEF BoundType, JobType
<1>4. FdSetBounded /\ PoolQueueBounded
  BY <1>1, <1>2, ExecutorAssumption DEF FdSetBounded, PoolQueueBounded
<1>5. QED
  BY <1>3, <1>4 DEF BoundInv

LEMMA Bounded == Spec => [](BoundInv /\ JobType)
<1>1. Init => BoundInv /\ JobType
  BY BoundInitially
<1>2. (BoundInv /\ JobType) /\ [Next]_vars => (BoundInv /\ JobType)'
  BY BoundStep, JobTypeStep
<1>3. QED
  BY <1>1, <1>2, PTL DEF Spec

(* m_all_fdset never holds more than kMinSet - 1 + kProcessCountPer sockets *)
(* (24 with the program's constants, of the 64 of FD_SETSIZE).              *)
THEOREM FdSetNeverOverflows == Spec => []FdSetBounded
  BY Bounded, PTL DEF BoundInv

(* The pool's queue never holds more than QueueLimit - 1 + kMinSet - 1 +    *)
(* kProcessCountPer jobs (27 with the program's constants): a semaphore of  *)
(* that maximum would make push_work's post unable to fail.                 *)
THEOREM PoolQueueNeverLonger == Spec => []PoolQueueBounded
  BY Bounded, PTL DEF BoundInv
-------------------------------------------------------------------------------
(* The pool under the executor: each step of the executor is a step of the  *)
(* pool, or none.  So what is proved of the pool holds of it here.          *)

LEMMA PoolInitially == Init => PP!Init
BY DEF Init, Pool!Init, PP!Init

LEMMA PoolWorkerStep ==
  ASSUME NEW w \in Workers, Worker(w)
  PROVE  PP!Next \/ UNCHANGED PP!vars
<1> USE DEF Pool!countVars, PP!countVars, Pool!clientVars, PP!clientVars,
        Pool!Goto, PP!Goto, Pool!ExitFlag, PP!ExitFlag, Pool!MutexHeld, PP!MutexHeld
<1>1. /\ Pool!CheckExit(w) => PP!CheckExit(w)
      /\ Pool!WaitSemaphore(w) => PP!WaitSemaphore(w)
      /\ Pool!PopWork(w) => PP!PopWork(w)
  BY DEF Pool!CheckExit, PP!CheckExit, Pool!WaitSemaphore, PP!WaitSemaphore,
       Pool!PopWork, PP!PopWork
<1>2. /\ Pool!LoadForIncrement(w) => PP!LoadForIncrement(w)
      /\ Pool!StoreIncrement(w) => PP!StoreIncrement(w)
      /\ Pool!RunThreadFunction(w) => PP!RunThreadFunction(w)
      /\ Pool!LoadForDecrement(w) => PP!LoadForDecrement(w)
      /\ Pool!StoreDecrement(w) => PP!StoreDecrement(w)
  BY DEF Pool!LoadForIncrement, PP!LoadForIncrement, Pool!StoreIncrement,
       PP!StoreIncrement, Pool!RunThreadFunction, PP!RunThreadFunction,
       Pool!LoadForDecrement, PP!LoadForDecrement, Pool!StoreDecrement,
       PP!StoreDecrement
<1>3. WorkerStep(w) \/ ProcessPage(w) \/ PutAgain(w) => PP!ManageFunction(w)
  BY <1>1, <1>2 DEF WorkerStep, ProcessPage, PutAgain, PP!ManageFunction
<1>4. RecvResponse(w) \/ PutLink(w) => UNCHANGED PP!vars
  BY DEF RecvResponse, PutLink, poolVars, PP!vars
<1>5. QED
  BY <1>3, <1>4 DEF Worker, PP!Next

LEMMA PoolStep == [Next]_vars => [PP!Next]_PP!vars
<1> SUFFICES ASSUME [Next]_vars PROVE PP!Next \/ UNCHANGED PP!vars
  OBVIOUS
<1> USE DEF poolVars, PP!vars, PP!countVars, PP!clientVars
<1>1. ASSUME NEW w \in Workers, Worker(w)
      PROVE  PP!Next \/ UNCHANGED PP!vars
  BY <1>1, PoolWorkerStep
<1>2. ASSUME NEW s \in Pages, PushJob(s)
      PROVE  PP!Next
  BY <1>2 DEF PushJob, Pool!PushWork, PP!PushWork, PP!Next, Pool!countVars
<1>3. ASSUME PostJob
      PROVE  PP!Next
  BY <1>3 DEF PostJob, Pool!PostSemaphore, PP!PostSemaphore, PP!Next, Pool!countVars,
       Pool!SemaphoreRelease, PP!SemaphoreRelease, Pool!SemaphoreFull, PP!SemaphoreFull
<1>4. CASE FillFdSet \/ ExitMainThread \/ Select \/ DispatchDone \/ SelectError
  BY <1>4 DEF FillFdSet, ExitMainThread, Select, DispatchDone, SelectError
<1>5. ASSUME NEW s \in Pages, ClearFd(s) \/ ServerAnswers(s)
      PROVE  UNCHANGED PP!vars
  BY <1>5 DEF ClearFd, ServerAnswers
<1>6. CASE ExecuteLoop \/ SetExit \/ JoinMainThread \/ LoadAllSeed
  BY <1>6 DEF ExecuteLoop, ReadWorkerCount, ReadTaskQueue, SetExit, JoinMainThread,
       LoadAllSeed
<1>7. ASSUME NEW p \in Pages, Seed(p)
      PROVE  UNCHANGED PP!vars
  BY <1>7 DEF Seed
<1>8. CASE UNCHANGED vars
  BY <1>8 DEF vars
<1>9. QED
  BY <1>1, <1>2, <1>3, <1>4, <1>5, <1>6, <1>7, <1>8 DEF Next, MainThread

(* What the executor's thread and the pool's threads do to the pool is what  *)
(* SpiderThreadPool allows its client and its threads: push_work with jobs   *)
(* it has not pushed before, one call at a time.                            *)
THEOREM ExecutorRunsPool == Spec => PP!Spec
BY PoolInitially, PoolStep, PTL DEF Spec, PP!Spec

LEMMA PoolInvariants == Spec => [](PP!TypeOK /\ PP!NoJobTwice)
<1>0. PP!Cardinality(Workers) = Cardinality(Workers)
      /\ (PP!IsFiniteSet(Workers) <=> IsFiniteSet(Workers))
  BY DEF PP!Cardinality, PP!IsFiniteSet, Cardinality, IsFiniteSet
<1>1. PP!Spec => []PP!TypeOK
  BY <1>0, PP!TypeCorrect, ExecutorAssumption
<1>2. PP!Spec => []PP!NoJobTwice
  BY <1>0, PP!JobsRunAtMostOnce, ExecutorAssumption
<1>3. QED
  BY <1>1, <1>2, ExecutorRunsPool, PTL
-------------------------------------------------------------------------------
(* Sequences of URLs, by the pages with and without an address.             *)

ResolvedOf(S) == {u.page : u \in {v \in S : v.resolved}}
UnresolvedOf(S) == {u.page : u \in {v \in S : ~v.resolved}}

Once(q) == \A i, k \in 1..Len(q) : q[i].resolved /\ q[i] = q[k] => i = k

LEMMA RecordsEqual ==
  \A u, v \in Url : u.page = v.page /\ u.resolved /\ v.resolved => u = v
BY DEF Url

LEMMA ResolvedRange ==
  ASSUME NEW q \in Seq(Url)
  PROVE  ResolvedIn(q) = ResolvedOf(Range(q))
BY DEF ResolvedIn, ResolvedOf, Range

LEMMA UnionParts ==
  ASSUME NEW S, NEW T
  PROVE  /\ ResolvedOf(S \cup T) = ResolvedOf(S) \cup ResolvedOf(T)
         /\ UnresolvedOf(S \cup T) = UnresolvedOf(S) \cup UnresolvedOf(T)
BY DEF ResolvedOf, UnresolvedOf

LEMMA ConcatRange ==
  ASSUME NEW q \in Seq(Url), NEW r \in Seq(Url)
  PROVE  q \o r \in Seq(Url) /\ Range(q \o r) = Range(q) \cup Range(r)
<1>1. /\ Len(q) \in Nat /\ Len(r) \in Nat /\ Len(q \o r) = Len(q) + Len(r)
      /\ \A i \in 1..Len(q) : (q \o r)[i] = q[i]
      /\ \A i \in 1..Len(r) : (q \o r)[Len(q) + i] = r[i]
      /\ DOMAIN q = 1..Len(q) /\ DOMAIN r = 1..Len(r)
      /\ q \o r \in Seq(Url) /\ DOMAIN (q \o r) = 1..Len(q \o r)
  OBVIOUS
<1>2. ASSUME NEW x \in Range(q \o r)
      PROVE  x \in Range(q) \cup Range(r)
  <2>1. PICK i \in 1..Len(q) + Len(r) : x = (q \o r)[i]
    BY <1>1, <1>2 DEF Range
  <2>2. CASE i <= Len(q)
    BY <1>1, <2>1, <2>2 DEF Range
  <2>3. CASE i > Len(q)
    <3>1. i - Len(q) \in 1..Len(r) /\ i = Len(q) + (i - Len(q))
      BY <1>1, <2>1, <2>3
    <3>2. x = r[i - Len(q)]
      BY <1>1, <2>1, <3>1
    <3>3. QED
      BY <1>1, <3>1, <3>2 DEF Range
  <2>4. QED
    BY <1>1, <2>1, <2>2, <2>3
<1>3. ASSUME NEW i \in 1..Len(q)
      PROVE  q[i] \in Range(q \o r)
  BY <1>1, i \in DOMAIN (q \o r) DEF Range
<1>4. ASSUME NEW i \in 1..Len(r)
      PROVE  r[i] \in Range(q \o r)
  BY <1>1, Len(q) + i \in DOMAIN (q \o r) DEF Range
<1>5. QED
  BY <1>1, <1>2, <1>3, <1>4 DEF Range

LEMMA ConcatOnce ==
  ASSUME NEW q \in Seq(Url), NEW r \in Seq(Url)
  PROVE  Once(q \o r) <=> /\ Once(q) /\ Once(r)
                          /\ ResolvedIn(q) \cap ResolvedIn(r) = {}
<1>1. /\ Len(q) \in Nat /\ Len(r) \in Nat /\ Len(q \o r) = Len(q) + Len(r)
      /\ \A i \in 1..Len(q) : (q \o r)[i] = q[i] /\ q[i] \in Url
      /\ \A i \in 1..Len(r) : (q \o r)[Len(q) + i] = r[i] /\ r[i] \in Url
  OBVIOUS
<1>2. ASSUME Once(q \o r)
      PROVE  Once(q) /\ Once(r) /\ ResolvedIn(q) \cap ResolvedIn(r) = {}
  <2>1. Once(q)
    BY <1>1, <1>2 DEF Once
  <2>2. Once(r)
    <3>1. ASSUME NEW i \in 1..Len(r), NEW k \in 1..Len(r), r[i].resolved, r[i] = r[k]
          PROVE  i = k
      <4>1. Len(q) + i \in 1..Len(q \o r) /\ Len(q) + k \in 1..Len(q \o r)
        BY <1>1
      <4>2. Len(q) + i = Len(q) + k
        BY <1>1, <1>2, <3>1, <4>1 DEF Once
      <4>3. QED
        BY <1>1, <4>2
    <3>2. QED
      BY <3>1 DEF Once
  <2>3. ASSUME NEW i \in 1..Len(q), NEW k \in 1..Len(r), q[i].resolved, r[k].resolved,
               q[i].page = r[k].page
        PROVE  FALSE
    <3>1. q[i] = r[k]
      BY <1>1, <2>3, RecordsEqual
    <3>2. i \in 1..Len(q \o r) /\ Len(q) + k \in 1..Len(q \o r) /\ i # Len(q) + k
      BY <1>1
    <3>3. QED
      BY <1>1, <1>2, <2>3, <3>1, <3>2 DEF Once
  <2>4. QED
    BY <2>1, <2>2, <2>3 DEF ResolvedIn
<1>3. ASSUME Once(q), Once(r), ResolvedIn(q) \cap ResolvedIn(r) = {}
      PROVE  Once(q \o r)
  <2>1. SUFFICES ASSUME NEW i \in 1..Len(q \o r), NEW k \in 1..Len(q \o r),
                        (q \o r)[i].resolved, (q \o r)[i] = (q \o r)[k]
                 PROVE  i = k
    BY DEF Once
  <2>2. CASE i <= Len(q) /\ k <= Len(q)
    BY <1>1, <1>3, <2>1, <2>2 DEF Once
  <2>3. CASE i > Len(q) /\ k > Len(q)
    <3>1. /\ i - Len(q) \in 1..Len(r) /\ i = Len(q) + (i - Len(q))
          /\ k - Len(q) \in 1..Len(r) /\ k = Len(q) + (k - Len(q))
      BY <1>1, <2>3
    <3>2. i - Len(q) = k - Len(q)
      BY <1>1, <1>3, <2>1, <3>1 DEF Once
    <3>3. QED
      BY <1>1, <3>2
  <2>4. ASSUME NEW m \in 1..Len(q), NEW n \in 1..Len(r), q[m] = r[n], q[m].resolved
        PROVE  FALSE
    BY <1>3, <2>4 DEF ResolvedIn
  <2>5. CASE i <= Len(q) /\ k > Len(q)
    <3>1. k - Len(q) \in 1..Len(r) /\ k = Len(q) + (k - Len(q)) /\ i \in 1..Len(q)
      BY <1>1, <2>5
    <3>2. QED
      BY <1>1, <2>1, <2>4, <3>1
  <2>6. CASE i > Len(q) /\ k <= Len(q)
    <3>1. i - Len(q) \in 1..Len(r) /\ i = Len(q) + (i - Len(q)) /\ k \in 1..Len(q)
      BY <1>1, <2>6
    <3>2. QED
      BY <1>1, <2>1, <2>4, <3>1
  <2>7. QED
    BY <1>1, <2>2, <2>3, <2>5, <2>6
<1>4. QED
  BY <1>2, <1>3
-------------------------------------------------------------------------------
(* A sequence of one URL.                                                   *)
LEMMA OneUrl ==
  ASSUME NEW u \in Url
  PROVE  /\ <<u>> \in Seq(Url) /\ Once(<<u>>)
         /\ ResolvedIn(<<u>>) = IF u.resolved THEN {u.page} ELSE {}
         /\ UnresolvedOf(Range(<<u>>)) = IF u.resolved THEN {} ELSE {u.page}
<1> DEFINE r == <<u>>
<1>1. r \in Seq(Url) /\ Len(r) = 1 /\ r[1] = u /\ DOMAIN r = {1}
  OBVIOUS
<1> HIDE DEF r
<1>2. Once(r)
  BY <1>1 DEF Once
<1>3. ResolvedIn(r) = IF u.resolved THEN {u.page} ELSE {}
  BY <1>1 DEF ResolvedIn
<1>4. Range(r) = {u}
  BY <1>1 DEF Range
<1>5. UnresolvedOf(Range(r)) = IF u.resolved THEN {} ELSE {u.page}
  BY <1>4 DEF UnresolvedOf
<1>6. QED
  BY <1>1, <1>2, <1>3, <1>5 DEF r

(* The task queue is the batch and what is behind it.                       *)
LEMMA BatchSplits ==
  ASSUME BoundType
  PROVE  LET rest == SubSeq(taskQueue, BatchSize + 1, Len(taskQueue))
         IN  /\ Batch \in Seq(Url) /\ rest \in Seq(Url)
             /\ taskQueue = Batch \o rest
<1>1. /\ taskQueue \in Seq(Url) /\ Len(taskQueue) \in Nat
      /\ BatchSize \in Nat /\ BatchSize <= Len(taskQueue)
  BY ExecutorAssumption DEF BoundType, BatchSize
<1>2. SubSeq(taskQueue, 1, Len(taskQueue)) = taskQueue
  BY <1>1, SubSeqFull
<1>3. 1 \in 1..Len(taskQueue)+1 /\ BatchSize \in 1-1..Len(taskQueue)
        /\ Len(taskQueue) \in BatchSize..Len(taskQueue)
  BY <1>1
<1>4. Batch \o SubSeq(taskQueue, BatchSize + 1, Len(taskQueue))
        = SubSeq(taskQueue, 1, Len(taskQueue))
  BY <1>1, <1>3, ConcatAdjacentSubSeq DEF Batch
<1>5. Batch \in Seq(Url)
  BY <1>1 DEF Batch
<1>6. QED
  BY <1>2, <1>4, <1>5, BatchSmall
-------------------------------------------------------------------------------
(* PagesAccounted, in the parts the steps move pages between, and what it   *)
(* rests on: jobs in the workers' hands were pushed.                        *)
Accounts ==
    /\ Once(taskQueue)
    /\ ResolvedIn(taskQueue) \cap (allFds \cup pushed) = {}
    /\ ResolvedOf(dropped) \cap (ResolvedIn(taskQueue) \cup allFds \cup pushed) = {}
    /\ known = ResolvedIn(taskQueue) \cup (allFds \ pushed) \cup ResolvedOf(dropped)
                 \cup pushed \cup UnresolvedOf(Range(taskQueue)) \cup UnresolvedOf(dropped)

LEMMA AccountsIsPagesAccounted ==
  ASSUME BoundType
  PROVE  Accounts <=> PagesAccounted
<1>1. UnresolvedOf(Range(taskQueue) \cup dropped)
        = UnresolvedOf(Range(taskQueue)) \cup UnresolvedOf(dropped)
  BY UnionParts
<1>2. Once(taskQueue) <=>
        \A i, k \in 1..Len(taskQueue) :
          taskQueue[i].resolved /\ taskQueue[i] = taskQueue[k] => i = k
  BY DEF Once
<1>3. /\ ResolvedOf(dropped) = {u.page : u \in {v \in dropped : v.resolved}}
      /\ UnresolvedOf(Range(taskQueue) \cup dropped)
           = {u.page : u \in {v \in Range(taskQueue) \cup dropped : ~v.resolved}}
  BY DEF ResolvedOf, UnresolvedOf
<1>4. (ResolvedIn(taskQueue) \cap (allFds \cup pushed) = {}) <=>
        /\ ResolvedIn(taskQueue) \cap (allFds \ pushed) = {}
        /\ ResolvedIn(taskQueue) \cap pushed = {}
  OBVIOUS
<1> DEFINE waiting == ResolvedIn(taskQueue)
           refused == ResolvedOf(dropped)
           failed == UnresolvedOf(Range(taskQueue) \cup dropped)
<1>5. PagesAccounted <=>
        /\ Once(taskQueue)
        /\ waiting \cap (allFds \ pushed) = {} /\ waiting \cap pushed = {}
        /\ refused \cap (waiting \cup allFds \cup pushed) = {}
        /\ known = waiting \cup (allFds \ pushed) \cup refused \cup pushed \cup failed
  BY <1>2, <1>3 DEF PagesAccounted
<1> HIDE DEF waiting, refused
<1>6. QED
  BY <1>1, <1>4, <1>5 DEF Accounts, waiting, refused
-------------------------------------------------------------------------------
(* The types, and that execute_loop still polls only below its limit.       *)
ExecType ==
    /\ known \subseteq Pages /\ dropped \subseteq Url
    /\ ready \subseteq allFds /\ fdRead \subseteq allFds
    /\ mainPc \in MainPC /\ loopPc \in LoopPC
    /\ idleCount \in 0..IdleLimit + 1
    /\ loopPc \in {"seeding", "count", "queue"} => idleCount <= IdleLimit

IdleType == idleNum \in BOOLEAN

LEMMA IdleTypeStep ==
  ASSUME IdleType, [Next]_vars
  PROVE  IdleType'
<1> USE DEF IdleType, loopVars
<1>1. CASE ReadWorkerCount
  <2>1. (workerCount = 0) \in BOOLEAN
    OBVIOUS
  <2>2. QED
    BY <1>1, <2>1, Zenon DEF ReadWorkerCount
<1>2. CASE ReadTaskQueue
  BY <1>2, Zenon DEF ReadTaskQueue
<1>3. CASE SetExit \/ JoinMainThread \/ LoadAllSeed \/ SelectError
  BY <1>3 DEF SetExit, JoinMainThread, LoadAllSeed, SelectError
<1>4. CASE MainThread
  BY <1>4 DEF MainThread, FillFdSet, ExitMainThread, Select, PostJob, DispatchDone,
       PushJob, ClearFd
<1>5. ASSUME NEW w \in Workers, Worker(w)
      PROVE  IdleType'
  BY <1>5 DEF Worker, WorkerStep, RecvResponse, ProcessPage, PutAgain, PutLink
<1>6. ASSUME NEW p \in Pages, Seed(p)
      PROVE  IdleType'
  BY <1>6 DEF Seed
<1>7. ASSUME NEW s \in Pages, ServerAnswers(s)
      PROVE  IdleType'
  BY <1>7 DEF ServerAnswers
<1>8. CASE UNCHANGED vars
  BY <1>8 DEF vars
<1>9. QED
  BY <1>1, <1>2, <1>3, <1>4, <1>5, <1>6, <1>7, <1>8 DEF Next, ExecuteLoop

LEMMA ExecTypeFill ==
  ASSUME BoundType, ExecType, FillFdSet
  PROVE  ExecType'
<1> USE DEF ExecType, fdVars, loopVars, MainPC
<1>1. /\ UNCHANGED <<known, ready, fdRead, loopPc, idleCount>>
      /\ mainPc' \in {"fill", "select"}
  BY DEF FillFdSet
<1>2. CASE ~MayFill
  BY <1>1, <1>2 DEF FillFdSet
<1>3. CASE MayFill
  <2>1. PICK refused \in SUBSET ResolvedIn(Batch) :
          /\ allFds' = allFds \cup (ResolvedIn(Batch) \ refused)
          /\ dropped' = dropped \cup
               {u \in Range(Batch) : u.resolved => u.page \in refused}
    BY <1>3 DEF FillFdSet
  <2>2. Range(Batch) \subseteq Url
    <3>1. Batch \in Seq(Url)
      BY BatchSplits
    <3> HIDE DEF Batch
    <3>2. QED
      BY <3>1 DEF Range
  <2>3. dropped' \subseteq Url
    BY <2>1, <2>2
  <2>4. ready \subseteq allFds' /\ fdRead \subseteq allFds'
    BY <2>1
  <2>5. QED
    BY <1>1, <2>3, <2>4
<1>4. QED
  BY <1>2, <1>3

LEMMA ExecTypeStep ==
  ASSUME BoundType, ExecType, [Next]_vars
  PROVE  ExecType'
<1> USE DEF ExecType, fdVars, loopVars, MainPC, LoopPC
<1>1. ASSUME NEW p \in Pages, Seed(p)
      PROVE  ExecType'
  BY <1>1 DEF Seed, PutUrls
<1>2. CASE LoadAllSeed \/ SetExit \/ JoinMainThread
  BY <1>2 DEF LoadAllSeed, SetExit, JoinMainThread
<1>3. CASE ReadWorkerCount
  BY <1>3 DEF ReadWorkerCount
<1>4. CASE ReadTaskQueue
  <2>1. /\ idleCount' \in {0, idleCount + 1}
        /\ loopPc' = IF idleCount' > IdleLimit THEN "left" ELSE "count"
        /\ UNCHANGED <<known, allFds, ready, fdRead, mainPc, dropped>>
        /\ loopPc = "queue"
    BY <1>4 DEF ReadTaskQueue
  <2>2. QED
    BY <2>1, ExecutorAssumption
<1>5. CASE FillFdSet
  BY <1>5, ExecTypeFill
<1>6. CASE ExitMainThread \/ Select \/ PostJob \/ DispatchDone \/ SelectError
  BY <1>6 DEF ExitMainThread, Select, PostJob, DispatchDone, SelectError
<1>7. ASSUME NEW s \in Pages, PushJob(s) \/ ClearFd(s) \/ ServerAnswers(s)
      PROVE  ExecType'
  BY <1>7 DEF PushJob, ClearFd, ServerAnswers
<1>8. ASSUME NEW w \in Workers, WorkerStep(w) \/ RecvResponse(w) \/ PutAgain(w) \/ ProcessPage(w)
      PROVE  ExecType'
  BY <1>8 DEF WorkerStep, RecvResponse, PutAgain, ProcessPage
<1>9. ASSUME NEW w \in Workers, PutLink(w)
      PROVE  ExecType'
  BY <1>9 DEF PutLink, PutUrls
<1>10. CASE UNCHANGED vars
  BY <1>10 DEF vars
<1>11. QED
  BY <1>1, <1>2, <1>3, <1>4, <1>5, <1>6, <1>7, <1>8, <1>9, <1>10
     DEF Next, MainThread, ExecuteLoop, Worker

StageType == stage \in [Workers -> Stage]

LEMMA StageTypeStep ==
  ASSUME StageType, [Next]_vars
  PROVE  StageType'
<1> USE DEF StageType, Stage
<1>1. ASSUME NEW w \in Workers, Worker(w)
      PROVE  StageType'
  BY <1>1 DEF Worker, WorkerStep, RecvResponse, PutAgain, PutLink, ProcessPage
<1>2. CASE MainThread
  BY <1>2 DEF MainThread, FillFdSet, ExitMainThread, Select, PostJob, DispatchDone,
       PushJob, ClearFd
<1>3. CASE ExecuteLoop \/ SetExit \/ JoinMainThread \/ LoadAllSeed \/ SelectError
  BY <1>3 DEF ExecuteLoop, ReadWorkerCount, ReadTaskQueue, SetExit, JoinMainThread,
       LoadAllSeed, SelectError
<1>4. ASSUME NEW p \in Pages, Seed(p) \/ ServerAnswers(p)
      PROVE  StageType'
  BY <1>4 DEF Seed, ServerAnswers
<1>5. CASE UNCHANGED vars
  BY <1>5 DEF vars
<1>6. QED
  BY <1>1, <1>2, <1>3, <1>4, <1>5 DEF Next

LEMMA ExecTypes == Spec => [](BoundType /\ ExecType /\ IdleType /\ StageType)
<1>1. Init => ExecType /\ IdleType /\ StageType
  <2>1. Init => ExecType
    BY ExecutorAssumption DEF Init, ExecType, MainPC, LoopPC
  <2>2. Init => IdleType /\ StageType
    BY DEF Init, IdleType, StageType, Stage
  <2>3. QED
    BY <2>1, <2>2
<1>2. BoundType /\ ExecType /\ IdleType /\ StageType /\ [Next]_vars
      => (ExecType /\ IdleType /\ StageType)'
  BY ExecTypeStep, IdleTypeStep, StageTypeStep
<1>3. QED
  BY <1>1, <1>2, Bounded, PTL DEF Spec, BoundInv

(* Types of the crawl loop's own state and of the pool's under it.          *)
THEOREM ExecutorTypeCorrect == Spec => []TypeOK
<1>1. Pool!Cardinality(Workers) = PP!Cardinality(Workers)
  BY DEF Pool!Cardinality, PP!Cardinality, Pool!IsFiniteSet, PP!IsFiniteSet
<1>2. PP!TypeOK => Pool!TypeOK
  BY <1>1 DEF PP!TypeOK, Pool!TypeOK, PP!WorkerPC, Pool!WorkerPC, PP!ClientPC,
     Pool!ClientPC
<1>3. BoundType /\ ExecType /\ IdleType /\ StageType /\ PP!TypeOK => TypeOK
  BY <1>2 DEF BoundType, ExecType, IdleType, StageType, TypeOK
<1>4. QED
  BY <1>3, ExecTypes, PoolInvariants, PTL
-------------------------------------------------------------------------------
LEMMA AccountsAppend ==
  ASSUME BoundType, Accounts, NEW r \in Seq(Url),
         taskQueue' = taskQueue \o r, Once(r), ResolvedIn(r) \cap known = {},
         known' = known \cup ResolvedIn(r) \cup UnresolvedOf(Range(r)),
         UNCHANGED <<allFds, pushed, dropped>>
  PROVE  Accounts'
<1>1. taskQueue \in Seq(Url) /\ taskQueue \o r \in Seq(Url)
      /\ Range(taskQueue \o r) = Range(taskQueue) \cup Range(r)
  BY ConcatRange DEF BoundType
<1>2. /\ ResolvedIn(taskQueue) = ResolvedOf(Range(taskQueue))
      /\ ResolvedIn(r) = ResolvedOf(Range(r))
      /\ ResolvedIn(taskQueue \o r) = ResolvedOf(Range(taskQueue \o r))
  BY <1>1, ResolvedRange
<1>3. /\ ResolvedIn(taskQueue \o r) = ResolvedIn(taskQueue) \cup ResolvedIn(r)
      /\ UnresolvedOf(Range(taskQueue \o r))
           = UnresolvedOf(Range(taskQueue)) \cup UnresolvedOf(Range(r))
  <2> DEFINE R == Range(taskQueue)
             T == Range(r)
  <2>1. /\ ResolvedOf(R \cup T) = ResolvedOf(R) \cup ResolvedOf(T)
        /\ UnresolvedOf(R \cup T) = UnresolvedOf(R) \cup UnresolvedOf(T)
    BY UnionParts
  <2>2. QED
    BY <1>1, <1>2, <2>1
<1>4. Once(taskQueue \o r)
  <2>1. ResolvedIn(taskQueue) \cap ResolvedIn(r) = {}
    BY DEF Accounts
  <2>2. QED
    BY <1>1, <2>1, ConcatOnce DEF Accounts
<1>5. /\ Once(taskQueue') /\ ResolvedOf(dropped') = ResolvedOf(dropped)
      /\ UnresolvedOf(dropped') = UnresolvedOf(dropped)
      /\ ResolvedIn(taskQueue') = ResolvedIn(taskQueue) \cup ResolvedIn(r)
      /\ UnresolvedOf(Range(taskQueue'))
           = UnresolvedOf(Range(taskQueue)) \cup UnresolvedOf(Range(r))
  BY <1>3, <1>4
<1> HIDE DEF Accounts
<1>6. (allFds \cup pushed) \subseteq known /\ ResolvedOf(dropped) \subseteq known
  BY DEF Accounts
<1>7. QED
  BY <1>5, <1>6 DEF Accounts

LEMMA AccountsPutUrls ==
  ASSUME BoundType, Accounts, NEW p \in Pages, NEW b \in BOOLEAN,
         PutUrls(p, b), UNCHANGED <<allFds, pushed, dropped>>
  PROVE  Accounts'
<1> DEFINE u == [page |-> p, resolved |-> b]
           r == <<u>>
<1>1. u \in Url /\ u.page = p /\ u.resolved = b
  BY DEF Url
<1>2. p \notin known /\ known' = known \cup {p} /\ taskQueue' = Append(taskQueue, u)
  BY DEF PutUrls
<1> HIDE DEF u
<1>3. /\ r \in Seq(Url) /\ Once(r)
      /\ ResolvedIn(r) = IF u.resolved THEN {u.page} ELSE {}
      /\ UnresolvedOf(Range(r)) = IF u.resolved THEN {} ELSE {u.page}
  BY <1>1, OneUrl
<1>4. taskQueue' = taskQueue \o r
  BY <1>1, <1>2 DEF BoundType
<1> HIDE DEF r
<1>5. /\ ResolvedIn(r) \cap known = {}
      /\ known' = known \cup ResolvedIn(r) \cup UnresolvedOf(Range(r))
  BY <1>1, <1>2, <1>3
<1>6. QED
  BY <1>3, <1>4, <1>5, AccountsAppend

(* A URL put again is that of a page pushed before.                         *)
LEMMA AccountsPutAgain ==
  ASSUME BoundType, Accounts, PP!TypeOK, PP!NoJobTwice, NEW w \in Workers, PutAgain(w)
  PROVE  Accounts'
<1> DEFINE u == [page |-> job[w], resolved |-> FALSE]
           r == <<u>>
<1>1. job[w] \in Pages /\ job[w] # NoPage
  BY DEF PutAgain, At, PP!TypeOK
<1>2. job[w] \in known
  <2>1. job[w] \in PP!Taken
    BY <1>1 DEF PP!Taken
  <2>2. job[w] \in pushed
    BY <2>1 DEF PP!NoJobTwice
  <2>3. QED
    BY <2>2 DEF Accounts
<1>3. u \in Url /\ u.page = job[w] /\ ~u.resolved
  BY <1>1 DEF Url
<1>4. taskQueue' = Append(taskQueue, u) /\ UNCHANGED <<known, allFds, pushed, dropped>>
  BY DEF PutAgain, fdVars, Pool!RunThreadFunction, Pool!clientVars
<1> HIDE DEF u
<1>5. /\ r \in Seq(Url) /\ Once(r) /\ ResolvedIn(r) = {}
      /\ UnresolvedOf(Range(r)) = {job[w]}
  BY <1>3, OneUrl
<1>6. taskQueue' = taskQueue \o r
  BY <1>3, <1>4 DEF BoundType
<1> HIDE DEF r
<1>7. QED
  BY <1>2, <1>4, <1>5, <1>6, AccountsAppend

(* The batch goes from the queue to sockets, refusals and URLs without      *)
(* address.                                                                 *)
LEMMA AccountsFill ==
  ASSUME BoundType, Accounts, FillFdSet
  PROVE  Accounts'
<1>1. UNCHANGED <<known, pushed>>
  BY DEF FillFdSet, poolVars
<1>2. CASE ~MayFill
  <2>1. UNCHANGED <<taskQueue, allFds, dropped>>
    BY <1>2 DEF FillFdSet
  <2>2. QED
    BY <1>1, <2>1 DEF Accounts
<1>3. CASE MayFill
  <2> DEFINE q == Batch
             rest == SubSeq(taskQueue, BatchSize + 1, Len(taskQueue))
  <2>1. PICK refused \in SUBSET ResolvedIn(q) :
          /\ taskQueue' = rest
          /\ allFds' = allFds \cup (ResolvedIn(q) \ refused)
          /\ dropped' = dropped \cup
               {u \in Range(q) : u.resolved => u.page \in refused}
    BY <1>3 DEF FillFdSet
  <2> DEFINE gone == {u \in Range(q) : u.resolved => u.page \in refused}
  <2>2. q \in Seq(Url) /\ rest \in Seq(Url) /\ taskQueue = q \o rest
    BY BatchSplits
  <2>3. dropped' = dropped \cup gone
    BY <2>1
  <2> HIDE DEF q, rest
  <2>4. Once(rest) /\ ResolvedIn(q) \cap ResolvedIn(rest) = {}
    BY <2>2, ConcatOnce DEF Accounts
  <2>5. Range(taskQueue) = Range(q) \cup Range(rest) /\ taskQueue \in Seq(Url)
    BY <2>2, ConcatRange
  <2>6. /\ ResolvedIn(q) = ResolvedOf(Range(q))
        /\ ResolvedIn(rest) = ResolvedOf(Range(rest))
        /\ ResolvedIn(taskQueue) = ResolvedOf(Range(taskQueue))
    BY <2>2, <2>5, ResolvedRange
  <2>7. /\ ResolvedIn(taskQueue) = ResolvedIn(q) \cup ResolvedIn(rest)
        /\ UnresolvedOf(Range(taskQueue))
             = UnresolvedOf(Range(q)) \cup UnresolvedOf(Range(rest))
    BY <2>5, <2>6, UnionParts
  <2>8. ResolvedOf(gone) = refused
    BY <2>1, <2>6 DEF ResolvedOf
  <2>9. UnresolvedOf(gone) = UnresolvedOf(Range(q))
    BY DEF UnresolvedOf
  <2>10. /\ ResolvedOf(dropped') = ResolvedOf(dropped) \cup refused
         /\ UnresolvedOf(dropped') = UnresolvedOf(dropped) \cup UnresolvedOf(Range(q))
    <3> HIDE DEF gone
    <3>1. QED
      BY <2>3, <2>8, <2>9, UnionParts
  <2>11. /\ Once(taskQueue') /\ ResolvedIn(taskQueue') = ResolvedIn(rest)
         /\ UnresolvedOf(Range(taskQueue')) = UnresolvedOf(Range(rest))
    BY <2>1, <2>4
  <2> HIDE DEF gone
  <2> DEFINE A == ResolvedIn(q)
             B == ResolvedIn(rest)
             D == ResolvedOf(dropped)
             E == UnresolvedOf(Range(q))
             F == UnresolvedOf(Range(rest))
             G == UnresolvedOf(dropped)
  <2>12. /\ (A \cup B) \cap (allFds \cup pushed) = {}
         /\ D \cap (A \cup B \cup allFds \cup pushed) = {}
         /\ known = A \cup B \cup (allFds \ pushed) \cup D \cup pushed \cup E \cup F \cup G
    BY <2>7 DEF Accounts
  <2>13. /\ A \cap B = {} /\ refused \subseteq A
         /\ ResolvedIn(taskQueue') = B /\ ResolvedOf(dropped') = D \cup refused
         /\ UnresolvedOf(Range(taskQueue')) = F /\ UnresolvedOf(dropped') = G \cup E
         /\ allFds' = allFds \cup (A \ refused)
    BY <2>1, <2>4, <2>10, <2>11
  <2> HIDE DEF A, B, D, E, F, G
  <2>14. /\ B \cap (allFds' \cup pushed) = {}
         /\ (D \cup refused) \cap (B \cup allFds' \cup pushed) = {}
    BY <2>12, <2>13
  <2>15. known = B \cup (allFds' \ pushed) \cup (D \cup refused) \cup pushed
                   \cup F \cup (G \cup E)
    BY <2>12, <2>13
  <2>16. QED
    BY <1>1, <2>11, <2>13, <2>14, <2>15 DEF Accounts
<1>4. QED
  BY <1>2, <1>3

LEMMA AccountsFrame ==
  ASSUME Accounts, UNCHANGED <<taskQueue, known, allFds, pushed, dropped>>
  PROVE  Accounts'
BY DEF Accounts

LEMMA AccountsStep ==
  ASSUME BoundType, PP!TypeOK, PP!NoJobTwice, Accounts, [Next]_vars
  PROVE  Accounts'
<1> USE DEF fdVars, poolVars
<1>1. ASSUME NEW p \in Pages, Seed(p)
      PROVE  Accounts'
  BY <1>1, AccountsPutUrls DEF Seed
<1>2. CASE FillFdSet
  BY <1>2, AccountsFill
<1>3. ASSUME NEW s \in Pages, PushJob(s)
      PROVE  Accounts'
  <2>1. /\ pushed' = pushed \cup {s} /\ s \in allFds
        /\ UNCHANGED <<taskQueue, known, allFds, dropped>>
    BY <1>3 DEF PushJob, Pool!PushWork
  <2>2. QED
    BY <2>1 DEF Accounts
<1>4. ASSUME NEW s \in Pages, ClearFd(s)
      PROVE  Accounts'
  <2>1. /\ allFds' = allFds \ {s} /\ s \in pushed
        /\ UNCHANGED <<taskQueue, known, pushed, dropped>>
    BY <1>4 DEF ClearFd
  <2>2. QED
    BY <2>1 DEF Accounts
<1>5. CASE ExitMainThread \/ Select \/ PostJob \/ DispatchDone \/ SelectError
  <2>1. UNCHANGED <<taskQueue, known, allFds, pushed, dropped>>
    BY <1>5 DEF ExitMainThread, Select, PostJob, DispatchDone, SelectError,
         Pool!PostSemaphore
  <2>2. QED
    BY <2>1, AccountsFrame
<1>6. CASE ExecuteLoop \/ SetExit \/ JoinMainThread \/ LoadAllSeed
  <2>1. UNCHANGED <<taskQueue, known, allFds, pushed, dropped>>
    BY <1>6 DEF ExecuteLoop, ReadWorkerCount, ReadTaskQueue, SetExit,
         JoinMainThread, LoadAllSeed
  <2>2. QED
    BY <2>1, AccountsFrame
<1>7. ASSUME NEW s \in Pages, ServerAnswers(s)
      PROVE  Accounts'
  BY <1>7, AccountsFrame DEF ServerAnswers
<1>8. ASSUME NEW w \in Workers, PutLink(w)
      PROVE  Accounts'
  BY <1>8, AccountsPutUrls DEF PutLink
<1>9. ASSUME NEW w \in Workers, PutAgain(w)
      PROVE  Accounts'
  BY <1>9, AccountsPutAgain
<1>10. ASSUME NEW w \in Workers, WorkerStep(w) \/ RecvResponse(w) \/ ProcessPage(w)
       PROVE  Accounts'
  <2>1. UNCHANGED <<taskQueue, known, allFds, pushed, dropped>>
    BY <1>10 DEF WorkerStep, RecvResponse, ProcessPage, Pool!CheckExit, Pool!WaitSemaphore,
         Pool!PopWork, Pool!RunThreadFunction, Pool!LoadForIncrement, Pool!StoreIncrement, Pool!LoadForDecrement,
         Pool!StoreDecrement, Pool!clientVars
  <2>2. QED
    BY <2>1, AccountsFrame
<1>11. CASE UNCHANGED vars
  BY <1>11, AccountsFrame DEF vars
<1>12. QED
  BY <1>1, <1>2, <1>3, <1>4, <1>5, <1>6, <1>7, <1>8, <1>9, <1>10, <1>11
     DEF Next, MainThread, Worker

(* A page handed over with an address is in one place at a time, and none    *)
(* leaves the account on the way from rinse to a job: put_urls, lines        *)
(* 103-122, push_work and FD_CLR, and the URLs worker_work puts again.       *)
THEOREM NoPageLost == Spec => []PagesAccounted
<1>1. Init => Accounts
  BY DEF Init, Pool!Init, Accounts, Once, ResolvedIn, ResolvedOf, UnresolvedOf, Range
<1>2. /\ BoundType /\ PP!TypeOK /\ PP!NoJobTwice /\ Accounts /\ [Next]_vars
      => Accounts'
  BY AccountsStep
<1>3. Spec => []Accounts
  BY <1>1, <1>2, ExecTypes, PoolInvariants, PTL DEF Spec
<1>4. BoundType /\ Accounts => PagesAccounted
  BY AccountsIsPagesAccounted
<1>5. QED
  BY <1>3, <1>4, ExecTypes, PTL
===============================================================================
