------------------------ MODULE SpiderThreadPool_proofs ------------------------
(***************************************************************************)
(* Theorems about SpiderThreadPool, for every number of threads, every set *)
(* of jobs and every maximum count of the semaphore.                       *)
(***************************************************************************)
EXTENDS SpiderThreadPool, FiniteSetTheorems, TLAPS

(* Type correctness of the pool (every field of Spider_Thread_Pool and the  *)
(* locals of manage_function).                                              *)
THEOREM TypeCorrect == Spec => []TypeOK
<1>1. Init => TypeOK
  <2>1. Cardinality(Workers) \in Nat
    BY PoolAssumption, FS_CardinalityType
  <2>2. QED
    BY <2>1, PoolAssumption DEF Init, TypeOK, WorkerPC, ClientPC
<1>2. ASSUME TypeOK, [Next]_vars
      PROVE  TypeOK'
  <2>0. Cardinality(Workers) \in Nat
    BY PoolAssumption, FS_CardinalityType
  <2> USE <1>2, <2>0, PoolAssumption
      DEF TypeOK, WorkerPC, ClientPC, clientVars, countVars, Goto
  <2>1. ASSUME NEW j \in Jobs, PushWork(j)
        PROVE  TypeOK'
    BY <2>1 DEF PushWork
  <2>2. CASE PostSemaphore
    BY <2>2 DEF PostSemaphore, SemaphoreRelease, SemaphoreFull
  <2>3. CASE SetExitFlag
    BY <2>3 DEF SetExitFlag
  <2>4. CASE ReleasePermit
    BY <2>4 DEF ReleasePermit, SemaphoreRelease, SemaphoreFull
  <2>5. CASE JoinThreads
    BY <2>5 DEF JoinThreads
  <2>6. ASSUME NEW w \in Workers, CheckExit(w)
        PROVE  TypeOK'
    BY <2>6 DEF CheckExit
  <2>7. ASSUME NEW w \in Workers, WaitSemaphore(w)
        PROVE  TypeOK'
    BY <2>7 DEF WaitSemaphore
  <2>8. ASSUME NEW w \in Workers, PopWork(w)
        PROVE  TypeOK'
    <3>1. CASE queue = <<>>
      BY <2>8, <3>1 DEF PopWork
    <3>2. CASE queue # <<>>
      <4>1. Head(queue) \in Jobs /\ Tail(queue) \in Seq(Jobs)
        BY <3>2
      <4>2. QED
        BY <2>8, <3>2, <4>1 DEF PopWork
    <3>3. QED
      BY <3>1, <3>2
  <2>9. ASSUME NEW w \in Workers, LoadForIncrement(w) \/ LoadForDecrement(w)
        PROVE  TypeOK'
    BY <2>9 DEF LoadForIncrement, LoadForDecrement
  <2>10. ASSUME NEW w \in Workers, StoreIncrement(w) \/ StoreDecrement(w)
         PROVE  TypeOK'
    BY <2>10 DEF StoreIncrement, StoreDecrement
  <2>11. ASSUME NEW w \in Workers, RunThreadFunction(w)
         PROVE  TypeOK'
    BY <2>11 DEF RunThreadFunction
  <2>12. CASE UNCHANGED vars
    BY <2>12 DEF vars
  <2>13. QED
    BY <2>1, <2>2, <2>3, <2>4, <2>5, <2>6, <2>7, <2>8, <2>9, <2>10, <2>11, <2>12
       DEF Next, Destructor, ManageFunction
<1>3. QED
  BY <1>1, <1>2, PTL DEF Spec
-------------------------------------------------------------------------------
(* A worker holds a job from the pop to the end of run_thread_function.     *)
HoldsOnlyWhileRunning ==
    \A w \in Workers : pc[w] \notin {"inc", "incStore", "run"} => job[w] = NoJob

JobInv == NoJobTwice /\ HoldsOnlyWhileRunning

LEMMA JobInvInit == Init => JobInv
  BY DEF Init, JobInv, NoJobTwice, HoldsOnlyWhileRunning, Queued, Taken

(* Steps that leave queue, job and pushed alone.                            *)
LEMMA JobInvOther ==
  ASSUME TypeOK, JobInv, UNCHANGED <<queue, job, pushed>>,
         \/ pc' = pc
         \/ \E w \in Workers, l \in WorkerPC :
               /\ pc' = [pc EXCEPT ![w] = l]
               /\ pc[w] \in {"inc", "incStore", "run"} => l \in {"inc", "incStore", "run"}
  PROVE  JobInv'
<1>1. Queued' = Queued /\ Taken' = Taken
  BY DEF Queued, Taken
<1>2. NoJobTwice'
  BY <1>1 DEF JobInv, NoJobTwice
<1>3. HoldsOnlyWhileRunning'
  BY DEF JobInv, HoldsOnlyWhileRunning, TypeOK
<1>4. QED
  BY <1>2, <1>3 DEF JobInv

(* Only three actions touch the queue or a worker's job.                    *)
LEMMA JobInvPush ==
  ASSUME TypeOK, JobInv, NEW j \in Jobs, PushWork(j)
  PROVE  JobInv'
<1>1. /\ \A i \in 1..Len(queue) : queue'[i] = queue[i]
      /\ Len(queue') = Len(queue) + 1
      /\ queue'[Len(queue) + 1] = j
      /\ job' = job /\ pc' = pc /\ pushed' = pushed \cup {j} /\ j \notin pushed
  BY DEF PushWork, TypeOK
<1>2. Queued' = Queued \cup {j} /\ Taken' = Taken
  BY <1>1 DEF Queued, Taken, TypeOK
<1>3. \A i \in 1..Len(queue) : queue[i] # j
  BY <1>1 DEF JobInv, NoJobTwice, Queued
<1>4. ASSUME NEW i \in 1..Len(queue'), NEW k \in 1..Len(queue'),
             queue'[i] = queue'[k]
      PROVE  i = k
  BY <1>1, <1>3, <1>4 DEF JobInv, NoJobTwice, TypeOK
<1>5. j \notin Taken
  BY <1>1 DEF JobInv, NoJobTwice
<1>6. NoJobTwice'
  BY <1>1, <1>2, <1>4, <1>5 DEF JobInv, NoJobTwice
<1>7. QED
  BY <1>1, <1>6 DEF JobInv, HoldsOnlyWhileRunning

LEMMA PopEffect ==
  ASSUME TypeOK, NEW w \in Workers, PopWork(w), queue # <<>>
  PROVE  /\ Len(queue) \in Nat \ {0}
         /\ Len(queue') = Len(queue) - 1
         /\ \A i \in 1..Len(queue') : queue'[i] = queue[i + 1]
         /\ job' = [job EXCEPT ![w] = queue[1]]
         /\ queue[1] \in Jobs
<1>1. queue \in Seq(Jobs) /\ queue # <<>>
  BY DEF TypeOK
<1>2. Len(queue) \in Nat \ {0} /\ queue[1] \in Jobs /\ Head(queue) = queue[1]
  BY <1>1
<1>3. /\ Len(Tail(queue)) = Len(queue) - 1
      /\ \A i \in 1..Len(Tail(queue)) : Tail(queue)[i] = queue[i + 1]
  BY <1>1
<1>4. queue' = Tail(queue) /\ job' = [job EXCEPT ![w] = queue[1]]
  BY <1>2 DEF PopWork
<1>5. QED
  BY <1>2, <1>3, <1>4

LEMMA JobInvPop ==
  ASSUME TypeOK, JobInv, NEW w \in Workers, PopWork(w)
  PROVE  JobInv'
<1>0. /\ pc' = [pc EXCEPT ![w] = "inc"] /\ pushed' = pushed /\ pc[w] = "pop"
  BY DEF PopWork, Goto, clientVars
<1>1. CASE queue = <<>>
  <2>1. UNCHANGED <<queue, job, pushed>>
    BY <1>0, <1>1 DEF PopWork
  <2>2. QED
    BY <1>0, <2>1, JobInvOther DEF WorkerPC
<1>2. CASE queue # <<>>
  <2>1. /\ Len(queue) \in Nat \ {0}
        /\ Len(queue') = Len(queue) - 1
        /\ \A i \in 1..Len(queue') : queue'[i] = queue[i + 1]
        /\ job' = [job EXCEPT ![w] = queue[1]]
        /\ queue[1] \in Jobs
    BY <1>2, PopEffect
  <2>2. \A i \in 1..Len(queue') : i + 1 \in 1..Len(queue) /\ i + 1 # 1
    BY <2>1
  <2>3. Queued' \subseteq Queued /\ queue[1] \notin Queued'
    BY <2>1, <2>2 DEF Queued, JobInv, NoJobTwice
  <2>4. queue[1] \in Queued /\ queue[1] \notin Taken
    BY <2>1 DEF Queued, JobInv, NoJobTwice
  <2>5. Taken' \subseteq Taken \cup {queue[1]}
    BY <2>1 DEF Taken, TypeOK
  <2>6. \A v \in Workers : v # w => job'[v] = job[v] /\ job[v] # queue[1]
    BY <2>1, <2>4, PoolAssumption DEF Taken, TypeOK
  <2>7. job'[w] = queue[1]
    BY <2>1 DEF TypeOK
  <2>8. ASSUME NEW v \in Workers, NEW u \in Workers,
               job'[v] = job'[u], job'[v] # NoJob
        PROVE  v = u
    BY <2>6, <2>7, <2>8 DEF JobInv, NoJobTwice
  <2>9. ASSUME NEW i \in 1..Len(queue'), NEW k \in 1..Len(queue'),
               queue'[i] = queue'[k]
        PROVE  i = k
    BY <2>1, <2>2, <2>9 DEF JobInv, NoJobTwice
  <2>10. NoJobTwice'
    <3>1. Queued' \cap Taken' = {}
      BY <2>3, <2>5 DEF JobInv, NoJobTwice
    <3>2. Queued' \cup Taken' \subseteq pushed'
      BY <1>0, <2>3, <2>4, <2>5 DEF JobInv, NoJobTwice
    <3>3. QED
      BY <2>8, <2>9, <3>1, <3>2 DEF NoJobTwice
  <2>11. HoldsOnlyWhileRunning'
    BY <1>0, <2>6 DEF JobInv, HoldsOnlyWhileRunning, TypeOK
  <2>12. QED
    BY <2>10, <2>11 DEF JobInv
<1>3. QED
  BY <1>1, <1>2

LEMMA JobInvRun ==
  ASSUME TypeOK, JobInv, NEW w \in Workers, RunThreadFunction(w)
  PROVE  JobInv'
<1>1. /\ queue' = queue /\ pushed' = pushed
      /\ job' = [job EXCEPT ![w] = NoJob]
      /\ pc' = [pc EXCEPT ![w] = "dec"]
  BY DEF RunThreadFunction, Goto, clientVars
<1>2. Queued' = Queued /\ Taken' \subseteq Taken
  BY <1>1 DEF Queued, Taken, TypeOK
<1>3. QED
  BY <1>1, <1>2 DEF JobInv, NoJobTwice, HoldsOnlyWhileRunning, TypeOK

LEMMA JobInvStep ==
  ASSUME TypeOK, JobInv, [Next]_vars
  PROVE  JobInv'
<1> USE DEF clientVars, countVars, Goto
<1>1. ASSUME NEW j \in Jobs, PushWork(j) PROVE JobInv'
  BY <1>1, JobInvPush
<1>2. CASE PostSemaphore
  BY <1>2, JobInvOther DEF PostSemaphore
<1>3. CASE Destructor
  BY <1>3, JobInvOther DEF Destructor, SetExitFlag, ReleasePermit, JoinThreads
<1>4. ASSUME NEW w \in Workers, PopWork(w) PROVE JobInv'
  BY <1>4, JobInvPop
<1>5. ASSUME NEW w \in Workers, RunThreadFunction(w) PROVE JobInv'
  BY <1>5, JobInvRun
<1>6. ASSUME NEW w \in Workers, CheckExit(w) PROVE JobInv'
  BY <1>6, JobInvOther DEF CheckExit, WorkerPC
<1>7. ASSUME NEW w \in Workers, WaitSemaphore(w) PROVE JobInv'
  BY <1>7, JobInvOther DEF WaitSemaphore, WorkerPC
<1>8. ASSUME NEW w \in Workers, LoadForIncrement(w) \/ StoreIncrement(w) PROVE JobInv'
  BY <1>8, JobInvOther DEF LoadForIncrement, StoreIncrement, WorkerPC
<1>9. ASSUME NEW w \in Workers, LoadForDecrement(w) \/ StoreDecrement(w) PROVE JobInv'
  BY <1>9, JobInvOther DEF LoadForDecrement, StoreDecrement, WorkerPC
<1>10. CASE UNCHANGED vars
  BY <1>10, JobInvOther DEF vars
<1>11. QED
  BY <1>1, <1>2, <1>3, <1>4, <1>5, <1>6, <1>7, <1>8, <1>9, <1>10
     DEF Next, ManageFunction

LEMMA JobInvariant == Spec => []JobInv
<1>1. Init => JobInv
  BY JobInvInit
<1>2. TypeOK /\ JobInv /\ [Next]_vars => JobInv'
  BY JobInvStep
<1>3. QED
  BY <1>1, <1>2, TypeCorrect, PTL DEF Spec

(* No job is ever in two places, so none runs twice: pop_work's front/pop   *)
(* under the mutex against push_work (spider_thread_pool.cpp 13-16, 81-101).*)
THEOREM JobsRunAtMostOnce == Spec => []NoJobTwice
  BY JobInvariant, PTL DEF JobInv
-------------------------------------------------------------------------------
(* Counting permits.                                                       *)

LEMMA EntitledFinite ==
  ASSUME TypeOK
  PROVE  IsFiniteSet(Entitled) /\ Cardinality(Entitled) \in Nat
BY PoolAssumption, FS_Subset, FS_CardinalityType DEF Entitled

LEMMA PermitStep ==
  ASSUME TypeOK, PermitsMatchQueue, [Next]_vars
  PROVE  PermitsMatchQueue'
<1>0. CASE ExitFlag'
  BY <1>0 DEF PermitsMatchQueue
<1> SUFFICES ASSUME ~ExitFlag'
             PROVE  Len(queue') = permits' + Cardinality(Entitled') + Posting'
                                    + failedPosts'
  BY <1>0 DEF PermitsMatchQueue
<1>a. Cardinality(Entitled) \in Nat
  BY EntitledFinite
<1> USE <1>a DEF clientVars, countVars, Goto
<1>1. ASSUME NEW j \in Jobs, PushWork(j)
      PROVE  Len(queue') = permits' + Cardinality(Entitled') + Posting' + failedPosts'
  <2>1. Entitled' = Entitled /\ Posting' = 1 /\ Posting = 0 /\ ~ExitFlag
    BY <1>1 DEF PushWork, Entitled, Posting, ExitFlag
  <2>2. Len(queue') = Len(queue) + 1 /\ permits' = permits /\ failedPosts' = failedPosts
    BY <1>1 DEF PushWork, TypeOK
  <2>3. QED
    BY <2>1, <2>2 DEF PermitsMatchQueue, TypeOK
<1>2. CASE PostSemaphore
  <2>1. Entitled' = Entitled /\ Posting' = 0 /\ Posting = 1 /\ ~ExitFlag
    BY <1>2 DEF PostSemaphore, Entitled, Posting, ExitFlag
  <2>2. \/ /\ permits' = permits /\ failedPosts' = failedPosts + 1
        \/ /\ permits' = permits + 1 /\ failedPosts' = failedPosts
    BY <1>2, PoolAssumption DEF PostSemaphore, SemaphoreRelease, SemaphoreFull, TypeOK
  <2>3. queue' = queue
    BY <1>2 DEF PostSemaphore
  <2>4. QED
    BY <2>1, <2>2, <2>3, PoolAssumption DEF PermitsMatchQueue, TypeOK
<1>3. CASE Destructor
  <2>1. CASE SetExitFlag
    BY <2>1 DEF SetExitFlag, ExitFlag
  <2>2. CASE ReleasePermit
    BY <2>2 DEF ReleasePermit, ExitFlag
  <2>3. CASE JoinThreads
    BY <2>3 DEF JoinThreads, ExitFlag
  <2>4. QED
    BY <1>3, <2>1, <2>2, <2>3 DEF Destructor
<1>4. ASSUME NEW w \in Workers, WaitSemaphore(w)
      PROVE  Len(queue') = permits' + Cardinality(Entitled') + Posting' + failedPosts'
  <2>1. Entitled' = Entitled \cup {w} /\ w \notin Entitled
    BY <1>4 DEF WaitSemaphore, Entitled, TypeOK
  <2>2. Cardinality(Entitled') = Cardinality(Entitled) + 1
    BY <2>1, FS_AddElement, EntitledFinite
  <2>3. /\ queue' = queue /\ permits' = permits - 1 /\ Posting' = Posting
        /\ failedPosts' = failedPosts /\ ~ExitFlag
    BY <1>4 DEF WaitSemaphore, Posting, ExitFlag
  <2>4. QED
    BY <2>2, <2>3 DEF PermitsMatchQueue, TypeOK, Posting
<1>5. ASSUME NEW w \in Workers, PopWork(w)
      PROVE  Len(queue') = permits' + Cardinality(Entitled') + Posting' + failedPosts'
  <2>1. Entitled' = Entitled \ {w} /\ w \in Entitled
    BY <1>5 DEF PopWork, Entitled, TypeOK
  <2>2. Cardinality(Entitled') = Cardinality(Entitled) - 1
    BY <2>1, FS_RemoveElement, EntitledFinite
  <2>3. /\ permits' = permits /\ Posting' = Posting
        /\ failedPosts' = failedPosts /\ ~ExitFlag
    BY <1>5 DEF PopWork, Posting, ExitFlag
  <2>4. Cardinality(Entitled') \in Nat
    BY <2>1, FS_RemoveElement, FS_CardinalityType, EntitledFinite
  <2>5. Len(queue) > 0
    BY <2>2, <2>3, <2>4 DEF PermitsMatchQueue, TypeOK, Posting
  <2>6. Len(queue') = Len(queue) - 1
    BY <1>5, <2>5, PopEffect DEF TypeOK
  <2>7. Len(queue) \in Nat /\ Cardinality(Entitled) \in Nat
    BY FS_CardinalityType, EntitledFinite DEF TypeOK
  <2>8. QED
    BY <2>2, <2>3, <2>6, <2>7 DEF PermitsMatchQueue, TypeOK, Posting
<1>6. ASSUME NEW w \in Workers,
             \/ CheckExit(w) \/ RunThreadFunction(w)
             \/ LoadForIncrement(w) \/ StoreIncrement(w)
             \/ LoadForDecrement(w) \/ StoreDecrement(w)
      PROVE  Len(queue') = permits' + Cardinality(Entitled') + Posting' + failedPosts'
  <2>1. Entitled' = Entitled /\ Posting' = Posting /\ UNCHANGED <<queue, permits, failedPosts>>
    BY <1>6 DEF CheckExit, RunThreadFunction, LoadForIncrement, StoreIncrement,
         LoadForDecrement, StoreDecrement, Entitled, Posting, TypeOK
  <2>2. ~ExitFlag
    BY <1>6 DEF CheckExit, RunThreadFunction, LoadForIncrement, StoreIncrement,
         LoadForDecrement, StoreDecrement, ExitFlag
  <2>3. QED
    BY <2>1, <2>2 DEF PermitsMatchQueue
<1>7. CASE UNCHANGED vars
  BY <1>7 DEF vars, Entitled, Posting, PermitsMatchQueue, ExitFlag
<1>8. QED
  BY <1>1, <1>2, <1>3, <1>4, <1>5, <1>6, <1>7 DEF Next, ManageFunction

(* Every queued job but those whose post failed has a permit or a worker    *)
(* coming for it, and no worker pops an empty queue before destruction:     *)
(* push_work's push-then-post against wait-then-pop (lines 12-16, 81-87).   *)
THEOREM PermitsAccountForJobs == Spec => []PermitsMatchQueue
<1>1. Init => PermitsMatchQueue
  <2>1. ASSUME Init PROVE Entitled = {} /\ Posting = 0 /\ Len(queue) = 0
    BY <2>1 DEF Init, Entitled, Posting
  <2>2. QED
    BY <2>1, FS_EmptySet DEF Init, PermitsMatchQueue
<1>2. TypeOK /\ PermitsMatchQueue /\ [Next]_vars => PermitsMatchQueue'
  BY PermitStep
<1>3. QED
  BY <1>1, <1>2, TypeCorrect, PTL DEF Spec
-------------------------------------------------------------------------------
(* Refinement.                                                             *)

LEMMA AbstractStutter ==
  ASSUME UNCHANGED <<queue, job, pushed>>
  PROVE  UNCHANGED Abstract!jobVars
BY DEF Abstract!jobVars, Queued, Taken, Executed

LEMMA AbstractSubmit ==
  ASSUME TypeOK, JobInv, NEW j \in Jobs, PushWork(j)
  PROVE  Abstract!Next
<1>1. Abstract!Waiting \cup Abstract!Held \cup Executed = pushed
  BY DEF Abstract!Waiting, Abstract!Held, Executed, Queued, Taken, JobInv, NoJobTwice
<1>2. /\ queue' = Append(queue, j) /\ job' = job
      /\ pushed' = pushed \cup {j} /\ j \notin pushed
  BY DEF PushWork
<1>3. Queued' = Queued \cup {j} /\ Taken' = Taken
  BY <1>2 DEF Queued, Taken, TypeOK
<1>4. Executed' = Executed
  BY <1>2, <1>3 DEF Executed, JobInv, NoJobTwice
<1>5. Abstract!Submit(j)
  BY <1>1, <1>2, <1>3, <1>4 DEF Abstract!Submit
<1>6. QED
  BY <1>5 DEF Abstract!Next

LEMMA AbstractStart ==
  ASSUME TypeOK, JobInv, NEW w \in Workers, PopWork(w)
  PROVE  [Abstract!Next]_(Abstract!jobVars)
<1>0. pc[w] = "pop" /\ pushed' = pushed /\ job[w] = NoJob
  BY DEF PopWork, clientVars, JobInv, HoldsOnlyWhileRunning
<1>1. CASE queue = <<>>
  <2>1. UNCHANGED <<queue, job, pushed>>
    BY <1>0, <1>1 DEF PopWork
  <2>2. QED
    BY <2>1, AbstractStutter
<1>2. CASE queue # <<>>
  <2>1. /\ Len(queue) \in Nat \ {0}
        /\ Len(queue') = Len(queue) - 1
        /\ \A i \in 1..Len(queue') : queue'[i] = queue[i + 1]
        /\ job' = [job EXCEPT ![w] = queue[1]]
        /\ queue[1] \in Jobs
    BY <1>2, PopEffect
  <2>2. queue' = Tail(queue) /\ Head(queue) = queue[1]
    BY <1>2 DEF PopWork, TypeOK
  <2>3. Taken' = Taken \cup {queue[1]}
    <3>1. job'[w] = queue[1] /\ queue[1] # NoJob
      BY <2>1, PoolAssumption DEF TypeOK
    <3>2. \A v \in Workers : v # w => job'[v] = job[v]
      BY <2>1 DEF TypeOK
    <3>3. QED
      BY <1>0, <3>1, <3>2 DEF Taken
  <2>4. Queued = Queued' \cup {queue[1]}
    <3>1. \A i \in 1..Len(queue) :
             i = 1 \/ (i - 1 \in 1..Len(queue') /\ queue'[i - 1] = queue[i])
      BY <2>1
    <3>2. \A i \in 1..Len(queue') : i + 1 \in 1..Len(queue)
      BY <2>1
    <3>3. 1 \in 1..Len(queue)
      BY <2>1
    <3>4. ASSUME NEW i \in 1..Len(queue)
          PROVE  queue[i] \in Queued' \cup {queue[1]}
      BY <3>1 DEF Queued
    <3>5. ASSUME NEW i \in 1..Len(queue')
          PROVE  queue'[i] \in Queued
      BY <2>1, <3>2 DEF Queued
    <3>6. queue[1] \in Queued
      BY <3>3 DEF Queued
    <3>7. QED
      BY <3>4, <3>5, <3>6 DEF Queued
  <2>5. Executed' = Executed
    BY <1>0, <2>3, <2>4 DEF Executed
  <2>6. job' = [job EXCEPT ![w] = Head(queue)]
    BY <2>1, <2>2
  <2>7. Abstract!Start(w)
    BY <1>0, <1>2, <2>2, <2>5, <2>6 DEF Abstract!Start
  <2>8. QED
    BY <2>7 DEF Abstract!Next
<1>3. QED
  BY <1>1, <1>2

LEMMA AbstractFinish ==
  ASSUME TypeOK, JobInv, NEW w \in Workers, RunThreadFunction(w)
  PROVE  [Abstract!Next]_(Abstract!jobVars)
<1>1. queue' = queue /\ pushed' = pushed /\ job' = [job EXCEPT ![w] = NoJob]
  BY DEF RunThreadFunction, clientVars
<1>2. CASE job[w] = NoJob
  <2>1. job' = job
    BY <1>1, <1>2 DEF TypeOK
  <2>2. QED
    BY <1>1, <2>1, AbstractStutter
<1>3. CASE job[w] # NoJob
  <2>1. job[w] \in Taken /\ job[w] \in Jobs
    BY <1>3 DEF Taken, TypeOK
  <2>2. job'[w] = NoJob /\ \A v \in Workers : v # w => job'[v] = job[v]
    BY <1>1 DEF TypeOK
  <2>3. Taken' = Taken \ {job[w]}
    BY <1>3, <2>2 DEF Taken, JobInv, NoJobTwice
  <2>4. Queued' = Queued
    BY <1>1 DEF Queued
  <2>5. Executed' = Executed \cup {job[w]}
    BY <1>1, <2>1, <2>3, <2>4 DEF Executed, JobInv, NoJobTwice
  <2>6. Abstract!Finish(w)
    BY <1>1, <1>3, <2>5 DEF Abstract!Finish
  <2>7. QED
    BY <2>6 DEF Abstract!Next
<1>4. QED
  BY <1>2, <1>3

LEMMA AbstractStep ==
  ASSUME TypeOK, JobInv, [Next]_vars
  PROVE  [Abstract!Next]_(Abstract!jobVars)
<1> USE DEF clientVars, countVars
<1>1. ASSUME NEW j \in Jobs, PushWork(j)
      PROVE  [Abstract!Next]_(Abstract!jobVars)
  BY <1>1, AbstractSubmit
<1>2. ASSUME NEW w \in Workers, PopWork(w)
      PROVE  [Abstract!Next]_(Abstract!jobVars)
  BY <1>2, AbstractStart
<1>3. ASSUME NEW w \in Workers, RunThreadFunction(w)
      PROVE  [Abstract!Next]_(Abstract!jobVars)
  BY <1>3, AbstractFinish
<1>4. CASE PostSemaphore
  BY <1>4, AbstractStutter DEF PostSemaphore
<1>5. CASE Destructor
  BY <1>5, AbstractStutter DEF Destructor, SetExitFlag, ReleasePermit, JoinThreads
<1>6. ASSUME NEW w \in Workers,
             \/ CheckExit(w) \/ WaitSemaphore(w)
             \/ LoadForIncrement(w) \/ StoreIncrement(w)
             \/ LoadForDecrement(w) \/ StoreDecrement(w)
      PROVE  [Abstract!Next]_(Abstract!jobVars)
  BY <1>6, AbstractStutter DEF CheckExit, WaitSemaphore, LoadForIncrement,
       StoreIncrement, LoadForDecrement, StoreDecrement
<1>7. CASE UNCHANGED vars
  BY <1>7, AbstractStutter DEF vars
<1>8. QED
  BY <1>1, <1>2, <1>3, <1>4, <1>5, <1>6, <1>7 DEF Next, ManageFunction

(* The pool keeps its promise to the executor: FIFO, at most one thread per *)
(* job and one job per thread, and no job lost other than in the queue.     *)
THEOREM PoolImplementsJobPool == Spec => ImplementsJobPool
<1>1. Init => Abstract!Init
  BY DEF Init, Abstract!Init, Executed
<1>2. TypeOK /\ JobInv /\ [Next]_vars => [Abstract!Next]_(Abstract!jobVars)
  BY AbstractStep
<1>3. QED
  BY <1>1, <1>2, TypeCorrect, JobInvariant, PTL
     DEF Spec, ImplementsJobPool, Abstract!Spec
===============================================================================
