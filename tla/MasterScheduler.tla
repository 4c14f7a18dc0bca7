---------------------------- MODULE MasterScheduler ----------------------------
(***************************************************************************)
(* The Master (directory Master): SlaveManager, TaskManager, Slave and      *)
(* DownloadBigFile.                                                        *)
(*                                                                         *)
(* Two threads share these objects and no lock.  libevent's loop accepts   *)
(* connections and handles the slaves' messages, one handler at a time.    *)
(* ThreadProcess runs SlaveManager::Process and TaskManager::Process every *)
(* ten seconds; here it stops wherever it reads or writes what a handler   *)
(* may change.  An operation on one std::list or std::map is one step.     *)
(*                                                                         *)
(* GetTickCount's difference from m_time_report_heartbeat is kept, not the *)
(* two readings: it is an unsigned long, so it lives modulo TickMod.       *)
(***************************************************************************)
EXTENDS Integers, FiniteSets

CONSTANTS
    Slaves,    \* IP addresses, the keys of m_SlaveMap, which iterates upwards
    Tasks,     \* the keys of m_TaskMap, likewise
    Fragments, \* how many little tasks Decompose made of each task
    Capacity,  \* the 3 of CanBeAssigned
    Timeout,   \* SLAVE_TIMEOUT, in ticks
    TickMod,   \* 2^32, the range of an unsigned long
    Kinds      \* the requests slaves send

AllKinds == {"LOGIN", "HEARTBEAT", "Sucess", "Fail", "EXIT"}

ASSUME MasterAssumption ==
    /\ Slaves \subseteq Nat \ {0} /\ Tasks \subseteq Nat \ {0}
    /\ Fragments \in [Tasks -> Nat]
    /\ Capacity \in Nat \ {0}
    /\ Timeout \in Nat /\ TickMod \in Nat /\ Timeout + 1 < TickMod
    /\ Kinds \subseteq AllKinds

(* The TASKIDs: a task and the inner_id of one of its little tasks.        *)
LittleTasks == UNION {{t} \X (0..Fragments[t] - 1) : t \in Tasks}

VARIABLES
    status,     \* m_status of the Slave object; "none": there is no object
    taskList,   \* m_TaskList: its entries, numbered to tell equal ones apart
    age,        \* GetTickCount() - m_time_report_heartbeat
    tasks,      \* the domain of m_TaskMap
    taskStatus, \* task_status of every little task
    at,         \* where ThreadProcess is
    curSlave,   \* the slave it is looking at
    curTask,    \* the task it is looking at
    little,     \* the little task it is about to give away
    lag,        \* ticks since CheckTimeOut read GetTickCount
    sent,       \* history: <<s, f>> when slave s was given little task f over
                \* the connection of its present object, and owes a RESULT
    reported,   \* history: the little tasks of which a RESULT said Sucess
    stranded,   \* history: the little tasks whose DoTask failed
    stale       \* history: <<s, f>> when s owes the RESULT of f on a connection
                \* of which the Slave object has been deleted

objVars == <<status, taskList, age>>
taskVars == <<tasks, taskStatus>>
threadVars == <<at, curSlave, curTask, little, lag>>
histVars == <<sent, reported, stranded, stale>>
vars == <<objVars, taskVars, threadVars, histVars>>

ThreadPC == {"sleep", "slaves", "compare", "status", "idle", "little", "do",
             "push", "update"}

NoLittle == <<0, 0>>

Init ==
    /\ status = [s \in Slaves |-> "none"]
    /\ taskList = [s \in Slaves |-> {}]
    /\ age = [s \in Slaves |-> 0]
    /\ tasks = Tasks
    /\ taskStatus = [f \in LittleTasks |-> "UnAssigned"]
    /\ at = "sleep" /\ curSlave = 0 /\ curTask = 0 /\ little = NoLittle /\ lag = 0
    /\ sent = {} /\ reported = {} /\ stranded = {} /\ stale = {}

Present == {s \in Slaves : status[s] # "none"}

Listed(s) == {e[2] : e \in taskList[s]}

Above(S, n) == {x \in S : x > n}

Least(S) == CHOOSE x \in S : \A y \in S : x <= y
-------------------------------------------------------------------------------
(* TaskManager::SetTaskStatus, for each little task of F.                  *)
SetTaskStatus(F, value) ==
    taskStatus' = [f \in LittleTasks |->
                     IF f \in F /\ f[1] \in tasks THEN value ELSE taskStatus[f]]

(* Mutant: the list is forgotten with the object. *)
RetrieveNothing(s) == UNCHANGED taskStatus

RetrieveTask(s) == SetTaskStatus(Listed(s), "UnAssigned")
-------------------------------------------------------------------------------
(* libevent's loop.                                                        *)

(* AddSlave for an address that has no object.  A further connection from  *)
(* an address that has one gets the same object and changes nothing.       *)
Accept(s) ==
    /\ status[s] = "none"
    /\ status' = [status EXCEPT ![s] = "UNLOGIN"]
    /\ taskList' = [taskList EXCEPT ![s] = {}]
    /\ age' = [age EXCEPT ![s] = 0]
    /\ UNCHANGED <<taskVars, threadVars, histVars>>

(* A second LOGIN is answered Fail, a first, or one after EXIT, Sucess.    *)
LoginRequest(s) ==
    /\ status[s] # "none"
    /\ status' = [status EXCEPT ![s] = "LOGINED"]
    /\ UNCHANGED <<taskList, age, taskVars, threadVars, histVars>>

HeartbeatRequest(s) ==
    /\ status[s] # "none"
    /\ age' = [age EXCEPT ![s] = 0]
    /\ UNCHANGED <<status, taskList, taskVars, threadVars, histVars>>

ResultSucess(s, f) ==
    /\ status[s] # "none"
    /\ SetTaskStatus({f}, "Completed")
    /\ taskList' = [taskList EXCEPT ![s] = {e \in @ : e[2] # f}]
    /\ reported' = reported \cup {f}
    /\ sent' = sent \ {<<s, f>>}
    /\ UNCHANGED <<status, age, tasks, threadVars, stranded, stale>>

(* The little task is to be assigned anew, and stays in the list.          *)
ResultFail(s, f) ==
    /\ status[s] # "none"
    /\ SetTaskStatus({f}, "UnAssigned")
    /\ sent' = sent \ {<<s, f>>}
    /\ UNCHANGED <<objVars, tasks, threadVars, reported, stranded, stale>>

ExitRequest(s) ==
    /\ status[s] # "none"
    /\ status' = [status EXCEPT ![s] = "DEAD"]
    /\ RetrieveTask(s)
    /\ taskList' = [taskList EXCEPT ![s] = {}]
    /\ sent' = {p \in sent : p[1] # s}
    /\ UNCHANGED <<age, tasks, threadVars, reported, stranded, stale>>

(* A RESULT on a connection whose Slave object ThreadProcess has deleted:   *)
(* the handler runs on freed memory.  When it does not stop the program,   *)
(* it still tells TaskManager.                                             *)
StaleResult(s, f) ==
    /\ <<s, f>> \in stale
    /\ SetTaskStatus({f}, "Completed")
    /\ reported' = reported \cup {f}
    /\ stale' = stale \ {<<s, f>>}
    /\ UNCHANGED <<objVars, tasks, threadVars, sent, stranded>>

(* What slaves send: at most one RESULT for each little task they were     *)
(* given, and none after EXIT.                                             *)
Receive(s) ==
    \/ "LOGIN" \in Kinds /\ LoginRequest(s)
    \/ "HEARTBEAT" \in Kinds /\ HeartbeatRequest(s)
    \/ "EXIT" \in Kinds /\ ExitRequest(s)
    \/ \E f \in LittleTasks :
          /\ <<s, f>> \in sent
          /\ \/ "Sucess" \in Kinds /\ ResultSucess(s, f)
             \/ "Fail" \in Kinds /\ ResultFail(s, f)
-------------------------------------------------------------------------------
(* Time.  While CheckTimeOut is between its two readings, lag grows too.   *)
Tick ==
    /\ age' = [s \in Slaves |->
                 IF status[s] = "none" THEN 0 ELSE (age[s] + 1) % TickMod]
    /\ lag' = IF at = "compare" THEN (lag + 1) % TickMod ELSE 0
    /\ UNCHANGED <<status, taskList, taskVars, at, curSlave, curTask, little,
                   histVars>>
-------------------------------------------------------------------------------
(* ThreadProcess: SlaveManager::Process.                                   *)

(* The next slave of the map above n: CheckTimeOut reads GetTickCount.  After *)
(* the last one, AssignTask begins with the first task.                    *)
ToTask(T) ==
    IF T # {} THEN curTask' = Least(T) /\ at' = "idle"
              ELSE curTask' = 0 /\ at' = "update"

ToSlave(S) ==
    IF S # {} THEN curSlave' = Least(S) /\ at' = "compare" /\ curTask' = 0
              ELSE curSlave' = 0 /\ ToTask(tasks)

ReadTick ==
    /\ at \in {"sleep", "slaves"}
    /\ ToSlave(Above(Present, curSlave))
    /\ lag' = 0
    /\ UNCHANGED <<objVars, taskVars, little, histVars>>

(* The rest of CheckTimeOut: subtract m_time_report_heartbeat as it is now. *)
Elapsed == (age[curSlave] - lag) % TickMod

(* Mutant: the comparison is the other way round. *)
CheckTimeOutReversed ==
    /\ at = "compare"
    /\ status' = IF Elapsed < Timeout
                 THEN [status EXCEPT ![curSlave] = "DEAD"] ELSE status
    /\ at' = "status" /\ lag' = 0
    /\ UNCHANGED <<taskList, age, taskVars, curSlave, curTask, little, histVars>>

CheckTimeOut ==
    /\ at = "compare"
    /\ status' = IF Elapsed > Timeout
                 THEN [status EXCEPT ![curSlave] = "DEAD"] ELSE status
    /\ at' = "status" /\ lag' = 0
    /\ UNCHANGED <<taskList, age, taskVars, curSlave, curTask, little, histVars>>

(* GetStatus()==DEAD: delete the object, whose destructor retrieves.       *)
DeleteDead ==
    /\ at = "status"
    /\ IF status[curSlave] = "DEAD"
       THEN /\ RetrieveTask(curSlave)
            /\ status' = [status EXCEPT ![curSlave] = "none"]
            /\ taskList' = [taskList EXCEPT ![curSlave] = {}]
            /\ age' = [age EXCEPT ![curSlave] = 0]
            /\ stale' = stale \cup {p \in sent : p[1] = curSlave}
            /\ sent' = {p \in sent : p[1] # curSlave}
       ELSE UNCHANGED <<objVars, taskStatus, sent, stale>>
    /\ at' = "slaves"
    /\ UNCHANGED <<tasks, curSlave, curTask, little, lag, reported, stranded>>
-------------------------------------------------------------------------------
(* ThreadProcess: TaskManager::AssignTask.                                 *)

(* Mutant: one task too many. *)
CanBeAssignedOneMore(s) ==
    status[s] = "LOGINED" /\ Cardinality(taskList[s]) <= Capacity

CanBeAssigned(s) == status[s] = "LOGINED" /\ Cardinality(taskList[s]) < Capacity

IdleSlaves == {s \in Slaves : CanBeAssigned(s)}

GetIdleSlave ==
    /\ at = "idle"
    /\ IF IdleSlaves # {}
       THEN curSlave' = Least(IdleSlaves) /\ at' = "little" /\ UNCHANGED curTask
       ELSE curSlave' = 0 /\ ToTask(Above(tasks, curTask))
    /\ UNCHANGED <<objVars, taskVars, little, lag, histVars>>

UnAssignedOf(t) == {i \in 0..Fragments[t] - 1 : taskStatus[<<t, i>>] = "UnAssigned"}

(* Mutant: the little task stays UnAssigned. *)
GetLittleTaskUnmarked ==
    /\ at = "little"
    /\ IF UnAssignedOf(curTask) # {}
       THEN /\ little' = <<curTask, Least(UnAssignedOf(curTask))>>
            /\ at' = "do" /\ UNCHANGED <<curSlave, curTask>>
       ELSE little' = NoLittle /\ curSlave' = 0 /\ ToTask(Above(tasks, curTask))
    /\ UNCHANGED <<objVars, taskVars, lag, histVars>>

(* The first unassigned little task is marked Assigned before it is sent.  *)
GetLittleTask ==
    /\ at = "little"
    /\ IF UnAssignedOf(curTask) # {}
       THEN LET f == <<curTask, Least(UnAssignedOf(curTask))>>
            IN  /\ little' = f
                /\ taskStatus' = [taskStatus EXCEPT ![f] = "Assigned"]
                /\ at' = "do"
                /\ UNCHANGED <<curSlave, curTask>>
       ELSE /\ little' = NoLittle /\ curSlave' = 0
            /\ ToTask(Above(tasks, curTask))
            /\ UNCHANGED taskStatus
    /\ UNCHANGED <<objVars, tasks, lag, histVars>>

(* DoTask: the slave may have left since; AssignTask ignores the -1.       *)
DoTask ==
    /\ at = "do"
    /\ IF status[curSlave] = "LOGINED"
       THEN /\ at' = "push"
            /\ sent' = sent \cup {<<curSlave, little>>}
            /\ UNCHANGED <<little, stranded>>
       ELSE /\ at' = "idle" /\ little' = NoLittle
            /\ stranded' = stranded \cup {little}
            /\ UNCHANGED sent
    /\ UNCHANGED <<objVars, taskVars, curSlave, curTask, lag, reported, stale>>

FreeEntry(s) ==
    CHOOSE k \in 1..Cardinality(taskList[s]) + 1 : \A e \in taskList[s] : e[1] # k

(* The TASK is in the output buffer; now m_TaskList.push_back.             *)
PushTask ==
    /\ at = "push"
    /\ taskList' = [taskList EXCEPT ![curSlave] = @ \cup {<<FreeEntry(curSlave), little>>}]
    /\ at' = "idle" /\ little' = NoLittle
    /\ UNCHANGED <<status, age, taskVars, curSlave, curTask, lag, histVars>>
-------------------------------------------------------------------------------
(* ThreadProcess: TaskManager::UpdateTask.                                 *)

(* Mutant: a task is complete when nothing is left to assign. *)
IsCompletedWhenAssigned(t) ==
    \A i \in 0..Fragments[t] - 1 : taskStatus[<<t, i>>] # "UnAssigned"

IsCompleted(t) ==
    \A i \in 0..Fragments[t] - 1 : taskStatus[<<t, i>>] = "Completed"

(* Mutant: the ++iter of the else branch is missing. *)
UpdateTaskNoAdvance ==
    /\ at = "update"
    /\ IF Above(tasks, curTask) # {}
       THEN LET t == Least(Above(tasks, curTask))
            IN  /\ tasks' = IF IsCompleted(t) THEN tasks \ {t} ELSE tasks
                /\ UNCHANGED <<at, curTask>>
       ELSE curTask' = 0 /\ at' = "sleep" /\ UNCHANGED tasks
    /\ curSlave' = 0
    /\ UNCHANGED <<objVars, taskStatus, little, lag, histVars>>

(* The next task of the map; a completed one is combined and deleted.      *)
UpdateTask ==
    /\ at = "update"
    /\ IF Above(tasks, curTask) # {}
       THEN LET t == Least(Above(tasks, curTask))
            IN  /\ curTask' = t
                /\ tasks' = IF IsCompleted(t) THEN tasks \ {t} ELSE tasks
                /\ UNCHANGED at
       ELSE curTask' = 0 /\ at' = "sleep" /\ UNCHANGED tasks
    /\ curSlave' = 0
    /\ UNCHANGED <<objVars, taskStatus, little, lag, histVars>>

ThreadProcess ==
    \/ ReadTick \/ CheckTimeOut \/ DeleteDead
    \/ GetIdleSlave \/ GetLittleTask \/ DoTask \/ PushTask
    \/ UpdateTask

Next ==
    \/ \E s \in Slaves : Accept(s) \/ Receive(s)
    \/ \E s \in Slaves, f \in LittleTasks : StaleResult(s, f)
    \/ Tick
    \/ ThreadProcess

Spec == Init /\ [][Next]_vars

(* ThreadProcess is a thread of its own that never blocks but to sleep.    *)
FairSpec == Spec /\ WF_vars(ThreadProcess)
-------------------------------------------------------------------------------
TypeOK ==
    /\ status \in [Slaves -> {"none", "UNLOGIN", "LOGINED", "DEAD"}]
    /\ taskList \in [Slaves -> SUBSET ((1..Capacity) \X LittleTasks)]
    /\ age \in [Slaves -> 0..TickMod - 1]
    /\ tasks \subseteq Tasks
    /\ taskStatus \in [LittleTasks -> {"UnAssigned", "Assigned", "Completed"}]
    /\ at \in ThreadPC
    /\ curSlave \in Slaves \cup {0} /\ curTask \in Tasks \cup {0}
    /\ little \in LittleTasks \cup {NoLittle}
    /\ lag \in 0..TickMod - 1
    /\ sent \subseteq Slaves \X LittleTasks
    /\ reported \subseteq LittleTasks /\ stranded \subseteq LittleTasks
    /\ stale \subseteq Slaves \X LittleTasks

(* A little task that counts as Assigned is in the list of a slave that has *)
(* an object, or in AssignTask's hands on its way there; the only ones lost *)
(* are those whose DoTask failed.  So when a slave leaves, by EXIT or by    *)
(* timeout, all that was Assigned to it comes back (Slave.cpp 71-92, 15-18, *)
(* 199-203, SlaveManager.cpp 14-34).                                       *)
AssignedHasOwner ==
    \A f \in LittleTasks :
        f[1] \in tasks /\ taskStatus[f] = "Assigned" =>
            \/ \E s \in Present : f \in Listed(s)
            \/ little = f
            \/ f \in stranded

(* A task leaves the map, its files combined, only when some slave has     *)
(* reported the success of each of its little tasks, however often they    *)
(* were given away, given up and retrieved before (TaskManager.cpp 54-74,  *)
(* DownloadBigFile.cpp 85-98).                                             *)
CombinedOnlyIfReported ==
    \A t \in Tasks \ tasks : {t} \X (0..Fragments[t] - 1) \subseteq reported

(* Slave.h:26 and Slave.cpp:102: CheckTimeOut tells whether the heartbeat   *)
(* has timed out, after two minutes.  It never declares a slave dead whose *)
(* last heartbeat is not older than that.                                  *)
DeadOnlyAfterTimeout ==
    [][\A s \in Slaves :
         CheckTimeOut /\ status[s] # "DEAD" /\ status'[s] = "DEAD"
            => age[s] > Timeout]_vars
===============================================================================
