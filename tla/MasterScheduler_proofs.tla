------------------------ MODULE MasterScheduler_proofs ------------------------
(***************************************************************************)
(* Theorems about the Master: for every set of slaves, tasks and little     *)
(* tasks, every capacity, timeout and set of requests.                     *)
(*                                                                         *)
(* The invariant that is inductive says, beside the types, what            *)
(* ThreadProcess holds in its hands at each of its steps.                  *)
(***************************************************************************)
EXTENDS MasterScheduler, FiniteSetTheorems, WellFoundedInduction, TLAPS

(* What ThreadProcess has in its hands.  The slave chosen by GetIdleSlave   *)
(* keeps its room, for only ThreadProcess adds to a list; and its object,   *)
(* for only ThreadProcess deletes objects.                                 *)
HandsOK ==
    /\ at \in {"compare", "status", "little", "do", "push"} => curSlave \in Slaves
    /\ at \in {"idle", "little", "do", "push"} => curTask \in Tasks
    /\ at \in {"do", "push"} => little \in LittleTasks
    /\ at \notin {"do", "push"} => little = NoLittle
    /\ at \in {"little", "do", "push"} =>
          Cardinality(taskList[curSlave]) < Capacity
    /\ at \in {"little", "do", "push"} => status[curSlave] # "none"

ListsFinite == \A s \in Slaves : IsFiniteSet(taskList[s])

TypeInv == TypeOK /\ HandsOK /\ ListsFinite

(* A little task counts as completed only when a RESULT said so.           *)
CompletedReported ==
    \A f \in LittleTasks : taskStatus[f] = "Completed" => f \in reported

LEMMA LeastInSet ==
  ASSUME NEW S, S \subseteq Nat, S # {}
  PROVE  Least(S) \in S
<1>1. PICK n \in S : TRUE
  OBVIOUS
<1> DEFINE F == {0..x : x \in S \cap (0..n)}
<1>2. IsFiniteSet(0..n)
  BY FS_Interval
<1>3. IsWellFoundedOn(StrictSubsetOrdering(0..n), SUBSET (0..n))
  <2>1. IsWellFoundedOn(StrictSubsetOrdering(0..n), FiniteSubsetsOf(0..n))
    BY FS_StrictSubsetOrderingWellFounded
  <2>2. FiniteSubsetsOf(0..n) = SUBSET (0..n)
    BY <1>2, FS_FiniteSubsetsOfFinite
  <2>3. QED
    BY <2>1, <2>2
<1>4. F \subseteq SUBSET (0..n) /\ 0..n \in F
  OBVIOUS
<1>5. PICK m \in F : \A k \in F : <<k, m>> \notin StrictSubsetOrdering(0..n)
  <2> HIDE DEF F
  <2>1. QED
    BY <1>3, <1>4, WFMin
<1>6. PICK x \in S \cap (0..n) : m = 0..x
  OBVIOUS
<1>7. ASSUME NEW y \in S
      PROVE  x <= y
  <2>1. CASE y > n
    BY <2>1
  <2>2. CASE y <= n /\ y < x
    <3>1. 0..y \in F
      BY <2>2
    <3>2. <<0..y, m>> \notin StrictSubsetOrdering(0..n)
      BY <3>1, <1>5
    <3>3. /\ 0..y \subseteq 0..n /\ 0..x \subseteq 0..n
          /\ 0..y \subseteq 0..x /\ 0..y # 0..x
      BY <2>2
    <3>4. QED
      BY <3>2, <3>3, <1>6 DEF StrictSubsetOrdering
  <2>3. QED
    BY <2>1, <2>2
<1>8. QED
  BY <1>7 DEF Least

LEMMA LittleTaskFacts ==
  /\ \A f \in LittleTasks : f[1] \in Tasks /\ f[2] \in 0..Fragments[f[1]] - 1
                              /\ f = <<f[1], f[2]>>
  /\ \A t \in Tasks : \A i \in 0..Fragments[t] - 1 : <<t, i>> \in LittleTasks
  /\ NoLittle \notin LittleTasks
<1>1. \A f : f \in LittleTasks <=>
               \E t \in Tasks : f \in {t} \X (0..Fragments[t] - 1)
  BY DEF LittleTasks
<1>2. \A f \in LittleTasks : f[1] \in Tasks /\ f[2] \in 0..Fragments[f[1]] - 1
                              /\ f = <<f[1], f[2]>>
  BY <1>1
<1>3. \A t \in Tasks : \A i \in 0..Fragments[t] - 1 : <<t, i>> \in LittleTasks
  BY <1>1
<1>4. NoLittle \notin LittleTasks
  BY <1>2, MasterAssumption DEF NoLittle
<1>5. QED
  BY <1>2, <1>3, <1>4

(* FreeEntry finds a number that no entry of the list has.                 *)
LEMMA FreeEntryFree ==
  ASSUME NEW s \in Slaves, IsFiniteSet(taskList[s])
  PROVE  /\ FreeEntry(s) \in 1..Cardinality(taskList[s]) + 1
         /\ \A e \in taskList[s] : e[1] # FreeEntry(s)
<1> DEFINE L == taskList[s]
           n == Cardinality(L)
           K == 1..n + 1
<1>1. n \in Nat
  BY FS_CardinalityType
<1>2. \E k \in K : \A e \in L : e[1] # k
  <2> SUFFICES ASSUME \A k \in K : \E e \in L : e[1] = k
               PROVE  FALSE
    OBVIOUS
  <2> DEFINE g == [k \in K |-> CHOOSE e \in L : e[1] = k]
  <2>1. g \in [K -> L] /\ \A k \in K : g[k][1] = k
    OBVIOUS
  <2>2. IsFiniteSet(K) /\ Cardinality(K) = n + 1
    BY <1>1, FS_Interval
  <2> HIDE DEF g, K
  <2>3. Cardinality(L) < Cardinality(K)
    BY <1>1, <2>2
  <2>4. PICK x \in K, y \in K : x # y /\ g[x] = g[y]
    <3> HIDE DEF L, n
    <3>1. IsFiniteSet(L)
      BY DEF L
    <3>2. QED
      BY <2>1, <2>2, <2>3, <3>1, FS_PigeonHole
  <2>5. QED
    BY <2>1, <2>4
<1>3. QED
  BY <1>2 DEF FreeEntry
-------------------------------------------------------------------------------
LEMMA ToTaskFacts ==
  ASSUME NEW T, T \subseteq Tasks, ToTask(T)
  PROVE  /\ at' \in {"idle", "update"}
         /\ curTask' \in Tasks \cup {0}
         /\ at' = "idle" => curTask' \in Tasks
BY LeastInSet, MasterAssumption DEF ToTask

LEMMA SetTaskStatusFacts ==
  ASSUME TypeOK, NEW F, NEW v \in {"UnAssigned", "Assigned", "Completed"},
         SetTaskStatus(F, v)
  PROVE  /\ taskStatus' \in [LittleTasks -> {"UnAssigned", "Assigned", "Completed"}]
         /\ \A f \in LittleTasks :
              \/ f \in F /\ f[1] \in tasks /\ taskStatus'[f] = v
              \/ (f \notin F \/ f[1] \notin tasks) /\ taskStatus'[f] = taskStatus[f]
BY DEF SetTaskStatus, TypeOK

(* Removing entries from lists keeps them finite and below the capacity.   *)
LEMMA FewerEntries ==
  ASSUME ListsFinite, NEW s \in Slaves, NEW L, L \subseteq taskList[s]
  PROVE  IsFiniteSet(L) /\ Cardinality(L) <= Cardinality(taskList[s])
         /\ Cardinality(L) \in Nat /\ Cardinality(taskList[s]) \in Nat
BY FS_Subset, FS_CardinalityType DEF ListsFinite

LEMMA InitTypeInv == Init => TypeInv
<1> SUFFICES ASSUME Init PROVE TypeInv
  OBVIOUS
<1>1. TypeOK
  BY MasterAssumption DEF Init, TypeOK, ThreadPC
<1>2. HandsOK
  BY DEF Init, HandsOK
<1>3. ListsFinite
  BY FS_EmptySet DEF Init, ListsFinite
<1>4. QED
  BY <1>1, <1>2, <1>3 DEF TypeInv
-------------------------------------------------------------------------------
(* The handlers.  They leave ThreadProcess where it is and never lengthen a *)
(* list, nor delete an object.                                             *)
LEMMA HandlerHands ==
  ASSUME TypeInv, UNCHANGED <<at, curSlave, curTask, little>>,
         \A s \in Slaves : taskList'[s] \subseteq taskList[s],
         \A s \in Slaves : status[s] # "none" => status'[s] # "none"
  PROVE  HandsOK' /\ ListsFinite'
<1>1. ListsFinite'
  BY FewerEntries DEF TypeInv, ListsFinite
<1>2. ASSUME at \in {"little", "do", "push"}
      PROVE  Cardinality(taskList'[curSlave]) < Capacity /\ status'[curSlave] # "none"
  <2>1. curSlave \in Slaves
    BY <1>2 DEF TypeInv, HandsOK
  <2>2. Cardinality(taskList'[curSlave]) <= Cardinality(taskList[curSlave])
        /\ Cardinality(taskList'[curSlave]) \in Nat /\ Cardinality(taskList[curSlave]) \in Nat
    BY <2>1, FewerEntries DEF TypeInv
  <2>3. Cardinality(taskList[curSlave]) < Capacity /\ status[curSlave] # "none"
    BY <1>2 DEF TypeInv, HandsOK
  <2>4. QED
    BY <2>1, <2>2, <2>3, MasterAssumption
<1>3. HandsOK'
  BY <1>2 DEF TypeInv, HandsOK
<1>4. QED
  BY <1>1, <1>3

LEMMA ReceiveTypeInv ==
  ASSUME TypeInv, NEW s \in Slaves, Accept(s) \/ Receive(s)
  PROVE  TypeInv'
<1> USE DEF TypeInv
<1>1. CASE Accept(s)
  <2>1. TypeOK'
    BY <1>1, MasterAssumption DEF Accept, TypeOK, taskVars, threadVars, histVars
  <2>2. HandsOK' /\ ListsFinite'
    BY <1>1, HandlerHands DEF Accept, TypeOK, threadVars
  <2>3. QED
    BY <2>1, <2>2
<1>2. CASE LoginRequest(s)
  <2>1. TypeOK'
    BY <1>2 DEF LoginRequest, TypeOK, taskVars, threadVars, histVars
  <2>2. HandsOK' /\ ListsFinite'
    BY <1>2, HandlerHands DEF LoginRequest, TypeOK, threadVars
  <2>3. QED
    BY <2>1, <2>2
<1>3. CASE HeartbeatRequest(s)
  <2>1. TypeOK'
    BY <1>3, MasterAssumption DEF HeartbeatRequest, TypeOK, taskVars, threadVars, histVars
  <2>2. HandsOK' /\ ListsFinite'
    BY <1>3, HandlerHands DEF HeartbeatRequest, TypeOK, threadVars
  <2>3. QED
    BY <2>1, <2>2
<1>4. CASE ExitRequest(s)
  <2>1. taskStatus' \in [LittleTasks -> {"UnAssigned", "Assigned", "Completed"}]
    BY <1>4, SetTaskStatusFacts DEF ExitRequest, RetrieveTask
  <2>2. TypeOK'
    BY <1>4, <2>1 DEF ExitRequest, TypeOK, threadVars
  <2>3. HandsOK' /\ ListsFinite'
    BY <1>4, HandlerHands DEF ExitRequest, TypeOK, threadVars
  <2>4. QED
    BY <2>2, <2>3
<1>5. ASSUME NEW f \in LittleTasks, ResultSucess(s, f) \/ ResultFail(s, f)
      PROVE  TypeInv'
  <2>1. taskStatus' \in [LittleTasks -> {"UnAssigned", "Assigned", "Completed"}]
    BY <1>5, SetTaskStatusFacts DEF ResultSucess, ResultFail
  <2>2. CASE ResultSucess(s, f)
    <3>1. TypeOK'
      BY <2>2, <2>1 DEF ResultSucess, TypeOK, threadVars
    <3>2. HandsOK' /\ ListsFinite'
      BY <2>2, HandlerHands DEF ResultSucess, TypeOK, threadVars
    <3>3. QED
      BY <3>1, <3>2
  <2>3. CASE ResultFail(s, f)
    <3>1. TypeOK'
      BY <2>3, <2>1 DEF ResultFail, TypeOK, threadVars, objVars
    <3>2. HandsOK' /\ ListsFinite'
      BY <2>3, HandlerHands DEF ResultFail, TypeOK, threadVars, objVars
    <3>3. QED
      BY <3>1, <3>2
  <2>4. QED
    BY <1>5, <2>2, <2>3
<1>6. QED
  BY <1>1, <1>2, <1>3, <1>4, <1>5 DEF Receive

LEMMA StaleTickTypeInv ==
  ASSUME TypeInv, Tick \/ \E s \in Slaves, f \in LittleTasks : StaleResult(s, f)
  PROVE  TypeInv'
<1> USE DEF TypeInv
<1>1. CASE Tick
  <2>1. /\ age' \in [Slaves -> 0..TickMod - 1]
        /\ lag' \in 0..TickMod - 1
    <3>1. \A n \in 0..TickMod - 1 : (n + 1) % TickMod \in 0..TickMod - 1
      BY MasterAssumption
    <3>2. 0 \in 0..TickMod - 1
      BY MasterAssumption
    <3>3. QED
      BY <1>1, <3>1, <3>2 DEF Tick, TypeOK
  <2>2. TypeOK'
    BY <1>1, <2>1 DEF Tick, TypeOK, taskVars, histVars
  <2>3. HandsOK' /\ ListsFinite'
    BY <1>1, HandlerHands DEF Tick, TypeOK
  <2>4. QED
    BY <2>2, <2>3
<1>2. ASSUME NEW s \in Slaves, NEW f \in LittleTasks, StaleResult(s, f)
      PROVE  TypeInv'
  <2>1. taskStatus' \in [LittleTasks -> {"UnAssigned", "Assigned", "Completed"}]
    BY <1>2, SetTaskStatusFacts DEF StaleResult
  <2>2. TypeOK'
    BY <1>2, <2>1 DEF StaleResult, TypeOK, objVars, threadVars
  <2>3. HandsOK' /\ ListsFinite'
    BY <1>2, HandlerHands DEF StaleResult, TypeOK, objVars, threadVars
  <2>4. QED
    BY <2>2, <2>3
<1>3. QED
  BY <1>1, <1>2
-------------------------------------------------------------------------------
(* ThreadProcess.                                                          *)
LEMMA ProcessTypeInv ==
  ASSUME TypeInv, ReadTick \/ CheckTimeOut \/ DeleteDead
  PROVE  TypeInv'
<1> USE DEF TypeInv
<1>1. CASE ReadTick
  <2> DEFINE S == Above(Present, curSlave)
  <2>1. S \subseteq Slaves
    BY DEF Above, Present
  <2>2. CASE S # {}
    <3>1. curSlave' \in Slaves /\ at' = "compare" /\ curTask' = 0
      BY <1>1, <2>1, <2>2, LeastInSet, MasterAssumption DEF ReadTick, ToSlave
    <3>2. TypeOK'
      BY <1>1, <3>1, MasterAssumption DEF ReadTick, TypeOK, ThreadPC, objVars, taskVars, histVars
    <3>3. HandsOK' /\ ListsFinite'
      BY <1>1, <3>1 DEF ReadTick, HandsOK, ListsFinite, objVars
    <3>4. QED
      BY <3>2, <3>3
  <2>3. CASE S = {}
    <3>1. curSlave' = 0 /\ ToTask(tasks)
      BY <1>1, <2>3 DEF ReadTick, ToSlave
    <3>2. /\ at' \in {"idle", "update"} /\ curTask' \in Tasks \cup {0}
          /\ at' = "idle" => curTask' \in Tasks
      BY <3>1, ToTaskFacts DEF TypeOK
    <3>3. TypeOK'
      BY <1>1, <3>1, <3>2, MasterAssumption DEF ReadTick, TypeOK, ThreadPC, objVars, taskVars, histVars
    <3>4. HandsOK' /\ ListsFinite'
      BY <1>1, <3>2 DEF ReadTick, HandsOK, ListsFinite, objVars
    <3>5. QED
      BY <3>3, <3>4
  <2>4. QED
    BY <2>2, <2>3
<1>2. CASE CheckTimeOut
  <2>1. TypeOK'
    <3>1. status' \in [Slaves -> {"none", "UNLOGIN", "LOGINED", "DEAD"}]
      BY <1>2 DEF CheckTimeOut, TypeOK
    <3>2. 0 \in 0..TickMod - 1
      BY MasterAssumption
    <3>3. QED
      BY <1>2, <3>1, <3>2 DEF CheckTimeOut, TypeOK, ThreadPC, taskVars, histVars
  <2>2. HandsOK' /\ ListsFinite'
    BY <1>2 DEF CheckTimeOut, HandsOK, ListsFinite
  <2>3. QED
    BY <2>1, <2>2
<1>3. CASE DeleteDead
  <2>1. curSlave \in Slaves
    BY <1>3 DEF DeleteDead, HandsOK
  <2>2. taskStatus' \in [LittleTasks -> {"UnAssigned", "Assigned", "Completed"}]
    BY <1>3, SetTaskStatusFacts DEF DeleteDead, RetrieveTask, TypeOK
  <2>3. status' \in [Slaves -> {"none", "UNLOGIN", "LOGINED", "DEAD"}]
    BY <1>3 DEF DeleteDead, TypeOK, objVars
  <2>4. taskList' \in [Slaves -> SUBSET ((1..Capacity) \X LittleTasks)]
        /\ \A s \in Slaves : taskList'[s] \subseteq taskList[s]
    BY <1>3 DEF DeleteDead, TypeOK, objVars
  <2>5. age' \in [Slaves -> 0..TickMod - 1]
    BY <1>3, MasterAssumption DEF DeleteDead, TypeOK, objVars
  <2>6. sent' \subseteq Slaves \X LittleTasks /\ stale' \subseteq Slaves \X LittleTasks
    BY <1>3 DEF DeleteDead, TypeOK
  <2>7. TypeOK'
    BY <1>3, <2>2, <2>3, <2>4, <2>5, <2>6 DEF DeleteDead, TypeOK, ThreadPC
  <2>8. HandsOK' /\ ListsFinite'
    BY <1>3, <2>1, <2>4, FewerEntries DEF DeleteDead, HandsOK, ListsFinite
  <2>9. QED
    BY <2>7, <2>8
<1>4. QED
  BY <1>1, <1>2, <1>3

LEMMA AssignTypeInv ==
  ASSUME TypeInv, GetIdleSlave \/ GetLittleTask \/ DoTask \/ PushTask
  PROVE  TypeInv'
<1> USE DEF TypeInv
<1>1. CASE GetIdleSlave
  <2>1. CASE IdleSlaves # {}
    <3>1. curSlave' \in IdleSlaves /\ at' = "little" /\ curTask' = curTask
      BY <1>1, <2>1, LeastInSet, MasterAssumption DEF GetIdleSlave, IdleSlaves
    <3>2. curSlave' \in Slaves /\ CanBeAssigned(curSlave')
      BY <3>1 DEF IdleSlaves
    <3>3. TypeOK'
      BY <1>1, <3>1, <3>2 DEF GetIdleSlave, TypeOK, ThreadPC, objVars, taskVars, histVars
    <3>4. HandsOK' /\ ListsFinite'
      BY <1>1, <3>1, <3>2 DEF GetIdleSlave, HandsOK, ListsFinite, objVars, CanBeAssigned
    <3>5. QED
      BY <3>3, <3>4
  <2>2. CASE IdleSlaves = {}
    <3>1. curSlave' = 0 /\ ToTask(Above(tasks, curTask))
      BY <1>1, <2>2 DEF GetIdleSlave
    <3>2. /\ at' \in {"idle", "update"} /\ curTask' \in Tasks \cup {0}
          /\ at' = "idle" => curTask' \in Tasks
      BY <3>1, ToTaskFacts DEF TypeOK, Above
    <3>3. TypeOK'
      BY <1>1, <3>1, <3>2 DEF GetIdleSlave, TypeOK, ThreadPC, objVars, taskVars, histVars
    <3>4. HandsOK' /\ ListsFinite'
      BY <1>1, <3>2 DEF GetIdleSlave, HandsOK, ListsFinite, objVars
    <3>5. QED
      BY <3>3, <3>4
  <2>3. QED
    BY <2>1, <2>2
<1>2. CASE GetLittleTask
  <2>1. curTask \in Tasks /\ curSlave \in Slaves
        /\ Cardinality(taskList[curSlave]) < Capacity /\ status[curSlave] # "none"
    BY <1>2 DEF GetLittleTask, HandsOK
  <2>2. CASE UnAssignedOf(curTask) # {}
    <3> DEFINE f == <<curTask, Least(UnAssignedOf(curTask))>>
    <3>1. f \in LittleTasks
      <4>1. UnAssignedOf(curTask) \subseteq 0..Fragments[curTask] - 1
        BY DEF UnAssignedOf
      <4>2. UnAssignedOf(curTask) \subseteq Nat
        BY <4>1, <2>1, MasterAssumption
      <4>3. Least(UnAssignedOf(curTask)) \in 0..Fragments[curTask] - 1
        BY <2>2, <4>1, <4>2, LeastInSet
      <4>4. QED
        BY <2>1, <4>3, LittleTaskFacts
    <3>2. little' = f /\ taskStatus' = [taskStatus EXCEPT ![f] = "Assigned"]
          /\ at' = "do" /\ curSlave' = curSlave /\ curTask' = curTask
      BY <1>2, <2>2 DEF GetLittleTask
    <3>3. TypeOK'
      BY <1>2, <3>1, <3>2 DEF GetLittleTask, TypeOK, ThreadPC, objVars, histVars
    <3>4. HandsOK' /\ ListsFinite'
      BY <1>2, <2>1, <3>1, <3>2 DEF GetLittleTask, HandsOK, ListsFinite, objVars
    <3>5. QED
      BY <3>3, <3>4
  <2>3. CASE UnAssignedOf(curTask) = {}
    <3>1. curSlave' = 0 /\ little' = NoLittle /\ ToTask(Above(tasks, curTask))
          /\ taskStatus' = taskStatus
      BY <1>2, <2>3 DEF GetLittleTask
    <3>2. /\ at' \in {"idle", "update"} /\ curTask' \in Tasks \cup {0}
          /\ at' = "idle" => curTask' \in Tasks
      BY <3>1, ToTaskFacts DEF TypeOK, Above
    <3>3. TypeOK'
      BY <1>2, <3>1, <3>2 DEF GetLittleTask, TypeOK, ThreadPC, objVars, histVars
    <3>4. HandsOK' /\ ListsFinite'
      BY <1>2, <3>1, <3>2 DEF GetLittleTask, HandsOK, ListsFinite, objVars
    <3>5. QED
      BY <3>3, <3>4
  <2>4. QED
    BY <2>2, <2>3
<1>3. CASE DoTask
  <2>1. curSlave \in Slaves /\ little \in LittleTasks
        /\ Cardinality(taskList[curSlave]) < Capacity /\ status[curSlave] # "none"
        /\ curTask \in Tasks
    BY <1>3 DEF DoTask, HandsOK
  <2>2. TypeOK'
    BY <1>3, <2>1 DEF DoTask, TypeOK, ThreadPC, objVars, taskVars
  <2>3. ListsFinite'
    BY <1>3 DEF DoTask, ListsFinite, objVars
  <2>4. HandsOK'
    BY <1>3, <2>1 DEF DoTask, HandsOK, objVars
  <2>5. QED
    BY <2>2, <2>3, <2>4
<1>4. CASE PushTask
  <2> DEFINE e == <<FreeEntry(curSlave), little>>
             L == taskList[curSlave]
  <2>1. curSlave \in Slaves /\ little \in LittleTasks /\ curTask \in Tasks
        /\ Cardinality(L) < Capacity
    BY <1>4 DEF PushTask, HandsOK
  <2>2. IsFiniteSet(L) /\ Cardinality(L) \in Nat
    BY <2>1, FewerEntries DEF TypeInv
  <2>3. FreeEntry(curSlave) \in 1..Capacity
    <3>1. FreeEntry(curSlave) \in 1..Cardinality(L) + 1
      BY <2>1, <2>2, FreeEntryFree
    <3>2. QED
      BY <2>1, <2>2, <3>1, MasterAssumption
  <2>4. taskList' = [taskList EXCEPT ![curSlave] = L \cup {e}]
    BY <1>4 DEF PushTask
  <2>5. IsFiniteSet(L \cup {e})
    <3> HIDE DEF L, e
    <3>1. QED
      BY <2>2, FS_AddElement
  <2>6. taskList' \in [Slaves -> SUBSET ((1..Capacity) \X LittleTasks)]
    BY <2>1, <2>3, <2>4 DEF TypeOK
  <2>7. TypeOK'
    BY <1>4, <2>6 DEF PushTask, TypeOK, ThreadPC, taskVars, histVars
  <2>8. HandsOK'
    BY <1>4, <2>1 DEF PushTask, HandsOK
  <2>9. ListsFinite'
    BY <2>1, <2>4, <2>5 DEF ListsFinite, TypeOK
  <2>10. QED
    BY <2>7, <2>8, <2>9
<1>5. QED
  BY <1>1, <1>2, <1>3, <1>4

LEMMA UpdateTypeInv ==
  ASSUME TypeInv, UpdateTask
  PROVE  TypeInv'
<1>1. curTask' \in Tasks \cup {0} /\ at' \in {"update", "sleep"} /\ tasks' \subseteq Tasks
  <2>1. CASE Above(tasks, curTask) # {}
    <3>1. Least(Above(tasks, curTask)) \in Tasks
      <4>1. Above(tasks, curTask) \subseteq Tasks
        BY DEF Above, TypeInv, TypeOK
      <4>2. Above(tasks, curTask) \subseteq Nat
        BY <4>1, MasterAssumption
      <4>3. QED
        BY <2>1, <4>1, <4>2, LeastInSet
    <3>2. QED
      BY <2>1, <3>1 DEF UpdateTask, TypeInv, TypeOK
  <2>2. CASE Above(tasks, curTask) = {}
    BY <2>2 DEF UpdateTask, TypeInv, TypeOK
  <2>3. QED
    BY <2>1, <2>2
<1>2. TypeOK'
  BY <1>1 DEF UpdateTask, TypeInv, TypeOK, ThreadPC, objVars, histVars
<1>3. HandsOK' /\ ListsFinite'
  BY <1>1 DEF UpdateTask, TypeInv, HandsOK, ListsFinite, objVars
<1>4. QED
  BY <1>2, <1>3 DEF TypeInv

LEMMA NextTypeInv == TypeInv /\ [Next]_vars => TypeInv'
<1> SUFFICES ASSUME TypeInv, [Next]_vars PROVE TypeInv'
  OBVIOUS
<1>1. CASE Next
  BY <1>1, ReceiveTypeInv, StaleTickTypeInv, ProcessTypeInv, AssignTypeInv,
     UpdateTypeInv DEF Next, ThreadProcess
<1>2. CASE UNCHANGED vars
  BY <1>2 DEF vars, objVars, taskVars, threadVars, histVars, TypeInv, TypeOK,
     HandsOK, ListsFinite
<1>3. QED
  BY <1>1, <1>2

(* However the handlers interleave with AssignTask, no slave's list grows  *)
(* beyond the capacity, ThreadProcess is always looking at a slave and a   *)
(* task that exist, and a clock difference stays an unsigned long           *)
(* (Slave.cpp 114-122, SlaveManager.cpp 78-89, TaskManager.cpp 31-50).      *)
THEOREM MasterTypeCorrect == Spec => []TypeOK
<1>1. Init => TypeInv
  BY InitTypeInv
<1>2. TypeInv /\ [Next]_vars => TypeInv'
  BY NextTypeInv
<1>3. TypeInv => TypeOK
  BY DEF TypeInv
<1>4. QED
  BY <1>1, <1>2, <1>3, PTL DEF Spec
-------------------------------------------------------------------------------
(* What is said of a little task stays said, for a RESULT only adds.       *)
LEMMA ReportedStays ==
  ASSUME TypeInv, CompletedReported, CombinedOnlyIfReported, [Next]_vars
  PROVE  CompletedReported' /\ CombinedOnlyIfReported'
<1> USE DEF TypeInv
<1>1. TypeOK'
  BY NextTypeInv DEF TypeInv
<1>2. CASE \/ \E s \in Slaves : Accept(s) \/ LoginRequest(s) \/ HeartbeatRequest(s)
           \/ Tick \/ ReadTick \/ CheckTimeOut \/ GetIdleSlave
           \/ DoTask \/ PushTask \/ UNCHANGED vars
  <2>1. UNCHANGED <<taskStatus, tasks, reported>>
    BY <1>2 DEF Accept, LoginRequest, HeartbeatRequest, Tick, ReadTick, CheckTimeOut,
       GetIdleSlave, DoTask, PushTask, vars, taskVars, histVars
  <2>2. QED
    BY <2>1 DEF CompletedReported, CombinedOnlyIfReported
<1>3. ASSUME NEW f \in LittleTasks,
             \/ \E s \in Slaves : ResultSucess(s, f) \/ ResultFail(s, f)
                 \/ StaleResult(s, f)
      PROVE  CompletedReported' /\ CombinedOnlyIfReported'
  <2>1. CASE \E s \in Slaves : StaleResult(s, f) \/ ResultSucess(s, f)
    <3>1. SetTaskStatus({f}, "Completed") /\ reported' = reported \cup {f} /\ tasks' = tasks
      BY <2>1 DEF ResultSucess, StaleResult
    <3>2. QED
      BY <3>1, SetTaskStatusFacts DEF CompletedReported, CombinedOnlyIfReported
  <2>2. CASE \E s \in Slaves : ResultFail(s, f)
    <3>1. SetTaskStatus({f}, "UnAssigned") /\ reported' = reported /\ tasks' = tasks
      BY <2>2 DEF ResultFail
    <3>2. QED
      BY <3>1, SetTaskStatusFacts DEF CompletedReported, CombinedOnlyIfReported
  <2>3. QED
    BY <1>3, <2>1, <2>2
<1>4. ASSUME NEW s \in Slaves, ExitRequest(s) \/ (DeleteDead /\ s = curSlave)
      PROVE  CompletedReported' /\ CombinedOnlyIfReported'
  <2>1. reported' = reported /\ tasks' = tasks
        /\ (SetTaskStatus(Listed(s), "UnAssigned") \/ taskStatus' = taskStatus)
    BY <1>4 DEF ExitRequest, DeleteDead, RetrieveTask
  <2>2. QED
    BY <2>1, SetTaskStatusFacts DEF CompletedReported, CombinedOnlyIfReported
<1>5. CASE GetLittleTask
  <2>1. reported' = reported /\ tasks' = tasks
        /\ \A f \in LittleTasks : taskStatus'[f] = taskStatus[f] \/ taskStatus'[f] = "Assigned"
    BY <1>5 DEF GetLittleTask, histVars, TypeOK
  <2>2. QED
    BY <2>1 DEF CompletedReported, CombinedOnlyIfReported
<1>6. CASE UpdateTask
  <2>1. UNCHANGED <<taskStatus, reported>>
    BY <1>6 DEF UpdateTask, histVars
  <2>2. \A t \in tasks \ tasks' : IsCompleted(t)
    BY <1>6 DEF UpdateTask
  <2>3. ASSUME NEW t \in Tasks \ tasks'
        PROVE  {t} \X (0..Fragments[t] - 1) \subseteq reported'
    <3>1. CASE t \in tasks
      BY <2>1, <2>2, <3>1, LittleTaskFacts DEF IsCompleted, CompletedReported
    <3>2. CASE t \notin tasks
      BY <2>1, <3>2 DEF CombinedOnlyIfReported
    <3>3. QED
      BY <3>1, <3>2
  <2>4. QED
    BY <2>1, <2>3 DEF CompletedReported, CombinedOnlyIfReported
<1>7. CASE DeleteDead
  BY <1>4, <1>7 DEF DeleteDead, HandsOK
<1>8. QED
  BY <1>2, <1>3, <1>4, <1>5, <1>6, <1>7 DEF Next, Receive, ThreadProcess

(* A task is combined only when each of its little tasks was reported: no   *)
(* sequence of failures, exits, timeouts and new assignments lets one be   *)
(* counted Completed without its RESULT (TaskManager.cpp 54-74,            *)
(* DownloadBigFile.cpp 85-98).                                             *)
THEOREM CombinedReported == Spec => []CombinedOnlyIfReported
<1> DEFINE Inv == TypeInv /\ CompletedReported /\ CombinedOnlyIfReported
<1>1. Init => Inv
  BY InitTypeInv DEF Init, CompletedReported, CombinedOnlyIfReported
<1>2. Inv /\ [Next]_vars => Inv'
  BY NextTypeInv, ReportedStays
<1>3. QED
  BY <1>1, <1>2, PTL DEF Spec
-------------------------------------------------------------------------------
(* A little task stays owned while its status, the lists that hold it and   *)
(* the objects they belong to stay.                                        *)
LEMMA OwnerStays ==
  ASSUME AssignedHasOwner, NEW f \in LittleTasks,
         f[1] \in tasks, taskStatus[f] = "Assigned",
         little' = little \/ little # f,
         stranded \subseteq stranded',
         \A s \in Present : f \in Listed(s) =>
            status'[s] # "none" /\ taskList[s] \subseteq taskList'[s]
  PROVE  \/ \E s \in Present' : f \in Listed(s)'
         \/ little' = f
         \/ f \in stranded'
BY DEF AssignedHasOwner, Present, Listed

LEMMA OwnerKept ==
  ASSUME TypeInv, AssignedHasOwner, [Next]_vars
  PROVE  AssignedHasOwner'
<1> USE DEF TypeInv
<1> SUFFICES ASSUME NEW f \in LittleTasks, f[1] \in tasks', taskStatus'[f] = "Assigned"
             PROVE  \/ \E s \in Present' : f \in Listed(s)'
                    \/ little' = f
                    \/ f \in stranded'
  BY DEF AssignedHasOwner
<1> DEFINE Goal == \/ \E s \in Present' : f \in Listed(s)'
                   \/ little' = f
                   \/ f \in stranded'
<1>1. CASE \/ \E s \in Slaves : LoginRequest(s) \/ HeartbeatRequest(s)
           \/ Tick \/ ReadTick \/ CheckTimeOut \/ GetIdleSlave \/ UpdateTask
           \/ UNCHANGED vars
  <2>1. UNCHANGED <<taskStatus, taskList, little, stranded>> /\ tasks' \subseteq tasks
    BY <1>1 DEF LoginRequest, HeartbeatRequest, Tick, ReadTick, CheckTimeOut,
       GetIdleSlave, UpdateTask, vars, objVars, taskVars, threadVars, histVars
  <2>2. \A s \in Slaves : status[s] # "none" => status'[s] # "none"
    BY <1>1 DEF LoginRequest, HeartbeatRequest, Tick, ReadTick, CheckTimeOut,
       GetIdleSlave, UpdateTask, vars, objVars, TypeOK
  <2>3. QED
    BY <2>1, <2>2, OwnerStays DEF Present
<1>2. ASSUME NEW s \in Slaves, Accept(s)
      PROVE  Goal
  <2>1. UNCHANGED <<taskStatus, tasks, little, stranded>>
    BY <1>2 DEF Accept, taskVars, threadVars, histVars
  <2>2. \A x \in Present : status'[x] # "none" /\ taskList'[x] = taskList[x]
    BY <1>2 DEF Accept, Present, TypeOK
  <2>3. QED
    BY <2>1, <2>2, OwnerStays
<1>3. ASSUME NEW g \in LittleTasks, NEW s \in Slaves, ResultSucess(s, g)
      PROVE  Goal
  <2>1. UNCHANGED <<tasks, little, stranded, status>>
        /\ SetTaskStatus({g}, "Completed")
    BY <1>3 DEF ResultSucess, threadVars
  <2>2. f # g /\ taskStatus[f] = "Assigned"
    BY <2>1, SetTaskStatusFacts
  <2>3. taskList' = [taskList EXCEPT ![s] = {e \in @ : e[2] # g}]
    BY <1>3 DEF ResultSucess
  <2>4. \A x \in Slaves : f \in Listed(x) => f \in Listed(x)'
    BY <2>2, <2>3 DEF Listed, TypeOK
  <2>5. QED
    BY <2>1, <2>2, <2>4 DEF AssignedHasOwner, Present
<1>4. ASSUME NEW g \in LittleTasks, \E s \in Slaves : ResultFail(s, g) \/ StaleResult(s, g)
      PROVE  Goal
  <2>1. UNCHANGED <<tasks, little, stranded, status, taskList>>
        /\ (SetTaskStatus({g}, "Completed") \/ SetTaskStatus({g}, "UnAssigned"))
    BY <1>4 DEF ResultFail, StaleResult, threadVars, objVars
  <2>2. taskStatus[f] = "Assigned"
    BY <2>1, SetTaskStatusFacts
  <2>3. QED
    BY <2>1, <2>2, OwnerStays DEF Present
<1>5. ASSUME NEW s \in Slaves, ExitRequest(s) \/ (DeleteDead /\ s = curSlave)
      PROVE  Goal
  <2>1. UNCHANGED <<tasks, little, stranded>>
    BY <1>5 DEF ExitRequest, DeleteDead, threadVars
  <2>2. CASE SetTaskStatus(Listed(s), "UnAssigned")
    <3>1. f \notin Listed(s) /\ taskStatus[f] = "Assigned"
      BY <2>1, <2>2, SetTaskStatusFacts
    <3>2. \A x \in Slaves \ {s} : status'[x] = status[x] /\ taskList'[x] = taskList[x]
      BY <1>5 DEF ExitRequest, DeleteDead, objVars, TypeOK
    <3>3. QED
      BY <2>1, <3>1, <3>2, OwnerStays DEF Present
  <2>3. CASE DeleteDead /\ UNCHANGED <<objVars, taskStatus>>
    BY <2>1, <2>3, OwnerStays DEF Present, objVars
  <2>4. QED
    BY <1>5, <2>2, <2>3 DEF ExitRequest, DeleteDead, RetrieveTask
<1>6. CASE GetLittleTask
  <2>1. UNCHANGED <<tasks, stranded, status, taskList>>
    BY <1>6 DEF GetLittleTask, objVars, histVars
  <2>2. little = NoLittle /\ f # NoLittle
    BY <1>6, LittleTaskFacts DEF GetLittleTask, HandsOK
  <2>3. CASE UnAssignedOf(curTask) = {}
    <3>1. taskStatus' = taskStatus
      BY <1>6, <2>3 DEF GetLittleTask
    <3>2. QED
      BY <2>1, <2>2, <3>1, OwnerStays DEF Present
  <2>4. CASE UnAssignedOf(curTask) # {}
    <3> DEFINE g == <<curTask, Least(UnAssignedOf(curTask))>>
    <3>1. little' = g /\ taskStatus' = [taskStatus EXCEPT ![g] = "Assigned"]
      BY <1>6, <2>4 DEF GetLittleTask
    <3>2. CASE f = g
      BY <3>1, <3>2
    <3>3. CASE f # g
      <4>1. taskStatus[f] = "Assigned"
        BY <3>1, <3>3 DEF TypeOK
      <4>2. QED
        BY <2>1, <2>2, <4>1, OwnerStays DEF Present
    <3>4. QED
      BY <3>2, <3>3
  <2>5. QED
    BY <2>3, <2>4
<1>7. CASE DoTask
  <2>1. UNCHANGED <<tasks, taskStatus, status, taskList>>
        /\ stranded \subseteq stranded'
        /\ (little' = little \/ little \in stranded')
    BY <1>7 DEF DoTask, objVars, taskVars
  <2>2. QED
    BY <2>1, OwnerStays DEF Present
<1>8. CASE PushTask
  <2>1. UNCHANGED <<tasks, taskStatus, stranded, status, curSlave>>
    BY <1>8 DEF PushTask, taskVars, histVars
  <2>2. curSlave \in Slaves /\ status[curSlave] # "none"
    BY <1>8 DEF PushTask, HandsOK
  <2>3. taskList' = [taskList EXCEPT ![curSlave] = @ \cup {<<FreeEntry(curSlave), little>>}]
    BY <1>8 DEF PushTask
  <2>4. CASE little = f
    <3>1. <<FreeEntry(curSlave), f>> \in taskList'[curSlave]
      BY <2>2, <2>3, <2>4 DEF TypeOK
    <3>2. f \in Listed(curSlave)'
      BY <2>1, <3>1 DEF Listed
    <3>3. QED
      BY <2>1, <2>2, <3>2 DEF Present
  <2>5. CASE little # f
    <3>1. \A x \in Slaves : taskList[x] \subseteq taskList'[x]
      BY <2>3 DEF TypeOK
    <3>2. QED
      BY <2>1, <2>5, <3>1, OwnerStays DEF Present
  <2>6. QED
    BY <2>4, <2>5
<1>9. CASE DeleteDead
  BY <1>5, <1>9 DEF DeleteDead, HandsOK
<1>10. QED
  BY <1>1, <1>2, <1>3, <1>4, <1>5, <1>6, <1>7, <1>8, <1>9 DEF Next, Receive, ThreadProcess

(* Nothing the Master has marked Assigned is lost when slaves leave, except *)
(* through a DoTask that failed: every other Assigned little task is in the *)
(* list of a slave that has an object, from which EXIT, timeout and         *)
(* destructor retrieve it (Slave.cpp 71-92, 199-203, SlaveManager.cpp       *)
(* 14-34).                                                                 *)
THEOREM AssignedOwned == Spec => []AssignedHasOwner
<1> DEFINE Inv == TypeInv /\ AssignedHasOwner
<1>1. Init => Inv
  BY InitTypeInv DEF Init, AssignedHasOwner
<1>2. Inv /\ [Next]_vars => Inv'
  BY NextTypeInv, OwnerKept
<1>3. QED
  BY <1>1, <1>2, PTL DEF Spec
-------------------------------------------------------------------------------
(* With slaves that never say Fail or EXIT, who holds what.  A RESULT is    *)
(* owed only for a place in a list, or one about to be taken; what is in a  *)
(* list or on its way there is not to be assigned.  So lists do not meet.   *)
Peaceful == Kinds \cap {"Fail", "EXIT"} = {}

InHands(s, f) == at = "push" /\ curSlave = s /\ little = f

OwedHasPlace == \A s \in Slaves, f \in LittleTasks :
                   <<s, f>> \in sent => f \in Listed(s) \/ InHands(s, f)

HandsApart == at \in {"do", "push"} =>
                /\ taskStatus[little] # "UnAssigned"
                /\ \A s \in Slaves : little \notin Listed(s)

ListedGiven == \A s \in Slaves : \A f \in Listed(s) : taskStatus[f] # "UnAssigned"

ListsApart == \A r, s \in Slaves : r # s => Listed(r) \cap Listed(s) = {}

AbsentEmpty == \A s \in Slaves : status[s] = "none" => taskList[s] = {}

PlacesInv == OwedHasPlace /\ HandsApart /\ ListedGiven /\ ListsApart /\ AbsentEmpty

(* Places stay as they are when lists only shrink, nothing listed or held   *)
(* becomes UnAssigned, and what is still owed keeps its place.              *)
LEMMA PlacesStay ==
  ASSUME TypeInv, PlacesInv,
         \A s \in Slaves : Listed(s)' \subseteq Listed(s),
         \A s \in Slaves, f \in LittleTasks :
            <<s, f>> \in sent' => <<s, f>> \in sent /\ (f \in Listed(s) => f \in Listed(s)'),
         \A f \in LittleTasks :
            taskStatus'[f] = "UnAssigned" /\ taskStatus[f] # "UnAssigned" =>
               /\ \A s \in Slaves : f \notin Listed(s)'
               /\ at' \in {"do", "push"} => little' # f,
         \/ UNCHANGED <<at, curSlave, little>>
         \/ at \notin {"do", "push"} /\ at' \notin {"do", "push"},
         AbsentEmpty'
  PROVE  PlacesInv'
<1>1. \A s \in Slaves : Listed(s) \subseteq LittleTasks /\ Listed(s)' \subseteq LittleTasks
  BY DEF TypeInv, TypeOK, Listed
<1>2. OwedHasPlace'
  BY DEF PlacesInv, OwedHasPlace, InHands
<1>3. ListedGiven'
  BY <1>1 DEF PlacesInv, ListedGiven
<1>4. ListsApart'
  BY DEF PlacesInv, ListsApart
<1>5. HandsApart'
  <2>1. at \in {"do", "push"} => little \in LittleTasks
    BY DEF TypeInv, HandsOK
  <2>2. QED
    BY <2>1 DEF PlacesInv, HandsApart
<1>6. QED
  BY <1>2, <1>3, <1>4, <1>5 DEF PlacesInv

LEMMA PlacesKept ==
  ASSUME TypeInv, PlacesInv, Peaceful, [Next]_vars
  PROVE  PlacesInv'
<1> USE DEF TypeInv
<1>1. CASE \/ \E s \in Slaves : LoginRequest(s) \/ HeartbeatRequest(s)
           \/ Tick \/ ReadTick \/ CheckTimeOut \/ GetIdleSlave \/ UpdateTask
           \/ UNCHANGED vars
  <2>1. UNCHANGED <<taskStatus, taskList, sent>>
    BY <1>1 DEF LoginRequest, HeartbeatRequest, Tick, ReadTick, CheckTimeOut,
       GetIdleSlave, UpdateTask, vars, objVars, taskVars, histVars
  <2>2. \/ UNCHANGED <<at, curSlave, little>>
        \/ at \notin {"do", "push"} /\ at' \notin {"do", "push"}
    <3>1. CASE \/ \E s \in Slaves : LoginRequest(s) \/ HeartbeatRequest(s)
               \/ Tick \/ UNCHANGED vars
      BY <3>1 DEF LoginRequest, HeartbeatRequest, Tick, vars, threadVars
    <3>2. CASE ReadTick \/ CheckTimeOut \/ UpdateTask
      BY <3>2 DEF ReadTick, ToSlave, ToTask, CheckTimeOut, UpdateTask
    <3>3. CASE GetIdleSlave
      BY <3>3 DEF GetIdleSlave, ToTask
    <3>4. QED
      BY <1>1, <3>1, <3>2, <3>3
  <2>3. \A s \in Slaves : status'[s] = "none" => status[s] = "none"
    <3>1. CASE \E s \in Slaves : LoginRequest(s)
      BY <3>1 DEF LoginRequest, TypeOK
    <3>2. CASE CheckTimeOut
      BY <3>2 DEF CheckTimeOut, TypeOK
    <3>3. QED
      BY <1>1, <3>1, <3>2 DEF HeartbeatRequest, Tick, ReadTick, GetIdleSlave,
         UpdateTask, vars, objVars
  <2>4. AbsentEmpty'
    BY <2>1, <2>3 DEF PlacesInv, AbsentEmpty
  <2>5. \A s \in Slaves : Listed(s)' = Listed(s)
    BY <2>1 DEF Listed
  <2>6. QED
    BY <2>1, <2>2, <2>4, <2>5, PlacesStay
<1>2. ASSUME NEW s \in Slaves, Accept(s)
      PROVE  PlacesInv'
  <2>1. UNCHANGED <<taskStatus, sent, at, curSlave, little>> /\ taskList[s] = {}
    BY <1>2 DEF Accept, taskVars, threadVars, histVars, PlacesInv, AbsentEmpty
  <2>2. taskList' = taskList
    BY <1>2, <2>1 DEF Accept, TypeOK
  <2>3. \A x \in Slaves : Listed(x)' = Listed(x)
    BY <2>2 DEF Listed
  <2>4. AbsentEmpty'
    BY <1>2, <2>2 DEF Accept, TypeOK, PlacesInv, AbsentEmpty
  <2>5. QED
    BY <2>1, <2>3, <2>4, PlacesStay
<1>3. ASSUME NEW s \in Slaves, NEW g \in LittleTasks, ResultSucess(s, g)
      PROVE  PlacesInv'
  <2>1. UNCHANGED <<at, curSlave, little, status>> /\ sent' = sent \ {<<s, g>>}
        /\ taskList' = [taskList EXCEPT ![s] = {e \in @ : e[2] # g}]
    BY <1>3 DEF ResultSucess, threadVars
  <2>2. \A f \in LittleTasks : taskStatus'[f] = "UnAssigned" => taskStatus[f] = "UnAssigned"
    BY <1>3, SetTaskStatusFacts DEF ResultSucess
  <2>3. /\ \A x \in Slaves : Listed(x)' \subseteq Listed(x)
        /\ \A x \in Slaves : \A f \in Listed(x) : f \in Listed(x)' \/ <<x, f>> = <<s, g>>
    BY <2>1 DEF Listed, TypeOK
  <2>4. AbsentEmpty'
    BY <2>1 DEF PlacesInv, AbsentEmpty, TypeOK
  <2>5. QED
    BY <2>1, <2>2, <2>3, <2>4, PlacesStay
<1>4. ASSUME NEW s \in Slaves, NEW g \in LittleTasks, StaleResult(s, g)
      PROVE  PlacesInv'
  <2>1. UNCHANGED <<at, curSlave, little, status, taskList, sent>>
    BY <1>4 DEF StaleResult, threadVars, objVars
  <2>2. \A f \in LittleTasks : taskStatus'[f] = "UnAssigned" => taskStatus[f] = "UnAssigned"
    BY <1>4, SetTaskStatusFacts DEF StaleResult
  <2>3. \A x \in Slaves : Listed(x)' = Listed(x)
    BY <2>1 DEF Listed
  <2>4. QED
    BY <2>1, <2>2, <2>3, PlacesStay DEF PlacesInv, AbsentEmpty
<1>5. CASE DeleteDead
  <2>1. curSlave \in Slaves /\ at = "status" /\ at' = "slaves"
    BY <1>5 DEF DeleteDead, HandsOK
  <2>2. CASE status[curSlave] = "DEAD"
    <3>1. /\ SetTaskStatus(Listed(curSlave), "UnAssigned")
          /\ status' = [status EXCEPT ![curSlave] = "none"]
          /\ taskList' = [taskList EXCEPT ![curSlave] = {}]
          /\ sent' = {p \in sent : p[1] # curSlave}
      BY <1>5, <2>2 DEF DeleteDead, RetrieveTask
    <3>2. \A f \in LittleTasks : taskStatus'[f] = "UnAssigned" =>
             taskStatus[f] = "UnAssigned" \/ f \in Listed(curSlave)
      BY <3>1, SetTaskStatusFacts
    <3>3. \A x \in Slaves : Listed(x)' = IF x = curSlave THEN {} ELSE Listed(x)
      BY <3>1 DEF Listed, TypeOK
    <3>4. \A f \in Listed(curSlave) : \A x \in Slaves : f \notin Listed(x)'
      BY <2>1, <3>3 DEF PlacesInv, ListsApart
    <3>5. AbsentEmpty'
      BY <2>1, <3>1 DEF PlacesInv, AbsentEmpty, TypeOK
    <3>6. QED
      BY <2>1, <3>1, <3>2, <3>3, <3>4, <3>5, PlacesStay
  <2>3. CASE status[curSlave] # "DEAD"
    <3>1. UNCHANGED <<status, taskList, taskStatus, sent>>
      BY <1>5, <2>3 DEF DeleteDead, objVars
    <3>2. \A x \in Slaves : Listed(x)' = Listed(x)
      BY <3>1 DEF Listed
    <3>3. QED
      BY <2>1, <3>1, <3>2, PlacesStay DEF PlacesInv, AbsentEmpty
  <2>4. QED
    BY <2>2, <2>3
<1>6. CASE GetLittleTask
  <2>1. UNCHANGED <<taskList, status, sent>> /\ at = "little" /\ curTask \in Tasks
    BY <1>6 DEF GetLittleTask, objVars, histVars, HandsOK
  <2>2. \A x \in Slaves : Listed(x)' = Listed(x)
    BY <2>1 DEF Listed
  <2>3. CASE UnAssignedOf(curTask) = {}
    <3>1. taskStatus' = taskStatus /\ at' \notin {"do", "push"}
      BY <1>6, <2>3 DEF GetLittleTask, ToTask
    <3>2. QED
      BY <2>1, <2>2, <3>1, PlacesStay DEF PlacesInv, AbsentEmpty
  <2>4. CASE UnAssignedOf(curTask) # {}
    <3> DEFINE g == <<curTask, Least(UnAssignedOf(curTask))>>
    <3>1. little' = g /\ taskStatus' = [taskStatus EXCEPT ![g] = "Assigned"] /\ at' = "do"
      BY <1>6, <2>4 DEF GetLittleTask
    <3>2. g \in LittleTasks /\ taskStatus[g] = "UnAssigned"
      <4>1. UnAssignedOf(curTask) \subseteq Nat
        BY <2>1, MasterAssumption DEF UnAssignedOf
      <4>2. Least(UnAssignedOf(curTask)) \in UnAssignedOf(curTask)
        BY <2>4, <4>1, LeastInSet
      <4>3. QED
        BY <2>1, <4>2, LittleTaskFacts DEF UnAssignedOf
    <3>3. \A x \in Slaves : g \notin Listed(x)
      BY <3>2 DEF PlacesInv, ListedGiven
    <3> HIDE DEF g
    <3>4. HandsApart'
      BY <2>2, <3>1, <3>2, <3>3 DEF HandsApart, TypeOK
    <3>5. ListedGiven'
      BY <2>2, <3>1, <3>3 DEF PlacesInv, ListedGiven, TypeOK, Listed
    <3>6. OwedHasPlace'
      BY <2>1, <2>2 DEF PlacesInv, OwedHasPlace, InHands
    <3>7. QED
      BY <2>1, <2>2, <3>4, <3>5, <3>6 DEF PlacesInv, ListsApart, AbsentEmpty
  <2>5. QED
    BY <2>3, <2>4
<1>7. CASE DoTask
  <2>1. UNCHANGED <<taskList, status, taskStatus, curSlave>> /\ at = "do"
    BY <1>7 DEF DoTask, objVars, taskVars
  <2>2. \A x \in Slaves : Listed(x)' = Listed(x)
    BY <2>1 DEF Listed
  <2>3. CASE at' = "push"
    <3>1. little' = little /\ sent' = sent \cup {<<curSlave, little>>}
      BY <1>7, <2>3 DEF DoTask
    <3>2. OwedHasPlace'
      BY <2>1, <2>2, <2>3, <3>1 DEF PlacesInv, OwedHasPlace, InHands
    <3>3. HandsApart'
      BY <2>1, <2>2, <2>3, <3>1 DEF PlacesInv, HandsApart
    <3>4. QED
      BY <2>1, <2>2, <3>2, <3>3 DEF PlacesInv, ListedGiven, ListsApart, AbsentEmpty
  <2>4. CASE at' # "push"
    <3>1. sent' = sent /\ at' = "idle"
      BY <1>7, <2>4 DEF DoTask
    <3>2. OwedHasPlace' /\ HandsApart'
      BY <2>1, <2>2, <3>1 DEF PlacesInv, OwedHasPlace, InHands, HandsApart
    <3>3. QED
      BY <2>1, <2>2, <3>2 DEF PlacesInv, ListedGiven, ListsApart, AbsentEmpty
  <2>5. QED
    BY <2>3, <2>4
<1>8. CASE PushTask
  <2>1. /\ UNCHANGED <<status, taskStatus, sent, curSlave>> /\ at = "push" /\ at' = "idle"
        /\ taskList' = [taskList EXCEPT ![curSlave] = @ \cup {<<FreeEntry(curSlave), little>>}]
    BY <1>8 DEF PushTask, taskVars, histVars
  <2>2. curSlave \in Slaves /\ status[curSlave] # "none"
    BY <2>1 DEF HandsOK
  <2>3. \A x \in Slaves : Listed(x)' = IF x = curSlave THEN Listed(x) \cup {little}
                                                     ELSE Listed(x)
    <3> DEFINE e == <<FreeEntry(curSlave), little>>
    <3>1. \A x \in Slaves : taskList'[x] = IF x = curSlave THEN taskList[x] \cup {e}
                                                           ELSE taskList[x]
      BY <2>1, <2>2 DEF TypeOK
    <3>2. e[2] = little
      OBVIOUS
    <3> HIDE DEF e
    <3>3. QED
      BY <3>1, <3>2 DEF Listed
  <2>4. OwedHasPlace' /\ HandsApart'
    BY <2>1, <2>2, <2>3 DEF PlacesInv, OwedHasPlace, InHands, HandsApart
  <2>5. ListedGiven' /\ ListsApart'
    BY <2>1, <2>3 DEF PlacesInv, HandsApart, ListedGiven, ListsApart
  <2>6. AbsentEmpty'
    BY <2>1, <2>2 DEF PlacesInv, AbsentEmpty, TypeOK
  <2>7. QED
    BY <2>4, <2>5, <2>6 DEF PlacesInv
<1>9. QED
  BY <1>1, <1>2, <1>3, <1>4, <1>5, <1>6, <1>7, <1>8
     DEF Peaceful, Next, Receive, ThreadProcess

LEMMA InitPlaces == Init => PlacesInv
BY DEF Init, PlacesInv, OwedHasPlace, HandsApart, ListedGiven, ListsApart,
   AbsentEmpty, Listed
===============================================================================
