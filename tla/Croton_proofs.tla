---------------------------- MODULE Croton_proofs ----------------------------
(***************************************************************************)
(* Theorems about the Master and its slaves together: for every number of   *)
(* slaves, tasks and little tasks, and any number of crashes and of broken  *)
(* connections.                                                            *)
(*                                                                         *)
(* The Master's own invariants (MasterScheduler_proofs) are carried over;   *)
(* that needs every step here to be a step of the Master alone, which is    *)
(* so because a slave sends no RESULT the Master does not expect.  WayInv   *)
(* says why: a little task is once on its way through a slave, as TASK, as  *)
(* worker or as RESULT, while the Master expects its RESULT.               *)
(***************************************************************************)
EXTENDS Croton, FiniteSetTheorems, SequenceTheorems, TLAPS

MP == INSTANCE MasterScheduler_proofs WITH Kinds <- {"LOGIN", "HEARTBEAT", "Sucess"}

(* The two instances of MasterScheduler, that of Croton and that with the    *)
(* theorems, are the same: definition by definition.                         *)
LEMMA SameVars == Master!vars = MP!vars
BY DEF Master!vars, MP!vars, Master!objVars, MP!objVars, Master!taskVars,
   MP!taskVars, Master!threadVars, MP!threadVars, Master!histVars,
   MP!histVars

LEMMA SameSets ==
  /\ Master!LittleTasks = MP!LittleTasks /\ Master!NoLittle = MP!NoLittle
  /\ \A s : Master!Listed(s) = MP!Listed(s)
  /\ \A S : Master!Cardinality(S) = MP!Cardinality(S)
<1>1. \A S : Master!Cardinality(S) = MP!Cardinality(S)
  BY DEF Master!Cardinality, MP!Cardinality, Master!IsFiniteSet, MP!IsFiniteSet
<1>2. QED
  BY <1>1 DEF Master!LittleTasks, MP!LittleTasks, Master!NoLittle, MP!NoLittle,
   Master!Listed, MP!Listed

LEMMA SameHandlers ==
  /\ \A s : /\ Master!Accept(s) <=> MP!Accept(s)
            /\ Master!LoginRequest(s) <=> MP!LoginRequest(s)
            /\ Master!HeartbeatRequest(s) <=> MP!HeartbeatRequest(s)
  /\ \A s, f : /\ Master!ResultSucess(s, f) <=> MP!ResultSucess(s, f)
               /\ Master!StaleResult(s, f) <=> MP!StaleResult(s, f)
  /\ Master!Tick <=> MP!Tick
BY SameSets DEF Master!Accept, MP!Accept, Master!LoginRequest, MP!LoginRequest,
   Master!HeartbeatRequest, MP!HeartbeatRequest, Master!ResultSucess,
   MP!ResultSucess, Master!StaleResult, MP!StaleResult,
   Master!SetTaskStatus, MP!SetTaskStatus, Master!Tick, MP!Tick,
   Master!objVars, MP!objVars, Master!taskVars, MP!taskVars,
   Master!threadVars, MP!threadVars, Master!histVars, MP!histVars

LEMMA SameProcess ==
  /\ Master!ReadTick <=> MP!ReadTick
  /\ Master!CheckTimeOut <=> MP!CheckTimeOut
  /\ Master!DeleteDead <=> MP!DeleteDead
  /\ Master!UpdateTask <=> MP!UpdateTask
BY SameSets DEF Master!ReadTick, MP!ReadTick, Master!ToSlave, MP!ToSlave, Master!ToTask,
   MP!ToTask, Master!Above, MP!Above, Master!Least, MP!Least,
   Master!Present, MP!Present, Master!CheckTimeOut, MP!CheckTimeOut,
   Master!Elapsed, MP!Elapsed, Master!DeleteDead, MP!DeleteDead,
   Master!RetrieveTask, MP!RetrieveTask, Master!SetTaskStatus,
   MP!SetTaskStatus, Master!UpdateTask, MP!UpdateTask,
   Master!IsCompleted, MP!IsCompleted, Master!objVars, MP!objVars,
   Master!taskVars, MP!taskVars, Master!threadVars, MP!threadVars,
   Master!histVars, MP!histVars

LEMMA SameAssign ==
  /\ Master!GetIdleSlave <=> MP!GetIdleSlave
  /\ Master!GetLittleTask <=> MP!GetLittleTask
  /\ Master!DoTask <=> MP!DoTask
  /\ Master!PushTask <=> MP!PushTask
<1>1. Master!IdleSlaves = MP!IdleSlaves
  BY SameSets DEF Master!IdleSlaves, MP!IdleSlaves, Master!CanBeAssigned, MP!CanBeAssigned
<1>2. \A s : Master!FreeEntry(s) = MP!FreeEntry(s)
  BY SameSets DEF Master!FreeEntry, MP!FreeEntry
<1>3. Master!GetIdleSlave <=> MP!GetIdleSlave
  BY <1>1 DEF Master!GetIdleSlave, MP!GetIdleSlave, Master!ToTask, MP!ToTask,
   Master!Above, MP!Above, Master!Least, MP!Least, Master!objVars,
   MP!objVars, Master!taskVars, MP!taskVars, Master!threadVars,
   MP!threadVars, Master!histVars, MP!histVars
<1>4. Master!GetLittleTask <=> MP!GetLittleTask
  BY SameSets DEF Master!GetLittleTask, MP!GetLittleTask, Master!UnAssignedOf,
   MP!UnAssignedOf, Master!ToTask, MP!ToTask, Master!Above, MP!Above,
   Master!Least, MP!Least, Master!objVars, MP!objVars, Master!taskVars,
   MP!taskVars, Master!threadVars, MP!threadVars, Master!histVars,
   MP!histVars
<1>5. Master!DoTask <=> MP!DoTask
  BY SameSets DEF Master!DoTask, MP!DoTask, Master!objVars, MP!objVars, Master!taskVars,
   MP!taskVars, Master!threadVars, MP!threadVars, Master!histVars,
   MP!histVars
<1>6. Master!PushTask <=> MP!PushTask
  BY <1>2, SameSets DEF Master!PushTask, MP!PushTask, Master!objVars, MP!objVars,
   Master!taskVars, MP!taskVars, Master!threadVars, MP!threadVars,
   Master!histVars, MP!histVars
<1>7. QED
  BY <1>3, <1>4, <1>5, <1>6

LEMMA SameNext == Master!Next <=> MP!Next
<1>1. \A s, f : Master!ResultFail(s, f) <=> MP!ResultFail(s, f)
  BY SameSets DEF Master!ResultFail, MP!ResultFail, Master!SetTaskStatus, MP!SetTaskStatus,
   Master!objVars, MP!objVars, Master!taskVars, MP!taskVars,
   Master!threadVars, MP!threadVars, Master!histVars, MP!histVars
<1>2. \A s : Master!ExitRequest(s) <=> MP!ExitRequest(s)
  BY SameSets DEF Master!ExitRequest, MP!ExitRequest, Master!RetrieveTask, MP!RetrieveTask,
   Master!SetTaskStatus, MP!SetTaskStatus, Master!objVars, MP!objVars,
   Master!taskVars, MP!taskVars, Master!threadVars, MP!threadVars,
   Master!histVars, MP!histVars
<1>3. \A s : Master!Receive(s) <=> MP!Receive(s)
  BY <1>1, <1>2, SameSets, SameHandlers DEF Master!Receive, MP!Receive
<1>4. QED
  BY <1>3, SameSets, SameHandlers, SameProcess, SameAssign
     DEF Master!Next, MP!Next, Master!ThreadProcess, MP!ThreadProcess

LEMMA SameInit == Master!Init <=> MP!Init
BY SameSets DEF Master!Init, MP!Init

-------------------------------------------------------------------------------
(* The Master's types, and where the little tasks it gave away are.          *)
MasterInv == MP!TypeInv /\ MP!PlacesInv

LEMMA InitMasterInv == Master!Init => MasterInv
BY SameInit, MP!InitTypeInv, MP!InitPlaces, CrotonAssumption DEF MP!AllKinds, MasterInv

LEMMA NextMasterInv == MasterInv /\ [Master!Next]_Master!vars => MasterInv'
<1> SUFFICES ASSUME MasterInv, [Master!Next]_Master!vars PROVE MasterInv'
  OBVIOUS
<1>1. [MP!Next]_MP!vars
  BY SameNext DEF Master!vars, MP!vars, Master!objVars, MP!objVars, Master!taskVars,
     MP!taskVars, Master!threadVars, MP!threadVars, Master!histVars, MP!histVars
<1>2. MP!TypeInv'
  BY <1>1, MP!NextTypeInv, CrotonAssumption DEF MP!AllKinds, MasterInv
<1>3. MP!Peaceful
  BY DEF MP!Peaceful
<1>4. MP!PlacesInv'
  BY <1>1, <1>3, MP!PlacesKept, CrotonAssumption DEF MP!AllKinds, MasterInv
<1>5. QED
  BY <1>2, <1>4 DEF MasterInv

(* What the invariant says, in the names of Croton's instance.             *)
LEMMA MasterFacts ==
  ASSUME MasterInv
  PROVE  /\ Master!TypeOK
         /\ at \in {"compare", "status", "little", "do", "push"} => curSlave \in Slaves
         /\ at \in {"do", "push"} => little \in LittleTasks
         /\ at \in {"little", "do", "push"} => status[curSlave] # "none"
         /\ \A s \in Slaves, f \in LittleTasks : <<s, f>> \in sent =>
               f \in Master!Listed(s) \/ (at = "push" /\ curSlave = s /\ little = f)
         /\ at \in {"do", "push"} => \A s \in Slaves : little \notin Master!Listed(s)
         /\ \A r, s \in Slaves : r # s => Master!Listed(r) \cap Master!Listed(s) = {}
<1>1. Master!TypeOK
  BY SameSets DEF MasterInv, MP!TypeInv, MP!TypeOK, Master!TypeOK, MP!ThreadPC, Master!ThreadPC
<1>2. QED
  BY <1>1, SameSets DEF MasterInv, MP!TypeInv, MP!HandsOK, MP!PlacesInv, MP!OwedHasPlace,
     MP!InHands, MP!HandsApart, MP!ListsApart, LittleTasks
-------------------------------------------------------------------------------
(* Messages in a channel, and what the operations on channels do to them.    *)
Has(q, m) == \E i \in 1..Len(q) : q[i] = m

Once(q, m) == \A i, j \in 1..Len(q) : q[i] = m /\ q[j] = m => i = j

LEMMA HasAppend ==
  ASSUME NEW M, NEW q \in Seq(M), NEW x \in M
  PROVE  /\ Append(q, x) \in Seq(M)
         /\ \A m : Has(Append(q, x), m) <=> Has(q, m) \/ m = x
         /\ \A m : Once(q, m) /\ (m # x \/ ~Has(q, m)) => Once(Append(q, x), m)
<1>1. /\ Append(q, x) \in Seq(M) /\ Len(q) \in Nat /\ Len(Append(q, x)) = Len(q) + 1
      /\ \A i \in 1..Len(q) : Append(q, x)[i] = q[i]
      /\ Append(q, x)[Len(q) + 1] = x
  BY AppendProperties, LenProperties
<1> HIDE DEF Has
<1>2. \A i \in 1..Len(q) + 1 : i \in 1..Len(q) \/ i = Len(q) + 1
  BY <1>1
<1>3. \A m : Has(Append(q, x), m) <=> Has(q, m) \/ m = x
  BY <1>1, <1>2 DEF Has
<1>4. ASSUME NEW m, Once(q, m), m # x \/ ~Has(q, m)
      PROVE  Once(Append(q, x), m)
  BY <1>1, <1>2, <1>4 DEF Once, Has
<1>5. QED
  BY <1>1, <1>3, <1>4

LEMMA HasTail ==
  ASSUME NEW M, NEW q \in Seq(M), q # <<>>
  PROVE  /\ Tail(q) \in Seq(M) /\ Head(q) \in M
         /\ \A m : Has(q, m) <=> m = Head(q) \/ Has(Tail(q), m)
         /\ \A m : Once(q, m) => Once(Tail(q), m)
         /\ Once(q, Head(q)) => ~Has(Tail(q), Head(q))
<1>1. /\ Tail(q) \in Seq(M) /\ Head(q) \in M /\ Len(q) \in Nat \ {0}
      /\ Len(Tail(q)) = Len(q) - 1 /\ Head(q) = q[1]
      /\ \A i \in 1..Len(Tail(q)) : Tail(q)[i] = q[i + 1]
  BY HeadTailProperties, LenProperties, EmptySeq
<1>2. \A i \in 1..Len(Tail(q)) : i + 1 \in 1..Len(q) /\ i + 1 # 1
  BY <1>1
<1>3. \A i \in 1..Len(q) : i = 1 \/ (i - 1 \in 1..Len(Tail(q)) /\ q[i] = Tail(q)[i - 1])
  BY <1>1
<1>4. 1 \in 1..Len(q)
  BY <1>1
<1>5. \A m : Has(q, m) <=> m = Head(q) \/ Has(Tail(q), m)
  BY <1>1, <1>2, <1>3, <1>4 DEF Has
<1>6. ASSUME NEW m, Once(q, m)
      PROVE  Once(Tail(q), m)
  <2> SUFFICES ASSUME NEW i \in 1..Len(Tail(q)), NEW j \in 1..Len(Tail(q)),
                      Tail(q)[i] = m, Tail(q)[j] = m
               PROVE  i = j
    BY DEF Once
  <2>1. q[i + 1] = m /\ q[j + 1] = m
    BY <1>1
  <2>2. i + 1 = j + 1
    BY <1>2, <1>6, <2>1 DEF Once
  <2>3. QED
    BY <2>2
<1>7. Once(q, Head(q)) => ~Has(Tail(q), Head(q))
  BY <1>1, <1>2, <1>4 DEF Once, Has
<1>8. QED
  BY <1>1, <1>5, <1>6, <1>7

(* A process or a connection that ends loses the end of a channel.           *)
LEMMA HasPrefix ==
  ASSUME NEW M, NEW q \in Seq(M), NEW n \in 0..Len(q)
  PROVE  /\ SubSeq(q, 1, n) \in Seq(M)
         /\ \A m : Has(SubSeq(q, 1, n), m) => Has(q, m)
         /\ \A m : Once(q, m) => Once(SubSeq(q, 1, n), m)
<1>1. Len(q) \in Nat /\ n \in Nat /\ n <= Len(q)
  BY LenProperties
<1>2. \A i \in 1..n : i \in 1..Len(q) /\ q[i] \in M
  BY <1>1, ElementOfSeq
<1> DEFINE p == SubSeq(q, 1, n)
<1>3. p \in Seq(M) /\ Len(p) = n /\ \A i \in 1..n : p[i] = q[i]
  BY <1>1, <1>2, SubSeqProperties
<1> HIDE DEF p
<1>4. (\A m : Has(p, m) => Has(q, m)) /\ (\A m : Once(q, m) => Once(p, m))
  BY <1>2, <1>3 DEF Has, Once
<1>5. QED
  BY <1>3, <1>4 DEF p

(* Process appends its RESULTs in one go.                                    *)
LEMMA HasConcat ==
  ASSUME NEW M, NEW q \in Seq(M), NEW S \in SUBSET M, IsFiniteSet(S)
  PROVE  /\ q \o SetToSeq(S) \in Seq(M)
         /\ \A m : Has(q \o SetToSeq(S), m) <=> Has(q, m) \/ m \in S
         /\ \A m : Once(q, m) /\ (m \notin S \/ ~Has(q, m)) => Once(q \o SetToSeq(S), m)
<1> DEFINE n == Cardinality(S)
           r == SetToSeq(S)
<1>1. n \in Nat /\ ExistsBijection(1..n, S)
  BY FS_CardinalityType
<1>2. PICK g \in [1..n -> S] : IsInjective(g) /\ \A m \in S : \E i \in 1..n : g[i] = m
  BY <1>1 DEF ExistsBijection, Bijection, Injection, Surjection, IsInjective
<1>3. r \in [1..n -> S] /\ IsInjective(r)
  BY <1>2 DEF SetToSeq
<1>4. \A m \in S : \E i \in 1..n : r[i] = m
  <2>0. Cardinality(S) = n
    OBVIOUS
  <2> HIDE DEF r, n
  <2>1. r \in Injection(1..n, S)
    BY <1>3 DEF Injection, IsInjective
  <2>2. IsFiniteSet(1..n) /\ Cardinality(1..n) = n
    BY <1>1, FS_Interval
  <2>3. r \in Surjection(1..n, S)
    BY <2>0, <2>1, <2>2, FS_Injection
  <2>4. QED
    BY <2>3 DEF Surjection
<1>5. r \in Seq(M) /\ Len(r) = n /\ Len(q) \in Nat
  <2>1. r \in Seq(S) /\ Len(r) = n
    BY <1>1, <1>3, SeqDef, LenProperties
  <2>2. QED
    BY <2>1, LenProperties
<1> HIDE DEF r
<1> DEFINE c == q \o r
<1>6. /\ c \in Seq(M) /\ Len(c) = Len(q) + n
      /\ \A i \in 1..Len(q) : c[i] = q[i]
      /\ \A i \in 1..n : Len(q) + i \in 1..Len(c) /\ c[Len(q) + i] = r[i]
  BY <1>1, <1>5, ConcatProperties
<1>7. \A i \in 1..Len(c) : i \in 1..Len(q) \/ (i - Len(q) \in 1..n /\ c[i] = r[i - Len(q)])
  BY <1>1, <1>5, <1>6
<1>8. \A i \in 1..Len(q) : i \in 1..Len(c)
  BY <1>1, <1>5, <1>6
<1> HIDE DEF c
<1>9. \A i \in 1..n : r[i] \in S
  BY <1>3
<1>10. ASSUME NEW m
       PROVE  Has(c, m) <=> Has(q, m) \/ m \in S
  <2>1. Has(c, m) => Has(q, m) \/ m \in S
    BY <1>6, <1>7, <1>9 DEF Has
  <2>2. Has(q, m) => Has(c, m)
    BY <1>6, <1>8 DEF Has
  <2>3. m \in S => Has(c, m)
    BY <1>4, <1>6 DEF Has
  <2>4. QED
    BY <2>1, <2>2, <2>3
<1>11. ASSUME NEW m, Once(q, m), m \notin S \/ ~Has(q, m)
       PROVE  Once(c, m)
  <2> SUFFICES ASSUME NEW i \in 1..Len(c), NEW j \in 1..Len(c), c[i] = m, c[j] = m
               PROVE  i = j
    BY DEF Once
  <2>1. CASE i \in 1..Len(q) /\ j \in 1..Len(q)
    BY <2>1, <1>6, <1>11 DEF Once
  <2>2. CASE i \notin 1..Len(q) /\ j \notin 1..Len(q)
    <3>1. /\ i - Len(q) \in 1..n /\ r[i - Len(q)] = m
          /\ j - Len(q) \in 1..n /\ r[j - Len(q)] = m
      BY <2>2, <1>7
    <3>2. i - Len(q) = j - Len(q)
      BY <3>1, <1>3 DEF IsInjective
    <3>3. QED
      BY <3>2, <1>5, <1>6, <1>1
  <2>3. CASE i \in 1..Len(q) /\ j \notin 1..Len(q)
    BY <2>3, <1>6, <1>7, <1>9, <1>11 DEF Has
  <2>4. CASE i \notin 1..Len(q) /\ j \in 1..Len(q)
    BY <2>4, <1>6, <1>7, <1>9, <1>11 DEF Has
  <2>5. QED
    BY <2>1, <2>2, <2>3, <2>4
<1>12. QED
  BY <1>6, <1>10, <1>11 DEF c, r
-------------------------------------------------------------------------------
(* What the channels carry, beside the types of TypeOK.                      *)
MasterMessages == {Message("LOGIN", NoLittle)}
                      \cup {Message("RESULT", f) : f \in LittleTasks}

SlaveMessages == {Message("TASK", f) : f \in LittleTasks}
                      \cup {Message(k, NoLittle) : k \in {"LoginSucess", "LoginFail"}}

SlaveTypes ==
    /\ conn \in [Slaves -> ConnState] /\ proc \in [Slaves -> ProcState]
    /\ toMaster \in [Slaves -> Seq(MasterMessages)]
    /\ toSlave \in [Slaves -> Seq(SlaveMessages)]
    /\ worker \in [Slaves -> [LittleTasks -> WorkerState]]
    /\ listed \in [Slaves -> SUBSET (LittleTasks \X TaskStatus)]
    /\ \A s \in Slaves : IsFiniteSet(listed[s])
    /\ uploaded \subseteq LittleTasks /\ hasty \subseteq LittleTasks
    /\ cut \subseteq Slaves /\ faults \in 0..MaxFaults

(* A process that is down has no thread, no list and reads no message.     *)
DownIsEmpty ==
    \A s \in Slaves : proc[s] = "down" =>
        /\ toSlave[s] = <<>> /\ listed[s] = {}
        /\ worker[s] = [f \in LittleTasks |-> "none"]

(* The little task f on its way through slave s: given, worked on, answered. *)
Tasked(s, f) == Has(toSlave[s], Message("TASK", f))
Running(s, f) == \E e \in listed[s] : e[1] = f
Answered(s, f) == Has(toMaster[s], Message("RESULT", f))

(* The Master expects the RESULT.                                          *)
Owes(s, f) == <<s, f>> \in (IF conn[s] = "deleted" THEN stale ELSE sent)

(* A little task is at most once on its way through a slave, and only when  *)
(* its RESULT is expected.                                                 *)
WayOf(s) ==
    \A f \in LittleTasks :
        /\ Tasked(s, f) \/ Running(s, f) \/ Answered(s, f) => Owes(s, f)
        /\ Tasked(s, f) => ~Running(s, f) /\ ~Answered(s, f)
        /\ Running(s, f) => ~Answered(s, f)
        /\ Once(toSlave[s], Message("TASK", f)) /\ Once(toMaster[s], Message("RESULT", f))

(* A slave's list has one worker for a little task at most.                  *)
OneStatus == \A s \in Slaves : \A d, e \in listed[s] : d[1] = e[1] => d = e

WayInv == (\A s \in Slaves : WayOf(s)) /\ OneStatus

CrotonInv == MasterInv /\ SlaveTypes /\ DownIsEmpty /\ WayInv

LEMMA MessageFacts ==
  /\ \A k, f, l, g : Message(k, f) = Message(l, g) <=> k = l /\ f = g
  /\ \A k, f : Message(k, f).type = k /\ Message(k, f).little = f
  /\ \A m \in MasterMessages :
        \/ m.type = "LOGIN" /\ m = Message("LOGIN", NoLittle)
        \/ m.type = "RESULT" /\ m.little \in LittleTasks /\ m = Message("RESULT", m.little)
  /\ \A m \in SlaveMessages :
        \/ m.type \in {"LoginSucess", "LoginFail"} /\ m = Message(m.type, NoLittle)
        \/ m.type = "TASK" /\ m.little \in LittleTasks /\ m = Message("TASK", m.little)
<1>1. \A k, f : Message(k, f).type = k /\ Message(k, f).little = f
  BY DEF Message
<1>2. \A k, f, l, g : Message(k, f) = Message(l, g) <=> k = l /\ f = g
  BY <1>1
<1>3. QED
  BY <1>1, <1>2 DEF MasterMessages, SlaveMessages

LEMMA InitCrotonInv == Init => CrotonInv
<1> SUFFICES ASSUME Init PROVE CrotonInv
  OBVIOUS
<1>1. MasterInv
  BY InitMasterInv DEF Init
<1>2. \A s \in Slaves : toMaster[s] = <<>> /\ toSlave[s] = <<>> /\ listed[s] = {}
  BY DEF Init
<1>3. \A M : <<>> \in Seq(M)
  BY EmptySeq
<1>4. SlaveTypes
  BY <1>3, FS_EmptySet, CrotonAssumption
     DEF Init, SlaveTypes, ConnState, ProcState, WorkerState
<1>5. DownIsEmpty
  BY DEF Init, DownIsEmpty
<1>6. \A m : ~Has(<<>>, m) /\ Once(<<>>, m)
  BY DEF Has, Once
<1>7. WayInv
  BY <1>2, <1>6 DEF WayInv, WayOf, Tasked, Running, Answered, OneStatus
<1>8. QED
  BY <1>1, <1>4, <1>5, <1>7 DEF CrotonInv

(* Every step of the whole is a step of the Master alone, or none.         *)
LEMMA NextRefines ==
  ASSUME CrotonInv, [Next]_vars
  PROVE  [Master!Next]_Master!vars
<1> DEFINE Goal == [Master!Next]_Master!vars
<1>1. UNCHANGED masterVars => Goal
  BY DEF masterVars, Master!vars, Master!objVars, Master!taskVars, Master!threadVars,
     Master!histVars
<1>2. ASSUME NEW s \in Slaves, HandleRequest(s)
      PROVE  Goal
  <2> DEFINE m == Head(toMaster[s])
  <2>1. toMaster[s] \in Seq(MasterMessages) /\ toMaster[s] # <<>>
    BY <1>2 DEF HandleRequest, CrotonInv, SlaveTypes
  <2>2. m \in MasterMessages /\ Has(toMaster[s], m)
    BY <2>1, HasTail
  <2>3. CASE m.type = "LOGIN" /\ Master!LoginRequest(s)
    BY <2>3 DEF Master!Next, Master!Receive
  <2>5. ASSUME m.type = "RESULT"
        PROVE  m.little \in LittleTasks /\ Owes(s, m.little)
    <3>1. m.little \in LittleTasks /\ m = Message("RESULT", m.little)
      BY <2>2, <2>5, MessageFacts
    <3>2. Answered(s, m.little)
      BY <2>2, <3>1 DEF Answered
    <3>3. QED
      BY <3>1, <3>2 DEF CrotonInv, WayInv, WayOf
  <2>6. CASE m.type = "RESULT" /\ conn[s] # "deleted" /\ Master!ResultSucess(s, m.little)
    <3>1. <<s, m.little>> \in sent
      BY <2>5, <2>6 DEF Owes
    <3>2. QED
      BY <2>5, <2>6, <3>1 DEF Master!Next, Master!Receive, LittleTasks
  <2>7. CASE m.type = "RESULT" /\ Master!StaleResult(s, m.little)
    BY <2>5, <2>7 DEF Master!Next, LittleTasks
  <2>8. CASE UNCHANGED masterVars
    BY <1>1, <2>8
  <2>9. QED
    BY <1>2, <2>3, <2>6, <2>7, <2>8 DEF HandleRequest
<1>3. ASSUME NEW s \in Slaves, Connect(s) \/ Crash(s) \/ Break(s) \/ SlaveStep(s)
      PROVE  Goal
  <2>1. CASE Connect(s)
    BY <1>1, <2>1 DEF Connect, Master!Next
  <2>2. CASE Heartbeat(s)
    BY <2>2 DEF Heartbeat, Master!Next, Master!Receive
  <2>3. CASE Crash(s) \/ Break(s) \/ (SlaveStep(s) /\ ~Heartbeat(s))
    <3>1. UNCHANGED masterVars
      BY <2>3 DEF Crash, Break, SlaveStep, ProcessRead, Process, Download, Upload
    <3>2. QED
      BY <1>1, <3>1
  <2>4. QED
    BY <1>3, <2>1, <2>2, <2>3
<1>4. CASE MasterThread \/ Tick
  BY <1>4 DEF MasterThread, Tick, MasterDoTask, MasterDeleteDead, MasterStep, Master!Next,
     Master!ThreadProcess
<1>5. CASE UNCHANGED vars
  BY <1>1, <1>5 DEF vars
<1>6. QED
  BY <1>2, <1>3, <1>4, <1>5 DEF Next
-------------------------------------------------------------------------------
(* A slave's way is undisturbed when nothing enters it and what is on it    *)
(* stays expected.                                                         *)
LEMMA WayStays ==
  ASSUME NEW s \in Slaves, WayOf(s),
         \A f \in LittleTasks :
            /\ Tasked(s, f)' => Tasked(s, f)
            /\ Running(s, f)' => Running(s, f)
            /\ Answered(s, f)' => Answered(s, f)
            /\ Once(toSlave[s], Message("TASK", f))'
            /\ Once(toMaster[s], Message("RESULT", f))'
            /\ Owes(s, f) => Owes(s, f)' \/ ~(Tasked(s, f)' \/ Running(s, f)' \/ Answered(s, f)')
  PROVE  WayOf(s)'
BY DEF WayOf

(* The predicates of the next state, of the next state's channels.         *)
LEMMA NextWay ==
  ASSUME NEW s \in Slaves
  PROVE  \A f : /\ Tasked(s, f)' <=> Has(toSlave'[s], Message("TASK", f))
                /\ Answered(s, f)' <=> Has(toMaster'[s], Message("RESULT", f))
                /\ Once(toSlave[s], Message("TASK", f))' <=> Once(toSlave'[s], Message("TASK", f))
                /\ Once(toMaster[s], Message("RESULT", f))'
                      <=> Once(toMaster'[s], Message("RESULT", f))
BY DEF Tasked, Answered, Has, Once, Message

(* Nothing of slave s moves, and its RESULTs stay expected.                  *)
LEMMA QuietWay ==
  ASSUME NEW s \in Slaves, WayOf(s), toSlave'[s] = toSlave[s], toMaster'[s] = toMaster[s],
         listed'[s] = listed[s], \A f \in LittleTasks : Owes(s, f) => Owes(s, f)'
  PROVE  WayOf(s)'
BY DEF WayOf, Tasked, Running, Answered, Once, Has

(* Slave s alone moves.                                                    *)
LEMMA OneSlaveWay ==
  ASSUME WayInv, NEW s \in Slaves, WayOf(s)', OneStatus',
         \A x \in Slaves \ {s} :
            /\ toSlave'[x] = toSlave[x] /\ toMaster'[x] = toMaster[x] /\ listed'[x] = listed[x]
            /\ \A f \in LittleTasks : Owes(x, f) => Owes(x, f)'
  PROVE  WayInv'
BY QuietWay DEF WayInv

(* A slave comes, with nothing on its way, or goes, and its way ends.        *)
LEMMA ConnectCrash ==
  ASSUME CrotonInv, NEW s \in Slaves, Connect(s) \/ Crash(s) \/ Break(s)
  PROVE  SlaveTypes' /\ DownIsEmpty' /\ WayInv'
<1> USE DEF CrotonInv, SlaveTypes
<1>1. CASE Connect(s)
  <2>1. /\ toMaster[s] = <<>> /\ toSlave[s] = <<>> /\ listed[s] = {}
        /\ toMaster' = [toMaster EXCEPT ![s] = Append(@, Message("LOGIN", NoLittle))]
        /\ UNCHANGED <<toSlave, listed, worker, uploaded, hasty, faults, sent, stale>>
        /\ cut' \subseteq Slaves
        /\ conn' \in [Slaves -> ConnState]
        /\ \A x \in Slaves \ {s} : conn'[x] = conn[x]
        /\ proc' = [proc EXCEPT ![s] = "Unvested"]
    BY <1>1 DEF Connect, Send, DownIsEmpty, ConnState, masterVars, Master!Accept,
       Master!histVars
  <2>2. Message("LOGIN", NoLittle) \in MasterMessages
    BY DEF MasterMessages
  <2>3. toMaster'[s] \in Seq(MasterMessages)
        /\ (\A m : Has(toMaster'[s], m) => m = Message("LOGIN", NoLittle))
        /\ \A f : Once(toMaster'[s], Message("RESULT", f))
    <3>1. toMaster'[s] = Append(toMaster[s], Message("LOGIN", NoLittle))
          /\ toMaster[s] \in Seq(MasterMessages)
      BY <2>1
    <3>2. \A m : ~Has(toMaster[s], m) /\ Once(toMaster[s], m)
      BY <2>1 DEF Has, Once
    <3>3. /\ toMaster'[s] \in Seq(MasterMessages)
          /\ \A m : Has(toMaster'[s], m) <=> Has(toMaster[s], m) \/ m = Message("LOGIN", NoLittle)
          /\ \A m : Once(toMaster[s], m) /\ (m # Message("LOGIN", NoLittle) \/ ~Has(toMaster[s], m))
                      => Once(toMaster'[s], m)
      BY <2>2, <3>1, HasAppend
    <3>4. QED
      BY <3>2, <3>3
  <2>4. SlaveTypes'
    <3>1. toMaster' \in [Slaves -> Seq(MasterMessages)]
      BY <2>1, <2>3
    <3>2. QED
      BY <2>1, <3>1 DEF ProcState
  <2>5. DownIsEmpty'
    BY <2>1 DEF DownIsEmpty
  <2>6. WayOf(s)'
    <3>1. \A f \in LittleTasks : ~Tasked(s, f)' /\ ~Running(s, f)' /\ ~Answered(s, f)'
      BY <2>1, <2>3, MessageFacts DEF Tasked, Running, Answered, Has
    <3>2. \A f : Once(toSlave[s], Message("TASK", f))'
      BY <2>1 DEF Once
    <3>3. QED
      BY <2>3, <3>1, <3>2 DEF WayOf
  <2>7. OneStatus'
    BY <2>1 DEF WayInv, OneStatus
  <2>8. QED
    BY <2>1, <2>4, <2>5, <2>6, <2>7, OneSlaveWay DEF Owes
<1>2. CASE Crash(s)
  <2>1. /\ toSlave' = [toSlave EXCEPT ![s] = <<>>] /\ listed' = [listed EXCEPT ![s] = {}]
        /\ worker' = [worker EXCEPT ![s] = [f \in LittleTasks |-> "none"]]
        /\ proc' = [proc EXCEPT ![s] = "down"] /\ faults' = faults + 1 /\ faults < MaxFaults
        /\ UNCHANGED <<conn, cut, uploaded, hasty, sent, stale>>
    BY <1>2 DEF Crash, masterVars
  <2>7. PICK n \in 0..Len(toMaster[s]) :
           toMaster' = [toMaster EXCEPT ![s] = SubSeq(toMaster[s], 1, n)]
    BY <1>2 DEF Crash, Lose
  <2>8. /\ toMaster' \in [Slaves -> Seq(MasterMessages)]
        /\ \A x \in Slaves \ {s} : toMaster'[x] = toMaster[x]
        /\ \A m : Has(toMaster'[s], m) => Has(toMaster[s], m)
        /\ \A m : Once(toMaster[s], m) => Once(toMaster'[s], m)
    BY <2>7, HasPrefix
  <2>2. SlaveTypes'
    <3>1. <<>> \in Seq(SlaveMessages)
      BY EmptySeq
    <3>2. toSlave' \in [Slaves -> Seq(SlaveMessages)]
      BY <2>1, <3>1
    <3>3. worker' \in [Slaves -> [LittleTasks -> WorkerState]]
      BY <2>1 DEF WorkerState
    <3>4. listed' \in [Slaves -> SUBSET (LittleTasks \X TaskStatus)]
          /\ \A x \in Slaves : IsFiniteSet(listed'[x])
      BY <2>1, FS_EmptySet
    <3>5. faults' \in 0..MaxFaults
      BY <2>1, CrotonAssumption
    <3>6. QED
      BY <2>1, <2>8, <3>2, <3>3, <3>4, <3>5 DEF ProcState
  <2>3. DownIsEmpty'
    BY <2>1 DEF DownIsEmpty
  <2>4. WayOf(s)'
    <3>1. \A f \in LittleTasks : ~Tasked(s, f)' /\ ~Running(s, f)'
      BY <2>1 DEF Tasked, Running, Has
    <3>2. \A f \in LittleTasks : (Answered(s, f)' => Answered(s, f)) /\ (Owes(s, f)' <=> Owes(s, f))
      BY <2>1, <2>8, NextWay DEF Answered, Owes
    <3>3. \A f \in LittleTasks : Once(toSlave[s], Message("TASK", f))'
             /\ (Once(toMaster[s], Message("RESULT", f)) => Once(toMaster[s], Message("RESULT", f))')
      <4>1. toSlave'[s] = <<>>
        BY <2>1
      <4>2. \A f \in LittleTasks : Once(toSlave[s], Message("TASK", f))'
        BY <4>1, NextWay DEF Once
      <4>3. \A f \in LittleTasks : Once(toMaster[s], Message("RESULT", f))
                                      => Once(toMaster'[s], Message("RESULT", f)')
        BY <2>8, NextWay
      <4>4. QED
        BY <4>2, <4>3 DEF Once
    <3>4. QED
      BY <3>1, <3>2, <3>3 DEF WayOf, WayInv
  <2>5. OneStatus'
    BY <2>1 DEF WayInv, OneStatus
  <2>6. QED
    BY <2>1, <2>2, <2>3, <2>4, <2>5, <2>8, OneSlaveWay DEF Owes
<1>3. CASE Break(s)
  <2>1. /\ UNCHANGED <<conn, proc, listed, worker, uploaded, hasty, sent, stale>>
        /\ cut' \subseteq Slaves /\ faults' \in 0..MaxFaults /\ proc[s] # "down"
    BY <1>3, CrotonAssumption DEF Break, Reachable, masterVars
  <2>2. PICK n \in 0..Len(toMaster[s]), k \in 0..Len(toSlave[s]) :
           /\ toMaster' = [toMaster EXCEPT ![s] = SubSeq(toMaster[s], 1, n)]
           /\ toSlave' = [toSlave EXCEPT ![s] = SubSeq(toSlave[s], 1, k)]
    BY <1>3 DEF Break, Lose
  <2>3. /\ toMaster' \in [Slaves -> Seq(MasterMessages)]
        /\ \A x \in Slaves \ {s} : toMaster'[x] = toMaster[x]
        /\ \A m : Has(toMaster'[s], m) => Has(toMaster[s], m)
        /\ \A m : Once(toMaster[s], m) => Once(toMaster'[s], m)
    BY <2>2, HasPrefix
  <2>4. /\ toSlave' \in [Slaves -> Seq(SlaveMessages)]
        /\ \A x \in Slaves \ {s} : toSlave'[x] = toSlave[x]
        /\ \A m : Has(toSlave'[s], m) => Has(toSlave[s], m)
        /\ \A m : Once(toSlave[s], m) => Once(toSlave'[s], m)
    BY <2>2, HasPrefix
  <2>5. SlaveTypes' /\ DownIsEmpty'
    BY <2>1, <2>3, <2>4 DEF DownIsEmpty
  <2>6. \A f \in LittleTasks :
           /\ Tasked(s, f)' => Tasked(s, f)
           /\ Running(s, f)' => Running(s, f)
           /\ Answered(s, f)' => Answered(s, f)
           /\ Once(toSlave[s], Message("TASK", f))'
           /\ Once(toMaster[s], Message("RESULT", f))'
           /\ Owes(s, f) => Owes(s, f)'
    <3>1. \A f \in LittleTasks : /\ Once(toSlave[s], Message("TASK", f))
                                /\ Once(toMaster[s], Message("RESULT", f))
      BY DEF WayInv, WayOf
    <3>2. QED
      BY <2>1, <2>3, <2>4, <3>1, NextWay DEF Tasked, Running, Answered, Owes
  <2>7. WayOf(s)'
    BY <2>6, WayStays DEF WayInv
  <2>8. OneStatus'
    BY <2>1 DEF WayInv, OneStatus
  <2>9. QED
    BY <2>1, <2>3, <2>4, <2>5, <2>7, <2>8, OneSlaveWay DEF Owes
<1>4. QED
  BY <1>1, <1>2, <1>3

(* The Master's handlers: a message leaves toMaster, and a RESULT is no     *)
(* longer expected.                                                        *)
LEMMA HandleWay ==
  ASSUME CrotonInv, NEW s \in Slaves, HandleRequest(s)
  PROVE  SlaveTypes' /\ DownIsEmpty' /\ WayInv'
<1> USE DEF CrotonInv, SlaveTypes
<1> DEFINE m == Head(toMaster[s])
<1>1. /\ toMaster[s] # <<>> /\ toMaster[s] \in Seq(MasterMessages)
      /\ toMaster' = [toMaster EXCEPT ![s] = Tail(toMaster[s])]
      /\ UNCHANGED <<conn, cut, proc, worker, listed, uploaded, hasty, faults>>
  BY DEF HandleRequest, Consume, slaveVars
<1>2. /\ m \in MasterMessages /\ Tail(toMaster[s]) \in Seq(MasterMessages)
      /\ \A n : Has(toMaster[s], n) <=> n = m \/ Has(Tail(toMaster[s]), n)
      /\ \A n : Once(toMaster[s], n) => Once(Tail(toMaster[s]), n)
      /\ Once(toMaster[s], m) => ~Has(Tail(toMaster[s]), m)
  BY <1>1, HasTail
<1>3. /\ toSlave' \in [Slaves -> Seq(SlaveMessages)]
      /\ proc[s] = "down" => toSlave'[s] = toSlave[s]
      /\ \A x \in Slaves \ {s} : toSlave'[x] = toSlave[x]
      /\ \A f : Has(toSlave'[s], Message("TASK", f)) <=> Has(toSlave[s], Message("TASK", f))
      /\ \A f : Once(toSlave[s], Message("TASK", f)) => Once(toSlave'[s], Message("TASK", f))
  <2>1. CASE toSlave' = toSlave
    BY <2>1
  <2>2. CASE proc[s] # "down" /\ Send(toSlave, s, LoginAnswer(s))
    <3>1. PICK k \in {"LoginSucess", "LoginFail"} : LoginAnswer(s) = Message(k, NoLittle)
      BY DEF LoginAnswer
    <3>2. Message(k, NoLittle) \in SlaveMessages /\ \A f : Message(k, NoLittle) # Message("TASK", f)
      BY MessageFacts DEF SlaveMessages
    <3>3. toSlave' = [toSlave EXCEPT ![s] = Append(toSlave[s], Message(k, NoLittle))]
      BY <2>2, <3>1 DEF Send
    <3>4. QED
      BY <2>2, <3>2, <3>3, HasAppend
  <2>3. QED
    BY <2>1, <2>2 DEF HandleRequest, Reachable
<1>4. SlaveTypes'
  BY <1>1, <1>2, <1>3
<1>5. DownIsEmpty'
  BY <1>1, <1>3 DEF DownIsEmpty
<1>6. \A f \in LittleTasks :
         /\ Tasked(s, f)' <=> Tasked(s, f)
         /\ Running(s, f)' <=> Running(s, f)
         /\ Answered(s, f)' => Answered(s, f)
         /\ Once(toSlave[s], Message("TASK", f))'
         /\ Once(toMaster[s], Message("RESULT", f))'
  <2>1. \A f \in LittleTasks : Once(toSlave[s], Message("TASK", f)) /\ Once(toMaster[s], Message("RESULT", f))
    BY DEF WayInv, WayOf
  <2>2. toMaster'[s] = Tail(toMaster[s])
    BY <1>1
  <2>3. QED
    BY <1>1, <1>2, <1>3, <2>1, <2>2, NextWay DEF Tasked, Running, Answered
<1>7. OneStatus'
  BY <1>1 DEF WayInv, OneStatus
<1>8. CASE UNCHANGED <<sent, stale>>
  <2>1. \A x \in Slaves, f \in LittleTasks : Owes(x, f)' <=> Owes(x, f)
    BY <1>1, <1>8 DEF Owes
  <2>2. WayOf(s)'
    BY <1>6, <2>1, WayStays DEF WayInv
  <2>3. QED
    BY <1>1, <1>3, <1>4, <1>5, <1>7, <2>1, <2>2, OneSlaveWay
<1>9. ASSUME m.type = "RESULT",
             \/ conn[s] # "deleted" /\ Master!ResultSucess(s, m.little)
             \/ conn[s] = "deleted" /\ Master!StaleResult(s, m.little)
      PROVE  SlaveTypes' /\ DownIsEmpty' /\ WayInv'
  <2>1. PICK g \in LittleTasks : g = m.little /\ m = Message("RESULT", g)
    BY <1>2, <1>9, MessageFacts
  <2>2. Answered(s, g) /\ ~Answered(s, g)'
    <3>1. Once(toMaster[s], m)
      BY <2>1 DEF WayInv, WayOf
    <3>2. Has(toMaster[s], m) /\ ~Has(toMaster'[s], m)
      BY <1>1, <1>2, <3>1
    <3>3. QED
      BY <2>1, <3>2, NextWay DEF Answered
  <2>3. \A x \in Slaves, f \in LittleTasks : <<x, f>> # <<s, g>> /\ Owes(x, f) => Owes(x, f)'
    BY <1>1, <1>9, <2>1 DEF Owes, Master!ResultSucess, Master!StaleResult
  <2>4. ~Tasked(s, g) /\ ~Running(s, g)
    BY <2>1, <2>2 DEF WayInv, WayOf
  <2>5. WayOf(s)'
    <3>1. \A f \in LittleTasks :
             Owes(s, f) => Owes(s, f)' \/ ~(Tasked(s, f)' \/ Running(s, f)' \/ Answered(s, f)')
      BY <1>6, <2>1, <2>2, <2>3, <2>4
    <3>2. WayOf(s)
      BY DEF WayInv
    <3>3. QED
      BY <1>6, <3>1, <3>2, WayStays
  <2>6. \A x \in Slaves \ {s} : \A f \in LittleTasks : Owes(x, f) => Owes(x, f)'
    BY <2>3
  <2>7. WayInv'
    BY <1>1, <1>3, <1>7, <2>5, <2>6, OneSlaveWay
  <2>8. QED
    BY <1>4, <1>5, <2>7
<1>10. QED
  <2>1. CASE m.type # "RESULT"
    <3>1. UNCHANGED <<sent, stale>>
      BY <2>1 DEF HandleRequest, Master!LoginRequest, Master!histVars, masterVars
    <3>2. QED
      BY <3>1, <1>8
  <2>2. CASE m.type = "RESULT"
    BY <2>2, <1>9 DEF HandleRequest
  <2>3. QED
    BY <2>1, <2>2
-------------------------------------------------------------------------------
(* ThreadProcess: a deleted object's RESULTs become stale, and what DoTask  *)
(* sends is neither listed nor owed by the slave it is sent to.             *)
LEMMA MasterWay ==
  ASSUME CrotonInv, MasterThread \/ Tick
  PROVE  SlaveTypes' /\ DownIsEmpty' /\ WayInv'
<1> USE DEF CrotonInv, SlaveTypes
<1>1. CASE MasterStep \/ Tick
  <2>1. UNCHANGED <<conn, cut, toMaster, toSlave, proc, worker, listed, uploaded, hasty, faults,
                  sent, stale>>
    BY <1>1 DEF MasterStep, Tick, netVars, slaveVars, Master!Tick, Master!ReadTick,
       Master!CheckTimeOut, Master!GetIdleSlave, Master!GetLittleTask, Master!PushTask,
       Master!UpdateTask, Master!histVars
  <2>2. SlaveTypes' /\ DownIsEmpty'
    BY <2>1 DEF DownIsEmpty
  <2>3. \A s \in Slaves : WayOf(s)'
    BY <2>1, QuietWay DEF WayInv, Owes
  <2>4. QED
    BY <2>1, <2>2, <2>3 DEF WayInv, OneStatus
<1>2. CASE MasterDeleteDead
  <2>1. UNCHANGED <<toMaster, toSlave, cut, proc, worker, listed, uploaded, hasty, faults>>
        /\ Master!DeleteDead
        /\ conn' = IF status[curSlave] = "DEAD" THEN [conn EXCEPT ![curSlave] = "deleted"] ELSE conn
    BY <1>2 DEF MasterDeleteDead, slaveVars
  <2>2. conn' \in [Slaves -> ConnState]
    BY <2>1 DEF ConnState
  <2>3. SlaveTypes' /\ DownIsEmpty'
    BY <2>1, <2>2 DEF DownIsEmpty
  <2>4. \A s \in Slaves, f \in LittleTasks : Owes(s, f) => Owes(s, f)'
    <3>1. CASE status[curSlave] = "DEAD"
      <4>1. stale' = stale \cup {p \in sent : p[1] = curSlave}
            /\ sent' = {p \in sent : p[1] # curSlave}
        BY <2>1, <3>1 DEF Master!DeleteDead
      <4>2. \A s \in Slaves : conn'[s] = IF s = curSlave THEN "deleted" ELSE conn[s]
        BY <2>1, <3>1
      <4>3. QED
        BY <4>1, <4>2 DEF Owes
    <3>2. CASE status[curSlave] # "DEAD"
      BY <2>1, <3>2 DEF Owes, Master!DeleteDead
    <3>3. QED
      BY <3>1, <3>2
  <2>5. \A s \in Slaves : WayOf(s)'
    BY <2>1, <2>4, QuietWay DEF WayInv
  <2>6. QED
    BY <2>1, <2>3, <2>5 DEF WayInv, OneStatus
<1>3. CASE MasterDoTask
  <2>1. UNCHANGED <<conn, toMaster, cut, proc, worker, listed, uploaded, hasty, faults>>
        /\ Master!DoTask /\ at = "do" /\ stale' = stale
    BY <1>3 DEF MasterDoTask, slaveVars, Master!DoTask
  <2>2. curSlave \in Slaves /\ little \in LittleTasks /\ little \notin Master!Listed(curSlave)
    BY <2>1, MasterFacts
  <2>3. \A s \in Slaves, f \in LittleTasks : Owes(s, f) => Owes(s, f)'
    BY <2>1 DEF Owes, Master!DoTask
  <2>4. CASE toSlave' = toSlave
    <3>1. SlaveTypes' /\ DownIsEmpty'
      BY <2>1, <2>4 DEF DownIsEmpty
    <3>2. \A s \in Slaves : WayOf(s)'
      BY <2>1, <2>3, <2>4, QuietWay DEF WayInv
    <3>3. QED
      BY <2>1, <3>1, <3>2 DEF WayInv, OneStatus
  <2>5. CASE /\ at' = "push" /\ conn[curSlave] = "own" /\ proc[curSlave] # "down"
             /\ Send(toSlave, curSlave, Message("TASK", little))
    <3>1. PICK s \in Slaves : s = curSlave
      BY <2>2
    <3>2. PICK g \in LittleTasks : g = little
      BY <2>2
    <3>3. <<s, g>> \notin sent /\ <<s, g>> \in sent'
      BY <2>1, <2>2, <2>5, <3>1, <3>2, MasterFacts DEF Master!DoTask
    <3>4. ~Owes(s, g) /\ Owes(s, g)'
      BY <2>1, <2>5, <3>1, <3>3 DEF Owes
    <3>5. ~Tasked(s, g) /\ ~Running(s, g) /\ ~Answered(s, g)
      BY <3>4 DEF WayInv, WayOf
    <3>6. toSlave' = [toSlave EXCEPT ![s] = Append(toSlave[s], Message("TASK", g))]
      BY <2>5, <3>1, <3>2 DEF Send
    <3>7. Message("TASK", g) \in SlaveMessages /\ toSlave[s] \in Seq(SlaveMessages)
          /\ toSlave'[s] = Append(toSlave[s], Message("TASK", g))
      BY <3>6 DEF SlaveMessages
    <3>8. /\ toSlave'[s] \in Seq(SlaveMessages)
          /\ \A m : Has(toSlave'[s], m) <=> Has(toSlave[s], m) \/ m = Message("TASK", g)
          /\ \A m : Once(toSlave[s], m) /\ (m # Message("TASK", g) \/ ~Has(toSlave[s], m))
                       => Once(toSlave'[s], m)
      BY <3>7, HasAppend
    <3>9. SlaveTypes'
      BY <2>1, <3>6, <3>8
    <3>10. DownIsEmpty'
      BY <2>1, <2>5, <3>1, <3>6 DEF DownIsEmpty
    <3>11. \A f : Tasked(s, f)' <=> Tasked(s, f) \/ f = g
      BY <3>8, NextWay, MessageFacts DEF Tasked
    <3>12. \A f \in LittleTasks : Once(toSlave[s], Message("TASK", f))'
      <4>1. \A f \in LittleTasks : Once(toSlave[s], Message("TASK", f))
        BY DEF WayInv, WayOf
      <4>2. ~Has(toSlave[s], Message("TASK", g))
        BY <3>5 DEF Tasked
      <4>3. QED
        BY <3>8, <4>1, <4>2, NextWay
    <3>13. \A f \in LittleTasks :
              /\ Running(s, f)' <=> Running(s, f)
              /\ Answered(s, f)' <=> Answered(s, f)
              /\ Once(toMaster[s], Message("RESULT", f))' <=> Once(toMaster[s], Message("RESULT", f))
      BY <2>1 DEF Running, Answered, Once
    <3>14. WayOf(s)'
      BY <2>3, <3>4, <3>5, <3>11, <3>12, <3>13 DEF WayInv, WayOf
    <3>15. OneStatus'
      BY <2>1 DEF WayInv, OneStatus
    <3>16. QED
      BY <2>1, <2>3, <3>6, <3>9, <3>10, <3>14, <3>15, OneSlaveWay
  <2>6. QED
    BY <1>3, <2>4, <2>5 DEF MasterDoTask, Reachable
<1>4. QED
  BY <1>1, <1>2, <1>3 DEF MasterThread

(* A slave reads a message: a TASK becomes a worker.                       *)
LEMMA ReadWay ==
  ASSUME CrotonInv, NEW s \in Slaves, ProcessRead(s)
  PROVE  SlaveTypes' /\ DownIsEmpty' /\ WayInv'
<1> USE DEF CrotonInv, SlaveTypes
<1> DEFINE m == Head(toSlave[s])
<1>1. /\ toSlave[s] # <<>> /\ toSlave[s] \in Seq(SlaveMessages) /\ proc[s] # "down"
      /\ toSlave' = [toSlave EXCEPT ![s] = Tail(toSlave[s])]
      /\ UNCHANGED <<conn, cut, toMaster, uploaded, faults, sent, stale>>
  BY DEF ProcessRead, Consume, masterVars
<1>2. /\ m \in SlaveMessages /\ Tail(toSlave[s]) \in Seq(SlaveMessages)
      /\ \A n : Has(toSlave[s], n) <=> n = m \/ Has(Tail(toSlave[s]), n)
      /\ \A n : Once(toSlave[s], n) => Once(Tail(toSlave[s]), n)
      /\ Once(toSlave[s], m) => ~Has(Tail(toSlave[s]), m)
  BY <1>1, HasTail
<1>3. toSlave' \in [Slaves -> Seq(SlaveMessages)] /\ toSlave'[s] = Tail(toSlave[s])
  BY <1>1, <1>2
<1>4. \A x \in Slaves, f \in LittleTasks : Owes(x, f)' <=> Owes(x, f)
  BY <1>1 DEF Owes
<1>5. \A f \in LittleTasks :
         /\ Tasked(s, f)' => Tasked(s, f)
         /\ Answered(s, f)' <=> Answered(s, f)
         /\ Once(toSlave[s], Message("TASK", f))'
         /\ Once(toMaster[s], Message("RESULT", f))'
  <2>1. \A f \in LittleTasks : Once(toSlave[s], Message("TASK", f)) /\ Once(toMaster[s], Message("RESULT", f))
    BY DEF WayInv, WayOf
  <2>2. QED
    BY <1>1, <1>2, <1>3, <2>1, NextWay DEF Tasked, Answered
<1>6. CASE UNCHANGED <<worker, listed, hasty>>
  <2>1. proc' \in [Slaves -> ProcState] /\ \A x \in Slaves : proc'[x] = "down" => proc[x] = "down"
    BY <1>6, <1>1 DEF ProcessRead, ProcState
  <2>2. SlaveTypes'
    BY <1>1, <1>3, <1>6, <2>1
  <2>3. DownIsEmpty'
    BY <1>1, <1>6, <2>1 DEF DownIsEmpty
  <2>4. \A f : Running(s, f)' <=> Running(s, f)
    BY <1>6 DEF Running
  <2>5. WayOf(s)'
    BY <1>4, <1>5, <2>4, WayStays DEF WayInv
  <2>6. OneStatus'
    BY <1>6 DEF WayInv, OneStatus
  <2>7. QED
    BY <1>1, <1>4, <1>6, <2>2, <2>3, <2>5, <2>6, OneSlaveWay
<1>7. ASSUME m.type = "TASK", AddTask(s, m.little), proc' = proc
      PROVE  SlaveTypes' /\ DownIsEmpty' /\ WayInv'
  <2>1. PICK g \in LittleTasks : g = m.little /\ m = Message("TASK", g)
    BY <1>2, <1>7, MessageFacts
  <2>2. PICK v \in InitialStatus(s, g) :
           /\ worker' = [worker EXCEPT ![s][g] = "download"]
           /\ listed' = [listed EXCEPT ![s] = @ \cup {<<g, v>>}]
           /\ hasty' \subseteq hasty \cup {g}
    BY <1>7, <2>1 DEF AddTask
  <2>3. v \in TaskStatus
    BY DEF TaskStatus, InitialStatus
  <2>4. Tasked(s, g) /\ ~Tasked(s, g)'
    <3>1. Once(toSlave[s], m)
      BY <2>1 DEF WayInv, WayOf
    <3>2. Has(toSlave[s], m) /\ ~Has(toSlave'[s], m)
      BY <1>2, <1>3, <3>1
    <3>3. QED
      BY <2>1, <3>2, NextWay DEF Tasked
  <2>5. Owes(s, g) /\ ~Running(s, g) /\ ~Answered(s, g)
    BY <2>4 DEF WayInv, WayOf
  <2>6. \A f : Running(s, f)' <=> Running(s, f) \/ f = g
    <3>1. listed'[s] = listed[s] \cup {<<g, v>>} /\ <<g, v>>[1] = g
      BY <2>2
    <3>2. QED
      BY <3>1 DEF Running
  <2>7. SlaveTypes'
    <3>1. worker' \in [Slaves -> [LittleTasks -> WorkerState]]
      BY <2>2 DEF WorkerState
    <3>2. listed' \in [Slaves -> SUBSET (LittleTasks \X TaskStatus)]
      BY <2>2, <2>3
    <3>3. \A x \in Slaves : IsFiniteSet(listed'[x])
      BY <2>2, FS_AddElement
    <3>4. QED
      BY <1>1, <1>3, <1>7, <2>2, <3>1, <3>2, <3>3
  <2>8. DownIsEmpty'
    BY <1>1, <1>7, <2>2 DEF DownIsEmpty
  <2>9. WayOf(s)'
    BY <1>4, <1>5, <2>4, <2>5, <2>6 DEF WayInv, WayOf
  <2>10. OneStatus'
    <3>1. \A e \in listed[s] : e[1] # g
      BY <2>5 DEF Running
    <3> DEFINE n == <<g, v>>
    <3>2. \A x \in Slaves : listed'[x] = IF x = s THEN listed[s] \cup {n} ELSE listed[x]
      BY <2>2
    <3>3. n[1] = g
      OBVIOUS
    <3> HIDE DEF n
    <3> SUFFICES ASSUME NEW x \in Slaves, NEW d \in listed'[x], NEW e \in listed'[x],
                        d[1] = e[1]
                 PROVE  d = e
      BY DEF OneStatus
    <3>4. \A b, c \in listed[x] : b[1] = c[1] => b = c
      BY DEF WayInv, OneStatus
    <3>5. QED
      BY <3>1, <3>2, <3>3, <3>4
  <2>11. QED
    BY <1>1, <1>4, <2>2, <2>7, <2>8, <2>9, <2>10, OneSlaveWay
<1>8. QED
  BY <1>6, <1>7 DEF ProcessRead

(* SetStatus changes a status and no place.                                *)
LEMMA SetStatusFacts ==
  ASSUME CrotonInv, NEW s \in Slaves, NEW f \in LittleTasks, NEW v \in TaskStatus,
         SetStatus(s, f, v)
  PROVE  /\ listed' \in [Slaves -> SUBSET (LittleTasks \X TaskStatus)]
         /\ \A x \in Slaves : IsFiniteSet(listed'[x])
         /\ \A x \in Slaves \ {s} : listed'[x] = listed[x]
         /\ listed[s] = {} => listed'[s] = {}
         /\ \A e : e \in listed'[s] <=>
               \/ e \in listed[s] /\ e[1] # f
               \/ e = <<f, v>> /\ Running(s, f)
         /\ \A g : Running(s, g)' <=> Running(s, g)
         /\ OneStatus'
<1> USE DEF CrotonInv, SlaveTypes
<1> DEFINE n == <<f, v>>
           L == {IF e[1] = f THEN n ELSE e : e \in listed[s]}
<1>1. listed' = [listed EXCEPT ![s] = L]
  BY DEF SetStatus
<1>2. \A e : e \in L <=> \/ e \in listed[s] /\ e[1] # f
                         \/ e = n /\ Running(s, f)
  BY DEF Running
<1>3. n[1] = f /\ n \in LittleTasks \X TaskStatus
  OBVIOUS
<1>4. L \subseteq LittleTasks \X TaskStatus
  BY <1>3
<1>5. IsFiniteSet(L)
  <2>1. L \subseteq listed[s] \cup {n}
    OBVIOUS
  <2>2. IsFiniteSet(listed[s] \cup {n})
    <3> HIDE DEF n
    <3>1. QED
      BY FS_AddElement
  <2>3. QED
    BY <2>1, <2>2, FS_Subset
<1> HIDE DEF L, n
<1>6. listed' \in [Slaves -> SUBSET (LittleTasks \X TaskStatus)]
      /\ \A x \in Slaves : IsFiniteSet(listed'[x])
  BY <1>1, <1>4, <1>5
<1>7. \A x \in Slaves : listed'[x] = IF x = s THEN L ELSE listed[x]
  BY <1>1
<1>8. listed[s] = {} => L = {}
  BY <1>2 DEF Running
<1>9. \A g : Running(s, g)' <=> Running(s, g)
  BY <1>2, <1>3, <1>7 DEF Running
<1>10. OneStatus'
  <2> SUFFICES ASSUME NEW x \in Slaves, NEW d \in listed'[x], NEW e \in listed'[x],
                      d[1] = e[1]
               PROVE  d = e
    BY DEF OneStatus
  <2>1. \A b, c \in listed[x] : b[1] = c[1] => b = c
    BY DEF WayInv, OneStatus
  <2>2. CASE x # s
    BY <1>7, <2>1, <2>2
  <2>3. CASE x = s
    <3>1. d \in L /\ e \in L
      BY <1>7, <2>3
    <3>2. (d \in listed[s] /\ d[1] # f) \/ d = n
      BY <1>2, <3>1
    <3>3. (e \in listed[s] /\ e[1] # f) \/ e = n
      BY <1>2, <3>1
    <3>4. QED
      BY <1>3, <2>1, <2>3, <3>2, <3>3
  <2>4. QED
    BY <2>2, <2>3
<1>11. QED
  BY <1>2, <1>6, <1>7, <1>8, <1>9, <1>10 DEF n

(* The worker and ThreadDoAffairs.                                         *)
LEMMA WorkWay ==
  ASSUME CrotonInv, NEW s \in Slaves,
         \E f \in LittleTasks : Download(s, f) \/ Upload(s, f)
  PROVE  SlaveTypes' /\ DownIsEmpty' /\ WayInv'
<1> USE DEF CrotonInv, SlaveTypes
<1>1. PICK f \in LittleTasks : Download(s, f) \/ Upload(s, f)
  OBVIOUS
<1>2. /\ UNCHANGED <<conn, cut, toMaster, toSlave, proc, hasty, faults, sent, stale>>
      /\ worker[s][f] \in {"download", "upload"}
      /\ \E w \in WorkerState : worker' = [worker EXCEPT ![s][f] = w]
      /\ uploaded' \subseteq LittleTasks
      /\ listed' = listed \/ \E v \in TaskStatus : SetStatus(s, f, v)
  BY <1>1 DEF Download, Upload, netVars, masterVars, WorkerState, TaskStatus
<1>3. /\ listed' \in [Slaves -> SUBSET (LittleTasks \X TaskStatus)]
      /\ \A x \in Slaves : IsFiniteSet(listed'[x])
      /\ \A x \in Slaves \ {s} : listed'[x] = listed[x]
      /\ \A g : Running(s, g)' <=> Running(s, g)
      /\ OneStatus'
  <2>1. CASE listed' = listed
    BY <2>1 DEF Running, WayInv, OneStatus
  <2>2. CASE \E v \in TaskStatus : SetStatus(s, f, v)
    BY <2>2, SetStatusFacts
  <2>3. QED
    BY <1>2, <2>1, <2>2
<1>4. proc[s] # "down"
  BY <1>2 DEF DownIsEmpty
<1>5. SlaveTypes'
  <2>1. worker' \in [Slaves -> [LittleTasks -> WorkerState]]
    BY <1>2
  <2>2. QED
    BY <1>2, <1>3, <2>1
<1>6. DownIsEmpty'
  BY <1>2, <1>3, <1>4 DEF DownIsEmpty
<1>7. \A x \in Slaves, g \in LittleTasks : Owes(x, g)' <=> Owes(x, g)
  BY <1>2 DEF Owes
<1>8. WayOf(s)'
  <2>1. \A g : /\ Tasked(s, g)' <=> Tasked(s, g)
               /\ Answered(s, g)' <=> Answered(s, g)
               /\ Once(toSlave[s], Message("TASK", g))' <=> Once(toSlave[s], Message("TASK", g))
               /\ Once(toMaster[s], Message("RESULT", g))' <=> Once(toMaster[s], Message("RESULT", g))
    BY <1>2 DEF Tasked, Answered, Once
  <2>2. QED
    BY <1>3, <1>7, <2>1 DEF WayInv, WayOf
<1>9. QED
  BY <1>2, <1>3, <1>5, <1>6, <1>7, <1>8, OneSlaveWay

(* The RESULTs that TaskManager::Process sends, if the connection lasts.     *)
LEMMA ProcessFacts ==
  ASSUME CrotonInv, NEW s \in Slaves, Process(s)
  PROVE  /\ listed' = [listed EXCEPT ![s] = listed[s] \ Submited(s)]
         /\ toMaster' \in [Slaves -> Seq(MasterMessages)]
         /\ \A x \in Slaves \ {s} : toMaster'[x] = toMaster[x]
         /\ \A f : Answered(s, f)' => Answered(s, f) \/ \E e \in Submited(s) : e[1] = f
         /\ \A f : Answered(s, f) \/ (s \notin cut /\ \E e \in Submited(s) : e[1] = f)
                     => Answered(s, f)'
         /\ \A f : /\ Once(toMaster[s], Message("RESULT", f))
                   /\ ~Answered(s, f) \/ \A e \in Submited(s) : e[1] # f
                   => Once(toMaster[s], Message("RESULT", f))'
<1> USE DEF CrotonInv, SlaveTypes
<1> DEFINE R == {Message("RESULT", e[1]) : e \in Submited(s)}
<1>1. /\ listed' = [listed EXCEPT ![s] = listed[s] \ Submited(s)]
      /\ toMaster' = IF s \in cut THEN toMaster
                     ELSE [toMaster EXCEPT ![s] = toMaster[s] \o SetToSeq(R)]
  BY DEF Process
<1>2. Submited(s) \subseteq listed[s] /\ IsFiniteSet(Submited(s))
  BY FS_Subset DEF Submited
<1>3. R \in SUBSET MasterMessages /\ IsFiniteSet(R)
  <2>1. R \subseteq MasterMessages
    BY <1>2 DEF MasterMessages
  <2> DEFINE g == [e \in Submited(s) |-> Message("RESULT", e[1])]
  <2>2. g \in Surjection(Submited(s), R)
    BY DEF Surjection
  <2> HIDE DEF g, R
  <2>3. QED
    BY <1>2, <2>1, <2>2, FS_Surjection
<1>4. \A f : Message("RESULT", f) \in R <=> \E e \in Submited(s) : e[1] = f
  BY MessageFacts
<1> HIDE DEF R
<1>5. toMaster[s] \in Seq(MasterMessages)
  OBVIOUS
<1>6. /\ toMaster'[s] \in Seq(MasterMessages)
      /\ \A m : Has(toMaster'[s], m) => Has(toMaster[s], m) \/ m \in R
      /\ \A m : Has(toMaster[s], m) \/ (s \notin cut /\ m \in R) => Has(toMaster'[s], m)
      /\ \A m : Once(toMaster[s], m) /\ (m \notin R \/ ~Has(toMaster[s], m)) => Once(toMaster'[s], m)
  <2>1. CASE s \in cut
    BY <1>1, <1>5, <2>1
  <2>2. CASE s \notin cut
    BY <1>1, <1>3, <1>5, <2>2, HasConcat
  <2>3. QED
    BY <2>1, <2>2
<1>7. toMaster' \in [Slaves -> Seq(MasterMessages)] /\ \A x \in Slaves \ {s} : toMaster'[x] = toMaster[x]
  BY <1>1, <1>6
<1>8. /\ \A f : Answered(s, f)' => Answered(s, f) \/ \E e \in Submited(s) : e[1] = f
      /\ \A f : Answered(s, f) \/ (s \notin cut /\ \E e \in Submited(s) : e[1] = f)
                  => Answered(s, f)'
  BY <1>4, <1>6, NextWay DEF Answered
<1>9. \A f : /\ Once(toMaster[s], Message("RESULT", f))
             /\ ~Answered(s, f) \/ \A e \in Submited(s) : e[1] # f
             => Once(toMaster[s], Message("RESULT", f))'
  BY <1>4, <1>6, NextWay DEF Answered
<1>10. QED
  BY <1>1, <1>7, <1>8, <1>9

(* ThreadDoAffairs: a worker becomes a RESULT.                               *)
LEMMA AffairsWay ==
  ASSUME CrotonInv, NEW s \in Slaves, Heartbeat(s) \/ Process(s)
  PROVE  SlaveTypes' /\ DownIsEmpty' /\ WayInv'
<1> USE DEF CrotonInv, SlaveTypes
<1>1. /\ UNCHANGED <<conn, cut, toSlave, proc, worker, uploaded, hasty, faults, sent, stale>>
      /\ proc[s] = "Logined"
  BY DEF Heartbeat, Process, Master!HeartbeatRequest, Master!histVars, masterVars, netVars,
     slaveVars
<1>2. \A x \in Slaves, f \in LittleTasks : Owes(x, f)' <=> Owes(x, f)
  BY <1>1 DEF Owes
<1>3. toMaster[s] \in Seq(MasterMessages)
      /\ \A f \in LittleTasks : Once(toMaster[s], Message("RESULT", f))
                             /\ Once(toSlave[s], Message("TASK", f))
  BY DEF WayInv, WayOf
<1>4. CASE Heartbeat(s)
  <2>1. UNCHANGED <<listed, toMaster>>
    BY <1>4 DEF Heartbeat, netVars, slaveVars
  <2>2. SlaveTypes' /\ DownIsEmpty'
    BY <1>1, <2>1 DEF DownIsEmpty
  <2>3. \A x \in Slaves : WayOf(x)'
    BY <1>1, <1>2, <2>1, QuietWay DEF WayInv
  <2>4. QED
    BY <2>1, <2>2, <2>3 DEF WayInv, OneStatus
<1>5. CASE Process(s)
  <2>1. /\ listed' = [listed EXCEPT ![s] = listed[s] \ Submited(s)]
        /\ toMaster' \in [Slaves -> Seq(MasterMessages)]
        /\ \A x \in Slaves \ {s} : toMaster'[x] = toMaster[x]
    BY <1>5, ProcessFacts
  <2>2. SlaveTypes'
    <3>1. \A x \in Slaves : IsFiniteSet(listed'[x])
      BY <2>1, FS_Subset
    <3>2. QED
      BY <1>1, <2>1, <3>1
  <2>3. DownIsEmpty'
    BY <1>1, <2>1 DEF DownIsEmpty
  <2>4. \A f : /\ Running(s, f)' <=> Running(s, f) /\ \A e \in Submited(s) : e[1] # f
               /\ (\E e \in Submited(s) : e[1] = f) => Running(s, f)
    <3>1. listed'[s] = listed[s] \ Submited(s) /\ Submited(s) \subseteq listed[s]
      BY <2>1 DEF Submited
    <3>2. OneStatus
      BY DEF WayInv
    <3>3. QED
      BY <3>1, <3>2 DEF Running, OneStatus
  <2>5. \A f : /\ Tasked(s, f)' <=> Tasked(s, f)
               /\ Answered(s, f)' => Answered(s, f) \/ \E e \in Submited(s) : e[1] = f
    BY <1>1, <1>5, ProcessFacts DEF Tasked
  <2>6. \A f \in LittleTasks : Once(toSlave[s], Message("TASK", f))'
                            /\ Once(toMaster[s], Message("RESULT", f))'
    <3>1. \A f \in LittleTasks : Answered(s, f) => ~Running(s, f)
      BY DEF WayInv, WayOf
    <3>2. \A f \in LittleTasks : Once(toSlave[s], Message("TASK", f))'
      BY <1>1, <1>3, NextWay
    <3>3. QED
      BY <1>3, <1>5, <2>4, <3>1, <3>2, ProcessFacts
  <2>7. WayOf(s)'
    BY <1>2, <2>4, <2>5, <2>6 DEF WayInv, WayOf
  <2>8. OneStatus'
    BY <2>1 DEF WayInv, OneStatus
  <2>9. QED
    BY <1>1, <1>2, <2>1, <2>2, <2>3, <2>7, <2>8, OneSlaveWay
<1>6. QED
  BY <1>4, <1>5

LEMMA NextCrotonInv == CrotonInv /\ [Next]_vars => CrotonInv'
<1> SUFFICES ASSUME CrotonInv, [Next]_vars PROVE CrotonInv'
  OBVIOUS
<1>1. MasterInv'
  BY NextRefines, NextMasterInv DEF CrotonInv
<1>2. CASE Next
  BY <1>1, <1>2, ConnectCrash, HandleWay, MasterWay, ReadWay, WorkWay, AffairsWay
     DEF Next, SlaveStep, CrotonInv
<1>3. CASE UNCHANGED vars
  <2>1. UNCHANGED <<conn, cut, toMaster, toSlave, proc, worker, listed, uploaded, hasty, faults,
                  sent, stale>>
    BY <1>3 DEF vars, netVars, slaveVars, masterVars
  <2>2. SlaveTypes' /\ DownIsEmpty'
    BY <2>1 DEF CrotonInv, SlaveTypes, DownIsEmpty
  <2>3. \A s \in Slaves : WayOf(s)'
    BY <2>1, QuietWay DEF CrotonInv, WayInv, Owes
  <2>4. QED
    BY <1>1, <2>1, <2>2, <2>3 DEF CrotonInv, WayInv, OneStatus
<1>4. QED
  BY <1>2, <1>3

(* In every reachable state a little task is at most once on its way through *)
(* a slave, and a RESULT under way is one the Master expects.                *)
THEOREM CrotonInvariant == Spec => []CrotonInv
<1>1. QED
  BY InitCrotonInv, NextCrotonInv, PTL DEF Spec

(* The Master with its real slaves does nothing the Master alone could not   *)
(* do with slaves that say LOGIN, HEARTBEAT and Sucess when they like: no    *)
(* crash, reconnection or order of messages makes a slave send a RESULT for  *)
(* a little task it was not given, or a second one (TaskManager.cpp 18-48    *)
(* and SlaveController.cpp of the slave, Slave.cpp 168-189 of the Master).   *)
THEOREM CrotonRefinesMaster == Spec => ImplementsMaster
<1>1. Init => Master!Init
  BY DEF Init
<1>2. CrotonInv /\ [Next]_vars => [Master!Next]_Master!vars
  BY NextRefines
<1>3. QED
  BY <1>1, <1>2, CrotonInvariant, PTL DEF Spec, ImplementsMaster, Master!Spec

(* The channels carry only the protocol's messages, about little tasks that  *)
(* exist, and the Master's state stays within its types with real slaves.    *)
THEOREM CrotonTypeCorrect == Spec => []TypeOK
<1>1. CrotonInv => TypeOK
  <2> SUFFICES ASSUME CrotonInv PROVE TypeOK
    OBVIOUS
  <2>1. Master!TypeOK
    BY MasterFacts DEF CrotonInv
  <2>2. ASSUME NEW s \in Slaves
        PROVE  /\ \A i \in 1..Len(toMaster[s]) : toMaster[s][i] \in MasterMessages
               /\ \A i \in 1..Len(toSlave[s]) : toSlave[s][i] \in SlaveMessages
               /\ listed[s] \subseteq LittleTasks \X TaskStatus
    BY ElementOfSeq DEF CrotonInv, SlaveTypes
  <2>3. QED
    BY <2>1, <2>2 DEF TypeOK, CrotonInv, SlaveTypes, MasterMessages, SlaveMessages
<1>2. QED
  BY <1>1, CrotonInvariant, PTL

(* No little task is in the lists of two slaves: it is given away again only *)
(* after the object of the slave that held it is deleted, however slaves     *)
(* crash, time out and come back (Master TaskManager.cpp 28-52, Slave.cpp    *)
(* 15-18).                                                                   *)
THEOREM ListsNeverMeet == Spec => []ListedOnce
<1>1. CrotonInv => ListedOnce
  BY MasterFacts DEF CrotonInv, ListedOnce
<1>2. QED
  BY <1>1, CrotonInvariant, PTL
-------------------------------------------------------------------------------
(* A worker at work is in m_TaskList, or was taken for done: its RESULT is   *)
(* under way or counted, unless the connection is lost.  What is submitted,  *)
(* answered or counted was uploaded, or hasty.                               *)
WorkInv ==
    \A s \in Slaves, f \in LittleTasks :
        /\ worker[s][f] \in {"download", "upload"} =>
              Running(s, f) \/ Answered(s, f) \/ f \in reported \/ ~Reachable(s)
        /\ worker[s][f] \in {"upload", "done"} => Downloadable(f)

Backed == uploaded \cup hasty

FilesInv ==
    /\ \A s \in Slaves : \A e \in listed[s] : e[2] = "SUBMITED" => e[1] \in Backed
    /\ \A s \in Slaves, f \in LittleTasks : Answered(s, f) => f \in Backed
    /\ reported \subseteq Backed
    /\ \A f \in uploaded : Downloadable(f)

(* What a step does to the answers under way and to those counted.         *)
LEMMA AnswersStep ==
  ASSUME CrotonInv, [Next]_vars, ~(\E s \in Slaves : Process(s))
  PROVE  /\ \A s \in Slaves, f \in LittleTasks : Answered(s, f)' => Answered(s, f)
         /\ reported' \subseteq reported \cup {f \in LittleTasks : \E s \in Slaves : Answered(s, f)}
<1> USE DEF CrotonInv, SlaveTypes
<1>1. ASSUME NEW s \in Slaves, Connect(s)
      PROVE  toMaster' = [toMaster EXCEPT ![s] = Append(toMaster[s], Message("LOGIN", NoLittle))]
             /\ reported' = reported
  BY <1>1 DEF Connect, Send, Master!Accept, Master!histVars, masterVars
<1>2. CASE \E s \in Slaves : Crash(s) \/ Break(s)
  <2>1. PICK s \in Slaves : Crash(s) \/ Break(s)
    BY <1>2
  <2>2. PICK n \in 0..Len(toMaster[s]) :
           /\ toMaster' = [toMaster EXCEPT ![s] = SubSeq(toMaster[s], 1, n)]
           /\ reported' = reported
    BY <2>1 DEF Crash, Break, Lose, masterVars
  <2>3. \A x \in Slaves : \A m : Has(toMaster'[x], m) => Has(toMaster[x], m)
    BY <2>2, HasPrefix
  <2>4. QED
    BY <2>2, <2>3, NextWay DEF Answered
<1>3. CASE \E s \in Slaves : Connect(s)
  <2>1. PICK s \in Slaves : Connect(s)
    BY <1>3
  <2> DEFINE h == Message("LOGIN", NoLittle)
  <2>2. h \in MasterMessages /\ \A f : Message("RESULT", f) # h
    BY MessageFacts DEF MasterMessages
  <2>3. \A x \in Slaves : toMaster'[x] = IF x = s THEN Append(toMaster[s], h) ELSE toMaster[x]
    BY <1>1, <2>1
  <2> HIDE DEF h
  <2>4. \A m : Has(Append(toMaster[s], h), m) <=> Has(toMaster[s], m) \/ m = h
    BY <2>2, HasAppend
  <2>5. QED
    BY <1>1, <2>1, <2>2, <2>3, <2>4, NextWay DEF Answered
<1>4. ASSUME NEW s \in Slaves, HandleRequest(s)
      PROVE  /\ \A x \in Slaves, f \in LittleTasks : Answered(x, f)' => Answered(x, f)
             /\ reported' \subseteq reported \cup {f \in LittleTasks : \E x \in Slaves : Answered(x, f)}
  <2> DEFINE m == Head(toMaster[s])
  <2>1. /\ toMaster[s] # <<>> /\ toMaster[s] \in Seq(MasterMessages)
        /\ toMaster' = [toMaster EXCEPT ![s] = Tail(toMaster[s])]
    BY <1>4 DEF HandleRequest, Consume
  <2>2. /\ m \in MasterMessages
        /\ \A n : Has(toMaster[s], n) <=> n = m \/ Has(Tail(toMaster[s]), n)
    BY <2>1, HasTail
  <2>3. \A x \in Slaves, f \in LittleTasks : Answered(x, f)' => Answered(x, f)
    <3>1. \A x \in Slaves : toMaster'[x] = IF x = s THEN Tail(toMaster[s]) ELSE toMaster[x]
      BY <2>1
    <3>2. QED
      BY <2>2, <3>1, NextWay DEF Answered
  <2>4. reported' = reported \/ (m.type = "RESULT" /\ reported' = reported \cup {m.little})
    BY <1>4 DEF HandleRequest, Master!LoginRequest, Master!ResultSucess, Master!StaleResult,
       Master!histVars, masterVars
  <2>5. m.type = "RESULT" => m.little \in LittleTasks /\ Answered(s, m.little)
    BY <2>2, MessageFacts DEF Answered
  <2>6. QED
    BY <2>3, <2>4, <2>5
<1>5. CASE \/ \E s \in Slaves : Heartbeat(s) \/ ProcessRead(s)
                \/ \E f \in LittleTasks : Download(s, f) \/ Upload(s, f)
           \/ MasterThread \/ Tick \/ UNCHANGED vars
  <2>1. toMaster' = toMaster /\ reported' = reported
    <3>1. CASE \E s \in Slaves : Heartbeat(s) \/ ProcessRead(s)
                   \/ \E f \in LittleTasks : Download(s, f) \/ Upload(s, f)
      BY <3>1 DEF Heartbeat, ProcessRead, Download, Upload, masterVars, netVars,
         Master!HeartbeatRequest, Master!histVars
    <3>2. CASE MasterThread
      BY <3>2 DEF MasterThread, MasterDoTask, MasterDeleteDead, MasterStep, netVars,
         Master!DoTask, Master!DeleteDead, Master!ReadTick, Master!CheckTimeOut,
         Master!GetIdleSlave, Master!GetLittleTask, Master!PushTask, Master!UpdateTask,
         Master!histVars
    <3>3. CASE Tick \/ UNCHANGED vars
      BY <3>3 DEF Tick, vars, netVars, masterVars, Master!Tick, Master!histVars
    <3>4. QED
      BY <1>5, <3>1, <3>2, <3>3
  <2>2. \A s \in Slaves, f \in LittleTasks : Answered(s, f)' <=> Answered(s, f)
    BY <2>1 DEF Answered
  <2>3. QED
    BY <2>1, <2>2
<1>6. QED
  BY <1>2, <1>3, <1>4, <1>5 DEF Next, SlaveStep

(* An answer is under way only for what was listed as submitted.           *)
LEMMA AnswersCome ==
  ASSUME CrotonInv, [Next]_vars
  PROVE  /\ \A s \in Slaves, f \in LittleTasks :
               Answered(s, f)' => \/ Answered(s, f)
                                  \/ \E e \in listed[s] : e[1] = f /\ e[2] = "SUBMITED"
         /\ reported' \subseteq reported \cup {f \in LittleTasks : \E s \in Slaves : Answered(s, f)}
<1>1. ASSUME NEW s \in Slaves, Process(s)
      PROVE  \A x \in Slaves, f \in LittleTasks :
                Answered(x, f)' => \/ Answered(x, f)
                                   \/ \E e \in listed[x] : e[1] = f /\ e[2] = "SUBMITED"
  <2>1. \A f : Answered(s, f)' => Answered(s, f) \/ \E e \in Submited(s) : e[1] = f
    BY <1>1, ProcessFacts
  <2>2. \A x \in Slaves \ {s} : toMaster'[x] = toMaster[x]
    BY <1>1, ProcessFacts
  <2>3. QED
    BY <2>1, <2>2, NextWay DEF Answered, Submited
<1>2. ASSUME NEW s \in Slaves, Process(s)
      PROVE  reported' = reported
  BY <1>2 DEF Process, masterVars
<1>3. QED
  BY <1>1, <1>2, AnswersStep

(* Handling a message loses no TASK, and a RESULT only by counting it.      *)
LEMMA HandleFacts ==
  ASSUME CrotonInv, NEW x \in Slaves, HandleRequest(x), NEW s \in Slaves, NEW f \in LittleTasks
  PROVE  /\ Tasked(s, f) => Tasked(s, f)'
         /\ Answered(s, f) => Answered(s, f)' \/ f \in reported'
<1> USE DEF CrotonInv, SlaveTypes
<1> DEFINE m == Head(toMaster[x])
<1>1. /\ toMaster[x] # <<>> /\ toMaster[x] \in Seq(MasterMessages)
      /\ toMaster' = [toMaster EXCEPT ![x] = Tail(toMaster[x])]
  BY DEF HandleRequest, Consume
<1>2. /\ m \in MasterMessages
      /\ \A n : Has(toMaster[x], n) <=> n = m \/ Has(Tail(toMaster[x]), n)
  BY <1>1, HasTail
<1>3. Tasked(s, f) => Tasked(s, f)'
  <2>1. CASE toSlave' = toSlave
    BY <2>1 DEF Tasked
  <2>2. CASE Send(toSlave, x, LoginAnswer(x))
    <3>1. LoginAnswer(x) \in SlaveMessages
      BY DEF LoginAnswer, SlaveMessages
    <3>2. \A y \in Slaves : toSlave'[y] = IF y = x THEN Append(toSlave[x], LoginAnswer(x))
                                                ELSE toSlave[y]
      BY <2>2 DEF Send
    <3>3. \A n : Has(toSlave[x], n) => Has(Append(toSlave[x], LoginAnswer(x)), n)
      BY <3>1, HasAppend
    <3>4. QED
      BY <3>2, <3>3, NextWay DEF Tasked
  <2>3. QED
    BY <2>1, <2>2 DEF HandleRequest
<1>4. Answered(s, f) => Answered(s, f)' \/ f \in reported'
  <2>1. m.type = "RESULT" => m.little \in reported'
    BY DEF HandleRequest, Master!ResultSucess, Master!StaleResult
  <2>2. m = Message("RESULT", f) => m.type = "RESULT" /\ m.little = f
    BY MessageFacts
  <2> HIDE DEF m
  <2>3. \A y \in Slaves : toMaster'[y] = IF y = x THEN Tail(toMaster[x]) ELSE toMaster[y]
    BY <1>1
  <2>4. QED
    BY <1>2, <2>1, <2>2, <2>3, NextWay DEF Answered
<1>5. QED
  BY <1>3, <1>4

(* An answer under way is counted, or lost with the process or connection. *)
LEMMA AnswersLast ==
  ASSUME CrotonInv, [Next]_vars, NEW s \in Slaves, NEW f \in LittleTasks
  PROVE  /\ Answered(s, f) => Answered(s, f)' \/ f \in reported' \/ ~Reachable(s)'
         /\ reported \subseteq reported'
         /\ ~Reachable(s) => ~Reachable(s)' \/ proc[s] = "down"
<1> USE DEF CrotonInv, SlaveTypes
<1>1. ASSUME NEW x \in Slaves, HandleRequest(x)
      PROVE  /\ Answered(s, f) => Answered(s, f)' \/ f \in reported'
             /\ reported \subseteq reported' /\ UNCHANGED <<proc, cut>>
  <2>1. reported \subseteq reported' /\ UNCHANGED <<proc, cut>>
    BY <1>1 DEF HandleRequest, Master!LoginRequest, Master!ResultSucess, Master!StaleResult,
       Master!histVars, masterVars, slaveVars
  <2>2. QED
    BY <1>1, <2>1, HandleFacts
<1>2. ASSUME NEW x \in Slaves, Process(x)
      PROVE  (Answered(s, f) => Answered(s, f)') /\ UNCHANGED <<reported, proc, cut>>
  <2>1. UNCHANGED <<reported, proc, cut>>
    BY <1>2 DEF Process, masterVars
  <2>2. CASE s = x
    BY <1>2, <2>1, <2>2, ProcessFacts
  <2>3. CASE s # x
    <3>1. toMaster'[s] = toMaster[s]
      BY <1>2, <2>3, ProcessFacts
    <3>2. QED
      BY <2>1, <3>1, NextWay DEF Answered
  <2>4. QED
    BY <2>2, <2>3
<1>3. ASSUME NEW x \in Slaves, Connect(x)
      PROVE  /\ Answered(s, f) => Answered(s, f)'
             /\ reported' = reported /\ (~Reachable(s) => ~Reachable(s)' \/ proc[s] = "down")
  <2>1. /\ toMaster[x] = <<>> /\ proc[x] = "down" /\ reported' = reported
        /\ \A y \in Slaves \ {x} : /\ toMaster'[y] = toMaster[y] /\ proc'[y] = proc[y]
                                   /\ y \in cut' <=> y \in cut
    BY <1>3 DEF Connect, Send, Master!Accept, Master!histVars, masterVars
  <2>2. s = x => ~Answered(s, f)
    BY <2>1 DEF Answered, Has
  <2>3. s # x => (Answered(s, f) => Answered(s, f)')
    BY <2>1, NextWay DEF Answered
  <2>4. QED
    BY <2>1, <2>2, <2>3 DEF Reachable
<1>4. ASSUME NEW x \in Slaves, Crash(x) \/ Break(x)
      PROVE  /\ Answered(s, f) => Answered(s, f)' \/ ~Reachable(s)'
             /\ reported' = reported /\ (~Reachable(s) => ~Reachable(s)')
  <2>1. /\ reported' = reported /\ ~Reachable(x)'
        /\ \A y \in Slaves \ {x} : /\ toMaster'[y] = toMaster[y] /\ proc'[y] = proc[y]
                                   /\ y \in cut' <=> y \in cut
    BY <1>4 DEF Crash, Break, Lose, Reachable, masterVars
  <2>2. s # x => (Answered(s, f) => Answered(s, f)')
    BY <2>1, NextWay DEF Answered
  <2>3. QED
    BY <2>1, <2>2 DEF Reachable
<1>5. ASSUME NEW x \in Slaves, ProcessRead(x)
      PROVE  UNCHANGED <<toMaster, reported>> /\ (~Reachable(s) => ~Reachable(s)')
  <2>1. UNCHANGED <<toMaster, reported, cut>> /\ proc[x] # "down"
        /\ \A y \in Slaves \ {x} : proc'[y] = proc[y]
    BY <1>5 DEF ProcessRead, masterVars
  <2>2. QED
    BY <2>1 DEF Reachable
<1>6. ASSUME \/ \E x \in Slaves : Heartbeat(x) \/ \E g \in LittleTasks : Download(x, g) \/ Upload(x, g)
             \/ MasterThread \/ Tick \/ UNCHANGED vars
      PROVE  UNCHANGED <<toMaster, reported, proc, cut>>
  <2>1. CASE \E x \in Slaves : Heartbeat(x) \/ \E g \in LittleTasks : Download(x, g) \/ Upload(x, g)
    BY <2>1 DEF Heartbeat, Download, Upload, masterVars, netVars, slaveVars,
       Master!HeartbeatRequest, Master!histVars
  <2>2. CASE MasterThread
    BY <2>2 DEF MasterThread, MasterDoTask, MasterDeleteDead, MasterStep, netVars, slaveVars,
       Master!DoTask, Master!DeleteDead, Master!ReadTick, Master!CheckTimeOut,
       Master!GetIdleSlave, Master!GetLittleTask, Master!PushTask, Master!UpdateTask,
       Master!histVars
  <2>3. CASE Tick \/ UNCHANGED vars
    BY <2>3 DEF Tick, vars, netVars, slaveVars, masterVars, Master!Tick, Master!histVars
  <2>4. QED
    BY <1>6, <2>1, <2>2, <2>3
<1>7. QED
  BY <1>1, <1>2, <1>3, <1>4, <1>5, <1>6 DEF Next, SlaveStep, Answered, Reachable

(* What a step does to workers and their list.  Only an upload    *)
(* that was done, or memory that said so, makes an entry SUBMITED; an entry  *)
(* leaves the list for its RESULT.                                           *)
LEMMA ListStep ==
  ASSUME CrotonInv, [Next]_vars, NEW s \in Slaves, NEW f \in LittleTasks
  PROVE  /\ worker'[s][f] \in {"download", "upload"} =>
               worker[s][f] \in {"download", "upload"} \/ Running(s, f)'
         /\ worker'[s][f] \in {"upload", "done"} =>
               worker[s][f] \in {"upload", "done"} \/ Downloadable(f)
         /\ Running(s, f) => Running(s, f)' \/ Answered(s, f)' \/ ~Reachable(s)'
         /\ \A e \in listed'[s] : e[2] = "SUBMITED" => e \in listed[s] \/ e[1] \in Backed'
<1> USE DEF CrotonInv, SlaveTypes
<1> DEFINE Goal ==
         /\ worker'[s][f] \in {"download", "upload"} =>
               worker[s][f] \in {"download", "upload"} \/ Running(s, f)'
         /\ worker'[s][f] \in {"upload", "done"} =>
               worker[s][f] \in {"upload", "done"} \/ Downloadable(f)
         /\ Running(s, f) => Running(s, f)' \/ Answered(s, f)' \/ ~Reachable(s)'
         /\ \A e \in listed'[s] : e[2] = "SUBMITED" => e \in listed[s] \/ e[1] \in Backed'
<1>1. CASE UNCHANGED <<worker, listed, uploaded, hasty>>
  BY <1>1 DEF Running
<1>2. ASSUME NEW x \in Slaves, Process(x)
      PROVE  Goal
  <2>1. /\ listed' = [listed EXCEPT ![x] = listed[x] \ Submited(x)]
        /\ UNCHANGED <<worker, uploaded, hasty, cut>>
    BY <1>2 DEF Process
  <2>2. Running(s, f) => Running(s, f)' \/ Answered(s, f)' \/ ~Reachable(s)'
    <3>1. CASE s = x
      <4>1. s \notin cut /\ (\E e \in Submited(s) : e[1] = f) => Answered(s, f)'
        BY <1>2, <3>1, ProcessFacts
      <4>2. Running(s, f) => Running(s, f)' \/ \E e \in Submited(s) : e[1] = f
        BY <2>1, <3>1 DEF Running
      <4>3. QED
        BY <2>1, <4>1, <4>2 DEF Reachable
    <3>2. CASE s # x
      BY <2>1, <3>2 DEF Running
    <3>3. QED
      BY <3>1, <3>2
  <2>3. QED
    BY <2>1, <2>2
<1>3. ASSUME NEW x \in Slaves, Crash(x)
      PROVE  Goal
  <2>1. /\ worker' = [worker EXCEPT ![x] = [g \in LittleTasks |-> "none"]]
        /\ listed' = [listed EXCEPT ![x] = {}] /\ UNCHANGED <<uploaded, hasty>>
        /\ ~Reachable(x)'
    BY <1>3 DEF Crash, Reachable
  <2>2. QED
    BY <2>1 DEF Running
<1>4. ASSUME NEW x \in Slaves, ProcessRead(x), ~UNCHANGED <<worker, listed, uploaded, hasty>>
      PROVE  Goal
  <2> DEFINE m == Head(toSlave[x])
  <2>1. m.type = "TASK" /\ AddTask(x, m.little) /\ uploaded' = uploaded
    BY <1>4 DEF ProcessRead
  <2>2. m.little \in LittleTasks
    <3>1. toSlave[x] # <<>> /\ toSlave[x] \in Seq(SlaveMessages)
      BY <1>4 DEF ProcessRead
    <3>2. QED
      BY <2>1, <3>1, HasTail, MessageFacts
  <2>3. PICK g \in LittleTasks, v \in TaskStatus :
           /\ worker' = [worker EXCEPT ![x][g] = "download"]
           /\ listed' = [listed EXCEPT ![x] = @ \cup {<<g, v>>}]
           /\ hasty' = IF v = "SUBMITED" THEN hasty \cup {g} ELSE hasty
    BY <2>1, <2>2 DEF AddTask, InitialStatus, TaskStatus
  <2> DEFINE n == <<g, v>>
  <2>4. n[1] = g /\ n[2] = v
    OBVIOUS
  <2>5. \A y \in Slaves : listed'[y] = IF y = x THEN listed[y] \cup {n} ELSE listed[y]
    BY <2>3
  <2>6. worker'[s][f] = IF s = x /\ f = g THEN "download" ELSE worker[s][f]
    BY <2>3
  <2> HIDE DEF n
  <2>7. Running(s, f) => Running(s, f)'
    BY <2>5 DEF Running
  <2>8. s = x /\ f = g => Running(s, f)'
    BY <2>4, <2>5 DEF Running
  <2>9. \A e \in listed'[s] : e[2] = "SUBMITED" => e \in listed[s] \/ e[1] \in Backed'
    BY <2>3, <2>4, <2>5 DEF Backed
  <2>10. hasty \subseteq hasty'
    BY <2>3
  <2>11. QED
    BY <2>1, <2>6, <2>7, <2>8, <2>9, <2>10
<1>5. ASSUME NEW x \in Slaves, NEW g \in LittleTasks, Download(x, g) \/ Upload(x, g)
      PROVE  Goal
  <2>1. PICK v \in {"PROCESSED", "SUBMITED"} :
           /\ listed' = listed \/ SetStatus(x, g, v)
           /\ v = "SUBMITED" => g \in uploaded'
    BY <1>5 DEF Download, Upload
  <2>2. v \in TaskStatus
    BY DEF TaskStatus
  <2>3. /\ hasty' = hasty /\ uploaded \subseteq uploaded'
        /\ uploaded' \subseteq uploaded \cup {h \in {g} : worker[x][h] = "upload"}
    BY <1>5 DEF Download, Upload
  <2>4. /\ \A e \in listed'[s] : e \in listed[s] \/ (s = x /\ e = <<g, v>>)
        /\ Running(s, f)' <=> Running(s, f)
    <3>1. CASE listed' = listed
      BY <3>1 DEF Running
    <3>2. CASE SetStatus(x, g, v)
      <4>1. /\ \A y \in Slaves \ {x} : listed'[y] = listed[y]
            /\ \A e : e \in listed'[x] => e \in listed[x] \/ e = <<g, v>>
            /\ \A h : Running(x, h)' <=> Running(x, h)
        BY <2>2, <3>2, SetStatusFacts
      <4>2. CASE s = x
        BY <4>1, <4>2
      <4>3. CASE s # x
        BY <4>1, <4>3 DEF Running
      <4>4. QED
        BY <4>2, <4>3
    <3>3. QED
      BY <2>1, <3>1, <3>2
  <2>5. \A e \in listed'[s] : e[2] = "SUBMITED" => e \in listed[s] \/ e[1] \in Backed'
    <3> DEFINE n == <<g, v>>
    <3>1. n[1] = g /\ n[2] = v
      OBVIOUS
    <3> HIDE DEF n
    <3>2. \A e \in listed'[s] : e \in listed[s] \/ e = n
      BY <2>4 DEF n
    <3>3. QED
      BY <2>1, <3>1, <3>2 DEF Backed
  <2>6. /\ worker'[s][f] \in {"download", "upload"} => worker[s][f] \in {"download", "upload"}
        /\ worker'[s][f] \in {"upload", "done"} => worker[s][f] \in {"upload", "done"} \/ Downloadable(f)
    <3>1. CASE Download(x, g)
      <4>1. PICK w \in {"upload", "failed"} :
               /\ worker' = [worker EXCEPT ![x][g] = w] /\ worker[x][g] = "download"
               /\ w = "upload" => Downloadable(g)
        BY <3>1 DEF Download
      <4>2. worker'[s][f] = IF s = x /\ f = g THEN w ELSE worker[s][f]
        BY <4>1
      <4>3. QED
        BY <4>1, <4>2
    <3>2. CASE Upload(x, g)
      <4>1. PICK w \in {"done", "failed"} :
               worker' = [worker EXCEPT ![x][g] = w] /\ worker[x][g] = "upload"
        BY <3>2 DEF Upload
      <4>2. worker'[s][f] = IF s = x /\ f = g THEN w ELSE worker[s][f]
        BY <4>1
      <4>3. QED
        BY <4>1, <4>2
    <3>3. QED
      BY <1>5, <3>1, <3>2
  <2>7. QED
    BY <2>3, <2>4, <2>5, <2>6
<1>6. CASE \/ \E x \in Slaves : Connect(x) \/ Break(x) \/ HandleRequest(x) \/ Heartbeat(x)
           \/ MasterThread \/ Tick \/ UNCHANGED vars
  BY <1>1, <1>6 DEF Connect, Break, HandleRequest, Heartbeat, MasterThread, MasterDoTask,
     MasterDeleteDead, MasterStep, Tick, vars, slaveVars
<1>7. QED
  BY <1>1, <1>2, <1>3, <1>4, <1>5, <1>6 DEF Next, SlaveStep

(* Files and histories only grow; an upload under way brings a new file.    *)
LEMMA StepsGrow ==
  ASSUME [Next]_vars
  PROVE  /\ uploaded \subseteq uploaded' /\ hasty \subseteq hasty'
         /\ uploaded' \subseteq uploaded \cup
                {f \in LittleTasks : \E s \in Slaves : worker[s][f] = "upload"}
<1>1. CASE \E s \in Slaves : ProcessRead(s) \/ \E f \in LittleTasks : Download(s, f) \/ Upload(s, f)
  <2>1. ASSUME NEW s \in Slaves, ProcessRead(s) PROVE uploaded' = uploaded /\ hasty \subseteq hasty'
    BY <2>1 DEF ProcessRead, AddTask
  <2>2. ASSUME NEW s \in Slaves, NEW f \in LittleTasks, Download(s, f) \/ Upload(s, f)
        PROVE  /\ uploaded \subseteq uploaded' /\ hasty' = hasty
               /\ uploaded' \subseteq uploaded \cup {g \in {f} : worker[s][g] = "upload"}
    BY <2>2 DEF Download, Upload
  <2>3. QED
    BY <1>1, <2>1, <2>2
<1>2. CASE \/ \E s \in Slaves : \/ Connect(s) \/ Crash(s) \/ Break(s) \/ HandleRequest(s)
                            \/ Heartbeat(s) \/ Process(s)
           \/ MasterThread \/ Tick \/ UNCHANGED vars
  BY <1>2 DEF Connect, Crash, Break, HandleRequest, Heartbeat, Process, MasterThread, MasterDoTask,
     MasterDeleteDead, MasterStep, Tick, vars, slaveVars
<1>3. QED
  BY <1>1, <1>2 DEF Next, SlaveStep

(* A worker at work stays listed until its RESULT goes.                     *)
LEMMA WorkKept ==
  ASSUME CrotonInv, WorkInv, [Next]_vars
  PROVE  WorkInv'
<1> SUFFICES ASSUME NEW s \in Slaves, NEW f \in LittleTasks
             PROVE  /\ worker'[s][f] \in {"download", "upload"} =>
                          \/ Running(s, f)' \/ Answered(s, f)'
                          \/ f \in reported' \/ ~Reachable(s)'
                    /\ worker'[s][f] \in {"upload", "done"} => Downloadable(f)
  BY DEF WorkInv, Downloadable
<1>1. proc[s] = "down" => worker[s][f] = "none"
  BY DEF CrotonInv, DownIsEmpty
<1>2. worker[s][f] \in {"download", "upload"} =>
         Running(s, f) \/ Answered(s, f) \/ f \in reported \/ ~Reachable(s)
  BY DEF WorkInv
<1>3. worker[s][f] \in {"upload", "done"} => Downloadable(f)
  BY DEF WorkInv
<1>4. QED
  BY <1>1, <1>2, <1>3, AnswersLast, ListStep

(* What is listed as submitted, answered or counted stays backed by a file. *)
LEMMA FilesKept ==
  ASSUME CrotonInv, WorkInv, FilesInv, [Next]_vars
  PROVE  FilesInv'
<1>1. \A s \in Slaves, f \in LittleTasks : \A e \in listed'[s] :
         e[2] = "SUBMITED" => e \in listed[s] \/ e[1] \in Backed'
  BY ListStep
<1>2. Backed \subseteq Backed'
  BY StepsGrow DEF Backed
<1>3. \A s \in Slaves : \A e \in listed'[s] : e[2] = "SUBMITED" => e[1] \in Backed'
  <2> SUFFICES ASSUME NEW s \in Slaves, NEW e \in listed'[s], e[2] = "SUBMITED"
               PROVE  e[1] \in Backed'
    OBVIOUS
  <2>1. e[1] \in LittleTasks
    BY NextCrotonInv DEF CrotonInv, SlaveTypes
  <2>2. QED
    BY <1>1, <1>2, <2>1 DEF FilesInv
<1>4. \A s \in Slaves, f \in LittleTasks : Answered(s, f)' => f \in Backed'
  BY <1>2, AnswersCome DEF FilesInv
<1>5. reported' \subseteq Backed'
  <2> SUFFICES ASSUME NEW f \in reported' PROVE f \in Backed'
    OBVIOUS
  <2>1. f \in Backed
    BY AnswersCome DEF FilesInv
  <2>2. QED
    BY <1>2, <2>1
<1>6. \A f \in uploaded' : Downloadable(f)
  BY StepsGrow DEF FilesInv, WorkInv
<1>7. QED
  BY <1>3, <1>4, <1>5, <1>6 DEF FilesInv, Downloadable
-------------------------------------------------------------------------------
(* A place in a list, or one that PushTask is about to make.               *)
Placed(s, f) == f \in Master!Listed(s) \/ (at = "push" /\ curSlave = s /\ little = f)

(* Why slave s may hold the place of f: PlaceHasReason's reasons.            *)
Reason(s, f) ==
    \/ Tasked(s, f)
    \/ worker[s][f] \in {"download", "upload", "failed"}
    \/ <<f, "SUBMITED">> \in listed[s]
    \/ Answered(s, f)
    \/ f \in reported

ReasonInv ==
    \A s \in Slaves, f \in LittleTasks :
        Placed(s, f) /\ Reachable(s) /\ conn[s] = "own" => Reason(s, f)

(* But for DoTask no step of the Master makes a place.                       *)
LEMMA PlacesLeft ==
  ASSUME CrotonInv, [Master!Next]_Master!vars, ~Master!DoTask,
         NEW s \in Slaves, NEW f \in LittleTasks, Placed(s, f)'
  PROVE  Placed(s, f)
<1> USE DEF Placed, Master!Listed
<1>1. Master!TypeOK
  BY MasterFacts DEF CrotonInv
<1>2. CASE \/ \E x \in Slaves : Master!Accept(x) \/ Master!LoginRequest(x) \/ Master!HeartbeatRequest(x)
           \/ \E x \in Slaves, g \in Master!LittleTasks :
                 \/ Master!ResultSucess(x, g) \/ Master!StaleResult(x, g)
           \/ Master!Tick \/ UNCHANGED Master!vars
  <2>1. UNCHANGED <<at, curSlave, little>>
    BY <1>2 DEF Master!Accept, Master!LoginRequest, Master!HeartbeatRequest, Master!ResultSucess,
       Master!StaleResult, Master!Tick, Master!threadVars, Master!vars
  <2>2. taskList'[s] \subseteq taskList[s]
    BY <1>1, <1>2 DEF Master!Accept, Master!LoginRequest, Master!HeartbeatRequest,
       Master!ResultSucess, Master!StaleResult, Master!Tick, Master!objVars, Master!vars, Master!TypeOK
  <2>3. QED
    BY <2>1, <2>2
<1>3. CASE Master!ReadTick \/ Master!CheckTimeOut \/ Master!GetIdleSlave \/ Master!GetLittleTask
           \/ Master!UpdateTask
  <2>1. taskList' = taskList
    BY <1>3 DEF Master!ReadTick, Master!CheckTimeOut, Master!GetIdleSlave, Master!GetLittleTask,
       Master!UpdateTask, Master!objVars
  <2>2. at' # "push"
    BY <1>3 DEF Master!ReadTick, Master!ToSlave, Master!ToTask, Master!CheckTimeOut,
       Master!GetIdleSlave, Master!GetLittleTask, Master!UpdateTask
  <2>3. QED
    BY <2>1, <2>2
<1>4. CASE Master!DeleteDead
  <2>1. taskList'[s] \subseteq taskList[s] /\ at' # "push"
    BY <1>1, <1>4 DEF Master!DeleteDead, Master!objVars, Master!TypeOK
  <2>2. QED
    BY <2>1
<1>5. CASE Master!PushTask
  <2> DEFINE n == <<Master!FreeEntry(curSlave), little>>
  <2>1. taskList' = [taskList EXCEPT ![curSlave] = @ \cup {n}] /\ at' = "idle" /\ at = "push"
    BY <1>5 DEF Master!PushTask
  <2>2. n[2] = little
    OBVIOUS
  <2>3. \A e \in taskList'[s] : e \in taskList[s] \/ (s = curSlave /\ e = n)
    BY <1>1, <2>1 DEF Master!TypeOK
  <2> HIDE DEF n
  <2>4. QED
    BY <2>1, <2>2, <2>3
<1>6. QED
  BY <1>2, <1>3, <1>4, <1>5 DEF Master!Next, Master!Receive, Master!ThreadProcess

(* A step that ends one reason begins the next.                              *)
LEMMA ReasonKept ==
  ASSUME CrotonInv, WorkInv, ReasonInv, [Next]_vars
  PROVE  ReasonInv'
<1> USE DEF CrotonInv, SlaveTypes
<1> SUFFICES ASSUME NEW s \in Slaves, NEW f \in LittleTasks,
                    Placed(s, f)', Reachable(s)', conn'[s] = "own"
             PROVE  Reason(s, f)'
  BY DEF ReasonInv
<1> DEFINE Before == Placed(s, f) /\ Reachable(s) /\ conn[s] = "own"
<1>1. [Master!Next]_Master!vars
  BY NextRefines
<1>2. Before => Reason(s, f)
  BY DEF ReasonInv
<1>3. CASE \/ \E x \in Slaves : Heartbeat(x) \/ HandleRequest(x)
           \/ MasterDeleteDead \/ MasterStep \/ Tick \/ UNCHANGED vars
  <2>1. /\ UNCHANGED <<proc, worker, listed, cut>>
        /\ conn'[s] = conn[s] \/ conn'[s] = "deleted"
        /\ reported \subseteq reported'
    <3>1. CASE \E x \in Slaves : Heartbeat(x) \/ HandleRequest(x)
      BY <3>1 DEF Heartbeat, HandleRequest, slaveVars, netVars, masterVars, Master!LoginRequest,
         Master!HeartbeatRequest, Master!ResultSucess, Master!StaleResult, Master!histVars
    <3>2. CASE MasterDeleteDead
      BY <3>2 DEF MasterDeleteDead, slaveVars, Master!DeleteDead
    <3>3. CASE MasterStep \/ Tick \/ UNCHANGED vars
      BY <3>3 DEF MasterStep, Tick, vars, slaveVars, netVars, masterVars, Master!Tick,
         Master!ReadTick, Master!CheckTimeOut, Master!GetIdleSlave, Master!GetLittleTask,
         Master!PushTask, Master!UpdateTask, Master!histVars
    <3>4. QED
      BY <1>3, <3>1, <3>2, <3>3
  <2>2. ~Master!DoTask
    <3>1. CASE \E x \in Slaves : Heartbeat(x) \/ HandleRequest(x)
      BY <3>1 DEF Heartbeat, HandleRequest, masterVars, Master!LoginRequest,
         Master!HeartbeatRequest, Master!ResultSucess, Master!StaleResult, Master!threadVars,
         Master!DoTask
    <3>2. CASE MasterDeleteDead
      BY <3>2 DEF MasterDeleteDead, Master!DeleteDead, Master!DoTask
    <3>3. CASE MasterStep \/ Tick \/ UNCHANGED vars
      BY <3>3 DEF MasterStep, Tick, vars, masterVars, Master!Tick,
         Master!ReadTick, Master!CheckTimeOut, Master!GetIdleSlave, Master!GetLittleTask,
         Master!PushTask, Master!UpdateTask, Master!DoTask
    <3>4. QED
      BY <1>3, <3>1, <3>2, <3>3
  <2>3. Reason(s, f)
    BY <1>1, <1>2, <2>1, <2>2, PlacesLeft DEF Reachable
  <2>4. /\ Tasked(s, f) => Tasked(s, f)'
        /\ Answered(s, f) => Answered(s, f)' \/ f \in reported'
    <3>1. ASSUME NEW x \in Slaves, HandleRequest(x)
          PROVE  /\ Tasked(s, f) => Tasked(s, f)'
                 /\ Answered(s, f) => Answered(s, f)' \/ f \in reported'
      BY <3>1, HandleFacts
    <3>2. CASE \E x \in Slaves : Heartbeat(x)
      <4>1. toSlave' = toSlave /\ toMaster' = toMaster
        BY <3>2 DEF Heartbeat, netVars
      <4>2. QED
        BY <4>1 DEF Tasked, Answered
    <3>3. CASE MasterDeleteDead \/ MasterStep \/ Tick \/ UNCHANGED vars
      <4>1. toSlave' = toSlave /\ toMaster' = toMaster
        BY <3>3 DEF MasterDeleteDead, MasterStep, Tick, vars, netVars
      <4>2. QED
        BY <4>1 DEF Tasked, Answered
    <3>4. QED
      BY <1>3, <3>1, <3>2, <3>3
  <2>5. QED
    BY <2>1, <2>3, <2>4 DEF Reason
<1>4. CASE MasterDoTask
  <2>1. /\ UNCHANGED <<proc, conn, cut, toMaster, worker, listed, reported>>
        /\ UNCHANGED <<taskList, curSlave>> /\ Master!DoTask
    BY <1>4 DEF MasterDoTask, Master!DoTask, Master!objVars, slaveVars
  <2>2. CASE Placed(s, f)
    <3>1. Reason(s, f)
      BY <1>2, <2>1, <2>2 DEF Reachable
    <3>2. Tasked(s, f) => Tasked(s, f)'
      <4>1. CASE toSlave' = toSlave
        BY <4>1 DEF Tasked
      <4>2. CASE Send(toSlave, curSlave, Message("TASK", little))
        <5>1. curSlave \in Slaves /\ Message("TASK", little) \in SlaveMessages
          BY <2>1, MasterFacts DEF Master!DoTask, SlaveMessages
        <5>2. \A y \in Slaves : toSlave'[y] =
                 IF y = curSlave THEN Append(toSlave[y], Message("TASK", little)) ELSE toSlave[y]
          BY <4>2 DEF Send
        <5>3. \A n : Has(toSlave[curSlave], n)
                        => Has(Append(toSlave[curSlave], Message("TASK", little)), n)
          BY <5>1, HasAppend
        <5>4. QED
          BY <5>2, <5>3, NextWay DEF Tasked
      <4>3. QED
        BY <1>4, <4>1, <4>2 DEF MasterDoTask
    <3>3. Answered(s, f) => Answered(s, f)'
      BY <2>1 DEF Answered
    <3>4. QED
      BY <2>1, <3>1, <3>2, <3>3 DEF Reason
  <2>3. CASE ~Placed(s, f)
    <3>1. at' = "push" /\ curSlave = s /\ little = f
      BY <2>1, <2>3 DEF Placed, Master!Listed, Master!DoTask
    <3>2. Send(toSlave, s, Message("TASK", f))
      BY <1>4, <2>1, <3>1 DEF MasterDoTask, Reachable
    <3>3. toSlave'[s] = Append(toSlave[s], Message("TASK", f)) /\ Message("TASK", f) \in SlaveMessages
      BY <3>2 DEF Send, SlaveMessages
    <3>4. Has(toSlave'[s], Message("TASK", f))
      BY <3>3, HasAppend
    <3>5. QED
      BY <3>4, NextWay DEF Reason
  <2>4. QED
    BY <2>2, <2>3
<1>5. ASSUME NEW x \in Slaves, Connect(x)
      PROVE  Reason(s, f)'
  <2>1. [Master!Next]_Master!vars /\ ~Master!DoTask
    BY <1>1, <1>5 DEF Connect, masterVars, Master!Accept, Master!threadVars, Master!DoTask
  <2>2. Placed(s, f)
    BY <2>1, PlacesLeft
  <2>3. s # x
    <3> SUFFICES ASSUME s = x PROVE FALSE
      OBVIOUS
    <3>1. status[s] = "none"
      BY <1>5 DEF Connect
    <3>2. taskList'[s] = {} /\ UNCHANGED <<at, curSlave, little>>
      BY <1>5, <3>1, MasterFacts DEF Connect, Master!Accept, Master!threadVars, Master!TypeOK
    <3>3. ~Placed(s, f)'
      BY <3>1, <3>2, MasterFacts DEF Placed, Master!Listed
    <3>4. QED
      BY <3>3
  <2>4. /\ UNCHANGED <<toSlave, worker, listed, reported>>
        /\ conn'[s] = conn[s] /\ proc'[s] = proc[s] /\ toMaster'[s] = toMaster[s]
        /\ s \in cut' <=> s \in cut
    BY <1>5, <2>3 DEF Connect, Send, masterVars, Master!Accept, Master!histVars
  <2>5. (Tasked(s, f) => Tasked(s, f)') /\ (Answered(s, f) => Answered(s, f)')
    BY <2>4, NextWay DEF Tasked, Answered
  <2>6. QED
    BY <1>2, <2>2, <2>4, <2>5 DEF Reason, Reachable
<1>6. ASSUME NEW x \in Slaves, Crash(x) \/ Break(x)
      PROVE  Reason(s, f)'
  <2>1. s # x
    BY <1>6 DEF Crash, Break, Reachable
  <2>2. /\ UNCHANGED masterVars /\ UNCHANGED conn
        /\ proc'[s] = proc[s] /\ (s \in cut' <=> s \in cut)
        /\ toSlave'[s] = toSlave[s] /\ toMaster'[s] = toMaster[s]
        /\ worker'[s] = worker[s] /\ listed'[s] = listed[s]
    <3>1. CASE Crash(x)
      BY <2>1, <3>1 DEF Crash, Lose
    <3>2. CASE Break(x)
      BY <2>1, <3>2 DEF Break, Lose
    <3>3. QED
      BY <1>6, <3>1, <3>2
  <2>3. Before
    BY <2>2 DEF Placed, Master!Listed, masterVars, Reachable
  <2>4. (Tasked(s, f) => Tasked(s, f)') /\ (Answered(s, f) => Answered(s, f)')
    BY <2>2, NextWay DEF Tasked, Answered
  <2>5. QED
    BY <1>2, <2>2, <2>3, <2>4 DEF Reason, masterVars
<1>7. ASSUME NEW x \in Slaves, ProcessRead(x)
      PROVE  Reason(s, f)'
  <2> DEFINE m == Head(toSlave[x])
  <2>1. /\ UNCHANGED masterVars /\ UNCHANGED <<conn, cut, toMaster>>
        /\ toSlave[x] # <<>> /\ toSlave[x] \in Seq(SlaveMessages) /\ proc[x] # "down"
        /\ \A y \in Slaves : toSlave'[y] = IF y = x THEN Tail(toSlave[x]) ELSE toSlave[y]
        /\ proc'[s] = proc[s] \/ s = x
    BY <1>7 DEF ProcessRead, Consume
  <2>2. Before
    BY <2>1 DEF Placed, Master!Listed, masterVars, Reachable
  <2>3. /\ m \in SlaveMessages
        /\ \A n : Has(toSlave[x], n) <=> n = m \/ Has(Tail(toSlave[x]), n)
    BY <2>1, HasTail
  <2>4. Answered(s, f) => Answered(s, f)'
    BY <2>1, NextWay DEF Answered
  <2>5. Tasked(s, f) => Tasked(s, f)' \/ (s = x /\ m = Message("TASK", f))
    <3> HIDE DEF m
    <3>1. QED
      BY <2>1, <2>3, NextWay DEF Tasked
  <2>6. m.type = "TASK" => m.little \in LittleTasks
    BY <2>3, MessageFacts
  <2>7. /\ \A e \in listed[s] : e \in listed'[s]
        /\ worker'[s][f] = worker[s][f] \/ worker'[s][f] = "download"
    <3>1. CASE UNCHANGED <<worker, listed>>
      BY <3>1
    <3>2. CASE m.type = "TASK" /\ AddTask(x, m.little)
      <4>1. PICK v \in InitialStatus(x, m.little) :
               /\ worker' = [worker EXCEPT ![x][m.little] = "download"]
               /\ listed' = [listed EXCEPT ![x] = @ \cup {<<m.little, v>>}]
        BY <3>2 DEF AddTask
      <4>2. m.little \in LittleTasks
        BY <2>6, <3>2
      <4>3. worker'[s][f] = IF s = x /\ f = m.little THEN "download" ELSE worker[s][f]
        BY <4>1, <4>2
      <4>4. listed[s] \subseteq listed'[s]
        BY <4>1
      <4>5. QED
        BY <4>3, <4>4
    <3>3. QED
      BY <1>7, <3>1, <3>2 DEF ProcessRead
  <2>8. s = x /\ m = Message("TASK", f) => worker'[s][f] = "download"
    <3>1. m = Message("TASK", f) => m.type = "TASK" /\ m.little = f
      BY MessageFacts
    <3>2. m.type = "TASK" => worker' = [worker EXCEPT ![x][m.little] = "download"]
      BY <1>7, <2>3, MessageFacts DEF ProcessRead, AddTask
    <3>3. QED
      BY <3>1, <3>2
  <2>9. QED
    BY <1>2, <2>1, <2>2, <2>4, <2>5, <2>7, <2>8 DEF Reason, masterVars
<1>8. ASSUME NEW x \in Slaves, NEW g \in LittleTasks, Download(x, g) \/ Upload(x, g)
      PROVE  Reason(s, f)'
  <2>1. UNCHANGED masterVars /\ UNCHANGED netVars /\ UNCHANGED proc
    BY <1>8 DEF Download, Upload
  <2>2. Before
    BY <2>1 DEF Placed, Master!Listed, masterVars, netVars, Reachable
  <2>3. (Tasked(s, f) => Tasked(s, f)') /\ (Answered(s, f) => Answered(s, f)')
    BY <2>1 DEF Tasked, Answered, netVars
  <2>4. PICK v \in TaskStatus : listed' = listed \/ SetStatus(x, g, v)
    BY <1>8 DEF Download, Upload, TaskStatus
  <2>5. CASE s = x /\ f = g
    <3>1. CASE worker'[s][f] \in {"upload", "failed"}
      BY <3>1 DEF Reason
    <3>2. CASE Upload(s, f) /\ SetStatus(s, f, "SUBMITED")
      <4>1. worker[s][f] = "upload"
        BY <3>2 DEF Upload
      <4>2. Running(s, f) \/ Answered(s, f) \/ f \in reported
        BY <2>2, <4>1 DEF WorkInv
      <4>3. Running(s, f) => <<f, "SUBMITED">> \in listed'[s]
        BY <3>2, SetStatusFacts DEF TaskStatus
      <4>4. QED
        BY <2>1, <2>3, <4>2, <4>3 DEF Reason, masterVars
    <3>3. QED
      BY <1>8, <2>5, <3>1, <3>2 DEF Download, Upload
  <2>6. CASE <<s, f>> # <<x, g>>
    <3>1. worker'[s][f] = worker[s][f]
      BY <1>8, <2>6 DEF Download, Upload
    <3>2. <<f, "SUBMITED">> \in listed[s] => <<f, "SUBMITED">> \in listed'[s]
      BY <2>4, <2>6, SetStatusFacts
    <3>3. QED
      BY <1>2, <2>1, <2>2, <2>3, <3>1, <3>2 DEF Reason, masterVars
  <2>7. QED
    BY <2>5, <2>6
<1>9. ASSUME NEW x \in Slaves, Process(x)
      PROVE  Reason(s, f)'
  <2>1. UNCHANGED masterVars /\ UNCHANGED <<conn, cut, toSlave, proc, worker>>
    BY <1>9 DEF Process
  <2>2. Before
    BY <2>1 DEF Placed, Master!Listed, masterVars, Reachable
  <2>3. Tasked(s, f) => Tasked(s, f)'
    BY <2>1 DEF Tasked
  <2>4. CASE s = x
    <3>1. Answered(s, f) \/ (\E e \in Submited(s) : e[1] = f) => Answered(s, f)'
      BY <1>9, <2>2, <2>4, ProcessFacts DEF Reachable
    <3>2. <<f, "SUBMITED">> \in listed[s] => \E e \in Submited(s) : e[1] = f
      <4>1. <<f, "SUBMITED">>[1] = f /\ <<f, "SUBMITED">>[2] = "SUBMITED"
        OBVIOUS
      <4>2. <<f, "SUBMITED">> \in listed[s] => <<f, "SUBMITED">> \in Submited(s)
        BY <4>1 DEF Submited
      <4>3. QED
        BY <4>1, <4>2
    <3>3. QED
      BY <1>2, <2>1, <2>2, <2>3, <3>1, <3>2 DEF Reason, masterVars
  <2>5. CASE s # x
    <3>1. toMaster'[s] = toMaster[s] /\ listed'[s] = listed[s]
      BY <1>9, <2>5, ProcessFacts
    <3>2. Answered(s, f) => Answered(s, f)'
      BY <3>1, NextWay DEF Answered
    <3>3. QED
      BY <1>2, <2>1, <2>2, <2>3, <3>1, <3>2 DEF Reason, masterVars
  <2>6. QED
    BY <2>4, <2>5
<1>10. QED
  BY <1>3, <1>4, <1>5, <1>6, <1>7, <1>8, <1>9 DEF Next, SlaveStep, MasterThread
-------------------------------------------------------------------------------
(* What a task that left the Master's map says of its little tasks.        *)
CombinedInv == MP!CompletedReported /\ MP!CombinedOnlyIfReported

FileInv == WorkInv /\ FilesInv /\ ReasonInv /\ CombinedInv

LEMMA InitFileInv == Init => FileInv
<1> SUFFICES ASSUME Init PROVE FileInv
  OBVIOUS
<1>1. \A s \in Slaves : /\ toMaster[s] = <<>> /\ listed[s] = {} /\ proc[s] = "down"
                        /\ \A f \in LittleTasks : worker[s][f] = "none"
  BY DEF Init
<1>2. \A m : ~Has(<<>>, m)
  BY DEF Has
<1>3. WorkInv
  <2>1. \A s \in Slaves, f \in LittleTasks : worker[s][f] = "none"
    BY <1>1
  <2>2. QED
    BY <2>1 DEF WorkInv
<1>4. FilesInv
  BY <1>1, <1>2 DEF Init, Master!Init, FilesInv, Answered
<1>5. ReasonInv
  BY <1>1 DEF ReasonInv, Reachable
<1>6. CombinedInv
  BY DEF Init, Master!Init, CombinedInv, MP!CompletedReported, MP!CombinedOnlyIfReported,
     Master!LittleTasks, MP!LittleTasks
<1>7. QED
  BY <1>3, <1>4, <1>5, <1>6 DEF FileInv

LEMMA CombinedKept ==
  ASSUME CrotonInv, CombinedInv, [Next]_vars
  PROVE  CombinedInv'
<1>1. [Master!Next]_Master!vars
  BY NextRefines
<1>2. [MP!Next]_MP!vars
  BY <1>1, SameNext DEF Master!vars, MP!vars, Master!objVars, MP!objVars, Master!taskVars,
     MP!taskVars, Master!threadVars, MP!threadVars, Master!histVars, MP!histVars
<1>3. QED
  BY <1>2, MP!ReportedStays, CrotonAssumption
     DEF MP!AllKinds, CrotonInv, MasterInv, CombinedInv

(* In every reachable state the files behind the RESULTs exist, but for the   *)
(* workers that memory had made SUBMITED (DBFWorker.h:46), and places have    *)
(* reasons (TaskManager.cpp 51-80 of the slave).                              *)
THEOREM FilesInvariant == Spec => [](CrotonInv /\ FileInv)
<1>1. Init => CrotonInv /\ FileInv
  BY InitCrotonInv, InitFileInv
<1>2. CrotonInv /\ FileInv /\ [Next]_vars => (CrotonInv /\ FileInv)'
  BY NextCrotonInv, WorkKept, FilesKept, ReasonKept, CombinedKept DEF FileInv
<1>3. QED
  BY <1>1, <1>2, PTL DEF Spec

(* What the Master counts as reported was uploaded, or a worker of it was    *)
(* made SUBMITED by the memory it lies in (DBFWorker.cpp 8-13): no other      *)
(* interleaving of the slave's threads and the Master's, no crash and no lost *)
(* connection lets a RESULT be counted of which no file reached the ftp       *)
(* server (DBFWorker.cpp:211, TaskManager.cpp 24-33 of the slave).            *)
THEOREM ReportsAreTrue == Spec => []ReportedWasUploaded
<1>1. CrotonInv /\ FileInv => ReportedWasUploaded
  BY DEF FileInv, FilesInv, ReportedWasUploaded, Backed
<1>2. QED
  BY <1>1, FilesInvariant, PTL

(* A slave that is up and connected holds no place in its list for nothing:  *)
(* the TASK, the worker, the RESULT or its count is there.  A place is lost  *)
(* only to a worker that failed, with a broken connection, or with one the   *)
(* object was not made for (Slave.cpp 71-92 and 168-189).                     *)
THEOREM PlacesHaveReasons == Spec => []PlaceHasReason
<1>1. CrotonInv /\ FileInv => PlaceHasReason
  <2> SUFFICES ASSUME CrotonInv, FileInv, NEW s \in Slaves, NEW f \in Master!Listed(s),
                      Reachable(s), conn[s] = "own"
               PROVE  \/ Under(toSlave[s], "TASK", f)
                      \/ worker[s][f] \in {"download", "upload", "failed"}
                      \/ <<f, "SUBMITED">> \in listed[s]
                      \/ Under(toMaster[s], "RESULT", f)
                      \/ f \in reported
    BY DEF PlaceHasReason
  <2>1. f \in LittleTasks
    BY MasterFacts DEF CrotonInv, Master!TypeOK, Master!Listed, LittleTasks
  <2>2. Reason(s, f)
    BY <2>1 DEF FileInv, ReasonInv, Placed
  <2>3. QED
    BY <2>2 DEF Reason, Tasked, Answered, Has, Under
<1>2. QED
  BY <1>1, FilesInvariant, PTL

(* No big file with little tasks is combined, unless its first was reported  *)
(* for the memory a worker was made in: that little task starts at 0, which  *)
(* every DBFWorker refuses (DBFWorker.cpp:84).  This is for any number of    *)
(* slaves, crashes, lost connections and attempts.                            *)
THEOREM NothingCombined == Spec => []OnlyEmptyCombined
<1>1. CrotonInv /\ FileInv => OnlyEmptyCombined
  <2> SUFFICES ASSUME CrotonInv, FileInv, NEW t \in Tasks \ tasks, Fragments[t] # 0,
                      <<t, 0>> \notin hasty
               PROVE  FALSE
    BY DEF OnlyEmptyCombined
  <2>1. Fragments[t] \in Nat /\ 0 \in 0..Fragments[t] - 1
    BY CrotonAssumption
  <2> DEFINE f == <<t, 0>>
  <2>2. f \in {t} \X (0..Fragments[t] - 1) /\ f[2] = 0 /\ f \notin hasty
    BY <2>1
  <2> HIDE DEF f
  <2>3. f \in reported
    BY <2>2 DEF FileInv, CombinedInv, MP!CombinedOnlyIfReported
  <2>4. f \in uploaded
    BY <2>2, <2>3 DEF FileInv, FilesInv, Backed
  <2>5. f[2] > 0
    BY <2>4 DEF FileInv, FilesInv, Downloadable
  <2>6. QED
    BY <2>2, <2>5
<1>2. QED
  BY <1>1, FilesInvariant, PTL
===============================================================================
