-------------------------------- MODULE Croton --------------------------------
(***************************************************************************)
(* The Master and its slaves (directories Master and Slave), joined by TCP *)
(* connections.  The Master's steps are those of MasterScheduler; what      *)
(* there were arbitrary requests are here the messages real slaves send.   *)
(*                                                                         *)
(* A slave has three kinds of thread: libevent's loop (ProcessRead), one   *)
(* DBFWorker thread for each task, and ThreadDoAffairs, which sends the     *)
(* heartbeats and the results and is started by a successful LOGIN.        *)
(*                                                                         *)
(* A slave that connects again from an address whose Slave object is still *)
(* there shares that object, whose m_bufferevent stays the old connection. *)
(* Only messages a receiver acts on are kept: not the answers to           *)
(* HEARTBEAT, RESULT and TASK.                                             *)
(***************************************************************************)
EXTENDS Integers, Sequences, FiniteSets, SequencesExt

CONSTANTS
    Slaves, Tasks, Fragments, Capacity, Timeout, TickMod,
    Unclean,   \* <<s, f>> when memory of slave s that becomes a worker for f
               \* may hold SUBMITED where m_task_status is
    Faulty,    \* bound: the slaves that may crash or lose their connection
    MaxFaults  \* bound: how often they do, in all

VARIABLES
    status, taskList, age, tasks, taskStatus, at, curSlave, curTask, little,
    lag, sent, reported, stranded, stale,    \* the Master's
    conn,     \* conn[s]: what the latest connection of s is to the Master
    toMaster, \* toMaster[s]: messages under way on it
    toSlave,
    cut,      \* the slaves whose connection is broken, which they only log
    proc,     \* proc[s]: the slave process and its m_slave_status
    worker,   \* worker[s][f]: where the DBFWorker thread for f is
    listed,   \* listed[s]: f and m_task_status of the workers in m_TaskList
    uploaded, \* history: the little tasks whose files reached the ftp server
    hasty,    \* history: those of which some worker was SUBMITED when made
    faults    \* how often a slave crashed or a connection broke

Master == INSTANCE MasterScheduler WITH Kinds <- {"LOGIN", "HEARTBEAT", "Sucess"}

masterVars == <<status, taskList, age, tasks, taskStatus, at, curSlave, curTask,
                little, lag, sent, reported, stranded, stale>>
slaveVars == <<proc, worker, listed, uploaded, hasty, faults>>
netVars == <<conn, toMaster, toSlave, cut>>
vars == <<masterVars, netVars, slaveVars>>

LittleTasks == Master!LittleTasks
NoLittle == Master!NoLittle

ASSUME CrotonAssumption ==
    /\ Slaves \subseteq Nat \ {0} /\ Tasks \subseteq Nat \ {0}
    /\ Fragments \in [Tasks -> Nat]
    /\ Capacity \in Nat \ {0}
    /\ Timeout \in Nat /\ TickMod \in Nat /\ Timeout + 1 < TickMod
    /\ Unclean \subseteq Slaves \X LittleTasks /\ Faulty \subseteq Slaves
    /\ MaxFaults \in Nat

(* "own": the Slave object was made for this connection; "shared": it was   *)
(* made for an earlier one; "deleted": the object is gone.                 *)
ConnState == {"none", "own", "shared", "deleted"}
ProcState == {"down", "Unvested", "Logined"}
WorkerState == {"none", "download", "upload", "done", "failed"}
TaskStatus == {"INVALID_TASK", "PROCESSED", "SUBMITED"}

Message(type, f) == [type |-> type, little |-> f]

Init ==
    /\ Master!Init
    /\ conn = [s \in Slaves |-> "none"]
    /\ toMaster = [s \in Slaves |-> <<>>] /\ toSlave = [s \in Slaves |-> <<>>]
    /\ proc = [s \in Slaves |-> "down"]
    /\ worker = [s \in Slaves |-> [f \in LittleTasks |-> "none"]]
    /\ listed = [s \in Slaves |-> {}]
    /\ cut = {} /\ uploaded = {} /\ hasty = {} /\ faults = 0

Send(channel, s, m) == channel' = [channel EXCEPT ![s] = Append(@, m)]
Consume(channel, s) == channel' = [channel EXCEPT ![s] = Tail(@)]

(* All but a first part of what is under way is lost. *)
Lose(channel, s) ==
    \E n \in 0..Len(channel[s]) :
        channel' = [channel EXCEPT ![s] = SubSeq(@, 1, n)]

(* What is sent to s arrives. *)
Reachable(s) == proc[s] # "down" /\ s \notin cut
-------------------------------------------------------------------------------
(* Mutant: AddSlave replaces the object of a slave it knows. *)
ConnectAnew(s) ==
    /\ proc[s] = "down" /\ toMaster[s] = <<>>
    /\ status' = [status EXCEPT ![s] = "UNLOGIN"]
    /\ taskList' = [taskList EXCEPT ![s] = {}]
    /\ age' = [age EXCEPT ![s] = 0]
    /\ conn' = [conn EXCEPT ![s] = "own"]
    /\ proc' = [proc EXCEPT ![s] = "Unvested"]
    /\ Send(toMaster, s, Message("LOGIN", NoLittle))
    /\ UNCHANGED <<tasks, taskStatus, at, curSlave, curTask, little, lag, sent,
                   reported, stranded, stale, toSlave, worker, listed, uploaded,
                   hasty, faults>>
    /\ cut' = cut \ {s}

(* RunService: connect, and send LOGIN.  What an earlier life of the slave  *)
(* had sent has been delivered, or is lost.                                *)
Connect(s) ==
    /\ proc[s] = "down" /\ toMaster[s] = <<>>
    /\ IF status[s] = "none"
       THEN Master!Accept(s) /\ conn' = [conn EXCEPT ![s] = "own"]
       ELSE UNCHANGED masterVars /\ conn' = [conn EXCEPT ![s] = "shared"]
    /\ proc' = [proc EXCEPT ![s] = "Unvested"]
    /\ cut' = cut \ {s}
    /\ Send(toMaster, s, Message("LOGIN", NoLittle))
    /\ UNCHANGED <<toSlave, worker, listed, uploaded, hasty, faults>>

(* The process ends; so do its threads.  What has left it is still read,   *)
(* what was in its output buffer is not.                                   *)
Crash(s) ==
    /\ proc[s] # "down" /\ s \in Faulty /\ faults < MaxFaults
    /\ faults' = faults + 1
    /\ proc' = [proc EXCEPT ![s] = "down"]
    /\ worker' = [worker EXCEPT ![s] = [f \in LittleTasks |-> "none"]]
    /\ listed' = [listed EXCEPT ![s] = {}]
    /\ toSlave' = [toSlave EXCEPT ![s] = <<>>]
    /\ Lose(toMaster, s)
    /\ UNCHANGED <<masterVars, conn, cut, uploaded, hasty>>

(* The connection breaks and the process lives on.  Event_CallBack logs an  *)
(* error and ignores an end of file, and the Master has no such callback:  *)
(* neither side changes its state, and the slave never connects again.     *)
Break(s) ==
    /\ Reachable(s) /\ s \in Faulty /\ faults < MaxFaults
    /\ faults' = faults + 1
    /\ cut' = cut \cup {s}
    /\ Lose(toMaster, s) /\ Lose(toSlave, s)
    /\ UNCHANGED <<masterVars, conn, proc, worker, listed, uploaded, hasty>>
-------------------------------------------------------------------------------
(* The Master's Read_CallBack, for the first message of slave s.           *)

LoginAnswer(s) ==
    Message(IF status[s] # "LOGINED" THEN "LoginSucess" ELSE "LoginFail", NoLittle)

(* On a deleted object the handler does nothing that can be told, but for  *)
(* a RESULT, which goes to TaskManager.                                    *)
HandleRequest(s) ==
    /\ toMaster[s] # <<>>
    /\ Consume(toMaster, s)
    /\ LET m == Head(toMaster[s])
           alive == conn[s] # "deleted"
       IN  \/ /\ m.type = "LOGIN" /\ alive
              /\ Master!LoginRequest(s)
              /\ IF Reachable(s) THEN Send(toSlave, s, LoginAnswer(s))
                                 ELSE UNCHANGED toSlave
           \/ /\ m.type = "RESULT" /\ alive
              /\ Master!ResultSucess(s, m.little)
              /\ UNCHANGED toSlave
           \/ /\ m.type = "RESULT" /\ ~alive
              /\ Master!StaleResult(s, m.little)
              /\ UNCHANGED toSlave
           \/ /\ m.type # "RESULT" /\ ~alive
              /\ UNCHANGED <<masterVars, toSlave>>
    /\ UNCHANGED <<conn, cut, slaveVars>>

(* ThreadProcess.  DoTask writes to m_bufferevent, which may be a           *)
(* connection nobody reads any more.                                       *)
MasterDoTask ==
    /\ Master!DoTask
    /\ IF at' = "push" /\ conn[curSlave] = "own" /\ Reachable(curSlave)
       THEN Send(toSlave, curSlave, Message("TASK", little))
       ELSE UNCHANGED toSlave
    /\ UNCHANGED <<conn, toMaster, cut, slaveVars>>

MasterDeleteDead ==
    /\ Master!DeleteDead
    /\ conn' = IF status[curSlave] = "DEAD"
               THEN [conn EXCEPT ![curSlave] = "deleted"] ELSE conn
    /\ UNCHANGED <<toMaster, toSlave, cut, slaveVars>>

MasterStep ==
    /\ \/ Master!ReadTick \/ Master!CheckTimeOut \/ Master!GetIdleSlave
       \/ Master!GetLittleTask \/ Master!PushTask \/ Master!UpdateTask
    /\ UNCHANGED <<netVars, slaveVars>>

MasterThread == MasterDoTask \/ MasterDeleteDead \/ MasterStep

Tick == Master!Tick /\ UNCHANGED <<netVars, slaveVars>>
-------------------------------------------------------------------------------
(* The slave's ProcessRead.                                                *)

(* What m_task_status, which nobody initialises, says of a new worker: all  *)
(* values but SUBMITED are alike to who reads it.                          *)
InitialStatus(s, f) ==
    {"INVALID_TASK"} \cup (IF <<s, f>> \in Unclean THEN {"SUBMITED"} ELSE {})

(* AddTask: a worker, and its thread. *)
AddTask(s, f) ==
    \E initial \in InitialStatus(s, f) :
        /\ worker' = [worker EXCEPT ![s][f] = "download"]
        /\ listed' = [listed EXCEPT ![s] = @ \cup {<<f, initial>>}]
        /\ hasty' = IF initial = "SUBMITED" THEN hasty \cup {f} ELSE hasty

ProcessRead(s) ==
    /\ proc[s] # "down" /\ toSlave[s] # <<>>
    /\ Consume(toSlave, s)
    /\ LET m == Head(toSlave[s])
       IN  \/ m.type = "TASK" /\ AddTask(s, m.little) /\ UNCHANGED proc
           \/ /\ m.type = "LoginSucess"
              /\ proc' = [proc EXCEPT ![s] = "Logined"]
              /\ UNCHANGED <<worker, listed, hasty>>
           \/ m.type = "LoginFail" /\ UNCHANGED <<proc, worker, listed, hasty>>
    /\ UNCHANGED <<masterVars, conn, toMaster, cut, uploaded, faults>>
-------------------------------------------------------------------------------
(* DBFWorker::ThreadProcess: download, upload.  An error ends the thread.  *)

SetStatus(s, f, value) ==
    listed' = [listed EXCEPT ![s] = {IF e[1] = f THEN <<f, value>> ELSE e : e \in @}]

(* Mutant: start_pos>=0. *)
DownloadableFromZero(f) == f[2] >= 0

(* DownloadFileFragment wants start_pos > 0: never so for the first one.   *)
Downloadable(f) == f[2] > 0

Download(s, f) ==
    /\ worker[s][f] = "download"
    /\ \/ /\ Downloadable(f)
          /\ worker' = [worker EXCEPT ![s][f] = "upload"]
          /\ SetStatus(s, f, "PROCESSED")
       \/ worker' = [worker EXCEPT ![s][f] = "failed"] /\ UNCHANGED listed
    /\ UNCHANGED <<masterVars, netVars, proc, uploaded, hasty, faults>>

(* Mutant: SUBMITED is set before UploadToServer has answered. *)
UploadAssumed(s, f) ==
    /\ worker[s][f] = "upload"
    /\ \/ uploaded' = uploaded \cup {f} /\ worker' = [worker EXCEPT ![s][f] = "done"]
       \/ worker' = [worker EXCEPT ![s][f] = "failed"] /\ UNCHANGED uploaded
    /\ SetStatus(s, f, "SUBMITED")
    /\ UNCHANGED <<masterVars, netVars, proc, hasty, faults>>

Upload(s, f) ==
    /\ worker[s][f] = "upload"
    /\ \/ /\ uploaded' = uploaded \cup {f}
          /\ worker' = [worker EXCEPT ![s][f] = "done"]
          /\ SetStatus(s, f, "SUBMITED")
       \/ /\ worker' = [worker EXCEPT ![s][f] = "failed"]
          /\ UNCHANGED <<listed, uploaded>>
    /\ UNCHANGED <<masterVars, netVars, proc, hasty, faults>>
-------------------------------------------------------------------------------
(* ThreadDoAffairs.                                                        *)

(* Any time may bring a heartbeat, which says nothing but that it came: one  *)
(* under way is as one not sent yet, and is answered when it arrives.  Over *)
(* a broken connection, or to a deleted object, there is nothing to tell.  *)
Heartbeat(s) ==
    /\ proc[s] = "Logined" /\ s \notin cut /\ conn[s] # "deleted"
    /\ Master!HeartbeatRequest(s)
    /\ UNCHANGED <<netVars, slaveVars>>

Submited(s) == {e \in listed[s] : e[2] = "SUBMITED"}

(* Mutant: the task is deleted before the RESULT is built. *)
ProcessSilently(s) ==
    /\ proc[s] = "Logined" /\ Submited(s) # {}
    /\ listed' = [listed EXCEPT ![s] = @ \ Submited(s)]
    /\ UNCHANGED <<masterVars, netVars, proc, worker, uploaded, hasty, faults>>

(* TaskManager::Process: a RESULT for every submitted task, which leaves   *)
(* the list, whether the connection's buffer is still emptied or not.      *)
Process(s) ==
    /\ proc[s] = "Logined" /\ Submited(s) # {}
    /\ toMaster' = IF s \in cut THEN toMaster ELSE [toMaster EXCEPT ![s] =
          @ \o SetToSeq({Message("RESULT", e[1]) : e \in Submited(s)})]
    /\ listed' = [listed EXCEPT ![s] = @ \ Submited(s)]
    /\ UNCHANGED <<masterVars, conn, toSlave, cut, proc, worker, uploaded, hasty, faults>>
-------------------------------------------------------------------------------
SlaveStep(s) ==
    \/ ProcessRead(s) \/ Heartbeat(s) \/ Process(s)
    \/ \E f \in LittleTasks : Download(s, f) \/ Upload(s, f)

Next ==
    \/ \E s \in Slaves : 
           Connect(s) \/ Crash(s) \/ Break(s) \/ HandleRequest(s) \/ SlaveStep(s)
    \/ MasterThread \/ Tick

Spec == Init /\ [][Next]_vars

(* Every thread of the Master and of a running slave goes on.  Slaves need  *)
(* not be started, nor started again.                                      *)
Fairness ==
    /\ WF_vars(MasterThread)
    /\ \A s \in Slaves : WF_vars(HandleRequest(s)) /\ WF_vars(Process(s))

FairSpec == Spec /\ Fairness
-------------------------------------------------------------------------------
TypeOK ==
    /\ Master!TypeOK
    /\ conn \in [Slaves -> ConnState] /\ proc \in [Slaves -> ProcState]
    /\ \A s \in Slaves :
          /\ \A i \in 1..Len(toMaster[s]) :
                toMaster[s][i] \in {Message("LOGIN", NoLittle)}
                            \cup {Message("RESULT", f) : f \in LittleTasks}
          /\ \A i \in 1..Len(toSlave[s]) :
                toSlave[s][i] \in {Message("TASK", f) : f \in LittleTasks}
                 \cup {Message(k, NoLittle) : k \in {"LoginSucess", "LoginFail"}}
          /\ listed[s] \subseteq LittleTasks \X TaskStatus
    /\ worker \in [Slaves -> [LittleTasks -> WorkerState]]
    /\ uploaded \subseteq LittleTasks /\ hasty \subseteq LittleTasks
    /\ cut \subseteq Slaves /\ faults \in 0..MaxFaults

(* A little task the Master counts as reported has had its file uploaded    *)
(* (DBFWorker.cpp:211 "submitted"; TaskManager.cpp 24-33 of the slave), or  *)
(* some worker of it was made with an m_task_status that happened to say   *)
(* SUBMITED (DBFWorker.h:46): nothing else lets a report run ahead.        *)
ReportedWasUploaded == reported \subseteq uploaded \cup hasty

(* With slaves that never say Fail or EXIT a little task is in one slave's  *)
(* list at most: it is given away again only after its slave's object is    *)
(* deleted (Master TaskManager.cpp 28-52, Slave.cpp 15-18).                 *)
ListedOnce ==
    \A r, s \in Slaves :
        r # s => Master!Listed(r) \cap Master!Listed(s) = {}

(* The slaves of this repository finish no big file: the little task that   *)
(* starts at position 0 is refused by every DBFWorker (DBFWorker.cpp:84), so *)
(* none is combined but one that has no little task at all, or one whose   *)
(* first was reported for the memory its worker was made in.               *)
OnlyEmptyCombined ==
    \A t \in Tasks \ tasks : Fragments[t] = 0 \/ <<t, 0>> \in hasty

(* All that slaves and their messages can bring about the Master alone can  *)
(* do, with slaves that say LOGIN, HEARTBEAT and Sucess when they like: what *)
(* holds of MasterScheduler holds here.                                    *)
ImplementsMaster == Master!Spec

Under(channel, type, f) ==
    \E i \in 1..Len(channel) : channel[i] = Message(type, f)

(* A place in a slave's list is held for a reason: the TASK is under way,   *)
(* the slave has a worker for it whose download or upload goes on or has    *)
(* failed, or the RESULT is to be sent, under way or was counted.  Unless   *)
(* the slave is down, or its connection is broken or not the object's.     *)
PlaceHasReason ==
    \A s \in Slaves : \A f \in Master!Listed(s) :
        Reachable(s) /\ conn[s] = "own" =>
            \/ Under(toSlave[s], "TASK", f)
            \/ worker[s][f] \in {"download", "upload", "failed"}
            \/ <<f, "SUBMITED">> \in listed[s]
            \/ Under(toMaster[s], "RESULT", f)
            \/ f \in reported

(* What a slave has submitted the Master gets to know as long as the slave  *)
(* stays up and its connection lasts, over whatever object, old or deleted *)
(* (SlaveController.cpp 40-60, Slave.cpp 168-189).  Not beyond: the worker  *)
(* leaves the slave's list though its RESULT went into a dead connection.  *)
SubmitedIsReported ==
    \A s \in Slaves : \A f \in {g \in LittleTasks : Downloadable(g)} :
        (/\ worker[s][f] = "done" /\ <<f, "SUBMITED">> \in listed[s]
         /\ proc[s] = "Logined")
            ~> (f \in reported \/ ~Reachable(s))

(* An unassigned little task does not wait while a slave has room: it is    *)
(* given away, or the room is taken, or it is done (Master TaskManager.cpp  *)
(* 28-52: AssignTask's loops end, and ThreadProcess comes back to them).    *)
IdleSlaveGetsWork ==
    \A f \in LittleTasks :
        (taskStatus[f] = "UnAssigned" /\ Master!IdleSlaves # {})
            ~> (taskStatus[f] # "UnAssigned" \/ Master!IdleSlaves = {})

(* No slave stays in the map while its heartbeats are overdue for good      *)
(* (SlaveManager.h:14: Process clears away the dead slaves).               *)
SilentSlaveRemoved ==
    \A s \in Slaves : []<>(status[s] = "none" \/ age[s] <= Timeout)

(* Slave.cpp:191 of the Master: a task that failed is "given up, and        *)
(* assigned again".  So it does not stay with the slave where it failed.   *)
FailedIsAssignedAgain ==
    \A s \in Slaves : \A f \in LittleTasks :
        (worker[s][f] = "failed" /\ f \in Master!Listed(s))
            ~> (f \notin Master!Listed(s) \/ proc[s] = "down")
===============================================================================
