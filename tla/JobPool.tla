------------------------------- MODULE JobPool -------------------------------
(***************************************************************************)
(* What Spider_Thread_Pool promises its one client: jobs are taken in the  *)
(* order they were pushed, each by one thread and once, a thread has one   *)
(* job at a time, and a job leaves the pool only by having been executed.  *)
(***************************************************************************)
EXTENDS Naturals, Sequences

CONSTANTS Jobs, Threads, None

VARIABLES
    waiting,    \* jobs pushed and not yet taken, oldest first
    holds,      \* holds[t]: the job thread t is executing, or None
    finished    \* jobs executed to the end

jobVars == <<waiting, holds, finished>>

Waiting == {waiting[i] : i \in 1..Len(waiting)}

Held == {holds[t] : t \in Threads} \ {None}

Init ==
    /\ waiting = <<>>
    /\ holds = [t \in Threads |-> None]
    /\ finished = {}

Submit(j) ==
    /\ j \notin Waiting \cup Held \cup finished
    /\ waiting' = Append(waiting, j)
    /\ UNCHANGED <<holds, finished>>

Start(t) ==
    /\ waiting # <<>>
    /\ holds[t] = None
    /\ holds' = [holds EXCEPT ![t] = Head(waiting)]
    /\ waiting' = Tail(waiting)
    /\ UNCHANGED finished

Finish(t) ==
    /\ holds[t] # None
    /\ holds' = [holds EXCEPT ![t] = None]
    /\ finished' = finished \cup {holds[t]}
    /\ UNCHANGED waiting

Next ==
    \/ \E j \in Jobs : Submit(j)
    \/ \E t \in Threads : Start(t) \/ Finish(t)

Spec == Init /\ [][Next]_jobVars
==============================================================================
