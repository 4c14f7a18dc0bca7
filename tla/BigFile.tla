-------------------------------- MODULE BigFile --------------------------------
(***************************************************************************)
(* DownloadBigFile's cut of a file into little tasks, over the scheduling  *)
(* of MasterScheduler.  Positions in the file are whole numbers: the code's *)
(* doubles hold those of any file exactly.                                 *)
(***************************************************************************)
EXTENDS MasterScheduler

CONSTANTS
    Length,     \* GetFileLength of each task's URL; -1 when the answer fails
    SegmentSize \* kFileSegmentSize

(* Mutant: end_pos is computed from what is left. *)
DecomposeFromLeft(length) ==
    [i \in {n \in 0..length : length - n * SegmentSize > 0} |->
        LET left == length - i * SegmentSize
        IN  [start |-> i * SegmentSize,
             end |-> IF left < SegmentSize THEN left ELSE (i + 1) * SegmentSize]]

(* Decompose: one little task for each turn of its loop, which left_length  *)
(* enters positive.                                                        *)
Decompose(length) ==
    [i \in {n \in 0..length : length - n * SegmentSize > 0} |->
        LET left == length - i * SegmentSize
        IN  [start |-> i * SegmentSize,
             end |-> IF left < SegmentSize THEN length ELSE (i + 1) * SegmentSize]]

ASSUME BigFileAssumption ==
    /\ SegmentSize \in Nat \ {0}
    /\ Length \in [Tasks -> Nat \cup {-1}]
    /\ \A t \in Tasks : DOMAIN Decompose(Length[t]) = 0..Fragments[t] - 1

(* The bytes a little task stands for; Combine gives MergeFile their number.*)
Bytes(f) == LET d == Decompose(Length[f[1]])[f[2]]
            IN  d.start..d.end - 1

(* When a task is combined each byte of its file, and none beyond, belongs  *)
(* to one little task that was reported as a success, whatever the length  *)
(* of the file is and however its parts went from slave to slave           *)
(* (DownloadBigFile.cpp 55-109, TaskManager.cpp 54-74).                     *)
CombinedIsCovered ==
    \A t \in Tasks \ tasks :
        /\ \A b \in 0..Length[t] - 1 :
              \E f \in reported : f[1] = t /\ b \in Bytes(f)
        /\ \A f \in LittleTasks :
              f[1] = t => /\ Bytes(f) \subseteq 0..Length[t] - 1
                          /\ \A g \in LittleTasks :
                                g[1] = t /\ g # f => Bytes(f) \cap Bytes(g) = {}
===============================================================================
