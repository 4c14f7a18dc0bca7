----------------------------- MODULE BigFile_proofs -----------------------------
(***************************************************************************)
(* Theorems about the cut of a big file: for every length of a file and of  *)
(* a segment.                                                              *)
(***************************************************************************)
EXTENDS BigFile, MasterScheduler_proofs

(* The numbers used below: byte b lies in segment b \div s,                *)
LEMMA SegmentOfByte ==
  ASSUME NEW s \in Nat \ {0}, NEW b \in Nat
  PROVE  \E i \in 0..b : i * s <= b /\ b < i * s + s
<1>1. PICK i \in Int : i = b \div s
  OBVIOUS
<1>2. i * s <= b /\ b < i * s + s
  BY <1>1, Z3
<1>3. i >= 0
  BY <1>1, Z3
<1>4. i <= b
  BY <1>1, <1>3, <1>2, Z3
<1>5. QED
  BY <1>2, <1>3, <1>4

(* and segments do not overlap.                                            *)
LEMMA SegmentsApart ==
  ASSUME NEW s \in Nat, NEW i \in Nat, NEW j \in Nat, i < j
  PROVE  i * s + s <= j * s
<1>1. PICK d \in Nat : j = i + 1 + d
  OBVIOUS
<1>2. j * s = i * s + s + d * s
  BY <1>1
<1>3. d * s >= 0
  OBVIOUS
<1>4. i * s \in Nat /\ d * s \in Nat
  OBVIOUS
<1>5. QED
  BY <1>2, <1>3, <1>4

(* What Decompose makes of one file, cut for cut.                          *)
LEMMA LittleTaskBytes ==
  ASSUME NEW t \in Tasks, NEW f \in LittleTasks, f[1] = t
  PROVE  /\ f = <<t, f[2]>> /\ f[2] \in Nat /\ f[2] \in 0..Length[t]
         /\ f[2] * SegmentSize \in Nat
         /\ Length[t] - f[2] * SegmentSize > 0
         /\ \A b : b \in Bytes(f) <=>
               /\ b \in 0..Length[t] - 1
               /\ f[2] * SegmentSize <= b /\ b < f[2] * SegmentSize + SegmentSize
<1>1. PICK r \in Tasks : f \in {r} \X (0..Fragments[r] - 1)
  BY DEF LittleTasks
<1>2. f = <<t, f[2]>> /\ f[2] \in 0..Fragments[t] - 1
  BY <1>1
<1>3. Length[t] \in Int /\ SegmentSize \in Nat \ {0}
  BY BigFileAssumption
<1>4. f[2] \in DOMAIN Decompose(Length[t])
  BY <1>2, BigFileAssumption
<1>5. f[2] \in 0..Length[t] /\ Length[t] - f[2] * SegmentSize > 0
  BY <1>3, <1>4 DEF Decompose
<1>6. f[2] * SegmentSize \in Nat
  BY <1>3, <1>5
<1>7. /\ Decompose(Length[t])[f[2]].start = f[2] * SegmentSize
      /\ Decompose(Length[t])[f[2]].end =
            IF Length[t] - f[2] * SegmentSize < SegmentSize
            THEN Length[t] ELSE (f[2] + 1) * SegmentSize
  BY <1>3, <1>4 DEF Decompose
<1>8. (f[2] + 1) * SegmentSize = f[2] * SegmentSize + SegmentSize
  BY <1>3, <1>5
<1>9. Bytes(f) = Decompose(Length[t])[f[2]].start..Decompose(Length[t])[f[2]].end - 1
  BY DEF Bytes
<1> DEFINE start == f[2] * SegmentSize
<1>10. \A start_, length, s \in Int : start_ >= 0 /\ length - start_ > 0 =>
         \A b : b \in start_..(IF length - start_ < s THEN length ELSE start_ + s) - 1
            <=> b \in 0..length - 1 /\ start_ <= b /\ b < start_ + s
  OBVIOUS
<1>11. \A b : b \in Bytes(f) <=>
               /\ b \in 0..Length[t] - 1
               /\ start <= b /\ b < start + SegmentSize
  <2>1. start \in Int /\ start >= 0 /\ Length[t] - start > 0
    BY <1>5, <1>6
  <2>2. Bytes(f) = start..(IF Length[t] - start < SegmentSize
                           THEN Length[t] ELSE start + SegmentSize) - 1
    BY <1>7, <1>8, <1>9
  <2> HIDE DEF start
  <2>3. QED
    BY <1>3, <1>10, <2>1, <2>2
<1>12. QED
  BY <1>2, <1>5, <1>6, <1>11

LEMMA EveryByteHasPart ==
  ASSUME NEW t \in Tasks, NEW b \in 0..Length[t] - 1
  PROVE  \E f \in LittleTasks : f[1] = t /\ b \in Bytes(f)
<1>1. Length[t] \in Int /\ SegmentSize \in Nat \ {0}
  BY BigFileAssumption
<1>2. b \in Nat
  BY <1>1
<1>3. PICK i \in 0..b : i * SegmentSize <= b /\ b < i * SegmentSize + SegmentSize
  BY <1>1, <1>2, SegmentOfByte
<1>4. i * SegmentSize \in Nat /\ i \in 0..Length[t]
  BY <1>1, <1>2
<1>5. Length[t] - i * SegmentSize > 0
  BY <1>1, <1>3, <1>4
<1>6. i \in DOMAIN Decompose(Length[t])
  BY <1>4, <1>5 DEF Decompose
<1>7. <<t, i>> \in LittleTasks
  <2>1. i \in 0..Fragments[t] - 1
    BY <1>6, BigFileAssumption
  <2>2. <<t, i>> \in {t} \X (0..Fragments[t] - 1)
    BY <2>1
  <2>3. QED
    BY <2>2 DEF LittleTasks
<1>8. b \in Bytes(<<t, i>>)
  BY <1>3, <1>7, LittleTaskBytes
<1>9. QED
  BY <1>7, <1>8

LEMMA PartsApart ==
  ASSUME NEW t \in Tasks, NEW f \in LittleTasks, NEW g \in LittleTasks,
         f[1] = t, g[1] = t, f[2] < g[2]
  PROVE  Bytes(f) \cap Bytes(g) = {}
<1>1. SegmentSize \in Nat /\ f[2] \in Nat /\ g[2] \in Nat
  BY BigFileAssumption, LittleTaskBytes
<1>2. f[2] * SegmentSize + SegmentSize <= g[2] * SegmentSize
  BY <1>1, SegmentsApart
<1>3. SUFFICES ASSUME NEW b \in Bytes(f), b \in Bytes(g)
              PROVE  FALSE
  OBVIOUS
<1>4. b < f[2] * SegmentSize + SegmentSize /\ b \in 0..Length[t] - 1
  BY LittleTaskBytes
<1>5. g[2] * SegmentSize <= b
  BY <1>3, LittleTaskBytes
<1>6. f[2] * SegmentSize \in Nat /\ g[2] * SegmentSize \in Nat /\ Length[t] \in Int
  BY LittleTaskBytes, BigFileAssumption
<1>7. QED
  BY <1>1, <1>2, <1>4, <1>5, <1>6

(* When a task is combined its reported little tasks divide the bytes of    *)
(* the file among them.                                                    *)
THEOREM CombinedCovered == Spec => []CombinedIsCovered
<1>1. CombinedOnlyIfReported => CombinedIsCovered
  <2>1. SUFFICES ASSUME CombinedOnlyIfReported, NEW t \in Tasks \ tasks
                 PROVE  /\ \A b \in 0..Length[t] - 1 :
                              \E f \in reported : f[1] = t /\ b \in Bytes(f)
                        /\ \A f \in LittleTasks :
                              f[1] = t =>
                                /\ Bytes(f) \subseteq 0..Length[t] - 1
                                /\ \A g \in LittleTasks :
                                      g[1] = t /\ g # f => Bytes(f) \cap Bytes(g) = {}
    BY DEF CombinedIsCovered
  <2>2. ASSUME NEW f \in LittleTasks, f[1] = t
        PROVE  f \in reported
    <3>1. PICK r \in Tasks : f \in {r} \X (0..Fragments[r] - 1)
      BY DEF LittleTasks
    <3>2. f \in {t} \X (0..Fragments[t] - 1)
      BY <2>2, <3>1
    <3>3. QED
      BY <2>1, <3>2 DEF CombinedOnlyIfReported
  <2>3. ASSUME NEW b \in 0..Length[t] - 1
        PROVE  \E f \in reported : f[1] = t /\ b \in Bytes(f)
    BY <2>2, <2>3, EveryByteHasPart
  <2>4. ASSUME NEW f \in LittleTasks, f[1] = t
        PROVE  Bytes(f) \subseteq 0..Length[t] - 1
    BY <2>4, LittleTaskBytes
  <2>5. ASSUME NEW f \in LittleTasks, NEW g \in LittleTasks,
               f[1] = t, g[1] = t, g # f
        PROVE  Bytes(f) \cap Bytes(g) = {}
    <3>1. f[2] < g[2] \/ g[2] < f[2]
      BY <2>5, LittleTaskBytes
    <3>2. QED
      BY <2>5, <3>1, PartsApart
  <2>6. QED
    BY <2>3, <2>4, <2>5
<1>2. QED
  BY <1>1, CombinedReported, PTL
===============================================================================
