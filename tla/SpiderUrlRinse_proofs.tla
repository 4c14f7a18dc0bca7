------------------------- MODULE SpiderUrlRinse_proofs -------------------------
(***************************************************************************)
(* Theorems about Spider_Url_Rinse: for all URLs, hash functions, numbers  *)
(* of workers, of crashes and of runs of the program.                      *)
(*                                                                         *)
(* A URL between its mark and put_urls has a code that neither the history, *)
(* nor the file, nor a URL handed over before has: whoever of them had it  *)
(* had set its bit in m_url_table, and the worker has the lock.            *)
(***************************************************************************)
EXTENDS SpiderUrlRinse, FiniteSetTheorems, SequenceTheorems, TLAPS

HandedUrls == {h.url : h \in handed}

(* The codes that must not be handed over any more.                        *)
Seen == history \cup InFile \cup Codes(HandedUrls) \cup UNION {byte[w] : w \in Workers}

Holding == {"test", "mark", "parse", "loop", "put"}
Marked(w) == pc[w] \in {"parse", "loop", "put"} /\ arg[w] # NoUrl

Types ==
    /\ pc \in [Workers -> PC] /\ arg \in [Workers -> Urls \cup {NoUrl}]
    /\ byte \in [Workers -> SUBSET Codes(Urls)]
    /\ HandedUrls \subseteq Urls
    /\ \A w \in Workers :
          /\ pc[w] \in {"test", "mark"} => arg[w] \in Urls
          /\ pc[w] \in {"load", "store"} => arg[w] \in HandedUrls

LockOK == \A w \in Workers : pc[w] \in Holding => lock = w

MarkOK ==
    \A w \in Workers :
        /\ pc[w] = "mark" => Code[arg[w]] \notin urlTable
        /\ Marked(w) => Code[arg[w]] \in urlTable /\ Code[arg[w]] \notin Seen

SeenOK == main # "down" => Seen \subseteq urlTable

DownOK == main = "down" => pc = Idle /\ byte = NoBytes /\ handed = {}

RinseInv == Types /\ LockOK /\ MarkOK /\ SeenOK /\ DownOK

LEMMA InFileOf ==
  /\ file = <<>> => InFile = {}
  /\ file' = <<>> => InFile' = {}
  /\ file' = <<history>> => InFile' = history
  /\ file = <<{}>> => InFile = {}
  /\ file' = file => InFile' = InFile
BY DEF InFile, Range

LEMMA InitRinse == Init => RinseInv
<1> SUFFICES ASSUME Init PROVE RinseInv
  OBVIOUS
<1>1. HandedUrls = {} /\ Seen = {}
  BY InFileOf DEF Init, HandedUrls, Seen, Codes, NoBytes
<1>2. QED
  BY <1>1 DEF Init, RinseInv, Types, LockOK, MarkOK, SeenOK, DownOK, Idle, NoArgs,
     NoBytes, PC, Holding, Marked

LEMMA SeenUntouched ==
  /\ UNCHANGED handed => HandedUrls' = HandedUrls
  /\ UNCHANGED <<history, file, handed, byte>> => Seen' = Seen
BY InFileOf DEF HandedUrls, Seen, Codes

(* Steps that leave the table and the lock alone: a worker goes on inside   *)
(* rinse_urls with its URL, or ends up outside of it.                      *)
LEMMA QuietStep ==
  ASSUME RinseInv, Types', UNCHANGED <<urlTable, lock>>, Seen' \subseteq Seen,
         main # "down", main' # "down",
         \A w \in Workers :
            \/ pc'[w] = pc[w] /\ arg'[w] = arg[w]
            \/ pc'[w] \in {"idle", "load", "store", "file", "write", "insert"}
            \/ pc[w] = "test" /\ pc'[w] = "parse" /\ arg'[w] = NoUrl
            \/ /\ pc[w] = "test" /\ pc'[w] = "mark"
               /\ arg'[w] = arg[w] /\ Code[arg[w]] \notin urlTable
            \/ pc[w] \in {"parse", "loop"} /\ pc'[w] \in {"loop", "put"} /\ arg'[w] = arg[w]
  PROVE  RinseInv'
<1>1. LockOK'
  BY DEF RinseInv, LockOK, Holding
<1>2. MarkOK'
  BY DEF RinseInv, MarkOK, Marked
<1>3. SeenOK' /\ DownOK'
  BY DEF RinseInv, SeenOK, DownOK
<1>4. QED
  BY <1>1, <1>2, <1>3 DEF RinseInv

(* How a worker goes on inside rinse_urls.                                 *)
InsideOK ==
    /\ pc' \in [Workers -> PC] /\ arg' \in [Workers -> Urls \cup {NoUrl}]
    /\ \A v \in Workers :
         \/ pc'[v] = pc[v] /\ arg'[v] = arg[v]
         \/ pc[v] = "test" /\ pc'[v] = "parse" /\ arg'[v] = NoUrl
         \/ /\ pc[v] = "test" /\ pc'[v] = "mark"
            /\ arg'[v] = arg[v] /\ Code[arg[v]] \notin urlTable
         \/ pc[v] \in {"parse", "loop"} /\ pc'[v] \in {"loop", "put"} /\ arg'[v] = arg[v]

(* Steps of rinse_urls that move one worker, if any.                        *)
LEMMA RinseQuiet ==
  ASSUME RinseInv, NEW w \in Workers,
         Up, UNCHANGED main,
         \/ TestUrl(w) \/ ParseNothing(w) \/ ParseLater(w) \/ LeaveLoop(w)
         \/ \E ok \in BOOLEAN : ParseAtOnce(w, ok) \/ \E u \in Urls : DnsCallback(w, u, ok)
  PROVE  RinseInv'
<1>1. /\ UNCHANGED <<history, file, handed, byte, lock, urlTable>>
      /\ main # "down" /\ main' # "down"
  BY DEF Up, TestUrl, ParseNothing, ParseLater, LeaveLoop, ParseAtOnce, DnsCallback,
     tableVars, mainVars, rinseHist, Resolve
<1>2. HandedUrls' = HandedUrls /\ Seen' = Seen
  BY <1>1, SeenUntouched
<1>3. InsideOK
  <2>1. CASE TestUrl(w)
    BY <2>1 DEF InsideOK, TestUrl, Goto, RinseInv, Types, PC
  <2>2. CASE ParseNothing(w) \/ ParseLater(w) \/ LeaveLoop(w)
    BY <2>2 DEF InsideOK, ParseNothing, ParseLater, LeaveLoop, Goto, RinseInv, Types, PC
  <2>3. ASSUME NEW ok \in BOOLEAN, ParseAtOnce(w, ok) PROVE InsideOK
    BY <2>3 DEF InsideOK, ParseAtOnce, Goto, RinseInv, Types, PC
  <2>4. ASSUME NEW ok \in BOOLEAN, NEW u \in Urls, DnsCallback(w, u, ok) PROVE InsideOK
    BY <2>4 DEF InsideOK, DnsCallback, RinseInv, Types
  <2>5. QED
    BY <2>1, <2>2, <2>3, <2>4
<1>4. Types'
  BY <1>1, <1>2, <1>3 DEF InsideOK, RinseInv, Types
<1>5. QED
  BY <1>1, <1>2, <1>3, <1>4, QuietStep DEF InsideOK

(* The steps of rinse_urls that take the lock, set the bit and let go.      *)
LEMMA RinseUrlStep ==
  ASSUME RinseInv, NEW w \in Workers, NEW u \in Urls, RinseUrl(w, u)
  PROVE  RinseInv'
<1>1. /\ UNCHANGED <<history, file, handed, byte, urlTable, main>>
      /\ main # "down" /\ lock = Nobody /\ lock' = w
      /\ pc' = [pc EXCEPT ![w] = "test"] /\ arg' = [arg EXCEPT ![w] = u]
  BY DEF RinseUrl, Up, Goto, tableVars, mainVars, rinseHist
<1>2. HandedUrls' = HandedUrls /\ Seen' = Seen
  BY <1>1, SeenUntouched
<1>3. \A v \in Workers : pc[v] \notin Holding
  BY <1>1, RinseAssumption DEF RinseInv, LockOK
<1>4. Types'
  BY <1>1, <1>2 DEF RinseInv, Types, PC
<1>5. LockOK'
  BY <1>1, <1>3 DEF RinseInv, Types, LockOK, Holding
<1>6. MarkOK'
  BY <1>1, <1>2, <1>3 DEF RinseInv, Types, MarkOK, Marked, Holding
<1>7. SeenOK' /\ DownOK'
  BY <1>1, <1>2 DEF RinseInv, SeenOK, DownOK
<1>8. QED
  BY <1>4, <1>5, <1>6, <1>7 DEF RinseInv

LEMMA MarkUrlStep ==
  ASSUME RinseInv, NEW w \in Workers, MarkUrl(w)
  PROVE  RinseInv'
<1>1. /\ UNCHANGED <<history, file, handed, byte, main, lock, arg>>
      /\ main # "down" /\ pc[w] = "mark"
      /\ urlTable' = urlTable \cup {Code[arg[w]]}
      /\ pc' = [pc EXCEPT ![w] = "parse"]
  BY DEF MarkUrl, Up, Goto, tableVars, mainVars, rinseHist
<1>2. HandedUrls' = HandedUrls /\ Seen' = Seen
  BY <1>1, SeenUntouched
<1>3. \A v \in Workers : pc[v] \in Holding => v = w
  BY <1>1 DEF RinseInv, LockOK, Holding
<1>4. Types'
  BY <1>1, <1>2 DEF RinseInv, Types, PC
<1>5. LockOK'
  BY <1>1, <1>3 DEF RinseInv, Types, LockOK, Holding
<1>6. Code[arg[w]] \notin Seen
  BY <1>1 DEF RinseInv, MarkOK, SeenOK
<1>7. MarkOK'
  BY <1>1, <1>2, <1>3, <1>6 DEF RinseInv, Types, MarkOK, Marked, Holding
<1>8. SeenOK' /\ DownOK'
  BY <1>1, <1>2 DEF RinseInv, SeenOK, DownOK
<1>9. QED
  BY <1>4, <1>5, <1>7, <1>8 DEF RinseInv

(* What put_urls adds, whether with an address or without.                 *)
LEMMA HandedByPutUrls ==
  ASSUME NEW w \in Workers, PutUrls(w)
  PROVE  /\ HandedUrls' = IF arg[w] = NoUrl THEN HandedUrls ELSE HandedUrls \cup {arg[w]}
         /\ \A h \in handed' : h \in handed \/ (h.url = arg[w] /\ h.ip = (arg[w] \in withIp))
         /\ arg[w] = NoUrl => handed' = handed
<1> DEFINE withOrWithout == arg[w] \in withIp
<1>1. CASE arg[w] = NoUrl
  BY <1>1, SeenUntouched DEF PutUrls
<1>2. CASE arg[w] # NoUrl
  <2>1. PICK r : r = [url |-> arg[w], ip |-> withOrWithout] /\ handed' = handed \cup {r}
    BY <1>2 DEF PutUrls
  <2>2. r.url = arg[w]
    BY <2>1
  <2>3. r.ip = withOrWithout
    BY <2>1, Zenon
  <2>4. QED
    BY <2>1, <2>2, <2>3, <1>2, Zenon DEF HandedUrls
<1>3. QED
  BY <1>1, <1>2

LEMMA PutUrlsStep ==
  ASSUME RinseInv, NEW w \in Workers, PutUrls(w)
  PROVE  RinseInv'
<1>1. /\ UNCHANGED <<history, file, byte, main, urlTable>>
      /\ main # "down" /\ pc[w] = "put" /\ lock' = Nobody
      /\ handed' = IF arg[w] = NoUrl THEN handed
                   ELSE handed \cup {[url |-> arg[w], ip |-> arg[w] \in withIp]}
      /\ pc' = [pc EXCEPT ![w] = "idle"] /\ arg' = [arg EXCEPT ![w] = NoUrl]
  BY DEF PutUrls, Up, Goto, tableVars, mainVars
<1>2. HandedUrls' = IF arg[w] = NoUrl THEN HandedUrls ELSE HandedUrls \cup {arg[w]}
  BY HandedByPutUrls
<1>3. InFile' = InFile
  BY <1>1, InFileOf
<1>4. Seen' \subseteq urlTable
  <2>1. Seen \subseteq urlTable /\ (arg[w] # NoUrl => Code[arg[w]] \in urlTable)
    BY <1>1 DEF RinseInv, SeenOK, MarkOK, Marked
  <2>2. Codes(HandedUrls)' \subseteq urlTable
    BY <1>2, <2>1 DEF Codes, Seen
  <2>3. QED
    BY <1>1, <1>3, <2>1, <2>2 DEF Seen
<1>5. \A v \in Workers : pc[v] \in Holding => v = w
  BY <1>1 DEF RinseInv, LockOK, Holding
<1>6. Types'
  BY <1>1, <1>2, <1>5 DEF RinseInv, Types, PC
<1>7. LockOK' /\ MarkOK'
  BY <1>1, <1>5 DEF RinseInv, Types, LockOK, MarkOK, Marked, Holding
<1>8. SeenOK' /\ DownOK'
  BY <1>1, <1>4 DEF RinseInv, SeenOK, DownOK
<1>9. QED
  BY <1>6, <1>7, <1>8 DEF RinseInv

(* A worker's steps with a picture, which was handed over before: the code *)
(* it adds to the history is in m_url_table.                               *)
LEMMA PictureQuiet ==
  ASSUME RinseInv, NEW w \in Workers,
         PictureStep(w) \/ \E u \in Urls : Process(w, u)
  PROVE  RinseInv'
<1>1. UNCHANGED <<urlTable, lock, handed, file, main>> /\ main # "down"
  BY DEF PictureStep, Process, LoadByte, StoreByte, WriteFile, FinishFile,
     InsertRecord, tableVars, mainVars, rinseHist
<1>2. HandedUrls' = HandedUrls /\ InFile' = InFile
  BY <1>1, SeenUntouched, InFileOf
<1>3. CASE \E u \in Urls : Process(w, u)
  <2>1. PICK u \in Urls : Process(w, u)
    BY <1>3
  <2>2. u \in HandedUrls
    BY <2>1 DEF Process, HandedUrls
  <2>3. pc' = [pc EXCEPT ![w] = "load"] /\ arg' = [arg EXCEPT ![w] = u] /\ UNCHANGED <<history, byte>>
    BY <2>1 DEF Process, Goto
  <2>4. Seen' = Seen
    BY <1>1, <2>3, SeenUntouched
  <2>5. Types'
    BY <1>2, <2>2, <2>3 DEF RinseInv, Types, PC
  <2>6. QED
    BY <1>1, <2>3, <2>4, <2>5, QuietStep DEF RinseInv, Types
<1>4. CASE LoadByte(w)
  <2>1. /\ pc[w] = "load" /\ pc' = [pc EXCEPT ![w] = "store"] /\ UNCHANGED <<arg, history>>
        /\ byte' = [byte EXCEPT ![w] = history \cap ByteOf(Code[arg[w]])]
    BY <1>4 DEF LoadByte, Goto
  <2>2. Types'
    BY <1>2, <2>1 DEF RinseInv, Types, PC, ByteOf
  <2>3. \A v \in Workers : byte'[v] \subseteq byte[v] \cup history
    BY <2>1 DEF RinseInv, Types
  <2>4. Seen' \subseteq Seen
    BY <1>2, <2>1, <2>3 DEF Seen, Codes
  <2>5. QED
    BY <1>1, <2>1, <2>2, <2>4, QuietStep DEF RinseInv, Types
<1>5. CASE StoreByte(w)
  <2>1. /\ pc[w] = "store"
        /\ history' = (history \ ByteOf(Code[arg[w]])) \cup byte[w] \cup {Code[arg[w]]}
        /\ \/ pc' = [pc EXCEPT ![w] = "file"] /\ UNCHANGED arg
           \/ pc' = [pc EXCEPT ![w] = "idle"] /\ arg' = [arg EXCEPT ![w] = NoUrl]
        /\ byte' = [byte EXCEPT ![w] = {}]
    BY <1>5 DEF StoreByte, Goto
  <2>2. Types'
    BY <1>2, <2>1 DEF RinseInv, Types, PC
  <2>3. Code[arg[w]] \in Codes(HandedUrls)
    BY <2>1 DEF RinseInv, Types, Codes
  <2>4. (\A v \in Workers : byte'[v] \subseteq byte[v]) /\ Codes(HandedUrls)' = Codes(HandedUrls)
    BY <1>2, <2>1 DEF RinseInv, Types, Codes
  <2>5. Seen' \subseteq Seen
    BY <1>2, <2>1, <2>3, <2>4 DEF Seen
  <2>6. QED
    BY <1>1, <2>1, <2>2, <2>5, QuietStep DEF RinseInv, Types
<1>6. CASE WriteFile(w) \/ FinishFile(w) \/ InsertRecord(w)
  <2>1. /\ pc[w] \in {"file", "write", "insert"} /\ UNCHANGED <<byte, history>>
        /\ \/ /\ pc' = [pc EXCEPT ![w] = "insert"] \/ pc' = [pc EXCEPT ![w] = "write"]
              /\ UNCHANGED arg
           \/ pc' = [pc EXCEPT ![w] = "idle"] /\ arg' = [arg EXCEPT ![w] = NoUrl]
    BY <1>6 DEF WriteFile, FinishFile, InsertRecord, Goto
  <2>2. Types'
    BY <1>2, <2>1 DEF RinseInv, Types, PC
  <2>3. Seen' = Seen
    BY <1>1, <2>1, SeenUntouched
  <2>4. QED
    BY <1>1, <2>1, <2>2, <2>3, QuietStep DEF RinseInv, Types
<1>7. QED
  BY <1>3, <1>4, <1>5, <1>6 DEF PictureStep

(* The steps of main(), of the database's thread and of the system.        *)
LEMMA MainStep ==
  ASSUME RinseInv,
         OpenHistory \/ WriteHistory \/ LookAtCommands \/ PopCommand \/ RunQuery \/ UNCHANGED vars
  PROVE  RinseInv'
<1>1. UNCHANGED <<urlTable, lock, handed, history, pc, arg, byte>>
  BY DEF OpenHistory, WriteHistory, LookAtCommands, PopCommand, RunQuery, vars,
     tableVars, mainVars, rinseHist
<1>2. /\ HandedUrls' = HandedUrls
      /\ \/ UNCHANGED <<file, main>>
         \/ main # "down" /\ main' # "down" /\ file' \in {<<>>, <<history>>}
  BY <1>1, SeenUntouched DEF OpenHistory, WriteHistory, LookAtCommands, PopCommand,
     RunQuery, vars, mainVars
<1>3. Types'
  BY <1>1, <1>2 DEF RinseInv, Types
<1>4. CASE UNCHANGED <<file, main>>
  <2>1. Seen' = Seen
    BY <1>1, <1>4, SeenUntouched
  <2>2. QED
    BY <1>1, <1>3, <1>4, <2>1 DEF RinseInv, LockOK, MarkOK, Marked, SeenOK, DownOK
<1>5. CASE main # "down" /\ main' # "down" /\ file' \in {<<>>, <<history>>}
  <2>1. InFile' = {} \/ InFile' = history
    BY <1>5, InFileOf
  <2>2. Seen' \subseteq Seen
    BY <1>1, <1>2, <2>1 DEF Seen, Codes
  <2>3. QED
    BY <1>1, <1>3, <1>5, <2>2, QuietStep
<1>6. QED
  BY <1>2, <1>4, <1>5

LEMMA StopStep ==
  ASSUME RinseInv, End \/ Crash PROVE RinseInv'
<1>1. Stop
  BY DEF End, Crash
<1>2. HandedUrls' = {}
  BY <1>1 DEF Stop, HandedUrls
<1>3. QED
  BY <1>1, <1>2 DEF Stop, RinseInv, Types, LockOK, MarkOK, Marked, SeenOK, DownOK,
     Idle, NoArgs, NoBytes, PC, Holding

LEMMA StartStep ==
  ASSUME RinseInv, Start PROVE RinseInv'
<1>1. /\ main = "down" /\ main' # "down" /\ UNCHANGED <<handed, file, pc, arg, byte>>
      /\ urlTable' = InFile /\ history' = InFile
      /\ pc = Idle /\ byte = NoBytes /\ handed = {}
  BY DEF Start, rinseHist, RinseInv, DownOK
<1>2. HandedUrls' = {} /\ HandedUrls = {} /\ InFile' = InFile
  BY <1>1, InFileOf DEF HandedUrls
<1>3. Seen' \subseteq InFile
  BY <1>1, <1>2 DEF Seen, NoBytes, Codes
<1>4. QED
  BY <1>1, <1>2, <1>3 DEF RinseInv, Types, LockOK, MarkOK, Marked, SeenOK, DownOK,
     Idle, NoBytes, Holding

LEMMA RinseInvariant == Spec => []RinseInv
<1>1. ASSUME RinseInv, [Next]_vars PROVE RinseInv'
  <2>1. CASE \E w \in Workers, u \in Urls : RinseUrl(w, u) \/ Process(w, u)
    BY <1>1, <2>1, RinseUrlStep, PictureQuiet
  <2>2. ASSUME NEW w \in Workers, RinseStep(w) PROVE RinseInv'
    <3>1. Up /\ (MarkUrl(w) \/ PutUrls(w) \/ UNCHANGED main)
      BY <2>2 DEF RinseStep, TestUrl, ParseNothing, ParseLater, LeaveLoop, ParseAtOnce,
         DnsCallback, MarkUrl, PutUrls, mainVars
    <3>2. QED
      BY <1>1, <2>2, <3>1, MarkUrlStep, PutUrlsStep, RinseQuiet DEF RinseStep
  <2>3. ASSUME NEW w \in Workers, PictureStep(w) PROVE RinseInv'
    BY <1>1, <2>3, PictureQuiet
  <2>4. CASE LookAtCommands \/ PopCommand \/ RunQuery \/ OpenHistory \/ WriteHistory \/ UNCHANGED vars
    BY <1>1, <2>4, MainStep
  <2>5. CASE End \/ Crash \/ Start
    BY <1>1, <2>5, StopStep, StartStep
  <2>6. QED
    BY <1>1, <2>1, <2>2, <2>3, <2>4, <2>5 DEF Next, DatabaseThread
<1>2. QED
  BY <1>1, InitRinse, PTL DEF Spec

(* Whatever the hash function and however many workers, crashes and runs:  *)
(* rinse_urls hands over no URL whose code one handed over in this run has, *)
(* or the history this run has read or written last (spider_url_rinse.cpp   *)
(* 119-155, 174-182, 258-300).                                             *)
THEOREM HandedOverOnce == Spec => HandedOnce
<1>1. RinseInv => [\A w \in Workers :
                     PutUrls(w) /\ arg[w] # NoUrl =>
                        Code[arg[w]] \notin Codes({h.url : h \in handed}) \cup InFile]_vars
  BY DEF RinseInv, MarkOK, Marked, Seen, HandedUrls, PutUrls
<1>2. QED
  BY <1>1, RinseInvariant, PTL DEF HandedOnce
-------------------------------------------------------------------------------
(***************************************************************************)
(* The types.                                                              *)
(***************************************************************************)
Picturing == {"load", "store", "file", "write", "insert"}

TableTypes ==
    /\ urlTable \subseteq Codes(Urls) /\ history \subseteq Codes(Urls)
    /\ dnsDatabase \subseteq Range(Domain) /\ domainTable \subseteq Range(DomainCode)
    /\ withIp \subseteq Urls /\ refused \subseteq Urls /\ hasty \in BOOLEAN
    /\ handed \subseteq [url : Urls, ip : BOOLEAN]

DbTypes ==
    /\ commands \in Seq(Fitting) /\ dbPc \in {"look", "pop", "query", "ended"}
    /\ query \in Fitting \cup {NoUrl} /\ rows \subseteq Fitting
    /\ dbPc = "pop" => commands # <<>>
    /\ dbPc = "query" <=> query # NoUrl

PictTypes ==
    /\ disk \subseteq Fitting /\ torn \subseteq disk
    /\ fetched \subseteq Pictures /\ recorded \subseteq Pictures /\ kept \subseteq Pictures
    /\ fileless \subseteq Fitting /\ broken \subseteq Fitting
    /\ \A w \in Workers :
          /\ pc[w] \in Picturing => arg[w] \in fetched
          /\ pc[w] \in {"file", "write", "insert"} => arg[w] \in Fitting

MainTypes ==
    /\ lock \in Workers \cup {Nobody}
    /\ main \in {"up", "writing", "saving", "saved", "down"}
    /\ file \in {<<>>} \cup {<<table>> : table \in SUBSET Codes(Urls)}
    /\ runs \in 1..MaxRuns /\ crashes \in 0..MaxCrashes

TypesInv == Types /\ TableTypes /\ DbTypes /\ PictTypes /\ MainTypes

LEMMA CodeTypes ==
  ASSUME NEW u \in Urls
  PROVE  /\ Code[u] \in Codes(Urls) /\ Domain[u] \in Range(Domain)
         /\ DomainCode[Domain[u]] \in Range(DomainCode)
BY RinseAssumption DEF Codes, Range

LEMMA RinseTypes ==
  ASSUME TypesInv, Types', NEW w \in Workers,
         RinseStep(w) \/ \E u \in Urls : RinseUrl(w, u) \/ Process(w, u)
  PROVE  TypesInv'
<1>1. /\ UNCHANGED <<commands, dbPc, query, rows, disk, torn, recorded, kept, fileless,
                     broken, main, file, runs, crashes, history>>
      /\ lock' \in {w, Nobody, lock}
  BY DEF RinseStep, RinseUrl, Process, TestUrl, MarkUrl, ParseNothing, ParseLater,
     LeaveLoop, PutUrls, ParseAtOnce, DnsCallback, dbVars, diskVars, pictHist, mainVars
<1>2. DbTypes' /\ MainTypes'
  BY <1>1 DEF TypesInv, DbTypes, MainTypes
<1>3. PictTypes'
  <2>1. CASE \E u \in Urls : Process(w, u)
    BY <1>1, <2>1 DEF TypesInv, Types, PictTypes, Process, Goto, Picturing
  <2>2. CASE ~\E u \in Urls : Process(w, u)
    <3>1. UNCHANGED fetched /\ \/ UNCHANGED <<pc, arg>>
                               \/ \E where \in PC \ Picturing :
                                     pc' = [pc EXCEPT ![w] = where]
                                     /\ \A v \in Workers \ {w} : arg'[v] = arg[v]
      <4>1. CASE \E u \in Urls : RinseUrl(w, u)
        BY <4>1 DEF RinseUrl, Goto, PC, Picturing, pictHist, TypesInv, Types
      <4>2. CASE RinseStep(w)
        BY <4>2 DEF RinseStep, TestUrl, MarkUrl, ParseNothing, ParseLater, LeaveLoop,
           PutUrls, ParseAtOnce, DnsCallback, Goto, PC, Picturing, pictHist, TypesInv, Types
      <4>3. QED
        BY <2>2, <4>1, <4>2
    <3>2. QED
      BY <1>1, <3>1 DEF TypesInv, Types, PictTypes, Picturing, PC
  <2>3. QED
    BY <2>1, <2>2
<1>4. TableTypes'
  <2>1. ASSUME NEW u \in Urls, NEW ok, Resolve(u, ok)
        PROVE  /\ dnsDatabase' \subseteq Range(Domain) /\ domainTable' \subseteq Range(DomainCode)
               /\ withIp' \subseteq Urls /\ refused' \subseteq Urls
    BY <2>1, CodeTypes DEF Resolve, TypesInv, TableTypes
  <2>2. CASE MarkUrl(w)
    <3>1. arg[w] \in Urls
      BY <2>2 DEF MarkUrl, TypesInv, Types
    <3>2. QED
      BY <1>1, <2>2, <3>1, CodeTypes DEF MarkUrl, rinseHist, TypesInv, TableTypes
  <2>3. ASSUME NEW ok \in BOOLEAN, ParseAtOnce(w, ok)
        PROVE  TableTypes'
    <3>1. arg[w] \in Urls /\ Resolve(arg[w], ok)
      BY <2>3 DEF ParseAtOnce, TypesInv, Types
    <3>2. UNCHANGED <<urlTable, handed>> /\ hasty' \in {TRUE, hasty}
      BY <2>3 DEF ParseAtOnce
    <3>3. QED
      BY <1>1, <2>1, <3>1, <3>2 DEF TypesInv, TableTypes
  <2>4. ASSUME NEW ok \in BOOLEAN, NEW u \in Urls, DnsCallback(w, u, ok)
        PROVE  TableTypes'
    BY <1>1, <2>1, <2>4 DEF DnsCallback, TypesInv, TableTypes
  <2>5. CASE PutUrls(w)
    <3>1. UNCHANGED <<urlTable, domainTable, dnsDatabase, withIp, refused, hasty>>
      BY <2>5 DEF PutUrls, tableVars, dnsVars
    <3>2. handed' \subseteq [url : Urls, ip : BOOLEAN]
      <4>1. \A b \in BOOLEAN, u \in Urls : [url |-> u, ip |-> b] \in [url : Urls, ip : BOOLEAN]
        OBVIOUS
      <4>2. (arg[w] \in withIp) \in BOOLEAN
        OBVIOUS
      <4>3. handed \subseteq [url : Urls, ip : BOOLEAN] /\ arg[w] \in Urls \cup {NoUrl}
        BY DEF TypesInv, Types, TableTypes
      <4>4. CASE arg[w] = NoUrl
        BY <2>5, <4>3, <4>4 DEF PutUrls
      <4>5. CASE arg[w] # NoUrl
        <5>1. [url |-> arg[w], ip |-> arg[w] \in withIp] \in [url : Urls, ip : BOOLEAN]
          BY <4>1, <4>2, <4>3, <4>5
        <5>2. handed' = handed \cup {[url |-> arg[w], ip |-> arg[w] \in withIp]}
          BY <2>5, <4>5 DEF PutUrls
        <5>3. QED
          BY <4>3, <5>1, <5>2, Zenon
      <4>6. QED
        BY <4>4, <4>5
    <3>3. QED
      BY <1>1, <3>1, <3>2 DEF TypesInv, TableTypes
  <2>6. CASE \/ TestUrl(w) \/ ParseNothing(w) \/ ParseLater(w) \/ LeaveLoop(w)
             \/ \E u \in Urls : RinseUrl(w, u) \/ Process(w, u)
    BY <1>1, <2>6 DEF TestUrl, ParseNothing, ParseLater, LeaveLoop, RinseUrl, Process,
       tableVars, dnsVars, rinseHist, TypesInv, TableTypes
  <2>7. QED
    BY <2>2, <2>3, <2>4, <2>5, <2>6 DEF RinseStep
<1>5. QED
  BY <1>2, <1>3, <1>4 DEF TypesInv

LEMMA PictureTypes ==
  ASSUME TypesInv, Types', NEW w \in Workers, PictureStep(w)
  PROVE  TypesInv'
<1>1. /\ UNCHANGED <<urlTable, domainTable, dnsDatabase, withIp, refused, hasty, handed,
                     lock, main, file, runs, crashes, dbPc, query, rows,
                     fetched, kept, broken>>
      /\ pc[w] \in Picturing
  BY DEF PictureStep, LoadByte, StoreByte, WriteFile, FinishFile, InsertRecord,
     tableVars, dnsVars, dbVars, rinseHist, pictHist, mainVars, Picturing
<1>2. MainTypes'
  BY <1>1 DEF TypesInv, MainTypes
<1>3. arg[w] \in Pictures /\ arg[w] \in Urls
  BY <1>1, RinseAssumption DEF TypesInv, PictTypes
<1>4. TableTypes'
  <2>1. history' \subseteq Codes(Urls)
    BY <1>1, <1>3, CodeTypes DEF PictureStep, LoadByte, StoreByte, WriteFile, FinishFile,
       InsertRecord, TypesInv, Types, TableTypes
  <2>2. QED
    BY <1>1, <2>1 DEF TypesInv, TableTypes
<1>5. DbTypes'
  <2>1. commands' = commands \/ (pc[w] = "insert" /\ commands' = Append(commands, arg[w]))
    BY DEF PictureStep, LoadByte, StoreByte, WriteFile, FinishFile, InsertRecord, dbVars
  <2>2. CASE commands' = commands
    BY <1>1, <2>2 DEF TypesInv, DbTypes
  <2>3. CASE pc[w] = "insert" /\ commands' = Append(commands, arg[w])
    <3>1. arg[w] \in Fitting /\ commands \in Seq(Fitting)
      BY <2>3 DEF TypesInv, PictTypes, DbTypes
    <3>2. commands' \in Seq(Fitting) /\ commands' # <<>>
      BY <2>3, <3>1, AppendProperties
    <3>3. QED
      BY <1>1, <3>2 DEF TypesInv, DbTypes
  <2>4. QED
    BY <2>1, <2>2, <2>3
<1>6. PictTypes'
  <2>1. CASE LoadByte(w)
    BY <1>1, <2>1 DEF LoadByte, Goto, TypesInv, Types, PictTypes, Picturing, diskVars, pictHist
  <2>2. CASE StoreByte(w)
    BY <1>1, <1>3, <2>2 DEF StoreByte, Goto, TypesInv, Types, PictTypes, Picturing, diskVars
  <2>3. CASE WriteFile(w)
    <3>1. arg[w] \in Fitting
      BY <2>3 DEF WriteFile, TypesInv, PictTypes
    <3>2. /\ disk' \subseteq Fitting /\ torn' \subseteq disk' /\ fileless' \subseteq Fitting
          /\ UNCHANGED recorded
      BY <2>3, <3>1 DEF WriteFile, TypesInv, PictTypes, diskVars
    <3>3. \/ pc' = [pc EXCEPT ![w] = "insert"] /\ UNCHANGED arg
          \/ pc' = [pc EXCEPT ![w] = "write"] /\ UNCHANGED arg
          \/ pc' = [pc EXCEPT ![w] = "idle"] /\ arg' = [arg EXCEPT ![w] = NoUrl]
      BY <2>3 DEF WriteFile, Goto
    <3>4. \A v \in Workers :
             /\ pc'[v] \in Picturing => arg'[v] \in fetched'
             /\ pc'[v] \in {"file", "write", "insert"} => arg'[v] \in Fitting
      BY <1>1, <3>1, <3>3 DEF TypesInv, Types, PictTypes, Picturing
    <3>5. QED
      BY <1>1, <3>2, <3>4 DEF TypesInv, PictTypes
  <2>4. CASE FinishFile(w)
    BY <1>1, <2>4 DEF FinishFile, Goto, TypesInv, Types, PictTypes, Picturing, pictHist
  <2>5. CASE InsertRecord(w)
    BY <1>1, <2>5 DEF InsertRecord, Goto, TypesInv, Types, PictTypes, Picturing, pictHist, diskVars
  <2>6. QED
    BY <2>1, <2>2, <2>3, <2>4, <2>5 DEF PictureStep
<1>7. QED
  BY <1>2, <1>4, <1>5, <1>6 DEF TypesInv

LEMMA MainTypesStep ==
  ASSUME TypesInv, Types',
         DatabaseThread \/ OpenHistory \/ WriteHistory \/ End \/ Crash \/ Start \/ UNCHANGED vars
  PROVE  TypesInv'
<1>1. CASE DatabaseThread
  <2>1. UNCHANGED <<tableVars, history, withIp, rinseHist, pictHist, diskVars, pc, arg, lock, mainVars>>
    BY <1>1 DEF DatabaseThread, LookAtCommands, PopCommand, RunQuery, dnsVars
  <2>2. TableTypes' /\ PictTypes' /\ MainTypes'
    BY <2>1 DEF TypesInv, TableTypes, PictTypes, MainTypes, tableVars, rinseHist,
       pictHist, diskVars, mainVars
  <2>3. DbTypes'
    <3>1. CASE LookAtCommands
      BY <3>1 DEF LookAtCommands, TypesInv, DbTypes
    <3>2. CASE PopCommand
      <4>1. commands \in Seq(Fitting) /\ commands # <<>>
        BY <3>2 DEF PopCommand, TypesInv, DbTypes
      <4>2. Head(commands) \in Fitting /\ Tail(commands) \in Seq(Fitting)
        BY <4>1, HeadTailProperties
      <4>3. Head(commands) # NoUrl
        BY <4>2, RinseAssumption
      <4>4. QED
        BY <3>2, <4>2, <4>3 DEF PopCommand, TypesInv, DbTypes
    <3>3. CASE RunQuery
      BY <3>3 DEF RunQuery, TypesInv, DbTypes
    <3>4. QED
      BY <1>1, <3>1, <3>2, <3>3 DEF DatabaseThread
  <2>4. QED
    BY <2>2, <2>3 DEF TypesInv
<1>2. CASE OpenHistory \/ WriteHistory \/ UNCHANGED vars
  <2>1. /\ UNCHANGED <<tableVars, history, withIp, rinseHist, diskVars, pc, arg, lock, commands,
                       dbPc, query, rows, runs, crashes, fetched, recorded, fileless, broken>>
        /\ kept' \in {kept, kept \cup recorded}
    BY <1>2 DEF OpenHistory, WriteHistory, vars, dnsVars, dbVars, pictHist, mainVars
  <2>2. file' \in {file, <<>>, <<history>>} /\ main' \in {main, "writing", "saving", "up", "saved"}
    BY <1>2 DEF OpenHistory, WriteHistory, vars, mainVars
  <2>3. MainTypes'
    BY <2>1, <2>2 DEF TypesInv, TableTypes, MainTypes
  <2>4. TableTypes' /\ PictTypes' /\ DbTypes'
    BY <2>1 DEF TypesInv, TableTypes, PictTypes, DbTypes, tableVars, rinseHist, diskVars
  <2>5. QED
    BY <2>3, <2>4 DEF TypesInv
<1>3. CASE End \/ Crash
  <2>1. Stop /\ crashes' \in 0..MaxCrashes
    BY <1>3, RinseAssumption DEF End, Crash, TypesInv, MainTypes
  <2>2. MainTypes'
    BY <2>1 DEF Stop, TypesInv, MainTypes
  <2>3. TableTypes'
    BY <2>1 DEF Stop, TypesInv, TableTypes
  <2>4. PictTypes'
    BY <2>1 DEF Stop, TypesInv, PictTypes, diskVars, Picturing, Idle
  <2>5. <<>> \in Seq(Fitting)
    OBVIOUS
  <2>6. DbTypes'
    BY <2>1, <2>5 DEF Stop, TypesInv, DbTypes
  <2>7. QED
    BY <2>2, <2>3, <2>4, <2>6 DEF TypesInv
<1>4. CASE Start
  <2>1. /\ UNCHANGED <<domainTable, dnsDatabase, withIp, rinseHist, pictHist, diskVars, dbVars,
                       pc, arg, lock, crashes, file>>
        /\ urlTable' = InFile /\ history' = InFile
        /\ main' = "up" /\ runs' = runs + 1 /\ runs < MaxRuns
    BY <1>4 DEF Start, dnsVars
  <2>2. InFile \subseteq Codes(Urls)
    <3>1. PICK table \in SUBSET Codes(Urls) : file \in {<<>>, <<table>>}
      BY DEF TypesInv, MainTypes
    <3>2. QED
      BY <3>1 DEF InFile, Range
  <2>3. MainTypes'
    BY <2>1, RinseAssumption DEF TypesInv, MainTypes
  <2>4. TableTypes' /\ PictTypes' /\ DbTypes'
    BY <2>1, <2>2 DEF TypesInv, TableTypes, PictTypes, DbTypes, rinseHist, pictHist,
       diskVars, dbVars
  <2>5. QED
    BY <2>3, <2>4 DEF TypesInv
<1>5. QED
  BY <1>1, <1>2, <1>3, <1>4

LEMMA TypesInvariant == Spec => [](RinseInv /\ TypesInv)
<1>1. Init => TypesInv
  <2> SUFFICES ASSUME Init PROVE TypesInv
    OBVIOUS
  <2>1. Types
    BY InitRinse DEF RinseInv
  <2>2. <<>> \in Seq(Fitting)
    OBVIOUS
  <2>3. MainTypes
    <3>1. file \in {<<table>> : table \in SUBSET Codes(Urls)}
      BY DEF Init
    <3>2. 1 \in 1..MaxRuns /\ 0 \in 0..MaxCrashes
      BY RinseAssumption
    <3>3. /\ lock = Nobody /\ main = "up" /\ runs = 1 /\ crashes = 0
      BY DEF Init
    <3>4. QED
      BY <3>1, <3>2, <3>3 DEF MainTypes
  <2>4. TableTypes /\ DbTypes
    BY <2>2 DEF Init, TableTypes, DbTypes
  <2>5. PictTypes
    BY DEF Init, PictTypes, Picturing, Idle
  <2>6. QED
    BY <2>1, <2>3, <2>4, <2>5 DEF TypesInv
<1>2. ASSUME RinseInv, RinseInv', TypesInv, [Next]_vars PROVE TypesInv'
  <2>1. Types'
    BY <1>2 DEF RinseInv
  <2>2. CASE \E w \in Workers, u \in Urls : RinseUrl(w, u) \/ Process(w, u)
    BY <1>2, <2>1, <2>2, RinseTypes
  <2>3. CASE \E w \in Workers : RinseStep(w) \/ PictureStep(w)
    BY <1>2, <2>1, <2>3, RinseTypes, PictureTypes
  <2>4. CASE DatabaseThread \/ OpenHistory \/ WriteHistory \/ End \/ Crash \/ Start \/ UNCHANGED vars
    BY <1>2, <2>1, <2>4, MainTypesStep
  <2>5. QED
    BY <1>2, <2>2, <2>3, <2>4 DEF Next
<1>3. QED
  BY <1>1, <1>2, RinseInvariant, PTL DEF Spec
-------------------------------------------------------------------------------
(***************************************************************************)
(* The name server: how many answers are owed, how often the loop was told *)
(* to exit.  Each URL is parsed once in a run, and asks for one exit at    *)
(* most: with its own answer, or with the last of the answers.             *)
(***************************************************************************)
Parsed == HandedUrls \cup {u \in Urls : \E w \in Workers :
                                arg[w] = u /\ pc[w] \in {"loop", "put"}}

DnsInv ==
    /\ asked \subseteq Parsed
    /\ pending = Cardinality(asked)
    /\ loopexits \in Nat
    /\ loopexits + Cardinality(asked) <= Cardinality(Parsed)

(* While no answer came at once: the worker in the loop leaves it when     *)
(* nothing is owed any more, so its URL is parsed.                         *)
ParsedInv ==
    ~hasty =>
        /\ loopexits # 0 =>
              loopexits = 1 /\ asked = {} /\ \E w \in Workers : pc[w] = "loop"
        /\ \A w \in Workers : arg[w] # NoUrl =>
              /\ pc[w] = "loop" => arg[w] \in asked \cup withIp \cup refused
              /\ pc[w] = "put" => arg[w] \in withIp \cup refused
        /\ \A h \in handed : ~h.ip => h.url \in refused

LEMMA ParsedFinite ==
  ASSUME TypesInv
  PROVE  /\ Parsed \subseteq Urls /\ IsFiniteSet(Parsed)
         /\ Cardinality(Parsed) \in Nat /\ Cardinality(Parsed) <= Cardinality(Urls)
         /\ \A S \in SUBSET Parsed : IsFiniteSet(S) /\ Cardinality(S) \in Nat
<1>1. Parsed \subseteq Urls
  BY DEF TypesInv, Types, Parsed
<1>2. QED
  BY <1>1, RinseAssumption, FS_Subset, FS_CardinalityType

(* A worker about to parse has a URL of which nobody has parsed the like.  *)
LEMMA ArgUnparsed ==
  ASSUME RinseInv, TypesInv, NEW w \in Workers, pc[w] = "parse", arg[w] # NoUrl
  PROVE  arg[w] \in Urls /\ arg[w] \notin Parsed
<1>1. arg[w] \in Urls
  BY DEF TypesInv, Types
<1>2. Code[arg[w]] \notin Codes(HandedUrls)
  BY DEF RinseInv, MarkOK, Marked, Seen
<1>3. arg[w] \notin HandedUrls
  BY <1>2 DEF Codes
<1>4. ASSUME NEW v \in Workers, pc[v] \in {"loop", "put"} PROVE FALSE
  BY <1>4 DEF RinseInv, LockOK, Holding
<1>5. QED
  BY <1>1, <1>3, <1>4 DEF Parsed

LEMMA DnsQuiet ==
  ASSUME DnsInv, UNCHANGED <<asked, pending, loopexits>>, Parsed' = Parsed
  PROVE  DnsInv'
BY DEF DnsInv

(* Steps that put no URL into the loop or out of it.                       *)
LEMMA ParsedSame ==
  ASSUME TypesInv, NEW w \in Workers, UNCHANGED handed,
         pc[w] \notin {"loop", "put"} /\ pc'[w] \notin {"loop", "put"},
         \A v \in Workers \ {w} : pc'[v] = pc[v] /\ arg'[v] = arg[v]
  PROVE  Parsed' = Parsed
BY SeenUntouched DEF Parsed

LEMMA DnsParse ==
  ASSUME RinseInv, TypesInv, TypesInv', DnsInv, NEW w \in Workers,
         ParseNothing(w) \/ ParseLater(w) \/ \E ok \in BOOLEAN : ParseAtOnce(w, ok)
  PROVE  DnsInv'
<1>1. /\ pc[w] = "parse" /\ UNCHANGED <<handed, arg>>
      /\ \E where \in {"loop", "put"} : pc' = [pc EXCEPT ![w] = where]
  BY DEF ParseNothing, ParseLater, ParseAtOnce, Goto, rinseHist
<1>2. Parsed' = IF arg[w] = NoUrl THEN Parsed ELSE Parsed \cup {arg[w]}
  <2>1. /\ HandedUrls' = HandedUrls /\ arg' = arg
        /\ \A v \in Workers : v # w => pc'[v] = pc[v]
        /\ pc'[w] \in {"loop", "put"} /\ pc[w] \notin {"loop", "put"}
        /\ arg[w] \in Urls \cup {NoUrl} /\ NoUrl \notin Urls
    BY <1>1, SeenUntouched, RinseAssumption DEF TypesInv, Types
  <2>2. \A u \in Urls :
          (\E v \in Workers : arg'[v] = u /\ pc'[v] \in {"loop", "put"})
          <=> (u = arg[w] \/ \E v \in Workers : arg[v] = u /\ pc[v] \in {"loop", "put"})
    BY <2>1
  <2>3. HandedUrls \subseteq Urls
    BY DEF TypesInv, Types
  <2>4. QED
    BY <2>1, <2>2, <2>3 DEF Parsed
<1>3. Parsed \subseteq Parsed'
  BY <1>2
<1>4. /\ Cardinality(Parsed) <= Cardinality(Parsed')
      /\ Cardinality(Parsed') \in Nat
  <2>1. IsFiniteSet(Parsed')
    BY <1>2, ParsedFinite, FS_AddElement
  <2>2. QED
    BY <1>3, <2>1, FS_Subset, FS_CardinalityType
<1>5. /\ asked \subseteq Parsed /\ pending = Cardinality(asked) /\ loopexits \in Nat
      /\ loopexits + Cardinality(asked) <= Cardinality(Parsed)
  BY DEF DnsInv
<1>6. /\ Cardinality(Parsed) \in Nat /\ Cardinality(asked) \in Nat /\ IsFiniteSet(asked)
      /\ IsFiniteSet(Parsed)
  BY <1>5, ParsedFinite
<1>7. CASE UNCHANGED <<asked, pending, loopexits>>
  <2>1. Cardinality(asked') = Cardinality(asked)
    BY <1>7
  <2>2. QED
    BY <1>3, <1>4, <1>5, <1>6, <1>7, <2>1 DEF DnsInv
<1>8. CASE arg[w] # NoUrl /\ \/ asked' = asked \cup {arg[w]} /\ pending' = pending + 1
                                /\ UNCHANGED loopexits
                             \/ UNCHANGED <<asked, pending>> /\ loopexits' = loopexits + 1
  <2>1. arg[w] \notin Parsed
    BY <1>1, <1>8, ArgUnparsed
  <2>2. Cardinality(Parsed') = Cardinality(Parsed) + 1
    BY <1>2, <1>6, <1>8, <2>1, FS_AddElement
  <2>3. CASE asked' = asked \cup {arg[w]} /\ pending' = pending + 1 /\ UNCHANGED loopexits
    <3>1. Cardinality(asked') = Cardinality(asked) + 1
      BY <1>5, <1>6, <2>1, <2>3, FS_AddElement
    <3>2. asked' \subseteq Parsed'
      BY <1>2, <1>5, <1>8, <2>3
    <3>3. QED
      BY <1>5, <1>6, <2>2, <2>3, <3>1, <3>2 DEF DnsInv
  <2>4. CASE UNCHANGED <<asked, pending>> /\ loopexits' = loopexits + 1
    BY <1>3, <1>5, <1>6, <2>2, <2>4 DEF DnsInv
  <2>5. QED
    BY <1>8, <2>3, <2>4
<1>9. QED
  BY <1>7, <1>8 DEF ParseNothing, ParseLater, ParseAtOnce, dnsVars

LEMMA DnsAnswer ==
  ASSUME TypesInv, DnsInv, NEW w \in Workers, NEW u \in Urls, NEW ok \in BOOLEAN,
         DnsCallback(w, u, ok)
  PROVE  DnsInv'
<1>1. /\ u \in asked /\ asked' = asked \ {u} /\ pending' = pending - 1
      /\ loopexits' \in {loopexits, loopexits + 1} /\ UNCHANGED <<pc, arg, handed>>
  BY DEF DnsCallback
<1>2. Parsed' = Parsed
  BY <1>1, SeenUntouched DEF Parsed
<1>3. /\ asked \subseteq Parsed /\ pending = Cardinality(asked) /\ loopexits \in Nat
      /\ loopexits + Cardinality(asked) <= Cardinality(Parsed)
  BY DEF DnsInv
<1>4. Cardinality(Parsed) \in Nat /\ Cardinality(asked) \in Nat /\ IsFiniteSet(asked)
  BY <1>3, ParsedFinite
<1>5. Cardinality(asked') = Cardinality(asked) - 1
  BY <1>1, <1>4, FS_RemoveElement
<1>6. QED
  BY <1>1, <1>2, <1>3, <1>4, <1>5 DEF DnsInv

LEMMA DnsInvariant == Spec => []DnsInv
<1>1. Init => DnsInv
  <2> SUFFICES ASSUME Init PROVE DnsInv
    OBVIOUS
  <2>1. Parsed = {} /\ asked = {} /\ pending = 0 /\ loopexits = 0
    BY DEF Init, Parsed, HandedUrls, Idle
  <2>2. QED
    BY <2>1, FS_EmptySet DEF DnsInv
<1>2. ASSUME RinseInv, TypesInv, TypesInv', DnsInv, [Next]_vars PROVE DnsInv'
  <2>1. ASSUME NEW w \in Workers, NEW u \in Urls, RinseUrl(w, u) \/ Process(w, u)
        PROVE  DnsInv'
    <3>1. /\ UNCHANGED <<asked, pending, loopexits, handed>>
          /\ pc[w] = "idle" /\ pc'[w] \in {"test", "load"}
          /\ \A v \in Workers \ {w} : pc'[v] = pc[v] /\ arg'[v] = arg[v]
      BY <1>2, <2>1 DEF RinseUrl, Process, Goto, dnsVars, rinseHist, TypesInv, Types
    <3>2. QED
      BY <1>2, <3>1, ParsedSame, DnsQuiet
  <2>2. ASSUME NEW w \in Workers, RinseStep(w)
        PROVE  DnsInv'
    <3>1. CASE ParseNothing(w) \/ ParseLater(w) \/ \E ok \in BOOLEAN : ParseAtOnce(w, ok)
      BY <1>2, <3>1, DnsParse
    <3>2. CASE \E ok \in BOOLEAN, u \in Urls : DnsCallback(w, u, ok)
      BY <1>2, <3>2, DnsAnswer
    <3>3. CASE TestUrl(w) \/ MarkUrl(w)
      <4>1. /\ UNCHANGED <<asked, pending, loopexits, handed>>
            /\ pc[w] \in {"test", "mark"} /\ pc'[w] \in {"mark", "parse"}
            /\ \A v \in Workers \ {w} : pc'[v] = pc[v] /\ arg'[v] = arg[v]
        BY <1>2, <3>3 DEF TestUrl, MarkUrl, Goto, dnsVars, rinseHist, TypesInv, Types
      <4>2. QED
        BY <1>2, <4>1, ParsedSame, DnsQuiet
    <3>4. CASE LeaveLoop(w)
      <4>1. /\ UNCHANGED <<asked, pending, handed, arg>> /\ loopexits' \in 0..loopexits - 1
            /\ pc[w] = "loop" /\ pc' = [pc EXCEPT ![w] = "put"]
        BY <3>4 DEF LeaveLoop, Goto, rinseHist
      <4>2. Parsed' = Parsed
        BY <1>2, <4>1, SeenUntouched DEF Parsed, TypesInv, Types
      <4>3. asked \subseteq Parsed /\ Cardinality(asked) \in Nat /\ Cardinality(Parsed) \in Nat
        BY <1>2, ParsedFinite DEF DnsInv
      <4>4. QED
        BY <1>2, <4>1, <4>2, <4>3 DEF DnsInv
    <3>5. CASE PutUrls(w)
      <4>1. /\ UNCHANGED <<asked, pending, loopexits>> /\ pc[w] = "put"
            /\ pc' = [pc EXCEPT ![w] = "idle"] /\ arg' = [arg EXCEPT ![w] = NoUrl]
            /\ handed' = IF arg[w] = NoUrl THEN handed
                         ELSE handed \cup {[url |-> arg[w], ip |-> arg[w] \in withIp]}
        BY <3>5 DEF PutUrls, Goto, dnsVars
      <4>2. HandedUrls' = IF arg[w] = NoUrl THEN HandedUrls ELSE HandedUrls \cup {arg[w]}
        BY <3>5, HandedByPutUrls
      <4>3. Parsed' = Parsed
        <5>1. /\ \A v \in Workers : v # w => pc'[v] = pc[v] /\ arg'[v] = arg[v]
              /\ pc'[w] \notin {"loop", "put"} /\ arg[w] \in Urls \cup {NoUrl}
              /\ NoUrl \notin Urls
          BY <1>2, <4>1, RinseAssumption DEF TypesInv, Types
        <5>2. \A u \in Urls :
                (\E v \in Workers : arg[v] = u /\ pc[v] \in {"loop", "put"})
                <=> (u = arg[w] \/ \E v \in Workers : arg'[v] = u /\ pc'[v] \in {"loop", "put"})
          BY <4>1, <5>1
        <5>3. QED
          BY <4>2, <5>1, <5>2 DEF Parsed
      <4> HIDE DEF Parsed
      <4>4. QED
        BY <1>2, <4>1, <4>3, DnsQuiet
    <3>6. QED
      BY <2>2, <3>1, <3>2, <3>3, <3>4, <3>5 DEF RinseStep
  <2>3. ASSUME NEW w \in Workers, PictureStep(w)
        PROVE  DnsInv'
    <3>1. /\ UNCHANGED <<asked, pending, loopexits, handed>>
          /\ pc[w] \in Picturing /\ pc'[w] \in Picturing \cup {"idle"}
          /\ \A v \in Workers \ {w} : pc'[v] = pc[v] /\ arg'[v] = arg[v]
      BY <1>2, <2>3 DEF PictureStep, LoadByte, StoreByte, WriteFile, FinishFile,
         InsertRecord, Goto, dnsVars, rinseHist, Picturing, TypesInv, Types
    <3>2. QED
      BY <1>2, <3>1, ParsedSame, DnsQuiet DEF Picturing
  <2>4. CASE DatabaseThread \/ OpenHistory \/ WriteHistory \/ Start \/ UNCHANGED vars
    <3>1. UNCHANGED <<asked, pending, loopexits, handed, pc, arg>>
      BY <2>4 DEF DatabaseThread, LookAtCommands, PopCommand, RunQuery, OpenHistory,
         WriteHistory, Start, vars, dnsVars, rinseHist
    <3>2. Parsed' = Parsed
      BY <3>1, SeenUntouched DEF Parsed
    <3>3. QED
      BY <1>2, <3>1, <3>2, DnsQuiet
  <2>5. CASE End \/ Crash
    <3>1. asked' = {} /\ pending' = 0 /\ loopexits' = 0 /\ Parsed' = {}
      BY <2>5 DEF End, Crash, Stop, Parsed, HandedUrls, Idle
    <3>2. QED
      BY <3>1, FS_EmptySet DEF DnsInv
  <2>6. QED
    BY <1>2, <2>1, <2>2, <2>3, <2>4, <2>5 DEF Next
<1>3. QED
  BY <1>1, <1>2, TypesInvariant, PTL DEF Spec

(* The variables of Spider_Url_Rinse have the values their types allow:    *)
(* the count of pending requests is that of the answers owed, and no more  *)
(* exits of the loop are waiting than there are URLs.                      *)
THEOREM RinseTypeCorrect == Spec => []TypeOK
<1>1. TypesInv /\ DnsInv => TypeOK
  <2> SUFFICES ASSUME TypesInv, DnsInv PROVE TypeOK
    OBVIOUS
  <2>1. asked \subseteq Urls /\ pending = Cardinality(asked)
    BY ParsedFinite DEF DnsInv
  <2>2. loopexits \in 0..Cardinality(Urls)
    <3>1. Cardinality(asked) \in Nat /\ Cardinality(Parsed) \in Nat /\ Cardinality(Urls) \in Nat
          /\ Cardinality(Parsed) <= Cardinality(Urls)
      BY ParsedFinite, RinseAssumption, FS_CardinalityType DEF DnsInv
    <3>2. QED
      BY <3>1 DEF DnsInv
  <2>3. QED
    BY <2>1, <2>2 DEF TypeOK, TypesInv, Types, TableTypes, DbTypes, PictTypes, MainTypes
<1>2. QED
  BY <1>1, TypesInvariant, DnsInvariant, PTL
-------------------------------------------------------------------------------
(* A step that does not touch what ParsedInv speaks of, but may put a URL   *)
(* into a worker's hands that was not there.                               *)
LEMMA ParsedQuiet ==
  ASSUME ParsedInv, UNCHANGED <<hasty, loopexits, asked, withIp, refused, handed>>,
         \A w \in Workers :
            \/ pc'[w] = pc[w] /\ arg'[w] = arg[w]
            \/ pc[w] # "loop" /\ pc'[w] \notin {"loop", "put"}
  PROVE  ParsedInv'
BY DEF ParsedInv

(* Nobody else is in the loop, or about to hand over, when a worker parses. *)
LEMMA AloneInLoop ==
  ASSUME RinseInv, NEW v \in Workers, NEW w \in Workers,
         pc[v] \in Holding, pc[w] \in Holding
  PROVE  v = w
BY DEF RinseInv, LockOK

LEMMA ParsedParse ==
  ASSUME RinseInv, TypesInv, DnsInv, ParsedInv, NEW w \in Workers,
         ParseNothing(w) \/ ParseLater(w) \/ \E ok \in BOOLEAN : ParseAtOnce(w, ok)
  PROVE  ParsedInv'
<1>1. /\ pc[w] = "parse" /\ UNCHANGED <<handed, arg>>
      /\ \E where \in {"loop", "put"} : pc' = [pc EXCEPT ![w] = where]
      /\ hasty => hasty'
  BY DEF ParseNothing, ParseLater, ParseAtOnce, Goto, rinseHist
<1>2. SUFFICES ASSUME ~hasty' PROVE ParsedInv'
  BY DEF ParsedInv
<1>3. ~hasty
  BY <1>1, <1>2
<1>4. \A v \in Workers \ {w} : pc[v] \notin {"loop", "put"} /\ pc'[v] = pc[v]
  BY <1>1, AloneInLoop DEF Holding, TypesInv, Types
<1>5. loopexits = 0
  BY <1>1, <1>3, <1>4 DEF ParsedInv
<1>6. loopexits' = 0
  BY <1>2, <1>3, <1>5 DEF ParseNothing, ParseLater, ParseAtOnce, dnsVars
<1>7. /\ arg[w] # NoUrl => arg[w] \in asked' \cup withIp' \cup refused'
      /\ arg[w] # NoUrl /\ pc'[w] = "put" => arg[w] \in withIp' \cup refused'
  <2>1. CASE ParseNothing(w)
    BY <2>1 DEF ParseNothing, dnsVars
  <2>2. CASE ParseLater(w)
    BY <1>1, <2>2 DEF ParseLater, Goto, TypesInv, Types
  <2>3. ASSUME NEW ok \in BOOLEAN, ParseAtOnce(w, ok)
        PROVE  arg[w] \in withIp' \cup refused'
    BY <2>3 DEF ParseAtOnce, Resolve
  <2>4. QED
    BY <2>1, <2>2, <2>3
<1>8. refused \subseteq refused'
  BY DEF ParseNothing, ParseLater, ParseAtOnce, Resolve, rinseHist
<1>9. \A h \in handed' : ~h.ip => h.url \in refused'
  BY <1>1, <1>3, <1>8, Zenon DEF ParsedInv
<1>10. \A v \in Workers : arg'[v] # NoUrl =>
           /\ pc'[v] = "loop" => arg'[v] \in asked' \cup withIp' \cup refused'
           /\ pc'[v] = "put" => arg'[v] \in withIp' \cup refused'
  BY <1>1, <1>4, <1>7
<1>11. QED
  BY <1>6, <1>9, <1>10, Zenon DEF ParsedInv

LEMMA ParsedAnswer ==
  ASSUME RinseInv, TypesInv, DnsInv, ParsedInv, NEW w \in Workers, NEW u \in Urls,
         NEW ok \in BOOLEAN, DnsCallback(w, u, ok)
  PROVE  ParsedInv'
<1>1. /\ pc[w] = "loop" /\ u \in asked /\ asked' = asked \ {u} /\ pending' = pending - 1
      /\ loopexits' = IF pending' = 0 THEN loopexits + 1 ELSE loopexits
      /\ UNCHANGED <<hasty, pc, arg, handed>>
      /\ u \in withIp' \cup refused' /\ withIp \subseteq withIp' /\ refused \subseteq refused'
  BY DEF DnsCallback, Resolve
<1>2. SUFFICES ASSUME ~hasty PROVE ParsedInv'
  BY <1>1, Zenon DEF ParsedInv
<1>3. loopexits = 0
  BY <1>1, <1>2 DEF ParsedInv
<1>4. pending' = 0 => asked' = {}
  <2>1. IsFiniteSet(asked) /\ pending = Cardinality(asked) /\ Cardinality(asked) \in Nat
    BY ParsedFinite DEF DnsInv
  <2>2. IsFiniteSet(asked') /\ Cardinality(asked') = pending'
    BY <1>1, <2>1, FS_RemoveElement
  <2>3. QED
    BY <2>2, FS_EmptySet
<1>5. loopexits' # 0 => loopexits' = 1 /\ asked' = {} /\ \E v \in Workers : pc'[v] = "loop"
  BY <1>1, <1>3, <1>4
<1>6. \A v \in Workers : arg'[v] # NoUrl =>
           /\ pc'[v] = "loop" => arg'[v] \in asked' \cup withIp' \cup refused'
           /\ pc'[v] = "put" => arg'[v] \in withIp' \cup refused'
  BY <1>1, <1>2 DEF ParsedInv
<1>7. \A h \in handed' : ~h.ip => h.url \in refused'
  BY <1>1, <1>2, Zenon DEF ParsedInv
<1>8. QED
  BY <1>5, <1>6, <1>7, Zenon DEF ParsedInv

LEMMA ParsedLeave ==
  ASSUME RinseInv, TypesInv, DnsInv, ParsedInv, NEW w \in Workers, LeaveLoop(w)
  PROVE  ParsedInv'
<1>1. /\ pc[w] = "loop" /\ pc' = [pc EXCEPT ![w] = "put"] /\ loopexits > 0
      /\ loopexits' \in 0..loopexits - 1
      /\ UNCHANGED <<hasty, arg, handed, asked, withIp, refused>>
  BY DEF LeaveLoop, Goto, rinseHist
<1>2. SUFFICES ASSUME ~hasty PROVE ParsedInv'
  BY <1>1, Zenon DEF ParsedInv
<1>3. loopexits = 1 /\ asked = {}
  BY <1>1, <1>2 DEF ParsedInv, DnsInv
<1>4. loopexits' = 0
  BY <1>1, <1>3
<1>5. \A v \in Workers : arg'[v] # NoUrl =>
           /\ pc'[v] = "loop" => arg'[v] \in asked' \cup withIp' \cup refused'
           /\ pc'[v] = "put" => arg'[v] \in withIp' \cup refused'
  BY <1>1, <1>2, <1>3 DEF ParsedInv, TypesInv, Types
<1>6. \A h \in handed' : ~h.ip => h.url \in refused'
  BY <1>1, <1>2, Zenon DEF ParsedInv
<1>7. QED
  BY <1>4, <1>5, <1>6, Zenon DEF ParsedInv

LEMMA ParsedPut ==
  ASSUME RinseInv, TypesInv, ParsedInv, NEW w \in Workers, PutUrls(w)
  PROVE  ParsedInv'
<1>1. /\ pc[w] = "put" /\ pc' = [pc EXCEPT ![w] = "idle"] /\ arg' = [arg EXCEPT ![w] = NoUrl]
      /\ UNCHANGED <<hasty, loopexits, asked, withIp, refused>>
  BY DEF PutUrls, Goto, dnsVars
<1>2. SUFFICES ASSUME ~hasty PROVE ParsedInv'
  BY <1>1, Zenon DEF ParsedInv
<1>3. arg[w] # NoUrl => arg[w] \in withIp \cup refused
  BY <1>1, <1>2 DEF ParsedInv
<1>4. \A h \in handed' : ~h.ip => h.url \in refused'
  <2>1. ASSUME NEW h \in handed', ~h.ip PROVE h.url \in refused
    <3>1. CASE h \in handed
      BY <1>2, <2>1, <3>1, Zenon DEF ParsedInv
    <3>2. CASE h \notin handed
      <4>1. h.url = arg[w] /\ arg[w] \notin withIp /\ arg[w] # NoUrl
        BY <2>1, <3>2, HandedByPutUrls, Zenon
      <4>2. QED
        BY <1>3, <4>1
    <3>3. QED
      BY <3>1, <3>2
  <2>2. QED
    BY <1>1, <2>1, Zenon
<1>5. loopexits' # 0 => loopexits' = 1 /\ asked' = {} /\ \E v \in Workers : pc'[v] = "loop"
  BY <1>1, <1>2 DEF ParsedInv, TypesInv, Types
<1>6. \A v \in Workers : arg'[v] # NoUrl =>
           /\ pc'[v] = "loop" => arg'[v] \in asked' \cup withIp' \cup refused'
           /\ pc'[v] = "put" => arg'[v] \in withIp' \cup refused'
  BY <1>1, <1>2 DEF ParsedInv, TypesInv, Types
<1>7. QED
  BY <1>4, <1>5, <1>6, Zenon DEF ParsedInv

LEMMA ParsedInvariant == Spec => []ParsedInv
<1>1. Init => ParsedInv
  BY DEF Init, ParsedInv, Idle, NoArgs
<1>2. ASSUME RinseInv, TypesInv, DnsInv, ParsedInv, [Next]_vars PROVE ParsedInv'
  <2>1. ASSUME NEW w \in Workers, NEW u \in Urls, RinseUrl(w, u) \/ Process(w, u)
        PROVE  ParsedInv'
    <3>1. /\ UNCHANGED <<hasty, loopexits, asked, withIp, refused, handed>>
          /\ pc[w] = "idle" /\ pc'[w] \in {"test", "load"}
          /\ \A v \in Workers \ {w} : pc'[v] = pc[v] /\ arg'[v] = arg[v]
      BY <1>2, <2>1 DEF RinseUrl, Process, Goto, dnsVars, rinseHist, TypesInv, Types
    <3>2. QED
      BY <1>2, <3>1, ParsedQuiet
  <2>2. ASSUME NEW w \in Workers, RinseStep(w)
        PROVE  ParsedInv'
    <3>1. CASE ParseNothing(w) \/ ParseLater(w) \/ \E ok \in BOOLEAN : ParseAtOnce(w, ok)
      BY <1>2, <3>1, ParsedParse
    <3>2. CASE \E ok \in BOOLEAN, u \in Urls : DnsCallback(w, u, ok)
      BY <1>2, <3>2, ParsedAnswer
    <3>3. CASE TestUrl(w)
      <4>1. /\ UNCHANGED <<hasty, loopexits, asked, withIp, refused, handed>>
            /\ pc[w] = "test" /\ pc'[w] \in {"mark", "parse"}
            /\ \A v \in Workers \ {w} : pc'[v] = pc[v] /\ arg'[v] = arg[v]
        BY <1>2, <3>3 DEF TestUrl, Goto, dnsVars, rinseHist, TypesInv, Types
      <4>2. QED
        BY <1>2, <4>1, ParsedQuiet
    <3>4. CASE MarkUrl(w)
      <4>1. /\ UNCHANGED <<hasty, loopexits, asked, refused, handed, arg>>
            /\ withIp \subseteq withIp'
            /\ pc[w] = "mark" /\ pc' = [pc EXCEPT ![w] = "parse"]
        BY <3>4 DEF MarkUrl, Goto, rinseHist
      <4>2. SUFFICES ASSUME ~hasty PROVE ParsedInv'
        BY <4>1, Zenon DEF ParsedInv
      <4>3. \A h \in handed' : ~h.ip => h.url \in refused'
        BY <1>2, <4>1, <4>2, Zenon DEF ParsedInv
      <4>4. loopexits' # 0 => loopexits' = 1 /\ asked' = {} /\ \E v \in Workers : pc'[v] = "loop"
        BY <1>2, <4>1, <4>2 DEF ParsedInv, TypesInv, Types
      <4>5. \A v \in Workers : arg'[v] # NoUrl =>
               /\ pc'[v] = "loop" => arg'[v] \in asked' \cup withIp' \cup refused'
               /\ pc'[v] = "put" => arg'[v] \in withIp' \cup refused'
        BY <1>2, <4>1, <4>2 DEF ParsedInv, TypesInv, Types
      <4>6. QED
        BY <4>3, <4>4, <4>5, Zenon DEF ParsedInv
    <3>5. QED
      BY <1>2, <2>2, <3>1, <3>2, <3>3, <3>4, ParsedLeave, ParsedPut DEF RinseStep
  <2>3. ASSUME NEW w \in Workers, PictureStep(w)
        PROVE  ParsedInv'
    <3>1. /\ UNCHANGED <<hasty, loopexits, asked, withIp, refused, handed>>
          /\ pc[w] \in Picturing /\ pc'[w] \in Picturing \cup {"idle"}
          /\ \A v \in Workers \ {w} : pc'[v] = pc[v] /\ arg'[v] = arg[v]
      BY <1>2, <2>3 DEF PictureStep, LoadByte, StoreByte, WriteFile, FinishFile,
         InsertRecord, Goto, dnsVars, rinseHist, Picturing, TypesInv, Types
    <3>2. QED
      BY <1>2, <3>1, ParsedQuiet DEF Picturing
  <2>4. CASE DatabaseThread \/ OpenHistory \/ WriteHistory \/ Start \/ UNCHANGED vars
    <3>1. UNCHANGED <<hasty, loopexits, asked, withIp, refused, handed, pc, arg>>
      BY <2>4 DEF DatabaseThread, LookAtCommands, PopCommand, RunQuery, OpenHistory,
         WriteHistory, Start, vars, dnsVars, rinseHist
    <3>2. QED
      BY <1>2, <3>1, ParsedQuiet
  <2>5. CASE End \/ Crash
    <3>1. loopexits' = 0 /\ handed' = {} /\ arg' = NoArgs
      BY <2>5 DEF End, Crash, Stop
    <3>2. \A v \in Workers : arg'[v] = NoUrl
      BY <3>1 DEF NoArgs
    <3>3. QED
      BY <3>1, <3>2, Zenon DEF ParsedInv
  <2>6. QED
    BY <1>2, <2>1, <2>2, <2>3, <2>4, <2>5 DEF Next
<1>3. QED
  BY <1>1, <1>2, RinseInvariant, TypesInvariant, DnsInvariant, PTL DEF Spec

(* rinse_urls hands over a URL only when its host is resolved or refused,   *)
(* for any number of workers and URLs, unless an answer came at once in    *)
(* this run (spider_url_rinse.cpp 185-216, 251-254).                        *)
THEOREM HandedOverParsed == Spec => []HandedParsed
<1>1. ParsedInv => HandedParsed
  BY Zenon DEF ParsedInv, HandedParsed
<1>2. QED
  BY <1>1, ParsedInvariant, PTL
-------------------------------------------------------------------------------
(***************************************************************************)
(* Pictures.  A worker at a picture is the only one at it in this run, so   *)
(* the name it finds on the disk is not that of a file that another writes. *)
(***************************************************************************)
Whole == (disk \ torn) \cup fileless \cup broken
InDatabase == rows \cup Range(commands) \cup ({query} \ {NoUrl})

OnePerPicture ==
    \A v, w \in Workers :
        v # w /\ pc[v] \in Picturing /\ pc[w] \in Picturing => arg[v] # arg[w]

TornOK ==
    \A u \in torn : u \in broken \/ \E w \in Workers : pc[w] = "write" /\ arg[w] = u

InsertOK ==
    \A w \in Workers :
        /\ pc[w] = "insert" => arg[w] \in Whole
        /\ pc[w] = "write" => arg[w] \in disk

PictureInv == OnePerPicture /\ TornOK /\ InsertOK /\ InDatabase \subseteq Whole

(* Steps outside of write_file.                                            *)
LEMMA PictureAway ==
  ASSUME TypesInv, PictureInv,
         UNCHANGED <<rows, commands, query, disk, torn, fileless, broken>>,
         \A w \in Workers :
            \/ pc'[w] = pc[w] /\ arg'[w] = arg[w]
            \/ pc[w] # "write" /\ pc'[w] \notin Picturing
            \/ pc[w] \in {"load", "store"} /\ pc'[w] \in {"store", "file"} /\ arg'[w] = arg[w]
  PROVE  PictureInv'
<1>1. InDatabase' = InDatabase /\ Whole' = Whole
  BY DEF InDatabase, Whole
<1>2. OnePerPicture' /\ TornOK' /\ InsertOK'
  BY <1>1 DEF PictureInv, OnePerPicture, TornOK, InsertOK, Picturing
<1>3. QED
  BY <1>1, <1>2 DEF PictureInv

LEMMA PictureTaken ==
  ASSUME TypesInv, PictureInv, NEW w \in Workers, NEW u \in Urls, Process(w, u)
  PROVE  PictureInv'
<1>1. /\ u \notin fetched /\ pc' = [pc EXCEPT ![w] = "load"] /\ arg' = [arg EXCEPT ![w] = u]
      /\ pc[w] = "idle"
      /\ UNCHANGED <<rows, commands, query, disk, torn, fileless, broken>>
  BY DEF Process, Goto, dbVars, diskVars
<1>2. InDatabase' = InDatabase /\ Whole' = Whole
  BY <1>1 DEF InDatabase, Whole
<1>3. \A v \in Workers \ {w} : pc'[v] = pc[v] /\ arg'[v] = arg[v]
  BY <1>1 DEF TypesInv, Types
<1>4. pc'[w] = "load" /\ arg'[w] = u
  BY <1>1 DEF TypesInv, Types
<1>5. \A v \in Workers : pc[v] \in Picturing => arg[v] # u
  BY <1>1 DEF TypesInv, PictTypes
<1>6. OnePerPicture'
  BY <1>3, <1>4, <1>5 DEF PictureInv, OnePerPicture
<1>7. TornOK' /\ InsertOK'
  BY <1>1, <1>2, <1>3, <1>4 DEF PictureInv, TornOK, InsertOK
<1>8. QED
  BY <1>2, <1>6, <1>7 DEF PictureInv

LEMMA PictureWritten ==
  ASSUME TypesInv, PictureInv, NEW w \in Workers, WriteFile(w) \/ FinishFile(w)
  PROVE  PictureInv'
<1>1. /\ UNCHANGED <<rows, commands, query, broken>> /\ InDatabase' = InDatabase
      /\ pc[w] \in {"file", "write"}
  BY DEF WriteFile, FinishFile, dbVars, pictHist, InDatabase
<1>2. \A v \in Workers : v # w /\ pc[v] \in Picturing => arg[v] # arg[w]
  BY <1>1 DEF PictureInv, OnePerPicture, Picturing
<1>3. \A v \in Workers \ {w} : pc'[v] = pc[v] /\ arg'[v] = arg[v]
  BY DEF WriteFile, FinishFile, Goto, TypesInv, Types
<1>4. pc'[w] \in {"idle", "write", "insert"} /\ (pc'[w] # "idle" => arg'[w] = arg[w])
  BY DEF WriteFile, FinishFile, Goto, TypesInv, Types
<1>5. OnePerPicture'
  BY <1>1, <1>2, <1>3, <1>4 DEF PictureInv, OnePerPicture, Picturing
<1>6. ASSUME arg[w] \in disk, pc[w] = "file"
      PROVE  arg[w] \in Whole
  <2>1. CASE arg[w] \in torn
    <3>1. ~\E v \in Workers : pc[v] = "write" /\ arg[v] = arg[w]
      BY <1>2, <1>6 DEF Picturing
    <3>2. QED
      BY <2>1, <3>1 DEF PictureInv, TornOK, Whole
  <2>2. QED
    BY <1>6, <2>1 DEF Whole
<1>7. CASE /\ WriteFile(w) /\ UNCHANGED diskVars
           /\ \/ arg[w] \in disk /\ pc'[w] = "insert" /\ UNCHANGED fileless
              \/ fileless' = fileless \cup {arg[w]} /\ pc'[w] = "insert"
              \/ pc'[w] = "idle" /\ UNCHANGED fileless
  <2>1. Whole \subseteq Whole' /\ (pc'[w] = "insert" => arg[w] \in Whole')
    BY <1>1, <1>6, <1>7 DEF Whole, diskVars, WriteFile
  <2>2. TornOK'
    BY <1>1, <1>3, <1>7 DEF PictureInv, TornOK, diskVars, WriteFile
  <2>3. InsertOK'
    BY <1>3, <1>4, <1>7, <2>1 DEF PictureInv, InsertOK, diskVars
  <2>4. QED
    BY <1>1, <1>5, <2>1, <2>2, <2>3 DEF PictureInv
<1>8. CASE /\ WriteFile(w) /\ arg[w] \notin disk /\ disk' = disk \cup {arg[w]}
           /\ torn' = torn \cup {arg[w]} /\ pc'[w] = "write" /\ UNCHANGED fileless
  <2>1. Whole \subseteq Whole'
    BY <1>1, <1>8 DEF Whole
  <2>2. arg'[w] = arg[w] /\ pc[w] = "file"
    BY <1>4, <1>8 DEF WriteFile
  <2>3. TornOK'
    BY <1>1, <1>3, <1>8, <2>2 DEF PictureInv, TornOK
  <2>4. InsertOK'
    BY <1>3, <1>8, <2>1, <2>2 DEF PictureInv, InsertOK
  <2>5. QED
    BY <1>1, <1>5, <2>1, <2>3, <2>4 DEF PictureInv
<1>9. CASE FinishFile(w)
  <2>1. /\ torn' = torn \ {arg[w]} /\ UNCHANGED <<disk, fileless, arg>>
        /\ pc'[w] = "insert" /\ pc[w] = "write"
    BY <1>9 DEF FinishFile, Goto, pictHist, TypesInv, Types
  <2>2. Whole \subseteq Whole'
    BY <1>1, <2>1 DEF Whole
  <2>3. arg[w] \in Whole'
    BY <2>1 DEF Whole, PictureInv, InsertOK
  <2>4. TornOK'
    BY <1>1, <1>3, <2>1 DEF PictureInv, TornOK
  <2>5. InsertOK'
    BY <1>3, <2>1, <2>2, <2>3 DEF PictureInv, InsertOK
  <2>6. QED
    BY <1>1, <1>5, <2>2, <2>4, <2>5 DEF PictureInv
<1>10. QED
  BY <1>7, <1>8, <1>9 DEF WriteFile, Goto, TypesInv, Types

LEMMA PictureQueued ==
  ASSUME TypesInv, PictureInv, NEW w \in Workers, InsertRecord(w)
  PROVE  PictureInv'
<1>1. /\ pc[w] = "insert" /\ commands' \in {commands, Append(commands, arg[w])}
      /\ pc' = [pc EXCEPT ![w] = "idle"] /\ arg' = [arg EXCEPT ![w] = NoUrl]
      /\ UNCHANGED <<rows, query, disk, torn, fileless, broken>>
  BY DEF InsertRecord, Goto, diskVars, pictHist
<1>2. Whole' = Whole /\ arg[w] \in Whole
  BY <1>1 DEF Whole, PictureInv, InsertOK
<1>3. commands \in Seq(Fitting) /\ arg[w] \in Fitting
  BY <1>1 DEF TypesInv, DbTypes, PictTypes
<1>4. Range(commands') \subseteq Range(commands) \cup {arg[w]}
  <2>1. CASE commands' = commands
    BY <2>1
  <2>2. CASE commands' = Append(commands, arg[w])
    <3>1. /\ Len(commands') = Len(commands) + 1
          /\ \A i \in 1..Len(commands) : commands'[i] = commands[i]
          /\ commands'[Len(commands) + 1] = arg[w] /\ commands' \in Seq(Fitting)
      BY <1>3, <2>2, AppendProperties
    <3>2. /\ DOMAIN commands = 1..Len(commands) /\ DOMAIN commands' = 1..Len(commands')
          /\ Len(commands) \in Nat
      BY <1>3, <3>1, LenProperties
    <3>3. ASSUME NEW i \in DOMAIN commands'
          PROVE  commands'[i] \in Range(commands) \cup {arg[w]}
      <4>1. i \in 1..Len(commands) \/ i = Len(commands) + 1
        BY <3>1, <3>2
      <4>2. QED
        BY <3>1, <3>2, <4>1 DEF Range
    <3>4. QED
      BY <3>3 DEF Range
  <2>3. QED
    BY <1>1, <2>1, <2>2
<1>5. InDatabase' \subseteq Whole'
  BY <1>1, <1>2, <1>4 DEF InDatabase, PictureInv
<1>6. OnePerPicture' /\ TornOK' /\ InsertOK'
  BY <1>1, <1>2 DEF PictureInv, OnePerPicture, TornOK, InsertOK, Picturing, TypesInv, Types
<1>7. QED
  BY <1>5, <1>6 DEF PictureInv

LEMMA PictureDatabase ==
  ASSUME TypesInv, PictureInv, DatabaseThread
  PROVE  PictureInv'
<1>1. UNCHANGED <<pc, arg, disk, torn, fileless, broken>>
  BY DEF DatabaseThread, LookAtCommands, PopCommand, RunQuery, diskVars, pictHist
<1>2. Whole' = Whole /\ OnePerPicture' /\ TornOK' /\ InsertOK'
  BY <1>1 DEF Whole, PictureInv, OnePerPicture, TornOK, InsertOK
<1>3. InDatabase' \subseteq InDatabase
  <2>1. CASE LookAtCommands
    BY <2>1 DEF LookAtCommands, InDatabase
  <2>2. CASE PopCommand
    <3>1. commands \in Seq(Fitting) /\ commands # <<>>
      BY <2>2 DEF PopCommand, TypesInv, DbTypes
    <3>2. /\ Tail(commands) \in Seq(Fitting) /\ Len(Tail(commands)) = Len(commands) - 1
          /\ \A i \in 1..Len(Tail(commands)) : Tail(commands)[i] = commands[i + 1]
          /\ Head(commands) = commands[1]
      BY <3>1, HeadTailProperties
    <3>3. /\ DOMAIN commands = 1..Len(commands) /\ Len(commands) \in Nat /\ Len(commands) # 0
          /\ DOMAIN Tail(commands) = 1..Len(Tail(commands))
      BY <3>1, <3>2, LenProperties, EmptySeq
    <3>4. Range(Tail(commands)) \subseteq Range(commands)
      <4>1. ASSUME NEW i \in DOMAIN Tail(commands)
            PROVE  i + 1 \in DOMAIN commands /\ Tail(commands)[i] = commands[i + 1]
        BY <3>2, <3>3
      <4>2. QED
        BY <4>1 DEF Range
    <3>5. Head(commands) \in Range(commands)
      BY <3>2, <3>3 DEF Range
    <3>6. QED
      BY <2>2, <3>4, <3>5 DEF PopCommand, InDatabase
  <2>3. CASE RunQuery
    <3>1. /\ rows' \in {rows, rows \cup {query}} /\ query' = NoUrl /\ query # NoUrl
          /\ UNCHANGED commands
      BY <2>3 DEF RunQuery, TypesInv, DbTypes
    <3>2. QED
      BY <3>1 DEF InDatabase
  <2>4. QED
    BY <2>1, <2>2, <2>3 DEF DatabaseThread
<1>4. QED
  BY <1>2, <1>3 DEF PictureInv

LEMMA PictureStop ==
  ASSUME TypesInv, PictureInv, Stop
  PROVE  PictureInv'
<1>1. /\ UNCHANGED <<rows, disk, torn, fileless>> /\ broken' = broken \cup torn
      /\ pc' = Idle /\ commands' = <<>> /\ query' = NoUrl
  BY DEF Stop, diskVars
<1>2. Whole \subseteq Whole'
  BY <1>1 DEF Whole
<1>3. Range(commands') = {}
  BY <1>1 DEF Range
<1>4. InDatabase' \subseteq Whole'
  BY <1>1, <1>2, <1>3 DEF InDatabase, PictureInv
<1>5. OnePerPicture' /\ TornOK' /\ InsertOK'
  BY <1>1 DEF OnePerPicture, TornOK, InsertOK, Idle, Picturing
<1>6. QED
  BY <1>4, <1>5 DEF PictureInv

(* A record in the database, or on its way, is that of a whole picture, but *)
(* for an fopen that failed and a file cut by the end of an earlier run:   *)
(* for any number of workers, pictures, runs and crashes                   *)
(* (spider_storage.cpp 42-69, spider_database.cpp 43-66).                   *)
THEOREM RecordsHaveFiles == Spec => []RecordHasFile
<1>1. Init => PictureInv
  BY DEF Init, PictureInv, OnePerPicture, TornOK, InsertOK, InDatabase, Picturing, Idle, Range
<1>2. ASSUME TypesInv, PictureInv, [Next]_vars PROVE PictureInv'
  <2>1. ASSUME NEW w \in Workers, NEW u \in Urls, RinseUrl(w, u)
        PROVE  PictureInv'
    <3>1. /\ UNCHANGED <<rows, commands, query, disk, torn, fileless, broken>>
          /\ pc[w] = "idle" /\ pc'[w] = "test"
          /\ \A v \in Workers \ {w} : pc'[v] = pc[v] /\ arg'[v] = arg[v]
      BY <1>2, <2>1 DEF RinseUrl, Goto, dbVars, diskVars, pictHist, TypesInv, Types
    <3>2. QED
      BY <1>2, <3>1, PictureAway DEF Picturing
  <2>2. ASSUME NEW w \in Workers, RinseStep(w)
        PROVE  PictureInv'
    <3>1. UNCHANGED <<rows, commands, query, disk, torn, fileless, broken>>
      BY <2>2 DEF RinseStep, TestUrl, MarkUrl, ParseNothing, ParseLater, LeaveLoop, PutUrls,
         ParseAtOnce, DnsCallback, dbVars, diskVars, pictHist
    <3>2. /\ pc[w] \in Holding /\ pc'[w] \in Holding \cup {"idle"}
          /\ \A v \in Workers \ {w} : pc'[v] = pc[v] /\ arg'[v] = arg[v]
      BY <1>2, <2>2 DEF RinseStep, TestUrl, MarkUrl, ParseNothing, ParseLater, LeaveLoop,
         PutUrls, ParseAtOnce, DnsCallback, Goto, Holding, TypesInv, Types
    <3>3. QED
      BY <1>2, <3>1, <3>2, PictureAway DEF Picturing, Holding
  <2>3. ASSUME NEW w \in Workers, LoadByte(w) \/ StoreByte(w)
        PROVE  PictureInv'
    <3>1. UNCHANGED <<rows, commands, query, disk, torn, fileless, broken>>
      BY <2>3 DEF LoadByte, StoreByte, dbVars, diskVars, pictHist
    <3>2. /\ pc[w] \in {"load", "store"}
          /\ \/ pc'[w] \in {"store", "file"} /\ arg'[w] = arg[w]
             \/ pc'[w] = "idle"
          /\ \A v \in Workers \ {w} : pc'[v] = pc[v] /\ arg'[v] = arg[v]
      BY <1>2, <2>3 DEF LoadByte, StoreByte, Goto, TypesInv, Types
    <3>3. QED
      BY <1>2, <3>1, <3>2, PictureAway DEF Picturing
  <2>4. CASE OpenHistory \/ WriteHistory \/ Start \/ UNCHANGED vars
    <3>1. UNCHANGED <<rows, commands, query, disk, torn, fileless, broken, pc, arg>>
      BY <2>4 DEF OpenHistory, WriteHistory, Start, vars, dbVars, diskVars, pictHist
    <3>2. QED
      BY <1>2, <3>1, PictureAway
  <2>5. CASE End \/ Crash
    BY <1>2, <2>5, PictureStop DEF End, Crash
  <2>6. QED
    BY <1>2, <2>1, <2>2, <2>3, <2>4, <2>5, PictureTaken, PictureWritten, PictureQueued,
       PictureDatabase DEF Next, PictureStep
<1>3. PictureInv => RecordHasFile
  BY DEF PictureInv, InDatabase, Whole, RecordHasFile
<1>4. QED
  BY <1>1, <1>2, <1>3, TypesInvariant, PTL DEF Spec
-------------------------------------------------------------------------------
(***************************************************************************)
(* What was passed over.                                                   *)
(***************************************************************************)
InHand == {u \in Urls : \E w \in Workers : arg[w] = u /\ pc[w] \in {"parse", "loop", "put"}}

(* What the history knows was fetched and recorded, by this run or before. *)
HistoryInv ==
    /\ history \subseteq Codes(kept \cup recorded)
    /\ InFile \subseteq Codes(kept)
    /\ \A w \in Workers : byte[w] \subseteq Codes(kept \cup recorded)

SkipInv == HistoryInv /\ urlTable \subseteq Codes(HandedUrls \cup kept \cup InHand)

LEMMA CodesMonotonic ==
  ASSUME NEW S, NEW T, S \subseteq T
  PROVE  Codes(S) \subseteq Codes(T)
BY DEF Codes

(* Nothing that is known or in hand is forgotten.                          *)
LEMMA SkipQuiet ==
  ASSUME SkipInv, UNCHANGED <<urlTable, history, file, byte, recorded, kept>>,
         HandedUrls \cup InHand \subseteq HandedUrls' \cup InHand'
  PROVE  SkipInv'
<1>1. InFile' = InFile
  BY InFileOf
<1>2. Codes(HandedUrls \cup kept \cup InHand) \subseteq Codes(HandedUrls' \cup kept \cup InHand')
  <2>1. HandedUrls \cup kept \cup InHand \subseteq HandedUrls' \cup kept \cup InHand'
    OBVIOUS
  <2>2. QED
    BY <2>1, CodesMonotonic
<1>3. Codes(HandedUrls \cup kept \cup InHand)' = Codes(HandedUrls' \cup kept \cup InHand')
  BY DEF Codes
<1>4. HistoryInv'
  BY <1>1 DEF SkipInv, HistoryInv, Codes
<1>5. QED
  BY <1>2, <1>3, <1>4 DEF SkipInv

LEMMA SkipRinse ==
  ASSUME TypesInv, SkipInv, NEW w \in Workers,
         RinseStep(w) \/ \E u \in Urls : RinseUrl(w, u) \/ Process(w, u)
  PROVE  SkipInv'
<1>1. UNCHANGED <<history, file, byte, recorded, kept>>
  BY DEF RinseStep, RinseUrl, Process, TestUrl, MarkUrl, ParseNothing, ParseLater,
     LeaveLoop, PutUrls, ParseAtOnce, DnsCallback, pictHist, mainVars
<1>2. \A v \in Workers \ {w} : pc'[v] = pc[v] /\ arg'[v] = arg[v]
  BY DEF RinseStep, RinseUrl, Process, TestUrl, MarkUrl, ParseNothing, ParseLater,
     LeaveLoop, PutUrls, ParseAtOnce, DnsCallback, Goto, TypesInv, Types
<1>3. CASE PutUrls(w)
  <2>1. HandedUrls' = IF arg[w] = NoUrl THEN HandedUrls ELSE HandedUrls \cup {arg[w]}
    BY <1>3, HandedByPutUrls
  <2>2. InHand \subseteq InHand' \cup {arg[w]}
    BY <1>2 DEF InHand
  <2>3. HandedUrls \cup InHand \subseteq HandedUrls' \cup InHand'
    BY <2>1, <2>2, RinseAssumption DEF InHand
  <2>4. UNCHANGED urlTable
    BY <1>3 DEF PutUrls, tableVars
  <2>5. QED
    BY <1>1, <2>3, <2>4, SkipQuiet
<1>4. CASE MarkUrl(w)
  <2>1. /\ urlTable' = urlTable \cup {Code[arg[w]]} /\ UNCHANGED <<arg, handed>>
        /\ pc[w] = "mark" /\ pc' = [pc EXCEPT ![w] = "parse"] /\ arg[w] \in Urls
    BY <1>4 DEF MarkUrl, Goto, rinseHist, TypesInv, Types
  <2>2. InHand' = InHand \cup {arg[w]}
    <3>1. pc'[w] = "parse"
      BY <2>1 DEF TypesInv, Types
    <3>2. \A u \in Urls : (\E v \in Workers : arg'[v] = u /\ pc'[v] \in {"parse", "loop", "put"})
             <=> (u = arg[w] \/ \E v \in Workers : arg[v] = u /\ pc[v] \in {"parse", "loop", "put"})
      BY <1>2, <2>1, <3>1
    <3>3. QED
      BY <2>1, <3>2 DEF InHand
  <2>3. HandedUrls' = HandedUrls /\ InFile' = InFile
    BY <1>1, <2>1, SeenUntouched, InFileOf
  <2>4. HistoryInv'
    BY <1>1, <2>3 DEF SkipInv, HistoryInv, Codes
  <2>5. Codes(HandedUrls \cup kept \cup InHand)' = Codes(HandedUrls \cup kept \cup (InHand \cup {arg[w]}))
    BY <1>1, <2>2, <2>3 DEF Codes
  <2>6. /\ Codes(HandedUrls \cup kept \cup InHand)
              \subseteq Codes(HandedUrls \cup kept \cup (InHand \cup {arg[w]}))
        /\ Code[arg[w]] \in Codes(HandedUrls \cup kept \cup (InHand \cup {arg[w]}))
    BY DEF Codes
  <2>7. QED
    BY <2>1, <2>4, <2>5, <2>6 DEF SkipInv
<1>5. CASE ~PutUrls(w) /\ ~MarkUrl(w)
  <2>1. UNCHANGED <<urlTable, handed>>
    BY <1>5 DEF RinseStep, RinseUrl, Process, TestUrl, ParseNothing, ParseLater,
       LeaveLoop, ParseAtOnce, DnsCallback, tableVars, rinseHist
  <2>2. \/ pc[w] \notin {"parse", "loop", "put"}
        \/ pc'[w] \in {"loop", "put"} /\ arg'[w] = arg[w]
    BY <1>5 DEF RinseStep, RinseUrl, Process, TestUrl, ParseNothing, ParseLater,
       LeaveLoop, ParseAtOnce, DnsCallback, Goto, TypesInv, Types
  <2>3. InHand \subseteq InHand' /\ HandedUrls' = HandedUrls
    BY <1>2, <2>1, <2>2, SeenUntouched DEF InHand
  <2>4. QED
    BY <1>1, <2>1, <2>3, SkipQuiet
<1>6. QED
  BY <1>3, <1>4, <1>5

LEMMA SkipPicture ==
  ASSUME TypesInv, SkipInv, NEW w \in Workers, PictureStep(w)
  PROVE  SkipInv'
<1>1. /\ UNCHANGED <<urlTable, file, handed, kept>> /\ pc[w] \in Picturing
      /\ \A v \in Workers \ {w} : pc'[v] = pc[v] /\ arg'[v] = arg[v]
  BY DEF PictureStep, LoadByte, StoreByte, WriteFile, FinishFile, InsertRecord, Goto,
     tableVars, mainVars, rinseHist, pictHist, Picturing, TypesInv, Types
<1>2. InHand \subseteq InHand' /\ HandedUrls' = HandedUrls /\ InFile' = InFile
  BY <1>1, SeenUntouched, InFileOf DEF InHand, Picturing
<1>3. CASE UNCHANGED <<history, byte, recorded>>
  BY <1>1, <1>2, <1>3, SkipQuiet
<1>4. CASE LoadByte(w) \/ StoreByte(w)
  <2>1. /\ recorded \subseteq recorded'
        /\ history' \subseteq history \cup byte[w] \cup Codes(recorded')
        /\ \A v \in Workers : byte'[v] \subseteq byte[v] \cup history
    <3>1. CASE LoadByte(w)
      BY <3>1 DEF LoadByte, pictHist, TypesInv, Types
    <3>2. CASE StoreByte(w)
      <4>1. Code[arg[w]] \in Codes(recorded')
        BY <3>2 DEF StoreByte, Codes
      <4>2. QED
        BY <3>2, <4>1 DEF StoreByte, TypesInv, Types
    <3>3. QED
      BY <1>4, <3>1, <3>2
  <2>2. Codes(kept \cup recorded) \subseteq Codes(kept \cup recorded')
    BY <2>1, CodesMonotonic
  <2>3. Codes(recorded') \subseteq Codes(kept \cup recorded')
    BY CodesMonotonic
  <2>4. Codes(kept \cup recorded)' = Codes(kept \cup recorded') /\ Codes(kept)' = Codes(kept)
    BY <1>1 DEF Codes
  <2>5. HistoryInv'
    BY <1>2, <2>1, <2>2, <2>3, <2>4 DEF SkipInv, HistoryInv
  <2>6. HandedUrls \cup kept \cup InHand \subseteq HandedUrls \cup kept \cup InHand'
    BY <1>2
  <2>7. Codes(HandedUrls \cup kept \cup InHand)' = Codes(HandedUrls \cup kept \cup InHand')
    BY <1>1, <1>2 DEF Codes
  <2>8. Codes(HandedUrls \cup kept \cup InHand) \subseteq Codes(HandedUrls \cup kept \cup InHand')
    BY <2>6, CodesMonotonic
  <2>9. QED
    BY <1>1, <2>5, <2>7, <2>8 DEF SkipInv
<1>5. QED
  BY <1>3, <1>4 DEF PictureStep, WriteFile, FinishFile, InsertRecord, pictHist

LEMMA SkipMain ==
  ASSUME TypesInv, SkipInv,
         DatabaseThread \/ OpenHistory \/ WriteHistory \/ End \/ Crash \/ Start \/ UNCHANGED vars
  PROVE  SkipInv'
<1>1. CASE DatabaseThread \/ UNCHANGED vars
  <2>1. UNCHANGED <<urlTable, history, file, byte, recorded, kept, handed, pc, arg>>
    BY <1>1 DEF DatabaseThread, LookAtCommands, PopCommand, RunQuery, vars, tableVars,
       mainVars, rinseHist, pictHist
  <2>2. HandedUrls' = HandedUrls /\ InHand' = InHand
    BY <2>1, SeenUntouched DEF InHand
  <2>3. QED
    BY <2>1, <2>2, SkipQuiet
<1>2. CASE OpenHistory \/ WriteHistory
  <2>1. /\ UNCHANGED <<urlTable, history, byte, recorded, handed, pc, arg>>
        /\ \/ file' = <<>> /\ UNCHANGED kept
           \/ file' = <<history>> /\ kept' = kept \cup recorded
    BY <1>2 DEF OpenHistory, WriteHistory, tableVars, rinseHist, pictHist
  <2>2. HandedUrls' = HandedUrls /\ InHand' = InHand
    BY <2>1, SeenUntouched DEF InHand
  <2>3. /\ Codes(kept \cup recorded)' = Codes(kept' \cup recorded)
        /\ Codes(kept)' = Codes(kept')
        /\ Codes(HandedUrls \cup kept \cup InHand)' = Codes(HandedUrls \cup kept' \cup InHand)
    BY <2>1, <2>2 DEF Codes
  <2>4. kept \subseteq kept'
    BY <2>1
  <2>5. /\ Codes(kept \cup recorded) \subseteq Codes(kept' \cup recorded)
        /\ Codes(HandedUrls \cup kept \cup InHand) \subseteq Codes(HandedUrls \cup kept' \cup InHand)
    BY <2>4 DEF Codes
  <2>6. InFile' \subseteq Codes(kept')
    BY <2>1, InFileOf DEF SkipInv, HistoryInv
  <2>7. QED
    BY <2>1, <2>3, <2>5, <2>6 DEF SkipInv, HistoryInv
<1>3. CASE End \/ Crash
  <2>1. Stop
    BY <1>3 DEF End, Crash
  <2>2. urlTable' = {} /\ history' = {} /\ byte' = NoBytes /\ UNCHANGED <<file, kept>>
    BY <2>1 DEF Stop
  <2>3. InFile' = InFile /\ Codes(kept)' = Codes(kept)
    BY <2>2, InFileOf DEF Codes
  <2>4. QED
    BY <2>2, <2>3 DEF SkipInv, HistoryInv, NoBytes
<1>4. CASE Start
  <2>1. /\ urlTable' = InFile /\ history' = InFile
        /\ UNCHANGED <<file, byte, recorded, kept, handed, pc, arg>>
    BY <1>4 DEF Start, rinseHist, pictHist
  <2>2. HandedUrls' = HandedUrls /\ InHand' = InHand /\ InFile' = InFile
    BY <2>1, SeenUntouched, InFileOf DEF InHand
  <2>3. /\ Codes(kept \cup recorded)' = Codes(kept \cup recorded) /\ Codes(kept)' = Codes(kept)
        /\ Codes(HandedUrls \cup kept \cup InHand)' = Codes(HandedUrls \cup kept \cup InHand)
    BY <2>1, <2>2 DEF Codes
  <2>4. /\ Codes(kept) \subseteq Codes(kept \cup recorded)
        /\ Codes(kept) \subseteq Codes(HandedUrls \cup kept \cup InHand)
    BY DEF Codes
  <2>5. QED
    BY <2>1, <2>2, <2>3, <2>4 DEF SkipInv, HistoryInv
<1>5. QED
  BY <1>1, <1>2, <1>3, <1>4

(* A URL is passed over only for one with its code that this run has, or    *)
(* has in hand, or that was recorded and saved: for any hash function,     *)
(* workers, runs and crashes (spider_url_rinse.cpp 119-155, 174-182,        *)
(* 258-300).                                                               *)
THEOREM SkippedRightly == Spec => []SkippedForReason
<1>1. Init => SkipInv
  <2> SUFFICES ASSUME Init PROVE SkipInv
    OBVIOUS
  <2>1. InFile = {}
    BY InFileOf DEF Init
  <2>2. QED
    BY <2>1 DEF Init, SkipInv, HistoryInv, NoBytes
<1>2. ASSUME TypesInv, SkipInv, [Next]_vars PROVE SkipInv'
  BY <1>2, SkipRinse, SkipPicture, SkipMain DEF Next
<1>3. SkipInv => SkippedForReason
  <2>1. {u \in Urls : \E w \in Workers : arg[w] = u /\ pc[w] \in {"parse", "loop", "put"}} = InHand
    BY DEF InHand
  <2>2. QED
    BY <2>1 DEF SkipInv, SkippedForReason, HandedUrls
<1>4. QED
  BY <1>1, <1>2, <1>3, TypesInvariant, PTL DEF Spec
===============================================================================
