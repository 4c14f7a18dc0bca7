----------------------------- MODULE SpiderUrlRinse -----------------------------
(***************************************************************************)
(* Spider_Url_Rinse with Spider_Storage and Spider_Database: which URLs    *)
(* are crawled, which pictures are kept, and what the next run knows.      *)
(*                                                                         *)
(* The pool's workers call rinse_url for each link of a page, and write_file *)
(* for each picture; main() does the former for the seeds and is one more  *)
(* worker then.  rinse_urls holds m_queue_mutex, while it waits for the    *)
(* name server too; search_and_record_history holds nothing.  The          *)
(* database's own thread runs the queued INSERTs.  main() writes the       *)
(* history table to its file now and then, and before it ends; the next    *)
(* run of the program reads it.                                            *)
(*                                                                         *)
(* A table of bits is the set of the codes whose bit is set.               *)
(***************************************************************************)
EXTENDS Naturals, Sequences, FiniteSets, Functions

CONSTANTS
    Urls,      \* URLs the pages link to
    Pictures,  \* those whose type is UT_PICT
    Fitting,   \* the pictures whose length is in pic_size_
    Code,      \* url_hash_code
    Domain,    \* the host of a URL
    DomainCode, \* domain_hashcode
    Immediate, \* the hosts evdns_getaddrinfo answers before it returns
    Workers, NoUrl, Nobody,
    MaxRuns,   \* how often the program is started
    MaxCrashes

ASSUME RinseAssumption ==
    /\ IsFiniteSet(Urls) /\ Pictures \subseteq Urls /\ Fitting \subseteq Pictures
    /\ Code \in [Urls -> Nat]
    /\ Urls \subseteq DOMAIN Domain /\ Range(Domain) \subseteq DOMAIN DomainCode
    /\ NoUrl \notin Urls /\ Nobody \notin Workers
    /\ MaxRuns \in Nat \ {0} /\ MaxCrashes \in Nat

VARIABLES
    urlTable,    \* m_url_table
    domainTable, \* m_domain_table
    dnsDatabase, \* the domain of m_dns_database
    history,     \* m_history_url_table
    lock,        \* who holds m_queue_mutex
    pc, arg,     \* where a worker is, and the URL it is at
    byte,        \* the byte of m_history_url_table that it has loaded
    pending,     \* g_pending_requests
    asked,       \* the URLs of which evdns owes an answer
    withIp,      \* the URLs whose ip is set
    loopexits,   \* event_base_loopexit's events that have not run
    commands,    \* m_commands
    dbPc, query, \* where the database's thread is, the command it has popped
    main,        \* where main() is
    file,        \* the history file: << >> from fopen to fclose, << table >> then
    disk,        \* the pictures in storage_path
    torn,        \* those of them of which fclose has not been called
    rows,        \* the rows of hd_paints
    runs, crashes,
    handed,      \* history: put_urls's URLs in this run, and whether with ip
    refused,     \* history: the URLs whose domain evdns could not parse
    hasty,       \* history: in this run, a loopexit was asked for outside the loop
    fetched,     \* history: the pictures given to process in this run
    recorded,    \* history: those of search_and_record_history in this run
    kept,        \* history: those of them that a write_history has saved
    fileless,    \* history: the pictures whose file could not be opened
    broken       \* history: those whose file was open when a process ended

tableVars == <<urlTable, domainTable, dnsDatabase>>
dnsVars == <<pending, asked, withIp, loopexits>>
dbVars == <<commands, dbPc, query, rows>>
rinseHist == <<handed, refused, hasty>>
pictHist == <<fetched, recorded, kept, fileless, broken>>
diskVars == <<disk, torn>>
mainVars == <<main, file, runs, crashes>>
vars == <<tableVars, history, lock, pc, arg, byte, dnsVars, dbVars, mainVars,
          diskVars, rinseHist, pictHist>>

InFile == UNION Range(file)
Codes(S) == {Code[u] : u \in S}

(* The bits that share a byte with code c.                                 *)
ByteOf(c) == {d \in Codes(Urls) : d \div 8 = c \div 8}

PC == {"idle", "test", "mark", "parse", "loop", "put",
       "load", "store", "file", "write", "insert"}

(* evdns_base_free has not been called.                                    *)
Up == main \in {"up", "writing", "saving"}

Idle == [w \in Workers |-> "idle"]
NoArgs == [w \in Workers |-> NoUrl]
NoBytes == [w \in Workers |-> {}]

(* The history file of a first run is empty.                               *)
Init ==
    /\ urlTable = {} /\ history = {} /\ domainTable = {} /\ dnsDatabase = {}
    /\ lock = Nobody /\ pc = Idle /\ arg = NoArgs /\ byte = NoBytes
    /\ pending = 0 /\ asked = {} /\ withIp = {} /\ loopexits = 0
    /\ commands = <<>> /\ dbPc = "look" /\ query = NoUrl
    /\ handed = {} /\ refused = {} /\ hasty = FALSE
    /\ fetched = {} /\ recorded = {} /\ kept = {} /\ fileless = {} /\ broken = {}
    /\ main = "up" /\ runs = 1 /\ crashes = 0
    /\ file = <<{}>> /\ disk = {} /\ torn = {} /\ rows = {}

Goto(w, where) == pc' = [pc EXCEPT ![w] = where]
-------------------------------------------------------------------------------
(* rinse_url.                                                              *)

(* Mutant: no Recursive_Lock. *)
RinseUrlUnlocked(w, u) ==
    /\ Up /\ pc[w] = "idle"
    /\ lock' = w
    /\ Goto(w, "test") /\ arg' = [arg EXCEPT ![w] = u]
    /\ UNCHANGED <<tableVars, history, byte, dnsVars, dbVars, mainVars, diskVars,
                   rinseHist, pictHist>>

(* A page links to u, or it is a seed's start page: rinse_urls gets the     *)
(* lock.                                                                   *)
RinseUrl(w, u) ==
    /\ Up /\ pc[w] = "idle" /\ lock = Nobody
    /\ lock' = w
    /\ Goto(w, "test") /\ arg' = [arg EXCEPT ![w] = u]
    /\ UNCHANGED <<tableVars, history, byte, dnsVars, dbVars, mainVars, diskVars,
                   rinseHist, pictHist>>

(* search_and_record_url: a URL whose bit is set goes no further.          *)
TestUrl(w) ==
    /\ Up /\ pc[w] = "test"
    /\ IF Code[arg[w]] \in urlTable
       THEN Goto(w, "parse") /\ arg' = [arg EXCEPT ![w] = NoUrl]
       ELSE Goto(w, "mark") /\ UNCHANGED arg
    /\ UNCHANGED <<tableVars, history, lock, byte, dnsVars, dbVars, mainVars,
                   diskVars, rinseHist, pictHist>>

(* Known: the bit of the domain is set, and the domain has an address.     *)
Known(u) == DomainCode[Domain[u]] \in domainTable /\ Domain[u] \in dnsDatabase

MarkUrl(w) ==
    /\ Up /\ pc[w] = "mark"
    /\ urlTable' = urlTable \cup {Code[arg[w]]}
    /\ withIp' = IF Known(arg[w]) THEN withIp \cup {arg[w]} ELSE withIp
    /\ Goto(w, "parse")
    /\ UNCHANGED <<domainTable, dnsDatabase, history, lock, arg, byte, pending,
                   asked, loopexits, dbVars, mainVars, diskVars, rinseHist, pictHist>>

(* What dns_callback makes of the answer for u.                            *)
Resolve(u, ok) ==
    IF ok THEN /\ withIp' = withIp \cup {u}
               /\ dnsDatabase' = dnsDatabase \cup {Domain[u]}
               /\ domainTable' = domainTable \cup {DomainCode[Domain[u]]}
               /\ UNCHANGED refused
          ELSE refused' = refused \cup {u} /\ UNCHANGED <<withIp, dnsDatabase, domainTable>>

(* dns_parse.  The callback may come at once: then the count is back at    *)
(* what it was, and if that is 0 the loop, which is not entered, is told   *)
(* to exit.  Requests of an earlier call may still be pending.             *)
ParseNothing(w) ==
    /\ Up /\ pc[w] = "parse"
    /\ arg[w] = NoUrl \/ arg[w] \in withIp
    /\ Goto(w, IF pending > 0 THEN "loop" ELSE "put")
    /\ UNCHANGED <<tableVars, history, lock, arg, byte, dnsVars, dbVars, mainVars,
                   diskVars, rinseHist, pictHist>>

ParseAtOnce(w, ok) ==
    /\ Up /\ pc[w] = "parse"
    /\ arg[w] # NoUrl /\ arg[w] \notin withIp /\ Domain[arg[w]] \in Immediate
    /\ Resolve(arg[w], ok)
    /\ IF pending = 0
       THEN Goto(w, "put") /\ loopexits' = loopexits + 1 /\ hasty' = TRUE
       ELSE Goto(w, "loop") /\ UNCHANGED <<loopexits, hasty>>
    /\ UNCHANGED <<urlTable, history, lock, arg, byte, pending, asked, dbVars,
                   mainVars, diskVars, handed, pictHist>>

ParseLater(w) ==
    /\ Up /\ pc[w] = "parse"
    /\ arg[w] # NoUrl /\ arg[w] \notin withIp /\ Domain[arg[w]] \notin Immediate
    /\ pending' = pending + 1 /\ asked' = asked \cup {arg[w]}
    /\ Goto(w, "loop")
    /\ UNCHANGED <<tableVars, history, lock, arg, byte, withIp, loopexits, dbVars,
                   mainVars, diskVars, rinseHist, pictHist>>

(* Mutant: an error is not counted as an answer. *)
DnsErrorNotCounted(w, u, ok) ==
    /\ Up /\ pc[w] = "loop" /\ u \in asked
    /\ asked' = asked \ {u}
    /\ Resolve(u, ok)
    /\ pending' = IF ok THEN pending - 1 ELSE pending
    /\ loopexits' = IF pending' = 0 THEN loopexits + 1 ELSE loopexits
    /\ UNCHANGED <<urlTable, history, lock, pc, arg, byte, dbVars, mainVars, diskVars,
                   handed, hasty, pictHist>>

(* dns_callback, in the event loop.                                        *)
DnsCallback(w, u, ok) ==
    /\ Up /\ pc[w] = "loop" /\ u \in asked
    /\ asked' = asked \ {u}
    /\ Resolve(u, ok)
    /\ pending' = pending - 1
    /\ loopexits' = IF pending' = 0 THEN loopexits + 1 ELSE loopexits
    /\ UNCHANGED <<urlTable, history, lock, pc, arg, byte, dbVars, mainVars, diskVars,
                   handed, hasty, pictHist>>

(* Mutant: event_base_loop is called with EVLOOP_NONBLOCK. *)
LeaveLoopAtOnce(w) ==
    /\ Up /\ pc[w] = "loop"
    /\ loopexits' = 0
    /\ Goto(w, "put")
    /\ UNCHANGED <<tableVars, history, lock, arg, byte, pending, asked, withIp,
                   dbVars, mainVars, diskVars, rinseHist, pictHist>>

(* event_base_loop returns after the round in which a loopexit ran; others  *)
(* run in the same round or are left for the next loop.                    *)
LeaveLoop(w) ==
    /\ Up /\ pc[w] = "loop" /\ loopexits > 0
    /\ loopexits' \in 0..loopexits - 1
    /\ Goto(w, "put")
    /\ UNCHANGED <<tableVars, history, lock, arg, byte, pending, asked, withIp,
                   dbVars, mainVars, diskVars, rinseHist, pictHist>>

(* put_urls, and the end of rinse_urls.                                    *)
PutUrls(w) ==
    /\ Up /\ pc[w] = "put"
    /\ handed' = IF arg[w] = NoUrl THEN handed
                 ELSE handed \cup {[url |-> arg[w], ip |-> arg[w] \in withIp]}
    /\ lock' = Nobody
    /\ Goto(w, "idle") /\ arg' = [arg EXCEPT ![w] = NoUrl]
    /\ UNCHANGED <<tableVars, history, byte, dnsVars, dbVars, mainVars, diskVars,
                   refused, hasty, pictHist>>
-------------------------------------------------------------------------------
(* process, for a picture: the executor downloaded what was handed with an  *)
(* address.                                                                *)
Process(w, u) ==
    /\ pc[w] = "idle" /\ main # "down"
    /\ u \in Pictures \ fetched /\ [url |-> u, ip |-> TRUE] \in handed
    /\ fetched' = fetched \cup {u}
    /\ Goto(w, "load") /\ arg' = [arg EXCEPT ![w] = u]
    /\ UNCHANGED <<tableVars, history, lock, byte, dnsVars, dbVars, mainVars, diskVars,
                   rinseHist, recorded, kept, fileless, broken>>

(* search_and_record_history, whose caller is write_file for a picture of  *)
(* a fitting size: the byte is loaded,                                     *)
LoadByte(w) ==
    /\ pc[w] = "load" /\ main # "down"
    /\ byte' = [byte EXCEPT ![w] = history \cap ByteOf(Code[arg[w]])]
    /\ Goto(w, "store")
    /\ UNCHANGED <<tableVars, history, lock, arg, dnsVars, dbVars, mainVars, diskVars,
                   rinseHist, pictHist>>

(* and stored with one bit more.                                           *)
StoreByte(w) ==
    /\ pc[w] = "store" /\ main # "down"
    /\ history' = (history \ ByteOf(Code[arg[w]])) \cup byte[w] \cup {Code[arg[w]]}
    /\ recorded' = recorded \cup {arg[w]}
    /\ IF arg[w] \in Fitting /\ Code[arg[w]] \notin byte[w]
       THEN Goto(w, "file") /\ UNCHANGED arg
       ELSE Goto(w, "idle") /\ arg' = [arg EXCEPT ![w] = NoUrl]
    /\ byte' = [byte EXCEPT ![w] = {}]
    /\ UNCHANGED <<tableVars, lock, dnsVars, dbVars, mainVars, diskVars, rinseHist,
                   fetched, kept, fileless, broken>>

(* Mutant: the record is inserted before fclose. *)
WriteFileLater(w) ==
    /\ pc[w] = "file" /\ main # "down"
    /\ disk' = disk \cup {arg[w]} /\ torn' = torn \cup {arg[w]}
    /\ Goto(w, "insert")
    /\ UNCHANGED <<tableVars, history, lock, arg, byte, dnsVars, dbVars, mainVars,
                   rinseHist, pictHist>>

(* write_file, up to fopen: the file is there already, or is opened, or     *)
(* cannot be opened; or the directory cannot be created, and the picture is *)
(* given up.                                                               *)
WriteFile(w) ==
    /\ pc[w] = "file" /\ main # "down"
    /\ \/ /\ arg[w] \in disk
          /\ Goto(w, "insert") /\ UNCHANGED <<arg, diskVars, fileless>>
       \/ /\ arg[w] \notin disk
          /\ disk' = disk \cup {arg[w]} /\ torn' = torn \cup {arg[w]}
          /\ Goto(w, "write") /\ UNCHANGED <<arg, fileless>>
       \/ /\ arg[w] \notin disk /\ fileless' = fileless \cup {arg[w]}
          /\ Goto(w, "insert") /\ UNCHANGED <<arg, diskVars>>
       \/ /\ disk = {} /\ Goto(w, "idle") /\ arg' = [arg EXCEPT ![w] = NoUrl]
          /\ UNCHANGED <<diskVars, fileless>>
    /\ UNCHANGED <<tableVars, history, lock, byte, dnsVars, dbVars, mainVars,
                   rinseHist, fetched, recorded, kept, broken>>

(* fwrite and fclose.                                                      *)
FinishFile(w) ==
    /\ pc[w] = "write" /\ main # "down"
    /\ torn' = torn \ {arg[w]}
    /\ Goto(w, "insert")
    /\ UNCHANGED <<tableVars, history, lock, arg, byte, dnsVars, dbVars, mainVars,
                   disk, rinseHist, pictHist>>

(* insert_record, unless the comment is too long.                          *)
InsertRecord(w) ==
    /\ pc[w] = "insert" /\ main # "down"
    /\ commands' \in {commands, Append(commands, arg[w])}
    /\ Goto(w, "idle") /\ arg' = [arg EXCEPT ![w] = NoUrl]
    /\ UNCHANGED <<tableVars, history, lock, byte, dnsVars, dbPc, query, rows,
                   mainVars, diskVars, rinseHist, pictHist>>
-------------------------------------------------------------------------------
(* The database's thread_aid.                                              *)

(* Mutant: m_commands.size()>1. *)
LookAtCommandsPastOne ==
    /\ dbPc = "look" /\ main # "down" /\ Len(commands) > 1
    /\ dbPc' = "pop"
    /\ UNCHANGED <<tableVars, history, lock, pc, arg, byte, dnsVars, commands, query,
                   rows, mainVars, diskVars, rinseHist, pictHist>>

(* m_commands.size()>0 is read without the lock ...                        *)
LookAtCommands ==
    /\ dbPc = "look" /\ main # "down" /\ commands # <<>>
    /\ dbPc' = "pop"
    /\ UNCHANGED <<tableVars, history, lock, pc, arg, byte, dnsVars, commands, query,
                   rows, mainVars, diskVars, rinseHist, pictHist>>

PopCommand ==
    /\ dbPc = "pop" /\ main # "down"
    /\ query' = Head(commands) /\ commands' = Tail(commands)
    /\ dbPc' = "query"
    /\ UNCHANGED <<tableVars, history, lock, pc, arg, byte, dnsVars, rows, mainVars,
                   diskVars, rinseHist, pictHist>>

(* ... and a query that fails ends the thread.                             *)
RunQuery ==
    /\ dbPc = "query" /\ main # "down"
    /\ \/ rows' = rows \cup {query} /\ dbPc' = "look"
       \/ dbPc' = "ended" /\ UNCHANGED rows
    /\ query' = NoUrl
    /\ UNCHANGED <<tableVars, history, lock, pc, arg, byte, dnsVars, commands,
                   mainVars, diskVars, rinseHist, pictHist>>
-------------------------------------------------------------------------------
(* main() and the file.                                                    *)

(* write_history's fopen truncates: from execute_loop, or from uninitialize *)
(* when execute_loop is left, whether or not the workers are done.         *)
OpenHistory ==
    /\ main = "up"
    /\ file' = <<>>
    /\ main' \in {"writing", "saving"}
    /\ UNCHANGED <<tableVars, history, lock, pc, arg, byte, dnsVars, dbVars, runs,
                   crashes, diskVars, rinseHist, pictHist>>

(* fwrite and fclose; uninitialize then frees evdns and the event loop.    *)
WriteHistory ==
    /\ main \in {"writing", "saving"}
    /\ file' = <<history>>
    /\ kept' = kept \cup recorded
    /\ main' = IF main = "writing" THEN "up" ELSE "saved"
    /\ UNCHANGED <<tableVars, history, lock, pc, arg, byte, dnsVars, dbVars, runs,
                   crashes, diskVars, rinseHist, fetched, recorded, fileless, broken>>

(* What the process holds is gone with it.                                 *)
Stop ==
    /\ main' = "down"
    /\ urlTable' = {} /\ history' = {} /\ domainTable' = {} /\ dnsDatabase' = {}
    /\ lock' = Nobody /\ pc' = Idle /\ arg' = NoArgs /\ byte' = NoBytes
    /\ pending' = 0 /\ asked' = {} /\ withIp' = {} /\ loopexits' = 0
    /\ commands' = <<>> /\ dbPc' = "look" /\ query' = NoUrl
    /\ handed' = {} /\ refused' = {} /\ hasty' = FALSE
    /\ fetched' = {} /\ recorded' = {}
    /\ broken' = broken \cup torn
    /\ UNCHANGED <<file, runs, diskVars, rows, kept, fileless>>

(* The rest of main(), which waits for the database's thread.              *)
End == main = "saved" /\ dbPc \in {"look", "ended"} /\ Stop /\ UNCHANGED crashes

Crash ==
    /\ main \notin {"saved", "down"} /\ crashes < MaxCrashes
    /\ Stop /\ crashes' = crashes + 1

(* Mutant: what a crash left is taken for a file of zeros and ones. *)
StartUnchecked ==
    /\ main = "down" /\ runs < MaxRuns
    /\ main' = "up" /\ runs' = runs + 1
    /\ \E table \in SUBSET Codes(Urls) :
          /\ file # <<>> => table = InFile
          /\ urlTable' = table /\ history' = table
    /\ UNCHANGED <<domainTable, dnsDatabase, lock, pc, arg, byte, dnsVars, dbVars,
                   file, crashes, diskVars, rinseHist, pictHist>>

(* The next run.  read_history refuses a file of another length.           *)
Start ==
    /\ main = "down" /\ runs < MaxRuns
    /\ main' = "up" /\ runs' = runs + 1
    /\ urlTable' = InFile /\ history' = InFile
    /\ UNCHANGED <<domainTable, dnsDatabase, lock, pc, arg, byte, dnsVars, dbVars,
                   file, crashes, diskVars, rinseHist, pictHist>>
-------------------------------------------------------------------------------
RinseStep(w) ==
    \/ TestUrl(w) \/ MarkUrl(w) \/ ParseNothing(w) \/ ParseLater(w)
    \/ LeaveLoop(w) \/ PutUrls(w)
    \/ \E ok \in BOOLEAN : ParseAtOnce(w, ok) \/ \E u \in Urls : DnsCallback(w, u, ok)

PictureStep(w) ==
    \/ LoadByte(w) \/ StoreByte(w) \/ WriteFile(w) \/ FinishFile(w)
    \/ InsertRecord(w)

DatabaseThread == LookAtCommands \/ PopCommand \/ RunQuery

Next ==
    \/ \E w \in Workers, u \in Urls : RinseUrl(w, u) \/ Process(w, u)
    \/ \E w \in Workers : RinseStep(w) \/ PictureStep(w)
    \/ DatabaseThread
    \/ OpenHistory \/ WriteHistory \/ End \/ Crash \/ Start

Spec == Init /\ [][Next]_vars

(* The worker in rinse_urls keeps running; evdns answers, if by a timeout.  *)
(* The database's thread is one of its own.                                *)
FairSpec ==
    /\ Spec
    /\ \A w \in Workers : WF_vars(RinseStep(w))
    /\ WF_vars(DatabaseThread)
-------------------------------------------------------------------------------
TypeOK ==
    /\ urlTable \subseteq Codes(Urls) /\ history \subseteq Codes(Urls)
    /\ dnsDatabase \subseteq Range(Domain) /\ domainTable \subseteq Range(DomainCode)
    /\ lock \in Workers \cup {Nobody}
    /\ pc \in [Workers -> PC] /\ arg \in [Workers -> Urls \cup {NoUrl}]
    /\ byte \in [Workers -> SUBSET Codes(Urls)]
    /\ asked \subseteq Urls /\ withIp \subseteq Urls
    /\ pending = Cardinality(asked)
    /\ loopexits \in 0..Cardinality(Urls)
    /\ commands \in Seq(Fitting) /\ dbPc \in {"look", "pop", "query", "ended"}
    /\ query \in Fitting \cup {NoUrl} /\ rows \subseteq Fitting
    /\ main \in {"up", "writing", "saving", "saved", "down"}
    /\ file \in {<<>>} \cup {<<table>> : table \in SUBSET Codes(Urls)}
    /\ disk \subseteq Fitting /\ torn \subseteq disk
    /\ runs \in 1..MaxRuns /\ crashes \in 0..MaxCrashes
    /\ handed \subseteq [url : Urls, ip : BOOLEAN]
    /\ refused \subseteq Urls /\ hasty \in BOOLEAN
    /\ fetched \subseteq Pictures /\ recorded \subseteq Pictures
    /\ kept \subseteq Pictures /\ fileless \subseteq Fitting /\ broken \subseteq Fitting

(* A URL is handed to the executor once in a run, and so is each of those   *)
(* that share its code, whichever workers find links to it at the same     *)
(* time; and not at all when the file this run has read knows it           *)
(* (spider_url_rinse.cpp 119-155, 174-182, 269-288).                       *)
HandedOnce ==
    [][\A w \in Workers :
         PutUrls(w) /\ arg[w] # NoUrl =>
            Code[arg[w]] \notin Codes({h.url : h \in handed}) \cup InFile]_vars

(* A URL is passed over only for one with the same code that this run has  *)
(* handed over or is handing over, or that was fetched, recorded and saved *)
(* by this run or an earlier one: pages that are no pictures are crawled   *)
(* again by every run, and a file left by a crash is never believed.       *)
SkippedForReason ==
    urlTable \subseteq
        Codes({h.url : h \in handed} \cup kept
              \cup {u \in Urls : \E w \in Workers :
                       arg[w] = u /\ pc[w] \in {"parse", "loop", "put"}})

(* rinse_urls hands over no URL before its domain is parsed, except after   *)
(* an answer that evdns gave at once in this run: the loopexit asked for   *)
(* then ends a later loop (lines 185-216, 251-254).                        *)
HandedParsed ==
    \A h \in handed : ~h.ip => h.url \in refused \/ hasty

(* A record in the database, or on its way there, is that of a picture that *)
(* is whole on the disk: but for an fopen that failed, and for a file that  *)
(* was open when an earlier run ended, which the next run takes for the    *)
(* picture (spider_storage.cpp 42-69, spider_database.cpp 43-66).          *)
RecordHasFile ==
    rows \cup Range(commands) \cup ({query} \ {NoUrl})
        \subseteq (disk \ torn) \cup fileless \cup broken

(* A record that was queued gets into the database while the run goes on,   *)
(* unless a query failed (spider_database.cpp 43-66).                      *)
RecordReachesDatabase ==
    \A u \in Fitting :
        u \in Range(commands) ~> u \in rows \/ dbPc = "ended" \/ main = "down"

(* m_queue_mutex is not kept for ever, though rinse_urls waits for the name *)
(* server while it has it: the loop is told to exit when the last answer   *)
(* has come, good or bad (lines 209-215, 251-254).                         *)
LockReleased == \A w \in Workers : lock = w ~> lock # w \/ ~Up

(* spider_url_rinse.h:55 of m_history_url_table: "don't crawl old file".   *)
(* A picture that was recorded in the history, and saved with it by a      *)
(* write_history that ended, is not handed over again.                     *)
NotVisitedAgain ==
    [][\A w \in Workers : PutUrls(w) => arg[w] \notin kept]_vars
===============================================================================
