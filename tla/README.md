# Croton: models, checks and proofs

Croton is two C++ programs that share a small porting layer. `Spider` crawls
web sites for pictures. `Master` and `Slave` download a big file in fragments:
the Master cuts the file into little tasks and gives them to Slaves over TCP.
This directory holds TLA+ models of the concurrent core of both, TLC
configurations that check them on small instances, and proofs, checked by
TLAPS, that hold for every value of the constants. `PROJECT.json` relates each
definition to the lines it models, and lists runs, mutants, hazards and
theorems.

The comments of the source are in GB18030. Line numbers are those of the files
as they are, which end their lines with CR LF.

## 1. Inventory

### Spider

| Component | State | Operations |
| --- | --- | --- |
| Thread pool (`spider_thread_pool`) | `m_work_queue`, a semaphore, a mutex, `m_worker_count`, `m_exit_flag` | `push_work`, the destructor, `manage_function` in each thread |
| Executor (`spider_executor`) | `m_task_queue` with its mutex, `m_all_fdset`, the map from sockets to requests, `m_exit` | `put_url(s)`, `execute_loop` (in `main`), `main_thread_aid` (a thread), `worker_work` (a pool job) |
| URL rinse (`spider_url_rinse`) | two bit tables of URLs, this run's and the history's; the tables of domains and of addresses; the event loop of evdns; `m_queue_mutex` | `rinse_url(s)`, `dns_parse` and `dns_callback`, `search_and_record_history`, `read_history`, `write_history` |
| Storage (`spider_storage`) | the picture directory, one database per process | `write_file` |
| Database (`spider_database`) | `m_commands`, a thread, a connection to MySQL | `insert_record`, `thread_aid`, `uninitialize` |
| Web sites, seeds (`spider_website`, `spider_seed`) | none that changes | `begin_process`, `process`: links to rinse, pictures to storage |
| HTTP client (`spider_http_client`) | per request a socket, `recvbuffer`, `m_body`, `m_length` | `send_request`, `recv_response`, `surface_page` |
| Cookies (`spider_cookie`) | `m_cookie_database`, the file `cookie.record` | `login`: load the record, or log in to weibo and write it |
| URLs, utilities (`spider_url`, `spider_utils`) | none | numbers, `trim`, `split`, URL coding, the search in a page, `get_all_url`, `prase_url` |
| Configuration | none that changes after start-up | an XML file is read |
| Albums | - | dead code: nothing uses it |

The parts meet as follows. `main` gives the start page of each seed to rinse,
which marks it, asks the name server and puts it in the executor's task queue.
The executor's thread moves URLs from the queue to sockets, and from sockets
that `select` reports to the pool. A pool thread reads the response and calls
`process`, which gives links to rinse and pictures to storage; storage asks
the history, writes the file and queues a database record. `main` polls for
idleness, writes the history each minute, and ends.

What is hard here: three kinds of thread share the task queue, the pool's
queue, the worker count and the history, partly without locks; rinse waits for
the network with its lock held; `ReleaseSemaphore` can fail and its result is
dropped; the history file is truncated and then written, and a crash may come
in between; the parts are taken down in an order that leaves threads running; a
server may cut an answer anywhere, and the buffer a header is looked for in is
not initialised; a page's text has no end of its own.

What makes it right: a URL is downloaded once, and not passed over without
reason; no URL and no job is lost between queue, socket and pool; buffers stay
within their bounds; locks are released, and shutdown ends; a record has a
file; the history is believed when it is complete, and only then; a page that
is processed is the page that was sent; a run crawls with the cookie it was
given, however the run before it ended.

### Master and Slave

| Component | State | Operations |
| --- | --- | --- |
| Controller | the libevent loop, a thread that wakes every ten seconds | `Accept_CallBack`, `Read_CallBack`, `ThreadProcess` |
| SlaveManager, Slave | `m_SlaveMap`; per slave a status, a list of TASKIDs, the time of the last heartbeat | `AddSlave`, `ProcessRead`, `CheckTimeOut`, `CanBeAssigned`, `DoTask`, `RetrieveTask` |
| TaskManager, DownloadBigFile | `m_TaskMap`; per task a list of little tasks with a status | `CreateTask`, `AssignTask`, `UpdateTask`, `SetTaskStatus`; `Decompose`, `GetLittleTask`, `IsCompleted`, `Combine` |
| Slave process | `m_slave_status`, a list of workers | `RunService`, `ProcessRead`, `ThreadDoAffairs`, `TaskManager::Process` |
| DBFWorker | `m_task_status`, not initialised by the constructor | a thread: download, upload |

What is hard here: the Master's two threads share every object and no lock; a
slave may die, lose its connection, leave, or connect again while little tasks
are with it; a worker's status is read before anything has been stored in it;
the Slave object may be deleted while its connection lives; the clock is read
before the heartbeat it is compared with.

What makes it right: a little task that was given away has an owner or comes
back; a file is combined only when every fragment was reported, and reported
only when it was uploaded; a fragment is with one slave at a time; a slave has
no more than it may have; a slave that is silent is removed and one that has
room gets work.

### Around them

`Porting` wraps threads, mutexes, semaphores and files of Win32 and POSIX.
`pugixml`, `spider_md5` and the headers under `msvc` are third-party code.

## 2. Modules

    JobPool  <--implemented by--  SpiderThreadPool  <--instance, implemented by--  SpiderExecutor
    SpiderUrlRinse                                            (rinse, storage, database)
    SpiderHttpClient  <--  SpiderCookie, SpiderPage  -->  SpiderText
    MasterScheduler  <--  BigFile
    MasterScheduler  <--instance, implemented by--  Croton             (Master and Slaves)

A plain arrow is EXTENDS. The `MC*` modules give TLC the constants that are
functions or operators. The `*_proofs` modules extend the module they are named
after; `SpiderExecutor_proofs` has an instance of the pool's, and
`Croton_proofs` one of the Master's.

In every module a step is what one thread does between two points at which
another could be seen to interfere. A thread's program counter names the point.
Definitions whose comment begins with "Mutant" are not part of a specification:
each is a plausible bug that makes a property fail.

### JobPool

What a pool promises: FIFO order, one job per thread and one thread per job, a
job leaves only by having been executed.

### SpiderThreadPool

`queue`, `permits`, `workerCount` are `m_work_queue`, the semaphore's count and
`m_worker_count`. `pc[w]` is where thread `w` is in `manage_function`, and
`reg[w]` the register between load and store of the count, which is a plain
`volatile int`. `push_work` is two steps under the mutex, `PushWork` and
`PostSemaphore`, because the post is visible to waiting threads before the
mutex is released. `SemaphoreRelease` changes nothing at the maximum, as
`ReleaseSemaphore` does; the failure is counted in `failedPosts`. The
destructor is `SetExitFlag`, one `ReleasePermit` per thread and `JoinThreads`.

### SpiderExecutor

The pool's steps are reused through `INSTANCE`. `main` seeds and then polls:
`ReadWorkerCount` and `ReadTaskQueue` are apart because `execute_loop` reads
one after the other without a lock. `FillFdSet` is lines 103-122, under
`m_queue_mutex`; a URL without an address, or whose connection fails, goes to
`dropped`. `Select` has no timeout. `PushJob`, `PostJob` and `ClearFd` are the
three steps from a ready socket to a job. `stage[w]` is how far the job of
thread `w` has come. `RecvResponse` gives it a page to process, or leaves it
turning in the receive loops of `SpiderHttpClient` for ever ("spin"), for
`select` has a socket for readable too when its server has closed early or says
no more. `PutLink` gives one link to rinse, which hands a page over once and has
an address for it or not; `ProcessPage` ends the job. `PutAgain` ends it too: a
redirect or a failure makes a URL anew, and a new URL has no address. Rinse is
here the rule that a page is handed over once; `SpiderUrlRinse` is where that is
shown.

### SpiderUrlRinse

One URL at a time goes through `RinseUrl` (take the lock), `TestUrl`,
`MarkUrl`, one of the `Parse` actions, `LeaveLoop`, and `PutUrls` (release the
lock). evdns may answer before `evdns_getaddrinfo` returns (`ParseAtOnce`) or
in the loop (`DnsCallback`), with success or failure. `loopexits` counts the
events that `event_base_loopexit` has scheduled and that have not run; one
asked for outside the loop ends a later loop. A picture goes through `Process`,
`LoadByte`, `StoreByte`, `WriteFile`, `FinishFile` and `InsertRecord`; byte load
and store are apart because `search_and_record_history` holds no lock, and the
file is there, `torn`, before it is whole. `LookAtCommands`, `PopCommand` and
`RunQuery` are the database's thread. `OpenHistory` truncates the history and
`WriteHistory` completes it. `End` is the end of `main`, `Crash` may come at any
time before, and `Start` is the next run: it believes a history that is
complete, and a picture whose name is there, a torn one included (`broken`).
Tables, queues and workers are lost with the process; `file`, `disk` and `rows`
stay. A bit table is the set of codes whose bits are set, and two codes may
share a byte.

### SpiderHttpClient

One exchange with a server, made by the crawler (`send_request`, then a pool
thread's `worker_work`) or by the cookie login (`surface_page`). `net` is what
the server has sent and nobody has read, `header` is `recvbuffer`, `body` is
`m_body`; an answer is a sequence of units the client tells apart: pieces of the
header, size lines and CRLFs of chunks, pieces of the content. `Connect`,
`SendPackage`, `RecvHeader`, `RecvBody` (announced length), `RecvSize`,
`RecvChunk`, `RecvCrlf` (chunks), `Finish` and `WorkerWork` are the client, one
step per call of `recv`. `Serve`, `ServerClose` and `Reset` are the server and
the network; a reset may lose what was not read. After a close every receiving
loop of the code turns on `recv` = 0 without a step forward, so the model has no
step there either. `Leftovers` is what the uninitialised `recvbuffer` may hold:
with the end of an earlier header in it, `strstr` may find that end `early`.

### SpiderCookie

`login` over that client: `record` is the file `cookie.record`, `cookie` the
entry of `m_cookie_database`, `doing` where the chain of requests is (prelogin,
dologin, ajaxlogin, and the pages of codes). The record may be torn by a crash
while it is written; the next run loads what is there. Of the answer to
ajaxlogin the code keeps whatever cookies came with it, so of one that is no
page of weibo's the model keeps any part of `LoginCookie` (`Came`); `guessed`
remembers that the cookie, or the record made of it, lacks the rest. A page
without `location.replace('` makes the code go on with whatever the offset -1
gives: `Dologin` then asks for some page, or the program throws. renren's login
is commented out in the code.

### SpiderText, SpiderPage

Pure functions. `SpiderText`: numbers in hexadecimal, the coding of URLs,
`trim`, `split`, the lines of a header, a cookie as text and back. `SpiderPage`:
the search after Knuth, Morris and Pratt as it is written, character by
character (`GetNext` falls back to nothing, not to a shorter border, and the
character on which a match fails is not looked at again; `Matched` is its inner
loop), `get_all_url` with `ChildUrl` for the address of one link, and
`prase_url`. What is one token in a text is what the code only compares as a
whole and what has no "<" in it.

A worker copies the bytes of a page and no 0 behind them
(`spider_http_client.cpp:555-561`), and `Spider_Website_General::process` takes
`strlen` of that (`spider_website.cpp:57`). So `Html` gives a *set* of texts for
a page: the page followed by whatever may lie behind it up to the next 0.

`LinksFound` says of each of these texts, the tail included, that its links are
found, where each tag has its address and no tag stands behind a piece of itself
(`Tidy`). The second condition is not for convenience: of `<i<img src=` the code
misses the tag, since the second `<` is where its first attempt fails. The
page's own address must have a path. Of one without a path,
`get_root_current_url` copies a single character as the current path, and the
page's relative links are completed with the letter "h".

### MasterScheduler

The Master with slaves that send any request at any time, except that a RESULT
answers a TASK. `Accept`, `Receive` and `StaleResult` are libevent's loop, one
handler per step. `ThreadProcess` is cut where it reads or writes what a
handler may change: `ReadTick`, `CheckTimeOut`, `DeleteDead`, then
`GetIdleSlave`, `GetLittleTask`, `DoTask`, `PushTask`, then `UpdateTask`.
`age` is the clock minus `m_time_report_heartbeat`, modulo `TickMod`, the range
of an `unsigned long`; `lag` is the time since `CheckTimeOut` read the clock.
Entries of `m_TaskList` are numbered, since a list may hold a TASKID twice.
`sent` holds the TASKs that have not been answered, and `stale` those whose
Slave object was deleted since: a late RESULT of one still reaches `TaskManager`
through the freed object (`StaleResult`). A crash of the Master is not modelled.

### BigFile

`Decompose`, and `Bytes`, the range of the file that a little task stands for.
It says over `MasterScheduler` what `Combine` relies on.

### Croton

`MasterScheduler`'s actions joined with slaves as they are: `Connect`, `Crash`,
`Break`, `ProcessRead`, `Heartbeat`, `Process`, and a `Download` and `Upload`
per worker thread. `toMaster` and `toSlave` are the two directions of the latest
connection. `conn` tells whether the Master's object was made for it ("own"),
for an earlier one ("shared": answered on the new connection, but TASKs go to
the old one), or has been deleted.

`Break` ends the connection of a slave whose process lives on (`cut`), and loses
what was under way. Neither program reacts: `SlaveController::Event_CallBack`
logs an error, ignores an end of file and leaves `m_slave_status` alone
(`SlaveController.cpp:161-170`), and the slave does not connect again; `Process`
still takes the worker off its list when the RESULT has gone to a buffer nobody
will send (`Slave/TaskManager.cpp:35-39`). `Reachable` is a slave that is up and
not `cut`.

`m_task_status` (`DBFWorker.h:46`) is not initialised by the constructor
(`DBFWorker.cpp:8-13`). `Unclean` has the slaves and little tasks for which the
memory of a new worker may happen to say `SUBMITED`; `AddTask` chooses among the
values. `Process` then sends a RESULT for a worker that still downloads, and
`hasty` remembers it.

A heartbeat is handled in the step that sends it (`Heartbeat`): one that is under
way is as one that was not sent yet, for it says nothing but that it came.
`Croton` implements `MasterScheduler` with the requests these slaves send (LOGIN,
HEARTBEAT, Sucess).

## 3. Runs

A run named "violation" checks one sentence of the documentation or of a
comment that the code does not keep; the finding quotes it.

| Run | Configuration | Bounds | Shows |
| --- | --- | --- | --- |
| `pool` | `SpiderThreadPool.cfg` | 2 threads, 3 jobs, maximum 2 | types, `PermitsMatchQueue`, `NoJobTwice`, refinement of JobPool, `EveryJobExecuted`, `DestructorTerminates` |
| `pool_count` (violation) | `SpiderThreadPoolCount.cfg` | 2 threads, 2 jobs | the worker count loses updates |
| `executor` | `SpiderExecutor.cfg` | 2 pages, 2 threads, maximum 2, one socket and one job at a time | types, `PagesAccounted`, `FdSetBounded`, `PoolQueueBounded`, `EveryPageRequested`, `ShutdownCompletes` |
| `executor_idle` (violation) | `SpiderExecutorIdle.cfg` | 3 pages, 1 thread, maximum 1, batches of 2 | `execute_loop` gives up while requests are open |
| `executor_retry` (violation) | `SpiderExecutorRetry.cfg` | the same | a page to be "downloaded again" is not requested |
| `rinse` | `SpiderUrlRinse.cfg` | 2 workers, 3 URLs, 2 runs, 1 crash | types, `HandedOnce`, `SkippedForReason`, `HandedParsed`, `RecordHasFile`, `LockReleased`, `RecordReachesDatabase` |
| `rinse_history` (violation) | `SpiderHistory.cfg` | the same, no crash | a recorded picture is forgotten and downloaded by the next run |
| `http` | `SpiderCookie.cfg` | 8 answers to the crawler, 6 of weibo, pages of up to 2 pieces of text with two tails | types, `AnnouncedIsWhole`, `ChunkedIsContent`, `AnnouncedProcessed`, `SocketReleased`, `CookieHasReason`, `LinksFound`, `ThreadComesFree` |
| `master` | `MasterScheduler.cfg` | 2 slaves, a task of 2 fragments and one of none | types, `AssignedHasOwner`, `CombinedOnlyIfReported`, `CombinedIsCovered` |
| `master_timeout` (violation) | `MasterTimeout.cfg` | 1 slave | a slave that has just reported is declared dead |
| `croton` | `Croton.cfg` | 2 slaves, 1 task of 2 fragments, 1 crash or lost connection, 1 worker whose memory may say SUBMITED | types, `ReportedWasUploaded`, `ListedOnce`, `PlaceHasReason`, `OnlyEmptyCombined`, refinement of MasterScheduler, `SubmitedIsReported`, `IdleSlaveGetsWork`, `SilentSlaveRemoved` |
| `croton_failed` (violation) | `CrotonFailed.cfg` | 1 slave | a failed little task is never assigned again |

Why the bounds are enough for the cases that matter:

* `pool`: three jobs against a maximum of two make a post fail; two threads race
  for every permit and every load and store of the count; some of the
  destructor's releases fail too.
* `executor`: the thresholds of line 103 are 1, so one job that no thread takes
  stops the batches; either thread's job may spin, or both; each page may be
  found by a job of the other, while that one is open, queued or received.
* `rinse`: URLs 2 and 3 collide, 1 and 2 share a byte and are pictures; one host
  is answered at once and the other later; a crash may come before, in and
  after the writing of the history or of a picture, and the second run reads
  what is left.
* `http`: answers with a length, with chunks (one, two of different sizes) and
  with neither; an empty page; a redirect with and without an address in its
  body; a status that is an error. Up to three units of content let `recv`
  return a part, and the end of the connection fall between any two units. The
  login's answers are each meaning a page of weibo can have, in both codings,
  and no page at all. Pages are put together from six pieces, character by
  character: links of both kinds, absolute and relative, one that is script, and
  beginnings of tags that must not count, `<<i` among them; the search's state
  at the end of one piece meets each other piece. Behind a page lies nothing, or
  the rest of an `img` tag and a whole link. A cookie has two names, one of
  which begins with a space, so that a torn record may end in or between them
  and a name is trimmed. The module also has two assumptions TLC evaluates:
  `HexToDec` reads every spelling of the numbers up to 255, and `UrlDecode` undoes `UrlEncode`
  for every character, followed by any of seven.
* `master`: capacity 1 and two fragments make a slave full while work is left;
  two slaves make a retrieved fragment go to the other one; the empty task is
  what a failed `GetFileLength` leaves. `Timeout = 0`, `TickMod = 2`: every tick
  may time a slave out, and the difference wraps. Five bytes in segments of
  three make a last fragment that is short.
* `croton`: fragment 0 cannot be downloaded (`start_pos > 0` is demanded) and
  fragment 1 can, so both endings of a worker occur; one slave may crash and
  connect again before or after its object is deleted, or lose its connection
  and go on, while the other one takes over its fragments. Its worker of
  fragment 0, which no download can complete, may be made in memory that says
  `SUBMITED`: that is the one report that can make a file complete.
  `TickMod = 2` lets `age` wrap while ticks go on for ever, which meets
  `SilentSlaveRemoved` by itself; it bites in the runs whose ticks stop.

`CHECK_DEADLOCK FALSE` is in each configuration because the systems may stop:
a pool after its destructor, the executor after `main`, the second run of the
spider after its end, an exchange that is over or whose server has closed,
slaves that are all down with no tick that matters left.

Bounds that are no constant of the code: `MaxRuns`, `MaxCrashes`, `MaxFaults`
(crashes and lost connections together), the number of jobs, pages, URLs,
answers, slaves and tasks, and in `Croton` the slaves that may fail (`Faulty`)
and the workers made in `Unclean` memory. The theorems about `Croton` are for
any such sets and any `MaxFaults`.

## 4. Fairness

Weak fairness is given to what a thread does by itself: a pool thread's loop,
the executor's thread, `ThreadProcess`, a handler for a message that has
arrived, a slave's threads while it is up, a call once begun. The operating
system schedules these threads, and none of the fair actions waits for another
thread but through its guard.

| Run | Fair actions |
| --- | --- |
| `pool` | each thread's `ManageFunction`, `PostSemaphore`, the destructor once begun |
| `executor` | the same of the pool, the executor's thread, the rest of a shutdown once begun, and the two assumptions below |
| `rinse` | each worker's `RinseStep`, the database's thread |
| `http` | the client's thread only: a server owes nothing |
| `croton` | `MasterThread`, and for each slave `HandleRequest` and `Process`, its own thread |
| `master_timeout` | `ThreadProcess` |

Beyond that the runs assume:

* `executor`: a server says something or closes the connection in the end
  (`ServerAnswers`), and `select` does not fail for ever (`SF(Select)`).
  Without the first a page behind a silent server keeps the executor's thread
  in a `select` that has no timeout, and nothing follows; that is the hazard at
  `spider_executor.cpp:127`. That a job for such a socket comes to an end is not
  assumed: it may spin, and nothing is owed by a thread that does.
  `EveryPageRequested` is promised as long as one thread of the pool does not
  spin; when the last one does, the pool's queue stays at the limit of line 103
  and resolved pages wait for good. `RecvResponse` and `ProcessPage` are fair
  for the other threads, whose `recv` returns and whose page has an end.
* `rinse`: evdns answers each request, by a timeout if not otherwise. It is
  part of `RinseStep`, for the callback runs in the thread that holds the lock.

`http` assumes nothing of servers, so `ThreadComesFree` promises a free thread
only once the whole answer was sent or the connection was reset; after a close
in the middle the thread is not free, and the property says so.

Nothing is assumed of clients: nobody need push, seed, connect, or restart.
Neither crashes nor ticks are fair.

## 5. Proofs

| Module | Theorem | States, for all constants |
| --- | --- | --- |
| `SpiderThreadPool_proofs` | `TypeCorrect` | `Spec => []TypeOK` |
| | `JobsRunAtMostOnce` | `Spec => []NoJobTwice` |
| | `PermitsAccountForJobs` | `Spec => []PermitsMatchQueue` |
| | `PoolImplementsJobPool` | `Spec => ImplementsJobPool` |
| `SpiderExecutor_proofs` | `ExecutorRunsPool` | `Spec` implies the pool's `Spec` |
| | `ExecutorTypeCorrect` | `Spec => []TypeOK` |
| | `NoPageLost` | `Spec => []PagesAccounted` |
| | `FdSetNeverOverflows` | `Spec => []FdSetBounded` |
| | `PoolQueueNeverLonger` | `Spec => []PoolQueueBounded` |
| `SpiderUrlRinse_proofs` | `RinseTypeCorrect` | `Spec => []TypeOK` |
| | `HandedOverOnce` | `Spec => HandedOnce` |
| | `HandedOverParsed` | `Spec => []HandedParsed` |
| | `RecordsHaveFiles` | `Spec => []RecordHasFile` |
| | `SkippedRightly` | `Spec => []SkippedForReason` |
| `SpiderHttpClient_proofs` | `HttpTypeCorrect` | `Spec => []TypeOK` |
| | `HttpAnnouncedIsWhole` | `Spec => []AnnouncedIsWhole` |
| | `HttpAnnouncedProcessed` | `Spec => []AnnouncedProcessed` |
| | `HttpSocketReleased` | `Spec => []SocketReleased` |
| | `HttpChunkedIsContent` | `Spec => []ChunkedIsContent` |
| `SpiderCookie_proofs` | `LoginExchanges` | `LoginSpec` implies the five above, and so for each exchange of the login |
| | `CookieRead` | what `CookieText` writes, `SetCookie` reads, but for spaces around names |
| | `LoginCookieHasReason` | `LoginSpec => []CookieHasReason` |
| | `UrlRoundTrip` | `UrlDecode(UrlEncode(text)) = text` for every text of signed bytes |
| | `PageLinksFound` | `LoginSpec => []LinksFound` |
| `MasterScheduler_proofs` | `MasterTypeCorrect` | `Spec => []TypeOK` |
| | `CombinedReported` | `Spec => []CombinedOnlyIfReported` |
| | `AssignedOwned` | `Spec => []AssignedHasOwner` |
| `BigFile_proofs` | `CombinedCovered` | `Spec => []CombinedIsCovered` |
| `Croton_proofs` | `CrotonRefinesMaster` | `Spec => ImplementsMaster` |
| | `CrotonTypeCorrect` | `Spec => []TypeOK` |
| | `ListsNeverMeet` | `Spec => []ListedOnce` |
| | `ReportsAreTrue` | `Spec => []ReportedWasUploaded` |
| | `PlacesHaveReasons` | `Spec => []PlaceHasReason` |
| | `NothingCombined` | `Spec => []OnlyEmptyCombined` |

The assumptions are the named `ASSUME`s of the modules: finite sets of pages,
threads and URLs, positive limits, no more threads than the semaphore can count,
a `NULL` that is no object, a hash that gives natural numbers, slaves and tasks
with positive keys, an answer with a length that is its header and its content,
one with chunks that is its header and frames which together hold the content
(`InChunks`), as many little tasks as `Decompose` makes; a cookie with a name,
none of whose names and values holds what separates them, and no two of whose
names differ in spaces alone (`LoginAssumption`); pages, with what lies behind
them, and their address that are texts (`PageAssumption`). TLC evaluates them in
the runs. No theorem has another assumption.

The arguments:

* **Pool.** `NoJobTwice` is inductive together with `HoldsOnlyWhileRunning`: a
  thread's local job is `NULL` outside of `inc ... run`, so the one popped does
  not overwrite another. `PermitsMatchQueue` is inductive with the types: each
  step moves one unit between permit, entitled thread, post in progress, failed
  post and queue. The refinement maps `PopWork` on a non-empty queue to
  `Start`, `RunThreadFunction` with a job to `Finish`, `PushWork` to `Submit`,
  all else to a stutter; that a pushed job is none of the abstract pool's comes
  from `NoJobTwice`.
* **Executor.** Each of its steps is a step of the pool or leaves the pool
  alone, so the pool's theorems hold under it. `NoPageLost` rests on them: a
  page is once in the task queue, among the sockets, the refused or the pushed
  jobs. A batch splits the queue, a job's links are new to it, and what
  `PutAgain` puts back was pushed, and has no address. For the two bounds,
  `BoundInv` has only the types of the three sets they mention: `FillFdSet`
  adds a batch of at most `KProcessCountPer` sockets and only below both
  thresholds; a job moves from socket to queue without changing the sum; pool
  threads only shorten the queue.
* **Rinse.** A code is *seen* when the history, the file in force, a URL handed
  over, or a byte some thread has loaded has it. `RinseInv` says that seen codes
  are in `m_url_table` while the process is up; that only the holder of the
  lock is inside `rinse_urls`; and that a URL after its mark has a code in the
  table that is not seen. `MarkUrl` establishes the last from the first, as
  nobody else can be between test and mark. Byte stores without a lock can lose
  bits but never add one that is not seen; a start after a crash begins with
  table, history and file equal. The types need `DnsInv`: the loop's exits and
  the answers still owed are together no more than the URLs parsed in this
  run. `ParsedInv` follows a domain from its answer; `PictureInv`
  says that one worker at a time has a picture, that a torn file is one being
  written or was left by a process that ended, and that `InsertRecord` comes
  after the file; `SkipInv` with `HistoryInv` says whose bit made a test fail.
* **HTTP.** `StreamInv`: header, body and unread units are, in this order, a
  beginning of what the server sent (`InOrder`), what is still wanted of an
  announced body is what is missing (`Progress`), and what was judged was judged
  on it (`Judged`). A page that was announced is passed over only when the
  answer was cut by a reset, which `Cut` says of every way to that end: so
  `AnnouncedProcessed`. It does not count a page that `worker_work` puts in the
  queue again, since `send_request` refuses its address (finding 3).
  `SocketInv` follows the socket. For chunks,
  `ChunkInv`: between two frames the body is the content up to some `ends[i]`;
  inside frame `i`, the body and what is left of the frame reach to `ends[i]`;
  and the unread units begin at the place of the wire that this amounts to. The
  frame of size none is the last one, where the body is the whole content.
* **Cookie.** `RecordInv`: `cookie.record` is absent, or a beginning of the text
  `Record` writes. A line that is whole gives back the cookie, which is
  `CookieRead`: `split_string` cuts at each semicolon, which stands in no name
  or value, and `set_cookie` at the first "="; each piece gives its own name.
  A line that is torn is not taken by `GoodRecord`, or is one of the cases
  `CookieHasReason` lists. The record of a cookie that lacks a part of weibo's
  (`guessed`) may be any text.
* **Addresses.** `FlatPlaces` says where each character's coding stands in the
  coded text and that there is nothing else in it, so a percent sign begins a
  whole escape (`WholeEscapes`). By induction from the text's end, decoding from
  the place of a character gives that character and those behind it.
* **Pages.** `get_next` is all zeros for a mark whose first character does not
  come again in it, so the search starts the pattern anew after each failure. It
  skips the character at which it failed; this is harmless because no mark
  stands behind a piece of itself, which `Tidy` says and without which a mark is
  missed. It is the only condition on partial marks: one that another character
  follows never hides a tag (`SkippedNoMark`). Hence the search finds the first
  mark at or behind its start (`NextMark`). By induction from the page's end, what `collect` returns from a
  place has the links of the marks from there on, each at its mark's rank.
  An address completed from the root or the current path keeps the host and
  port that `prase_url` reads, since the root ends where host and port
  do, and the current path behind that.
* **Master.** `TypeInv` adds to the types what `ThreadProcess` has in its hands
  (`HandsOK`): from `GetIdleSlave` to `PushTask` the chosen slave keeps its
  object and its room, because only `ThreadProcess` deletes objects and adds to
  lists, whatever handlers run in between. `CombinedOnlyIfReported` needs that
  a `Completed` little task was reported. `AssignedHasOwner` is inductive with
  `TypeInv`: each removal from a list either retrieves the little task or
  follows its completion. `PlacesInv`, for slaves that send neither Fail nor
  EXIT: a TASK not answered has its place in a list, lists do not meet each
  other nor the hands, and an absent slave has none.
* **BigFile.** From `CombinedOnlyIfReported` and the arithmetic of `Decompose`:
  a byte's little task is its number divided by the segment's size, and the
  ranges of two little tasks do not meet.
* **Croton.** `WayInv`: a little task is at most once on its way through a slave
  (TASK, worker, status in the list, RESULT), and only while the Master waits
  for its answer. So a RESULT is one `MasterScheduler` allows, and each step is
  one of its steps or a stutter; its invariants carry over. `ListedOnce` is then
  `PlacesInv`. `WorkInv` says that a worker which is `SUBMITED` has uploaded or
  was so from its beginning, `FilesInv` that fragment 0 is the latter or never,
  `ReasonInv` why a place is held.

The text functions are recursive functions over places and counts, not
`RECURSIVE` operators. The library's induction theorems take an operator as a
parameter, which the provers cannot instantiate; the proofs go through the least
element of a set of numbers instead (`LeastNat`, `SetInduction`), and unfold a
recursive function by a function given beforehand that satisfies its equation
(`Recursion`).

Only model-checked: all liveness properties and what depends on fairness, since
the prover has no `ENABLED`; that `HexToDec` reads numerals, which TLC
evaluates up to 255. Violations are TLC's traces.

## 6. Findings

1. `m_worker_count` is not the number of running threads (`pool_count`).
2. `execute_loop` does not wait for completion (`executor_idle`).
3. Redirects and retries are dropped without a request (`executor_retry`).
4. Two pictures recorded at the same time: one is forgotten (`rinse_history`).
5. A heartbeat between the two readings of `CheckTimeOut` makes a live slave
   dead (`master_timeout`).
6. A slave never reports a failure, so the failed fragment stays with it; the
   first fragment always fails (`croton_failed`).

## 7. Not modelled, and why

* Third-party code, which is most of the repository's lines: pugixml, MD5, the
  headers under `msvc`; and project files.
* Albums (dead code), `ClientSocket` (an empty class), renren's login (commented
  out).
* Configuration, `seed.xml`, logging, files and directories: I/O at start-up or
  without an effect on what follows. The POSIX half of `Porting`: the semaphore
  and threads modelled are those of Win32.
* What a library computes: the encryption and encodings of weibo's login, UUIDs,
  JSON text and with it the text of the Master's protocol, MD5 names of pictures.
* `get_html_range`, `get_similarity_degree`, `is_picture`, the numbering of a
  forum's pages, the least size of a picture: they look at data and change
  nothing, or choose by data that the properties do not tell apart.
* Memory as such: reads beyond a buffer, corruption of containers by
  unsynchronised access (an operation on a container is one step here; the
  Master's maps and lists do race), and what a handler does on a deleted Slave
  object beyond the calls it makes on other objects; a page whose bytes no 0
  follows before the memory ends.
* `MergeFile`'s copying. With the slaves of this repository no file that has a
  fragment is ever combined, unless the memory a worker of its first fragment
  was made in said `SUBMITED` (`OnlyEmptyCombined`).

Hazards of `PROJECT.json` that no property excludes, and why, with the place
where the model lets each of them happen:

* The order in which `main` takes the parts down (`spider_main.cpp:53`): the
  rinse model stops a worker that would use the freed event base, and
  `LeftOnlyWhenDone` shows that such workers can be there.
* The byte that two neighbouring HTTP ranges share (`Slave/DBFWorker.cpp:87`):
  the merged file in which it would be twice is made only after a report from
  uninitialised memory.
* A little task whose `DoTask` failed belongs to nobody
  (`Master/TaskManager.cpp:39`): `stranded`, which `AssignedHasOwner` excepts. A
  place in a list that a RESULT handled before `push_back` leaves for good
  (`Master/Slave.cpp:83`): one of `PlaceHasReason`'s reasons.
* A header taken for complete too `early` (`spider_http_client.cpp:278`), the
  tail of a page whose chunks were cut (line 362), a picture torn by a crash and
  believed (`broken`, `spider_storage.cpp:55`).

The properties name these cases as exceptions because the code has them and no
document of the repository says otherwise; the notes of `PROJECT.json` tell for
each hazard what its properties leave out.

## 8. Plan

Done: the pool and its promise, the executor over it, rinse with storage and
database, the HTTP client with the cookie login, the text and page functions,
the Master, its cut of a file, and the Master with its Slaves; the refinements
between them.

What would add most from here:

1. `SpiderCrawl`: an abstract crawl (each page of the closure of the seeds under
   links is requested at most once) implemented by executor and rinse together,
   with the order of the three `uninitialize` calls as steps.
2. The ranges a slave asks for and `MergeFile`, once a slave can finish the
   first fragment.
3. A theorem that `HexToDec` reads the numerals of a server, of every length and
   up to the width of an int.
