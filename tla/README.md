# A TLA+ model of pygaga

pygaga is a Python 2 library: locks for cron jobs, an LRU cache decorator, a
keep-alive connection pool and a downloader, rate limits, an ssh tunnel, loggers,
text and date helpers, an HDFS client and a comparison of HDFS directories, a log
decoder, address look-ups and a regression pipeline. It has no unit tests
beside a few doctests and `__main__` demonstrations. This directory holds
models of the parts whose correctness depends on the order of events, on what
fails in the middle, or on files and messages that outlive a step; the TLC
runs that check them; and proofs of their main properties.

Paths below are relative to the repository; `helpers/` is `pygaga/helpers/`.

## Inventory

| part | state | operations | what is hard |
|---|---|---|---|
| file lock, `helpers/lock.py:36-81` | the file at the lock path; each job's pid and place | test, read, probe, kill, remove, open, write, body, `finally`, `--unlock` | test and create are two calls; the file names a pid that may be dead or reused; kills at every step |
| ZooKeeper and Redis locks, `lock.py:83-148` | one node or key | connect, exists, create / SET, body, delete, `--unlock` | requests whose answer is lost; a `finally` that also runs for the loser of a race |
| choice of the lock, `lock.py:150-171` | flags | `lock(key)` | jobs with different flags do not exclude each other |
| LRU cache, `helpers/cache.py` | `cache`, `exception_cache`, `queue`, `refcount` | hit, miss, expiry, held exceptions, eviction, compaction | four structures that must agree over long sequences of calls; nested calls |
| connection pool, `helpers/keepalive.py` | `_hostmap`, `_connmap`, `_readymap`, httplib's state of each connection | get_ready_conn, add, remove, do_open, close, close_connection, close_all | threads; a response is closed by three parties; unlocked `set_ready` |
| response buffer, `keepalive.py:411-452` | `_rbuf`, what httplib has not read | read, readline, readlines | a mixed sequence of calls; limits and hints |
| download, `helpers/urlutils.py:113-162` | retry counter, data | one attempt with six outcomes | banned answers and timeouts share the counter |
| DNS and openers, `helpers/cachedns_urllib.py` | the DNS cache (an LRU cache) | resolve, connect twice, handler chain | retry after any exception; a held failure that is counted twice; an address that expires |
| rate limits, `helpers/ratelimit.py` | allowance, last check | droplimit, waitlimit, batch, chunks | integer division, rates below one, clock steps |
| ssh tunnel, `helpers/sshforward.py` | one ssh client for all threads, a channel per thread | handle, connect_server | reconnection by every thread; partial sends; which end closes first |
| map-reduce, `helpers/mapreduce_multiprocessing.py` | partitioned pairs | partition, call | grouping whatever the chunks |
| regression, `model/regression.py:30-214`, `model/r/` | temporary files, the directory `tmp`, the tasks of two process pools | split_rows, run_r, select_feature, generate_strip_data, generate_model, remove_file | processes come through in any order, one fails while others write; a directory shared with other runs |
| training, `model/feature.py`, `glm.py`, `regression.py:216-763` | seven files with fixed names, the names of the inputs, the coefficients | dump samples, make the input of svd, liblinear or R, read the weights back, estimate | files of earlier trainings; exit statuses that nobody looks at; columns that change places |
| log decoder, `log_decoder/` | the current group | map, sort, reduce, decode | lines without an end; streaming group-by with an empty sentinel |
| address lookup, `helpers/ip.py`, `ip2.py` | sorted ranges; the position in a mapped file | two binary searches, reading of a record | ends of ranges; redirections |
| HDFS diff, `hadoop/diff.py` | two sorted listings | list, recursive merge | an index one past the end |
| HDFS client, `HdfsClient/` | transport, its write buffer, bytes on the way | connect with failover, 19 calls, the processor | answers that carry no number; calls that are given up; half-written messages |
| loggers and alerts, `helpers/{statsd,paperboy_logger,scribe_log,logger,gmail,graphite_alert}.py` | a transport | one-shot sends; window of data points | no data counts as an alarm |
| text, dates, database helpers; scripts | none of their own | pure functions, wrappers | boundaries |
| `pinyin.py` | - | a table | - |

The parts meet in few places. A script wraps its work in `with lock(key)`; the
three locks are alternatives chosen by flags, and each lives in one shared
object outside the process. `cachedns_urllib` decorates `gethostbyname` with
the LRU cache and builds the openers that `urlutils.download` uses, with the
keep-alive handler as an option. Log handlers and `graphite_alert` call
`download`; the map and reduce steps of the log decoder are separate processes
that meet in a sorted stream. The models of `model/feature.py` call the
functions of `regression.py` and `glm.py`, and meet them in files only.

What makes each of the modelled parts correct:

* locks: at most one job is in the block; a job is refused, or killed, only because of one
  that has been in the block and whose process still runs; nothing is left behind without
  a fault, and what a fault leaves is cleaned up;
* cache: the counts are those of the queue, the cached keys are those that can
  be evicted, the bookkeeping raises nothing, the bounds hold, only the least
  recently used key goes, and an exception is not raised again after a success;
* regression: no file is removed before its last reader, every removal finds its file,
  a failure of one process reaches the caller, a run that returns leaves nothing;
* pool: one request per connection, idle connections only are handed out, the
  three maps are one pool, closing calls close, requests end unless a server says nothing;
* response: the calls give the body once and in order, each as much as it says;
* download: it ends, returns the last page it read, raises as asked, and asks for a
  name that failed again, but not in every attempt;
* rate limits: no burst above the rate but for what a clock set forward gives, no drop below
  it, no endless wait;
* tunnel: bytes arrive in order, are dropped only for a side that has closed, and
  a lost transport is replaced;
* training: a weight belongs to the feature, the samples and the training it is
  taken for;
* log decoder: every click is reported once with all its rows, a row is lost only
  to a line without an end, decoding inverts encoding;
* look-ups: the range or record found is the one the address is in;
* HDFS diff: a comparison that ends has said everything once and nothing else;
* HDFS client: a call gets its own answer, of its own type, and ends; a connection
  is found if a host would give one.

## Modules

| module | models | correspondence |
|---|---|---|
| `MutexLock` | what `with lock(key)` promises | `inside`: the jobs between `yield` and `finally` |
| `FileLock` | `check_filelock`, `pid_exists`, `get_pid_running_seconds` | one action per system call, and one for the end of a job's script (`Exit`), as the process goes on behind the block; `content` is the file, `linked` the descriptors that still are the file at the path, `pc` the next line of each job |
| `ServiceLock` | `check_zookeeper_lock` and `check_redis_lock` | one action per request; `service` says which of the two; they share all steps but the write |
| `LruSpec` | an LRU cache of a given size | `recent`: keys by latest use |
| `LruCache` | the wrapper of `lru_cache` | one action per call of f, per return, and per iteration of the loops of lines 65-79; `stack` holds the calls that have not returned |
| `KeepAlive` | `ConnectionManager`, `KeepAliveHandler`, closing of `HTTPResponse` | one action per critical section and per call on a connection; `sock`, `sent`, `answer` and `fp` are httplib's |
| `Regression` | `regression()`, `run_r`, `SimpleMapReduce.__call__` as far as it runs tasks | one action per file made, per R process started or ended, and per return of a step; `stage` is the place of a run, `task` that of each R script, `files` what exists, `inTmp` the names that `os.tempnam` made in `tmp` |
| `ResponseBuffer` | `read`, `readline`, `readlines` of `HTTPResponse` | one action per call, and per line of readlines; `given` collects what the calls returned |
| `Download` | `download()`, `connect()` of both connections, the resolver's cache for one name | one action per connect and per outcome of an attempt; `pages` is what was read, by attempt; `dns` says whether the address is known, has expired, or its failure is held |
| `RateLimit` | `droplimit`, `waitlimit` | one action per pass of a loop, per tick and per step of the clock; `now - shift` is `time.time()`; allowances are exact multiples of 1/(10 per) |
| `SshForward` | `Handler.handle`, `connect_server` | one action per call on the transport, per recv and send; bytes are numbered |
| `ThriftMessages` | the classes of `ttypes.py` and the argument and result classes of `ThriftHadoopFileSystem.py` | a class is the sequence of its fields; `ToWire` and `FromWire` are the generated `write` and `read` |
| `HdfsClient` | `connect`, `close`, `Client`, `Processor` | one action per send, per message processed and per answer read; `toServer` and `toClient` are the bytes on the way |
| `LogMessages` | the message classes of `adinfo_pb2.py` and `usertrac_pb2.py` | a class is the sequence of its fields; `Serialize` and `Parse` are protobuf's, with a level for each depth of nesting |
| `LogPipeline` | `mapper.py`, `sort`, `reducer.py`, `log_decoder.py` | one action per line mapped and per row reduced; `called` are the rows printed by a line, `printed` those that are rows of their own |
| `ModelTraining` | `stats_model.train` and the models that train, `dump_signallst`, `glm_train`, `svd_regression`, `lg_regression` and the functions they call | one action per file written or command run; `disk` is what each file holds |
| `IpArea` | `IP2Area`, `Area` of `ip.py` | one action per pass of the search |
| `IpLocater` | `IpLocater` of `ip2.py` | one action per pass of the search and per part of the record; `pos` is the position in the file |
| `HdfsDiff` | `ls_hdfs`, `diff_path`, `diff_hdfs` | one action per directory listed and per pass of a loop; `frames` is the recursion |
| `MCNetwork`, `MCBatch` | each composes modules that share no state, a behaviour being one of them | |
| `*_proofs` | theorems of the module they extend | |
| `MC*` | model values and symmetry for TLC | |

`FileLock` and `ServiceLock` are each shown to implement `MutexLock` (mapping
`inside` to the jobs whose `pc` is "inside"), `LruCache` to implement `LruSpec`
(mapping `recent` to the order of the last occurrences in the queue, with the
two parts of the queue exchanged while it is being compacted).

The operators introduced by "Plausible bug" next to a definition are mistaken
variants of it. Nothing uses them; replacing the definition with its variant
makes the property named in `PROJECT.json` fail, which shows that the property
depends on the code.

### Abstractions

* A job is its pid; the host name and time in the lock's value are written and never compared, so
  only the pid is kept.
* Time is absent from the locks but for one bit per job ("has run for more than
  `lock_pid_expire_seconds`"), and one bit per entry in the cache ("younger than `maxsec`").
* Jobs of several users (`OtherUsers`): `pid_exists` takes every OSError for a missing process,
  the EPERM of another user's too, so that any live process may be taken for a dead one. The
  lock's directory lets every job remove the file; the EPERM that `os.remove` raises in a
  directory with the sticky bit is left out.
* Whether pids are reused, jobs overlap, writes or requests fail, jobs are killed (and where) or
  somebody runs `--unlock` are constants of the locks; every theorem names the ones it needs.
* A request opens at most one connection and gets at most one response, so that the three carry
  one name. The content of requests and responses is left out.
* `Regression` leaves the data out. `os.tempnam` is taken to make names that nobody else has. The
  loops that remove the files of a step are one action, as they touch files that no other process
  uses (`NeededFilesStay`). A process of a pool that dies without an exception is left out: Python
  2's `Pool.map` then waits for ever.
* A Thrift datum is its wire type and an identity; two fields of one type are told apart by it.
  The 19 calls are all there, each with the fields of its own classes.
* The liblinear, svd and R commands are not computed: a weight *is* the column of values it was
  fitted to, so that a property can say whose weight it is. The svd command may find any rank that
  the matrix allows, and each value of U * S may be positive or not; `MaxNegatives` bounds how
  many are not. The data file is written in one step, the file of the names in two, as it is
  opened (and emptied) in front of the data and flushed behind them.
* `LogPipeline` keeps of a line its kind, its hash and whether it ends; which rows a line makes
  follows the code. `sort` gives the rows of one key in any order.
* The rate limits' floats are exact numbers in the model; rounding is left out.
* `Download` follows one name. Time and the accesses to other names are the action `Age`, which
  may let an address expire, or drop it or its held failure, between any two steps; but not what
  the first lookup of a `connect()` has just asked for before the second.
* `IpLocater` has the bytes of a file as cells: a string, a mode byte or an offset.
* `Staggered` is the use that the locks are made for: a job is not started while another one is
  between its start and its block. `MutexLock` is not implemented without it, for the file lock
  (test at line 55, create at line 72), for Redis (EXISTS at line 132, SET at line 141) and for
  ZooKeeper with `--autounlock` (run `zk_mutex`).

## Runs

| run | instance | checks |
|---|---|---|
| `file_faults` | 4 jobs of several users, every fault, kills at every step and behind the block, `--kill_lock_pid` on some command lines, no reuse of a pid that is still named | `TypeOK`, `AbandonedOnlyByKill`, `RefusedOnlyByEntrant`, `OnlyEntrantsAreKilled` |
| `file_turns` | 3 staggered jobs of one user, killed before opening the file, in the body, in the `finally` or behind it | `ImplementsMutex`, `AbandonedIsRecovered` |
| `service_turns` | 4 staggered jobs of each service, every request may fail, killed anywhere | `TypeOK`, `ImplementsMutex`, `AbandonedOnlyByFault` |
| `zk_mutex` | 3 jobs, no fault at all | `MutualExclusion` fails |
| `lru_order` | 3 keys, maxsize 2, exceptions held for one call | `RefcountIsExact`, `SizeBound`, `ImplementsLru`, `HeldIsLatest` |
| `lru_nested` | 2 keys, maxsize 1, expiry, held exceptions, KeyErrors, one nested call | `NoFault`, `CachedIsQueued` |
| `pool_threads` | 3 requests of one host, failures, closing servers, `close_connection(host)` | `ExclusiveUse`, `ReadyIsIdle`, `SweepCloses`, `RequestsEnd` |
| `pool_closers` | 3 requests of 2 hosts, every closing call | `TypeOK`, `OnePool` |
| `regression_pools` | 2 runs in one directory, 2 row parts, 2 column parts, pools of 2, failures of every script and of writing the rows | `TypeOK`, `NeededFilesStay`, `RemovalsSucceed`, `ReturnLeavesNothing`, `ReturnHasResult`, `DirStays`, `RunsEnd` |
| `hdfs_calls` | 3 servers of different versions, 3 calls in all over a connection, every method | `CallsAreAnswered` (`TypeOK`, `AnswersLag`, `ValuesAreTyped`, `ArgumentsArrive`), `FailsOnlyIfAllFail`, `CallsEnd` |
| `network_parts`, tunnel | 2 handlers, 2 bytes and 1 byte each way, 2 losses, short sends | `TunnelIsFaithful` (`Faithful`, `DropsOnlyAfterEnd`), `RecoversAndEnds` |
| - download | 5 downloads of one process, up to 2 retries, every combination of arguments and an empty url, a failure held for 3 calls, addresses that expire or are dropped at any time | `PageIsAsAsked` (`ReturnsLastPage`, `EndsAsAsked`, `HeldIsRetried`), `RecoversAndEnds` |
| - rate | 6 settings with floats and integers, 5 items in 6 seconds, the clock set back once and forward once | `RateIsKept` (`BurstBound`, `DropsOnlyWhenFull`, `WaitIsBounded`) |
| - response | bodies of up to 5 bytes, 3 calls, a buffer of 2 bytes | `BodyIsGiven` (`NothingLost`, `ReadIsFull`, `LineIsLine`, `LinesAreWhole`) |
| `batch_jobs`, report | up to 3 lines of every kind, 2 hashes | `ReportIsExact` (with `LossHasCause`, `DecodedAsEncoded`) |
| - model | 4 models, 2 trainings on any of 5 lists of samples, failing commands, a kill at every step, ranks up to 4 with one-digit numbers below 3, any value of U * S not positive (`MaxNegatives` = 1) | `WeightIsOwn` (`WeightOfFeature`, `ComponentsMatch`, `FavoursGoodResults`, `GlmIsFresh`, `EstimatesAgree`) |
| - diff | every pair of 21 trees of two levels and of three, one failing listing | `DiffIsExact` (with `CutOffBehindDst`) |
| - area | tables of 0 to 4 ranges, with and without gaps, addresses below, in and above them | `LookupFindsOwn` (`FoundIsRange`, `CityIsWithProvince`) |
| - locater | files of 1, 3 and 5 records, the three with every pair of record forms, 2 look-ups | `LookupFindsOwn` (`InsideIsFound`, `AnswerIsRecords`) |

`network_parts` and `batch_jobs` check several modules in one run. A property of
theirs is the conjunction of those of one module (in brackets) with its `TypeOK`;
`MCNetwork` and `MCBatch` define it. The types of `LruCache` are proved
(`TypeCorrect`). Nothing is shared between the modules of
such a run, so that a behaviour is a behaviour of one of them and the numbers of
their states add up.

Bounds. Two jobs are enough for each of the file lock's races and three for a job that runs into
the outcome of one; four jobs leave one to spare. A deque of a cache with room for two is
compacted beyond eight entries, so that `lru_order` compacts with repeated and with single keys,
and three keys make evictions choose. With maxsize 1 the deque of `lru_nested` is compacted beyond
four entries, in the inner and in the outer call. Three requests are enough for a connection that
is given up by one, taken by the second and closed by the third. All requests of the pool end and
nothing is started after them, and so do the runs of `regression_pools` and everything in
`hdfs_calls`, `network_parts` and `batch_jobs`: these runs do not check deadlock. Two parts each
way are enough for one process of a pool to be done, failed or still at work when the other is,
and for a file of one part to be removed while the other needs its own; two runs are enough for
one to remove the directory of the other. Three calls let one be given up, the next get its
answer, and the third be behind that one. A chunk of the tunnel (`RecvSize` 2) can be sent in two
parts; two losses let one handler lose the transport that the other has just made. Five downloads
outlast a failure held for three calls. A body of five bytes has up to three lines that a buffer
of two bytes splits anywhere. Three lines of a log are enough for a line without an end between
two others of the same or another hash. With numbers below `Base` = 3 having one digit, the fourth
component of four (number 3, in two digits) is sorted before number 2, which is what happens to 10
and 2 in the code. A second training meets whatever the first has left. One value of U * S that is
not positive gives a column that has some samples' values and not the others', and in the list of
one sample a component without any value. Five records give the search three passes. Symmetry is
used only where no liveness property is checked.

Fairness. `FileLock!LiveSpec` has weak fairness of each job's steps (the operating system runs a
process, and the body of a job ends) and of starting each job (cron goes on starting them); never
of kills or `--unlock`. In `file_turns` no contender is killed before it opens the file: if every
contender were, no lock would ever be recovered. `KeepAlive!LiveSpec` has weak fairness of the
steps of `do_open` (a thread that is inside it is scheduled) but for the two calls on a socket,
sending the request and waiting for the answer: line 340 makes the `HTTPConnection` without a
timeout and `req.timeout` is not used, so a server that says nothing keeps a request there, and
`RequestsEnd` allows that and nothing else. Readers and closing calls are never promised, since
the caller of `urlopen` may keep a response for ever. `Regression!LiveSpec` has weak fairness of
the steps of a run that has begun and of each script of the pool it waits for: the operating
system runs the processes and R ends. Nothing is promised of the scripts that a failed run leaves
behind. `MCNetwork!LiveSpec` has weak fairness of the steps of each handler thread of the tunnel
(`select` returns when there is data) and of the steps of a download (`cachedns_urllib.py` gives
its sockets `FLAGS.timeout`); never of losses, of what the ends of a tunnel write, or of the next
download. `HdfsClient!LiveSpec` has weak fairness of `connect`, of the server's `process` (its
`TSocket` has no timeout, so that a server which accepts a request and never works on it would be
waited for) and of reading what has arrived; never of giving a call up, closing or losing the
connection.

### What disagrees with the code's own words

* `zk_mutex` (a run that fails): a job that loses the race for the node deletes the
  winner's (`lock.py:115-119`), although line 103 says of a node that exists "%s is running,
  val %s".

Seen while modelling, not kept as runs:

Locks. After a kill between open and write no job gets past the empty file again: `lock.py:57`
raises before the removal of line 69, which says "%s expired, pid %s not exists, removing lock
file" (`AbandonedIsRecovered` fails if `CrashAt` includes "write"). `get_pid_running_seconds`
(`utils.py:85`) compares a column of `ps`, a string, with an int and answers None, smaller than
every int: a holder is never killed for running too long, although the help at `lock.py:34` says
"How many seconds lock pid will expire, if expire will be killed". A job that has left the block
is still a process: one that read its pid in time is refused with nobody inside (66), or kills it
(63), and removes the file (64) of a job that has entered since, although line 60 says "%s is
running, val %s". `usefilelock` is on by default and is tested before `usezklock` (161).

Pool. `_remove_connection` (`keepalive.py:208`) closes the connection before it is out of the
pool. Closing it closes the response that another thread waits for, whose `close()` marks the
connection ready; it is handed out, marked ready a second time, and handed out again, although
lines 30-31 say "If a connection to a given host is requested, and all of the existing connections
are still in use, another connection will be opened" (`ExclusiveUse` fails with four requests of
one host and "close_connection" among the `Closers`). `close_all` goes over the list from which it
removes (198-199), so that every other connection of a host stays in the pool and open, although
line 196 says "close all open connections". `set_ready` puts a connection back into `_readymap`
that `remove` has taken out (the assignment never raises the KeyError of line 155). A connection
that could not be made stays in the pool (236-240). `readline(limit)` with 0 <= limit < len(_rbuf)
returns limit bytes although there may be a line feed among them, against what lines 363-369 say
of it.

Cache. `exception_cache` has no bound; with nested calls or a KeyError from f an
exception may be raised again after a success.

Download. An https failure in `connect` is swallowed and surfaces as an
AttributeError, which `download` does not handle. Timeouts of a connect come as URLError
and are not tried again. A timeout with `rethrow` raises only after the sleep. The page
of a banned attempt is returned when a later attempt fails. With a hold of 100 a
failing name is asked for again after some 50 attempts, as each looks it up twice. The failure to
renew an address that has expired is not held (`cache.py:30-31` are outside the clause that holds
exceptions): such a name is asked for in both lookups of every attempt until it is found.
With an empty url the caller gets None, with `rethrow` too (`urlutils.py:118`).

Rate limits. With integers and rate < per nothing is ever added; with rate < 1 the
allowance is cut below 1.0 and nothing passes any more. `time.time()` is the clock of the system: set
forward, it fills the allowance at once, and a second burst follows the first; set back, it lowers
it, below 0 too, and `droplimit` drops and `waitlimit` waits until it has grown again.

Tunnel. The message of line 24 ends in "retry", but the request is not tried again:
`chan` was never assigned and line 29 raises UnboundLocalError.

HDFS. Every message has the number 0 and `recv_X` looks neither at it nor at the
method's name: after a call that is given up, each call gets the answer to an earlier
one, read as its own type. A call whose argument cannot be written leaves half a
message in the buffer, in front of the next one. `diff.py` ends with an IndexError when
a directory's items in dst are used up before those of src, takes a listing that
failed for an empty directory, says nothing of a file that is a directory on the other side,
and calls `time` without importing it.

Log decoder. A last line without a line feed is printed as it is, and the next row is
glued to it. A hash with a line feed in it cuts its row, on which the reducer then
raises (`row[1]`). A click without display_info has media 0. The mapper uses `traceback`
without importing it, so that the first line it cannot read ends it. Hashes of clicks are
printed with "%016x", those of tracks and hops as they come in the query.

Training. `sort -n` (`regression.py:427`) breaks ties by text, so that with more than ten
components their weights are put in the wrong places (`ComponentsMatch` is stated for ranks up to
`Base`, and fails without that condition). Values that are not positive are left out of
liblinear's input one by one (`regression.py:539`), those of U * S too, whose signs mean nothing:
a component's weight is fitted to a part of its values. If a command fails, the model or the
matrices of an earlier training are used. Samples without a feature leave the data file of an
earlier training in place. The file of the names is never closed (`glm.py:24`): a process killed
in `dump_signallst` leaves it empty, beside new data or those of an earlier training, and a next
training with `new_signal` off does not know the names of its columns. The assertion behind svd
fails when no sample has a positive value in the last component. The comment `#b = v * 1/s * a`
names a division by s that `calc_lg_coef_new` does not do. `estimate` and `estimate_with_detail`
differ on a signal without its joint features.

Look-ups. `ipint2big_area` raises a TypeError for an address in no range. `ip2.py` sends the
first address of a record to the record before it, never reaches the last record,
recurses for ever on a file with one record, and shares one position among all its users.

## Proofs

TLAPS proves the following for all values of the constants that satisfy the
modules' assumptions.

`FileLock_proofs`:
* `TypeCorrect`.
* `OnlyKillsAbandon`: one step from `TypeOK`. `TypeOK` already says that a descriptor in `linked`
  belongs to a job at its write; only `finally` takes a living job out of those responsible for
  the file, and it takes the file along.
* `RefusalsAreJustified`, `KillsHitEntrants`: from the invariant `NamedHolds`, that a pid which
  the file or a contender names is in its block, behind it, or ended. It needs that named pids are
  not reused. Reading the file and probing later is not harmless: whoever is refused or killed
  because of it may find the lock free or have left it. What is proved is that no job suffers for
  one that never held the lock.
* `StaggeredJobsExclude`, of the jobs of one user: the invariant `TurnInv` says what the path
  holds at each step of the one job that is acquiring, and that it names whoever is inside; from
  it every step is one of `MutexLock` or a stutter. Kills and reused pids are included, so it is
  stronger than what `file_turns` checks.

`ServiceLock_proofs`:
* `TypeCorrect`, `OnlyFaultsAbandon`.
* `KeptNodeExcludes`: with `--noautounlock` ZooKeeper's create is a real lock. The
  invariant is that the node names whoever is inside.
* `StaggeredJobsExclude`: the invariant `TurnInv` says besides that a job which
  has seen no entry is alone, and that nobody is inside while a failed job still
  has to clean up.

`LruCache_proofs`:
* `TypeCorrect`.
* `BooksAreExact`: `refcount` counts the occurrences in the queue, the cached keys are the queued
  ones (with the exception of a value just stored), and neither `popleft` nor a lookup of
  `refcount` fails. The invariant is the conjunction, with what each stage of the bookkeeping
  knows; lemmas say how appending to and taking from a queue changes the occurrences of a key.
* `CachedAreQueued`: its part about the cached keys, by itself.
* `SizeIsBounded`: from that, and from what holds at each stage.
* `BookkeepingNeverRaises`: `NoFault`, of which the lookups are the part above and the assertion
  of line 80 is the rest. `KeptInv` says that during a compaction each key behind those still to
  be looked at has a count of 1. When nothing is left to look at every count is 1 or missing, and
  `SumOfOnes` (by a smallest counterexample) makes their sum the length of the deque.
* `HeldExceptionIsLatest`: `HeldIsLatest` for an f that neither calls its own wrapper nor raises
  KeyError (`MaxDepth = 1`, `KeyErrors = FALSE`): a nested call of the same key changes the dicts
  between the look-up and the store, and a KeyError of f is taken for a miss. `HeldInv` says of
  every key that a held exception has no raises left when a value is cached or was the latest
  outcome, and what the one call knows of it at each of its steps.
* `CacheIsLru`: every step is one of `LruSpec` or a stutter. The refinement mapping is the
  sequence of the queued keys by their last occurrence; that it is the only sequence without
  duplicates in that order (`RecencyIsUnique`) turns each step into a statement about occurrences:
  appending a key moves it to the end, taking one that occurs again changes nothing, taking a last
  occurrence drops the first key. During a compaction the order is that of the deque with the kept
  part behind the rest put back in front. `RoomInv` says that at most maxsize keys are counted
  when a key is recorded.

`Regression_proofs`:
* `TypeCorrect`.
* `NeededFilesAreKept`: from `OrderInv`, that the scripts of the steps behind a run are
  done and those of the steps before it not taken; what a step removes is not
  among the inputs of a later one.
* `RemovalsAlwaysSucceed`: from `KeptInv` besides, that the rows and the results that
  later steps use are there.
* `ReturnsLeaveNothing`: from `LeftInv`, which lists what may be left at each stage
  beside the scripts being run or failed.
* `ReturnsHaveResults`: what the last script has written is removed by nobody.
* `DirectoryStays`: from `FilesNeedDir`, that a file in `tmp` keeps the directory whoever
  made it, and `StripInv`, that a run which began in `tmp` makes the name of its stripped
  data there while its rows still hold the directory.

`KeepAlive_proofs`:
* `TypeCorrect`, with `ConnInv`: a request that sends or reads has a connection.
* `MapsAreOnePool`: with every closing call. The invariant adds `OwnInv`, that a
  connection is in the pool only once the request it is named after has made it, so
  that `add` never meets it there. The lemma `RemovePool` follows one connection out of
  a list and the others to their new places.
* `OneRequestAtATime`, `HandedOutIdle`: when nobody calls `close_connection()` of a
  response, which is where they fail. From `UseInv`: a connection that may be handed out is used
  by nobody (`IdleInv`); an open response is being read on a connection with nothing
  to answer, and a response about to make its connection ready is still open unless the
  connection has left the pool (`ReadingInv`); httplib's answer of a connection is one that it
  gave (`AnswerInv`); a closing call closes what is out of the pool (`SweptInv`).
* `HostIsClosed`: `SweepCloses`, when nobody calls `close_all`, which breaks it.

`HdfsClient_proofs`:
* `ConnectFailsOnlyIfAllFail`: from `ConnectInv`, that while `connect()` dials, a good host
  is still to be tried or is the one being tried, whose answer is on its way and reads
  as one. That an answer reads as it was written is not assumed: lemmas show that `FromWire` undoes
  `ToWire` for every class of `ttypes.py` and every value of its fields.
* `EveryCallGetsItsAnswer`: from `QueueInv`, that requests and answers on their way
  are those of the last calls, one after the other and as many as were given up
  or are waited for, so that answers lag by exactly the calls given up; and from `OwnInv`, that the
  request waited for has the name of its method and its answer reads as it was meant.

`Network_proofs`. By the lemma `PartsStayApart` a step of the composition is one of the part it
began in; each part has an invariant of its own.
* `TunnelsAreFaithful`: `Counted`, `InOrder` and `OverFirst` for each handler and side, that is
  what was sent is the beginning of what was received, which is no more than what was written, and
  a tunnel that is being taken down is behind the end of a side.
* `PagesAreAsAsked`: `PagesInv` (pages are those of earlier attempts, none of them good, and
  `data` is the latest), `ErrorInv` (an exception waits only when wanted) and `NamesInv` (attempts
  that met a held failure are at most as many as it was counted, and an attempt that has asked for
  a name has its answer, which the cache keeps until the second lookup: `MetAsCounted`). Addresses
  may expire or be dropped at any step of it (`AgeKeepsNames`).
* `BodiesAreGiven`: the properties by themselves are not inductive, since a `readlines` calls
  `readline` many times. `RoundInv` says that between two rounds the lines so far are the end of
  what was given, cut at line feeds, and have not reached the hint. Lemmas say what `find` and
  slices of the buffer give.
* `RatesAreKept`: `BurstInv`, that what went through since any item plus what is left of the
  allowance is at most a burst and what has grown since, by time that passed or by which the clock
  was set forward; `DropInv`, the converse at each drop, for exact rates; `WaitInv`, that while an
  item waits the allowance has grown with the time that passed, but for what the clock was set
  back. `BurstBound` and `WaitIsBounded` compare products, so that lemmas on multiplication and
  division stand in for what the prover does not find.

`Batch_proofs`. As in `Network_proofs`, a step belongs to one part.
* `LookupsFindOwn`. Of `ip.py`: `SearchInv`, that the address is between the ranges at the two
  bounds. That the first and the last range bound a table without gaps, which the first test of
  the search relies on, is an induction over the table; the lemma `Rising` does it with a smallest
  counterexample. Of `ip2.py`: `FindInv`, that a record the address is inside of is between the
  bounds, and `ReadInv`, that the record found is one of the file's, with its area at the position
  once its country is read. The forms of a record, which the constants are assumed to have, are
  the three that the code can read (`Says`).
* `DiffsAreExact`, by `DiffInv`. `Placed` and `Apart`: every frame of the recursion has a place in
  both lists of its directory, and what it is behind in one is in front of what it is not behind
  in the other; without it a step could pass an item that the other list still has. `Walk`: a
  frame is behind the directory of each frame inside, and that directory is in both listings.
  `Said`: the lines are what is to be said of the paths that the walk is behind, each once. When
  no frame is left the walk is behind every path. `PastLast` is what is left of the index error:
  whoever gets past the end of dst in the inner loop did so behind an item that src does not have.
  That a directory can be listed in order at all (`InOrder` is a `CHOOSE`) is an induction over
  the number of its items (`RisingList`). Of the trees it assumes only that they are finite and
  that what is above a path is a directory.

* `ReportsAreExact`, of rows as they are printed, whatever the lines. It assumes that no hash
  is empty (`LogPipelineAssumption`), since `reducer.py` tells by the empty key that it has no
  group yet. `PipeInv` holds step by step. `LossInv`: what is
  printed was to be printed, and what is not is as many rows as lines came without their line feed;
  the one that may still be open is counted. `GroupInv`: of the group's hash, the rows read are
  those in the group; `ReportInv`: of every other hash none is read and nothing is reported, or all
  are read and it is reported, once. Without the second half a hash whose rows are not next to
  each other would be reported twice; sorting is what rules it out. Rows are a bag, and its
  `BagCardinality` is a fold in an order nobody knows: the lemmas count the set of the copies
  instead (`Copies`), which is as large. What a message is read as: the classes
  have fields with numbers of their own (`Numbered`, of each class by its list of fields),
  hence the data of a field are found again by its number and wire type, by the depth of nesting
  (`Sound1` to `Sound4`).

* `WeightsAreOwn`, of any features and samples. It assumes that the features are finitely many and
  that none is called `result` or `(Intercept)`, the two names that `feature.py` gives to columns
  of its own (`ModelTrainingAssumption`). `TrainingInv` says what each file holds from the step
  that writes it: the names are those of the samples' features and the data are their values
  (`NamesInv`, `DataInv`; `Dumping` of the step between the two, in which the file of the names is
  empty), the matrix and the command's input were made of the data (`MatrixInv`, `InputInv`), and
  the weights of that input (`WeightsInv`). Each part asks only that the training has features,
  and from the first command on that none has failed: a file that a failed command left from an
  earlier training satisfies none of them. Of an `old` model nothing has to be asked, since its
  coefficient file is removed first (`Courses`). The rest is about lists. What a list of lists
  flattened has in a place is found by the number of lists so far (`FlatteningIs`, with a smallest
  counterexample), so that the lines of a column are the shares of the rows (`ColumnsAreShares`)
  and a column with a value is within the width (`WidthOfLines`); that `sort -n` leaves up to
  `Base` components in order is `SortedByNumber`; that every name stands for its own input is
  `ParsedByName`.

Model-checked only: the liveness properties (`AbandonedIsRecovered`, `RequestsEnd`, `RunsEnd`,
`CallsEnd`, `RecoversAndEnds`), which rest on fairness, and `MutualExclusion` of `zk_mutex`, which
the code violates. The proofs are about the state after each step; that a loop of `while` ends is
checked on small instances by the runs.

## Not modelled, and the plan

Every safety and action property of the passing runs has a theorem. What is next is in the model:
a server that has processed a request whose reused connection fails after it was sent
(`keepalive.py:224`), which only `PROJECT.json` lists as a hazard.

Left out for good:

* `helpers/pinyin.py`, a third of the lines of the repository: a table of characters.
* The arithmetic of R, svd and liblinear, chi-square selection, and the constant, poisson and
  bayesian models of `feature.py`: floating point.
* `MalformedInputException`, `BackEndTag` and `TagAdsLog` of the generated code, which nothing
  uses; RC4 and base64, which only undo themselves; `CityIndex` of `ip2.py` and `Income` of `ip.py`, which
  read the tables in `pygaga/corpus` once and look names up in a dict. (The database that `ip2.py`
  reads, `qqwry.dat`, is not in the repository; the files of `batch_jobs` have its format.)
* `batch` and `chunks`, the cookie, post and parsing helpers of `urlutils.py`, the handlers of
  `cachedns_urllib.py` that only wrap a class or unzip an answer: functions without state.
* `lock()` itself, which tests three flags in turn.
* Text and date helpers (`magicdate.py`, `nlp.py`, `mmseg.py`): pure functions of strings.
* The database wrappers (the state is the database's), logging, alerts and mail (one-shot I/O),
  crawlers and shell scripts.
