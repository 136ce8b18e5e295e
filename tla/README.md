# A TLA+ model of ProjectDb

ProjectDb is a key-value store in the form of a log-structured merge tree: a C++ library with the
calls `get`, `set` and `remove`. These modules model what happens behind the calls: MemTables and
their logs, the jobs that write MemTables to disk and merge the files, the renaming of files by
which results come into use, and the caller's thread that looks after it all. TLC checks the model on
small instances. TLAPS proves the invariants and the refinements of the store for all values of the constants, also of a
database that is opened on the files a stopped process has left, and of one whose jobs fail.

## 1. The system

| part | source | state | operations |
|---|---|---|---|
| Key, Value, Table, MemTable | `db/key.*`, `value.*`, `table.*`, `memtable.*` | a sorted map from keys to strings or TOMBSTONE | `getValue`, `set`, `remove`, `needsFlushToDisk` |
| MemTableQueue | `db/memtable_queue.*` | the MemTables from old to new, each with its log | `get`, `set`, `remove`, `pop`, `pushFromTransactionLog`, launch of a flush job |
| TransactionLog | `db/transaction_log.*` | a `.txl` file of SET and REMOVE records | `write`, `load` |
| SSTable, SSTableIndex | `db/sstable.*`, `sstable_index.*` | a file; the positions of some of its keys | `addIndex`, `seek` |
| SSTableIndexQueue | `db/sstable_index_queue.*` | the indexes from old to new, `m_compactionStartIndex` | `get`, `insert`, `tryLaunchCompaction`, `update` |
| SSTable operations | `db/sstable_ops.*` | none | `flushSSTable`, `loadSSTable`, `mergeSSTables` |
| ProjectDbImpl | `db/projectdb.cpp` | the two queues, the futures of the flush jobs, the future of the compaction | `init`, `get`, `set`, `remove`, the destructor |
| directory | `utils/system_utils.*` | the files | create, rename, remove, list |
| serializer | `utils/serializer.h` | none | encoding and decoding, and building an index on the way |
| configuration | `config/*` | global parameters, the two counters | `parse` |
| log, exceptions | `utils/log.*`, `exception.*` | none | output |

How they work together. A call first looks after the jobs (`checkFutures`). If a compaction is
running it does nothing. Otherwise it takes over the result of a finished compaction (`update`), then
the finished flush jobs from the oldest on: rename the `.ip` file, insert the index, drop the MemTable
and deprecate its log. Then it launches a compaction if there are enough new SSTables. After
that the call does its own work: `get` searches the MemTables and then the SSTables from new to old;
`set` and `remove` append to the log and change the newest MemTable, and when that is full, push a
new MemTable and launch a flush job for the full one. Jobs run in threads of their own. They share
with the caller the Table of a MemTable (a `shared_ptr`), the vector of indexes (the compaction
keeps iterators into it), and the directory. There are no locks: what keeps the threads apart is the order
of the steps.

What is hard here, and what makes each part correct:

* The jobs finish at any time and in any order, and `pop` takes the front MemTable whatever
  finished. Futures and MemTables must stay in step, and names, indexes and tables in the order of
  their age.
* A compaction reads the vector while calls go on. No call may insert or erase meanwhile, and the range
  `update` computes must be the one the job has merged.
* Files change their names under the indexes: after a compaction the merged file has the name of
  a table just deprecated. An index must find the table it was built from.
* A table exists in several forms (MemTable, log, `.ip`, `.sst`, `.merged`, `.deprecated`). At
  every moment at which the process may stop, some form that `init` reads must have it.
* A TOMBSTONE must outlive all older values of its key.
* A job that fails leaves its exception in its future. Whoever looks at it must neither lose
  the MemTable nor wait for ever.
* An index has only some keys of its table, and a seek reads one block. With
  `KEEP_SSTABLE_FILE_OPEN` it reads a file whose name may have gone to another table.
* The destructor and the calls wait for jobs, and compactions start only from calls: everything
  must come to an end, and the backlog must drain.

`PROJECT.json` lists these hazards by source line, with the properties that cover them, and those that no
property covers yet.

## 2. The modules

| module | stands for | proofs |
|---|---|---|
| `Tables` | the map of a MemTable or an SSTable, the sizes, `mergeSSTable`, the search for the newest table with a key | `TablesProofs` |
| `Directory` | the files, by kind and counter; the renamings of `system_utils` | |
| `MemTableQueue` (extends `Directory`) | MemTables with logs, the futures with the jobs behind them | |
| `SSTableIndexQueue` (extends `Directory`) | the indexes, the compaction job, `update` | |
| `ProjectDb` (extends both queues) | the calling thread; composes the parts; the properties of the whole | `ProjectDbInvariant`, `ProjectDbProofs`, `FilesProofs`, `RefinementProofs` |
| `KeyValueStore` | the abstract specification, what `projectdb.h` promises | |
| `SSTableIndex` (extends `Tables`) | the index of one SSTable: the writer and the loader entry by entry, `seek` | `SSTableIndexProofs` |
| `MergeLoop` (extends `Tables`) | the loops of `mergeSSTable`, with an iterator in each table | `SSTableIndexProofs` |
| `OpenStreams` (extends `ProjectDb`) | a database that keeps the files of its SSTables open | `RefinementProofs` |
| `TransactionLog` (extends `Tables`) | a log byte by byte: the writer, the loader, a record cut off, and others behind it | `TransactionLogProofs` |
| `Recovery` (extends `ProjectDbInvariant`) | processes that stop at any step, and `init` on what they leave | `RecoveryProofs` |
| `Failures` (extends `Recovery`) | errors of jobs, renamings, logs, reads and the launch of a compaction, and the calls that throw then; apart, of the launch of a flush job | `RecoveryProofs` |
| `Configuration` | `ConfigParser` line by line, the widths of the numbers, variables that outlive a database | `ConfigurationProofs` |
| `MC...` | values of the constants for TLC | |

**State.** `memTableQueue` and `indexQueue` are the two `m_queue`. `flushFutures` is
`m_flushToDiskFutures`, where an element also holds its job: the counter of the file it writes, the
table, and how far it is (`launched`, `writing` once the `.ip` file exists, `ready`). `compaction` is
`m_ssTableCompactionFuture` with the local variables of `mergeSSTables`. `sst`,
`inProgress`, `merged`, `txl` and `deprecated` are the directory. `pc`, `call` and `cursor` say where the
calling thread is. `unindexed` is a history variable: what the destructor flushed without inserting
an index. `writes` counts the calls of `set` and `remove`. In `Recovery`, `status` tells a database that
is down, in `init` (`opening`) or in use (`up`), and `stops` counts the processes that have stopped. `Failures`
adds what is broken: `failedJobs` and `compactionFailed` are the exceptions kept in the
futures, `badLogs` the streams in an error state.

**Grain.** A step of the caller ends wherever a file changes its name or the thread asks whether a
future is ready; between two steps the jobs run. So `update` is one step for each file
(`DeprecateNext`, `ActivateNext`, `ActivateLast`), a finished flush job is taken over in two steps
(`FlushReady` renames the file and inserts the index, `PopMemTable` drops the MemTable and its log),
and `set` is the record and the MemTable (`Write`) and then, when that is full, `Roll`. Two changes
are in one step where nothing else can see the state between them: `Write` appends the record and
changes the MemTable, which the calling thread alone reads. A flush job takes two steps, the compaction job one for each table it reads and two
for each it writes.

**Restarts.** `Stop` may come at every step; it clears everything but the directory. A process that
has closed the database may also open it again, and then the counters, which are global variables,
keep their values. `OpenDirectory` is the first part of `init`: it removes the temporary files, loads the
SSTables in the order of their counters and sets the counter of the SSTables. These are one step because the directory
then differs only in files that `init` removes in any case, and no job runs. `PushFromTransactionLog` loads one log; between two
of them the flush jobs of the earlier ones run, and the process may stop. `Opened` sets the counter
of the logs. `SortedNames` has the sorting: the sequences of all names whose counters increase, of which there is one.

**Errors.** In `FailureSpec` a job may fail at any of its steps, a finished file may not be renamed, a log may not
be written, a seek may not find its file, and the compaction may get no thread. `get()` on the future of a failed job throws out of
the call (`FlushThrows`, `CompactionThrows`) and leaves the future in place, without a state; `wait_for` on it
throws as well (in libstdc++, by `future_error`), so that every later call ends there again. The destructor
throws too, which ends the process (`Terminate`). A log whose stream has failed stays bad, and `write` throws
before the MemTable is changed (`WriteThrows`). What is said of errors, in the run `failures` and in the theorems, is
said of these. Of the errors that the code reports by an exception two are not among them: `LaunchFailureSpec` adds a flush job that gets no
thread, which breaks the database, see below, and a renaming that throws inside `update` is not modelled.

**What a log gives back.** `TransactionLog` has the bytes, for the encoder of `serializer.h` and the
loader as it is. `LoadIsReadable` reduces it to one operator, `Readable`: the records before the first SET,
however the file goes on. `Recovery` uses `Replay(Readable(log))` for the MemTable that
`load` returns. The reduction has two limits. A value that begins with four zero bytes may be read
as a short one, and then the loader goes on in the middle of a record; `LoadIsReadable` leaves such
values out. And `Recovery` stops between records, so that no record is cut off in it. In `TransactionLog`, `StopInside` cuts off a
record, which the loader drops, and `Reopen` goes on behind what is there of it, as `init` does. `starts` is a history
variable: where in the file each record begins. `ReadRecord` is one turn of the loop in `load`; `LoadFile` is the loop, a
recursive function of the position. A string has fewer than 2^16 bytes, so that of a size only the lowest two bytes are
not zero; the proofs are for all keys and values up to that length.

**What an index finds.** Outside `SSTableIndex` an index is the name of a file and the table it was built
from, and `seek` is a look-up in that table. `SSTableIndex` shows that this is enough: `FlushEntry` and `LoadEntry` are the two
loops that build an index, the writer's with one block size and the loader's with another, and `Seek`
reads the block between two positions. A position is one in the file, in the bytes that
the entries before it take. `SeekFindsEntry` says that it finds what is in the table, and it is proved for
every table. That the file under the name is the right one is `IndexMatchesFile`; for a stream that is still
open it is `StreamsMatchIndexes`.

**What a merge makes.** A merge is the operator `MergeSSTable` on two tables. The code goes through both with an iterator in
each, and `MergeLoop` has that: `MergeTurn` is a turn of one of its three loops, and the tables are sequences in the
order of their keys. `MergeLoopIsMerge` says that it makes the same table; `MCSSTableIndex` has the same as an assumption
for all pairs of tables of up to three keys, which TLC evaluates in the run `index`.

**Abstraction.** Keys and values are model values with a length (numbers in `SSTableIndex` and `MergeLoop`, where their order
counts, and strings of bytes in `TransactionLog`). A file is the table in it, and a
file that is being written is empty. Of deprecated files only the names remain. In all modules but `Failures` the jobs do
not fail. A step that the code would answer with an exception (no such file, a wrong size in
`update`) is not enabled; the properties say that this never occurs. In `Configuration` a line is a
name and a text, and a text is the number it begins with, if any.

**External parts.** None: what the model needs of `std::filesystem`, `std::async` and
`std::future` is in the actions that use them. Renaming and removing are atomic, and `launch::async`
gives every job a thread of its own.

## 3. What TLC checks

`W` bounds the calls of `set` and `remove` (`MaxWrites`); calls of `get` are not bounded. An
entry counts 6 bytes in memory and 22 in a file, a removed one 5 and 21; a file has 16 bytes more.

| run | instance | properties | states |
|---|---|---|---|
| `core` | two keys, MemTables of one SET or two removals, one compaction result, N = 1, W = 4, with fairness | `TypeOK`, `FuturesMatchQueue`, `FlushedTableIsFrozen`, `CloseLeavesCleanDirectory`, `LogOutlivesMemTable`, `RefinesKeyValueStore`, `EveryCallReturns`, `BacklogDrains` | 313 000 |
| `compaction` | one key, every write fills a MemTable, groups of two tables, N = 2, W = 5 | `IndInv`, `FilesInv`, `ContentsInv`, `IndexMatchesFile`, `FileOrderIsQueueOrder`, `CompactionRangeValid`, `DiskHoldsContents`, `QueueFrozenDuringCompaction` | 377 000 |
| `reappear` | one key, one value, groups of two tables, N = 3, W = 4 | `RemovedKeyStaysRemoved`: violated | |
| `temp_files` | N = 2, W = 3 | `TempFilesDisposable`: violated | |
| `streams` | as `reappear` with two values, files kept open | `StreamsMatchIndexes`, `RefinesProjectDb`, `RefinesLossyStore` | 243 000 |
| `index` | all tables of up to five keys with short and long values, block sizes 0, 25, 50 and 200 | `IndexInv`, `SeekFindsEntry`, `BlocksAreShort` | 47 000 |
| `log` | two keys, five values, up to four records, one of them cut off at any byte | `LogFileInv`, `LoadIsReadable`, `LaterLoadsKeepRecords` | 1 845 000 |
| `log_lost` | the same | `LoadReturnsLog`: violated | |
| `recovery` | two keys, MemTables of one SET or two removals, N = 1, W = 3, two stops | `RecoveryInv`, `RestartInv`, `EveryFileIsKnown`, `StopKeepsReadableKeys`, `OpeningKeepsContents`, `RestartedStoreWorks` | 902 000 |
| `failures` | one key, every write fills a MemTable, N = 1, W = 3, one error, one stop, with fairness | `RecoveryInv`, `ReportedInv`, `StopKeepsReadableKeys`, `FailedCallsHaveNoEffect`, `FailedJobStopsTheDatabase`, `EveryCallEnds` | 533 000 |
| `launch_lost` | the same, with a flush job that gets no thread | `LogOutlivesMemTable`: violated | |
| `config` | two databases, files of two lines, an unsigned of 4 bits and a long of 5, up to 8 tables | `ConfigurationTypeOK`, `ParsedFileIsApplied`, `CompactionDecisionIsExact` | 347 000 |

N is `NUM_SSTABLE_TO_COMPACT`. The first compaction needs N + 1 tables and the second N more plus the
last result of the first. W = 5 with N = 2 gives two compactions that follow each other, the second with a
start index that the first has moved; N = 3 is the smallest N for which one compaction writes two
results of two merged tables each; with N = 1 and W = 4 three compactions follow each other. In `log` the keys and values are those whose bytes the loader takes
differently: the empty string, fewer and more than the four bytes a type has, four zeros alone and followed by
another byte; four records give REMOVEs before, between and after SETs, and more than one record behind one that is cut off. In `core` and `recovery` a MemTable of one SET is
flushed at once and one of a single removal is not, so that tables with one key and with two meet in a
compaction, and both SSTables and logs with readable and unreadable records are left
behind; two stops let one process stop inside `init` on files that another has left, and let the
counters go on twice. In `failures` one error is enough for every way in which a call can throw, because a call
that meets a failed job goes no further; one stop lets another process work on what is left. In
`index` the block sizes are zero, about one entry, about two, and more than the whole table. In `config` 4 bits of the variables and 5 of
a long leave room for a number that is too large for each, and the first table that is missing
makes the difference negative. The keys are symmetric, and so are the values; the runs with fairness use no symmetry.

What the properties say:

* `RefinesKeyValueStore`: the abstract store holds a request and changes only in answer to it, once.
  The refinement mapping is `store <- Contents`, what `get` would return for each key, and
  `request <- Unanswered`, the call until it has read or written the MemTables. So a call of `set` or
  `remove` takes effect once and on its own key, `get` returns the value at one moment of the call,
  and flushes, compactions and the destructor are invisible: a merge that changed a value would be
  an answer without a request. Compactions that write more than one table do not have this
  property, see below; for them `RefinesLossyStore` says what remains: a key with a value keeps it until it is set or removed.
* `FuturesMatchQueue`, `FlushedTableIsFrozen`, `LogOutlivesMemTable`: the MemTables, their futures and logs
  stay in step, no write reaches a table that is being flushed, and a log goes only when its
  table is an SSTable.
* `IndexMatchesFile`, `FileOrderIsQueueOrder`, `CompactionRangeValid`, `QueueFrozenDuringCompaction`: what
  the compaction and the searches rely on.
* `IndexInv`, `SeekFindsEntry`, `BlocksAreShort`: the first and the last key of a table are in its index whoever
  built it, a seek returns the entry of every key and nothing for others, and it
  reads less than the block size and one entry.
* `StreamsMatchIndexes`, `RefinesProjectDb`: an open stream is one of the table its index was built from, and
  no call can tell a database that keeps its files open from one that does not.
* `FilesInv`: a MemTable is the replay of its log, record by record; every `.sst` file is that of an index, of a table the
  destructor has flushed, or of a result `update` has activated; every `.ip` and `.merged` file is that of a job.
* `ContentsInv`: at every step of a compaction the tables it has made so far read like the tables it has read,
  but for a dropped TOMBSTONE, and that one is then no value in the result; a MemTable that `pop` drops is what the
  newest SSTable has.
* `DiskHoldsContents`: outside `update` the logs and the `.sst` files hold everything the
  database holds. `DiskView` takes the records of a log as they were written; what the loader
  reads back of them is the next item.
* `StopKeepsReadableKeys`, `OpeningKeepsContents`: `Recovered` is what `init` will make of the
  directory. A process that stops outside `update` loses only keys that have a record no
  loader reads back, and `init`, with its flush jobs and stops inside it, loses nothing more.
* `RestartInv`: why that is so. The queues cover the directory, and a MemTable has what its log gives back, but for keys with
  records that are not read back; while `init` runs it has exactly that.
* `LogFileInv`: as long as nothing has been written behind a torn record, the file is the records one behind the other, byte
  by byte, and the last one ends where the file does, or behind that if it is cut off.
* `LoadIsReadable`: of such a file the loader returns the removals before the first SET, and does not throw.
* `LaterLoadsKeepRecords`: what a start reads back of a log that ends in a torn record, each later one reads
  back too, unless the loader throws.
* `RecoveryInv`, `RestartedStoreWorks`, `EveryFileIsKnown`: after `init` the invariant of `ProjectDb` holds
  again, every step answers requests as `KeyValueStore` has it, and each SSTable and each log left behind has its
  index or its MemTable, so that none stays in the directory for ever.
* `FailedCallsHaveNoEffect`, `FailedJobStopsTheDatabase`, `EveryCallEnds`: a call that throws has changed nothing
  a reader could see, the error of a job is not passed over by any later call, and nobody waits for a
  job that has failed. `ReportedInv` says how: the failed job stays at the front of the futures, or in the compaction, where every
  call meets it before the MemTables. With `RecoveryInv` and `StopKeepsReadableKeys` an error does not damage
  the directory either: the next process flushes from the logs again.
* `ParsedFileIsApplied`: a variable has the value of the last line that sets it, or the one it had when the constructor
  began, which may be that of another database, also when the constructor ends with an exception (`LastLineWins`); and
  a line whose value cannot be converted ends the constructor there, while every other line is applied or skipped (`FatalLineEndsParse`).
  `CompactionDecisionIsExact`: a compaction never starts if NUM_SSTABLE_TO_COMPACT is 0; if it is an int the casts decide as the numbers would;
  if it is larger a compaction starts with any queue.
* `CloseLeavesCleanDirectory`, `EveryCallReturns`, `BacklogDrains`: the destructor ends and leaves only
  what belongs there, every call returns, and when writes stop while reads go on everything
  is flushed and compacted.

**Fairness.** `WF(CallStep)`: a thread inside a call goes on. `WF` of each job: `launch::async`
starts a thread for each, and the operating system runs it. The caller owes nothing:
between two calls it may stop for ever. Only `BacklogDrains` supposes a caller that goes
on calling `get`, because no flush is taken over and no compaction starts without a call. `FailureFairSpec` is the
same with errors: the calling thread goes on, by an exception or by `std::terminate` if need be, and so does
every job that has not failed; no error has to occur.

**Findings.** `RemovedKeyStaysRemoved` fails when a compaction writes two tables: the value of the key
is in the first, older value and TOMBSTONE meet in the second, and the merge drops both (`sstable_ops.cpp:53-58`). The
comment above `mergeSSTable` says that exactly this must not happen. `TempFilesDisposable` fails
inside `update`, where the compacted tables have become `.deprecated` and the merged ones are still
`.merged`; the comment of `init` calls both temp files and `init` removes both. A TODO in `update`
knows that a crash is not recovered from there. `LoadReturnsLog` fails for a log with one SET: `set` hands the writer a
`std::string` (`memtable_queue.cpp:46`), the loader reads a `Value` with its type in front
(`transaction_log.cpp:37`), runs into the end of the file and takes that for the end of the log. The design
document (line 17) says the log is there so that the entries of the MemTables can be recovered after a crash. The same
loss follows a normal shutdown: the destructor flushes no MemTable that is not full. `LogOutlivesMemTable` fails
under `LaunchFailureSpec`: `tryLaunchFlushToDisk` pushes the new MemTable before `std::async` can throw
(`memtable_queue.cpp:98`), the full one stays without a future, and when the next future is done `pop` takes the MemTable that was
never flushed, and its log.

Four more observations come from the definitions and are not runs of their own:

* `ConfigParser::parse` catches `DbException` alone. `stoul` and `stoi` throw others (`FatalLine`), so that a line with a
  value that is no number ends the constructor, although the message of the handler says that such a line is skipped
  (`config_parser.cpp:74`).
* A `NUM_SSTABLE_TO_COMPACT` from 2^31 on, which `stoul` also makes of -1, is negative in the comparison of
  `tryLaunchCompaction` (`sstable_index_queue.cpp:110`): a compaction starts with no new table and its range
  reaches behind the vector. `CompactionDecisionIsExact` has this case; what the job then reads behind the vector is
  not modelled (`Compact`).
* A log that was cut off inside a record is opened for appending (`transaction_log.cpp:17`), and the next record
  continues the torn one. The loader may then find a type that is none and throw, at this and every later start;
  `LaterLoadsKeepRecords` leaves that case out.
* `stoul` reads `2,097,152` as 2, and `src/config/.config` writes its numbers in this way. The default
  block size of an index is 2 kb in `db_config.cpp` and 0.25 mb in the design document (line 21).

## 4. What is proved

For all keys, values, sizes, block sizes, widths of numbers, any `NumSSTableToCompact` (0 included, which
disables compactions), any number of writes, stops and errors of `FailureSpec`:

| theorem | module | property |
|---|---|---|
| `Invariance` | `ProjectDbProofs` | `IndInv` |
| `TypeCorrect` | `ProjectDbProofs` | `TypeOK` |
| `FuturesAreInOrder` | `ProjectDbProofs` | `FuturesMatchQueue` |
| `SharedTableIsNotWritten` | `ProjectDbProofs` | `FlushedTableIsFrozen` |
| `IndexesMatchFiles` | `ProjectDbProofs` | `IndexMatchesFile` |
| `CompactionRangeStaysValid` | `ProjectDbProofs` | `CompactionRangeValid` |
| `QueueIsFrozen` | `ProjectDbProofs` | `QueueFrozenDuringCompaction` |
| `FileOrder` | `ProjectDbProofs` | `FileOrderIsQueueOrder` |
| `FilesInvariance` | `FilesProofs` | `FilesInv` |
| `LogsAreKept` | `FilesProofs` | `LogOutlivesMemTable` |
| `DiskIsEnough` | `FilesProofs` | `DiskHoldsContents` |
| `CloseIsClean` | `FilesProofs` | `CloseLeavesCleanDirectory` |
| `ContentsInvariance` | `RefinementProofs` | `ContentsInv` |
| `LossyStore` | `RefinementProofs` | `RefinesLossyStore` |
| `PromisedStore` | `RefinementProofs` | `RefinesKeyValueStore`, if each compaction makes one table |
| `StoreOfFittingRanges` | `RefinementProofs` | `RefinesKeyValueStore`, if the tables of a range fit in one |
| `RemovedKeysStayRemoved` | `RefinementProofs` | `RemovedKeyStaysRemoved`, if each compaction makes one table |
| `RecoveryInvariance` | `RecoveryProofs` | `RecoveryInv` |
| `RestartedDatabaseIsSafe` | `RecoveryProofs` | `IndexMatchesFile`, `FuturesMatchQueue`, `FlushedTableIsFrozen`, `FileOrderIsQueueOrder` and `CompactionRangeValid` after any number of restarts |
| `RestartInvariance` | `RecoveryProofs` | `RestartInv` |
| `NoFileIsForgotten` | `RecoveryProofs` | `EveryFileIsKnown` |
| `ReadableKeysSurvive` | `RecoveryProofs` | `StopKeepsReadableKeys` |
| `OpeningIsLossless` | `RecoveryProofs` | `OpeningKeepsContents` |
| `RestartedStoreLosesNoValue` | `RecoveryProofs` | each step of a restarted database is one of the lossy store |
| `RestartedStore` | `RecoveryProofs` | `RestartedStoreWorks`, if each compaction makes one table |
| `RestartedStoreOfFittingRanges` | `RecoveryProofs` | `RestartedStoreWorks`, if the tables of a range fit in one |
| `ErrorsKeepTheInvariant` | `RecoveryProofs` | `RecoveryInv`, with the errors of `FailureSpec` |
| `ErrorsKeepTheFiles` | `RecoveryProofs` | `RestartInv`, with the errors of `FailureSpec` |
| `ReadableKeysSurviveErrors` | `RecoveryProofs` | `StopKeepsReadableKeys`, with the errors of `FailureSpec` |
| `ErrorsLoseNoValue` | `RecoveryProofs` | with the errors of `FailureSpec`, each call is one of the lossy store, or throws without having written |
| `CallsWorkOrThrow` | `RecoveryProofs` | `FailedCallsHaveNoEffect`, with the errors of `FailureSpec`, if each compaction makes one table |
| `ReportedErrorsStand` | `RecoveryProofs` | `ReportedInv`, with the errors of `FailureSpec` |
| `FailedJobsStopTheDatabase` | `RecoveryProofs` | `FailedJobStopsTheDatabase`, with the errors of `FailureSpec` |
| `IndexInvariance` | `SSTableIndexProofs` | `IndexInv` |
| `SeekIsLookup` | `SSTableIndexProofs` | `SeekFindsEntry` |
| `SeekReadsLittle` | `SSTableIndexProofs` | `BlocksAreShort` |
| `MergeLoopIsMerge` | `SSTableIndexProofs` | the loop of `mergeSSTable` makes `MergeSSTable` |
| `StreamsStayValid` | `RefinementProofs` | `StreamsMatchIndexes` |
| `OpenFilesImplementProjectDb` | `RefinementProofs` | `RefinesProjectDb` |
| `OpenFilesImplementTheStore` | `RefinementProofs` | `RefinesLossyStore` |
| `LogFileInvariance` | `TransactionLogProofs` | `LogFileInv` |
| `LoadIsWhatIsReadable` | `TransactionLogProofs` | `LoadIsReadable` |
| `LaterLoadsKeep` | `TransactionLogProofs` | `LaterLoadsKeepRecords` |
| `ConfigurationIsTyped` | `ConfigurationProofs` | `ConfigurationTypeOK` |
| `FilesAreApplied` | `ConfigurationProofs` | `ParsedFileIsApplied` |
| `DecisionIsExact` | `ConfigurationProofs` | `CompactionDecisionIsExact`, if an int can count the tables |

The assumptions are those of the modules: TOMBSTONE, the empty optional and the values differ,
sizes and the parameters are natural numbers, in `SSTableIndex` and `MergeLoop` the keys are numbers, and in `TransactionLog` keys and
values are strings of fewer than 2^16 bytes. `PowerAssumption` in `Configuration`
states what a multiplication table says of powers of two, which the provers do not know.

Some theorems have a hypothesis. `SingleResult` says that the compaction in progress has at most one table as its
result; without it `RemovedKeyStaysRemoved` is false, as the run `reappear` shows, and the theorems with it say that
nothing else is. It is the hypothesis `[]SingleResult` of `PromisedStore`, and a consequence of `RangesFit` in
`StoreOfFittingRanges`: no table of the keys and values has a file larger than some `largest`, and N + 1 times `largest` is not more than
`SSTableMaxBytes`. The runs `core` and `recovery` are such instances. What holds without any hypothesis is the lossy store, in which a value is never lost and only a
removed key may come back. `DecisionIsExact` supposes that there are no more tables than an int can count.

**The argument.** None of these properties is inductive alone. That an index finds its file needs that names
are not used twice; that needs their order along both queues and the futures (`IdInv`) and that a compaction
takes its names from tables it has read (`ResultInv`). That `update` finds its `.merged` files needs to know how
far its loops are (`UpdateInv`), that the range is right needs the position of the job
(`ProgressInv`), and that the vector does not change needs that flush jobs are looked after only when there
is no compaction (`NoCompactionInFlushes`). `IndInv` in `ProjectDbInvariant` is their conjunction, and the run
`compaction` checks it. The proof first shows which actions touch which part of the state (the `Frame`
lemmas) and then, for each conjunct, that every such action preserves it, with one lemma for
each (`...Step`). `ReplacedQueue` says where every index is after `ReplaceCompacted`, for any length of the result.

`FilesProofs` adds `FilesInv` to it: without the replay of the logs `DiskHoldsContents` is not inductive, and without
the places of the `.sst` files a file that nobody knows could have a greater counter than the right one. `DiskIsEnough`
then follows from `IndInv` and `FilesInv` alone: the indexes and what the destructor has flushed have all `.sst` files, in
the order of their counters (`IdInv`), so that the newest file with a key is that of the newest table with it.

`RefinementProofs` shows that each step implements one of `KeyValueStore`. What is hard is that `Contents` does not change when a table goes from one place to another. A MemTable
that is dropped is in the SSTable inserted just before (`FlushedInv`). A range that is replaced reads like its result
(`MergeInv`, step by step of the job, from a lemma on `MergeSSTable` and one on `Newest` of two parts of a sequence). `MergeInv` allows a
TOMBSTONE of the tables read to be dropped, and when the result is one table it has nothing for that key either. A
compaction that starts with the oldest table has then nothing in front of it that could come back; with several results it
starts, the next time, in the middle. `StartsAtOldest` (`m_compactionStartIndex` is 0) is the invariant that `SingleResult` gives, and with it the refinement is one of the exact store.

`RecoveryProofs` uses all this for the steps of a database that is up (`UpStep`). What it adds is `init`: while it pushes the logs,
the futures may be as many as the MemTables, which `IndInv` excludes, so `RecoveryInv` has an invariant of
its own for that time (`PushInv`), under which flush jobs run too, and `OpenedStep` shows that it gives `IndInv` when the
last log is pushed. That `SortedNames` is a sequence of natural numbers needs a finite
directory, which is a part of `RecoveryInv`.

`FilesInv` does not hold after a restart: the log of a MemTable may have records that the loader did not read, so the
MemTable is not the replay of the log. `RestartInv` says what takes its place: for each key
either the log has a record that is not read back, or the MemTable and the replay of what is read have the same entry. `LogsChange` in `FilesProofs` has the three things that can become
of a MemTable and its log, and `ReadableAppend` what one more record does to what is read. While `init` runs the
MemTables are exactly what their logs give back (`LoadedInv`), and the logs not yet pushed are newer than all that are. From this
`RecoveredIsView` follows: what `init` would read from the directory is what the queues hold, which is both
`StopKeepsReadableKeys` and `OpeningKeepsContents`.

For the errors, one lemma for each action that throws shows that it changes none of the variables of `Recovery` but by
ending a call or the process. `FailedJobsStopTheDatabase` needs `ReportedInv`, because the property speaks of the caller and the reason is
in the futures.

`ConfigurationProofs` has the last line as the maximum of the positions that set a variable: a line that is applied
puts its own position there, any other leaves the set as it is. The positions of the lines that cannot be converted are none until the
constructor ends, and then the last one alone. For the casts it goes through the numbers that can occur: 0 to the
greatest int, -1, and for NUM_SSTABLE_TO_COMPACT those above, which become at most -1.

`SSTableIndexProofs` proves that the positions in the file grow with the keys, from sums over the entries in front
(`TablesProofs`), and then what both builders keep while they go through a table: the index begins with the
first key, no gap between neighbours is longer than a block and one entry, and the last key is added
(`IndexInv`). The block of a key then lies between the greatest indexed key that is not greater and
the smallest that is.

The loop of `mergeSSTable` is a recursive function of the number of turns, which exists for every number (`TurnsExist`). After each
turn (`MergedSoFar`) what was emplaced is in order, every key that one iterator has passed is smaller than those the other has
in front of it, and the entries emplaced are those of `MergeSSTable` that were passed. A turn moves an iterator, so that the sum of
the lengths is enough turns; the first turn after which this is wrong cannot be.

`RefinementProofs` also has the invariant `StreamsMatchIndexes` of `OpenStreams` and, under it, that every step of `OpenSpec` is one of
`Spec`: a seek in an open stream finds what a seek in the file finds, by `IndexMatchesFile`. So all theorems of
`ProjectDbProofs` hold of a database with `KEEP_SSTABLE_FILE_OPEN`.

`TransactionLogProofs` has the loader without an induction over the bytes, which the provers cannot do. A record ends
behind the position it begins at (`NextIsLater`), so the recursive function of `LoadFile` is defined by what it is further on:
at the greatest position where it did not exist it would (`LoadExists`), and so it satisfies its equation (`LoadEquation`). Everything else is
about one turn of the loop. What a turn reads from a file it reads from every longer one (`RecordStays`), so the greatest position at which
an appended file gives back something else cannot be one (`LongerLoadKeeps`); this is
`LaterLoadsKeep`. For `LoadIsWhatIsReadable` the file must be known byte by byte, and that is `LogFileInv`: a REMOVE is read as it was
written (`RemovalIsRead`), and at a SET the loader runs into the end of the file (`SetEnds`), because it takes the size of
the value for a type and upper bytes of the size with the first bytes of the value for a size. That is
2^32 times what is in those bytes, more than is left of the file, whether or not records follow; only if the
four bytes are zero it is not. A record cut off ends the log wherever the cut is. From one turn to all of them leads the greatest
record from which the loader would not return what is readable.

**Only model-checked.** The liveness properties (`EveryCallReturns`, `BacklogDrains`, `EveryCallEnds`), because TLAPS does not
reason about fairness, and the four violated properties. Every other property of a passing run is stated by a theorem,
some with the hypotheses above.

## 5. Not modelled

Logging, printing and the exception type; the tests, the benchmark and the scripts. Several processes on one directory and several
threads that call one object: the documents rule out both.

Of errors, those that the code does not notice: `sstable_ops.cpp:105` and `transaction_log.h:33` flush a stream and do not look at
its state, so that on a full disk a short file takes the place of a table. Nothing said here
holds then. Nor a renaming that throws in the middle of `update` or between the renaming and the end of `pop`: the
state it leaves is that of `temp_files`, and a process that went on with it would meet the checks of `update`.
Nor, with `KEEP_SSTABLE_FILE_OPEN`, a stream that could not be opened or read (`sstable_index.cpp:49`): it stays in its error state, so
that every later seek of a key in that table throws. `OpenStreams` has no errors.

A pass over the directory (`removeFilesWithExt`, `system_utils.cpp:129`) is one step, although other threads may create, rename and
remove files during it.

The dispatch of `serializer.h` by concepts, and the encoding of keys and values in SSTable files beyond its
length.

## 6. Plan

Done: the modules above, in the order of the table.

1. `removeFilesWithExt` entry by entry, with several jobs in the directory.
2. A renaming that throws in the middle of `update`, and what the checks of `update` make of it.
3. Streams that fail in `OpenStreams`.
