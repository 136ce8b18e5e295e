------------------------------ MODULE Failures ------------------------------
(***************************************************************************)
(* Errors that the code reports by an exception: a job that cannot read or *)
(* write its files, a file that cannot be renamed, a log that cannot be    *)
(* written, a file that cannot be read, a compaction that gets no thread.  *)
(* The exception of a job is kept in its future, and get() throws it out   *)
(* of the call that looks after the job; the future stays where it is,     *)
(* without a state, and every later call that looks at it gets an          *)
(* exception of its own.                                                   *)
(*                                                                         *)
(* These are the errors of FailureSpec.  A flush job that gets no thread   *)
(* is added by LaunchFailureSpec, under which the database does not keep   *)
(* its invariant.  A renaming that throws inside update is in neither.     *)
(***************************************************************************)
EXTENDS Recovery

CONSTANT MaxFailures  \* how many errors are explored

ASSUME FailureAssumption == MaxFailures \in Nat

VARIABLES
    failedJobs,        \* the flush jobs that have failed, by the counters of their files
    compactionFailed,  \* the compaction job has failed
    badLogs,           \* the logs whose streams are in an error state
    reported,          \* history: a call has thrown what a job has thrown
    failures           \* the number of errors so far

failureVars == <<failedJobs, compactionFailed, badLogs, reported, failures>>
fvars == <<rvars, failureVars>>

NoFailures ==
    /\ failedJobs' = {}
    /\ compactionFailed' = FALSE
    /\ badLogs' = {}
    /\ reported' = FALSE

FailureInit ==
    /\ RecoveryInit
    /\ failedJobs = {}
    /\ compactionFailed = FALSE
    /\ badLogs = {}
    /\ reported = FALSE
    /\ failures = 0

-----------------------------------------------------------------------------
\* Errors.

Error == failures < MaxFailures /\ failures' = failures + 1

FlushFails ==
    /\ Error
    /\ \E i \in DOMAIN flushFutures :
           /\ flushFutures[i].stage # "ready"
           /\ flushFutures[i].id \notin failedJobs
           /\ failedJobs' = failedJobs \cup {flushFutures[i].id}
    /\ UNCHANGED <<rvars, compactionFailed, badLogs, reported>>

\* The file of a finished job cannot be renamed: the result is taken out of
\* the future already.
RenameFails ==
    /\ Error
    /\ status = "up" /\ pc \in {"flushes", "close"}
    /\ OldestFlushReady /\ Head(flushFutures).id \notin failedJobs
    /\ failedJobs' = failedJobs \cup {Head(flushFutures).id}
    /\ UNCHANGED <<rvars, compactionFailed, badLogs, reported>>

CompactionFails ==
    /\ Error
    /\ compaction.stage \notin {"none", "ready"}
    /\ ~compactionFailed
    /\ compactionFailed' = TRUE
    /\ UNCHANGED <<rvars, failedJobs, badLogs, reported>>

Writing == pc = "apply" /\ call.op \in {"set", "remove"} /\ memTableQueue # <<>>

\* A record cannot be written, or the file was never opened.  A stream in an
\* error state stays in it.
LogFails ==
    /\ Error
    /\ status = "up" /\ Writing
    /\ memTableQueue[Back].log \notin badLogs
    /\ badLogs' = badLogs \cup {memTableQueue[Back].log}
    /\ UNCHANGED <<rvars, failedJobs, compactionFailed, reported>>

-----------------------------------------------------------------------------
\* Calls that end with an exception.

OldestFlushFailed == flushFutures # <<>> /\ Head(flushFutures).id \in failedJobs

Throw ==
    /\ status = "up"
    /\ Return
    /\ UNCHANGED <<memVars, indexVars, dirVars, cursor, reply, writes, unindexed, status, stops>>
    /\ UNCHANGED <<failedJobs, compactionFailed, badLogs>>

\* Mutants: the future is removed before its exception is thrown; and its
\* MemTable with it.
MutantFlushErased ==
    /\ status = "up" /\ pc = "flushes" /\ OldestFlushFailed
    /\ Return
    /\ flushFutures' = Tail(flushFutures)
    /\ UNCHANGED <<memTableQueue, sstCounter, txlCounter, indexVars, dirVars>>
    /\ UNCHANGED <<cursor, reply, writes, unindexed, status, stops>>
    /\ UNCHANGED <<failedJobs, compactionFailed, badLogs, failures>>
    /\ reported' = TRUE

MutantFlushPopped ==
    /\ status = "up" /\ pc = "flushes" /\ OldestFlushFailed
    /\ Return
    /\ Pop
    /\ flushFutures' = Tail(flushFutures)
    /\ UNCHANGED <<sstCounter, txlCounter, indexVars, sst, inProgress, merged>>
    /\ UNCHANGED <<cursor, reply, writes, unindexed, status, stops>>
    /\ UNCHANGED <<failedJobs, compactionFailed, badLogs, failures>>
    /\ reported' = TRUE

FlushThrows ==
    /\ pc = "flushes" /\ OldestFlushFailed
    /\ Throw
    /\ reported' = TRUE
    /\ UNCHANGED failures

CompactionThrows ==
    /\ pc = "compaction" /\ compactionFailed
    /\ Throw
    /\ reported' = TRUE
    /\ UNCHANGED failures

\* Mutant: the MemTable changes before the log.
MutantWriteThrows ==
    /\ Writing /\ memTableQueue[Back].log \in badLogs
    /\ status = "up"
    /\ Return
    /\ memTableQueue' = [memTableQueue EXCEPT ![Back].table = Put(@, call.key, call.value)]
    /\ UNCHANGED <<flushFutures, sstCounter, txlCounter, indexVars, dirVars>>
    /\ UNCHANGED <<cursor, reply, writes, unindexed, status, stops>>
    /\ UNCHANGED failureVars

\* write throws before the MemTable changes.
WriteThrows ==
    /\ Writing /\ memTableQueue[Back].log \in badLogs
    /\ Throw
    /\ UNCHANGED <<reported, failures>>

\* seek finds no file it can open.
ReadThrows ==
    /\ Error
    /\ pc = "apply" /\ call.op = "get" /\ indexQueue # <<>>
    /\ Newest(TablesOf(memTableQueue), call.key) = Absent
    /\ Throw
    /\ UNCHANGED reported

\* No thread for the compaction job.
LaunchThrows ==
    /\ Error
    /\ pc = "flushes" /\ ~OldestFlushReady /\ ~OldestFlushFailed /\ CanCompact
    /\ Throw
    /\ UNCHANGED reported

\* Mutant: the loop of the destructor goes on when the compaction has failed.
MutantTerminate ==
    /\ status = "up" /\ pc = "close"
    /\ \/ OldestFlushFailed /\ ProcessEnds /\ NoFailures /\ UNCHANGED <<stops, failures>>
       \/ flushFutures = <<>> /\ compactionFailed /\ UNCHANGED fvars

\* An exception leaves the destructor: std::terminate.
Terminate ==
    /\ status = "up" /\ pc = "close"
    /\ OldestFlushFailed \/ (flushFutures = <<>> /\ compactionFailed)
    /\ ProcessEnds
    /\ NoFailures
    /\ UNCHANGED <<stops, failures>>

-----------------------------------------------------------------------------
\* What goes on as without errors.

SoundFlushJob ==
    /\ status # "down"
    /\ \E i \in DOMAIN flushFutures : flushFutures[i].id \notin failedJobs /\ FlushJob(i)
    /\ UNCHANGED <<status, stops, failureVars>>

SoundCompaction ==
    /\ status = "up" /\ ~compactionFailed /\ CompactionStep
    /\ UNCHANGED <<status, stops, failureVars>>

SoundCallStep ==
    /\ status = "up"
    /\ pc = "compaction" => ~compactionFailed
    /\ pc \in {"flushes", "close"} => ~OldestFlushFailed
    /\ Writing => memTableQueue[Back].log \notin badLogs
    /\ CallStep
    /\ UNCHANGED <<status, stops, failureVars>>

Throws == FlushThrows \/ CompactionThrows \/ WriteThrows

FailureNext ==
    \/ Stop /\ NoFailures /\ UNCHANGED failures
    \/ Open /\ UNCHANGED failureVars
    \/ status = "up" /\ (Client \/ Closed) /\ UNCHANGED <<status, stops, failureVars>>
    \/ SoundCallStep \/ SoundFlushJob \/ SoundCompaction
    \/ FlushFails \/ RenameFails \/ CompactionFails \/ LogFails
    \/ Throws \/ ReadThrows \/ LaunchThrows
    \/ Terminate

FailureSpec == FailureInit /\ [][FailureNext]_fvars

(***************************************************************************)
(* Fairness as in ProjectDb: the caller's thread goes on, through an       *)
(* exception if need be, and so does every job that has not failed.        *)
(***************************************************************************)
FailureFairSpec ==
    /\ FailureSpec
    /\ WF_fvars(Open /\ UNCHANGED failureVars)
    /\ WF_fvars(SoundCallStep \/ Throws \/ Terminate)
    /\ WF_fvars(SoundFlushJob)
    /\ WF_fvars(SoundCompaction)

-----------------------------------------------------------------------------
\* A thread cannot be started for a flush job: the new MemTable is in the
\* queue already, and no future is.
FlushLaunchThrows ==
    /\ Error
    /\ status = "up" /\ pc = "roll"
    /\ EmplaceBack
    /\ sstCounter' = sstCounter + 1
    /\ Return
    /\ UNCHANGED <<flushFutures, indexVars, sst, inProgress, merged, deprecated>>
    /\ UNCHANGED <<cursor, reply, writes, unindexed, status, stops>>
    /\ UNCHANGED <<failedJobs, compactionFailed, badLogs, reported>>

LaunchFailureSpec == FailureInit /\ [][FailureNext \/ FlushLaunchThrows]_fvars

\* After a call has thrown the error of a job, the job stands in the way of
\* every later call: none gets as far as the MemTables.
ReportedInv ==
    /\ compactionFailed => compaction.stage \notin {"none", "ready"}
    /\ reported =>
           /\ status = "up"
           /\ \/ /\ OldestFlushFailed /\ compaction.stage = "none"
                 /\ pc \in {"idle", "compaction", "flushes", "close"}
              \/ compactionFailed /\ pc \in {"idle", "compaction", "close"}
              \/ compactionFailed /\ pc = "pop" /\ call.op = "close"

-----------------------------------------------------------------------------
(***************************************************************************)
(* Properties of FailureSpec, besides those of Recovery: a failed job      *)
(* leaves futures, MemTables, logs and files as consistent as before, its  *)
(* MemTable keeps its log, from which the next process flushes again, and  *)
(* a write that throws is not in memory when it is not in the log.         *)
(***************************************************************************)

\* With the errors of FailureSpec, a call either does what it has to or throws,
\* and a call that looks at a failed job throws without having changed the
\* contents: what the job could not flush or compact is still read from where
\* it was.
FailedCallsHaveNoEffect ==
    [][status = "up" /\ status' = "up" =>
           [KV!Next \/ KV!Fail]_<<Contents, Unanswered, reply>>]_fvars

\* An error of a job is reported once and then stands: until the process ends
\* no call reads or writes anything any more, so that no caller who ignores
\* the exception works on with a database that cannot flush or compact.
FailedJobStopsTheDatabase ==
    [][reported /\ status' = "up" => UNCHANGED <<Contents, reply>>]_fvars

\* Every call returns or throws, and the destructor ends or the process does:
\* nobody waits for a job that has failed.
EveryCallEnds ==
    status = "up" /\ pc \notin {"idle", "closed"} ~> status # "up" \/ pc \in {"idle", "closed"}
=============================================================================
