----------------------------- MODULE RemoteJobs -----------------------------
(***************************************************************************)
(* The hand-off of remote jobs between the tasks that ask for remote track *)
(* I/O and the disk-I/O worker (src/disk/disk.c, "disk-I/O worker").       *)
(*                                                                         *)
(* A job block (rjob_t) is allocated by a caller, posted to the bounded    *)
(* queue s_rq and executed by the worker.  A synchronous caller waits on   *)
(* the job's own semaphore, and may give up; a fire-and-forget job has no  *)
(* semaphore.  Who frees the block depends on a race between the caller's  *)
(* timeout and the worker's completion that s_job_mtx settles.  This       *)
(* module is about the memory of the blocks, so what a job does is only a  *)
(* result.  Blocks are reused after they are freed, as malloc does.        *)
(***************************************************************************)
EXTENDS Naturals, Sequences, FiniteSets

CONSTANTS
    Callers,    \* the tasks that post jobs: fdc, the consoles, the event task
    Jobs,       \* the heap blocks a job may be allocated in
    QueueLen,   \* REMOTE_QUEUE_LEN
    NoJob       \* the null pointer

ASSUME JobsAssumption == NoJob \notin Jobs

ASSUME QueueLenAssumption == QueueLen \in Nat \ {0}

ASSUME CallersAssumption == {"none", "worker"} \cap Callers = {}

VARIABLES
    live,       \* the blocks that are allocated
    done,       \* the live blocks that have a semaphore (NULL = fire-and-forget)
    token,      \* the blocks whose semaphore has been given and not yet taken
    completed,  \* j->completed
    abandoned,  \* j->abandoned
    owner,      \* the task that allocated the block (a history variable)
    result,     \* j->result, as the owner it was computed for
    queue,      \* s_rq
    mtx,        \* the holder of s_job_mtx
    pc,         \* where each caller is in rjob_post_wait / rjob_post_async
    cj,         \* the job pointer each caller holds
    ret,        \* the last result a caller returned, as the owner it was for
    wpc,        \* where the worker is in diskio_task / rjob_complete
    wj,         \* the job pointer the worker holds
    wres        \* the result it has computed, as the owner it was for

blocks == <<live, done, token, completed, abandoned, owner, result>>
callerVars == <<pc, cj, ret>>
workerVars == <<wpc, wj, wres>>
vars == <<live, done, token, completed, abandoned, owner, result, queue, mtx,
          pc, cj, ret, wpc, wj, wres>>

CallerPC == {"idle", "new", "wait", "taken", "expired", "check", "free"}
WorkerPC == {"idle", "work", "complete", "locked", "free", "unlock"}

\* Pointers the worker no longer follows: it gave the semaphore, so the block
\* is the caller's, and only s_job_mtx is left to be given.
WorkerHolds == wpc \in {"work", "complete", "locked", "free"}

\* Every block, pointer and program counter has its type, and the queue never holds
\* more than REMOTE_QUEUE_LEN jobs.
TypeOK ==
    /\ live \subseteq Jobs
    /\ done \subseteq Jobs
    /\ token \subseteq Jobs
    /\ completed \subseteq Jobs
    /\ abandoned \subseteq Jobs
    /\ owner \in [Jobs -> Callers \cup {"none"}]
    /\ result \in [Jobs -> Callers \cup {"none"}]
    /\ queue \in Seq(Jobs) /\ Len(queue) <= QueueLen
    /\ mtx \in Callers \cup {"none", "worker"}
    /\ pc \in [Callers -> CallerPC]
    /\ cj \in [Callers -> Jobs \cup {NoJob}]
    /\ ret \in [Callers -> Callers \cup {"none"}]
    /\ wpc \in WorkerPC
    /\ wj \in Jobs \cup {NoJob}
    /\ wres \in Callers \cup {"none"}

Init ==
    /\ live = {} /\ done = {} /\ token = {} /\ completed = {} /\ abandoned = {}
    /\ owner = [j \in Jobs |-> "none"]
    /\ result = [j \in Jobs |-> "none"]
    /\ queue = <<>>
    /\ mtx = "none"
    /\ pc = [c \in Callers |-> "idle"]
    /\ cj = [c \in Callers |-> NoJob]
    /\ ret = [c \in Callers |-> "none"]
    /\ wpc = "idle"
    /\ wj = NoJob
    /\ wres = "none"

-----------------------------------------------------------------------------
(* The caller's side. *)

\* rjob_free: the semaphore, the owned copy of the data and the block go.
rjob_free(j) ==
    /\ live' = live \ {j}
    /\ done' = done \ {j}
    /\ token' = token \ {j}
    /\ UNCHANGED <<completed, abandoned, owner, result>>

\* The caller forgets its pointer and returns r (whose result it hands back).
Return(c, r) ==
    /\ pc' = [pc EXCEPT ![c] = "idle"]
    /\ cj' = [cj EXCEPT ![c] = NoJob]
    /\ ret' = [ret EXCEPT ![c] = r]

\* rjob_new / rjob_new_io: a zeroed block.  Allocation may fail, which leaves
\* every variable as it is.
rjob_new(c) ==
    /\ pc[c] = "idle"
    /\ \E j \in Jobs \ live :
        /\ live' = live \cup {j}
        /\ completed' = completed \ {j}
        /\ abandoned' = abandoned \ {j}
        /\ owner' = [owner EXCEPT ![j] = c]
        /\ result' = [result EXCEPT ![j] = "none"]
        /\ cj' = [cj EXCEPT ![c] = j]
    /\ pc' = [pc EXCEPT ![c] = "new"]
    /\ UNCHANGED <<done, token, queue, mtx, ret, workerVars>>

\* Seeded bug of PostAsync: the room in the queue is not looked at.
PostAsyncUnbounded(c) ==
    /\ pc[c] = "new"
    /\ queue' = Append(queue, cj[c])
    /\ Return(c, "none")
    /\ UNCHANGED <<blocks, mtx, workerVars>>

\* rjob_post_async with room in the queue: the pointer now belongs to the queue.
PostAsync(c) ==
    /\ pc[c] = "new"
    /\ Len(queue) < QueueLen
    /\ queue' = Append(queue, cj[c])
    /\ Return(c, "none")
    /\ UNCHANGED <<blocks, mtx, workerVars>>

\* rjob_post_wait with room: the job gets its semaphore and the caller waits.
PostWait(c) ==
    /\ pc[c] = "new"
    /\ Len(queue) < QueueLen
    /\ done' = done \cup {cj[c]}
    /\ queue' = Append(queue, cj[c])
    /\ pc' = [pc EXCEPT ![c] = "wait"]
    /\ UNCHANGED <<live, token, completed, abandoned, owner, result, mtx, cj, ret,
                   workerVars>>

\* Either post gives up: the queue stayed full for REMOTE_QSEND_MS, or the
\* semaphore could not be created.  The caller still owns the block.
PostFails(c) ==
    /\ pc[c] = "new"
    /\ rjob_free(cj[c])
    /\ Return(c, "none")
    /\ UNCHANGED <<queue, mtx, workerVars>>

\* xSemaphoreTake(j->done) returns pdTRUE.
TakeDone(c) ==
    /\ pc[c] = "wait"
    /\ cj[c] \in token
    /\ token' = token \ {cj[c]}
    /\ pc' = [pc EXCEPT ![c] = "taken"]
    /\ UNCHANGED <<live, done, completed, abandoned, owner, result, queue, mtx, cj,
                   ret, workerVars>>

\* ... and the caller reads the result and frees the job.
TakeResult(c) ==
    /\ pc[c] = "taken"
    /\ Return(c, result[cj[c]])
    /\ rjob_free(cj[c])
    /\ UNCHANGED <<queue, mtx, workerVars>>

\* xSemaphoreTake(j->done) times out: the semaphore had not been given.
WaitExpires(c) ==
    /\ pc[c] = "wait"
    /\ cj[c] \notin token
    /\ pc' = [pc EXCEPT ![c] = "expired"]
    /\ UNCHANGED <<blocks, queue, mtx, cj, ret, workerVars>>

\* The caller takes s_job_mtx to settle who frees the job.
ExpiredLock(c) ==
    /\ pc[c] = "expired"
    /\ mtx = "none"
    /\ mtx' = c
    /\ pc' = [pc EXCEPT ![c] = "check"]
    /\ UNCHANGED <<blocks, queue, cj, ret, workerVars>>

\* Seeded bug of FindCompleted: the result is returned and the block forgotten.
FindCompletedLeaking(c) ==
    /\ pc[c] = "check"
    /\ cj[c] \in completed
    /\ mtx' = "none"
    /\ Return(c, result[cj[c]])
    /\ UNCHANGED <<blocks, queue, workerVars>>

\* The worker finished in the meantime: the caller owns the block after all.
FindCompleted(c) ==
    /\ pc[c] = "check"
    /\ cj[c] \in completed
    /\ mtx' = "none"
    /\ pc' = [pc EXCEPT ![c] = "free"]
    /\ ret' = [ret EXCEPT ![c] = result[cj[c]]]
    /\ UNCHANGED <<blocks, queue, cj, workerVars>>

\* ... and frees it outside the mutex.
FreeCompleted(c) ==
    /\ pc[c] = "free"
    /\ rjob_free(cj[c])
    /\ Return(c, ret[c])
    /\ UNCHANGED <<queue, mtx, workerVars>>

\* Seeded bug of Abandon: the caller frees the block on its timeout.
AbandonFreeing(c) ==
    /\ pc[c] = "check"
    /\ cj[c] \notin completed
    /\ mtx' = "none"
    /\ rjob_free(cj[c])
    /\ Return(c, "none")
    /\ UNCHANGED <<queue, workerVars>>

\* The worker is not done: the block is left for it to free.
Abandon(c) ==
    /\ pc[c] = "check"
    /\ cj[c] \notin completed
    /\ abandoned' = abandoned \cup {cj[c]}
    /\ mtx' = "none"
    /\ Return(c, "none")
    /\ UNCHANGED <<live, done, token, completed, owner, result, queue, workerVars>>

Caller(c) ==
    \/ rjob_new(c) \/ PostAsync(c) \/ PostWait(c) \/ PostFails(c)
    \/ TakeDone(c) \/ TakeResult(c) \/ WaitExpires(c) \/ ExpiredLock(c)
    \/ FindCompleted(c) \/ FreeCompleted(c) \/ Abandon(c)

-----------------------------------------------------------------------------
(* The worker's side. *)

\* diskio_task: receive the next job.
Receive ==
    /\ wpc = "idle"
    /\ queue # <<>>
    /\ wj' = Head(queue)
    /\ queue' = Tail(queue)
    /\ wpc' = "work"
    /\ UNCHANGED <<blocks, mtx, callerVars, wres>>

\* worker_read / worker_write / worker_mount / the close: as long as the network
\* takes, reading the job's fields.
Execute ==
    /\ wpc = "work"
    /\ wres' = owner[wj]
    /\ wpc' = "complete"
    /\ UNCHANGED <<blocks, queue, mtx, callerVars, wj>>

\* rjob_complete takes s_job_mtx ...
CompleteLock ==
    /\ wpc = "complete"
    /\ mtx = "none"
    /\ mtx' = "worker"
    /\ wpc' = "locked"
    /\ UNCHANGED <<blocks, queue, callerVars, wj, wres>>

\* Seeded bugs of CompleteUnwanted: the early return keeps the mutex, or the block.
CompleteUnwantedLocked ==
    /\ wpc = "locked"
    /\ wj \in abandoned \/ wj \notin done
    /\ wpc' = "free"
    /\ UNCHANGED <<blocks, queue, mtx, callerVars, wj, wres>>

CompleteUnwantedLeaking ==
    /\ wpc = "locked"
    /\ wj \in abandoned \/ wj \notin done
    /\ mtx' = "none"
    /\ wpc' = "idle"
    /\ wj' = NoJob
    /\ wres' = "none"
    /\ UNCHANGED <<blocks, queue, callerVars>>

\* ... finds nobody waiting, and frees the job outside the mutex, ...
CompleteUnwanted ==
    /\ wpc = "locked"
    /\ wj \in abandoned \/ wj \notin done
    /\ mtx' = "none"
    /\ wpc' = "free"
    /\ UNCHANGED <<blocks, queue, callerVars, wj, wres>>

WorkerFree ==
    /\ wpc = "free"
    /\ rjob_free(wj)
    /\ wpc' = "idle"
    /\ wj' = NoJob
    /\ wres' = "none"
    /\ UNCHANGED <<queue, mtx, callerVars>>

\* ... or stores the result and gives the semaphore; from here the caller may
\* free the job at any time, so only s_job_mtx is touched again.
CompleteSignal ==
    /\ wpc = "locked"
    /\ ~(wj \in abandoned \/ wj \notin done)
    /\ result' = [result EXCEPT ![wj] = wres]
    /\ completed' = completed \cup {wj}
    /\ token' = token \cup {wj}
    /\ wpc' = "unlock"
    /\ UNCHANGED <<live, done, abandoned, owner, queue, mtx, callerVars, wj, wres>>

CompleteUnlock ==
    /\ wpc = "unlock"
    /\ mtx' = "none"
    /\ wpc' = "idle"
    /\ wj' = NoJob
    /\ wres' = "none"
    /\ UNCHANGED <<blocks, queue, callerVars>>

Worker ==
    \/ Receive \/ Execute \/ CompleteLock \/ CompleteUnwanted \/ WorkerFree
    \/ CompleteSignal \/ CompleteUnlock

-----------------------------------------------------------------------------

Next == Worker \/ \E c \in Callers : Caller(c)

Spec == Init /\ [][Next]_vars

-----------------------------------------------------------------------------
(* Properties. *)

Queued == {queue[i] : i \in 1..Len(queue)}

CallerHolds(c) == pc[c] # "idle"

\* Memory safety of the hand-off: no pointer that some task will still follow
\* (a queue slot, the worker's job before it gives the semaphore, a caller's job
\* until it returns) refers to a freed block.
NoDanglingJob ==
    /\ Queued \subseteq live
    /\ WorkerHolds => wj \in live
    /\ \A c \in Callers : CallerHolds(c) => cj[c] \in live

\* No block is lost: an allocated block is always reachable from a task that has
\* yet to free it, whichever side won the race between timeout and completion.
NoJobLeak ==
    \A j \in live :
        \/ j \in Queued
        \/ WorkerHolds /\ wj = j
        \/ \E c \in Callers : CallerHolds(c) /\ cj[c] = j

\* A caller that gets a result gets the result of the job it posted, even when
\* blocks are reused and timeouts race with completions.
OwnResult == \A c \in Callers : ret[c] \in {c, "none"}

-----------------------------------------------------------------------------
(* The inductive invariant behind the three properties above. *)

\* A job the worker has not yet settled.
Pending(j) == j \in Queued \/ (wpc \in {"work", "complete", "locked"} /\ wj = j)

\* The queue and the worker hold distinct, live blocks.
QueueInv ==
    /\ \A i \in 1..Len(queue) : queue[i] \in live
    /\ \A i, k \in 1..Len(queue) : queue[i] = queue[k] => i = k
    /\ WorkerHolds => wj \in live /\ wj \notin Queued

\* A job is not completed while it is pending; unless it is fire-and-forget or
\* abandoned, the task that posted it is still waiting for it.
PendingInv ==
    \A j \in Jobs : Pending(j) =>
        /\ j \notin completed
        /\ j \notin token
        /\ j \in done \ abandoned =>
              /\ owner[j] \in Callers
              /\ cj[owner[j]] = j
              /\ pc[owner[j]] \in {"wait", "expired", "check"}

\* What the worker is about to free has nobody waiting for it.
WorkerFreeInv ==
    wpc = "free" => wj \notin completed /\ (wj \in abandoned \/ wj \notin done)

\* A caller's pointer is to its own block, and where the caller is in its call
\* tells how far the job has come.
CallerInv ==
    \A c \in Callers :
        /\ pc[c] = "idle" => cj[c] = NoJob
        /\ pc[c] # "idle" => cj[c] \in live /\ owner[cj[c]] = c
        /\ pc[c] = "new" =>
              /\ ~Pending(cj[c])
              /\ ~(wpc = "free" /\ wj = cj[c])
              /\ cj[c] \notin done \cup token \cup completed \cup abandoned
        /\ pc[c] \in {"wait", "expired", "check"} =>
              /\ cj[c] \in done \ abandoned
              /\ cj[c] \in completed \/ Pending(cj[c])
        /\ pc[c] \in {"taken", "free"} => cj[c] \in completed

\* s_job_mtx is held by the task that is in a section it protects.
MutexInv ==
    /\ mtx = "worker" <=> wpc \in {"locked", "unlock"}
    /\ \A c \in Callers : mtx = c <=> pc[c] = "check"

\* A result is stored for the task that posted the job.
ResultInv ==
    /\ wpc \in {"complete", "locked"} => wres = owner[wj]
    /\ \A j \in live \cap completed : result[j] = owner[j]

\* A token of a semaphore means that its job is completed; free blocks have no
\* semaphore.
BlockInv == token \subseteq completed \cap live /\ done \subseteq live

\* The conjunction is inductive: the properties above are not without it, because
\* they do not say which pointers may refer to the same block.
IInv ==
    /\ TypeOK /\ QueueInv /\ PendingInv /\ WorkerFreeInv /\ CallerInv
    /\ MutexInv /\ ResultInv /\ BlockInv /\ NoJobLeak /\ OwnResult

-----------------------------------------------------------------------------
(* Liveness.  Every task is scheduled and every timeout expires; the network  *)
(* round trips of Execute are not assumed to end.                             *)

Posting(c) == PostAsync(c) \/ PostWait(c) \/ PostFails(c)

Waiting(c) == TakeDone(c) \/ WaitExpires(c)

Settling(c) == FindCompleted(c) \/ FreeCompleted(c) \/ Abandon(c) \/ TakeResult(c)

Completing == CompleteUnwanted \/ WorkerFree \/ CompleteSignal \/ CompleteUnlock

\* s_job_mtx is a FreeRTOS mutex with priority inheritance: a task that asks for
\* it over and over is not passed over for ever (strong fairness).
CallerFairness ==
    /\ \A c \in Callers :
        /\ WF_vars(Posting(c))
        /\ WF_vars(Waiting(c))
        /\ WF_vars(Settling(c))
        /\ SF_vars(ExpiredLock(c))
    /\ WF_vars(Completing)

LiveSpec == Spec /\ CallerFairness

\* A caller always returns, even when the worker is stuck in the network for ever:
\* the fdc task's wait is bounded (REMOTE_QSEND_MS + REMOTE_OP_WAIT_MS).
CallerReturns == \A c \in Callers : (pc[c] # "idle") ~> (pc[c] = "idle")

\* What the network must do for the worker to get through its queue: every round
\* trip of a job ends, with an answer or with the transport's timeout.
WorkerFairness ==
    /\ WF_vars(Receive)
    /\ WF_vars(Execute)
    /\ SF_vars(CompleteLock)

\* When the worker's round trips end, every job block is freed in the end, whoever
\* wins the race between the caller's timeout and the worker's completion.
EveryJobFreed == WorkerFairness => \A j \in Jobs : (j \in live) ~> (j \notin live)

=============================================================================
