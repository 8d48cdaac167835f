-------------------------- MODULE RemoteJobsProofs --------------------------
(***************************************************************************)
(* The invariant IInv of RemoteJobs is inductive, and what follows from it *)
(* for every number of callers, blocks and queue slots.                    *)
(***************************************************************************)
EXTENDS RemoteJobs, TLAPS

-----------------------------------------------------------------------------
(* The set of queued jobs. *)

\* xQueueSend adds a job to the queued ones.
LEMMA AppendQueued ==
    ASSUME TypeOK, NEW j \in Jobs, queue' = Append(queue, j)
    PROVE  Queued' = Queued \cup {j}
  <1>1. /\ Len(queue') = Len(queue) + 1 /\ Len(queue) \in Nat
        /\ \A i \in 1..Len(queue) : queue'[i] = queue[i]
        /\ queue'[Len(queue) + 1] = j
    BY DEF TypeOK
  <1>2. QED
    BY <1>1 DEF Queued

\* xQueueReceive takes the first job; the queue holds no job twice, so that job is
\* not queued any more.
LEMMA TailQueued ==
    ASSUME TypeOK, QueueInv, queue # <<>>, queue' = Tail(queue)
    PROVE  /\ Head(queue) \in Queued
           /\ Queued' = Queued \ {Head(queue)}
  <1>1. /\ Len(queue) \in Nat \ {0} /\ Len(queue') = Len(queue) - 1
        /\ \A i \in 1..Len(queue') : queue'[i] = queue[i + 1]
        /\ Head(queue) = queue[1]
    BY DEF TypeOK
  <1>2. \A i \in 2..Len(queue) : queue[i] # queue[1]
    BY <1>1 DEF QueueInv
  <1>3. Queued' = {queue[i] : i \in 2..Len(queue)}
    <2>1. \A i \in 2..Len(queue) : i - 1 \in 1..Len(queue') /\ queue'[i - 1] = queue[i]
      BY <1>1
    <2>2. QED
      BY <1>1, <2>1 DEF Queued
  <1>4. QED
    BY <1>1, <1>2, <1>3 DEF Queued

-----------------------------------------------------------------------------
(* One lemma per action. *)

\* The new block is in no other hands: the queue, the worker and the other callers
\* hold live blocks only.
LEMMA rjob_newStep ==
    ASSUME IInv, NEW c \in Callers, rjob_new(c)
    PROVE  IInv'
  <1>1. PICK j \in Jobs \ live :
            /\ live' = live \cup {j}
            /\ completed' = completed \ {j}
            /\ abandoned' = abandoned \ {j}
            /\ owner' = [owner EXCEPT ![j] = c]
            /\ result' = [result EXCEPT ![j] = "none"]
            /\ cj' = [cj EXCEPT ![c] = j]
    BY DEF rjob_new
  <1>2. Queued' = Queued
    BY DEF Queued, rjob_new
  <1>3. \A k \in Jobs : Pending(k)' <=> Pending(k)
    BY DEF Pending, Queued, rjob_new, workerVars
  <1>4. TypeOK'
    BY <1>1 DEF IInv, TypeOK, rjob_new, CallerPC, workerVars
  <1>5. QueueInv'
    BY <1>1, <1>2 DEF IInv, QueueInv, rjob_new, WorkerHolds, workerVars
  <1>6. Queued \subseteq live /\ ~Pending(j) /\ ~(wpc = "free" /\ wj = j)
    BY DEF IInv, QueueInv, Pending, WorkerHolds, Queued
  <1>7. PendingInv'
    BY <1>1, <1>3, <1>6 DEF IInv, TypeOK, PendingInv, rjob_new
  <1>8. WorkerFreeInv'
    BY <1>1 DEF IInv, WorkerFreeInv, rjob_new, BlockInv, workerVars
  <1>9. j \notin done \cup token
    BY DEF IInv, BlockInv
  <1>10. ASSUME NEW d \in Callers \ {c}
        PROVE  pc[d]' = pc[d] /\ cj[d]' = cj[d] /\ (pc[d] # "idle" => cj[d] \in live)
    BY <1>1 DEF IInv, TypeOK, CallerInv, rjob_new
  <1>11. CallerInv'
    BY <1>1, <1>3, <1>6, <1>9, <1>10 DEF IInv, TypeOK, CallerInv, rjob_new,
        workerVars
  <1>12. MutexInv'
    BY <1>1 DEF IInv, MutexInv, rjob_new, workerVars
  <1>13. ResultInv'
    BY <1>1 DEF IInv, ResultInv, rjob_new, WorkerHolds, QueueInv, workerVars
  <1>14. BlockInv'
    BY <1>1 DEF IInv, BlockInv, rjob_new
  <1>15. NoJobLeak'
    BY <1>1, <1>2 DEF IInv, NoJobLeak, rjob_new, CallerHolds, WorkerHolds, TypeOK,
        workerVars
  <1>16. OwnResult'
    BY <1>1 DEF IInv, OwnResult, rjob_new
  <1>17. QED
    BY <1>4, <1>5, <1>7, <1>8, <1>11, <1>12, <1>13, <1>14, <1>15, <1>16 DEF IInv

\* The block moves from the caller to the queue.
LEMMA PostAsyncStep ==
    ASSUME IInv, NEW c \in Callers, PostAsync(c)
    PROVE  IInv'
  <1>1. Queued' = Queued \cup {cj[c]}
    BY AppendQueued DEF IInv, TypeOK, CallerInv, PostAsync
  <1>2. \A k \in Jobs : Pending(k)' <=> Pending(k) \/ k = cj[c]
    BY <1>1 DEF Pending, PostAsync, workerVars
  <1>3. TypeOK'
    BY QueueLenAssumption DEF IInv, TypeOK, PostAsync, CallerInv, CallerPC, Return,
        blocks, workerVars
  <1>4. QueueInv'
    BY DEF IInv, QueueInv, PostAsync, Queued, Pending, WorkerHolds, CallerInv,
        MutexInv, blocks, workerVars
  <1>5. PendingInv'
    BY <1>2 DEF IInv, PendingInv, PostAsync, CallerInv, Return, blocks
  <1>6. WorkerFreeInv'
    BY DEF IInv, WorkerFreeInv, PostAsync, blocks, workerVars
  <1>7. CallerInv'
    BY <1>2 DEF IInv, CallerInv, PostAsync, TypeOK, Return, blocks, workerVars
  <1>8. MutexInv'
    BY DEF IInv, MutexInv, PostAsync, Return, workerVars
  <1>9. ResultInv'
    BY DEF IInv, ResultInv, PostAsync, blocks, workerVars
  <1>10. BlockInv'
    BY DEF IInv, BlockInv, PostAsync, blocks
  <1>11. NoJobLeak'
    BY <1>1 DEF IInv, NoJobLeak, PostAsync, CallerHolds, WorkerHolds, Return,
        blocks, workerVars
  <1>12. OwnResult'
    BY DEF IInv, OwnResult, PostAsync, Return
  <1>13. QED
    BY <1>3, <1>4, <1>5, <1>6, <1>7, <1>8, <1>9, <1>10, <1>11, <1>12 DEF IInv

\* The caller keeps its pointer beside the queue's, and its job now has a semaphore.
LEMMA PostWaitStep ==
    ASSUME IInv, NEW c \in Callers, PostWait(c)
    PROVE  IInv'
  <1>1. Queued' = Queued \cup {cj[c]}
    BY AppendQueued DEF IInv, TypeOK, CallerInv, PostWait
  <1>2. \A k \in Jobs : Pending(k)' <=> Pending(k) \/ k = cj[c]
    BY <1>1 DEF Pending, PostWait, workerVars
  <1>3. TypeOK'
    BY QueueLenAssumption DEF IInv, TypeOK, PostWait, CallerInv, CallerPC,
        workerVars
  <1>4. QueueInv'
    BY DEF IInv, QueueInv, PostWait, Queued, Pending, WorkerHolds, CallerInv,
        MutexInv, workerVars
  <1>5. PendingInv'
    BY <1>2 DEF IInv, PendingInv, PostWait, CallerInv, TypeOK
  <1>6. WorkerFreeInv'
    BY DEF IInv, WorkerFreeInv, PostWait, CallerInv, workerVars
  <1>7. CallerInv'
    BY <1>2 DEF IInv, CallerInv, PostWait, TypeOK, workerVars
  <1>8. MutexInv'
    BY DEF IInv, MutexInv, PostWait, workerVars
  <1>9. ResultInv'
    BY DEF IInv, ResultInv, PostWait, workerVars
  <1>10. BlockInv'
    BY DEF IInv, BlockInv, PostWait, CallerInv
  <1>11. NoJobLeak'
    BY <1>1 DEF IInv, NoJobLeak, PostWait, CallerHolds, WorkerHolds, workerVars
  <1>12. OwnResult'
    BY DEF IInv, OwnResult, PostWait
  <1>13. QED
    BY <1>3, <1>4, <1>5, <1>6, <1>7, <1>8, <1>9, <1>10, <1>11, <1>12 DEF IInv

\* A block that was not posted is in nobody else's hands, so the caller may free it.
LEMMA PostFailsStep ==
    ASSUME IInv, NEW c \in Callers, PostFails(c)
    PROVE  IInv'
  <1>1. Queued' = Queued
    BY DEF Queued, PostFails
  <1>2. \A k \in Jobs : Pending(k)' <=> Pending(k)
    BY DEF Pending, Queued, PostFails, workerVars
  <1>3. TypeOK'
    BY DEF IInv, TypeOK, PostFails, CallerPC, rjob_free, Return, workerVars
  <1>4. QueueInv'
    BY DEF IInv, QueueInv, PostFails, Queued, Pending, WorkerHolds, CallerInv,
        MutexInv, ResultInv, BlockInv, WorkerPC, rjob_free, workerVars
  <1>5. PendingInv'
    BY <1>2 DEF IInv, PendingInv, PostFails, rjob_free, Return
  <1>6. WorkerFreeInv'
    BY DEF IInv, WorkerFreeInv, PostFails, rjob_free, workerVars
  <1>7. CallerInv'
    BY <1>2 DEF IInv, CallerInv, PostFails, TypeOK, rjob_free, Return, workerVars
  <1>8. MutexInv'
    BY DEF IInv, MutexInv, PostFails, Return, workerVars
  <1>9. ResultInv'
    BY DEF IInv, ResultInv, PostFails, rjob_free, workerVars
  <1>10. BlockInv'
    BY DEF IInv, BlockInv, PostFails, rjob_free
  <1>11. NoJobLeak'
    BY <1>1 DEF IInv, NoJobLeak, PostFails, CallerHolds, WorkerHolds, rjob_free,
        Return, workerVars
  <1>12. OwnResult'
    BY DEF IInv, OwnResult, PostFails, Return
  <1>13. QED
    BY <1>3, <1>4, <1>5, <1>6, <1>7, <1>8, <1>9, <1>10, <1>11, <1>12 DEF IInv

\* A token is there, so the job is completed.
LEMMA TakeDoneStep ==
    ASSUME IInv, NEW c \in Callers, TakeDone(c)
    PROVE  IInv'
  <1>1. Queued' = Queued
    BY DEF Queued, TakeDone
  <1>2. \A k \in Jobs : Pending(k)' <=> Pending(k)
    BY DEF Pending, Queued, TakeDone, workerVars
  <1>3. TypeOK'
    BY DEF IInv, TypeOK, TakeDone, CallerPC, workerVars
  <1>4. QueueInv'
    BY <1>1 DEF IInv, QueueInv, TakeDone, WorkerHolds, workerVars
  <1>5. PendingInv'
    BY <1>2 DEF IInv, PendingInv, TakeDone
  <1>6. WorkerFreeInv'
    BY DEF IInv, WorkerFreeInv, TakeDone, workerVars
  <1>7. CallerInv'
    BY <1>2 DEF IInv, CallerInv, TakeDone, BlockInv, TypeOK, workerVars
  <1>8. MutexInv'
    BY DEF IInv, MutexInv, TakeDone, workerVars
  <1>9. ResultInv'
    BY DEF IInv, ResultInv, TakeDone, workerVars
  <1>10. BlockInv'
    BY DEF IInv, BlockInv, TakeDone
  <1>11. NoJobLeak'
    BY <1>1 DEF IInv, NoJobLeak, TakeDone, CallerHolds, WorkerHolds, workerVars
  <1>12. OwnResult'
    BY DEF IInv, OwnResult, TakeDone
  <1>13. QED
    BY <1>3, <1>4, <1>5, <1>6, <1>7, <1>8, <1>9, <1>10, <1>11, <1>12 DEF IInv

\* A completed job is in the caller's hands alone.
LEMMA TakeResultStep ==
    ASSUME IInv, NEW c \in Callers, TakeResult(c)
    PROVE  IInv'
  <1>1. Queued' = Queued
    BY DEF Queued, TakeResult
  <1>2. \A k \in Jobs : Pending(k)' <=> Pending(k)
    BY DEF Pending, Queued, TakeResult, workerVars
  <1>3. TypeOK'
    BY DEF IInv, TypeOK, TakeResult, CallerInv, CallerPC, rjob_free, Return,
        workerVars
  <1>4. QueueInv'
    BY DEF IInv, QueueInv, TakeResult, Queued, Pending, WorkerHolds, PendingInv,
        WorkerFreeInv, CallerInv, MutexInv, TypeOK, rjob_free, workerVars
  <1>5. PendingInv'
    BY <1>2 DEF IInv, PendingInv, TakeResult, rjob_free, Return
  <1>6. WorkerFreeInv'
    BY DEF IInv, WorkerFreeInv, TakeResult, rjob_free, workerVars
  <1>7. CallerInv'
    BY <1>2 DEF IInv, CallerInv, TakeResult, TypeOK, rjob_free, Return, workerVars
  <1>8. MutexInv'
    BY DEF IInv, MutexInv, TakeResult, Return, workerVars
  <1>9. ResultInv'
    BY DEF IInv, ResultInv, TakeResult, rjob_free, workerVars
  <1>10. BlockInv'
    BY DEF IInv, BlockInv, TakeResult, rjob_free
  <1>11. NoJobLeak'
    BY <1>1 DEF IInv, NoJobLeak, TakeResult, CallerHolds, WorkerHolds, rjob_free,
        Return, workerVars
  <1>12. OwnResult'
    BY DEF IInv, OwnResult, TakeResult, CallerInv, ResultInv, Return
  <1>13. QED
    BY <1>3, <1>4, <1>5, <1>6, <1>7, <1>8, <1>9, <1>10, <1>11, <1>12 DEF IInv

\* Only the caller moves.
LEMMA WaitExpiresStep ==
    ASSUME IInv, NEW c \in Callers, WaitExpires(c)
    PROVE  IInv'
  <1>1. Queued' = Queued
    BY DEF Queued, WaitExpires
  <1>2. \A k \in Jobs : Pending(k)' <=> Pending(k)
    BY DEF Pending, Queued, WaitExpires, workerVars
  <1>3. TypeOK'
    BY DEF IInv, TypeOK, WaitExpires, CallerPC, blocks, workerVars
  <1>4. QueueInv'
    BY <1>1 DEF IInv, QueueInv, WaitExpires, WorkerHolds, blocks, workerVars
  <1>5. PendingInv'
    BY <1>2 DEF IInv, PendingInv, WaitExpires, blocks
  <1>6. WorkerFreeInv'
    BY DEF IInv, WorkerFreeInv, WaitExpires, blocks, workerVars
  <1>7. CallerInv'
    BY <1>2 DEF IInv, CallerInv, WaitExpires, TypeOK, blocks, workerVars
  <1>8. MutexInv'
    BY DEF IInv, MutexInv, WaitExpires, workerVars
  <1>9. ResultInv'
    BY DEF IInv, ResultInv, WaitExpires, blocks, workerVars
  <1>10. BlockInv'
    BY DEF IInv, BlockInv, WaitExpires, blocks
  <1>11. NoJobLeak'
    BY <1>1 DEF IInv, NoJobLeak, WaitExpires, CallerHolds, WorkerHolds, blocks,
        workerVars
  <1>12. OwnResult'
    BY DEF IInv, OwnResult, WaitExpires
  <1>13. QED
    BY <1>3, <1>4, <1>5, <1>6, <1>7, <1>8, <1>9, <1>10, <1>11, <1>12 DEF IInv

\* Only the caller and the mutex move.
LEMMA ExpiredLockStep ==
    ASSUME IInv, NEW c \in Callers, ExpiredLock(c)
    PROVE  IInv'
  <1>1. Queued' = Queued
    BY DEF Queued, ExpiredLock
  <1>2. \A k \in Jobs : Pending(k)' <=> Pending(k)
    BY DEF Pending, Queued, ExpiredLock, workerVars
  <1>3. TypeOK'
    BY DEF IInv, TypeOK, ExpiredLock, CallerPC, blocks, workerVars
  <1>4. QueueInv'
    BY <1>1 DEF IInv, QueueInv, ExpiredLock, WorkerHolds, blocks, workerVars
  <1>5. PendingInv'
    BY <1>2 DEF IInv, PendingInv, ExpiredLock, blocks
  <1>6. WorkerFreeInv'
    BY DEF IInv, WorkerFreeInv, ExpiredLock, blocks, workerVars
  <1>7. CallerInv'
    BY <1>2 DEF IInv, CallerInv, ExpiredLock, TypeOK, blocks, workerVars
  <1>8. MutexInv'
    BY CallersAssumption DEF IInv, MutexInv, ExpiredLock, TypeOK, workerVars
  <1>9. ResultInv'
    BY DEF IInv, ResultInv, ExpiredLock, blocks, workerVars
  <1>10. BlockInv'
    BY DEF IInv, BlockInv, ExpiredLock, blocks
  <1>11. NoJobLeak'
    BY <1>1 DEF IInv, NoJobLeak, ExpiredLock, CallerHolds, WorkerHolds, blocks,
        workerVars
  <1>12. OwnResult'
    BY DEF IInv, OwnResult, ExpiredLock
  <1>13. QED
    BY <1>3, <1>4, <1>5, <1>6, <1>7, <1>8, <1>9, <1>10, <1>11, <1>12 DEF IInv

\* The worker has settled the job for the caller.
LEMMA FindCompletedStep ==
    ASSUME IInv, NEW c \in Callers, FindCompleted(c)
    PROVE  IInv'
  <1>1. Queued' = Queued
    BY DEF Queued, FindCompleted
  <1>2. \A k \in Jobs : Pending(k)' <=> Pending(k)
    BY DEF Pending, Queued, FindCompleted, workerVars
  <1>3. TypeOK'
    BY DEF IInv, TypeOK, FindCompleted, CallerPC, blocks, workerVars
  <1>4. QueueInv'
    BY DEF IInv, QueueInv, FindCompleted, Queued, WorkerHolds, MutexInv, blocks,
        workerVars
  <1>5. PendingInv'
    BY <1>2 DEF IInv, PendingInv, FindCompleted, blocks
  <1>6. WorkerFreeInv'
    BY DEF IInv, WorkerFreeInv, FindCompleted, blocks, workerVars
  <1>7. CallerInv'
    BY <1>2 DEF IInv, CallerInv, FindCompleted, TypeOK, blocks, workerVars
  <1>8. MutexInv'
    BY CallersAssumption DEF IInv, MutexInv, FindCompleted, TypeOK, workerVars
  <1>9. ResultInv'
    BY DEF IInv, ResultInv, FindCompleted, blocks, workerVars
  <1>10. BlockInv'
    BY DEF IInv, BlockInv, FindCompleted, blocks
  <1>11. NoJobLeak'
    BY <1>1 DEF IInv, NoJobLeak, FindCompleted, CallerHolds, WorkerHolds, blocks,
        workerVars
  <1>12. OwnResult'
    BY DEF IInv, OwnResult, FindCompleted, CallerInv, ResultInv
  <1>13. QED
    BY <1>3, <1>4, <1>5, <1>6, <1>7, <1>8, <1>9, <1>10, <1>11, <1>12 DEF IInv

\* A completed job is in the caller's hands alone.
LEMMA FreeCompletedStep ==
    ASSUME IInv, NEW c \in Callers, FreeCompleted(c)
    PROVE  IInv'
  <1>1. Queued' = Queued
    BY DEF Queued, FreeCompleted
  <1>2. \A k \in Jobs : Pending(k)' <=> Pending(k)
    BY DEF Pending, Queued, FreeCompleted, workerVars
  <1>3. TypeOK'
    BY DEF IInv, TypeOK, FreeCompleted, CallerPC, rjob_free, Return, workerVars
  <1>4. QueueInv'
    BY JobsAssumption DEF IInv, QueueInv, FreeCompleted, Queued, Pending,
        WorkerHolds, PendingInv, WorkerFreeInv, CallerInv, BlockInv, TypeOK,
        rjob_free, workerVars
  <1>5. PendingInv'
    BY <1>2 DEF IInv, PendingInv, FreeCompleted, rjob_free, Return
  <1>6. WorkerFreeInv'
    BY DEF IInv, WorkerFreeInv, FreeCompleted, rjob_free, workerVars
  <1>7. CallerInv'
    BY <1>2 DEF IInv, CallerInv, FreeCompleted, TypeOK, rjob_free, Return,
        workerVars
  <1>8. MutexInv'
    BY DEF IInv, MutexInv, FreeCompleted, Return, workerVars
  <1>9. ResultInv'
    BY DEF IInv, ResultInv, FreeCompleted, rjob_free, workerVars
  <1>10. BlockInv'
    BY DEF IInv, BlockInv, FreeCompleted, rjob_free
  <1>11. NoJobLeak'
    BY <1>1 DEF IInv, NoJobLeak, FreeCompleted, CallerHolds, WorkerHolds, rjob_free,
        Return, workerVars
  <1>12. OwnResult'
    BY DEF IInv, OwnResult, FreeCompleted, Return
  <1>13. QED
    BY <1>3, <1>4, <1>5, <1>6, <1>7, <1>8, <1>9, <1>10, <1>11, <1>12 DEF IInv

\* The job is pending, so the queue or the worker still holds it.
LEMMA AbandonStep ==
    ASSUME IInv, NEW c \in Callers, Abandon(c)
    PROVE  IInv'
  <1>1. Queued' = Queued
    BY DEF Queued, Abandon
  <1>2. \A k \in Jobs : Pending(k)' <=> Pending(k)
    BY DEF Pending, Queued, Abandon, workerVars
  <1>3. TypeOK'
    BY DEF IInv, TypeOK, Abandon, CallerInv, CallerPC, Return, workerVars
  <1>4. QueueInv'
    BY <1>1 DEF IInv, QueueInv, Abandon, WorkerHolds, workerVars
  <1>5. PendingInv'
    BY <1>2 DEF IInv, PendingInv, Abandon, Return
  <1>6. WorkerFreeInv'
    BY DEF IInv, WorkerFreeInv, Abandon, workerVars
  <1>7. CallerInv'
    BY <1>2 DEF IInv, CallerInv, Abandon, TypeOK, Return, workerVars
  <1>8. MutexInv'
    BY CallersAssumption DEF IInv, MutexInv, Abandon, TypeOK, Return, workerVars
  <1>9. ResultInv'
    BY DEF IInv, ResultInv, Abandon, workerVars
  <1>10. BlockInv'
    BY DEF IInv, BlockInv, Abandon
  <1>11. NoJobLeak'
    BY <1>1 DEF IInv, NoJobLeak, Abandon, Pending, CallerHolds, WorkerHolds,
        CallerInv, Return, workerVars
  <1>12. OwnResult'
    BY DEF IInv, OwnResult, Abandon, Return
  <1>13. QED
    BY <1>3, <1>4, <1>5, <1>6, <1>7, <1>8, <1>9, <1>10, <1>11, <1>12 DEF IInv

\* The job moves from the queue to the worker, and stays pending.
LEMMA ReceiveStep ==
    ASSUME IInv, Receive
    PROVE  IInv'
  <1>1. wj' \in Queued /\ Queued' = Queued \ {wj'}
    BY TailQueued DEF IInv, Receive
  <1>2. \A k \in Jobs : Pending(k)' <=> Pending(k)
    BY <1>1 DEF Pending, Receive
  <1>3. TypeOK'
    BY QueueLenAssumption DEF IInv, TypeOK, Receive, WorkerPC, blocks, callerVars
  <1>4. QueueInv'
    BY <1>1 DEF IInv, QueueInv, Receive, blocks
  <1>5. PendingInv'
    BY <1>2 DEF IInv, PendingInv, Receive, blocks, callerVars
  <1>6. WorkerFreeInv'
    BY DEF IInv, WorkerFreeInv, Receive
  <1>7. CallerInv'
    BY <1>2 DEF IInv, CallerInv, Receive, TypeOK, blocks, callerVars
  <1>8. MutexInv'
    BY DEF IInv, MutexInv, Receive, callerVars
  <1>9. ResultInv'
    BY DEF IInv, ResultInv, Receive, blocks
  <1>10. BlockInv'
    BY DEF IInv, BlockInv, Receive, blocks
  <1>11. NoJobLeak'
    BY <1>1 DEF IInv, NoJobLeak, Receive, CallerHolds, WorkerHolds, blocks,
        callerVars
  <1>12. OwnResult'
    BY DEF IInv, OwnResult, Receive, callerVars
  <1>13. QED
    BY <1>3, <1>4, <1>5, <1>6, <1>7, <1>8, <1>9, <1>10, <1>11, <1>12 DEF IInv

\* The result is computed for the owner of the job.
LEMMA ExecuteStep ==
    ASSUME IInv, Execute
    PROVE  IInv'
  <1>1. Queued' = Queued
    BY DEF Queued, Execute
  <1>2. \A k \in Jobs : Pending(k)' <=> Pending(k)
    BY DEF Pending, Queued, Execute
  <1>3. TypeOK'
    BY DEF IInv, TypeOK, Execute, WorkerHolds, QueueInv, WorkerPC, blocks,
        callerVars
  <1>4. QueueInv'
    BY <1>1 DEF IInv, QueueInv, Execute, WorkerHolds, blocks
  <1>5. PendingInv'
    BY <1>2 DEF IInv, PendingInv, Execute, blocks, callerVars
  <1>6. WorkerFreeInv'
    BY DEF IInv, WorkerFreeInv, Execute
  <1>7. CallerInv'
    BY <1>2 DEF IInv, CallerInv, Execute, TypeOK, blocks, callerVars
  <1>8. MutexInv'
    BY DEF IInv, MutexInv, Execute, callerVars
  <1>9. ResultInv'
    BY DEF IInv, ResultInv, Execute, blocks
  <1>10. BlockInv'
    BY DEF IInv, BlockInv, Execute, blocks
  <1>11. NoJobLeak'
    BY <1>1 DEF IInv, NoJobLeak, Execute, CallerHolds, WorkerHolds, blocks,
        callerVars
  <1>12. OwnResult'
    BY DEF IInv, OwnResult, Execute, callerVars
  <1>13. QED
    BY <1>3, <1>4, <1>5, <1>6, <1>7, <1>8, <1>9, <1>10, <1>11, <1>12 DEF IInv

\* Only the worker and the mutex move.
LEMMA CompleteLockStep ==
    ASSUME IInv, CompleteLock
    PROVE  IInv'
  <1>1. Queued' = Queued
    BY DEF Queued, CompleteLock
  <1>2. \A k \in Jobs : Pending(k)' <=> Pending(k)
    BY DEF Pending, Queued, CompleteLock
  <1>3. TypeOK'
    BY DEF IInv, TypeOK, CompleteLock, WorkerPC, blocks, callerVars
  <1>4. QueueInv'
    BY <1>1 DEF IInv, QueueInv, CompleteLock, WorkerHolds, blocks
  <1>5. PendingInv'
    BY <1>2 DEF IInv, PendingInv, CompleteLock, blocks, callerVars
  <1>6. WorkerFreeInv'
    BY DEF IInv, WorkerFreeInv, CompleteLock
  <1>7. CallerInv'
    BY <1>2 DEF IInv, CallerInv, CompleteLock, TypeOK, blocks, callerVars
  <1>8. MutexInv'
    BY CallersAssumption DEF IInv, MutexInv, CompleteLock, callerVars
  <1>9. ResultInv'
    BY DEF IInv, ResultInv, CompleteLock, blocks
  <1>10. BlockInv'
    BY DEF IInv, BlockInv, CompleteLock, blocks
  <1>11. NoJobLeak'
    BY <1>1 DEF IInv, NoJobLeak, CompleteLock, CallerHolds, WorkerHolds, blocks,
        callerVars
  <1>12. OwnResult'
    BY DEF IInv, OwnResult, CompleteLock, callerVars
  <1>13. QED
    BY <1>3, <1>4, <1>5, <1>6, <1>7, <1>8, <1>9, <1>10, <1>11, <1>12 DEF IInv

\* Nobody waits for the job, so the worker may free it.
LEMMA CompleteUnwantedStep ==
    ASSUME IInv, CompleteUnwanted
    PROVE  IInv'
  <1>1. Queued' = Queued
    BY DEF Queued, CompleteUnwanted
  <1>2. \A k \in Jobs : Pending(k)' <=> Pending(k) /\ k # wj
    BY DEF IInv, QueueInv, WorkerHolds, Pending, Queued, CompleteUnwanted
  <1>3. TypeOK'
    BY DEF IInv, TypeOK, CompleteUnwanted, WorkerPC, blocks, callerVars
  <1>4. QueueInv'
    BY <1>1 DEF IInv, QueueInv, CompleteUnwanted, WorkerHolds, WorkerPC, blocks
  <1>5. PendingInv'
    BY <1>2 DEF IInv, PendingInv, CompleteUnwanted, blocks, callerVars
  <1>6. WorkerFreeInv'
    BY DEF IInv, WorkerFreeInv, CompleteUnwanted, Pending, PendingInv, TypeOK,
        blocks
  <1>7. CallerInv'
    BY <1>1 DEF IInv, CallerInv, CompleteUnwanted, Pending, blocks, callerVars
  <1>8. MutexInv'
    BY CallersAssumption DEF IInv, MutexInv, CompleteUnwanted, callerVars
  <1>9. ResultInv'
    BY DEF IInv, ResultInv, CompleteUnwanted, blocks
  <1>10. BlockInv'
    BY DEF IInv, BlockInv, CompleteUnwanted, blocks
  <1>11. NoJobLeak'
    BY <1>1 DEF IInv, NoJobLeak, CompleteUnwanted, CallerHolds, WorkerHolds, blocks,
        callerVars
  <1>12. OwnResult'
    BY DEF IInv, OwnResult, CompleteUnwanted, callerVars
  <1>13. QED
    BY <1>3, <1>4, <1>5, <1>6, <1>7, <1>8, <1>9, <1>10, <1>11, <1>12 DEF IInv

\* The block is in the worker's hands alone.
LEMMA WorkerFreeStep ==
    ASSUME IInv, WorkerFree
    PROVE  IInv'
  <1>1. Queued' = Queued
    BY DEF Queued, WorkerFree
  <1>2. \A k \in Jobs : Pending(k)' <=> Pending(k)
    BY DEF Pending, Queued, WorkerFree
  <1>3. TypeOK'
    BY DEF IInv, TypeOK, WorkerFree, WorkerPC, rjob_free, callerVars
  <1>4. QueueInv'
    BY DEF IInv, QueueInv, WorkerFree, Queued, WorkerHolds, BlockInv, rjob_free
  <1>5. PendingInv'
    BY <1>2 DEF IInv, PendingInv, WorkerFree, rjob_free, callerVars
  <1>6. WorkerFreeInv'
    BY DEF IInv, WorkerFreeInv, WorkerFree
  <1>7. CallerInv'
    BY <1>2 DEF IInv, CallerInv, WorkerFree, WorkerFreeInv, CallerPC, TypeOK,
        rjob_free, callerVars
  <1>8. MutexInv'
    BY DEF IInv, MutexInv, WorkerFree, callerVars
  <1>9. ResultInv'
    BY DEF IInv, ResultInv, WorkerFree, rjob_free
  <1>10. BlockInv'
    BY DEF IInv, BlockInv, WorkerFree, rjob_free
  <1>11. NoJobLeak'
    BY <1>1 DEF IInv, NoJobLeak, WorkerFree, CallerHolds, rjob_free, callerVars
  <1>12. OwnResult'
    BY DEF IInv, OwnResult, WorkerFree, callerVars
  <1>13. QED
    BY <1>3, <1>4, <1>5, <1>6, <1>7, <1>8, <1>9, <1>10, <1>11, <1>12 DEF IInv

\* The job is settled; its caller, which still waits, owns the block from here.
LEMMA CompleteSignalStep ==
    ASSUME IInv, CompleteSignal
    PROVE  IInv'
  <1>1. Queued' = Queued
    BY DEF Queued, CompleteSignal
  <1>2. \A k \in Jobs : Pending(k)' <=> Pending(k) /\ k # wj
    BY DEF IInv, QueueInv, WorkerHolds, Pending, Queued, CompleteSignal
  <1>3. TypeOK'
    BY DEF IInv, TypeOK, CompleteSignal, WorkerPC, callerVars
  <1>4. QueueInv'
    BY DEF IInv, QueueInv, CompleteSignal, WorkerHolds
  <1>5. PendingInv'
    BY <1>2 DEF IInv, PendingInv, CompleteSignal, callerVars
  <1>6. WorkerFreeInv'
    BY DEF IInv, WorkerFreeInv, CompleteSignal
  <1>7. CallerInv'
    BY <1>2 DEF IInv, CallerInv, CompleteSignal, TypeOK, callerVars
  <1>8. MutexInv'
    BY DEF IInv, MutexInv, CompleteSignal, callerVars
  <1>9. ResultInv'
    BY DEF IInv, ResultInv, CompleteSignal, TypeOK
  <1>10. BlockInv'
    BY DEF IInv, BlockInv, CompleteSignal
  <1>11. NoJobLeak'
    BY <1>1 DEF IInv, NoJobLeak, CompleteSignal, Pending, CallerHolds, PendingInv,
        WorkerPC, TypeOK, callerVars
  <1>12. OwnResult'
    BY DEF IInv, OwnResult, CompleteSignal, callerVars
  <1>13. QED
    BY <1>3, <1>4, <1>5, <1>6, <1>7, <1>8, <1>9, <1>10, <1>11, <1>12 DEF IInv

\* The worker has no pointer left; only the mutex moves.
LEMMA CompleteUnlockStep ==
    ASSUME IInv, CompleteUnlock
    PROVE  IInv'
  <1>1. Queued' = Queued
    BY DEF Queued, CompleteUnlock
  <1>2. \A k \in Jobs : Pending(k)' <=> Pending(k)
    BY DEF Pending, Queued, CompleteUnlock
  <1>3. TypeOK'
    BY DEF IInv, TypeOK, CompleteUnlock, WorkerPC, blocks, callerVars
  <1>4. QueueInv'
    BY DEF IInv, QueueInv, CompleteUnlock, WorkerHolds, blocks
  <1>5. PendingInv'
    BY <1>2 DEF IInv, PendingInv, CompleteUnlock, blocks, callerVars
  <1>6. WorkerFreeInv'
    BY DEF IInv, WorkerFreeInv, CompleteUnlock
  <1>7. CallerInv'
    BY <1>2 DEF IInv, CallerInv, CompleteUnlock, TypeOK, blocks, callerVars
  <1>8. MutexInv'
    BY CallersAssumption DEF IInv, MutexInv, CompleteUnlock, callerVars
  <1>9. ResultInv'
    BY DEF IInv, ResultInv, CompleteUnlock, blocks
  <1>10. BlockInv'
    BY DEF IInv, BlockInv, CompleteUnlock, blocks
  <1>11. NoJobLeak'
    BY <1>1 DEF IInv, NoJobLeak, CompleteUnlock, CallerHolds, WorkerHolds, blocks,
        callerVars
  <1>12. OwnResult'
    BY DEF IInv, OwnResult, CompleteUnlock, callerVars
  <1>13. QED
    BY <1>3, <1>4, <1>5, <1>6, <1>7, <1>8, <1>9, <1>10, <1>11, <1>12 DEF IInv

-----------------------------------------------------------------------------
(* The theorems. *)

\* Nothing is allocated at the start.
LEMMA InitIInv == Init => IInv
  <1>1. SUFFICES ASSUME Init PROVE IInv
    OBVIOUS
  <1>2. TypeOK
    BY <1>1, QueueLenAssumption DEF Init, TypeOK, CallerPC, WorkerPC
  <1>3. Queued = {}
    BY <1>1 DEF Init, Queued
  <1>4. QueueInv /\ PendingInv /\ WorkerFreeInv /\ CallerInv
    BY <1>1, <1>3 DEF Init, QueueInv, PendingInv, WorkerFreeInv, CallerInv, Pending, WorkerHolds
  <1>5. MutexInv /\ ResultInv /\ BlockInv /\ NoJobLeak /\ OwnResult
    BY <1>1, CallersAssumption DEF Init, MutexInv, ResultInv, BlockInv, NoJobLeak, OwnResult
  <1>6. QED
    BY <1>2, <1>4, <1>5 DEF IInv

\* IInv does not depend on anything but the variables.
LEMMA StutterStep ==
    ASSUME IInv, UNCHANGED vars
    PROVE  IInv'
  BY DEF vars, IInv, TypeOK, QueueInv, PendingInv, WorkerFreeInv, CallerInv, MutexInv,
         ResultInv, BlockInv, NoJobLeak, OwnResult, Queued, Pending, WorkerHolds,
         CallerHolds

\* Every step of a caller or of the worker preserves IInv.
LEMMA NextIInv == IInv /\ [Next]_vars => IInv'
  <1>1. SUFFICES ASSUME IInv, [Next]_vars PROVE IInv'
    OBVIOUS
  <1>2. ASSUME NEW c \in Callers, Caller(c) PROVE IInv'
    BY <1>1, <1>2, rjob_newStep, PostAsyncStep, PostWaitStep, PostFailsStep,
       TakeDoneStep, TakeResultStep, WaitExpiresStep, ExpiredLockStep,
       FindCompletedStep, FreeCompletedStep, AbandonStep
       DEF Caller
  <1>3. CASE Worker
    BY <1>1, <1>3, ReceiveStep, ExecuteStep, CompleteLockStep, CompleteUnwantedStep,
       WorkerFreeStep, CompleteSignalStep, CompleteUnlockStep
       DEF Worker
  <1>4. CASE UNCHANGED vars
    BY <1>1, <1>4, StutterStep
  <1>5. QED
    BY <1>1, <1>2, <1>3, <1>4 DEF Next

\* The inductive invariant holds throughout.
THEOREM Invariance == Spec => []IInv
  BY InitIInv, NextIInv, PTL DEF Spec

\* Pointers, flags and program counters keep their types, and the job queue never
\* holds more than REMOTE_QUEUE_LEN jobs.
THEOREM TypeCorrect == Spec => []TypeOK
  <1>1. IInv => TypeOK
    BY DEF IInv
  <1>2. QED
    BY <1>1, Invariance, PTL

\* No queue slot, worker or caller ever refers to a freed job: the race between a
\* caller's timeout and rjob_complete cannot free a job that is still used.
THEOREM MemorySafe == Spec => []NoDanglingJob
  <1>1. IInv => NoDanglingJob
    BY DEF IInv, NoDanglingJob, QueueInv, CallerInv, CallerHolds, Queued
  <1>2. QED
    BY <1>1, Invariance, PTL

\* Every allocated job is held by a task or the queue: the same race cannot leave a
\* job that nobody frees.
THEOREM LeakFree == Spec => []NoJobLeak
  <1>1. IInv => NoJobLeak
    BY DEF IInv
  <1>2. QED
    BY <1>1, Invariance, PTL

\* rjob_post_wait returns the result of the caller's own job or a failure, although
\* blocks are reused while late completions are under way.
THEOREM ResultsAreOwn == Spec => []OwnResult
  <1>1. IInv => OwnResult
    BY DEF IInv
  <1>2. QED
    BY <1>1, Invariance, PTL

=============================================================================
