--------------------------- MODULE DiskDataProofs ---------------------------
(***************************************************************************)
(* What the images and the cache hold, for any drives, images, tasks,      *)
(* sizes and queue lengths: what becomes of an acknowledged write, and     *)
(* whether a cached track is the track of the image that is mounted.       *)
(* Remote drives are not forgotten: a drive that is configured and not     *)
(* ready while WiFi is up has a mount that somebody will make, or one that *)
(* failed.                                                                 *)
(***************************************************************************)
EXTENDS DiskProofs

-----------------------------------------------------------------------------
(* The contents of the files.  Remote writes wait in the fdc task, in the  *)
(* queue and with the worker, and are made in the order of their numbers.  *)

Pending(n) == n <= written /\ \A img \in RemoteImages, x \in Cells : acked[img][x] <= n
WriteQueued(i) == rq[i].type = "WRITE"
WorkerWrites == worker.pc \in {"got", "picked", "store", "drop"} /\ worker.job.type = "WRITE"
FdcWrites == task["fdc"].pc = "post" /\ task["fdc"].job.type = "WRITE"

OnlyFdcWrites == \A c \in Tasks : task[c].pc = "post" /\ task[c].job.type = "WRITE" => c = "fdc"
QueueInOrder ==
    \A i \in 1 .. Len(rq) : WriteQueued(i) =>
        /\ Pending(rq[i].n)
        /\ \A k \in 1 .. Len(rq) : WriteQueued(k) /\ i < k => rq[i].n <= rq[k].n
        /\ WorkerWrites => worker.job.n <= rq[i].n
        /\ FdcWrites => rq[i].n <= task["fdc"].job.n
InOrder ==
    /\ QueueInOrder
    /\ WorkerWrites => Pending(worker.job.n) /\ (FdcWrites => worker.job.n <= task["fdc"].job.n)
    /\ FdcWrites => Pending(task["fdc"].job.n)
    /\ OnlyFdcWrites

(* What the worker has in s_stage is what the image holds there.           *)
Stage ==
    worker.pc = "store" =>
        /\ worker.data = TrackOf(ImageOf(worker.b), worker.job.track, worker.job.len)
        /\ worker.job.type = "WRITE" =>
              \A x \in CellsOf(worker.job.track, worker.job.len) :
                  store[ImageOf(worker.b)][x] = worker.job.n

Contained ==
    /\ store \in [Images -> Contents] /\ acked \in [Images -> Contents]
    /\ \A img \in Images, x \in Cells : acked[img][x] <= written
    /\ AckedWriteStays

CacheTyped ==
    cache.valid =>
        /\ cache.drive \in Drives /\ cache.track \in UInt32 /\ cache.len \in 1 .. BufSize
        /\ cache.data \in [0 .. (cache.len - 1) -> 0 .. MaxWrites]
        /\ disk_track_in_bounds(cache.track, cache.len, ImageSize)
        /\ drv[cache.drive].mounted

DataInv == Contained /\ InOrder /\ Stage /\ CacheTyped

-----------------------------------------------------------------------------
(* Which steps change what.                                                *)

LocalWriteDone == \E d \in Drives, r \in Requests : WriteLocal(d, r[1], r[2])
LocalWriteFailed == \E d \in Drives, r \in Requests : WriteLocalFails(d, r[1], r[2])
RemoteWriteIssued == \E d \in Drives, r \in Requests : WriteRemote(d, r[1], r[2])

LEMMA ImagesMove ==
  ASSUME [Next]_vars, store' # store
  PROVE  LocalWriteDone \/ LocalWriteFailed \/ SendTrack \/ SendFails
BY StoreMoves DEF LocalWriteDone, LocalWriteFailed

(* A job that ends acknowledges nothing unless it is a write that was made. *)
LEMMA EndAcks ==
  ASSUME NEW ok, NEW img, Complete(ok, img), ~ok \/ worker.job.type # "WRITE"
  PROVE  acked' = acked
BY DEF Complete

LEMMA AcksMove ==
  ASSUME CoreInv, [Next]_vars, acked' # acked
  PROVE  LocalWriteDone \/ (StoreTrack /\ worker.job.type = "WRITE")
<1>1. ~(\E c \in Readers : ReadCall(c))
  <2>1. \A c, d, t, l : ReadHit(c, d, t, l) \/ ReadLocalFails(c, d, t, l) \/ ReadRemote(c, d, t, l) => acked' = acked
    BY DEF ReadHit, ReadLocalFails, ReadRemote, history
  <2>2. \A c, d, t, l : ReadLocal(c, d, t, l) => acked' = acked
    BY DEF ReadLocal, history
  <2>3. QED
    BY <2>1, <2>2 DEF ReadCall
<1>2. ~(\E c \in Tasks : CallStep(c))
  BY DEF CallStep, PostWait, PostFails, WaitExpires, ReadDone, ReadReturns,
         Dispose, RemoteConnect, MountSwap, MountUnlock, history
<1>3. ~(\E c \in Consoles : MountCall(c))
  BY DEF MountCall, RemoteConfigure, MountOpen, MountFails, UnmountDo, Unmount, history
<1>4. ~Event /\ ~Restart /\ vars' # vars
  BY DEF Event, LinkLost, OnDisconnected, RemoteUnmountAll, EvtDispose, OnGotIp, ScanDrive, ScanPost,
         Restart, vars, history
<1>5. Worker => StoreTrack /\ worker.job.type = "WRITE"
  <2>1. ~Receive
    BY DEF Receive, history
  <2>2. ~Lookup /\ ~FetchTrack /\ ~SendTrack /\ ~SendFails /\ ~OpenSession /\ ~Mismatch
    BY DEF Lookup, FetchTrack, SendTrack, SendFails, OpenSession, Mismatch, Continue
  <2>3. ~NotReady /\ ~FetchFails /\ ~DropTrack /\ ~MountOffline /\ ~OpenFails
    BY EndAcks DEF NotReady, FetchFails, DropTrack, MountOffline, OpenFails
  <2>4. worker.pc \in {"install", "discard"} => worker.job.type = "MOUNT"
    BY DEF CoreInv, Shapes, WorkerState, MountJobs
  <2>5. ~WantMount /\ ~Install /\ ~Discard /\ ~CloseSession
    BY <2>4, EndAcks DEF WantMount, Install, Discard, CloseSession, Continue
  <2>6. StoreTrack => worker.job.type = "WRITE"
    BY EndAcks DEF StoreTrack
  <2>7. QED
    BY <2>1, <2>2, <2>3, <2>5, <2>6 DEF Worker
<1>6. WriteCall => LocalWriteDone
  BY DEF WriteCall, WriteRemote, WriteLocalFails, history, LocalWriteDone
<1>7. QED
  BY <1>1, <1>2, <1>3, <1>4, <1>5, <1>6 DEF Next

LEMMA CountMoves ==
  ASSUME [Next]_vars, written' # written
  PROVE  LocalWriteDone \/ LocalWriteFailed \/ RemoteWriteIssued
<1>1. ~(\E c \in Readers : ReadCall(c))
  <2>1. \A c, d, t, l : ReadHit(c, d, t, l) \/ ReadLocalFails(c, d, t, l) \/ ReadRemote(c, d, t, l) => written' = written
    BY DEF ReadHit, ReadLocalFails, ReadRemote, history
  <2>2. \A c, d, t, l : ReadLocal(c, d, t, l) => written' = written
    BY DEF ReadLocal, history
  <2>3. QED
    BY <2>1, <2>2 DEF ReadCall
<1>2. ~(\E c \in Tasks : CallStep(c))
  BY DEF CallStep, PostWait, PostFails, WaitExpires, ReadDone, ReadReturns,
         Dispose, RemoteConnect, MountSwap, MountUnlock, history
<1>3. ~(\E c \in Consoles : MountCall(c))
  BY DEF MountCall, RemoteConfigure, MountOpen, MountFails, UnmountDo, Unmount, history
<1>4. ~Event /\ ~Restart /\ vars' # vars
  BY DEF Event, LinkLost, OnDisconnected, RemoteUnmountAll, EvtDispose, OnGotIp, ScanDrive, ScanPost,
         Restart, vars, history
<1>5. ~Worker
  BY DEF Worker, Receive, Lookup, NotReady, FetchTrack, FetchFails, SendTrack, SendFails,
         StoreTrack, DropTrack, WantMount, MountOffline, OpenSession, OpenFails, Install,
         Mismatch, Discard, CloseSession, history
<1>6. WriteCall => LocalWriteDone \/ LocalWriteFailed \/ RemoteWriteIssued
  BY DEF WriteCall, LocalWriteDone, LocalWriteFailed, RemoteWriteIssued
<1>7. QED
  BY <1>1, <1>2, <1>3, <1>4, <1>5, <1>6 DEF Next

(* What a write does to the files, and an acknowledgement to the record.   *)
LEMMA WriteEffect ==
  ASSUME store \in [Images -> Contents], NEW img \in Images, NEW cells, NEW n \in 0 .. MaxWrites,
         store' = WriteCells(img, cells, n)
  PROVE  /\ store' \in [Images -> Contents]
         /\ \A i \in Images : i # img => store'[i] = store[i]
         /\ \A x \in Cells : store'[img][x] = IF x \in cells THEN n ELSE store[img][x]
<1>1. PICK new : new = [x \in Cells |-> IF x \in cells THEN n ELSE store[img][x]]
  OBVIOUS
<1>2. store' = [store EXCEPT ![img] = new]
  BY <1>1 DEF WriteCells
<1>3. new \in Contents
  BY <1>1 DEF Contents
<1>4. QED
  BY <1>1, <1>2, <1>3

LEMMA AckEffect ==
  ASSUME acked \in [Images -> Contents], NEW img \in Images, NEW t, NEW l, NEW n \in 0 .. MaxWrites,
         Ack(img, t, l, n)
  PROVE  /\ acked' \in [Images -> Contents]
         /\ \A i \in Images : i # img => acked'[i] = acked[i]
         /\ \A x \in Cells : acked'[img][x] = IF x \in CellsOf(t, l) THEN n ELSE acked[img][x]
<1>1. PICK new : new = [x \in Cells |-> IF x \in CellsOf(t, l) THEN n ELSE acked[img][x]]
  OBVIOUS
<1>2. acked' = [acked EXCEPT ![img] = new]
  BY <1>1 DEF Ack
<1>3. new \in Contents
  BY <1>1 DEF Contents
<1>4. QED
  BY <1>1, <1>2, <1>3

-----------------------------------------------------------------------------
(* Contained.                                                              *)

(* The image of a drive that is ready, and of the worker's session.        *)
LEMMA DriveImage ==
  ASSUME CoreInv, NEW d \in Drives, drv[d].mounted
  PROVE  /\ ImageOf(drv[d].backing) \in Images /\ ImageOf(drv[d].backing) = drv[d].name
         /\ drv[d].remote <=> drv[d].name \in RemoteImages
         /\ drv[d].backing \in Backings
<1>1. drv[d].backing \in Backings /\ heap[drv[d].backing] # NoName
  BY DEF CoreInv, Table, SlotTrue, Shapes, Slots
<1>2. heap[drv[d].backing] \in OpenFiles
  BY <1>1 DEF CoreInv, Shapes
<1>3. QED
  BY <1>1, <1>2 DEF CoreInv, Table, SlotTrue, ImageOf, OpenFiles

LEMMA SessionImage ==
  ASSUME CoreInv, worker.pc \in {"picked", "store", "drop"}, worker.b # NoBacking
  PROVE  /\ worker.b \in Backings /\ ImageOf(worker.b) \in RemoteImages /\ ImageOf(worker.b) \in Images
         /\ worker.job \in IoJobs /\ worker.job.n \in 0 .. MaxWrites /\ worker.job.drive \in Drives
         /\ worker.job.track \in UInt32 /\ worker.job.len \in 1 .. BufSize
         /\ disk_track_in_bounds(worker.job.track, worker.job.len, ImageSize)
BY ImageNames DEF CoreInv, Shapes, WorkerState, Session, WorkerSession, IoJobs

LEMMA StoreHasSession ==
  ASSUME CoreInv, worker.pc \in {"store", "drop"}
  PROVE  worker.b # NoBacking
BY DiskAssumption DEF CoreInv, Shapes, WorkerState

(* One image is overwritten in part by a write that no acknowledged one    *)
(* follows.                                                                *)
LEMMA Overwritten ==
  ASSUME Contained, NEW img \in Images, NEW cells, NEW n \in 0 .. MaxWrites,
         store' = WriteCells(img, cells, n), \A x \in Cells : acked[img][x] <= n,
         acked' = acked, written' \in Nat, written \in Nat, written' >= written
  PROVE  Contained'
<1>1. /\ store' \in [Images -> Contents]
      /\ \A i \in Images : i # img => store'[i] = store[i]
      /\ \A x \in Cells : store'[img][x] = IF x \in cells THEN n ELSE store[img][x]
  BY WriteEffect DEF Contained
<1>2. \A i \in Images, x \in Cells : acked[i][x] \in Nat
  BY DEF Contained, Contents
<1>3. \A i \in Images, x \in Cells : store'[i][x] >= acked'[i][x]
  BY <1>1 DEF Contained, AckedWriteStays
<1>4. \A i \in Images, x \in Cells : acked'[i][x] <= written'
  BY <1>2 DEF Contained
<1>5. QED
  BY <1>1, <1>3, <1>4 DEF Contained, AckedWriteStays

(* A write is acknowledged that the image holds.                           *)
LEMMA Acknowledged ==
  ASSUME Contained, NEW img \in Images, NEW t, NEW l, NEW n \in 0 .. MaxWrites,
         Ack(img, t, l, n), n <= written', written' \in Nat, written \in Nat, written' >= written,
         store' \in [Images -> Contents],
         \A i \in Images : i # img => store'[i] = store[i],
         \A x \in Cells : x \in CellsOf(t, l) => store'[img][x] = n,
         \A x \in Cells : x \notin CellsOf(t, l) => store'[img][x] = store[img][x]
  PROVE  Contained'
<1>1. /\ acked' \in [Images -> Contents]
      /\ \A i \in Images : i # img => acked'[i] = acked[i]
      /\ \A x \in Cells : acked'[img][x] = IF x \in CellsOf(t, l) THEN n ELSE acked[img][x]
  BY AckEffect DEF Contained
<1>2. \A i \in Images, x \in Cells : acked[i][x] \in Nat /\ acked[i][x] <= written'
  BY DEF Contained, Contents
<1>3. \A i \in Images, x \in Cells : store'[i][x] >= acked'[i][x]
  BY <1>1 DEF Contained, AckedWriteStays
<1>4. \A i \in Images, x \in Cells : acked'[i][x] <= written'
  BY <1>1, <1>2
<1>5. QED
  BY <1>1, <1>3, <1>4 DEF Contained, AckedWriteStays

LEMMA LocalWrite ==
  ASSUME CoreInv, NEW d \in Drives, NEW r \in Requests,
         WriteLocal(d, r[1], r[2]) \/ WriteLocalFails(d, r[1], r[2])
  PROVE  /\ r[1] \in UInt32 /\ r[2] \in 1 .. BufSize /\ disk_track_in_bounds(r[1], r[2], ImageSize)
         /\ drv[d].mounted /\ ~drv[d].remote
         /\ ImageOf(drv[d].backing) \in Images /\ ImageOf(drv[d].backing) \notin RemoteImages
         /\ ImageOf(drv[d].backing) = drv[d].name
         /\ NextWrite \in 0 .. MaxWrites /\ written' = NextWrite /\ written \in Nat /\ NextWrite = written + 1
<1>1. r[1] \in UInt32 /\ r[2] \in UInt32
  BY DiskAssumption
<1>2. check_track(d, r[1], r[2]) /\ ~drv[d].remote /\ written < MaxWrites /\ written' = NextWrite
  BY DEF WriteLocal, WriteLocalFails
<1>3. r[2] \in 1 .. BufSize /\ disk_track_in_bounds(r[1], r[2], ImageSize) /\ drv[d].mounted
  BY <1>1, <1>2, CheckedTrack
<1>4. written \in Nat /\ NextWrite = written + 1 /\ NextWrite \in 0 .. MaxWrites
  BY <1>2, DiskAssumption DEF CoreInv, Counted, NextWrite
<1>5. QED
  BY <1>1, <1>2, <1>3, <1>4, DriveImage

LEMMA ContainedStep ==
  ASSUME CoreInv, Contained, InOrder, Stage, [Next]_vars
  PROVE  Contained'
<1>1. written \in Nat /\ written' \in Nat /\ written' >= written
  <2>1. written \in 0 .. MaxWrites /\ (written' = written \/ written' = written + 1)
    BY CountMoves DEF CoreInv, Counted, LocalWriteDone, LocalWriteFailed, RemoteWriteIssued,
       WriteLocal, WriteLocalFails, WriteRemote, NextWrite
  <2>2. QED
    BY <2>1, DiskAssumption
<1>2. CASE LocalWriteDone
  <2>1. PICK d \in Drives, r \in Requests : WriteLocal(d, r[1], r[2])
    BY <1>2 DEF LocalWriteDone
  <2>2. PICK img : img = ImageOf(drv[d].backing)
    OBVIOUS
  <2>3. /\ img \in Images /\ NextWrite \in 0 .. MaxWrites /\ written' = NextWrite
        /\ store' = WriteCells(img, CellsOf(r[1], r[2]), NextWrite)
        /\ Ack(img, r[1], r[2], NextWrite)
    BY <2>1, <2>2, LocalWrite DEF WriteLocal
  <2>4. PICK n : n = NextWrite
    OBVIOUS
  <2>5. QED
    BY <1>1, <2>3, <2>4, WriteEffect, Acknowledged DEF Contained
<1>3. CASE LocalWriteFailed
  <2>1. PICK d \in Drives, r \in Requests : WriteLocalFails(d, r[1], r[2])
    BY <1>3 DEF LocalWriteFailed
  <2>2. PICK img : img = ImageOf(drv[d].backing)
    OBVIOUS
  <2>3. /\ img \in Images /\ NextWrite \in 0 .. MaxWrites /\ NextWrite = written + 1
        /\ acked' = acked /\ \E part : store' = WriteCells(img, part, NextWrite)
    BY <2>1, <2>2, LocalWrite DEF WriteLocalFails
  <2>4. PICK n : n = NextWrite
    OBVIOUS
  <2>5. \A x \in Cells : acked[img][x] <= n
    BY <1>1, <2>3, <2>4 DEF Contained, Contents
  <2>6. QED
    BY <1>1, <2>3, <2>4, <2>5, Overwritten
<1>4. CASE SendTrack \/ SendFails
  <2>1. /\ worker.pc = "picked" /\ worker.job.type = "WRITE" /\ worker.b # NoBacking
        /\ acked' = acked
        /\ \E cells : store' = WriteCells(ImageOf(worker.b), cells, worker.job.n)
    BY <1>4 DEF SendTrack, SendFails, Usable, Continue
  <2>2. ImageOf(worker.b) \in RemoteImages /\ ImageOf(worker.b) \in Images /\ worker.job.n \in 0 .. MaxWrites
    BY <2>1, SessionImage
  <2>3. Pending(worker.job.n)
    BY <2>1 DEF InOrder, WorkerWrites
  <2>4. QED
    BY <1>1, <2>1, <2>2, <2>3, Overwritten DEF Pending
<1>5. CASE StoreTrack /\ worker.job.type = "WRITE" /\ acked' # acked
  <2>1. /\ worker.pc = "store" /\ store' = store
        /\ Ack(ImageOf(worker.b), worker.job.track, worker.job.len, worker.job.n)
    BY <1>5 DEF StoreTrack, Complete, files
  <2>2. ImageOf(worker.b) \in Images /\ worker.job.n \in 0 .. MaxWrites
    BY <2>1, SessionImage, StoreHasSession
  <2>3. worker.job.n <= written'
    BY <1>1, <1>5, <2>1, <2>2 DEF InOrder, WorkerWrites, Pending
  <2>4. \A x \in CellsOf(worker.job.track, worker.job.len) : store'[ImageOf(worker.b)][x] = worker.job.n
    BY <1>5, <2>1 DEF Stage
  <2>5. QED
    BY <1>1, <2>1, <2>2, <2>3, <2>4, Acknowledged DEF Contained
<1>6. CASE store' = store /\ acked' = acked
  <2>1. \A i \in Images, x \in Cells : acked[i][x] \in Nat
    BY DEF Contained, Contents
  <2>2. QED
    BY <1>1, <1>6, <2>1 DEF Contained, AckedWriteStays
<1>7. QED
  BY <1>2, <1>3, <1>4, <1>5, <1>6, ImagesMove, AcksMove

-----------------------------------------------------------------------------
(* What a cached track is: one that an earlier step cached, on a slot that *)
(* has not changed since, or a track just transferred.                     *)

OneSlotChanges ==
    \E d \in Drives : cache' = cache_drop_drive(d) /\ \A e \in Drives : e # d => drv'[e] = drv[e]

LEMMA MountsChangeOneSlot ==
  ASSUME Shapes, NEW c \in Consoles, MountCall(c)
  PROVE  OneSlotChanges \/ UNCHANGED table
<1>1. PICK d \in Drives :
         \/ \E url \in RemoteImages : RemoteConfigure(c, d, url)
         \/ \E img \in LocalImages : MountOpen(c, d, img)
         \/ MountFails(c, d) \/ UnmountDo(c, d)
  BY DEF MountCall
<1>2. CASE \E img \in LocalImages : MountOpen(c, d, img)
  BY <1>2 DEF MountOpen
<1>3. CASE \/ \E url \in RemoteImages : RemoteConfigure(c, d, url)
           \/ MountFails(c, d) \/ UnmountDo(c, d)
  <2>1. cache' = cache_drop_drive(d)
    BY <1>3 DEF RemoteConfigure, MountFails, UnmountDo, Unmount
  <2>2. \A e \in Drives : e # d => drv'[e] = drv[e]
    BY <1>3, TakeSteps DEF TakeStep
  <2>3. QED
    BY <2>1, <2>2 DEF OneSlotChanges
<1>4. QED
  BY <1>1, <1>2, <1>3

ReadsLocal == \E c \in Readers, d \in Drives, r \in Requests : ReadLocal(c, d, r[1], r[2])
StoresTrack ==
    StoreTrack /\ drv[worker.job.drive].mounted /\ drv[worker.job.drive].backing = worker.b
CacheDropped == drv' = drv /\ \E d : cache' = cache_drop_drive(d)

LEMMA CacheMoves ==
  ASSUME CoreInv, [Next]_vars
  PROVE  \/ ReadsLocal \/ LocalWriteDone \/ StoresTrack
         \/ UNCHANGED table \/ CacheDropped \/ OneSlotChanges
         \/ RemoteUnmountAll \/ ~cache'.valid
<1>1. Shapes /\ Session
  BY DEF CoreInv
<1>2. CASE \E c \in Readers : ReadCall(c)
  <2>1. PICK c \in Readers, d \in Drives, r \in Requests :
          \/ ReadHit(c, d, r[1], r[2]) \/ ReadLocal(c, d, r[1], r[2])
          \/ ReadLocalFails(c, d, r[1], r[2]) \/ ReadRemote(c, d, r[1], r[2])
    BY <1>2 DEF ReadCall
  <2>2. ReadLocal(c, d, r[1], r[2]) => ReadsLocal
    BY DEF ReadsLocal
  <2>3. ReadLocalFails(c, d, r[1], r[2]) => ~cache'.valid
    BY DEF ReadLocalFails, NoCache
  <2>4. ReadHit(c, d, r[1], r[2]) \/ ReadRemote(c, d, r[1], r[2]) => UNCHANGED table
    BY DEF ReadHit, ReadRemote
  <2>5. QED
    BY <2>1, <2>2, <2>3, <2>4
<1>3. CASE \E c \in Tasks : CallStep(c)
  <2>1. PICK c \in Tasks : CallStep(c)
    BY <1>3
  <2>2. MountSwap(c) => OneSlotChanges
    BY <1>1, SwapEffect DEF MountSwap, TakeStep, OneSlotChanges
  <2>3. ~MountSwap(c) => UNCHANGED table
    BY <2>1 DEF CallStep, PostWait, PostFails, WaitExpires, ReadDone, ReadReturns, Dispose,
                RemoteConnect, MountUnlock
  <2>4. QED
    BY <2>2, <2>3
<1>4. CASE WriteCall
  BY <1>4 DEF WriteCall, WriteLocalFails, WriteRemote, LocalWriteDone, CacheDropped
<1>5. CASE \E c \in Consoles : MountCall(c)
  BY <1>1, <1>5, MountsChangeOneSlot
<1>6. CASE Worker
  <2>1. StoreTrack => StoresTrack \/ UNCHANGED table
    BY DEF StoreTrack, StoresTrack, table
  <2>2. Install => OneSlotChanges
    BY <1>1, InstallEffect DEF Install, OneSlotChanges
  <2>3. DropTrack => CacheDropped
    BY DEF DropTrack, CacheDropped
  <2>4. \/ Receive \/ Lookup \/ NotReady \/ FetchTrack \/ FetchFails \/ SendTrack \/ SendFails
        \/ WantMount \/ MountOffline \/ OpenSession \/ OpenFails \/ Mismatch \/ Discard \/ CloseSession
        => UNCHANGED table
    BY DEF Receive, Lookup, NotReady, FetchTrack, FetchFails, SendTrack, SendFails,
           WantMount, MountOffline, OpenSession, OpenFails, Mismatch, Discard, CloseSession
  <2>5. QED
    BY <1>6, <2>1, <2>2, <2>3, <2>4 DEF Worker
<1>7. CASE Event
  BY <1>7 DEF Event, LinkLost, OnDisconnected, EvtDispose, OnGotIp, ScanDrive, ScanPost
<1>8. CASE Restart
  BY <1>8 DEF Restart, NoCache
<1>9. CASE UNCHANGED vars
  BY <1>9 DEF vars, table
<1>10. QED
  BY <1>2, <1>3, <1>4, <1>5, <1>6, <1>7, <1>8, <1>9 DEF Next

CacheKept == cache' = cache /\ drv'[cache.drive] = drv[cache.drive]

LEMMA CacheStays ==
  ASSUME CoreInv, CacheTyped, [Next]_vars, cache'.valid
  PROVE  CacheKept \/ ReadsLocal \/ LocalWriteDone \/ StoresTrack
<1>1. ASSUME NEW d, cache' = cache_drop_drive(d)
      PROVE  cache' = cache /\ cache.drive # d
  BY <1>1 DEF cache_drop_drive, NoCache
<1>2. CASE UNCHANGED table \/ CacheDropped
  BY <1>1, <1>2 DEF CacheDropped, CacheKept, table
<1>3. CASE OneSlotChanges
  BY <1>1, <1>3 DEF OneSlotChanges, CacheTyped, CacheKept
<1>4. CASE RemoteUnmountAll
  <2>1. cache' = cache /\ ~Gone(cache.drive) /\ cache.drive \in Drives
    BY <1>4 DEF RemoteUnmountAll, Gone, NoCache, CacheTyped
  <2>2. QED
    BY <1>4, <2>1, UnmountAllEffect DEF CoreInv, CacheKept
<1>5. QED
  BY <1>2, <1>3, <1>4, CacheMoves

(* A track that is read or written has the size of its data.               *)
LEMMA TrackData ==
  ASSUME store \in [Images -> Contents], NEW img \in Images,
         NEW t \in UInt32, NEW l \in 1 .. BufSize, disk_track_in_bounds(t, l, ImageSize)
  PROVE  /\ TrackOf(img, t, l) \in [0 .. (l - 1) -> 0 .. MaxWrites]
         /\ \A i \in 0 .. (l - 1) :
               TrackOf(img, t, l)[i] = store[img][disk_track_offset(t, l) + i]
BY TrackInImage DEF TrackOf, Contents

LEMMA LocalRead ==
  ASSUME CoreInv, NEW c \in Readers, NEW d \in Drives, NEW r \in Requests, ReadLocal(c, d, r[1], r[2])
  PROVE  /\ r[1] \in UInt32 /\ r[2] \in 1 .. BufSize /\ disk_track_in_bounds(r[1], r[2], ImageSize)
         /\ drv[d].mounted /\ drv' = drv
         /\ ImageOf(drv[d].backing) \in Images /\ UNCHANGED <<heap, store, acked>>
         /\ cache' = Fill(d, r[1], r[2], TrackOf(ImageOf(drv[d].backing), r[1], r[2]))
<1>1. r[1] \in UInt32 /\ r[2] \in UInt32
  BY DiskAssumption
<1>2. check_track(d, r[1], r[2])
      /\ cache' = Fill(d, r[1], r[2], TrackOf(ImageOf(drv[d].backing), r[1], r[2]))
      /\ UNCHANGED <<drv, heap, store, acked>>
  BY DEF ReadLocal, files, history
<1>3. r[2] \in 1 .. BufSize /\ disk_track_in_bounds(r[1], r[2], ImageSize) /\ drv[d].mounted
  BY <1>1, <1>2, CheckedTrack
<1>4. QED
  BY <1>1, <1>2, <1>3, DriveImage

LEMMA CacheTypedStep ==
  ASSUME CoreInv, Contained, Stage, CacheTyped, [Next]_vars
  PROVE  CacheTyped'
<1> SUFFICES ASSUME cache'.valid PROVE CacheTyped'
  BY DEF CacheTyped
<1>1. CASE CacheKept
  BY <1>1 DEF CacheKept, CacheTyped
<1>2. CASE ReadsLocal
  <2>1. PICK c \in Readers, d \in Drives, r \in Requests : ReadLocal(c, d, r[1], r[2])
    BY <1>2 DEF ReadsLocal
  <2>2. PICK data : data = TrackOf(ImageOf(drv[d].backing), r[1], r[2])
    OBVIOUS
  <2>3. cache' = Fill(d, r[1], r[2], data) /\ data \in [0 .. (r[2] - 1) -> 0 .. MaxWrites]
    BY <2>1, <2>2, LocalRead, TrackData DEF Contained
  <2>4. QED
    BY <2>1, <2>3, LocalRead DEF CacheTyped, Fill
<1>3. CASE LocalWriteDone
  <2>1. PICK d \in Drives, r \in Requests : WriteLocal(d, r[1], r[2])
    BY <1>3 DEF LocalWriteDone
  <2>2. PICK data : data = [i \in 0 .. (r[2] - 1) |-> NextWrite]
    OBVIOUS
  <2>3. cache' = Fill(d, r[1], r[2], data) /\ data \in [0 .. (r[2] - 1) -> 0 .. MaxWrites] /\ drv' = drv
    BY <2>1, <2>2, LocalWrite DEF WriteLocal
  <2>4. QED
    BY <2>1, <2>3, LocalWrite DEF CacheTyped, Fill
<1>4. CASE StoresTrack
  <2>1. /\ worker.pc = "store" /\ drv[worker.job.drive].mounted /\ drv' = drv
        /\ cache' = Fill(worker.job.drive, worker.job.track, worker.job.len, worker.data)
    BY <1>4 DEF StoresTrack, StoreTrack
  <2>2. /\ ImageOf(worker.b) \in Images /\ worker.job.drive \in Drives
        /\ worker.job.track \in UInt32 /\ worker.job.len \in 1 .. BufSize
        /\ disk_track_in_bounds(worker.job.track, worker.job.len, ImageSize)
    BY <2>1, SessionImage, StoreHasSession
  <2>3. worker.data \in [0 .. (worker.job.len - 1) -> 0 .. MaxWrites]
    BY <2>1, <2>2, TrackData DEF Stage, Contained
  <2>4. QED
    BY <2>1, <2>2, <2>3 DEF CacheTyped, Fill
<1>5. QED
  BY <1>1, <1>2, <1>3, <1>4, CacheStays

-----------------------------------------------------------------------------
(* Stage: between its two locked sections the worker is alone with the     *)
(* image.                                                                  *)

(* The steps that change what the worker does.                             *)
LEMMA WorkerMoves ==
  ASSUME [Next]_vars
  PROVE  worker' = worker \/ Worker \/ Restart \/ \E c \in Tasks : WaitExpires(c)
<1>1. CASE \E c \in Readers : ReadCall(c)
  <2>1. \A c, d, t, l : ReadHit(c, d, t, l) \/ ReadLocalFails(c, d, t, l) \/ ReadRemote(c, d, t, l)
                          => worker' = worker
    BY DEF ReadHit, ReadLocalFails, ReadRemote, jobs
  <2>2. \A c, d, t, l : ReadLocal(c, d, t, l) => worker' = worker
    BY DEF ReadLocal, jobs
  <2>3. QED
    BY <1>1, <2>1, <2>2 DEF ReadCall
<1>2. CASE \E c \in Tasks : CallStep(c)
  BY <1>2 DEF CallStep, PostWait, PostFails, ReadDone, ReadReturns, Dispose,
              RemoteConnect, MountSwap, MountUnlock, jobs
<1>3. CASE WriteCall
  BY <1>3 DEF WriteCall, WriteLocal, WriteLocalFails, WriteRemote, jobs
<1>4. CASE \E c \in Consoles : MountCall(c)
  BY <1>4 DEF MountCall, RemoteConfigure, MountOpen, MountFails, UnmountDo, Unmount, jobs
<1>5. CASE Event
  BY <1>5 DEF Event, LinkLost, OnDisconnected, RemoteUnmountAll, EvtDispose, OnGotIp, ScanDrive,
              ScanPost, jobs
<1>6. CASE UNCHANGED vars
  BY <1>6 DEF vars
<1>7. QED
  BY <1>1, <1>2, <1>3, <1>4, <1>5, <1>6 DEF Next

(* The same transfer goes on.                                              *)
SameTransfer ==
    /\ worker'.pc = worker.pc /\ worker'.b = worker.b
    /\ worker'.job.type = worker.job.type /\ worker'.job.n = worker.job.n
    /\ worker'.job.drive = worker.job.drive
    /\ worker'.job.track = worker.job.track /\ worker'.job.len = worker.job.len

LEMMA TransferExpires ==
  ASSUME Shapes, NEW c \in Tasks, WaitExpires(c), worker.pc \in {"picked", "store", "drop"}
  PROVE  SameTransfer /\ (worker.pc = "store" => worker'.data = worker.data)
<1>1. worker.job \in AllJobs /\ worker.job.type # "CLOSE"
  BY WorkerFields DEF IoJobs
<1>2. /\ worker'.pc = worker.pc /\ worker'.job = Orphan(worker.job, c) /\ worker'.b = worker.b
      /\ worker.pc = "store" => worker'.data = worker.data
  BY ExpiryEffect
<1>3. QED
  BY <1>1, <1>2, OrphanFields DEF SameTransfer

(* A worker step into, or within, a transfer.                              *)
LEMMA TransferMoves ==
  ASSUME CoreInv, [Next]_vars, worker'.pc \in {"picked", "store", "drop"}
  PROVE  Lookup \/ FetchTrack \/ SendTrack \/ SendFails \/ SameTransfer
<1>1. CASE worker' = worker
  BY <1>1 DEF SameTransfer
<1>2. CASE \E c \in Tasks : WaitExpires(c)
  <2>1. PICK c \in Tasks : WaitExpires(c)
    BY <1>2
  <2>2. worker'.pc = worker.pc
    BY <2>1, ExpiryEffect DEF CoreInv
  <2>3. QED
    BY <2>1, <2>2, TransferExpires DEF CoreInv
<1>3. CASE Worker
  <2>1. worker' # IdleWorker
    BY DEF IdleWorker
  <2>2. ~Receive /\ ~NotReady /\ ~FetchFails /\ ~StoreTrack /\ ~DropTrack /\ ~MountOffline
        /\ ~OpenFails /\ ~Install /\ ~Discard /\ ~CloseSession
    BY <2>1 DEF Receive, NotReady, FetchFails, StoreTrack, DropTrack, MountOffline,
                OpenFails, Install, Discard, CloseSession, Complete, Work
  <2>3. ~WantMount /\ ~OpenSession
    BY <2>1 DEF WantMount, OpenSession, Complete, Continue, Work
  <2>4. ~Mismatch
    BY DEF Mismatch, Continue, Work, CoreInv, Shapes, WorkerState
  <2>5. QED
    BY <1>3, <2>2, <2>3, <2>4 DEF Worker
<1>4. ~Restart
  BY DEF Restart, IdleWorker
<1>5. QED
  BY <1>1, <1>2, <1>3, <1>4, WorkerMoves

(* The steps that open or close a backing.                                 *)
LEMMA HeapMoves ==
  ASSUME [Next]_vars, heap' # heap
  PROVE  \/ Restart \/ OpenSession \/ Discard \/ CloseSession
         \/ \E c \in Tasks : Dispose(c)
         \/ \E c \in Consoles, d \in Drives, img \in LocalImages : MountOpen(c, d, img)
<1>1. ~(\E c \in Readers : ReadCall(c))
  <2>1. \A c, d, t, l : ReadHit(c, d, t, l) \/ ReadLocalFails(c, d, t, l) \/ ReadRemote(c, d, t, l) => heap' = heap
    BY DEF ReadHit, ReadLocalFails, ReadRemote, files
  <2>2. \A c, d, t, l : ReadLocal(c, d, t, l) => heap' = heap
    BY DEF ReadLocal, files
  <2>3. QED
    BY <2>1, <2>2 DEF ReadCall
<1>2. (\E c \in Tasks : CallStep(c)) => \E c \in Tasks : Dispose(c)
  BY DEF CallStep, PostWait, PostFails, WaitExpires, ReadDone, ReadReturns,
         RemoteConnect, MountSwap, MountUnlock, files
<1>3. (\E c \in Consoles : MountCall(c))
         => \E c \in Consoles, d \in Drives, img \in LocalImages : MountOpen(c, d, img)
  BY DEF MountCall, RemoteConfigure, MountFails, UnmountDo, Unmount, files
<1>4. ~Event /\ ~WriteCall /\ vars' # vars
  BY DEF Event, LinkLost, OnDisconnected, RemoteUnmountAll, EvtDispose, OnGotIp, ScanDrive, ScanPost,
         WriteCall, WriteLocal, WriteLocalFails, WriteRemote, vars, files
<1>5. Worker => OpenSession \/ Discard \/ CloseSession
  BY DEF Worker, Receive, Lookup, NotReady, FetchTrack, FetchFails, SendTrack, SendFails,
         StoreTrack, DropTrack, WantMount, MountOffline, OpenFails, Install, Mismatch, files
<1>6. QED
  BY <1>1, <1>2, <1>3, <1>4, <1>5 DEF Next

(* While the worker does not send, a remote image does not change.         *)
LEMMA RemoteImageStays ==
  ASSUME CoreInv, [Next]_vars, worker.pc # "picked", NEW img \in RemoteImages
  PROVE  store'[img] = store[img]
<1>1. ~SendTrack /\ ~SendFails
  BY DEF SendTrack, SendFails, Usable
<1>2. ASSUME NEW d \in Drives, NEW r \in Requests, WriteLocal(d, r[1], r[2]) \/ WriteLocalFails(d, r[1], r[2])
      PROVE  store'[img] = store[img]
  <2>1. \E cells : store' = WriteCells(ImageOf(drv[d].backing), cells, NextWrite)
    BY <1>2 DEF WriteLocal, WriteLocalFails
  <2>2. ImageOf(drv[d].backing) \notin RemoteImages
    BY <1>2, LocalWrite
  <2>3. QED
    BY <2>1, <2>2 DEF WriteCells
<1>3. QED
  BY <1>1, <1>2, ImagesMove DEF LocalWriteDone, LocalWriteFailed

LEMMA StageStays ==
  ASSUME CoreInv, [Next]_vars, SameTransfer, worker.pc = "store"
  PROVE  worker'.data = worker.data
<1>1. ~Restart
  BY DEF Restart, SameTransfer, IdleWorker
<1>2. ~Worker
  <2>1. ~StoreTrack /\ worker' # IdleWorker
    BY DEF StoreTrack, Complete, Work, SameTransfer, IdleWorker
  <2>2. QED
    BY <2>1 DEF Worker, Receive, Lookup, NotReady, FetchTrack, FetchFails, SendTrack, SendFails, Usable,
                DropTrack, WantMount, MountOffline, OpenSession, OpenFails, Install,
                Mismatch, Discard, CloseSession
<1>3. ASSUME NEW c \in Tasks, WaitExpires(c) PROVE worker'.data = worker.data
  BY <1>3, TransferExpires DEF CoreInv
<1>4. QED
  BY <1>1, <1>2, <1>3, WorkerMoves

(* Nobody closes or changes the session of a transfer.                     *)
LEMMA SessionStays ==
  ASSUME CoreInv, [Next]_vars, SameTransfer, worker.pc \in {"picked", "store", "drop"}, worker.b # NoBacking
  PROVE  heap'[worker.b] = heap[worker.b]
<1>1. /\ worker.b \in Backings /\ ImageOf(worker.b) \in RemoteImages /\ heap[worker.b] # NoName
      /\ ImageOf(worker.b) \notin LocalImages
  BY SessionImage, ImageNames DEF CoreInv, Session, WorkerSession
<1>2. Shapes
  BY DEF CoreInv
<1>3. CASE \E c \in Tasks : Dispose(c)
  <2>1. PICK c \in Tasks : Dispose(c)
    BY <1>3
  <2>2. QED
    BY <1>1, <1>2, <2>1, DisposeEffect
<1>4. CASE \E c \in Consoles, d \in Drives, img \in LocalImages : MountOpen(c, d, img)
  <2>1. PICK c \in Consoles, d \in Drives, img \in LocalImages : MountOpen(c, d, img)
    BY <1>4
  <2>2. PICK b \in Backings :
           /\ heap[b] = NoName /\ heap'[b] = [img |-> img, ro |-> FALSE]
           /\ \A x \in Backings : x # b => heap'[x] = heap[x]
           /\ task[c].pc = "idle" /\ task'[c] = [pc |-> "opened", b |-> b, drive |-> d, img |-> img]
           /\ \A o \in Tasks : o # c => task'[o] = task[o]
           /\ UNCHANGED <<drv, rq, worker, evt, leaked, disc, link>> /\ mlock = "none" /\ mlock' = c
    BY <1>2, <2>1, OpenEffect
  <2>3. QED
    BY <1>1, <2>2
<1>5. ~OpenSession /\ ~Discard /\ ~CloseSession
  BY DEF OpenSession, Discard, CloseSession
<1>6. ~Restart
  BY DEF Restart, SameTransfer, IdleWorker
<1>7. heap' = heap \/ Restart \/ OpenSession \/ Discard \/ CloseSession
      \/ (\E c \in Tasks : Dispose(c))
      \/ \E c \in Consoles, d \in Drives, img \in LocalImages : MountOpen(c, d, img)
  BY HeapMoves
<1>8. QED
  BY <1>3, <1>4, <1>5, <1>6, <1>7

LEMMA StageStep ==
  ASSUME CoreInv, Contained, Stage, [Next]_vars
  PROVE  Stage'
<1> SUFFICES ASSUME worker'.pc = "store" PROVE Stage'
  BY DEF Stage
<1>1. CASE FetchTrack
  <2>1. PICK data : /\ data = TrackOf(ImageOf(worker.b), worker.job.track, worker.job.len)
                    /\ Continue([pc |-> "store", job |-> worker.job, b |-> worker.b, data |-> data])
                    /\ UNCHANGED <<heap, store>> /\ worker.job.type = "READ"
    BY <1>1 DEF FetchTrack, files, Usable
  <2>2. worker' = [pc |-> "store", job |-> worker.job, b |-> worker.b, data |-> data]
    BY <2>1 DEF Continue, Work
  <2>3. QED
    BY <2>1, <2>2 DEF Stage, TrackOf, ImageOf
<1>2. CASE SendTrack
  <2> DEFINE j == worker.job
             off == disk_track_offset(j.track, j.len)
  <2>1. PICK data : /\ data = [i \in 0 .. (j.len - 1) |-> j.n]
                    /\ Continue([pc |-> "store", job |-> j, b |-> worker.b, data |-> data])
                    /\ heap' = heap /\ store' = WriteCells(ImageOf(worker.b), CellsOf(j.track, j.len), j.n)
                    /\ worker.pc = "picked" /\ worker.b # NoBacking
    BY <1>2 DEF SendTrack, Usable
  <2>2. worker' = [pc |-> "store", job |-> j, b |-> worker.b, data |-> data]
    BY <2>1 DEF Continue, Work
  <2>3. /\ j.track \in UInt32 /\ j.len \in 1 .. BufSize /\ disk_track_in_bounds(j.track, j.len, ImageSize)
        /\ ImageOf(worker.b) \in Images /\ j.n \in 0 .. MaxWrites
    BY <2>1, SessionImage
  <2>4. \A x \in Cells : x \in CellsOf(j.track, j.len) => store'[ImageOf(worker.b)][x] = j.n
    BY <2>1, <2>3, WriteEffect DEF Contained
  <2>5. /\ \A i \in 0 .. (j.len - 1) : off + i \in Cells /\ off + i \in CellsOf(j.track, j.len)
        /\ CellsOf(j.track, j.len) \subseteq Cells
    BY <2>3, TrackInImage
  <2>6. \A i \in 0 .. (j.len - 1) : store'[ImageOf(worker.b)][off + i] = j.n
    BY <2>4, <2>5
  <2>7. data = [i \in 0 .. (j.len - 1) |-> store'[ImageOf(worker.b)][off + i]]
    BY <2>1, <2>6
  <2>8. QED
    BY <2>1, <2>2, <2>4, <2>5, <2>7 DEF Stage, TrackOf, ImageOf
<1>3. CASE SameTransfer
  <2>1. worker.pc = "store" /\ worker.b # NoBacking
    BY <1>3, StoreHasSession DEF SameTransfer
  <2>2. heap'[worker.b] = heap[worker.b] /\ ImageOf(worker.b) \in RemoteImages
    BY <1>3, <2>1, SessionStays, SessionImage
  <2>3. store'[ImageOf(worker.b)] = store[ImageOf(worker.b)]
    BY <2>1, <2>2, RemoteImageStays
  <2>4. worker'.data = worker.data
    BY <1>3, <2>1, StageStays
  <2>5. QED
    BY <1>3, <2>1, <2>2, <2>3, <2>4 DEF Stage, SameTransfer, ImageOf, TrackOf
<1>4. ~Lookup /\ ~SendFails
  BY DEF Lookup, SendFails, Continue, Work
<1>5. QED
  BY <1>1, <1>2, <1>3, <1>4, TransferMoves

-----------------------------------------------------------------------------
(* InOrder: remote writes keep the order in which they were issued.        *)

(* Where a step may take a task, except for the fdc task that issues a     *)
(* remote write and a console that opens an image file: nowhere to post a  *)
(* write, and nowhere with a file just opened.                             *)
Plain(s) == (s.pc = "post" => s.job.type # "WRITE") /\ s.pc # "opened"
FileOpened == \E c \in Consoles, d \in Drives, img \in LocalImages : MountOpen(c, d, img)

LEMMA TasksMove ==
  ASSUME Shapes, NEW c \in Tasks, NEW s, Become(c, s)
  PROVE  /\ task'[c] = s /\ \A o \in Tasks : o # c => task'[o] = task[o]
BY DEF Become, Shapes, TasksOK

PlainMoves == \A o \in Tasks : task'[o] = task[o] \/ Plain(task'[o])

LEMMA PlainMove ==
  ASSUME Shapes, NEW c \in Tasks, NEW s, Become(c, s), Plain(s)
  PROVE  PlainMoves
BY TasksMove DEF PlainMoves

LEMMA OtherwisePlain ==
  ASSUME CoreInv, [Next]_vars, ~RemoteWriteIssued, ~FileOpened
  PROVE  PlainMoves
<1>1. Shapes /\ Awaited /\ Session
  BY DEF CoreInv
<1>2. Consoles \subseteq Tasks /\ Readers \subseteq Tasks
  BY TaskNames
<1>3. task' = task => PlainMoves
  BY DEF PlainMoves
<1>4. CASE \E c \in Readers : ReadCall(c)
  <2>1. PICK c \in Readers, d \in Drives, r \in Requests :
          \/ ReadHit(c, d, r[1], r[2]) \/ ReadLocal(c, d, r[1], r[2])
          \/ ReadLocalFails(c, d, r[1], r[2]) \/ ReadRemote(c, d, r[1], r[2])
    BY <1>4 DEF ReadCall
  <2>2. (\E s : Become(c, s) /\ Plain(s)) \/ task' = task
    BY <2>1 DEF ReadHit, ReadLocal, ReadLocalFails, ReadRemote, Copied, Job, Plain
  <2>3. QED
    BY <1>1, <1>2, <1>3, <2>2, PlainMove
<1>5. CASE \E c \in Tasks : CallStep(c)
  <2>1. PICK c \in Tasks : CallStep(c)
    BY <1>5
  <2>2. CASE PostWait(c)
    <3>1. /\ Shapes' /\ task[c].job \in AllJobs /\ task[c].job.by = c
          /\ task'[c] = [pc |-> "wait", job |-> task[c].job]
          /\ \A o \in Tasks : o # c => task'[o] = task[o]
      BY <1>1, <2>2, ShapesPostWait
    <3>2. QED
      BY <3>1 DEF Plain, PlainMoves
  <2>3. CASE Dispose(c)
    <3>1. task[c].then.pc \notin {"post", "opened"} /\ task'[c] = task[c].then /\ \A o \in Tasks : o # c => task'[o] = task[o]
      BY <1>1, <2>3, ShapesDispose DEF Shapes, TasksOK, TaskState, Dispose
    <3>2. QED
      BY <3>1 DEF Plain, PlainMoves
  <2>4. CASE RemoteConnect(c)
    <3>1. PICK s : Become(c, s) /\ (s = IdleTask \/ s = [pc |-> "post", job |-> MountJob(c, task[c].drive)])
      BY <2>4 DEF RemoteConnect
    <3>2. Plain(s)
      BY <3>1 DEF Plain, IdleTask, MountJob, Job
    <3>3. QED
      BY <1>1, <3>1, <3>2, PlainMove
  <2>5. CASE MountSwap(c)
    <3>1. \A o \in Tasks : o # c => task'[o] = task[o]
      BY <1>1, <2>5, SwapEffect DEF TakeStep
    <3>2. task'[c].pc \notin {"post", "opened"}
      BY <1>1, <2>5, TasksMove DEF MountSwap, Disposing, IdleTask
    <3>3. QED
      BY <3>1, <3>2 DEF Plain, PlainMoves
  <2>6. CASE PostFails(c) \/ WaitExpires(c) \/ ReadDone(c) \/ ReadReturns(c) \/ MountUnlock(c)
    <3>1. \E s : Become(c, s) /\ Plain(s)
      BY <2>6 DEF PostFails, WaitExpires, ReadDone, ReadReturns, MountUnlock, Copied, IdleTask, Plain
    <3>2. QED
      BY <1>1, <3>1, PlainMove
  <2>7. QED
    BY <2>1, <2>2, <2>3, <2>4, <2>5, <2>6 DEF CallStep
<1>6. CASE WriteCall
  BY <1>3, <1>6 DEF WriteCall, WriteLocal, WriteLocalFails, RemoteWriteIssued
<1>7. CASE \E c \in Consoles : MountCall(c)
  <2>1. PICK c \in Consoles, d \in Drives :
          \/ \E url \in RemoteImages : RemoteConfigure(c, d, url)
          \/ \E img \in LocalImages : MountOpen(c, d, img)
          \/ MountFails(c, d) \/ UnmountDo(c, d)
    BY <1>7 DEF MountCall
  <2>2. \E s : Become(c, s) /\ Plain(s)
    <3>1. CASE \E img \in LocalImages : MountOpen(c, d, img)
      BY <3>1 DEF FileOpened
    <3>2. CASE \E url \in RemoteImages : RemoteConfigure(c, d, url)
      BY <3>2 DEF RemoteConfigure, Disposing, Plain
    <3>3. CASE MountFails(c, d) \/ UnmountDo(c, d)
      BY <3>3 DEF MountFails, UnmountDo, Unmount, Disposing, IdleTask, Plain
    <3>4. QED
      BY <2>1, <3>1, <3>2, <3>3
  <2>3. QED
    BY <1>1, <1>2, <2>2, PlainMove
<1>8. CASE Worker
  <2>1. Receive => task' = task
    BY DEF Receive
  <2>2. EndStep \/ GoOnStep => PlainMoves
    BY DEF EndStep, GoOnStep, PlainMoves, Plain
  <2>3. QED
    BY <1>1, <1>3, <1>8, <2>1, <2>2, EndSteps, GoOnSteps DEF Worker
<1>9. CASE Event
  BY <1>3, <1>9 DEF Event, LinkLost, OnDisconnected, RemoteUnmountAll, EvtDispose, OnGotIp, ScanDrive, ScanPost
<1>10. CASE Restart
  BY <1>10 DEF Restart, PlainMoves, Plain, IdleTask
<1>11. CASE UNCHANGED vars
  BY <1>3, <1>11 DEF vars
<1>12. QED
  BY <1>4, <1>5, <1>6, <1>7, <1>8, <1>9, <1>10, <1>11 DEF Next

(* The fdc task posts no other write than before.                          *)
SameFdcWrite == FdcWrites' => FdcWrites /\ task'["fdc"].job.n = task["fdc"].job.n

LEMMA NoWriteIssued ==
  ASSUME CoreInv, InOrder, [Next]_vars, ~RemoteWriteIssued
  PROVE  OnlyFdcWrites' /\ SameFdcWrite
<1>1. CASE FileOpened
  <2>1. PICK c \in Consoles, d \in Drives, img \in LocalImages : MountOpen(c, d, img)
    BY <1>1 DEF FileOpened
  <2>2. PICK s : Become(c, s) /\ s.pc = "opened"
    BY <2>1 DEF MountOpen
  <2>3. task'[c].pc = "opened" /\ \A o \in Tasks : o # c => task'[o] = task[o]
    BY <2>2, TasksMove, TaskNames DEF CoreInv
  <2>4. QED
    BY <2>3, TaskNames DEF InOrder, OnlyFdcWrites, SameFdcWrite, FdcWrites
<1>2. CASE ~FileOpened
  BY <1>2, OtherwisePlain, TaskNames DEF PlainMoves, InOrder, OnlyFdcWrites, SameFdcWrite, FdcWrites, Plain
<1>3. QED
  BY <1>1, <1>2

(* The steps that change the queue.                                        *)
LEMMA QueueMoves ==
  ASSUME [Next]_vars, rq' # rq
  PROVE  \/ Receive \/ EvtDispose \/ ScanPost \/ Restart
         \/ \E c \in Tasks : PostWait(c) \/ WaitExpires(c) \/ Dispose(c)
<1>1. ~(\E c \in Readers : ReadCall(c))
  <2>1. \A c, d, t, l : ReadHit(c, d, t, l) \/ ReadLocalFails(c, d, t, l) \/ ReadRemote(c, d, t, l) => rq' = rq
    BY DEF ReadHit, ReadLocalFails, ReadRemote, jobs
  <2>2. \A c, d, t, l : ReadLocal(c, d, t, l) => rq' = rq
    BY DEF ReadLocal, jobs
  <2>3. QED
    BY <2>1, <2>2 DEF ReadCall
<1>2. (\E c \in Tasks : CallStep(c)) => \E c \in Tasks : PostWait(c) \/ WaitExpires(c) \/ Dispose(c)
  BY DEF CallStep, PostFails, ReadDone, ReadReturns, RemoteConnect, MountSwap, MountUnlock, jobs
<1>3. ~(\E c \in Consoles : MountCall(c))
  BY DEF MountCall, RemoteConfigure, MountOpen, MountFails, UnmountDo, Unmount, jobs
<1>4. ~WriteCall /\ vars' # vars
  BY DEF WriteCall, WriteLocal, WriteLocalFails, WriteRemote, vars, jobs
<1>5. Event => EvtDispose \/ ScanPost
  BY DEF Event, LinkLost, OnDisconnected, RemoteUnmountAll, OnGotIp, ScanDrive, jobs
<1>6. Worker => Receive
  BY DEF Worker, Lookup, NotReady, FetchTrack, FetchFails, SendTrack, SendFails,
         StoreTrack, DropTrack, WantMount, MountOffline, OpenSession, OpenFails, Install,
         Mismatch, Discard, CloseSession
<1>7. QED
  BY <1>1, <1>2, <1>3, <1>4, <1>5, <1>6 DEF Next

(* The numbers of the writes.                                              *)
LEMMA WriteNumbers ==
  ASSUME CoreInv
  PROVE  /\ \A i \in 1 .. Len(rq) : WriteQueued(i) => rq[i].n \in Nat
         /\ WorkerWrites => worker.job.n \in Nat
         /\ FdcWrites => task["fdc"].job.n \in Nat
         /\ Len(rq) \in Nat /\ written \in Nat
<1>1. \A j \in AllJobs : j.type = "WRITE" => j.n \in Nat
  BY JobFields, DiskAssumption DEF IoJobs
<1>2. \A i \in 1 .. Len(rq) : rq[i] \in AllJobs
  BY DEF CoreInv, Shapes
<1>3. worker.pc # "idle" => worker.job \in AllJobs
  BY WorkerFields DEF CoreInv
<1>4. task["fdc"].pc = "post" => task["fdc"].job \in AllJobs
  BY TaskNames DEF CoreInv, Shapes, TasksOK, TaskState, AllJobs
<1>5. QED
  BY <1>1, <1>2, <1>3, <1>4, DiskAssumption DEF WriteQueued, WorkerWrites, FdcWrites, CoreInv, Shapes, Counted

(* No remote write was acknowledged, and the count did not fall.           *)
NoRemoteAck ==
    /\ \A img \in RemoteImages : acked'[img] = acked[img]
    /\ written' \in Nat /\ written' >= written
SameWorkerWrite == WorkerWrites' => WorkerWrites /\ worker'.job.n = worker.job.n

PendingNext(n) == n <= written' /\ \A img \in RemoteImages, x \in Cells : acked'[img][x] <= n

LEMMA PendingKept ==
  ASSUME NoRemoteAck, written \in Nat, NEW n \in Nat, Pending(n)
  PROVE  PendingNext(n)
BY DEF NoRemoteAck, Pending, PendingNext

LEMMA InOrderKept ==
  ASSUME CoreInv, InOrder, NoRemoteAck, SameWorkerWrite, SameFdcWrite, OnlyFdcWrites',
         Len(rq') = Len(rq),
         \A i \in 1 .. Len(rq) : rq'[i].type = rq[i].type /\ (WriteQueued(i) => rq'[i].n = rq[i].n)
  PROVE  InOrder'
<1>1. \A i \in 1 .. Len(rq') : WriteQueued(i)' => WriteQueued(i) /\ rq'[i].n = rq[i].n /\ i \in 1 .. Len(rq)
  BY DEF WriteQueued
<1>2. QueueInOrder'
  <2> SUFFICES ASSUME NEW i \in 1 .. Len(rq'), WriteQueued(i)'
               PROVE  /\ PendingNext(rq'[i].n)
                      /\ \A k \in 1 .. Len(rq') : WriteQueued(k)' /\ i < k => rq'[i].n <= rq'[k].n
                      /\ WorkerWrites' => worker'.job.n <= rq'[i].n
                      /\ FdcWrites' => rq'[i].n <= task'["fdc"].job.n
    BY DEF QueueInOrder, Pending, PendingNext
  <2>1. WriteQueued(i) /\ rq'[i].n = rq[i].n /\ i \in 1 .. Len(rq)
    BY <1>1
  <2>2. PendingNext(rq'[i].n)
    BY <2>1, WriteNumbers, PendingKept DEF InOrder, QueueInOrder
  <2>3. QED
    BY <1>1, <2>1, <2>2 DEF InOrder, QueueInOrder, SameWorkerWrite, SameFdcWrite
<1>3. WorkerWrites' => PendingNext(worker'.job.n) /\ (FdcWrites' => worker'.job.n <= task'["fdc"].job.n)
  BY WriteNumbers, PendingKept DEF InOrder, SameWorkerWrite, SameFdcWrite
<1>4. FdcWrites' => PendingNext(task'["fdc"].job.n)
  BY WriteNumbers, PendingKept DEF InOrder, SameFdcWrite
<1>5. QED
  BY <1>2, <1>3, <1>4 DEF InOrder, Pending, PendingNext

(* A job is appended: the write that the fdc task posts, or no write.      *)
LEMMA InOrderAppended ==
  ASSUME CoreInv, InOrder, NoRemoteAck, worker' = worker, SameFdcWrite, OnlyFdcWrites',
         NEW j \in AllJobs, rq' = Append(rq, j),
         j.type = "WRITE" => FdcWrites /\ j.n = task["fdc"].job.n /\ ~FdcWrites'
  PROVE  InOrder'
<1>1. /\ \A i \in 1 .. Len(rq) : rq'[i] = rq[i]
      /\ rq'[Len(rq) + 1] = j /\ Len(rq) \in Nat
      /\ \A i \in 1 .. Len(rq') : i \in 1 .. Len(rq) \/ i = Len(rq) + 1
  BY QueueAppend DEF CoreInv, Shapes
<1>2. WorkerWrites' <=> WorkerWrites
  BY DEF WorkerWrites
<1>3. QueueInOrder'
  <2> SUFFICES ASSUME NEW i \in 1 .. Len(rq'), WriteQueued(i)'
               PROVE  /\ PendingNext(rq'[i].n)
                      /\ \A k \in 1 .. Len(rq') : WriteQueued(k)' /\ i < k => rq'[i].n <= rq'[k].n
                      /\ WorkerWrites' => worker'.job.n <= rq'[i].n
                      /\ FdcWrites' => rq'[i].n <= task'["fdc"].job.n
    BY DEF QueueInOrder, Pending, PendingNext
  <2>1. CASE i \in 1 .. Len(rq)
    <3>1. WriteQueued(i) /\ rq'[i] = rq[i] /\ rq[i].n \in Nat
      BY <1>1, <2>1, WriteNumbers DEF WriteQueued
    <3>2. PendingNext(rq'[i].n)
      BY <2>1, <3>1, WriteNumbers, PendingKept DEF InOrder, QueueInOrder
    <3>3. ASSUME NEW k \in 1 .. Len(rq'), WriteQueued(k)', i < k PROVE rq'[i].n <= rq'[k].n
      BY <1>1, <2>1, <3>1, <3>3 DEF InOrder, QueueInOrder, WriteQueued
    <3>4. QED
      BY <1>2, <2>1, <3>1, <3>2, <3>3 DEF InOrder, QueueInOrder, SameFdcWrite
  <2>2. CASE i = Len(rq) + 1
    <3>1. FdcWrites /\ rq'[i].n = task["fdc"].job.n /\ ~FdcWrites' /\ task["fdc"].job.n \in Nat
      BY <1>1, <2>2, WriteNumbers DEF WriteQueued
    <3>2. PendingNext(rq'[i].n)
      BY <3>1, WriteNumbers, PendingKept DEF InOrder
    <3>3. \A k \in 1 .. Len(rq') : ~(i < k)
      BY <1>1, <2>2
    <3>4. QED
      BY <1>2, <3>1, <3>2, <3>3 DEF InOrder
  <2>3. QED
    BY <1>1, <2>1, <2>2
<1>4. WorkerWrites' => PendingNext(worker'.job.n) /\ (FdcWrites' => worker'.job.n <= task'["fdc"].job.n)
  BY <1>2, WriteNumbers, PendingKept DEF InOrder, SameFdcWrite
<1>5. FdcWrites' => PendingNext(task'["fdc"].job.n)
  BY WriteNumbers, PendingKept DEF InOrder, SameFdcWrite
<1>6. QED
  BY <1>3, <1>4, <1>5 DEF InOrder, Pending, PendingNext

(* The worker takes the oldest job.                                        *)
LEMMA InOrderReceived ==
  ASSUME CoreInv, InOrder, NoRemoteAck, Receive
  PROVE  InOrder'
<1>1. /\ rq \in Seq(AllJobs) /\ rq # <<>> /\ rq' = Tail(rq) /\ task' = task /\ worker.pc = "idle"
      /\ worker' = [pc |-> "got", job |-> Head(rq)]
  BY DEF Receive, Work, CoreInv, Shapes
<1>2. /\ \A i \in 1 .. Len(rq') : rq'[i] = rq[i + 1] /\ i + 1 \in 1 .. Len(rq)
      /\ Head(rq) = rq[1] /\ 1 \in 1 .. Len(rq) /\ Len(rq') \in Nat
  BY <1>1, QueueTail
<1>3. WorkerWrites' => WriteQueued(1) /\ worker'.job = rq[1]
  BY <1>1, <1>2 DEF WorkerWrites, WriteQueued
<1>4. FdcWrites' <=> FdcWrites
  BY <1>1 DEF FdcWrites
<1>5. QueueInOrder'
  <2> SUFFICES ASSUME NEW i \in 1 .. Len(rq'), WriteQueued(i)'
               PROVE  /\ PendingNext(rq'[i].n)
                      /\ \A k \in 1 .. Len(rq') : WriteQueued(k)' /\ i < k => rq'[i].n <= rq'[k].n
                      /\ WorkerWrites' => worker'.job.n <= rq'[i].n
                      /\ FdcWrites' => rq'[i].n <= task'["fdc"].job.n
    BY DEF QueueInOrder, Pending, PendingNext
  <2>1. WriteQueued(i + 1) /\ rq'[i] = rq[i + 1] /\ i + 1 \in 1 .. Len(rq)
    BY <1>2 DEF WriteQueued
  <2>2. PendingNext(rq'[i].n)
    BY <2>1, WriteNumbers, PendingKept DEF InOrder, QueueInOrder
  <2>3. ASSUME NEW k \in 1 .. Len(rq'), WriteQueued(k)', i < k PROVE rq'[i].n <= rq'[k].n
    <3>1. WriteQueued(k + 1) /\ rq'[k] = rq[k + 1] /\ k + 1 \in 1 .. Len(rq) /\ i + 1 < k + 1
      BY <1>2, <2>3 DEF WriteQueued
    <3>2. QED
      BY <2>1, <3>1 DEF InOrder, QueueInOrder
  <2>4. WorkerWrites' => worker'.job.n <= rq'[i].n
    <3>1. 1 < i + 1
      OBVIOUS
    <3>2. QED
      BY <1>2, <1>3, <2>1, <3>1 DEF InOrder, QueueInOrder
  <2>5. QED
    BY <1>1, <1>4, <2>1, <2>2, <2>3, <2>4 DEF InOrder, QueueInOrder
<1>6. WorkerWrites' => PendingNext(worker'.job.n) /\ (FdcWrites' => worker'.job.n <= task'["fdc"].job.n)
  <2> SUFFICES ASSUME WorkerWrites'
               PROVE  PendingNext(worker'.job.n) /\ (FdcWrites' => worker'.job.n <= task'["fdc"].job.n)
    OBVIOUS
  <2>1. WriteQueued(1) /\ worker'.job = rq[1] /\ Pending(rq[1].n) /\ rq[1].n \in Nat /\ written \in Nat
    BY <1>2, <1>3, WriteNumbers DEF InOrder, QueueInOrder
  <2>2. PendingNext(rq[1].n)
    BY <2>1, PendingKept
  <2>3. PendingNext(worker'.job.n)
    BY <2>1, <2>2
  <2>4. QED
    BY <1>1, <1>2, <1>4, <2>1, <2>3 DEF InOrder, QueueInOrder
<1>7. FdcWrites' => PendingNext(task'["fdc"].job.n)
  BY <1>1, <1>4, WriteNumbers, PendingKept DEF InOrder
<1>8. QED
  BY <1>1, <1>5, <1>6, <1>7 DEF InOrder, OnlyFdcWrites, Pending, PendingNext

(* disk_write_track issues the next write.                                 *)
LEMMA InOrderIssued ==
  ASSUME CoreInv, Contained, InOrder, RemoteWriteIssued
  PROVE  InOrder'
<1>1. PICK d \in Drives, r \in Requests : WriteRemote(d, r[1], r[2])
  BY DEF RemoteWriteIssued
<1>2. PICK s : /\ s = [pc |-> "post", job |-> Job("WRITE", "fdc", d, <<r[1], r[2]>>, NextWrite)]
               /\ Become("fdc", s) /\ task["fdc"].pc = "idle" /\ written' = NextWrite
               /\ UNCHANGED <<rq, worker, acked>>
  BY <1>1 DEF WriteRemote, Idle, jobs
<1>3. task'["fdc"] = s /\ \A o \in Tasks : o # "fdc" => task'[o] = task[o]
  BY <1>2, TaskNames, TasksMove DEF CoreInv
<1>4. s.pc = "post" /\ s.job.type = "WRITE" /\ s.job.n = NextWrite
  BY <1>2 DEF Job
<1>5. written \in Nat /\ NextWrite = written + 1
  BY WriteNumbers DEF NextWrite
<1>6. NoRemoteAck
  BY <1>2, <1>5 DEF NoRemoteAck
<1>7. (WorkerWrites' <=> WorkerWrites) /\ (\A i \in 1 .. Len(rq) : WriteQueued(i)' <=> WriteQueued(i))
  BY <1>2 DEF WorkerWrites, WriteQueued
<1>8. \A n \in Nat : Pending(n) => PendingNext(n) /\ n <= NextWrite
  BY <1>5, <1>6, PendingKept DEF Pending
<1>9. PendingNext(NextWrite)
  <2>1. \A img \in Images, x \in Cells : acked[img][x] \in Nat /\ acked[img][x] <= written
    BY DEF Contained, Contents
  <2>2. QED
    BY <1>2, <1>5, <2>1, ImageNames DEF PendingNext
<1>10. FdcWrites' /\ task'["fdc"].job.n = NextWrite
  BY <1>3, <1>4 DEF FdcWrites
<1>11. QueueInOrder'
  <2> SUFFICES ASSUME NEW i \in 1 .. Len(rq), WriteQueued(i)
               PROVE  /\ PendingNext(rq[i].n)
                      /\ \A k \in 1 .. Len(rq) : WriteQueued(k) /\ i < k => rq[i].n <= rq[k].n
                      /\ WorkerWrites => worker.job.n <= rq[i].n
                      /\ rq[i].n <= NextWrite
    BY <1>2, <1>7, <1>10 DEF QueueInOrder, Pending, PendingNext
  <2>1. QED
    BY <1>8, WriteNumbers DEF InOrder, QueueInOrder
<1>12. WorkerWrites' => PendingNext(worker'.job.n) /\ (FdcWrites' => worker'.job.n <= task'["fdc"].job.n)
  BY <1>2, <1>7, <1>8, <1>10, WriteNumbers DEF InOrder
<1>13. OnlyFdcWrites'
  BY <1>3 DEF InOrder, OnlyFdcWrites
<1>14. QED
  BY <1>9, <1>10, <1>11, <1>12, <1>13 DEF InOrder, Pending, PendingNext

(* The worker reports a write that it made.                                *)
LEMMA InOrderAcked ==
  ASSUME CoreInv, InOrder, StoreTrack, worker.job.type = "WRITE", SameFdcWrite, OnlyFdcWrites',
         \A img \in RemoteImages, x \in Cells : acked'[img][x] \in Nat /\ acked'[img][x] <= worker.job.n
  PROVE  InOrder'
<1>1. rq' = rq /\ worker'.pc = "idle" /\ written' = written /\ WorkerWrites
  BY DEF StoreTrack, Complete, Work, IdleWorker, WorkerWrites
<1>2. worker.job.n \in Nat /\ written \in Nat
  BY <1>1, WriteNumbers
<1>3. \A n \in Nat : worker.job.n <= n /\ n <= written => PendingNext(n)
  BY <1>1, <1>2 DEF PendingNext
<1>4. \A i \in 1 .. Len(rq) : WriteQueued(i) => worker.job.n <= rq[i].n /\ rq[i].n <= written /\ rq[i].n \in Nat
  BY <1>1, WriteNumbers DEF InOrder, QueueInOrder, Pending
<1>5. FdcWrites => worker.job.n <= task["fdc"].job.n /\ task["fdc"].job.n <= written /\ task["fdc"].job.n \in Nat
  BY <1>1, WriteNumbers DEF InOrder, Pending
<1>6. ~WorkerWrites'
  BY <1>1 DEF WorkerWrites
<1>7. QueueInOrder'
  <2> SUFFICES ASSUME NEW i \in 1 .. Len(rq), WriteQueued(i)
               PROVE  /\ PendingNext(rq[i].n)
                      /\ \A k \in 1 .. Len(rq) : WriteQueued(k) /\ i < k => rq[i].n <= rq[k].n
                      /\ FdcWrites' => rq[i].n <= task'["fdc"].job.n
    BY <1>1, <1>6 DEF QueueInOrder, WriteQueued, Pending, PendingNext
  <2>1. QED
    BY <1>3, <1>4 DEF InOrder, QueueInOrder, SameFdcWrite
<1>8. FdcWrites' => PendingNext(task'["fdc"].job.n)
  BY <1>3, <1>5 DEF SameFdcWrite
<1>9. QED
  BY <1>6, <1>7, <1>8 DEF InOrder, Pending, PendingNext

LEMMA InOrderNone ==
  ASSUME rq' = <<>>, worker'.pc = "idle", \A c \in Tasks : task'[c].pc = "idle"
  PROVE  InOrder'
<1>1. Len(rq') = 0 /\ ~WorkerWrites' /\ ~FdcWrites'
  BY TaskNames DEF WorkerWrites, FdcWrites
<1>2. QED
  BY <1>1 DEF InOrder, QueueInOrder, OnlyFdcWrites

(* What the worker's record says of a step that leaves the queue alone.    *)
LEMMA WorkerWriteKept ==
  ASSUME CoreInv, [Next]_vars, ~Receive
  PROVE  SameWorkerWrite
<1>1. Shapes /\ Awaited /\ Session
  BY DEF CoreInv
<1>2. CASE worker' = worker
  BY <1>2 DEF SameWorkerWrite, WorkerWrites
<1>3. CASE EndStep \/ Restart
  BY <1>3 DEF EndStep, Restart, IdleWorker, SameWorkerWrite, WorkerWrites
<1>4. CASE GoOnStep
  BY <1>1, <1>4 DEF GoOnStep, SameWorkerWrite, WorkerWrites, Shapes, WorkerState, MountJobs
<1>5. ASSUME NEW c \in Tasks, WaitExpires(c) PROVE SameWorkerWrite
  <2>1. worker'.pc = worker.pc /\ (worker.pc # "idle" => worker'.job = Orphan(worker.job, c))
    BY <1>1, <1>5, ExpiryEffect
  <2>2. worker.pc # "idle" => worker.job \in AllJobs
    BY <1>1, WorkerFields
  <2>3. QED
    BY <2>1, <2>2, OrphanFields DEF SameWorkerWrite, WorkerWrites
<1>6. Worker => EndStep \/ GoOnStep
  BY <1>1, EndSteps, GoOnSteps DEF Worker
<1>7. QED
  BY <1>2, <1>3, <1>4, <1>5, <1>6, WorkerMoves

LEMMA InOrderStep ==
  ASSUME CoreInv, Contained, InOrder, [Next]_vars
  PROVE  InOrder'
<1>1. CASE RemoteWriteIssued
  BY <1>1, InOrderIssued
<1>2. CASE Restart
  BY <1>2, InOrderNone, IdleState DEF Restart, IdleWorker
<1>3. CASE ~RemoteWriteIssued /\ StoreTrack /\ worker.job.type = "WRITE" /\ acked' # acked
  <2>1. /\ worker.pc = "store" /\ Ack(ImageOf(worker.b), worker.job.track, worker.job.len, worker.job.n)
    BY <1>3 DEF StoreTrack, Complete
  <2>2. ImageOf(worker.b) \in Images /\ worker.job.n \in 0 .. MaxWrites
    BY <2>1, SessionImage, StoreHasSession
  <2>3. /\ acked' \in [Images -> Contents]
        /\ \A i \in Images : i # ImageOf(worker.b) => acked'[i] = acked[i]
        /\ \A x \in Cells : acked'[ImageOf(worker.b)][x] =
              IF x \in CellsOf(worker.job.track, worker.job.len) THEN worker.job.n ELSE acked[ImageOf(worker.b)][x]
    BY <2>1, <2>2, AckEffect DEF Contained
  <2>4. \A img \in RemoteImages, x \in Cells : acked[img][x] <= worker.job.n
    BY <1>3, <2>1 DEF InOrder, WorkerWrites, Pending
  <2>5. \A img \in RemoteImages, x \in Cells : acked'[img][x] \in Nat
    BY <2>3, ImageNames DEF Contents
  <2>6. \A img \in RemoteImages, x \in Cells : acked'[img][x] <= worker.job.n
    BY <2>2, <2>3, <2>4, ImageNames
  <2>7. QED
    BY <1>3, <2>5, <2>6, InOrderAcked, NoWriteIssued
<1>4. CASE ~RemoteWriteIssued /\ ~Restart /\ ~(StoreTrack /\ worker.job.type = "WRITE" /\ acked' # acked)
  <2>1. OnlyFdcWrites' /\ SameFdcWrite
    BY <1>4, NoWriteIssued
  <2>2. NoRemoteAck
    <3>1. \A img \in RemoteImages : acked'[img] = acked[img]
      <4>1. CASE acked' = acked
        BY <4>1
      <4>2. CASE LocalWriteDone
        <5>1. PICK d \in Drives, r \in Requests : WriteLocal(d, r[1], r[2])
          BY <4>2 DEF LocalWriteDone
        <5>2. PICK img : img = ImageOf(drv[d].backing)
          OBVIOUS
        <5>3. img \in Images /\ img \notin RemoteImages /\ NextWrite \in 0 .. MaxWrites
              /\ Ack(img, r[1], r[2], NextWrite)
          BY <5>1, <5>2, LocalWrite DEF WriteLocal
        <5>4. \A i \in Images : i # img => acked'[i] = acked[i]
          BY <5>3, AckEffect DEF Contained
        <5>5. QED
          BY <5>3, <5>4, ImageNames
      <4>3. QED
        BY <1>4, <4>1, <4>2, AcksMove
    <3>2. written \in Nat /\ (written' = written \/ written' = written + 1)
      BY CountMoves, WriteNumbers DEF LocalWriteDone, LocalWriteFailed, RemoteWriteIssued,
         WriteLocal, WriteLocalFails, WriteRemote, NextWrite
    <3>3. QED
      BY <3>1, <3>2 DEF NoRemoteAck
  <2>3. CASE Receive
    BY <2>2, <2>3, InOrderReceived
  <2>4. CASE ~Receive /\ rq' = rq
    BY <2>1, <2>2, <2>4, WorkerWriteKept, InOrderKept
  <2>5. ASSUME NEW c \in Tasks, WaitExpires(c) PROVE InOrder'
    <3>1. Len(rq') = Len(rq) /\ \A i \in 1 .. Len(rq) : rq[i] \in AllJobs /\ rq'[i] = Orphan(rq[i], c)
      BY <2>5, ExpiryEffect DEF CoreInv
    <3>2. \A i \in 1 .. Len(rq) : rq'[i].type = rq[i].type /\ (WriteQueued(i) => rq'[i].n = rq[i].n)
      BY <3>1, OrphanFields DEF WriteQueued
    <3>3. ~Receive
      BY <2>5 DEF WaitExpires, Receive, Become, CoreInv, Shapes, TasksOK, IdleTask
    <3>4. QED
      BY <2>1, <2>2, <3>1, <3>2, <3>3, WorkerWriteKept, InOrderKept
  <2>6. ASSUME NEW c \in Tasks, PostWait(c) PROVE InOrder'
    <3>1. /\ Shapes' /\ task[c].job \in AllJobs /\ task[c].job.by = c
          /\ task'[c] = [pc |-> "wait", job |-> task[c].job]
          /\ \A o \in Tasks : o # c => task'[o] = task[o]
      BY <2>6, ShapesPostWait DEF CoreInv
    <3>2. task[c].pc = "post" /\ rq' = Append(rq, task[c].job) /\ worker' = worker
      BY <2>6 DEF PostWait
    <3>3. PICK j : j = task[c].job
      OBVIOUS
    <3>4. j.type = "WRITE" => FdcWrites /\ j.n = task["fdc"].job.n /\ ~FdcWrites'
      BY <3>1, <3>2, <3>3 DEF InOrder, OnlyFdcWrites, FdcWrites
    <3>5. QED
      BY <2>1, <2>2, <3>1, <3>2, <3>3, <3>4, InOrderAppended
  <2>7. ASSUME NEW b \in Backings, HandToWorker(b), worker' = worker, rq' # rq PROVE InOrder'
    <3>1. PICK j : j = CloseJob(b)
      OBVIOUS
    <3>2. rq' = Append(rq, j) /\ j \in AllJobs /\ j.type # "WRITE"
      BY <2>7, <3>1, HandEffect DEF CoreInv, CloseJob
    <3>3. QED
      BY <2>1, <2>2, <2>7, <3>2, InOrderAppended
  <2>8. ASSUME NEW c \in Tasks, Dispose(c), rq' # rq PROVE InOrder'
    <3>1. task[c].b \in Backings /\ HandToWorker(task[c].b) /\ worker' = worker
      BY <2>8, DisposeEffect DEF CoreInv
    <3>2. QED
      BY <2>7, <2>8, <3>1
  <2>9. CASE EvtDispose /\ rq' # rq
    <3>1. PICK b \in evt.close : HandToWorker(b)
      BY <2>9 DEF EvtDispose
    <3>2. b \in Backings /\ worker' = worker
      BY <2>9 DEF EvtDispose, CoreInv, Shapes, EvtState
    <3>3. QED
      BY <2>7, <2>9, <3>1, <3>2
  <2>10. CASE ScanPost /\ rq' # rq
    <3>1. PICK j : j = MountJob("none", evt.drive)
      OBVIOUS
    <3>2. rq' = Append(rq, j) /\ worker' = worker
      BY <2>10, <3>1 DEF ScanPost
    <3>3. j \in AllJobs /\ j.type # "WRITE"
      BY <2>10, <3>1 DEF ScanPost, MountJob, Job, AllJobs, MountJobs, CoreInv, Shapes, EvtState
    <3>4. QED
      BY <2>1, <2>2, <3>2, <3>3, InOrderAppended
  <2>11. QED
    BY <1>4, <2>3, <2>4, <2>5, <2>6, <2>8, <2>9, <2>10, QueueMoves
<1>5. QED
  BY <1>1, <1>2, <1>3, <1>4

-----------------------------------------------------------------------------
(* The invariant of the contents.                                          *)

LEMMA DataStep ==
  ASSUME CoreInv, DataInv, [Next]_vars
  PROVE  DataInv'
BY ContainedStep, InOrderStep, StageStep, CacheTypedStep DEF DataInv

LEMMA DataInvariant == Spec => []DataInv
<1>1. Init => DataInv
  <2> SUFFICES ASSUME Init PROVE DataInv
    OBVIOUS
  <2>1. rq = <<>> /\ worker.pc = "idle" /\ (\A c \in Tasks : task[c].pc = "idle") /\ ~cache.valid
        /\ written = 0 /\ acked = store /\ store = [i \in Images |-> [x \in Cells |-> 0]]
    BY IdleState DEF Init, IdleWorker, NoCache
  <2>2. InOrder
    BY <2>1, TaskNames DEF InOrder, QueueInOrder, OnlyFdcWrites, WorkerWrites, FdcWrites
  <2>3. Contained
    BY <2>1, DiskAssumption DEF Contained, AckedWriteStays, Contents
  <2>4. QED
    BY <2>1, <2>2, <2>3 DEF DataInv, Stage, CacheTyped
<1>2. CoreInv /\ DataInv /\ [Next]_vars => DataInv'
  BY DataStep
<1>3. QED
  BY <1>1, <1>2, CoreInvariant, PTL DEF Spec

-----------------------------------------------------------------------------
(* The cache, where no image is mounted on two drives.                     *)

(* No image is configured twice, no other drive has the image that a       *)
(* console is about to swap in, or the image that the worker works on.     *)
NamedOnce == \A d, e \in Drives : drv[d].name = drv[e].name => d = e \/ drv[d].name = NoName
OpenedAlone ==
    \A c \in Tasks : task[c].pc = "opened" =>
        \A e \in Drives : drv[e].name = task[c].img => e = task[c].drive
SessionAlone ==
    worker.pc \in {"picked", "store", "drop"} /\ worker.b # NoBacking =>
        \A d \in Drives : drv[d].mounted /\ drv[d].name = ImageOf(worker.b) =>
            d = worker.job.drive /\ drv[d].backing = worker.b
Unique == NamedOnce /\ OpenedAlone /\ SessionAlone

(* The cached track holds every acknowledged write of the mounted image.   *)
Fresh ==
    cache.valid =>
        \A i \in 0 .. (cache.len - 1) :
            cache.data[i] >=
                acked[drv[cache.drive].name][disk_track_offset(cache.track, cache.len) + i]

CacheInv == Unique /\ CacheCoherent /\ Fresh

(* How a slot changes, but for a restart.                                  *)
Configures(c, d) == \E url \in RemoteImages : RemoteConfigure(c, d, url)
SlotsFade ==
    \A d \in Drives :
        /\ drv'[d].name \in {drv[d].name, NoName}
        /\ drv'[d].mounted => drv'[d] = drv[d]

LEMMA SlotsMove ==
  ASSUME CoreInv, [Next]_vars
  PROVE  \/ Restart \/ Install \/ SlotsFade
         \/ \E c \in Consoles, d \in Drives : Configures(c, d)
         \/ \E c \in Tasks : MountSwap(c)
<1>1. Shapes /\ Table
  BY DEF CoreInv
<1>2. drv' = drv => SlotsFade
  BY DEF SlotsFade
<1>3. CASE \E c \in Readers : ReadCall(c)
  <2>1. \A c, d, t, l : ReadHit(c, d, t, l) \/ ReadLocalFails(c, d, t, l) \/ ReadRemote(c, d, t, l)
                          => drv' = drv
    BY DEF ReadHit, ReadLocalFails, ReadRemote, table
  <2>2. \A c, d, t, l : ReadLocal(c, d, t, l) => drv' = drv
    BY DEF ReadLocal
  <2>3. QED
    BY <1>2, <1>3, <2>1, <2>2 DEF ReadCall
<1>4. CASE \E c \in Tasks : CallStep(c)
  BY <1>2, <1>4 DEF CallStep, PostWait, PostFails, WaitExpires, ReadDone, ReadReturns, Dispose,
                    RemoteConnect, MountUnlock, table
<1>5. CASE WriteCall
  BY <1>2, <1>5 DEF WriteCall, WriteLocal, WriteLocalFails, WriteRemote, table
<1>6. CASE \E c \in Consoles : MountCall(c)
  <2>1. PICK c \in Consoles, d \in Drives :
          \/ \E url \in RemoteImages : RemoteConfigure(c, d, url)
          \/ \E img \in LocalImages : MountOpen(c, d, img)
          \/ MountFails(c, d) \/ UnmountDo(c, d)
    BY <1>6 DEF MountCall
  <2>2. CASE \E img \in LocalImages : MountOpen(c, d, img)
    BY <1>2, <2>2 DEF MountOpen, table
  <2>3. CASE MountFails(c, d) \/ UnmountDo(c, d)
    <3>1. drv' = [drv EXCEPT ![d] = EmptySlot]
      BY <2>3 DEF MountFails, UnmountDo, Unmount
    <3>2. QED
      BY <1>1, <3>1, SlotFields DEF Shapes, SlotsFade
  <2>4. QED
    BY <2>1, <2>2, <2>3 DEF Configures
<1>7. CASE Worker
  BY <1>2, <1>7 DEF Worker, Receive, Lookup, NotReady, FetchTrack, FetchFails, SendTrack, SendFails,
         StoreTrack, DropTrack, WantMount, MountOffline, OpenSession, OpenFails,
         Mismatch, Discard, CloseSession, table
<1>8. CASE Event
  <2>1. CASE RemoteUnmountAll
    BY <1>1, <2>1, UnmountAllEffect, SlotFields DEF SlotsFade
  <2>2. CASE ~RemoteUnmountAll
    BY <1>2, <1>8, <2>2 DEF Event, LinkLost, OnDisconnected, EvtDispose, OnGotIp, ScanDrive, ScanPost, table
  <2>3. QED
    BY <2>1, <2>2
<1>9. CASE UNCHANGED vars
  BY <1>2, <1>9 DEF vars
<1>10. QED
  BY <1>3, <1>4, <1>5, <1>6, <1>7, <1>8, <1>9 DEF Next

LEMMA ConfigureEffect ==
  ASSUME Shapes, NEW c \in Consoles, NEW d \in Drives, NEW url \in RemoteImages,
         RemoteConfigure(c, d, url)
  PROVE  /\ drv'[d].name = url /\ ~drv'[d].mounted /\ \A e \in Drives : e # d => drv'[e] = drv[e]
         /\ Shared \/ \A e \in Drives \ {d} : drv[e].name # url
         /\ task[c].pc = "idle" /\ mlock \in {"none", c}
<1>1. drv' = [drv EXCEPT ![d] = RemoteSlot(url)] /\ MayMount(url, d) /\ MountFree(c) /\ Idle(c)
  BY DEF RemoteConfigure
<1>2. QED
  BY <1>1, SlotFields DEF Shapes, MayMount, MountFree, Idle

LEMMA NamedOnceStep ==
  ASSUME CoreInv, ~Shared, NamedOnce, OpenedAlone, [Next]_vars
  PROVE  NamedOnce'
<1>1. Shapes /\ Session
  BY DEF CoreInv
<1>2. CASE Restart
  <2>1. PICK cfg \in BootConfigs : \E f \in BootBackings(cfg) :
          drv' = BootDrives(cfg, f) /\ heap' = BootHeap(cfg, f)
    BY <1>2 DEF Restart
  <2>2. PICK f \in BootBackings(cfg) : drv' = BootDrives(cfg, f) /\ heap' = BootHeap(cfg, f)
    BY <2>1
  <2>3. QED
    BY <2>2, BootEffect DEF NamedOnce
<1>3. CASE Install
  <2>1. \A d \in Drives : drv'[d].name = drv[d].name
    BY <1>1, <1>3, InstallEffect
  <2>2. QED
    BY <2>1 DEF NamedOnce
<1>4. CASE SlotsFade
  BY <1>4 DEF SlotsFade, NamedOnce
<1>5. CASE \E c \in Consoles, d \in Drives : Configures(c, d)
  <2>1. PICK c \in Consoles, d \in Drives, url \in RemoteImages : RemoteConfigure(c, d, url)
    BY <1>5 DEF Configures
  <2>2. QED
    BY <1>1, <2>1, ConfigureEffect DEF NamedOnce
<1>6. CASE \E c \in Tasks : MountSwap(c)
  <2>1. PICK c \in Tasks : MountSwap(c)
    BY <1>6
  <2>2. PICK d : d = task[c].drive
    OBVIOUS
  <2>3. /\ d \in Drives /\ task[c].pc = "opened" /\ \A e \in Drives : e # d => drv'[e] = drv[e]
        /\ drv'[d].name = task[c].img
    BY <1>1, <2>1, <2>2, SwapEffect, SlotFields DEF TakeStep
  <2>4. QED
    BY <2>2, <2>3 DEF NamedOnce, OpenedAlone
<1>7. QED
  BY <1>2, <1>3, <1>4, <1>5, <1>6, SlotsMove

(* The mount lock keeps the other consoles from the table.                 *)
LEMMA OpenedAloneStep ==
  ASSUME CoreInv, ~Shared, OpenedAlone, [Next]_vars
  PROVE  OpenedAlone'
<1>1. Shapes /\ Session /\ Locked
  BY DEF CoreInv
<1>2. CASE FileOpened
  <2>1. PICK c \in Consoles, d \in Drives, img \in LocalImages : MountOpen(c, d, img)
    BY <1>2 DEF FileOpened
  <2>2. PICK b \in Backings :
           /\ heap[b] = NoName /\ heap'[b] = [img |-> img, ro |-> FALSE]
           /\ \A x \in Backings : x # b => heap'[x] = heap[x]
           /\ task[c].pc = "idle" /\ task'[c] = [pc |-> "opened", b |-> b, drive |-> d, img |-> img]
           /\ \A o \in Tasks : o # c => task'[o] = task[o]
           /\ UNCHANGED <<drv, rq, worker, evt, leaked, disc, link>> /\ mlock = "none" /\ mlock' = c
    BY <1>1, <2>1, OpenEffect
  <2>3. \A e \in Drives : drv[e].name = img => e = d
    BY <2>1 DEF MountOpen, MayMount
  <2>4. QED
    BY <2>2, <2>3 DEF OpenedAlone
<1>3. CASE ~FileOpened
  <2>1. \A o \in Tasks : task'[o].pc = "opened" => task'[o] = task[o]
    <3>1. ~RemoteWriteIssued => PlainMoves
      BY <1>3, OtherwisePlain
    <3>2. RemoteWriteIssued => \A o \in Tasks : task'[o] = task[o] \/ task'[o].pc = "post"
      <4> SUFFICES ASSUME RemoteWriteIssued PROVE \A o \in Tasks : task'[o] = task[o] \/ task'[o].pc = "post"
        OBVIOUS
      <4>1. PICK s : Become("fdc", s) /\ s.pc = "post"
        BY DEF RemoteWriteIssued, WriteRemote
      <4>2. QED
        BY <1>1, <4>1, TasksMove, TaskNames
    <3>3. QED
      BY <3>1, <3>2 DEF PlainMoves, Plain
  <2> SUFFICES ASSUME NEW c \in Tasks, task'[c].pc = "opened", NEW e \in Drives, drv'[e].name = task[c].img
               PROVE  e = task[c].drive
    BY <2>1 DEF OpenedAlone
  <2>2. task[c].pc = "opened" /\ mlock = c /\ task[c].img # NoName /\ task[c].img \in LocalImages
    BY <1>1, <2>1, ImageNames DEF Locked, Holds, Shapes, TasksOK, TaskState
  <2>3. drv[e].name = task[c].img => e = task[c].drive
    BY <2>2 DEF OpenedAlone
  <2>4. CASE Restart
    BY <2>4 DEF Restart, IdleTask
  <2>5. CASE Install
    BY <1>1, <2>3, <2>5, InstallEffect
  <2>6. CASE SlotsFade
    BY <2>2, <2>3, <2>6 DEF SlotsFade
  <2>7. CASE \E o \in Consoles, d \in Drives : Configures(o, d)
    <3>1. PICK o \in Consoles, d \in Drives, url \in RemoteImages : RemoteConfigure(o, d, url)
      BY <2>7 DEF Configures
    <3>2. QED
      BY <1>1, <2>2, <3>1, ConfigureEffect, TaskNames
  <2>8. CASE \E o \in Tasks : MountSwap(o)
    <3>1. PICK o \in Tasks : MountSwap(o)
      BY <2>8
    <3>2. o = c
      BY <1>1, <2>2, <3>1, SwapEffect DEF Locked, Holds
    <3>3. task'[c].pc # "opened"
      BY <1>1, <3>1, <3>2, SwapEffect DEF TakeStep, Quiet
    <3>4. QED
      BY <3>3
  <2>9. QED
    BY <2>4, <2>5, <2>6, <2>7, <2>8, SlotsMove
<1>4. QED
  BY <1>2, <1>3

(* No step makes a drive ready with the image of a transfer.               *)
LEMMA NoOtherComes ==
  ASSUME CoreInv, [Next]_vars, SameTransfer, worker.pc \in {"picked", "store", "drop"},
         NEW d \in Drives, drv'[d].mounted, drv'[d].name \in RemoteImages
  PROVE  drv'[d] = drv[d]
<1>1. Shapes /\ Session
  BY DEF CoreInv
<1>2. ~Restart
  BY DEF Restart, SameTransfer, IdleWorker
<1>6. ~Install
  BY DEF Install
<1>3. CASE \E c \in Consoles, x \in Drives : Configures(c, x)
  <2>1. PICK c \in Consoles, x \in Drives, url \in RemoteImages : RemoteConfigure(c, x, url)
    BY <1>3 DEF Configures
  <2>2. QED
    BY <1>1, <2>1, ConfigureEffect
<1>4. CASE \E c \in Tasks : MountSwap(c)
  <2>1. PICK c \in Tasks : MountSwap(c)
    BY <1>4
  <2>2. PICK x : x = task[c].drive
    OBVIOUS
  <2>3. /\ \A e \in Drives : e # x => drv'[e] = drv[e]
        /\ x \in Drives /\ drv'[x].name \in LocalImages
    BY <1>1, <2>1, <2>2, SwapEffect, SlotFields DEF TakeStep
  <2>4. QED
    BY <2>3, ImageNames
<1>5. QED
  BY <1>2, <1>6, <1>3, <1>4, SlotsMove DEF SlotsFade

LEMMA SessionAloneStep ==
  ASSUME CoreInv, NamedOnce, SessionAlone, [Next]_vars
  PROVE  SessionAlone'
<1> SUFFICES ASSUME worker'.pc \in {"picked", "store", "drop"}, worker'.b # NoBacking,
                    NEW d \in Drives, drv'[d].mounted, drv'[d].name = heap'[worker'.b].img
             PROVE  d = worker'.job.drive /\ drv'[d].backing = worker'.b
  BY DEF SessionAlone, ImageOf
<1>1. CASE Lookup
  <2>1. PICK j, b : /\ j = worker.job /\ worker' = [pc |-> "picked", job |-> j, b |-> b]
                    /\ b # NoBacking => drv[j.drive].mounted /\ b = drv[j.drive].backing
                    /\ UNCHANGED <<drv, heap>> /\ worker.pc = "got" /\ j.type \in {"READ", "WRITE"}
    BY <1>1 DEF Lookup, Continue, Work, table, files
  <2>2. j.drive \in Drives
    BY <2>1, WorkerFields, JobFields DEF CoreInv, IoJobs
  <2>3. drv[j.drive].name = drv[d].name /\ drv[d].name # NoName
    BY <2>1, <2>2, DriveImage, ImageNames DEF ImageOf
  <2>4. QED
    BY <2>1, <2>2, <2>3 DEF NamedOnce
<1>2. CASE FetchTrack \/ SendTrack \/ SendFails
  <2>1. UNCHANGED <<drv, heap>> /\ worker.pc = "picked" /\ worker.b # NoBacking
    BY <1>2 DEF FetchTrack, SendTrack, SendFails, Usable, table, files
  <2>2. worker'.b = worker.b /\ worker'.job = worker.job
    BY <1>2 DEF FetchTrack, SendTrack, SendFails, Continue, Work
  <2>3. QED
    BY <2>1, <2>2 DEF SessionAlone, ImageOf
<1>3. CASE SameTransfer
  <2>1. /\ worker.pc \in {"picked", "store", "drop"} /\ worker.b # NoBacking
        /\ worker'.b = worker.b /\ worker'.job.drive = worker.job.drive
    BY <1>3 DEF SameTransfer
  <2>2. heap'[worker.b] = heap[worker.b] /\ ImageOf(worker.b) \in RemoteImages
    BY <1>3, <2>1, SessionStays, SessionImage
  <2>3. drv'[d] = drv[d]
    BY <1>3, <2>1, <2>2, NoOtherComes DEF ImageOf
  <2>4. QED
    BY <2>1, <2>2, <2>3 DEF SessionAlone, ImageOf
<1>4. QED
  BY <1>1, <1>2, <1>3, TransferMoves

(* How a transfer ends.                                                    *)
LEMMA TransferEnds ==
  ASSUME CoreInv, [Next]_vars, worker.pc \in {"store", "drop"}
  PROVE  SameTransfer \/ StoreTrack \/ DropTrack \/ Restart
<1>1. CASE \E c \in Tasks : WaitExpires(c)
  BY <1>1, TransferExpires DEF CoreInv
<1>2. CASE Worker
  BY <1>2 DEF Worker, Receive, Lookup, NotReady, FetchTrack, FetchFails, SendTrack, SendFails, Usable,
              WantMount, MountOffline, OpenSession, OpenFails, Install, Mismatch, Discard, CloseSession
<1>3. CASE worker' = worker
  BY <1>3 DEF SameTransfer
<1>4. QED
  BY <1>1, <1>2, <1>3, WorkerMoves

(* A cached track that is the track of the mounted image is also fresh.    *)
CacheIsTrack ==
    cache.valid =>
        cache.data = TrackOf(ImageOf(drv[cache.drive].backing), cache.track, cache.len)

LEMMA TrackIsFresh == CoreInv /\ Contained /\ CacheTyped /\ CacheIsTrack => CacheCoherent /\ Fresh
<1> SUFFICES ASSUME CoreInv, Contained, CacheTyped, CacheIsTrack, cache.valid
             PROVE  CacheCoherent /\ Fresh
  BY DEF CacheCoherent, Fresh
<1>1. PICK img : img = ImageOf(drv[cache.drive].backing)
  OBVIOUS
<1>2. img \in Images /\ img = drv[cache.drive].name /\ drv[cache.drive].mounted
  BY <1>1, DriveImage DEF CacheTyped
<1>3. cache.data = TrackOf(img, cache.track, cache.len)
  BY <1>1 DEF CacheIsTrack
<1>4. /\ cache.track \in UInt32 /\ cache.len \in 1 .. BufSize
      /\ disk_track_in_bounds(cache.track, cache.len, ImageSize)
  BY DEF CacheTyped
<1>5. PICK off : off = disk_track_offset(cache.track, cache.len)
  OBVIOUS
<1>6. \A i \in 0 .. (cache.len - 1) : cache.data[i] = store[img][off + i]
  BY <1>3, <1>5 DEF TrackOf
<1>7. \A i \in 0 .. (cache.len - 1) : off + i \in Cells
  BY <1>4, <1>5, TrackInImage
<1>8. Fresh
  BY <1>2, <1>5, <1>6, <1>7 DEF Fresh, Contained, AckedWriteStays
<1>9. QED
  BY <1>1, <1>2, <1>3, <1>8 DEF CacheCoherent

(* A transfer to the image of the cached track, not yet reflected in the   *)
(* cache.                                                                  *)
LEMMA StillFresh ==
  ASSUME Fresh, CacheTyped, CacheKept, acked' = acked, cache.valid
  PROVE  Fresh'
BY DEF Fresh, CacheKept, CacheTyped

LEMMA KeptInFlight ==
  ASSUME CoreInv, DataInv, CacheInv, [Next]_vars, cache'.valid, CacheKept, ~LocalWriteDone, ~StoresTrack,
         NEW img, img = drv[cache.drive].name, WriteInFlight(img)
  PROVE  Fresh' /\ WriteInFlight(img)'
<1>1. cache.valid /\ CacheTyped /\ cache.drive \in Drives /\ drv[cache.drive].mounted
  BY DEF CacheKept, DataInv, CacheTyped
<1>2. /\ worker.pc \in {"store", "drop"} /\ worker.job.type = "WRITE" /\ ImageOf(worker.b) = img
      /\ worker.b # NoBacking
  BY StoreHasSession DEF WriteInFlight
<1>3. cache.drive = worker.job.drive /\ drv[cache.drive].backing = worker.b
  BY <1>1, <1>2 DEF CacheInv, Unique, SessionAlone
<1>4. ~StoreTrack
  BY <1>1, <1>3 DEF StoresTrack
<1>5. ~DropTrack /\ ~Restart
  <2>1. DropTrack => ~cache'.valid
    BY <1>1, <1>3 DEF DropTrack, cache_drop_drive, NoCache
  <2>2. Restart => ~cache'.valid
    BY DEF Restart, NoCache
  <2>3. QED
    BY <2>1, <2>2
<1>6. SameTransfer
  BY <1>2, <1>4, <1>5, TransferEnds
<1>7. heap'[worker.b] = heap[worker.b]
  BY <1>2, <1>6, SessionStays
<1>8. WriteInFlight(img)'
  BY <1>2, <1>6, <1>7 DEF WriteInFlight, SameTransfer, ImageOf
<1>9. acked' = acked
  BY <1>4, AcksMove
<1>10. QED
  BY <1>1, <1>8, <1>9, StillFresh DEF CacheInv

LEMMA KeptTrack ==
  ASSUME CoreInv, DataInv, CacheInv, [Next]_vars, cache'.valid, CacheKept, ~LocalWriteDone,
         NEW img, img = drv[cache.drive].name, store'[img] # store[img]
  PROVE  Fresh' /\ WriteInFlight(img)'
<1>1. cache.valid /\ CacheTyped /\ cache.drive \in Drives /\ drv[cache.drive].mounted
  BY DEF CacheKept, DataInv, CacheTyped
<1>2. img \in Images /\ img # NoName
  BY <1>1, DriveImage, ImageNames
<1>3. ~LocalWriteFailed
  <2>1. SUFFICES ASSUME NEW d \in Drives, NEW r \in Requests, WriteLocalFails(d, r[1], r[2])
                 PROVE  FALSE
    BY DEF LocalWriteFailed
  <2>2. PICK x, part : x = ImageOf(drv[d].backing) /\ store' = WriteCells(x, part, NextWrite)
    BY <2>1 DEF WriteLocalFails
  <2>3. x = drv[d].name
    BY <2>1, <2>2, LocalWrite
  <2>4. x = img
    BY <2>2 DEF WriteCells, DataInv, Contained
  <2>5. d = cache.drive
    BY <1>1, <1>2, <2>3, <2>4 DEF CacheInv, Unique, NamedOnce
  <2>6. QED
    BY <1>1, <2>1, <2>5 DEF WriteLocalFails, cache_drop_drive, NoCache
<1>4. SendTrack \/ SendFails
  BY <1>3, ImagesMove
<1>5. PICK x, part : x = ImageOf(worker.b) /\ store' = WriteCells(x, part, worker.job.n)
  BY <1>4 DEF SendTrack, SendFails
<1>6. x = img
  BY <1>5 DEF WriteCells, DataInv, Contained
<1>7. acked' = acked /\ heap' = heap /\ worker.job.type = "WRITE"
  BY <1>4 DEF SendTrack, SendFails, Continue, Usable
<1>8. worker'.pc \in {"store", "drop"} /\ worker'.b = worker.b /\ worker'.job = worker.job
  BY <1>4 DEF SendTrack, SendFails, Continue, Work
<1>9. WriteInFlight(img)'
  BY <1>5, <1>6, <1>7, <1>8 DEF WriteInFlight, ImageOf
<1>10. QED
  BY <1>1, <1>7, <1>9, StillFresh DEF CacheInv

LEMMA KeptStep ==
  ASSUME CoreInv, CoreInv', DataInv, CacheInv, [Next]_vars, cache'.valid, CacheKept,
         ~LocalWriteDone, ~StoresTrack
  PROVE  CacheIsTrack' \/ (CacheCoherent' /\ Fresh')
<1>1. cache.valid /\ cache.drive \in Drives /\ drv[cache.drive].mounted
  BY DEF CacheKept, DataInv, CacheTyped
<1>2. PICK img : img = drv[cache.drive].name
  OBVIOUS
<1>3. ImageOf(drv[cache.drive].backing) = img
  BY <1>1, <1>2, DriveImage
<1>4. drv'[cache'.drive].mounted /\ heap'[drv'[cache'.drive].backing].img = img
  BY <1>1, <1>2 DEF CacheKept, CoreInv, Table, SlotTrue, ImageOf
<1>5. CASE WriteInFlight(img)
  <2>1. Fresh' /\ WriteInFlight(img)'
    BY <1>2, <1>5, KeptInFlight
  <2>2. QED
    BY <1>4, <2>1 DEF CacheCoherent, ImageOf
<1>6. CASE store'[img] # store[img]
  <2>1. Fresh' /\ WriteInFlight(img)'
    BY <1>2, <1>6, KeptTrack
  <2>2. QED
    BY <1>4, <2>1 DEF CacheCoherent, ImageOf
<1>7. CASE ~WriteInFlight(img) /\ store'[img] = store[img]
  <2>1. cache.data = TrackOf(img, cache.track, cache.len)
    BY <1>1, <1>3, <1>7 DEF CacheInv, CacheCoherent
  <2>2. cache'.data = [i \in 0 .. (cache'.len - 1) |->
                         store'[img][disk_track_offset(cache'.track, cache'.len) + i]]
    BY <1>7, <2>1 DEF TrackOf, CacheKept
  <2>3. QED
    BY <1>4, <2>2 DEF CacheIsTrack, TrackOf, ImageOf
<1>8. QED
  BY <1>5, <1>6, <1>7

(* A track just transferred.                                               *)
LEMMA TrackCached ==
  ASSUME NEW d, NEW t, NEW l, NEW img,
         cache'.data = [i \in 0 .. (l - 1) |-> store'[img][disk_track_offset(t, l) + i]],
         cache'.drive = d, cache'.track = t, cache'.len = l, img = heap'[drv'[d].backing].img
  PROVE  CacheIsTrack'
BY DEF CacheIsTrack, TrackOf, ImageOf

LEMMA FilledStep ==
  ASSUME CoreInv, DataInv, [Next]_vars, cache'.valid, ReadsLocal \/ LocalWriteDone \/ StoresTrack
  PROVE  CacheIsTrack'
<1>1. CASE ReadsLocal
  <2>1. PICK c \in Readers, d \in Drives, r \in Requests : ReadLocal(c, d, r[1], r[2])
    BY <1>1 DEF ReadsLocal
  <2>2. PICK data : data = TrackOf(ImageOf(drv[d].backing), r[1], r[2])
    OBVIOUS
  <2>3. /\ cache'.data = data /\ cache'.drive = d /\ cache'.track = r[1] /\ cache'.len = r[2]
        /\ UNCHANGED <<drv, heap, store>>
    BY <2>1, <2>2, LocalRead DEF Fill
  <2>4. PICK img : img = heap[drv[d].backing].img
    OBVIOUS
  <2>5. cache'.data = [i \in 0 .. (r[2] - 1) |-> store'[img][disk_track_offset(r[1], r[2]) + i]]
        /\ img = heap'[drv'[d].backing].img
    BY <2>2, <2>3, <2>4 DEF TrackOf, ImageOf
  <2>6. QED
    BY <2>3, <2>5, TrackCached
<1>2. CASE LocalWriteDone
  <2>1. PICK d \in Drives, r \in Requests : WriteLocal(d, r[1], r[2])
    BY <1>2 DEF LocalWriteDone
  <2>2. PICK data, img, off : /\ data = [i \in 0 .. (r[2] - 1) |-> NextWrite]
                              /\ img = ImageOf(drv[d].backing) /\ off = disk_track_offset(r[1], r[2])
    OBVIOUS
  <2>3. /\ cache' = Fill(d, r[1], r[2], data) /\ UNCHANGED <<drv, heap>>
        /\ store' = WriteCells(img, CellsOf(r[1], r[2]), NextWrite)
    BY <2>1, <2>2 DEF WriteLocal
  <2>4. \A x \in Cells : x \in CellsOf(r[1], r[2]) => store'[img][x] = NextWrite
    BY <2>1, <2>2, <2>3, LocalWrite, WriteEffect DEF DataInv, Contained
  <2>5. \A i \in 0 .. (r[2] - 1) : off + i \in Cells /\ off + i \in CellsOf(r[1], r[2])
    BY <2>1, <2>2, LocalWrite, TrackInImage
  <2>6. \A i \in 0 .. (r[2] - 1) : store'[img][off + i] = NextWrite
    BY <2>4, <2>5
  <2>7. data = [i \in 0 .. (r[2] - 1) |-> store'[img][off + i]]
    BY <2>2, <2>6
  <2>8. /\ cache'.data = data /\ cache'.drive = d /\ cache'.track = r[1] /\ cache'.len = r[2]
    BY <2>3 DEF Fill
  <2>9. img = heap'[drv'[d].backing].img /\ off = disk_track_offset(r[1], r[2])
    BY <2>2, <2>3 DEF ImageOf
  <2>10. cache'.data = [i \in 0 .. (r[2] - 1) |-> store'[img][disk_track_offset(r[1], r[2]) + i]]
    BY <2>7, <2>8, <2>9
  <2>11. QED
    BY <2>8, <2>9, <2>10, TrackCached
<1>3. CASE StoresTrack
  <2>1. PICK j : j = worker.job
    OBVIOUS
  <2>2. /\ worker.pc = "store" /\ drv[j.drive].backing = worker.b
        /\ UNCHANGED <<drv, heap, store>> /\ cache' = Fill(j.drive, j.track, j.len, worker.data)
    BY <1>3, <2>1 DEF StoresTrack, StoreTrack, files
  <2>3. worker.data = TrackOf(ImageOf(worker.b), j.track, j.len)
    BY <2>1, <2>2 DEF DataInv, Stage
  <2>4. /\ cache'.data = worker.data /\ cache'.drive = j.drive /\ cache'.track = j.track /\ cache'.len = j.len
    BY <2>2 DEF Fill
  <2>5. PICK img : img = heap[worker.b].img
    OBVIOUS
  <2>6. PICK d, t, l : d = j.drive /\ t = j.track /\ l = j.len
    OBVIOUS
  <2>7. cache'.data = [i \in 0 .. (l - 1) |-> store'[img][disk_track_offset(t, l) + i]]
    BY <2>2, <2>3, <2>4, <2>5, <2>6 DEF TrackOf, ImageOf
  <2>8. cache'.drive = d /\ cache'.track = t /\ cache'.len = l /\ img = heap'[drv'[d].backing].img
    BY <2>2, <2>4, <2>5, <2>6
  <2>9. QED
    BY <2>7, <2>8, TrackCached
<1>4. QED
  BY <1>1, <1>2, <1>3

LEMMA CacheStep ==
  ASSUME CoreInv, CoreInv', DataInv, DataInv', CacheInv, ~Shared, [Next]_vars
  PROVE  CacheInv'
<1>1. Unique'
  BY NamedOnceStep, OpenedAloneStep, SessionAloneStep DEF CacheInv, Unique
<1>2. CASE ~cache'.valid
  BY <1>1, <1>2 DEF CacheInv, CacheCoherent, Fresh
<1>3. CASE cache'.valid
  <2>1. CacheKept \/ ReadsLocal \/ LocalWriteDone \/ StoresTrack
    BY <1>3, CacheStays DEF DataInv
  <2>2. CacheIsTrack' \/ (CacheCoherent' /\ Fresh')
    BY <1>3, <2>1, KeptStep, FilledStep
  <2>3. (CoreInv /\ Contained /\ CacheTyped /\ CacheIsTrack => CacheCoherent /\ Fresh)'
    BY TrackIsFresh, PTL
  <2>4. QED
    BY <1>1, <2>2, <2>3 DEF CacheInv, DataInv
<1>4. QED
  BY <1>2, <1>3

LEMMA CacheInvariant == ~Shared => (Spec => []CacheInv)
<1> SUFFICES ASSUME ~Shared PROVE Spec => []CacheInv
  OBVIOUS
<1>1. Init => CacheInv
  <2> SUFFICES ASSUME Init PROVE CacheInv
    OBVIOUS
  <2>1. worker.pc = "idle" /\ (\A c \in Tasks : task[c].pc = "idle") /\ ~cache.valid
    BY IdleState DEF Init, IdleWorker, NoCache
  <2>2. PICK cfg \in BootConfigs : \E f \in BootBackings(cfg) :
          drv = BootDrives(cfg, f) /\ heap = BootHeap(cfg, f)
    BY DEF Init
  <2>3. PICK f \in BootBackings(cfg) : drv = BootDrives(cfg, f) /\ heap = BootHeap(cfg, f)
    BY <2>2
  <2>4. NamedOnce
    BY <2>3, BootEffect DEF NamedOnce
  <2>5. QED
    BY <2>1, <2>4 DEF CacheInv, Unique, OpenedAlone, SessionAlone, CacheCoherent, Fresh
<1>2. CoreInv /\ CoreInv' /\ DataInv /\ DataInv' /\ CacheInv /\ [Next]_vars => CacheInv'
  BY CacheStep
<1>3. QED
  BY <1>1, <1>2, CoreInvariant, DataInvariant, PTL DEF Spec

-----------------------------------------------------------------------------
(* The reads that copy a track to their caller.                            *)

Copies(c) ==
    \/ ReadDone(c)
    \/ \E d \in Drives, r \in Requests :
          c \in Readers /\ (ReadHit(c, d, r[1], r[2]) \/ ReadLocal(c, d, r[1], r[2]))
NoNewCopy(x) == \A c \in Tasks : c = x \/ task'[c] = task[c] \/ task'[c].pc # "copied"

LEMMA NoCopy ==
  ASSUME Shapes, NEW c \in Tasks, NEW s, Become(c, s), s.pc # "copied"
  PROVE  \A x : NoNewCopy(x)
BY TasksMove DEF NoNewCopy

LEMMA CopiesMove ==
  ASSUME CoreInv, [Next]_vars, NEW c \in Tasks, task[c].pc # "copied", task'[c].pc = "copied"
  PROVE  Copies(c)
<1>0. \A x : NoNewCopy(x) => x = c
  BY DEF NoNewCopy
<1>1. Shapes /\ Awaited /\ Session /\ task' # task
  BY DEF CoreInv
<1>2. Consoles \subseteq Tasks /\ Readers \subseteq Tasks /\ "fdc" \in Tasks
  BY TaskNames
<1>3. ASSUME NEW o \in Tasks, NEW s, Become(o, s), s.pc # "copied" PROVE FALSE
  <2>1. NoNewCopy("none") /\ "none" # c
    BY <1>1, <1>3, NoCopy, TaskNames
  <2>2. QED
    BY <1>0, <2>1
<1>4. CASE \E o \in Readers : ReadCall(o)
  <2>1. PICK o \in Readers, d \in Drives, r \in Requests :
          \/ ReadHit(o, d, r[1], r[2]) \/ ReadLocal(o, d, r[1], r[2])
          \/ ReadLocalFails(o, d, r[1], r[2]) \/ ReadRemote(o, d, r[1], r[2])
    BY <1>4 DEF ReadCall
  <2>2. CASE ReadLocalFails(o, d, r[1], r[2])
    BY <1>1, <2>2 DEF ReadLocalFails
  <2>3. CASE ReadRemote(o, d, r[1], r[2])
    BY <1>2, <1>3, <2>3 DEF ReadRemote
  <2>4. CASE ReadHit(o, d, r[1], r[2]) \/ ReadLocal(o, d, r[1], r[2])
    <3>1. PICK s : Become(o, s)
      BY <2>4 DEF ReadHit, ReadLocal, Copied
    <3>2. o = c
      BY <1>1, <1>2, <3>1, TasksMove
    <3>3. QED
      BY <2>4, <3>2 DEF Copies
  <2>5. QED
    BY <2>1, <2>2, <2>3, <2>4
<1>5. CASE \E o \in Tasks : CallStep(o)
  <2>1. PICK o \in Tasks : CallStep(o)
    BY <1>5
  <2>2. CASE PostWait(o)
    <3>1. PICK s : Become(o, s) /\ s = [task[o] EXCEPT !.pc = "wait"]
      BY <2>2 DEF PostWait
    <3>2. s.pc # "copied"
      BY <1>1, <2>2, <3>1 DEF PostWait, Shapes, TasksOK, TaskState
    <3>3. QED
      BY <1>3, <3>1, <3>2
  <2>3. CASE Dispose(o)
    <3>1. PICK s : Become(o, s) /\ s = task[o].then /\ task[o].pc = "dispose"
      BY <2>3 DEF Dispose
    <3>2. s.pc # "copied"
      BY <1>1, <3>1 DEF Shapes, TasksOK, TaskState
    <3>3. QED
      BY <1>3, <3>1, <3>2
  <2>4. CASE RemoteConnect(o) \/ MountSwap(o)
    BY <1>3, <2>4 DEF RemoteConnect, MountSwap, Disposing, IdleTask
  <2>5. CASE PostFails(o) \/ WaitExpires(o) \/ ReadReturns(o) \/ MountUnlock(o)
    BY <1>3, <2>5 DEF PostFails, WaitExpires, ReadReturns, MountUnlock, IdleTask
  <2>6. CASE ReadDone(o)
    <3>1. PICK s : Become(o, s)
      BY <2>6 DEF ReadDone, Copied
    <3>2. o = c
      BY <1>1, <3>1, TasksMove
    <3>3. QED
      BY <2>6, <3>2 DEF Copies
  <2>7. QED
    BY <2>1, <2>2, <2>3, <2>4, <2>5, <2>6 DEF CallStep
<1>6. CASE WriteCall
  BY <1>1, <1>2, <1>3, <1>6 DEF WriteCall, WriteLocal, WriteLocalFails, WriteRemote
<1>7. CASE \E o \in Consoles : MountCall(o)
  <2>1. PICK o \in Consoles, d \in Drives :
          \/ \E url \in RemoteImages : RemoteConfigure(o, d, url)
          \/ \E img \in LocalImages : MountOpen(o, d, img)
          \/ MountFails(o, d) \/ UnmountDo(o, d)
    BY <1>7 DEF MountCall
  <2>2. \E s : Become(o, s) /\ s.pc # "copied"
    <3>1. CASE \E img \in LocalImages : MountOpen(o, d, img)
      BY <3>1 DEF MountOpen
    <3>2. CASE \E url \in RemoteImages : RemoteConfigure(o, d, url)
      BY <3>2 DEF RemoteConfigure, Disposing
    <3>3. CASE MountFails(o, d) \/ UnmountDo(o, d)
      BY <3>3 DEF MountFails, UnmountDo, Unmount, Disposing, IdleTask
    <3>4. QED
      BY <2>1, <3>1, <3>2, <3>3
  <2>3. QED
    BY <1>2, <1>3, <2>2
<1>8. CASE Worker
  <2>1. Receive => task' = task
    BY DEF Receive
  <2>2. ~EndStep /\ ~GoOnStep
    BY <1>1 DEF EndStep, GoOnStep
  <2>3. QED
    BY <1>1, <1>8, <2>1, <2>2, EndSteps, GoOnSteps DEF Worker
<1>9. CASE Event
  BY <1>1, <1>9 DEF Event, LinkLost, OnDisconnected, RemoteUnmountAll, EvtDispose, OnGotIp, ScanDrive, ScanPost
<1>10. CASE Restart
  BY <1>10 DEF Restart, IdleTask
<1>11. CASE UNCHANGED vars
  BY <1>1, <1>11 DEF vars
<1>12. QED
  BY <1>4, <1>5, <1>6, <1>7, <1>8, <1>9, <1>10, <1>11 DEF Next

(* What a read returns, as ReadSeesAckedWrites says it.                    *)
SeesAckedWrites(r) ==
    LET img == ImageOf(drv[r.drive].backing)
        off == disk_track_offset(r.track, r.len)
    IN /\ drv[r.drive].mounted
       /\ \A i \in 0 .. (r.len - 1) : r.data[i] >= acked[img][off + i]
       /\ WriteInFlight(img) \/ r.data = TrackOf(img, r.track, r.len)
CopyOf(d, t, l, data) == [pc |-> "copied", drive |-> d, track |-> t, len |-> l, data |-> data]

LEMMA HitSees ==
  ASSUME CoreInv, DataInv, CacheInv, NEW d, NEW t, NEW l, Hit(d, t, l)
  PROVE  SeesAckedWrites(CopyOf(d, t, l, cache.data))
<1>1. cache.valid /\ cache.drive = d /\ cache.track = t /\ cache.len = l
  BY DEF Hit
<1>2. d \in Drives /\ drv[d].mounted /\ ImageOf(drv[d].backing) = drv[d].name
  BY <1>1, DriveImage DEF DataInv, CacheTyped
<1>3. QED
  BY <1>1, <1>2 DEF SeesAckedWrites, CopyOf, CacheInv, CacheCoherent, Fresh

LEMMA LocalSees ==
  ASSUME CoreInv, DataInv, NEW c \in Readers, NEW d \in Drives, NEW r \in Requests,
         ReadLocal(c, d, r[1], r[2])
  PROVE  SeesAckedWrites(CopyOf(d, r[1], r[2], TrackOf(ImageOf(drv[d].backing), r[1], r[2])))
<1>1. PICK img, off : img = ImageOf(drv[d].backing) /\ off = disk_track_offset(r[1], r[2])
  OBVIOUS
<1>2. img \in Images /\ drv[d].mounted /\ \A i \in 0 .. (r[2] - 1) : off + i \in Cells
  BY <1>1, LocalRead, TrackInImage
<1>3. \A i \in 0 .. (r[2] - 1) : store[img][off + i] >= acked[img][off + i]
  BY <1>2 DEF DataInv, Contained, AckedWriteStays
<1>4. QED
  BY <1>1, <1>2, <1>3 DEF SeesAckedWrites, CopyOf, TrackOf

LEMMA CopySees ==
  ASSUME CoreInv, DataInv, CacheInv, NEW c \in Tasks, Copies(c), task'[c].pc = "copied"
  PROVE  SeesAckedWrites(task'[c])
<1>1. Shapes /\ Readers \subseteq Tasks
  BY TaskNames DEF CoreInv
<1>2. CASE ReadDone(c)
  <2>1. PICK j : j = task[c].job
    OBVIOUS
  <2>2. CASE Hit(j.drive, j.track, j.len)
    <3>1. Become(c, CopyOf(j.drive, j.track, j.len, cache.data))
      BY <1>2, <2>1, <2>2 DEF ReadDone, Copied, CopyOf
    <3>2. QED
      BY <1>1, <2>2, <3>1, TasksMove, HitSees
  <2>3. CASE ~Hit(j.drive, j.track, j.len)
    <3>1. Become(c, IdleTask)
      BY <1>2, <2>1, <2>3 DEF ReadDone
    <3>2. QED
      BY <1>1, <3>1, TasksMove, IdleState
  <2>4. QED
    BY <2>2, <2>3
<1>3. ASSUME NEW d \in Drives, NEW r \in Requests, c \in Readers, ReadHit(c, d, r[1], r[2])
      PROVE  SeesAckedWrites(task'[c])
  <2>1. Hit(d, r[1], r[2]) /\ Become(c, CopyOf(d, r[1], r[2], cache.data))
    BY <1>3 DEF ReadHit, Copied, CopyOf
  <2>2. QED
    BY <1>1, <2>1, TasksMove, HitSees
<1>4. ASSUME NEW d \in Drives, NEW r \in Requests, c \in Readers, ReadLocal(c, d, r[1], r[2])
      PROVE  SeesAckedWrites(task'[c])
  <2>1. Become(c, CopyOf(d, r[1], r[2], TrackOf(ImageOf(drv[d].backing), r[1], r[2])))
    BY <1>4 DEF ReadLocal, Copied, CopyOf
  <2>2. QED
    BY <1>1, <1>4, <2>1, TasksMove, LocalSees
<1>5. QED
  BY <1>2, <1>3, <1>4 DEF Copies

-----------------------------------------------------------------------------
(* Theorems.                                                               *)

(* Types: every slot of s_drv, the cached track, every queued job and the  *)
(* files; the queue has its bound and the cached track fits s_track_buf.   *)
THEOREM TypeCorrect == Spec => []TypeOK
<1>1. CoreInv /\ DataInv => TypeOK
  <2> SUFFICES ASSUME CoreInv, DataInv PROVE TypeOK
    OBVIOUS
  <2>1. \A j \in AllJobs : JobOK(j)
    <3> SUFFICES ASSUME NEW j \in AllJobs PROVE JobOK(j)
      OBVIOUS
    <3>1. CASE j.type \in {"READ", "WRITE"}
      BY <3>1, JobFields DEF IoJobs, JobOK
    <3>2. CASE j.type = "MOUNT"
      BY <3>2, JobFields, TaskNames, DiskAssumption DEF MountJobs, JobOK
    <3>3. CASE j.type = "CLOSE"
      BY <3>3, JobFields DEF JobOK
    <3>4. QED
      BY <3>1, <3>2, <3>3, JobFields
  <2>2. worker.pc # "idle" => JobOK(worker.job)
    BY <2>1, WorkerFields DEF CoreInv
  <2>3. DOMAIN drv = Drives /\ \A d \in Drives : SlotOK(drv[d])
    BY DEF CoreInv, Shapes, Slots, SlotOK
  <2>4. \A i \in 1 .. Len(rq) : JobOK(rq[i])
    BY <2>1 DEF CoreInv, Shapes
  <2>5. QED
    BY <2>2, <2>3, <2>4 DEF TypeOK, CoreInv, Shapes, OpenFiles, Counted, DataInv, Contained, CacheTyped
<1>2. QED
  BY <1>1, CoreInvariant, DataInvariant, PTL

(* A write whose caller gave up is made later all the same, and a restart  *)
(* may come at any time; an acknowledged write is never undone by either.  *)
THEOREM AckedWritesLast == Spec => []AckedWriteStays
<1>1. DataInv => AckedWriteStays
  BY DEF DataInv, Contained
<1>2. QED
  BY <1>1, DataInvariant, PTL

(* Where no image is mounted on two drives, a cached track is the track of *)
(* the image mounted on its drive, except between a remote write and the   *)
(* update of the cache: mounts, unmounts, late jobs and failed writes all  *)
(* drop it in time.                                                        *)
THEOREM CacheTrue == ~Shared => (Spec => []CacheCoherent)
<1>1. CacheInv => CacheCoherent
  BY DEF CacheInv
<1>2. QED
  BY <1>1, CacheInvariant, PTL

(* Then a read that succeeds returns the track of the image that is        *)
(* mounted when it returns, with every write that was acknowledged.        *)
THEOREM ReadsCurrent == ~Shared => (Spec => ReadSeesAckedWrites)
<1> SUFFICES ASSUME ~Shared PROVE Spec => ReadSeesAckedWrites
  OBVIOUS
<1>1. ASSUME CoreInv, DataInv, CacheInv, [Next]_vars
      PROVE  \A c \in Tasks :
                (task[c].pc # "copied" /\ task'[c].pc = "copied") => SeesAckedWrites(task'[c])
  BY <1>1, CopiesMove, CopySees
<1>2. CoreInv /\ DataInv /\ CacheInv /\ [Next]_vars =>
        [\A c \in Tasks :
         (task[c].pc # "copied" /\ task'[c].pc = "copied") =>
            LET r == task'[c]
                img == ImageOf(drv[r.drive].backing)
                off == disk_track_offset(r.track, r.len)
            IN /\ drv[r.drive].mounted
               /\ \A i \in 0..(r.len - 1) : r.data[i] >= acked[img][off + i]
               /\ WriteInFlight(img) \/ r.data = TrackOf(img, r.track, r.len)]_vars
  BY <1>1 DEF SeesAckedWrites
<1>3. QED
  BY <1>2, CoreInvariant, DataInvariant, CacheInvariant, PTL DEF Spec, ReadSeesAckedWrites

-----------------------------------------------------------------------------
(* Who will mount drive d: a queued job, the worker, a console, or the     *)
(* WiFi-up hook on its way through the drives.                             *)

QueueComes(d) == \E i \in 1 .. Len(rq) : rq[i].type = "MOUNT" /\ rq[i].drive = d
WorkerComes(d) ==
    \/ worker.pc = "got" /\ worker.job.type = "MOUNT" /\ worker.job.drive = d
    \/ worker.pc \in {"want", "install"} /\ worker.job.drive = d /\ worker.url = drv[d].name
WillMount(s, d) ==
    \/ s.pc = "dispose" /\ s.then.pc = "connect" /\ s.then.drive = d
    \/ s.pc = "connect" /\ s.drive = d
    \/ s.pc = "post" /\ s.job.type = "MOUNT" /\ s.job.drive = d
TaskComes(d) == \E c \in Consoles : WillMount(task[c], d)
HookComes(d) ==
    \/ evt.pc \in {"scan", "post"} /\ d \in evt.todo
    \/ evt.pc = "post" /\ evt.drive = d
Comes(d) == QueueComes(d) \/ WorkerComes(d) \/ TaskComes(d) \/ HookComes(d) \/ d \in failed

Wants(d) == drv[d].remote /\ ~drv[d].mounted
HookOffline == evt.pc \in {"down", "dispose"} => ~link
Remembered == HookOffline /\ \A d \in Drives : Wants(d) /\ link /\ ~disc => Comes(d)

LEMMA WantedName ==
  ASSUME CoreInv, NEW d \in Drives, Wants(d)
  PROVE  drv[d].name \in RemoteImages /\ WantsSession(d)
BY ImageNames DEF CoreInv, Table, SlotTrue, Wants, WantsSession

(* A drive that wants a session did so before, as the same slot, unless it *)
(* is configured now.                                                      *)
LEMMA WantedBefore ==
  ASSUME CoreInv, [Next]_vars, ~Restart, ~RemoteUnmountAll, NEW d \in Drives, Wants(d)',
         \A c \in Consoles : ~Configures(c, d)
  PROVE  drv'[d] = drv[d]
<1>1. Shapes /\ Session
  BY DEF CoreInv
<1>2. CASE \E c \in Readers : ReadCall(c)
  <2>1. \A c, e, t, l : ReadHit(c, e, t, l) \/ ReadLocalFails(c, e, t, l) \/ ReadRemote(c, e, t, l)
                          => drv' = drv
    BY DEF ReadHit, ReadLocalFails, ReadRemote, table
  <2>2. \A c, e, t, l : ReadLocal(c, e, t, l) => drv' = drv
    BY DEF ReadLocal
  <2>3. QED
    BY <1>2, <2>1, <2>2 DEF ReadCall
<1>3. CASE \E c \in Tasks : CallStep(c)
  <2>1. PICK c \in Tasks : CallStep(c)
    BY <1>3
  <2>2. CASE MountSwap(c)
    <3>1. PICK x : x = task[c].drive
      OBVIOUS
    <3>2. ~drv'[x].remote /\ \A e \in Drives : e # x => drv'[e] = drv[e]
      BY <1>1, <2>2, <3>1, SwapEffect, SlotFields DEF TakeStep
    <3>3. QED
      BY <3>2 DEF Wants
  <2>3. CASE ~MountSwap(c)
    BY <2>1, <2>3 DEF CallStep, PostWait, PostFails, WaitExpires, ReadDone, ReadReturns, Dispose,
                      RemoteConnect, MountUnlock, table
  <2>4. QED
    BY <2>2, <2>3
<1>4. CASE WriteCall
  BY <1>4 DEF WriteCall, WriteLocal, WriteLocalFails, WriteRemote, table
<1>5. CASE \E c \in Consoles : MountCall(c)
  <2>1. PICK c \in Consoles, x \in Drives :
          \/ \E url \in RemoteImages : RemoteConfigure(c, x, url)
          \/ \E img \in LocalImages : MountOpen(c, x, img)
          \/ MountFails(c, x) \/ UnmountDo(c, x)
    BY <1>5 DEF MountCall
  <2>2. CASE \E url \in RemoteImages : RemoteConfigure(c, x, url)
    BY <1>1, <2>2, ConfigureEffect DEF Configures
  <2>3. CASE \E img \in LocalImages : MountOpen(c, x, img)
    BY <2>3 DEF MountOpen, table
  <2>4. CASE MountFails(c, x) \/ UnmountDo(c, x)
    <3>1. drv' = [drv EXCEPT ![x] = EmptySlot]
      BY <2>4 DEF MountFails, UnmountDo, Unmount
    <3>2. QED
      BY <1>1, <3>1, SlotFields DEF Shapes, Wants
  <2>5. QED
    BY <2>1, <2>2, <2>3, <2>4
<1>6. CASE Worker
  <2>1. CASE Install
    BY <1>1, <2>1, InstallEffect DEF Wants
  <2>2. CASE ~Install
    BY <1>6, <2>2 DEF Worker, Receive, Lookup, NotReady, FetchTrack, FetchFails, SendTrack, SendFails,
         StoreTrack, DropTrack, WantMount, MountOffline, OpenSession, OpenFails,
         Mismatch, Discard, CloseSession, table
  <2>3. QED
    BY <2>1, <2>2
<1>7. CASE Event
  BY <1>7 DEF Event, LinkLost, OnDisconnected, EvtDispose, OnGotIp, ScanDrive, ScanPost, table
<1>8. CASE UNCHANGED vars
  BY <1>8 DEF vars
<1>9. QED
  BY <1>2, <1>3, <1>4, <1>5, <1>6, <1>7, <1>8 DEF Next

(* A queued mount stays queued until the worker has it.                    *)
LEMMA QueueAppends ==
  ASSUME Shapes, NEW j \in AllJobs, rq' = Append(rq, j), NEW d
  PROVE  /\ QueueComes(d) => QueueComes(d)'
         /\ j.type = "MOUNT" /\ j.drive = d => QueueComes(d)'
<1>1. /\ Len(rq') = Len(rq) + 1 /\ Len(rq) \in Nat
      /\ \A i \in 1 .. Len(rq) : rq'[i] = rq[i]
      /\ rq'[Len(rq) + 1] = j
  BY QueueAppend DEF Shapes
<1>2. Len(rq) + 1 \in 1 .. Len(rq') /\ \A i \in 1 .. Len(rq) : i \in 1 .. Len(rq')
  BY <1>1
<1>3. QED
  BY <1>1, <1>2 DEF QueueComes

LEMMA QueueHands ==
  ASSUME Shapes, NEW b \in Backings, HandToWorker(b), NEW d, QueueComes(d)
  PROVE  QueueComes(d)'
<1>1. \/ rq' = Append(rq, CloseJob(b)) /\ CloseJob(b) \in AllJobs
      \/ rq' = rq
  BY HandEffect
<1>2. QED
  BY <1>1, QueueAppends DEF QueueComes

LEMMA QueueStays ==
  ASSUME CoreInv, [Next]_vars, ~Restart, NEW d \in Drives, QueueComes(d)
  PROVE  QueueComes(d)' \/ WorkerComes(d)'
<1>1. Shapes
  BY DEF CoreInv
<1>2. CASE rq' = rq
  BY <1>2 DEF QueueComes
<1>3. CASE Receive
  <2>1. /\ Len(rq') = Len(rq) - 1 /\ Len(rq') \in Nat
        /\ \A i \in 1 .. Len(rq') : rq'[i] = rq[i + 1] /\ i + 1 \in 1 .. Len(rq)
        /\ Head(rq) = rq[1]
        /\ \A i \in 1 .. Len(rq) : i = 1 \/ i - 1 \in 1 .. Len(rq')
    BY <1>1, <1>3, QueueTail DEF Shapes, Receive
  <2>2. worker' = [pc |-> "got", job |-> rq[1]]
    BY <1>3, <2>1 DEF Receive, Work
  <2>3. PICK i \in 1 .. Len(rq) : rq[i].type = "MOUNT" /\ rq[i].drive = d
    BY DEF QueueComes
  <2>4. CASE i = 1
    BY <2>2, <2>3, <2>4 DEF WorkerComes
  <2>5. CASE i # 1
    <3>1. PICK k : k = i - 1
      OBVIOUS
    <3>2. k \in 1 .. Len(rq') /\ rq'[k] = rq[i]
      BY <2>1, <2>5, <3>1
    <3>3. QED
      BY <2>3, <3>2 DEF QueueComes
  <2>6. QED
    BY <2>4, <2>5
<1>4. CASE EvtDispose
  BY <1>1, <1>4, QueueHands DEF EvtDispose, Shapes, EvtState
<1>5. CASE ScanPost
  <2>1. evt.drive \in Drives
    BY <1>1, <1>5 DEF ScanPost, Shapes, EvtState
  <2>2. MountJob("none", evt.drive) \in AllJobs
    BY <2>1, DiskAssumption DEF MountJob, Job, AllJobs, MountJobs
  <2>3. QED
    BY <1>1, <1>2, <1>5, <2>2, QueueAppends DEF ScanPost
<1>6. ASSUME NEW c \in Tasks, PostWait(c) PROVE QueueComes(d)'
  <2>1. task[c].job \in AllJobs /\ rq' = Append(rq, task[c].job)
    BY <1>1, <1>6, ShapesPostWait DEF PostWait
  <2>2. QED
    BY <1>1, <2>1, QueueAppends
<1>7. ASSUME NEW c \in Tasks, WaitExpires(c) PROVE QueueComes(d)'
  <2>1. /\ Len(rq') = Len(rq)
        /\ \A i \in 1 .. Len(rq) : rq[i] \in AllJobs /\ rq'[i] = Orphan(rq[i], c)
    BY <1>1, <1>7, ExpiryEffect
  <2>2. \A i \in 1 .. Len(rq) : rq[i].type = "MOUNT" =>
           rq'[i].type = "MOUNT" /\ rq'[i].drive = rq[i].drive
    BY <2>1, OrphanFields
  <2>3. QED
    BY <2>1, <2>2 DEF QueueComes
<1>8. ASSUME NEW c \in Tasks, Dispose(c) PROVE QueueComes(d)'
  <2>1. task[c].b \in Backings /\ (rq' = rq \/ HandToWorker(task[c].b))
    BY <1>1, <1>8, DisposeEffect
  <2>2. QED
    BY <1>1, <2>1, QueueHands DEF QueueComes
<1>9. QED
  BY <1>2, <1>3, <1>4, <1>5, <1>6, <1>7, <1>8, QueueMoves

(* The worker makes the mount it has, or it fails.                         *)
LEMMA WorkerStays ==
  ASSUME CoreInv, [Next]_vars, ~Restart, NEW d \in Drives, WorkerComes(d),
         Wants(d), drv'[d] = drv[d], link
  PROVE  WorkerComes(d)' \/ d \in failed'
<1>1. Shapes /\ WantsSession(d)
  BY WantedName DEF CoreInv
<1>2. CASE worker' = worker
  BY <1>2 DEF WorkerComes
<1>3. CASE \E c \in Tasks : WaitExpires(c)
  <2>1. PICK c \in Tasks : WaitExpires(c)
    BY <1>3
  <2>2. /\ worker'.pc = worker.pc /\ worker'.job = Orphan(worker.job, c) /\ worker.job \in AllJobs
        /\ worker.pc \in {"want", "install"} => worker'.url = worker.url
    BY <1>1, <2>1, ExpiryEffect, WorkerFields DEF WorkerComes
  <2>3. worker.job.type = "MOUNT"
    BY <1>1, WorkerFields DEF WorkerComes, MountJobs
  <2>4. worker'.job.type = "MOUNT" /\ worker'.job.drive = worker.job.drive
    BY <2>2, <2>3, OrphanFields
  <2>5. QED
    BY <2>2, <2>4 DEF WorkerComes
<1>4. CASE Worker
  <2>1. worker.job.drive = d /\ worker.job.type = "MOUNT"
    BY <1>1, WorkerFields DEF WorkerComes, MountJobs
  <2>2. WantMount => WorkerComes(d)'
    BY <1>1, <2>1 DEF WantMount, Continue, Work, WorkerComes
  <2>3. ~MountOffline /\ ~Install /\ ~Mismatch
    <3>1. ~MountOffline
      BY DEF MountOffline
    <3>2. ~Install
      <4>1. Install => Session
        BY DEF CoreInv
      <4>2. Install => drv'[d].mounted
        BY <1>1, <2>1, <4>1, InstallEffect
      <4>3. QED
        BY <4>2 DEF Wants
    <3>3. ~Mismatch
      BY <1>1, <2>1 DEF Mismatch, WorkerComes
    <3>4. QED
      BY <3>1, <3>2, <3>3
  <2>4. OpenSession => WorkerComes(d)'
    BY <2>1 DEF OpenSession, Continue, Work, WorkerComes
  <2>5. OpenFails => d \in failed'
    BY <2>1 DEF OpenFails
  <2>6. ~Receive /\ ~Lookup /\ ~NotReady /\ ~FetchTrack /\ ~FetchFails /\ ~SendTrack /\ ~SendFails
        /\ ~StoreTrack /\ ~DropTrack /\ ~Discard /\ ~CloseSession
    BY <2>1 DEF Receive, Lookup, NotReady, FetchTrack, FetchFails, SendTrack, SendFails, Usable,
                StoreTrack, DropTrack, Discard, CloseSession, WorkerComes
  <2>7. QED
    BY <1>4, <2>2, <2>3, <2>4, <2>5, <2>6 DEF Worker
<1>5. QED
  BY <1>2, <1>3, <1>4, WorkerMoves

(* What a console is about to do it does, or it fails.                     *)
LEMMA CallerMoves ==
  ASSUME CoreInv, [Next]_vars, ~Restart, NEW c \in Tasks, task[c].pc \in {"dispose", "connect", "post"},
         task'[c] # task[c]
  PROVE  PostWait(c) \/ PostFails(c) \/ Dispose(c) \/ RemoteConnect(c)
<1>1. Shapes /\ Awaited /\ Session
  BY DEF CoreInv
<1>2. Consoles \subseteq Tasks /\ Readers \subseteq Tasks /\ "fdc" \in Tasks
  BY TaskNames
<1>3. ASSUME NEW o \in Tasks, NEW s, Become(o, s) PROVE o = c
  BY <1>1, <1>3, TasksMove
<1>4. ASSUME NEW o \in Tasks, NEW s, Become(o, s), Idle(o) PROVE FALSE
  <2>1. o = c
    BY <1>3, <1>4
  <2>2. QED
    BY <1>4, <2>1 DEF Idle
<1>5. CASE \E o \in Readers : ReadCall(o)
  <2>1. PICK o \in Readers, d \in Drives, r \in Requests :
          \/ ReadHit(o, d, r[1], r[2]) \/ ReadLocal(o, d, r[1], r[2])
          \/ ReadLocalFails(o, d, r[1], r[2]) \/ ReadRemote(o, d, r[1], r[2])
    BY <1>5 DEF ReadCall
  <2>2. task' # task
    OBVIOUS
  <2>3. \E s : Become(o, s) /\ Idle(o)
    BY <2>1, <2>2 DEF ReadHit, ReadLocal, ReadLocalFails, ReadRemote, Copied
  <2>4. QED
    BY <1>2, <1>4, <2>3
<1>6. CASE \E o \in Tasks : CallStep(o)
  <2>1. PICK o \in Tasks : CallStep(o)
    BY <1>6
  <2>2. \E s : Become(o, s)
    BY <2>1 DEF CallStep, PostWait, PostFails, WaitExpires, ReadDone, ReadReturns, Dispose,
                RemoteConnect, MountSwap, MountUnlock, Copied
  <2>3. o = c
    BY <1>3, <2>2
  <2>4. QED
    BY <2>1, <2>3 DEF CallStep, WaitExpires, ReadDone, ReadReturns, MountSwap, MountUnlock
<1>7. CASE WriteCall
  BY <1>2, <1>4, <1>7 DEF WriteCall, WriteLocal, WriteLocalFails, WriteRemote
<1>8. CASE \E o \in Consoles : MountCall(o)
  <2>1. PICK o \in Consoles, d \in Drives :
          \/ \E url \in RemoteImages : RemoteConfigure(o, d, url)
          \/ \E img \in LocalImages : MountOpen(o, d, img)
          \/ MountFails(o, d) \/ UnmountDo(o, d)
    BY <1>8 DEF MountCall
  <2>2. \E s : Become(o, s) /\ Idle(o)
    BY <2>1 DEF RemoteConfigure, MountOpen, MountFails, UnmountDo, Unmount
  <2>3. QED
    BY <1>2, <1>4, <2>2
<1>9. CASE Worker
  <2>1. Receive => task' = task
    BY DEF Receive
  <2>2. ~EndStep /\ ~GoOnStep
    BY DEF EndStep, GoOnStep
  <2>3. QED
    BY <1>1, <1>9, <2>1, <2>2, EndSteps, GoOnSteps DEF Worker
<1>10. CASE Event
  BY <1>10 DEF Event, LinkLost, OnDisconnected, RemoteUnmountAll, EvtDispose, OnGotIp, ScanDrive, ScanPost
<1>11. CASE UNCHANGED vars
  BY <1>11 DEF vars
<1>12. QED
  BY <1>5, <1>6, <1>7, <1>8, <1>9, <1>10, <1>11 DEF Next

LEMMA CallerStays ==
  ASSUME CoreInv, [Next]_vars, ~Restart, NEW d \in Drives, TaskComes(d), link
  PROVE  TaskComes(d)' \/ QueueComes(d)' \/ d \in failed'
<1>1. Shapes /\ Consoles \subseteq Tasks
  BY TaskNames DEF CoreInv
<1>2. PICK c \in Consoles : WillMount(task[c], d)
  BY DEF TaskComes
<1>3. CASE task'[c] = task[c]
  BY <1>2, <1>3 DEF TaskComes
<1>4. CASE PostWait(c)
  <2>1. task[c].pc = "post" /\ rq' = Append(rq, task[c].job) /\ task[c].job \in AllJobs
    BY <1>1, <1>4, ShapesPostWait DEF PostWait
  <2>2. task[c].job.type = "MOUNT" /\ task[c].job.drive = d
    BY <1>2, <2>1 DEF WillMount
  <2>3. QED
    BY <1>1, <2>1, <2>2, QueueAppends
<1>5. CASE PostFails(c)
  BY <1>2, <1>5 DEF PostFails, WillMount
<1>6. CASE Dispose(c)
  <2>1. task'[c] = task[c].then /\ task[c].pc = "dispose"
    BY <1>1, <1>6, ShapesDispose DEF Dispose
  <2>2. QED
    BY <1>2, <2>1 DEF WillMount, TaskComes
<1>7. CASE RemoteConnect(c)
  <2>1. task[c].pc = "connect" /\ Become(c, [pc |-> "post", job |-> MountJob(c, task[c].drive)])
    BY <1>7 DEF RemoteConnect
  <2>2. task'[c] = [pc |-> "post", job |-> MountJob(c, d)]
    BY <1>1, <1>2, <2>1, TasksMove DEF WillMount
  <2>3. QED
    BY <2>2 DEF MountJob, Job, WillMount, TaskComes
<1>8. QED
  BY <1>1, <1>2, <1>3, <1>4, <1>5, <1>6, <1>7, CallerMoves DEF WillMount

(* The hook posts a mount for every drive it has yet to look at.           *)
LEMMA HookMoves ==
  ASSUME [Next]_vars, evt' # evt
  PROVE  Event \/ Restart
<1>1. ~(\E c \in Readers : ReadCall(c))
  <2>1. \A c, d, t, l : ReadHit(c, d, t, l) \/ ReadLocalFails(c, d, t, l) \/ ReadRemote(c, d, t, l) => evt' = evt
    BY DEF ReadHit, ReadLocalFails, ReadRemote, wifi
  <2>2. \A c, d, t, l : ReadLocal(c, d, t, l) => evt' = evt
    BY DEF ReadLocal, wifi
  <2>3. QED
    BY <2>1, <2>2 DEF ReadCall
<1>2. ~(\E c \in Tasks : CallStep(c))
  BY DEF CallStep, PostWait, PostFails, WaitExpires, ReadDone, ReadReturns, Dispose,
         RemoteConnect, MountSwap, MountUnlock, wifi
<1>3. ~WriteCall
  BY DEF WriteCall, WriteLocal, WriteLocalFails, WriteRemote, wifi
<1>4. ~(\E c \in Consoles : MountCall(c))
  BY DEF MountCall, RemoteConfigure, MountOpen, MountFails, UnmountDo, Unmount, wifi
<1>5. ~Worker
  BY DEF Worker, Receive, Lookup, NotReady, FetchTrack, FetchFails, SendTrack, SendFails,
         StoreTrack, DropTrack, WantMount, MountOffline, OpenSession, OpenFails, Install,
         Mismatch, Discard, CloseSession, wifi
<1>6. QED
  BY <1>1, <1>2, <1>3, <1>4, <1>5 DEF Next, vars

LEMMA ScanningOn ==
  ASSUME NEW todo, NEW d \in todo
  PROVE  Scanning(todo).pc = "scan" /\ Scanning(todo).todo = todo
BY DEF Scanning

LEMMA HookStays ==
  ASSUME CoreInv, [Next]_vars, ~Restart, NEW d \in Drives, HookComes(d), Wants(d)
  PROVE  HookComes(d)' \/ QueueComes(d)' \/ d \in failed'
<1>1. Shapes /\ WantsSession(d) /\ evt.pc \in {"scan", "post"}
  BY WantedName DEF CoreInv, HookComes
<1>2. CASE evt' = evt
  BY <1>2 DEF HookComes
<1>3. CASE ScanDrive
  <2>1. d \in evt.todo
    BY <1>3 DEF ScanDrive, HookComes
  <2>2. PICK x \in evt.todo :
          evt' = IF WantsSession(x) THEN [pc |-> "post", drive |-> x, todo |-> evt.todo \ {x}]
                 ELSE Scanning(evt.todo \ {x})
    BY <1>3 DEF ScanDrive
  <2>3. CASE x = d
    BY <1>1, <2>2, <2>3 DEF HookComes
  <2>4. CASE x # d /\ WantsSession(x)
    BY <2>1, <2>2, <2>4 DEF HookComes
  <2>5. CASE x # d /\ ~WantsSession(x)
    BY <2>1, <2>2, <2>5, ScanningOn DEF HookComes
  <2>6. QED
    BY <2>3, <2>4, <2>5
<1>4. CASE ScanPost
  <2>1. evt.pc = "post" /\ evt' = Scanning(evt.todo) /\ evt.drive \in Drives
    BY <1>1, <1>4 DEF ScanPost, Shapes, EvtState
  <2>2. CASE d \in evt.todo
    BY <2>1, <2>2, ScanningOn DEF HookComes
  <2>3. CASE evt.drive = d
    <3>1. PICK j : j = MountJob("none", d)
      OBVIOUS
    <3>2. j \in AllJobs /\ j.type = "MOUNT" /\ j.drive = d
      BY <3>1, DiskAssumption DEF MountJob, Job, AllJobs, MountJobs
    <3>3. rq' = Append(rq, j) \/ d \in failed'
      BY <1>4, <2>3, <3>1 DEF ScanPost
    <3>4. QED
      BY <1>1, <3>2, <3>3, QueueAppends
  <2>4. QED
    BY <2>1, <2>2, <2>3 DEF HookComes
<1>5. Event => evt' = evt \/ ScanDrive \/ ScanPost
  BY <1>1 DEF Event, LinkLost, OnDisconnected, RemoteUnmountAll, EvtDispose, OnGotIp
<1>6. QED
  BY <1>2, <1>3, <1>4, <1>5, HookMoves

(* A failed mount stays known until the drive is configured anew, or the   *)
(* hook posts another.                                                     *)
LEMMA FailureStays ==
  ASSUME CoreInv, [Next]_vars, ~Restart, NEW d \in Drives, d \in failed, Wants(d)',
         \A c \in Consoles : ~Configures(c, d)
  PROVE  d \in failed' \/ QueueComes(d)'
<1>1. Shapes
  BY DEF CoreInv
<1>2. CASE \E c \in Readers : ReadCall(c)
  <2>1. \A c, x, t, l : ReadHit(c, x, t, l) \/ ReadLocalFails(c, x, t, l) \/ ReadRemote(c, x, t, l)
                          => failed' = failed
    BY DEF ReadHit, ReadLocalFails, ReadRemote, history
  <2>2. \A c, x, t, l : ReadLocal(c, x, t, l) => failed' = failed
    BY DEF ReadLocal, history
  <2>3. QED
    BY <1>2, <2>1, <2>2 DEF ReadCall
<1>3. CASE \E c \in Tasks : CallStep(c)
  <2>1. PICK c \in Tasks : CallStep(c)
    BY <1>3
  <2>2. CASE MountSwap(c)
    <3>1. PICK x : x = task[c].drive
      OBVIOUS
    <3>2. ~drv'[x].remote
      BY <1>1, <2>2, <3>1, SwapEffect, SlotFields
    <3>3. failed' = failed \ {x}
      BY <2>2, <3>1 DEF MountSwap
    <3>4. QED
      BY <3>2, <3>3 DEF Wants
  <2>3. CASE ~MountSwap(c)
    BY <2>1, <2>3 DEF CallStep, PostWait, PostFails, WaitExpires, ReadDone, ReadReturns, Dispose,
                      RemoteConnect, MountUnlock, history
  <2>4. QED
    BY <2>2, <2>3
<1>4. CASE WriteCall
  BY <1>4 DEF WriteCall, WriteLocal, WriteLocalFails, WriteRemote
<1>5. CASE \E c \in Consoles : MountCall(c)
  <2>1. PICK c \in Consoles, x \in Drives :
          \/ \E url \in RemoteImages : RemoteConfigure(c, x, url)
          \/ \E img \in LocalImages : MountOpen(c, x, img)
          \/ MountFails(c, x) \/ UnmountDo(c, x)
    BY <1>5 DEF MountCall
  <2>2. CASE \E url \in RemoteImages : RemoteConfigure(c, x, url)
    <3>1. x # d
      BY <2>2 DEF Configures
    <3>2. QED
      BY <2>2, <3>1 DEF RemoteConfigure
  <2>3. CASE \E img \in LocalImages : MountOpen(c, x, img)
    BY <2>3 DEF MountOpen, history
  <2>4. CASE MountFails(c, x) \/ UnmountDo(c, x)
    <3>1. drv' = [drv EXCEPT ![x] = EmptySlot] /\ failed' = failed \ {x}
      BY <2>4 DEF MountFails, UnmountDo, Unmount
    <3>2. QED
      BY <1>1, <3>1, SlotFields DEF Shapes, Wants
  <2>5. QED
    BY <2>1, <2>2, <2>3, <2>4
<1>6. CASE Worker
  BY <1>6 DEF Worker, Receive, Lookup, NotReady, FetchTrack, FetchFails, SendTrack, SendFails,
         StoreTrack, DropTrack, WantMount, MountOffline, OpenSession, OpenFails, Install,
         Mismatch, Discard, CloseSession, history
<1>7. CASE ScanPost
  <2>1. PICK x, j : x = evt.drive /\ j = MountJob("none", x)
    OBVIOUS
  <2>2. x \in Drives
    BY <1>1, <1>7, <2>1 DEF ScanPost, Shapes, EvtState
  <2>3. j \in AllJobs /\ j.type = "MOUNT" /\ j.drive = x
    BY <2>1, <2>2, DiskAssumption DEF MountJob, Job, AllJobs, MountJobs
  <2>4. (rq' = Append(rq, j) /\ failed' = failed \ {x}) \/ failed' = failed \cup {x}
    BY <1>7, <2>1 DEF ScanPost
  <2>5. QED
    BY <1>1, <2>3, <2>4, QueueAppends
<1>8. CASE Event /\ ~ScanPost
  BY <1>8 DEF Event, LinkLost, OnDisconnected, RemoteUnmountAll, EvtDispose, OnGotIp, ScanDrive, history
<1>9. CASE UNCHANGED vars
  BY <1>9 DEF vars
<1>10. QED
  BY <1>2, <1>3, <1>4, <1>5, <1>6, <1>7, <1>8, <1>9 DEF Next

(* `mount` of a remote image on d leads to its own mount job.              *)
LEMMA ConfiguredComes ==
  ASSUME CoreInv, NEW c \in Consoles, NEW d \in Drives, Configures(c, d)
  PROVE  TaskComes(d)'
<1>1. PICK url \in RemoteImages : RemoteConfigure(c, d, url)
  BY DEF Configures
<1>2. PICK then : then = [pc |-> "connect", drive |-> d]
  OBVIOUS
<1>3. Become(c, Disposing(drv[d].backing, then))
  BY <1>1, <1>2 DEF RemoteConfigure
<1>4. task'[c] = Disposing(drv[d].backing, then)
  BY <1>3, TasksMove, TaskNames DEF CoreInv
<1>5. WillMount(Disposing(drv[d].backing, then), d)
  BY <1>2 DEF Disposing, WillMount
<1>6. QED
  BY <1>4, <1>5 DEF TaskComes

(* The connected bit.                                                      *)
LEMMA LinkMoves ==
  ASSUME [Next]_vars, link' # link \/ disc' # disc
  PROVE  LinkLost \/ OnDisconnected \/ OnGotIp \/ Restart
<1>1. ~(\E c \in Readers : ReadCall(c))
  <2>1. \A c, d, t, l : ReadHit(c, d, t, l) \/ ReadLocalFails(c, d, t, l) \/ ReadRemote(c, d, t, l)
                          => UNCHANGED <<link, disc>>
    BY DEF ReadHit, ReadLocalFails, ReadRemote, wifi
  <2>2. \A c, d, t, l : ReadLocal(c, d, t, l) => UNCHANGED <<link, disc>>
    BY DEF ReadLocal, wifi
  <2>3. QED
    BY <2>1, <2>2 DEF ReadCall
<1>2. ~(\E c \in Tasks : CallStep(c))
  BY DEF CallStep, PostWait, PostFails, WaitExpires, ReadDone, ReadReturns, Dispose,
         RemoteConnect, MountSwap, MountUnlock, wifi
<1>3. ~WriteCall
  BY DEF WriteCall, WriteLocal, WriteLocalFails, WriteRemote, wifi
<1>4. ~(\E c \in Consoles : MountCall(c))
  BY DEF MountCall, RemoteConfigure, MountOpen, MountFails, UnmountDo, Unmount, wifi
<1>5. ~Worker
  BY DEF Worker, Receive, Lookup, NotReady, FetchTrack, FetchFails, SendTrack, SendFails,
         StoreTrack, DropTrack, WantMount, MountOffline, OpenSession, OpenFails, Install,
         Mismatch, Discard, CloseSession, wifi
<1>6. Event => LinkLost \/ OnDisconnected \/ OnGotIp
  BY DEF Event, RemoteUnmountAll, EvtDispose, ScanDrive, ScanPost
<1>7. QED
  BY <1>1, <1>2, <1>3, <1>4, <1>5, <1>6 DEF Next, vars

LEMMA HookOfflineStep ==
  ASSUME CoreInv, HookOffline, [Next]_vars
  PROVE  HookOffline'
<1>1. CASE UNCHANGED <<link, disc, evt>>
  BY <1>1 DEF HookOffline
<1>2. CASE LinkLost
  BY <1>2 DEF LinkLost, HookOffline
<1>3. CASE OnDisconnected
  BY <1>3 DEF OnDisconnected, HookOffline
<1>4. CASE OnGotIp
  <2>1. evt'.pc \in {"idle", "scan"}
    BY <1>4 DEF OnGotIp, Scanning, IdleEvt
  <2>2. QED
    BY <2>1 DEF HookOffline
<1>5. CASE Restart
  BY <1>5 DEF Restart, HookOffline
<1>6. CASE RemoteUnmountAll \/ EvtDispose
  BY <1>6 DEF RemoteUnmountAll, EvtDispose, HookOffline
<1>7. CASE ScanDrive \/ ScanPost
  <2>1. evt'.pc \in {"idle", "scan", "post"}
    BY <1>7 DEF ScanDrive, ScanPost, Scanning, IdleEvt
  <2>2. QED
    BY <2>1 DEF HookOffline
<1>8. QED
  BY <1>1, <1>2, <1>3, <1>4, <1>5, <1>6, <1>7, LinkMoves, HookMoves DEF Event

LEMMA RememberedStep ==
  ASSUME CoreInv, Remembered, [Next]_vars
  PROVE  Remembered'
<1>1. HookOffline'
  BY HookOfflineStep DEF Remembered
<1>2. ASSUME NEW d \in Drives, Wants(d)', link', ~disc'
      PROVE  Comes(d)'
  <2>1. ~Restart /\ ~LinkLost /\ ~OnDisconnected
    BY <1>2 DEF Restart, LinkLost, OnDisconnected
  <2>2. ~RemoteUnmountAll
    BY <1>2 DEF RemoteUnmountAll, Remembered, HookOffline
  <2>3. CASE OnGotIp
    BY <2>3, ScanningOn DEF OnGotIp, Comes, HookComes
  <2>4. CASE \E c \in Consoles : Configures(c, d)
    BY <2>4, ConfiguredComes DEF Comes
  <2>5. CASE ~OnGotIp /\ \A c \in Consoles : ~Configures(c, d)
    <3>1. link /\ ~disc /\ drv'[d] = drv[d] /\ Wants(d)
      <4>1. link' = link /\ disc' = disc
        BY <2>1, <2>5, LinkMoves
      <4>2. drv'[d] = drv[d]
        BY <1>2, <2>1, <2>2, <2>5, WantedBefore
      <4>3. QED
        BY <1>2, <4>1, <4>2 DEF Wants
    <3>2. Comes(d)
      BY <3>1 DEF Remembered
    <3>3. QueueComes(d) => Comes(d)'
      BY <2>1, QueueStays DEF Comes
    <3>4. WorkerComes(d) => Comes(d)'
      BY <2>1, <3>1, WorkerStays DEF Comes
    <3>5. TaskComes(d) => Comes(d)'
      BY <2>1, <3>1, CallerStays DEF Comes
    <3>6. HookComes(d) => Comes(d)'
      BY <2>1, <3>1, HookStays DEF Comes
    <3>7. d \in failed => Comes(d)'
      BY <1>2, <2>1, <2>5, FailureStays DEF Comes
    <3>8. QED
      BY <3>2, <3>3, <3>4, <3>5, <3>6, <3>7 DEF Comes
  <2>6. QED
    BY <2>3, <2>4, <2>5
<1>3. QED
  BY <1>1, <1>2 DEF Remembered

LEMMA RememberedAlways == Spec => []Remembered
<1>1. Init => Remembered
  BY DEF Init, Remembered, HookOffline, IdleEvt
<1>2. CoreInv /\ Remembered /\ [Next]_vars => Remembered'
  BY RememberedStep
<1>3. QED
  BY <1>1, <1>2, CoreInvariant, PTL DEF Spec

-----------------------------------------------------------------------------
(* Theorem.                                                                *)

(* A `mount` that races with the WiFi-up hook is seen by one of them: when *)
(* WiFi is up and its hook has run, every remote drive that is not ready   *)
(* has a mount that is queued, being made or about to be posted, or one    *)
(* that failed.                                                            *)
THEOREM NoDriveForgotten == Spec => []NotForgotten
<1>1. CoreInv /\ Remembered => NotForgotten
  <2> SUFFICES ASSUME CoreInv, Remembered, NEW d \in Drives, Wants(d), link, ~disc, evt.pc = "idle"
               PROVE  MountUnderWay(d) \/ d \in failed
    BY DEF NotForgotten, Wants
  <2>1. Comes(d) /\ ~HookComes(d)
    BY DEF Remembered, HookComes
  <2>2. WorkerComes(d) => worker.pc # "idle" /\ worker.job.type = "MOUNT" /\ worker.job.drive = d
    BY WorkerFields DEF WorkerComes, CoreInv, MountJobs
  <2>3. QED
    BY <2>1, <2>2 DEF Comes, QueueComes, TaskComes, WillMount, MountUnderWay
<1>2. QED
  BY <1>1, CoreInvariant, RememberedAlways, PTL

=============================================================================
