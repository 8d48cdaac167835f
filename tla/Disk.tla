-------------------------------- MODULE Disk --------------------------------
(***************************************************************************)
(* The disk module (src/disk/disk.c): the mount table, the shared track    *)
(* buffer with its one-entry cache, whole-track I/O on local images and on *)
(* remote (tnfs://) images, the disk-I/O worker, and the WiFi hooks that   *)
(* net.c calls.                                                            *)
(*                                                                         *)
(* Four kinds of task run concurrently:                                    *)
(*   - the fdc task, which reads and writes tracks;                        *)
(*   - the consoles, which mount, unmount and read tracks (`dump`);        *)
(*   - the event task, which runs the WiFi-up and WiFi-down hooks;         *)
(*   - the worker, which alone uses the sessions of remote images.         *)
(* A section under s_lock is one step.  A job's hand-off (the semaphore    *)
(* and s_job_mtx) is one step here; RemoteJobs takes it apart.             *)
(*                                                                         *)
(* An image is a sequence of ImageSize cells.  The n-th track write of a   *)
(* behaviour fills its track with n, so a cell tells which write it comes  *)
(* from.  Sizes, offsets and bounds are those of protocol.h (Geometry).    *)
(***************************************************************************)
EXTENDS Geometry, Integers, Sequences, FiniteSets

CONSTANTS
    Drives,        \* 0..DISK_MAX_DRIVE-1
    LocalImages,   \* names of image files on the SD card
    RemoteImages,  \* tnfs:// URLs
    Backings,      \* the heap blocks a disk_backing_t may be allocated in
    Consoles,      \* the tasks that run `mount` and `unmount`
    Readers,       \* the tasks that read tracks: the fdc task, and consoles in `dump`
    ImageSize,     \* cells of an image
    Requests,      \* the <<track, len>> pairs asked for
    BufSize,       \* DISK_TRACK_BUF_SIZE
    QueueLen,      \* REMOTE_QUEUE_LEN
    MaxWrites,     \* bound on the track writes of a behaviour
    Shared,        \* whether an image may be mounted on two drives
    OutOfMemory,   \* whether an allocation may fail
    Restarts,      \* whether the device may restart
    NoName,        \* the empty name
    NoBacking      \* the null pointer

ASSUME DiskAssumption ==
    /\ Drives \subseteq Nat
    /\ LocalImages \cap RemoteImages = {}
    /\ NoName \notin LocalImages \cup RemoteImages
    /\ NoName \notin [img : LocalImages \cup RemoteImages, ro : BOOLEAN]
    /\ NoBacking \notin Backings
    /\ "fdc" \notin Consoles /\ "none" \notin Consoles \cup Readers
    /\ ImageSize \in UInt32 /\ BufSize \in UInt32 \ {0}
    /\ Requests \subseteq UInt32 \X UInt32
    /\ QueueLen \in Nat \ {0}
    /\ MaxWrites \in Nat
    /\ Shared \in BOOLEAN /\ OutOfMemory \in BOOLEAN /\ Restarts \in BOOLEAN

Images == LocalImages \cup RemoteImages
Tasks == {"fdc"} \cup Consoles \cup Readers

VARIABLES
    drv,      \* s_drv, the mount table
    cache,    \* s_cache and the contents of s_track_buf it describes
    heap,     \* the open backings: image and access mode, or NoName when free
    store,    \* the contents of the image files, on the card and on the servers
    rq,       \* s_rq
    worker,   \* the state of diskio_task
    task,     \* the state of each calling task
    mlock,    \* the holder of s_mount_lock
    link,     \* NET_CONNECTED_BIT
    disc,     \* whether a DISCONNECTED event waits for the event task
    evt       \* the state of the event task

(* History variables. *)
VARIABLES
    leaked,   \* sessions whose close could not be posted
    written,  \* track writes issued so far
    acked,    \* per cell, the last write reported as done
    failed    \* remote drives whose last mount attempt failed for good

table == <<drv, cache>>
files == <<heap, store>>
jobs == <<rq, worker>>
wifi == <<link, disc, evt>>
history == <<leaked, written, acked, failed>>
vars == <<drv, cache, heap, store, rq, worker, task, mlock, link, disc, evt,
          leaked, written, acked, failed>>

-----------------------------------------------------------------------------
(* Types. *)

Cells == 0..(ImageSize - 1)
Contents == [Cells -> 0..MaxWrites]

EmptySlot == [mounted |-> FALSE, remote |-> FALSE, readonly |-> FALSE,
              name |-> NoName, backing |-> NoBacking]
RemoteSlot(url) == [mounted |-> FALSE, remote |-> TRUE, readonly |-> FALSE,
                    name |-> url, backing |-> NoBacking]
LocalSlot(img, b) == [mounted |-> TRUE, remote |-> FALSE, readonly |-> FALSE,
                      name |-> img, backing |-> b]

NoCache == [valid |-> FALSE]

\* A job: who waits for it ("none": fire-and-forget or abandoned), and for a
\* write its number n.
Job(type, by, d, r, n) ==
    [type |-> type, by |-> by, drive |-> d, track |-> r[1], len |-> r[2], n |-> n]

CloseJob(b) == [type |-> "CLOSE", by |-> "none", bclose |-> b]
MountJob(by, d) == Job("MOUNT", by, d, <<0, 0>>, 0)

IdleTask == [pc |-> "idle"]
IdleWorker == [pc |-> "idle"]
IdleEvt == [pc |-> "idle"]

-----------------------------------------------------------------------------
(* Helpers of disk.c. *)

Free == {b \in Backings : heap[b] = NoName}
Open(b, img, ro) == [heap EXCEPT ![b] = [img |-> img, ro |-> ro]]
Close(b) == [heap EXCEPT ![b] = NoName]
ImageOf(b) == heap[b].img

\* cache_drop_drive
cache_drop_drive(d) == IF cache.valid /\ cache.drive = d THEN NoCache ELSE cache

Hit(d, t, l) ==
    cache.valid /\ cache.drive = d /\ cache.track = t /\ cache.len = l

\* The cells of a track, and what an image holds there.
CellsOf(t, l) == disk_track_offset(t, l) .. (disk_track_offset(t, l) + l - 1)
TrackOf(img, t, l) ==
    [i \in 0..(l - 1) |-> store[img][disk_track_offset(t, l) + i]]

Fill(d, t, l, data) ==
    [valid |-> TRUE, drive |-> d, track |-> t, len |-> l, data |-> data]

WriteCells(img, cells, n) ==
    [store EXCEPT ![img] = [x \in Cells |-> IF x \in cells THEN n ELSE @[x]]]

\* check_track: ESP_OK
check_track(d, t, l) ==
    /\ l # 0 /\ l <= BufSize
    /\ drv[d].mounted /\ drv[d].backing # NoBacking
    /\ disk_track_in_bounds(t, l, ImageSize)

\* An image is free to be mounted on d: any image, or, in instances without
\* sharing, one that no other drive is configured with.
MayMount(img, d) == Shared \/ \A e \in Drives \ {d} : drv[e].name # img

-----------------------------------------------------------------------------
(* Boot.  disk_automount mounts the local images of the saved configuration *)
(* and registers the remote ones as not ready; a local image that cannot be *)
(* opened leaves the drive empty.                                           *)

BootConfigs ==
    {cfg \in [Drives -> Images \cup {NoName}] :
        Shared \/ \A d, e \in Drives : cfg[d] = cfg[e] => d = e \/ cfg[d] = NoName}

\* The blocks in which the backings of the local images are allocated.
BootBackings(cfg) ==
    {f \in [{d \in Drives : cfg[d] \in LocalImages} -> Backings] :
        \A d, e \in DOMAIN f : f[d] = f[e] => d = e}

BootDrives(cfg, f) ==
    [d \in Drives |->
        CASE cfg[d] \in LocalImages -> LocalSlot(cfg[d], f[d])
          [] cfg[d] \in RemoteImages -> RemoteSlot(cfg[d])
          [] OTHER -> EmptySlot]

BootHeap(cfg, f) ==
    [b \in Backings |->
        IF \E d \in DOMAIN f : f[d] = b
        THEN [img |-> cfg[CHOOSE d \in DOMAIN f : f[d] = b], ro |-> FALSE]
        ELSE NoName]

Init ==
    /\ \E cfg \in BootConfigs : \E f \in BootBackings(cfg) :
        /\ drv = BootDrives(cfg, f)
        /\ heap = BootHeap(cfg, f)
    /\ cache = NoCache
    /\ store = [i \in Images |-> [x \in Cells |-> 0]]
    /\ rq = <<>>
    /\ worker = IdleWorker
    /\ task = [c \in Tasks |-> IdleTask]
    /\ mlock = "none"
    /\ link = FALSE /\ disc = FALSE
    /\ evt = IdleEvt
    /\ leaked = {}
    /\ written = 0
    /\ acked = store
    /\ failed = {}

\* Power loss, or the restart that ends `reboot` and an update: the RAM is gone,
\* the images are not, and the device boots with some saved configuration.
Restart ==
    /\ Restarts
    /\ \E cfg \in BootConfigs : \E f \in BootBackings(cfg) :
        /\ drv' = BootDrives(cfg, f)
        /\ heap' = BootHeap(cfg, f)
    /\ cache' = NoCache
    /\ rq' = <<>>
    /\ worker' = IdleWorker
    /\ task' = [c \in Tasks |-> IdleTask]
    /\ mlock' = "none"
    /\ link' = FALSE /\ disc' = FALSE
    /\ evt' = IdleEvt
    /\ leaked' = {}
    /\ failed' = {}
    /\ UNCHANGED <<store, written, acked>>

-----------------------------------------------------------------------------
(* Posting and waiting for jobs (rjob_post_wait, rjob_post_async). *)

\* Seeded bug of Room: off by one.
RoomForOneMore == Len(rq) <= QueueLen

Room == Len(rq) < QueueLen

\* A post fails when the queue stays full for REMOTE_QSEND_MS or memory runs out.
PostMayFail == ~Room \/ OutOfMemory

Idle(c) == task[c].pc = "idle"

Become(c, state) == task' = [task EXCEPT ![c] = state]

\* The caller has built a job (rjob_new, rjob_new_io) and sends it.
PostWait(c) ==
    /\ task[c].pc = "post"
    /\ Room
    /\ rq' = Append(rq, task[c].job)
    /\ Become(c, [task[c] EXCEPT !.pc = "wait"])
    /\ UNCHANGED <<table, files, worker, mlock, wifi, history>>

\* The job cannot be posted: the call fails.
PostFails(c) ==
    /\ task[c].pc = "post" /\ PostMayFail
    /\ Become(c, IdleTask)
    /\ failed' = IF task[c].job.type = "MOUNT"
                   THEN failed \cup {task[c].job.drive} ELSE failed
    /\ UNCHANGED <<table, files, jobs, mlock, wifi, leaked, written, acked>>

\* The wait times out: the job is abandoned, and the worker runs it all the same.
WaitExpires(c) ==
    LET orphan(j) == IF j.by = c THEN [j EXCEPT !.by = "none"] ELSE j IN
    /\ task[c].pc = "wait"
    /\ rq' = [i \in 1..Len(rq) |-> orphan(rq[i])]
    /\ worker' = IF worker.pc = "idle" THEN worker
                  ELSE [worker EXCEPT !.job = orphan(@)]
    /\ Become(c, IdleTask)
    /\ UNCHANGED <<table, files, mlock, wifi, history>>

-----------------------------------------------------------------------------
(* Track I/O (disk_read_track, disk_write_track). *)

\* A call that check_track rejects, or a write to a read-only drive, changes
\* nothing and is a stuttering step.

\* The caller has the track: it was copied to its own buffer under the lock.
Copied(c, d, t, l, data) ==
    Become(c, [pc |-> "copied", drive |-> d, track |-> t, len |-> l, data |-> data])

\* cache_copy_out at the start of a read.
ReadHit(c, d, t, l) ==
    /\ Idle(c)
    /\ check_track(d, t, l) /\ Hit(d, t, l)
    /\ Copied(c, d, t, l, cache.data)
    /\ UNCHANGED <<table, files, jobs, mlock, wifi, history>>

\* A local read that misses: inline, under the lock.
ReadLocal(c, d, t, l) ==
    LET data == TrackOf(ImageOf(drv[d].backing), t, l) IN
    /\ Idle(c)
    /\ check_track(d, t, l) /\ ~Hit(d, t, l) /\ ~drv[d].remote
    /\ cache' = Fill(d, t, l, data)
    /\ Copied(c, d, t, l, data)
    /\ UNCHANGED <<drv, files, jobs, mlock, wifi, history>>

\* ... the card fails: the buffer may be half filled, so nothing is cached.
ReadLocalFails(c, d, t, l) ==
    /\ Idle(c)
    /\ check_track(d, t, l) /\ ~Hit(d, t, l) /\ ~drv[d].remote
    /\ cache' = NoCache
    /\ UNCHANGED <<drv, files, jobs, task, mlock, wifi, history>>

\* A remote read that misses becomes a job; the lock is released.
ReadRemote(c, d, t, l) ==
    /\ Idle(c)
    /\ check_track(d, t, l) /\ ~Hit(d, t, l) /\ drv[d].remote
    /\ Become(c, [pc |-> "post", job |-> Job("READ", c, d, <<t, l>>, 0)])
    /\ UNCHANGED <<table, files, jobs, mlock, wifi, history>>

\* Seeded bug of ReadDone: whatever s_track_buf holds now is copied.
ReadDoneUnchecked(c) ==
    LET j == task[c].job IN
    /\ task[c].pc = "done"
    /\ IF cache.valid
       THEN Copied(c, j.drive, j.track, j.len, cache.data)
       ELSE Become(c, IdleTask)
    /\ UNCHANGED <<table, files, jobs, mlock, wifi, history>>

\* The job of a read succeeded: the track is copied out of the cache if the cache
\* still holds it; otherwise the call fails.
ReadDone(c) ==
    LET j == task[c].job IN
    /\ task[c].pc = "done"
    /\ IF Hit(j.drive, j.track, j.len)
       THEN Copied(c, j.drive, j.track, j.len, cache.data)
       ELSE Become(c, IdleTask)
    /\ UNCHANGED <<table, files, jobs, mlock, wifi, history>>

\* The caller is finished with its copy of the track.
ReadReturns(c) ==
    /\ task[c].pc = "copied"
    /\ Become(c, IdleTask)
    /\ UNCHANGED <<table, files, jobs, mlock, wifi, history>>

\* The writes are numbered; the number stands for the data.
NextWrite == written + 1

\* The write is reported to the host as done.
Ack(img, t, l, n) ==
    acked' = [acked EXCEPT ![img] =
                [x \in Cells |-> IF x \in CellsOf(t, l) THEN n ELSE @[x]]]

\* A local write: inline under the lock, synced to the card before it returns.
WriteLocal(d, t, l) ==
    LET img == ImageOf(drv[d].backing) IN
    /\ Idle("fdc") /\ written < MaxWrites
    /\ check_track(d, t, l) /\ ~drv[d].readonly /\ ~drv[d].remote
    /\ written' = NextWrite
    /\ store' = WriteCells(img, CellsOf(t, l), NextWrite)
    /\ cache' = Fill(d, t, l, [i \in 0..(l - 1) |-> NextWrite])
    /\ Ack(img, t, l, NextWrite)
    /\ UNCHANGED <<drv, heap, jobs, task, mlock, wifi, leaked, failed>>

\* Seeded bug of WriteLocalFails: the cached track is kept.
WriteLocalFailsKeeping(d, t, l) ==
    /\ Idle("fdc") /\ written < MaxWrites
    /\ check_track(d, t, l) /\ ~drv[d].readonly /\ ~drv[d].remote
    /\ written' = NextWrite
    /\ \E part \in SUBSET CellsOf(t, l) :
        store' = WriteCells(ImageOf(drv[d].backing), part, NextWrite)
    /\ UNCHANGED <<table, heap, jobs, task, mlock, wifi, leaked, acked, failed>>

\* ... the card fails after some of it was written.
WriteLocalFails(d, t, l) ==
    /\ Idle("fdc") /\ written < MaxWrites
    /\ check_track(d, t, l) /\ ~drv[d].readonly /\ ~drv[d].remote
    /\ written' = NextWrite
    /\ \E part \in SUBSET CellsOf(t, l) :
        store' = WriteCells(ImageOf(drv[d].backing), part, NextWrite)
    /\ cache' = cache_drop_drive(d)
    /\ UNCHANGED <<drv, heap, jobs, task, mlock, wifi, leaked, acked, failed>>

\* A remote write becomes a job with its own copy of the data.
WriteRemote(d, t, l) ==
    /\ Idle("fdc") /\ written < MaxWrites
    /\ check_track(d, t, l) /\ ~drv[d].readonly /\ drv[d].remote
    /\ written' = NextWrite
    /\ Become("fdc", [pc |-> "post", job |-> Job("WRITE", "fdc", d, <<t, l>>, NextWrite)])
    /\ UNCHANGED <<table, files, jobs, mlock, wifi, leaked, acked, failed>>

-----------------------------------------------------------------------------
(* Mounting and unmounting (the consoles). *)

\* A session is closed by the worker; it is leaked if the job cannot be posted.
HandToWorker(b) ==
    \/ Room /\ rq' = Append(rq, CloseJob(b)) /\ UNCHANGED leaked
    \/ PostMayFail /\ leaked' = leaked \cup {b} /\ UNCHANGED rq

\* backing_dispose: the caller has taken b out of the table.  A local image is
\* closed at once; a session is handed to the worker.
\* `then` is what the caller does next.
Disposing(b, then) ==
    IF b = NoBacking THEN then ELSE [pc |-> "dispose", b |-> b, then |-> then]

\* Seeded bug of Dispose: a session is closed here, under the worker's feet.
DisposeHere(c) ==
    /\ task[c].pc = "dispose"
    /\ heap' = Close(task[c].b)
    /\ Become(c, task[c].then)
    /\ UNCHANGED <<table, store, jobs, mlock, wifi, history>>

Dispose(c) ==
    LET b == task[c].b IN
    /\ task[c].pc = "dispose"
    /\ \/ /\ ImageOf(b) \in LocalImages
          /\ heap' = Close(b)
          /\ UNCHANGED <<rq, leaked>>
       \/ /\ ImageOf(b) \in RemoteImages
          /\ HandToWorker(b)
          /\ UNCHANGED heap
    /\ Become(c, task[c].then)
    /\ UNCHANGED <<table, store, worker, mlock, wifi, written, acked, failed>>

MountFree(c) == mlock \in {"none", c}

\* remote_configure: the slot becomes a remote drive that is not ready.
RemoteConfigure(c, d, url) ==
    /\ Idle(c) /\ MountFree(c) /\ MayMount(url, d)
    /\ drv' = [drv EXCEPT ![d] = RemoteSlot(url)]
    /\ cache' = cache_drop_drive(d)
    /\ failed' = failed \ {d}
    /\ Become(c, Disposing(drv[d].backing, [pc |-> "connect", drive |-> d]))
    /\ UNCHANGED <<files, jobs, mlock, wifi, leaked, written, acked>>

\* Seeded bug of RemoteConnect: the mount is always left to the WiFi-up hook.
RemoteConnectNever(c) ==
    /\ task[c].pc = "connect"
    /\ Become(c, IdleTask)
    /\ UNCHANGED <<table, files, jobs, mlock, wifi, history>>

\* ... whose session is opened now if WiFi is up, and by the WiFi-up hook if not.
RemoteConnect(c) ==
    /\ task[c].pc = "connect"
    /\ Become(c, IF link THEN [pc |-> "post", job |-> MountJob(c, task[c].drive)]
                  ELSE IdleTask)
    /\ UNCHANGED <<table, files, jobs, mlock, wifi, history>>

\* disk_mount of a local image: open it, with the mount lock held ...
MountOpen(c, d, img) ==
    /\ Idle(c) /\ mlock = "none" /\ MayMount(img, d)
    /\ \E b \in Free :
        /\ heap' = Open(b, img, FALSE)
        /\ Become(c, [pc |-> "opened", b |-> b, drive |-> d, img |-> img])
    /\ mlock' = c
    /\ UNCHANGED <<table, store, jobs, wifi, history>>

\* Seeded bug of MountSwap: the old backing is overwritten and not disposed of.
MountSwapLosing(c) ==
    LET d == task[c].drive IN
    /\ task[c].pc = "opened"
    /\ drv' = [drv EXCEPT ![d] = LocalSlot(task[c].img, task[c].b)]
    /\ cache' = cache_drop_drive(d)
    /\ failed' = failed \ {d}
    /\ mlock' = "none"
    /\ Become(c, IdleTask)
    /\ UNCHANGED <<files, jobs, wifi, leaked, written, acked>>

\* ... and swap it in; the mount lock is released before the old one is closed.
MountSwap(c) ==
    LET d == task[c].drive IN
    /\ task[c].pc = "opened"
    /\ drv' = [drv EXCEPT ![d] = LocalSlot(task[c].img, task[c].b)]
    /\ cache' = cache_drop_drive(d)
    /\ failed' = failed \ {d}
    /\ mlock' = "none"
    /\ Become(c, Disposing(drv[d].backing, IdleTask))
    /\ UNCHANGED <<files, jobs, wifi, leaked, written, acked>>

\* disk_unmount's locked section.
Unmount(c, d, then) ==
    /\ MountFree(c)
    /\ drv' = [drv EXCEPT ![d] = EmptySlot]
    /\ cache' = cache_drop_drive(d)
    /\ failed' = failed \ {d}
    /\ Become(c, Disposing(drv[d].backing, then))
    /\ UNCHANGED <<files, jobs, wifi, leaked, written, acked>>

\* disk_mount cannot open the image (no such file, no memory): the old disk goes,
\* and the mount lock is held until it is disposed of.  Without a card the same
\* happens before the mount lock is taken.
MountFails(c, d) ==
    /\ Idle(c) /\ mlock = "none"
    /\ \/ Unmount(c, d, [pc |-> "unlock"]) /\ mlock' = c
       \/ Unmount(c, d, IdleTask) /\ UNCHANGED mlock

MountUnlock(c) ==
    /\ task[c].pc = "unlock"
    /\ mlock' = "none"
    /\ Become(c, IdleTask)
    /\ UNCHANGED <<table, files, jobs, wifi, history>>

\* disk_unmount.  cmd_unmount looks first whether the drive is mounted, without a
\* lock, so it may find the drive in any state; disk_unmount_all calls it for every
\* drive in turn.
UnmountDo(c, d) ==
    /\ Idle(c)
    /\ Unmount(c, d, IdleTask)
    /\ UNCHANGED mlock

-----------------------------------------------------------------------------
(* The worker (diskio_task). *)

Work(state) == worker' = state

Receive ==
    /\ worker.pc = "idle"
    /\ rq # <<>>
    /\ Work([pc |-> "got", job |-> Head(rq)])
    /\ rq' = Tail(rq)
    /\ UNCHANGED <<table, files, task, mlock, wifi, history>>

\* rjob_complete, and the return of the caller that waits for the job, if any: a
\* write that succeeded on image img is reported to the host, and a read goes on to
\* copy the track out of the cache.
Complete(ok, img) ==
    LET j == worker.job IN
    /\ IF j.by = "none" THEN UNCHANGED task
       ELSE Become(j.by, IF ok /\ j.type = "READ" THEN [pc |-> "done", job |-> j]
                         ELSE IdleTask)
    /\ IF ok /\ j.by # "none" /\ j.type = "WRITE"
       THEN Ack(img, j.track, j.len, j.n) ELSE UNCHANGED acked
    /\ Work(IdleWorker)

\* The worker goes on with a job whose caller is still waiting.
Continue(state) == Work(state) /\ UNCHANGED <<task, acked>>

\* Seeded bug of Lookup: the read-only flag was checked by the caller already.
LookupReadOnly ==
    LET j == worker.job
        usable == /\ drv[j.drive].mounted /\ drv[j.drive].remote
                  /\ disk_track_in_bounds(j.track, j.len, ImageSize)
    IN
    /\ worker.pc = "got" /\ j.type \in {"READ", "WRITE"}
    /\ Continue([pc |-> "picked", job |-> j,
                 b |-> IF usable THEN drv[j.drive].backing ELSE NoBacking])
    /\ UNCHANGED <<table, files, rq, mlock, wifi, leaked, written, failed>>

\* worker_read and worker_write look the drive up under the lock, ...
Lookup ==
    LET j == worker.job
        usable == /\ drv[j.drive].mounted /\ drv[j.drive].remote
                  /\ j.type = "WRITE" => ~drv[j.drive].readonly
                  /\ drv[j.drive].backing # NoBacking
                  /\ disk_track_in_bounds(j.track, j.len, ImageSize)
    IN
    /\ worker.pc = "got" /\ j.type \in {"READ", "WRITE"}
    /\ Continue([pc |-> "picked", job |-> j,
                 b |-> IF usable THEN drv[j.drive].backing ELSE NoBacking])
    /\ UNCHANGED <<table, files, rq, mlock, wifi, leaked, written, failed>>

\* ... give up if it is not ready or WiFi is down, ...
NotReady ==
    /\ worker.pc = "picked"
    /\ worker.b = NoBacking \/ ~link
    /\ Complete(FALSE, NoName)
    /\ UNCHANGED <<table, files, rq, mlock, wifi, leaked, written, failed>>

Usable(type) ==
    /\ worker.pc = "picked" /\ worker.job.type = type
    /\ worker.b # NoBacking /\ link

\* The server can be reached; net_is_connected does not know yet of a lost link.
Reachable == ~disc

\* ... or read the track from the server into the private buffer s_stage,
FetchTrack ==
    LET j == worker.job IN
    /\ Usable("READ") /\ Reachable
    /\ Continue([pc |-> "store", job |-> j, b |-> worker.b,
                 data |-> TrackOf(ImageOf(worker.b), j.track, j.len)])
    /\ UNCHANGED <<table, files, rq, mlock, wifi, leaked, written, failed>>

FetchFails ==
    /\ Usable("READ")
    /\ Complete(FALSE, NoName)
    /\ UNCHANGED <<table, files, rq, mlock, wifi, leaked, written, failed>>

\* ... or write it to the server,
SendTrack ==
    LET j == worker.job IN
    /\ Usable("WRITE") /\ Reachable
    /\ store' = WriteCells(ImageOf(worker.b), CellsOf(j.track, j.len), j.n)
    /\ Continue([pc |-> "store", job |-> j, b |-> worker.b,
                 data |-> [i \in 0..(j.len - 1) |-> j.n]])
    /\ UNCHANGED <<table, heap, rq, mlock, wifi, leaked, written, failed>>

\* in chunks, of which the failure of one leaves some written.
SendFails ==
    LET j == worker.job IN
    /\ Usable("WRITE")
    /\ \E part \in SUBSET CellsOf(j.track, j.len) :
        store' = WriteCells(ImageOf(worker.b), part, j.n)
    /\ Continue([pc |-> "drop", job |-> j, b |-> worker.b])
    /\ UNCHANGED <<table, heap, rq, mlock, wifi, leaked, written, failed>>

\* Seeded bug of StoreTrack: the cache is filled whatever became of the drive.
StoreTrackAnyway ==
    LET j == worker.job IN
    /\ worker.pc = "store"
    /\ cache' = Fill(j.drive, j.track, j.len, worker.data)
    /\ Complete(TRUE, ImageOf(worker.b))
    /\ UNCHANGED <<drv, files, rq, mlock, wifi, leaked, written, failed>>

\* Under the lock again: the track goes to s_track_buf and the cache if the drive
\* still has the session it came from.  A read of a drive that was changed
\* meanwhile fails; a write has been made all the same.
StoreTrack ==
    LET j == worker.job
        same == drv[j.drive].mounted /\ drv[j.drive].backing = worker.b
    IN
    /\ worker.pc = "store"
    /\ cache' = IF same THEN Fill(j.drive, j.track, j.len, worker.data) ELSE cache
    /\ Complete(same \/ j.type = "WRITE", ImageOf(worker.b))
    /\ UNCHANGED <<drv, files, rq, mlock, wifi, leaked, written, failed>>

\* Seeded bug of DropTrack: the error of the write is lost.
DropTrackOk ==
    /\ worker.pc = "drop"
    /\ cache' = cache_drop_drive(worker.job.drive)
    /\ Complete(TRUE, ImageOf(worker.b))
    /\ UNCHANGED <<drv, files, rq, mlock, wifi, leaked, written, failed>>

\* After a failed write nothing of the drive is cached.
DropTrack ==
    /\ worker.pc = "drop"
    /\ cache' = cache_drop_drive(worker.job.drive)
    /\ Complete(FALSE, NoName)
    /\ UNCHANGED <<drv, files, rq, mlock, wifi, leaked, written, failed>>

\* A remote drive that is not ready.
WantsSession(d) == drv[d].remote /\ ~drv[d].mounted /\ drv[d].name # NoName

\* worker_mount: does the drive still want a session?
WantMount ==
    LET d == worker.job.drive IN
    /\ worker.pc = "got" /\ worker.job.type = "MOUNT"
    /\ IF WantsSession(d)
       THEN Continue([pc |-> "want", job |-> worker.job, url |-> drv[d].name])
       ELSE Complete(TRUE, NoName)
    /\ UNCHANGED <<table, files, rq, mlock, wifi, leaked, written, failed>>

\* WiFi is down: leave it to the WiFi-up hook.
MountOffline ==
    /\ worker.pc = "want" /\ ~link
    /\ Complete(FALSE, NoName)
    /\ UNCHANGED <<table, files, rq, mlock, wifi, leaked, written, failed>>

\* tnfs_open read-write, or read-only if the server refuses.
OpenSession ==
    /\ worker.pc = "want" /\ link /\ Reachable
    /\ \E b \in Free, ro \in BOOLEAN :
        /\ heap' = Open(b, worker.url, ro)
        /\ Continue([pc |-> "install", job |-> worker.job, url |-> worker.url, b |-> b])
    /\ UNCHANGED <<table, store, rq, mlock, wifi, leaked, written, failed>>

\* Neither is granted, or there is no memory for the backing.
OpenFails ==
    /\ worker.pc = "want" /\ link
    /\ failed' = failed \cup {worker.job.drive}
    /\ Complete(FALSE, NoName)
    /\ UNCHANGED <<table, files, rq, mlock, wifi, leaked, written>>

\* Seeded bug of Install: the slot is not looked at again.
InstallBlindly ==
    LET d == worker.job.drive IN
    /\ worker.pc = "install"
    /\ drv' = [drv EXCEPT ![d].backing = worker.b, ![d].mounted = TRUE,
                          ![d].readonly = heap[worker.b].ro]
    /\ cache' = cache_drop_drive(d)
    /\ Complete(TRUE, NoName)
    /\ UNCHANGED <<files, rq, mlock, wifi, leaked, written, failed>>

\* Under the lock: install the session if the slot still asks for this URL.
Install ==
    LET d == worker.job.drive IN
    /\ worker.pc = "install"
    /\ WantsSession(d) /\ drv[d].name = worker.url
    /\ drv' = [drv EXCEPT ![d].backing = worker.b, ![d].mounted = TRUE,
                          ![d].readonly = heap[worker.b].ro]
    /\ cache' = cache_drop_drive(d)
    /\ Complete(TRUE, NoName)
    /\ UNCHANGED <<files, rq, mlock, wifi, leaked, written, failed>>

\* The slot has changed, as seen under the lock; the session is closed after it.
Mismatch ==
    LET d == worker.job.drive IN
    /\ worker.pc = "install"
    /\ ~(WantsSession(d) /\ drv[d].name = worker.url)
    /\ Continue([worker EXCEPT !.pc = "discard"])
    /\ UNCHANGED <<table, files, rq, mlock, wifi, leaked, written, failed>>

Discard ==
    /\ worker.pc = "discard"
    /\ heap' = Close(worker.b)
    /\ Complete(TRUE, NoName)
    /\ UNCHANGED <<table, store, rq, mlock, wifi, leaked, written, failed>>

CloseSession ==
    /\ worker.pc = "got" /\ worker.job.type = "CLOSE"
    /\ heap' = Close(worker.job.bclose)
    /\ Complete(TRUE, NoName)
    /\ UNCHANGED <<table, store, rq, mlock, wifi, leaked, written, failed>>

Worker ==
    \/ Receive \/ Lookup \/ NotReady \/ FetchTrack \/ FetchFails
    \/ SendTrack \/ SendFails \/ StoreTrack \/ DropTrack
    \/ WantMount \/ MountOffline \/ OpenSession \/ OpenFails
    \/ Install \/ Mismatch \/ Discard \/ CloseSession

-----------------------------------------------------------------------------
(* The WiFi hooks, on the event task (net.c on_event). *)

\* The link is lost: the driver queues a DISCONNECTED event.  `wifi off` also
\* clears the connected bit by itself (net_wifi_enable).
LinkLost ==
    /\ link /\ ~disc
    /\ disc' = TRUE
    /\ link' \in BOOLEAN
    /\ UNCHANGED <<table, files, jobs, task, mlock, evt, history>>

\* WIFI_EVENT_STA_DISCONNECTED: clear the bit ...
OnDisconnected ==
    /\ evt.pc = "idle" /\ disc
    /\ disc' = FALSE
    /\ link' = FALSE
    /\ evt' = [pc |-> "down"]
    /\ UNCHANGED <<table, files, jobs, task, mlock, history>>

\* The sessions the hook has yet to hand to the worker.
Closing(bs) == IF bs = {} THEN IdleEvt ELSE [pc |-> "dispose", close |-> bs]

\* ... and disk_remote_unmount_all: every remote drive is not ready at once, ...
RemoteUnmountAll ==
    LET gone == {d \in Drives : drv[d].remote /\ drv[d].mounted} IN
    /\ evt.pc = "down"
    /\ drv' = [d \in Drives |-> IF d \in gone THEN RemoteSlot(drv[d].name) ELSE drv[d]]
    /\ cache' = IF cache.valid /\ cache.drive \in gone THEN NoCache ELSE cache
    /\ evt' = Closing({drv[d].backing : d \in gone})
    /\ UNCHANGED <<files, jobs, task, mlock, link, disc, history>>

\* ... and the sessions are handed to the worker, one after the other.
EvtDispose ==
    /\ evt.pc = "dispose"
    /\ \E b \in evt.close : HandToWorker(b) /\ evt' = Closing(evt.close \ {b})
    /\ UNCHANGED <<table, files, worker, task, mlock, link, disc, written, acked, failed>>

\* The drives from d on that the hook has yet to look at.
Scanning(todo) == IF todo = {} THEN IdleEvt ELSE [pc |-> "scan", todo |-> todo]

\* IP_EVENT_STA_GOT_IP, on a connection or a new lease: set the bit ...
OnGotIp ==
    /\ evt.pc = "idle" /\ ~disc
    /\ link' = TRUE
    /\ evt' = Scanning(Drives)
    /\ UNCHANGED <<table, files, jobs, task, mlock, disc, history>>

\* ... and disk_remote_mount_all: look at each drive in turn, under the lock, ...
ScanDrive ==
    /\ evt.pc = "scan"
    /\ \E d \in evt.todo :
        /\ \A y \in evt.todo : d <= y
        /\ evt' = IF WantsSession(d) THEN [pc |-> "post", drive |-> d, todo |-> evt.todo \ {d}]
                  ELSE Scanning(evt.todo \ {d})
    /\ UNCHANGED <<table, files, jobs, task, mlock, link, disc, history>>

\* ... and post a mount for the ones that want it, if the queue takes it.
ScanPost ==
    /\ evt.pc = "post"
    /\ \/ /\ Room
          /\ rq' = Append(rq, MountJob("none", evt.drive))
          /\ failed' = failed \ {evt.drive}
       \/ /\ PostMayFail
          /\ failed' = failed \cup {evt.drive}
          /\ UNCHANGED rq
    /\ evt' = Scanning(evt.todo)
    /\ UNCHANGED <<table, files, worker, task, mlock, link, disc, leaked, written, acked>>

Event ==
    \/ LinkLost \/ OnDisconnected \/ RemoteUnmountAll \/ EvtDispose
    \/ OnGotIp \/ ScanDrive \/ ScanPost

-----------------------------------------------------------------------------

ReadCall(c) ==
    \E d \in Drives, r \in Requests :
        \/ ReadHit(c, d, r[1], r[2]) \/ ReadLocal(c, d, r[1], r[2])
        \/ ReadLocalFails(c, d, r[1], r[2]) \/ ReadRemote(c, d, r[1], r[2])

WriteCall ==
    \E d \in Drives, r \in Requests :
        \/ WriteLocal(d, r[1], r[2]) \/ WriteLocalFails(d, r[1], r[2])
        \/ WriteRemote(d, r[1], r[2])

MountCall(c) ==
    \E d \in Drives :
        \/ \E url \in RemoteImages : RemoteConfigure(c, d, url)
        \/ \E img \in LocalImages : MountOpen(c, d, img)
        \/ MountFails(c, d)
        \/ UnmountDo(c, d)

\* A call in progress goes on.
CallStep(c) ==
    \/ PostWait(c) \/ PostFails(c) \/ WaitExpires(c)
    \/ ReadDone(c) \/ ReadReturns(c)
    \/ Dispose(c) \/ RemoteConnect(c) \/ MountSwap(c) \/ MountUnlock(c)

Next ==
    \/ \E c \in Readers : ReadCall(c)
    \/ \E c \in Tasks : CallStep(c)
    \/ WriteCall
    \/ \E c \in Consoles : MountCall(c)
    \/ Worker
    \/ Event
    \/ Restart

Spec == Init /\ [][Next]_vars

\* Every task is scheduled, and network calls end because tnfs_open and the track
\* I/O time out; that WiFi comes back is not assumed.
Fairness ==
    /\ WF_vars(Worker)
    /\ WF_vars(OnDisconnected)
    /\ WF_vars(RemoteUnmountAll \/ EvtDispose \/ ScanDrive \/ ScanPost)
    /\ \A c \in Tasks : WF_vars(CallStep(c))

LiveSpec == Spec /\ Fairness

-----------------------------------------------------------------------------
(* Properties. *)

SlotOK(s) ==
    /\ s.mounted \in BOOLEAN /\ s.remote \in BOOLEAN /\ s.readonly \in BOOLEAN
    /\ s.name \in Images \cup {NoName}
    /\ s.backing \in Backings \cup {NoBacking}

JobOK(j) ==
    \/ j.type = "CLOSE" /\ j.bclose \in Backings
    \/ /\ j.type \in {"READ", "WRITE", "MOUNT"} /\ j.by \in Tasks \cup {"none"}
       /\ j.drive \in Drives /\ j.n \in 0..MaxWrites

\* Every slot, cached track, job and file has its type, the queue its bound, and a
\* cached track fits the buffer.
TypeOK ==
    /\ DOMAIN drv = Drives /\ \A d \in Drives : SlotOK(drv[d])
    /\ cache.valid => /\ cache.drive \in Drives /\ cache.len \in 1..BufSize
                      /\ cache.data \in [0..(cache.len - 1) -> 0..MaxWrites]
    /\ heap \in [Backings -> {NoName} \cup [img : Images, ro : BOOLEAN]]
    /\ store \in [Images -> Contents] /\ acked \in [Images -> Contents]
    /\ \A i \in 1..Len(rq) : JobOK(rq[i])
    /\ Len(rq) <= QueueLen
    /\ worker.pc # "idle" => JobOK(worker.job)
    /\ mlock \in Consoles \cup {"none"}
    /\ link \in BOOLEAN /\ disc \in BOOLEAN
    /\ leaked \subseteq Backings /\ failed \subseteq Drives
    /\ written \in 0..MaxWrites

-----------------------------------------------------------------------------

\* The ways a backing can be owned.
Owners(b) ==
    {<<"table", d>> : d \in {x \in Drives : drv[x].backing = b}}
    \cup {<<"queue", i>> : i \in {x \in 1..Len(rq) : rq[x].type = "CLOSE" /\ rq[x].bclose = b}}
    \cup {<<"task", c>> : c \in {x \in Tasks : task[x].pc \in {"opened", "dispose"} /\ task[x].b = b}}
    \cup (IF worker.pc = "got" /\ worker.job.type = "CLOSE" /\ worker.job.bclose = b
          THEN {<<"worker", "close">>} ELSE {})
    \cup (IF worker.pc \in {"install", "discard"} /\ worker.b = b
          THEN {<<"worker", "open">>} ELSE {})
    \cup (IF evt.pc = "dispose" /\ b \in evt.close THEN {<<"evt", "close">>} ELSE {})
    \cup (IF b \in leaked THEN {<<"leaked", b>>} ELSE {})

\* An open image file or session always has exactly one owner that will close it
\* (or is a session known to be leaked), and a closed one has none: no step of the
\* four kinds of task closes a backing twice, closes one that the mount table
\* still serves, or overwrites the only pointer to an open one.
BackingOwnedOnce ==
    \A b \in Backings : Cardinality(Owners(b)) = (IF heap[b] = NoName THEN 0 ELSE 1)

\* The worker does its network I/O on a session that is open and of the image
\* kind it expects: although it lets go of s_lock, nobody can close the session
\* under it, because sessions are closed by the worker itself.
WorkerSessionOpen ==
    worker.pc \in {"picked", "store", "drop"} /\ worker.b # NoBacking =>
        heap[worker.b] # NoName /\ ImageOf(worker.b) \in RemoteImages

\* The mount table tells the truth about its backings: a drive is ready iff it has
\* a backing, and that backing is open on the image the slot names.
TableMatchesBacking ==
    \A d \in Drives :
        /\ drv[d].mounted <=> drv[d].backing # NoBacking
        /\ drv[d].mounted =>
              /\ heap[drv[d].backing] # NoName
              /\ ImageOf(drv[d].backing) = drv[d].name
              /\ drv[d].remote <=> drv[d].name \in RemoteImages
              /\ drv[d].readonly <=> heap[drv[d].backing].ro

\* The worker has changed image img on the server and has yet to reflect it in
\* the cache.
WriteInFlight(img) ==
    /\ worker.pc \in {"store", "drop"} /\ worker.job.type = "WRITE"
    /\ ImageOf(worker.b) = img

\* What the cache holds is what the image mounted on that drive holds, except
\* between a remote write and the cache update that follows it.  Mounts, unmounts,
\* late jobs of callers that gave up and failed writes all have to keep this.
CacheCoherent ==
    cache.valid =>
        /\ drv[cache.drive].mounted
        /\ LET img == ImageOf(drv[cache.drive].backing) IN
           \/ WriteInFlight(img)
           \/ cache.data = TrackOf(img, cache.track, cache.len)

\* A write whose caller timed out still runs later.  It never undoes a later write
\* that was reported to the host as done.
AckedWriteStays ==
    \A img \in Images, x \in Cells : store[img][x] >= acked[img][x]

\* A read that succeeds returns the asked-for track of the image that is mounted
\* at that moment, and never a content older than the last acknowledged write.
ReadSeesAckedWrites ==
    [][\A c \in Tasks :
         (task[c].pc # "copied" /\ task'[c].pc = "copied") =>
            LET r == task'[c]
                img == ImageOf(drv[r.drive].backing)
                off == disk_track_offset(r.track, r.len)
            IN /\ drv[r.drive].mounted
               /\ \A i \in 0..(r.len - 1) : r.data[i] >= acked[img][off + i]
               /\ WriteInFlight(img) \/ r.data = TrackOf(img, r.track, r.len)]_vars

\* No write is sent on a session that was opened read-only, even when the drive
\* became read-only after the caller's own check.
ReadOnlyNeverWritten ==
    [][\A img \in RemoteImages :
         store'[img] # store[img] => /\ ImageOf(worker.b) = img
                                     /\ ~heap[worker.b].ro]_vars

\* A mount of drive d is under way: posted, being made, or about to be posted by a
\* console.
MountUnderWay(d) ==
    \/ \E i \in 1..Len(rq) : rq[i].type = "MOUNT" /\ rq[i].drive = d
    \/ worker.pc # "idle" /\ worker.job.type = "MOUNT" /\ worker.job.drive = d
    \/ \E c \in Consoles :
        \/ task[c].pc = "dispose" /\ task[c].then.pc = "connect" /\ task[c].then.drive = d
        \/ task[c].pc = "connect" /\ task[c].drive = d
        \/ task[c].pc = "post" /\ task[c].job.type = "MOUNT" /\ task[c].job.drive = d

\* A remote drive is not forgotten: when WiFi is up and its hook has run, a drive
\* that is not ready has a mount under way or one that failed.  A `mount` racing
\* with the WiFi-up hook is seen by one or by the other.
NotForgotten ==
    \A d \in Drives :
        (drv[d].remote /\ ~drv[d].mounted /\ link /\ ~disc /\ evt.pc = "idle")
            => MountUnderWay(d) \/ d \in failed

\* A drive that wants a session while WiFi is up gets one, or an attempt to open it
\* fails, or WiFi goes away: no interleaving of `mount`, the hooks and the worker
\* leaves it waiting for nothing.
RemoteComesUp ==
    \A d \in Drives :
        (WantsSession(d) /\ link) ~> (~WantsSession(d) \/ ~link \/ d \in failed)

\* "it reads false while configured-but-not-ready (WiFi down / mount pending)"
\* (disk.h, disk_is_mounted): once the WiFi-down hook has run, no remote drive is
\* ready until WiFi is back.
RemoteDownWithWifi ==
    \A d \in Drives : (~link /\ ~disc /\ evt.pc = "idle") => ~(drv[d].remote /\ drv[d].mounted)

=============================================================================
