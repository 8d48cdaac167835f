# A TLA+ model of the FDC+ serial disk server

The repository is the firmware of an ESP32 device that serves 8-inch and
Minidisk images to an Altair FDC+ controller over a serial line (or TCP). The
images lie on an SD card or on a TNFS server. This directory holds TLA+ modules
for the parts of it that are hard to test, the TLC configurations that check
them, and proofs for TLAPS.

Read a module with the source lines that `PROJECT.json` ("map") names for each
definition. Definitions keep the names of the code where they model one function.

## 1. The system

| Component | State | Operations | Talks to | Module |
|---|---|---|---|---|
| Disk module, `src/disk/disk.c` | mount table `s_drv`, one-entry track cache `s_cache`/`s_track_buf`, open backings; `s_lock`, `s_mount_lock` | mount, unmount, read and write a track, automount, WiFi hooks | called by fdc, CLI, OTA, net, FTP, TNFS server | `Disk` |
| Disk-I/O worker, `disk.c` | job queue `s_rq`, jobs (`rjob_t`), `s_job_mtx`, `s_stage` | remote read, write, mount, close; hand-off of jobs | called through the queue; calls the TNFS client | `RemoteJobs`, `Disk` |
| Geometry, `include/protocol.h` | none | offsets, bounds, track count | disk, fdc | `Geometry` |
| FDC server, `src/fdc/fdc.c` | serial or TCP stream, command and track buffers, pending baud rate, loopback request | STAT, READ, WRIT with timeouts and resynchronisation; baud change; loopback test | disk; FDC over TCP; the host | `FdcServer`, `FdcLink` |
| FDC over TCP, `src/net/fdc_tcp.c` | listener, attached client | accept, attach, detach | fdc | `FdcLink` |
| TNFS client, `src/net/tnfs.c` | session, sequence number, file offset | open, read, write, close, list | worker, `copy`, `dir` | `TnfsClient` |
| TNFS server, `src/net/tnfs_server.c` | sessions, files, directories, last reply | request handlers, reaper | SD card, change guard | `TnfsServer` |
| Change guard, `disk_change_begin`/`end` | `s_mount_lock` | refuse changes of a mounted image | CLI, FTP, TNFS server | `TnfsServer`, `Shell` |
| Configuration, `src/config/config.c` | live copy, dirty flag, NVS | setters, save, wipe, load | all | `Config` |
| OTA, `src/net/ota.c` | busy flag, boot slot | status, update from card or network | disk, WiFi | `Ota` |
| CLI, `src/cli/`, `src/net/console.c` | line, batch stack, batch folder | commands, batch files, autoexec | all | `Shell` |
| WiFi, `src/net/net.c` | connected bit | events | disk hooks, services | `Disk`, `TnfsServer` |

Tasks: the **fdc** task (core 1, high priority), the **consoles** (serial and
network), the **event task** of ESP-IDF (WiFi hooks), the **disk-I/O worker**, the
**TNFS server**, the FTP server, the **TCP listener** and the **update task**. They
share the mount table and the cache under `s_lock`, hand remote work to the worker,
and share the configuration, the batch folder and several flags without a lock.

### What is hard

- A caller of the worker may give up at the moment its job is completed. Who
  frees the job is decided under `s_job_mtx`; a mistake is a double free or a
  leak that no unit test reaches.
- The worker does network I/O without `s_lock`, on a session that it looked up
  under it. Meanwhile a console remounts the drive or WiFi goes down.
- A job names a drive, not an image. Jobs of callers that gave up run late.
- The cache has one entry and one buffer for all drives, all track lengths and
  all readers.
- `mount` and the WiFi-up hook decide independently who opens a session.
- The host repeats commands that are not answered, in a second, though a remote drive
  may take six; and the line loses bytes.
- UDP loses and doubles requests; READ and WRITE of TNFS are relative to a position
  the server keeps, so that a request that is executed twice moves the file.
- The TCP listener, the consoles and the fdc task share flags that no lock protects.
- A save to flash is many writes, an update is many steps; power may go at any of them.
- Files are changed by three services while consoles mount them.

`PROJECT.json` ("hazards") lists these at their lines, with the properties that
cover them and, where there is none, the reason.

## 2. Modules

| Module | Models | Extends |
|---|---|---|
| `RemoteJobs` | the hand-off of one job, semaphore by semaphore | |
| `Geometry` | the offset helpers of `protocol.h` | |
| `Disk` | mount table, cache, track I/O, worker, WiFi hooks | `Geometry` |
| `DriveService` | what the FDC+ protocol promises its host (abstract) | |
| `FdcServer` | the protocol engine, the line and the host | instance of `DriveService` |
| `FdcLink` | the loop of the fdc task, the TCP listener, loopback and baud requests | |
| `TnfsNet` | datagrams between TNFS clients and servers | |
| `TnfsClient`, `TnfsServer` | `tnfs.c`; `tnfs_server.c` | `TnfsNet` |
| `Tnfs` | one client and the server over the network | both |
| `Config`, `Ota` | the steps of setters, saves and updates | |
| `Shell` | the consoles over configuration, mount table, card and updates | `Config`, `Ota` |
| `RemoteJobsProofs`, `FdcLinkProofs`, `FdcServerProofs`, `ShellProofs`, `TnfsServerProofs` | inductive invariants and theorems | their module |
| `DiskProofs` | the geometry helpers; who owns and uses the open images | `Disk` |
| `DiskDataProofs` | what images and cache hold; who mounts a remote drive | `DiskProofs` |
| `TnfsProofs` | what reaches the client of `Tnfs` | `Tnfs`, `TnfsServerProofs` |
| `MC...` | small instances | their module |

Definitions marked *Seeded bug* are wrong versions of the definition that follows
them. No specification uses them; substituting one must make a property fail,
which shows that the property depends on that piece of the code.

### RemoteJobs

A job is a heap block out of `Jobs`; `live` is the set of allocated blocks, and
`done`, `token`, `completed`, `abandoned` are the fields of the blocks. A freed
block can be allocated again by any caller, so a stale pointer is seen as
a violation and not only as an access to free memory. `owner` and `wres`
remember for whom a block was allocated and a result computed. The actions of a
caller are the steps of `rjob_new`, `rjob_post_async` and `rjob_post_wait`
between two scheduling points, those of the worker the steps of `diskio_task` and
`rjob_complete`. `rjob_complete` gives the semaphore and the mutex in two steps
(`CompleteSignal`, `CompleteUnlock`), and frees after giving the mutex
(`CompleteUnwanted`, `WorkerFree`), as the code does. What the job does is
`Execute`.

### Geometry

The helpers in arithmetic modulo `UINT32_MAX + 1`. The width is a constant:
`MCDisk` evaluates every input of a 3-bit width, and the theorems hold for any.

### Disk

| Variable | Code |
|---|---|
| `drv` | `s_drv[]`: mounted, remote, readonly, name, backing |
| `cache` | `s_cache` with the contents of `s_track_buf` |
| `heap` | open `disk_backing_t` objects: image and access mode |
| `store` | the image files; a cell holds the number of the write it comes from |
| `rq`, `worker` | `s_rq`; the position and job of `diskio_task` |
| `task` | the position of the fdc task and of each console in its call |
| `mlock` | the holder of `s_mount_lock` |
| `link`, `disc`, `evt` | `NET_CONNECTED_BIT`; a queued DISCONNECTED event; the event task |
| `leaked`, `written`, `acked`, `failed` | history, used by the properties only |

A section under `s_lock` is one action; everything the code does outside the lock
(posting, waiting, network I/O, closing) is a step of its own, so that the other
tasks run in between. The hand-off of a job is one step here: `RemoteJobs` shows
that its detail keeps what this step promises (the caller that waits gets its
result, a caller that gave up does not).
A remote operation succeeds, fails, or (a write) fails after any part of the
track. A card operation does the same. `Restart` is power loss or a planned restart: RAM is lost,
images stay, and the device boots with any saved configuration.
`disk_unmount_all` is a loop of `disk_unmount` calls of one task, which is a
behaviour of the model. `disk_copy_track_buffer`, the status bitmap and the getters
only read.

Abstractions: a slot is empty, a card image (`LocalSlot`) or a remote one (`RemoteSlot`),
ready when it has a backing; an image is `ImageSize` cells; all images have the same size; a
name is a model value, so name comparison is identity. `MayMount` keeps an image
on one drive (`Shared = FALSE`); the code does not check this, and what two drives
with one image see of each other is left open by it.

### DriveService and FdcServer

`DriveService` is what a host relies on: it issues one operation at a time, a write
may reach the image several times but only while the host waits for it, `OK` means
that it has, a READ returns what the track holds, and anything may end in an error.
`FdcServer` implements it (`Serves`): `fpc`, `s_cmd` and `s_data` are the position of
`fdc_task` and its buffers, `rx` and `tx` the line. A message is a sequence of tokens, so that
a lost or garbled piece shifts and mixes what the server receives: a command block is
two tokens, a track `DataLen` and a checksum. `link_recv` of one piece is one step.
The two time-outs of a short read become `RecvTimeout`, which fires when nothing
is under way. `drain_uart_events` flushes after an overflow.

The host is external. It is taken from the comments and constants of `fdc.c`: it
repeats its command after a second without an answer, waits for a track after it has
sent READ, sends the track after `WRIT OK`, and drops what it does not expect.
The host has one drive; `drive` is mounted, unmounted and remounted under it.

It repeats in one of two ways. `Repeat` is the ordinary one: what it sent has been taken or
lost, nothing is under way, and the engine waits for input; the time on the line and a card
operation are short against the second. `EarlyRepeat` comes while the engine is still in
`disk_read_track` or `disk_write_track`, which for a remote drive wait up to
`REMOTE_OP_WAIT_MS`. Then the command is on the line twice, a READ answer has no track number,
and the answer to the second copy can be taken for the answer to the next READ. `early`
remembers that this has happened; while it is set and the line is not quiet (`Quiet`), the
host may repeat at any time. It is cleared by the first command that is sent on a quiet line.
In `DriveService` it is `doubt`: as long as it lasts, a READ may return any data, a write may
go to any track with the data of any write, and `OK` may be of another one (`Stray`, `Return`). So `Serves`
does not claim that the protocol survives an early repeat, which it does not (see the remarks in section 3), but
that without one the promise is kept, and that the harm is over when the line is quiet again.

### FdcLink

`lpc` and `cfd` are the position of `fdc_tcp_task` and the socket it has accepted;
`fpc`, `tfd`, `dead` those of `fdc_task` with `s_tcp_fd` and `s_tcp_dead`. `pending`,
`active`, `kick`, `req`, `token`, `pendBaud` are the flags the tasks share; a peer's
address is represented by the socket it belongs to. Each read or write of a shared flag
is a step, except where two in a row cannot be told apart by the other task (closing
the client and clearing `s_tcp_kick`, for example, while `s_tcp_active` is still set).
`Sockets` is a pool, so that the number of a closed socket comes back, as it does in
lwIP. A command that the task serves is one step (`Serve`), during which a TCP client
may turn out to be gone; its detail is `FdcServer`. `stale` and `fresh` are history: the sockets that were open when
the listener last lost the link, and whether a loopback test was started since it was
asked for. The counters of `stats` are left out.

### TnfsNet, TnfsClient, TnfsServer, Tnfs

A function of the client is a chain of commands. `call.at` names the command whose answer it
waits for, and the operator `After` dispatches to what the code does with the result:
another command (`Ask`) or the end of the call (`Return`). `tnfs_command` is the actions
`TimesOut`, `Backoff`, `Responds` and `Discard`. A datagram is retransmitted `Retries`
times with the same sequence number, which advances only when an answer was
accepted; over TCP there is one attempt. Each attempt to mount uses a new socket. A chunk of
a transfer (`TNFS_IO_CHUNK`) is one cell.

A handler of the server is an operator that yields the possible outcomes of a request: the
session, the descriptors (`vfs`) and the card (`fs`) after it, and the reply.
`Answer` is what `serve` does with a datagram: repeat the cached reply, ignore it, or
run it. FatFs and its descriptors are external and modelled from how the handlers use
them. `ReapIdle` happens before a datagram is looked at, as in the code; that time
has passed is the set `expired`. `FatUnlink` is FatFs's `f_unlink`, to which ESP-IDF gives
`rmdir()` as well as `unlink()`: it removes a file as readily as an empty folder. UNLINK asks
the change guard first, RMDIR does not (`PathOp`). A request that several checks refuse gets one of
the refusals: TLC takes the first, as the code does, and the proofs leave open which. In `Tnfs` the server of one device serves the
client of another, or a foreign server (on TCP, without OPENDIRX) does. `Remote`
is the path of the image that the device opens. `done`
remembers the last command that took effect; every command of the client has an `id`
that the code does not have.

The network keeps the order of a direction. Reordering within a direction is not modelled.

### Config, Ota, Shell

`Config` and `Ota` say what the steps of a setter, a save, a wipe and an update do to their
state; `Shell` says which console makes them and in which order. `con[c]` is a
console: the command it runs, how far it is, and the stack of its batch files
(`batch_exec_path`). One line starts in one step (`cli_feed` or `run_batch_file`), then
the command goes on: `mount` changes the drive and then the configuration,
`config_save` writes key by key, a setter writes the value and then the flag. A guarded change of
the card (`disk_change_begin` to `disk_change_end`) is one step because `s_mount_lock`
is held all along. `table`, `up` and `files` are the mount table and the card as the
guard sees them; `Wifi` lets remote drives come and go.

A network console prints with `send()`, which has no time-out (`SO_RCVTIMEO` is for reading
only). `Stall` is a client that stops reading in the middle of a line, and perhaps goes on later: while
`con[c].stalled`, neither the line nor an update that prints on that console takes a step.
`ota_run` first takes the flag, then creates the semaphore and the task (`CreateTask`), either of which may
fail for want of memory (`NoMemory`).

`Menus` is what operators type. One behaviour takes one menu, so that the product of
all commands is not explored at once: configuration; batch files; the card; mounts
and saves; updates.

A batch file is the sequence of its commands; `run_batch_file` skips blank lines,
comments, lines that are too long and, with the message for those, a last line
without a newline.

## 3. Runs

| Run | Instance | Asks |
|---|---|---|
| `jobs` | 2 callers, 3 blocks, queue of 2 | is every job freed once and every result its caller's: `TypeOK`, `NoDanglingJob`, `NoJobLeak`, `OwnResult`; do calls end although `Execute` may hang (`CallerReturns`), is every job freed when it does not (`EveryJobFreed`) |
| `disk_writes` | 1 remote drive of 2 tracks, 2 writes, failing allocations, restarts | do acknowledged writes stay and are they read back: `TypeOK`, `AckedWriteStays`, `ReadSeesAckedWrites` |
| `disk_tracks` | 2 drives, 2 local images, overlapping tracks | does the cache agree with the images: `CacheCoherent` |
| `disk_mixed` | 1 drive, a local and a remote image, a console and the fdc task | remounts under the worker: `WorkerSessionOpen`, `TableMatchesBacking`, `CacheCoherent`, `ReadOnlyNeverWritten` |
| `disk_consoles` | 1 drive, 2 consoles, WiFi hooks | who opens a session: `BackingOwnedOnce`, `NotForgotten`, `RemoteComesUp` |
| `fdc_link` | 3 sockets, a console, a baud rate | the life of a TCP client: `TypeOK`, `SocketOwnedOnce`, `PeerIsClient`, `NoSpuriousDrop`, `PendingServed`, `DeadClientReleased` |
| `fdc_server` | 2 tracks, 2 values, tracks of 2 tokens, 3 faults or early repeats | does the engine implement `DriveService` (`Serves`) and come back into step (`Recovers`) |
| `tnfs` | a file of 4 cells, 3 calls, 2 attempts, 2 datagrams each way | client and server over UDP: `AtMostOnce`, `DataTrue`, `ListingExact`, `CallReturns` |
| `tnfsd` | a client with 2 sessions and arbitrary requests, a console, WiFi | the server on its own: `ServerTypeOK`, `DescriptorsOwned`, `SidsDistinct`, `OnlyRmdirTakesImage`, `SlotsRecover` |
| `shell` | 2 consoles (one may stall), 2 keys, 1 drive, 5 files, 1 restart | the consoles: `OwnFolder`, `CleanIsSaved`, `MountedOnCard`, `BootValid`, `BusyExact`, `LineEnds` |
| `fdc_loopback` | 2 consoles | violates `LoopbackFresh` |
| `disk_wifi_down` | 1 drive, a console | violates `RemoteDownWithWifi` |

**Bounds.** `Drives`, `Backings`, `QueueLen` and the numbers of images and tasks are
small because the hazards need few actors: two images to see a swap, two drives to
see a cache entry of the wrong drive, a queue slot plus the job in work to see a
late job, one backing more than drives to see a new session beside the old one. A queue of
one makes the queue-full paths frequent. `MaxWrites` bounds the writes of a
behaviour: one write distinguishes old from new contents, two are needed to see a
late write after an acknowledged one. `UINT32_MAX = 7` in the disk runs is larger
than any offset of their images. `OutOfMemory` adds allocation failures
everywhere a full queue is handled. `Restarts` adds the restart of the device; it is
off in `disk_mixed`, where it reaches no further states. Three sockets are a client, a
pending or refused one, and one more whose number is used again.

`MaxFaults = 3`: an early repeat and a fault on each side of it, or three of the four messages
of one WRIT (command, answer, data, acknowledgement) lost; the proofs are for any number. `Retries = 2` is the first number with a
retransmission; `SeqLimit = 4` lets the sequence number wrap within the three calls of
a session; `Capacity = 2` holds a request and its duplicate, or a stale reply and the
true one. The calls of a behaviour include one that fails, so that a later one finds what it left.
The file has a cell before, in and after the range that is transferred.
`SidLimit = 3` gives as many ids as two sessions need, and wraps at once. The requests of `tnfsd`
are those that open, write, truncate, delete or move the image and its folder, an UNLINK and an RMDIR of
the image (which has no change guard), and a MOUNT of a bad path; the directory handlers and READ run in `tnfs`. STAT, MKDIR and CHMOD of
a desktop client are in the module and not among the requests: they would multiply
the replies that a session remembers and disturb none of the properties.
`BATCH_MAX_DEPTH = 2` is reached by two files that run each other. `MaxRestarts = 1`:
what a restart leaves in flash is all that the next one sees.

The runs that pass reach from 68,000 (`disk_tracks`) to 2,000,000 states (`disk_mixed`); none takes more
than a few minutes with two workers.

**Deadlock** is checked, except in `tnfs`, which stops after `MaxCalls` calls, and in `shell`,
where the consoles can do nothing more after `MaxRestarts` updates or reboots.

**Fairness.** Every task of FreeRTOS is scheduled, semaphore waits have timeouts and
so have network calls, so `CallStep`, `Worker` and the event task's steps are
weakly fair. `CallerReturns` does not assume that the worker's network call ends.
`s_job_mtx` is taken by competing tasks; a FreeRTOS mutex gives it to a waiting
task, so taking it is strongly fair. That WiFi comes back is never assumed.
`fdc_link` assumes only that the fdc task goes on: every wait in its loop has a timeout.
`fdc_server` assumes that the fdc task goes on and that the host waits no longer than
its time-out, `tnfs` the same of the server task and of `SO_RCVTIMEO`. `tnfsd` assumes that the
task goes on; clients owe nothing. `shell` assumes that consoles and the update task
go on while they are not stalled, and nothing about operators or about a Telnet client, which may stop
reading for good. The network calls of the update itself end by the time-outs of the HTTP client.

**What the temporal properties exclude.** `RemoteComesUp` ends in a mount or in a
failed attempt: the server need not answer. `Recovers` ends with an operation that
is over, with an error or not, or with the drive unmounted: a READ of a drive that
is not mounted gets no answer, and the host asks for ever. `LineEnds` ends with the
prompt, or with a client that has stopped reading: what it says is that no *other* console waits
for that client, since a second update is refused and not queued.

### Findings

- `fdc_loopback`. `fdc_loopback` gives up after three seconds, while the fdc task is
  running the test (it may have been busy with a WRIT until then). The task gives
  `s_lb_done` all the same, and the next `loopback` returns at once with the result of
  the earlier test.
- `disk_wifi_down`. The worker has opened a session; WiFi drops and the WiFi-down
  hook runs; the worker installs the session, because `worker_mount` only compares
  the slot and its name. The drive reads as mounted with WiFi down, against
  `disk.h` ("it reads false while configured-but-not-ready (WiFi down / mount
  pending)") and DESIGN.md §9.5. On reconnect the WiFi-up hook skips it.

### Remarks from reading

Behaviour that was met while modelling. The models have what is marked (m);
the rest lies outside them.

- (m) Two consoles that run batches at once share `s_batch_cwd`; the one that ends last
  puts back the folder it saw, and the prompt can stay in a folder. `OwnFolder` holds
  while lines do not overlap; `commands.c:307` says the device is used so.
- (m) A setter between the last write of `config_save` and `s_dirty = false` loses its
  mark. `CleanIsSaved` holds while lines do not overlap.
- (m) `mount` changes the drive and then the configuration without a lock over both; two
  consoles that mount the same drive can leave the one's image and the other's name.
- (m) `unmount` leaves a remote drive that is configured but not ready alone, and its
  configuration too.
- (m) The console says "not ready — server unreachable, will retry" (`commands.c:695`), but
  while WiFi stays up nothing posts the mount again but another `mount`.
- (m) A TNFS command that ran out of attempts keeps its sequence number, and the next one
  uses it again. If the first was an LSEEK, a late copy of it moves the server's
  position after the client has set it. `DataTrue` excludes such sessions (`clean`).
- (m) The client does not look at the result of `tnfs_query_size` (`tnfs.c:460`): a size
  that cannot be had is 0. It does not MOUNT again when the server has reaped its session;
  every later call fails until the drive is mounted anew.
- (m) A MOUNT of a bad path is answered to the address 0.0.0.0:0, since the slot has no
  peer yet (`tnfs_server.c:905`), and the client times out. At its start the server task
  closes descriptor 0 once per file slot, because the slots are zero and not -1
  (`tnfs_server.c:994`).
- (m) An image that is mounted while a TNFS client holds it open for writing can be
  written by both. The guard is asked at OPEN only; the file is not cut off (`OnlyRmdirTakesImage`).
- (m) RMDIR of the TNFS server goes to `rmdir()` without the change guard (`tnfs_server.c:835`), and on FAT that
  removes files: it deletes a mounted image, against DESIGN.md:796-804 ("A mounted image may not
  be deleted, renamed, or opened for write by anything else"). `OnlyRmdirTakesImage` says that nothing else
  does. `rmdir` of the console (`commands.c:916`) and of the FTP server (`ftp.c:1024` of
  `lib/esp-idf-ftpServer`) have no guard either; they are not in the models.
- (m) A host that repeats a READ while a remote drive is still at it can take the second answer for the answer
  to its next READ, of another track: DESIGN.md:857 calls the latency "the key risk", and the
  invariant of DESIGN.md:192-193 (the serial path is "not ... blocked longer than the FDC's ~1 s command timeout") is not kept for
  remote drives. One early repeat is enough. A WRIT whose `WSTA OK` is of another write
  takes four faults and early repeats together.
- (m) A Telnet client that stops reading blocks its console in `send()` (`console.c:67`; `console.c:162` sets
  `SO_RCVTIMEO` only). If it was showing the progress of an update, `s_busy` stays set,
  and every other console's update is refused until the device restarts or the connection breaks.
- (m) `update` from the card removes `/firmware.bin` after it has flashed it, and so a newer
  one that was uploaded meanwhile.
- A batch file's last line is skipped as too long when it lacks its newline.
- (m) `disk_change_begin` allows a change when `sd_canonical` fails, as it does for a name that is not on the card.
- A `copy` over a mounted image is refused in `Shell` as in the code, but `MountedOnCard` asks only whether
  the image exists, and would not see the contents replaced.
- `cli_feed` says it joins LF CR into one end of line; it does so for CR LF only.
- `config_wipe` relies on an erase that is all or nothing, and an error of `config_init`
  aborts the boot.
- Over TCP a reply that comes after its time-out is taken for the next one's
  (`tcp_response` does not look at the sequence number); in the model a
  time-out on a stream means that no reply will come.

## 4. Proofs

`RemoteJobsProofs` proves for any set of callers, any set of blocks and any queue
length, from the assumptions that `NoJob` is no block, that the queue has a slot
and that "none" and "worker" are no callers:

- `TypeCorrect`: `Spec => []TypeOK`
- `MemorySafe`: `Spec => []NoDanglingJob`
- `LeakFree`: `Spec => []NoJobLeak`
- `ResultsAreOwn`: `Spec => []OwnResult`

None of the last three is inductive: they do not exclude that two pointers refer to the same block
and one task frees it under the other. `IInv` adds what the code relies on: the
queue and the worker hold distinct blocks (`QueueInv`); a pending job is not
completed and, unless abandoned or fire-and-forget, its caller still waits for it
(`PendingInv`); a caller's pointer is to its own block and its position tells the
state of the job (`CallerInv`); the mutex is held by the task in a section it protects
(`MutexInv`); what the worker frees nobody waits for (`WorkerFreeInv`); stored
results belong to the owner (`ResultInv`). There is one lemma per action; the lemmas
`AppendQueued` and `TailQueued` say what the queue operations do to the set of queued
jobs, and each step first says how `Pending` changes, after which the leaves do
not look at the queue.

`FdcLinkProofs` proves for any sets of sockets, consoles and baud rates, from the
assumptions that -1 is no socket, "none" no console and 0 no baud rate, and that there is a baud rate:

- `LinkTypes`: `Spec => []TypeOK`
- `SocketsOwned`: `Spec => []SocketOwnedOnce`
- `PeerNamed`: `Spec => []PeerIsClient`
- `DropsJustified`: `Spec => NoSpuriousDrop`

`LinkInv` adds to these that `s_tcp_active` covers the whole life of a client, until its
stats are gone (`ActiveInv`); this is what keeps the listener from overwriting
`s_tcp_pending_peer` before it is copied (`PeerInv`) and the stats in step (`StatsInv`).
A pending request to drop the client is meant for it or about to be forgotten
(`KickInv`). Actions that move no socket share a lemma; the others have one each.

`FdcServerProofs` proves for any tracks, any data, any length of a track and any number
of faults and early repeats, from the assumptions that a track has a token and that `NoOp` is no operation:

- `EngineServes`: `Spec => Serves`, the refinement of `DriveService`
- `LinkInvariant`: `Spec => []IInv`, the invariant it needs

A step of the engine, the line or the host is a step of `DriveService` or stutters. What
makes it so is that every token on the line and in the two buffers is of the operation the host
waits for (`LineOfOp`: `Sent` one way, `Replies` the other, with `WSTA OK` among them only when the
track is stored), that answers travel on an empty line (`OneDirection`), and that no more input is
left than the step of the engine takes (`InputBound`), so that the next command finds
nothing of the last one: together `Exact`. None of this holds after an early repeat. There
only `Types` does: the tokens are of commands, tracks and answers of any operation (`Tokens`, `Answer`), and what
the engine is at is some command of the host (`AtCommand`), so that it stores nothing but a track and the
host takes nothing but a track for one. `IInv` is `Types /\ (early \/ Exact)`; that `Exact` returns with a command
on a quiet line is a case of `SendCommand` and of `Repeat`. The length of a track is arbitrary, so the leaves reason about
sequences by `Len` and `Seq` and never token by token.

`DiskProofs` starts with the geometry helpers. For any width, `disk_track_in_bounds` accepts exactly
the tracks with `(track + 1) * track_len <= image_size`, the wrapped offset of
an accepted track is the true one (`BoundsCorrect`), and the accepted tracks are
the first `disk_track_count` ones (`CountCorrect`).

Together with `DiskDataProofs` it proves the safety of `Disk` for any drives,
images, backings, tasks, sizes, requests, queue length and number of writes, with and without
failing allocations and restarts. `DiskAssumption` says that the model values differ where
they must, that an image fits the width and that buffer and queue are not empty.

- `OneOwner`: `Spec => []BackingOwnedOnce`
- `MountTableTrue`: `Spec => []TableMatchesBacking`
- `NoIoOnClosedSession`: `Spec => []WorkerSessionOpen`
- `NoWriteToReadOnly`: `Spec => ReadOnlyNeverWritten`
- `TypeCorrect`: `Spec => []TypeOK`
- `AckedWritesLast`: `Spec => []AckedWriteStays`
- `CacheTrue`: `~Shared => (Spec => []CacheCoherent)`
- `ReadsCurrent`: `~Shared => (Spec => ReadSeesAckedWrites)`
- `NoDriveForgotten`: `Spec => []NotForgotten`

Four invariants, each on top of the ones before it:

- `CoreInv`. An open backing has one owner of one kind: the table, a CLOSE job in the
  queue, a task, the worker, the event task, or the leak of a failed allocation (`Owned`; in
  this form a step shows what one backing gains and loses, and only the theorem counts owners).
  The session the worker uses without `s_lock` is open although the drive may have been
  remounted, because sessions are closed by the worker itself, by a CLOSE job behind the one
  it works on (`Session`). A caller named in a job waits for that job (`Awaited`), so that
  nobody is given another's result; the mount lock is held from an open to its swap
  (`Locked`); the slots agree with their backings (`Table`).
- `DataInv`. Remote writes are numbered when they are issued and keep that order in the fdc
  task, the queue and the worker (`InOrder`), and the ones still to be made are not older
  than any acknowledged one (`Pending`). So a write whose caller gave up, when it is made at
  last, hides no acknowledged one: that needs the queue to be first-in first-out and the fdc
  task to be the only writer. `Stage` says that `s_stage` holds what the image does.
- `CacheInv`. Where no image is on two drives (`Unique`), the cached track is
  that of the mounted image (`CacheCoherent`) and contains its acknowledged writes (`Fresh`).
  `Unique` follows a remount through the open of the file and the worker's session. Without it
  the theorems are false: a failed write through one drive leaves the other's
  cached track in place. The code does not keep an image off a second drive; the hypothesis
  `~Shared` says that its users do.
- `Remembered`. A remote drive that is not ready while WiFi is up has a mount in the queue,
  with the worker for its present name, with a console about to post it, or ahead of the WiFi-up hook
  (`Comes`), or one that failed. While WiFi is up, the event task is in its WiFi-down hook
  no more (`HookOffline`).

`ShellProofs` proves for any consoles, drives, keys, images, card, batch files and
anything typed, over any number of restarts:

- `AlwaysBootable`: `Spec => []BootValid`
- `SingleFlight`: `Spec => []BusyExact`
- `MountsStayOnCard`: `Spec => []MountedOnCard`
- `BatchInOwnFolder`: `Spec => []OwnFolder`
- `CleanMeansSaved`: `Spec => []CleanIsSaved`

The assumptions: there is one serial console, what is typed and what batch files hold are
commands, autoexec lies in the root folder, `config_save` writes a key once, and an unset key
differs from every value. `BootValid` needs that there is one update (`OneJob`), that the
slot that does not run boots next only once an update set it (`BootIsRunning`) and that what was verified
is still there when it does (`VerifiedStays`). A console that stalls changes nothing of this, and an update
that finds no memory gives the flag back (`CreateTaskStep`). `OwnFolder` needs that each batch file saved its
caller's folder, and `CleanIsSaved` how far a save, a wipe or a setter has come (`SaveProgress`).
Both hold while lines do not overlap (`OneBusy`), as the properties say.

`TnfsServerProofs` proves for any clients and requests, session, file and directory slots,
descriptors, paths and cards:

- `ServerTypes`: `ServerSpec => []ServerTypeOK`
- `DescriptorsHeldOnce`: `ServerSpec => []DescriptorsOwned`
- `SidsUnique`: `ServerSpec => []SidsDistinct`
- `MountedImagesSafe`: `ServerSpec => OnlyRmdirTakesImage`

The assumptions: there are fewer sessions than ids (`ServerAssumption`), what exists on the card at
boot lies in folders and `CardPaths` contains the folders of its paths (`CardAssumption`), and a request has the
fields of its command (`RequestsAssumption`).
`ServerInv` consists of:

- a descriptor is open exactly when a file slot holds it, and no two file slots hold the same one
  (`Owned`); a freed session is blank (`Freed`). Handlers leave the files of a session alone, open
  one descriptor, or close one (`SessionStep`), and sessions end in one lemma (`FreeSessions`),
  whoever ends them. Both start when the task has freed its zeroed slots (`AtBoot`): until then each slot seems to hold
  descriptor 0.
- live sessions have distinct ids (`Distinct`). `NextSidFree` shows that `NextSid` finds one: the ids in
  use are at most as many as the slots, so some id from 1 on is free, and the counter comes to it
  within `SidLimit` steps.
- what exists on the card lies in folders, all the way up (`IsTree`), and what is mounted is the
  name of an image (`MountedKnown`), though an RMDIR may have taken the file. A handler that changes
  the card keeps the tree and, but for an RMDIR of the image itself, the image (`CardStep`, `Kept`). The tree is what makes the guard
  of a rename enough: a mounted image is not below the new name, because a path under which there is
  something exists itself (`Inside`).

`TnfsProofs` proves for any calls, any attempts of a command, any range of sequence numbers, session,
file and directory slots, cards, and any number of datagrams lost, doubled or late and of sessions
that expire, over UDP and over TCP:

- `CommandsOnce`: `Spec => AtMostOnce`
- `TransfersAreTrue`: `Spec => []DataTrue`
- `ListingsExact`: `Spec => []ListingExact`

The assumptions are those of the client and of the server, and `DeviceAssumption`: there are at least two
sequence numbers (a command is told from the one before), a session slot and file slot 0, an entry
of a directory fits a reply, and the device opens the one image `Remote` and makes transfers of
at least one cell. None of the three properties says anything about datagrams, so each
needs to know what those under way may still do. Four invariants, each on top of the ones before it:

- `OnceInv`. Requests under way lie in the order in which they were issued, and none is older than the last
  that took effect (`Queues`). That one, when a copy of it comes, is answered from the cache or
  its session is gone (`Settled`); sessions expire only while nothing is under way.
- `FreshInv`. Between the MOUNT and the close of a session that counts (`Live`), only the
  current command can still be executed in it (`Mounted`), and a reply that the client takes
  is the one its own session remembers of that command (`Replies`, `Cached`).
  The exception is a transfer that ran out of attempts: it may still be executed, and leaves its
  sequence number to the LSEEK that follows, which differs from it by its command (`Before`). An LSEEK that ran out of
  attempts leaves it to another LSEEK, and nothing tells the two apart; that is why
  `DataTrue` excludes the session. On a stream there is one command or reply (`Stream1`).
- `FileInv` and `TransferInv`. Until the current command is executed, the server's descriptor stands
  at the client's offset, and behind it afterwards (`Placed`); what was transferred so far is in the file
  from the start of the call on (`Transferred`), and what the last call returned still is (`Returned`).
- `ListInv`. What a listing has shown, and what the directory of the session still has to give, are together
  the directory (`Split`), and the reply that is under way takes an entry from the one to the
  other (`ReadPlaced`). Nothing under way changes the card (`Still`). The listing is a basic one only for a reason (`NoExtended`).

The duplicates of the network, a repeated request and a request that is lost are one
relation on the queues (`Thinned`). The handlers appear in the proofs by what each does
to the one descriptor, directory or session it is given; what a client's function does next
is `After`, of which each lemma takes the part that it needs.

TLC checks the properties on the instances of section 3, too.

**Only model-checked:** every liveness property
(`CallerReturns`, `EveryJobFreed`, `RemoteComesUp`, `PendingServed`, `DeadClientReleased`,
`Recovers`, `CallReturns`, `SlotsRecover`, `LineEnds`), since TLAPS does not reason about
fairness here.

## 5. Plan

Every safety property that a run checks is a theorem, but for the two that are violated. What is left
would extend the model:

1. `mkdir` and `rmdir` of the console, in `Shell`: `rmdir` has the hole that RMDIR has in `TnfsServer`.
2. The FTP wrapper as another client of the change guard.
3. Reordering within a direction of the network. `CommandsOnce` needs the order: the cache
   remembers one command of a session.

## 6. Not modelled

- FatFs, the SD driver and `sd.c`: their effect is that a call works or fails. `sd_path` and
  `sd_canonical` appear as sequences of names and their refusal of "..".
- The third-party FTP server and its wrapper `ftp.c`: the wrapper asks the change guard
  as the TNFS server does; as a client it would repeat the `Desktop` of `TnfsServer`.
- The HTTP client, ESP-IDF's OTA writer, mDNS, SNTP and the reconnecting of WiFi: calls
  into libraries.
- The byte-level line editor, the Telnet parser, and the commands that only print;
  `mkdir` and `rmdir` of the console (in `Shell` a folder is there while it holds a file).
- Time: how long an operation takes. `EarlyRepeat` stands for every repeat that comes while the engine is in
  disk I/O, and the model has no clock that would say which operations are that slow.
- Behaviour of `TnfsServer` and `Tnfs` that no property examines: the kept entry of a listing that
  did not fit a reply, since the client asks for one entry at a time; the data after a given-up LSEEK.
- Checksums that match by chance, the drive number of a command, the string limits of the
  configuration, and the parsing of URLs.
