----------------------------- MODULE DiskProofs -----------------------------
(***************************************************************************)
(* The safety of the disk module for any drives, images, tasks, sizes and  *)
(* queue lengths: who owns an open image, what the mount table says of it, *)
(* and what the worker may touch.                                          *)
(***************************************************************************)
EXTENDS Disk, TLAPS, FiniteSetTheorems, SequenceTheorems

-----------------------------------------------------------------------------
(* The bounds check of include/protocol.h is exact and its guard keeps the *)
(* 32-bit product from wrapping, for every width of the integers.          *)

\* The quotient of a division, as a product.
LEMMA Quotient ==
    ASSUME NEW n \in Nat, NEW l \in Nat \ {0}
    PROVE  /\ n \div l \in Nat
           /\ (n \div l) * l <= n
           /\ n < (n \div l + 1) * l
  OBVIOUS

\* A factor is at most the quotient iff the product is at most the dividend.
LEMMA AtMostQuotient ==
    ASSUME NEW n \in Nat, NEW l \in Nat \ {0}, NEW t \in Nat
    PROVE  t <= n \div l <=> t * l <= n
  <1> DEFINE q == n \div l
  <1>1. q \in Nat /\ q * l <= n /\ n < (q + 1) * l
    BY Quotient
  <1>2. ASSUME t <= q PROVE t * l <= q * l
    BY <1>1, <1>2
  <1>3. ASSUME q + 1 <= t PROVE (q + 1) * l <= t * l
    BY <1>1, <1>3
  <1>4. QED
    BY <1>1, <1>2, <1>3

\* The guard of disk_track_in_bounds keeps the product from wrapping.
LEMMA GuardedProduct ==
    ASSUME NEW track \in UInt32, NEW track_len \in UInt32 \ {0},
           track <= UINT32_MAX \div track_len
    PROVE  Mul32(track, track_len) = track * track_len
  <1>1. /\ UINT32_MAX \in Nat /\ track \in Nat /\ track_len \in Nat \ {0}
    BY WidthAssumption DEF UInt32
  <1>2. track * track_len \in Nat /\ track * track_len <= UINT32_MAX
    BY <1>1, AtMostQuotient
  <1>3. ASSUME NEW p \in Nat, p <= UINT32_MAX PROVE p % (UINT32_MAX + 1) = p
    BY <1>1, <1>3
  <1>4. QED
    BY <1>2, <1>3 DEF Mul32

\* disk_track_in_bounds accepts exactly the whole tracks of an image, whatever the
\* geometry the host asks for, and their byte ranges lie in the image.
THEOREM BoundsCorrect ==
    ASSUME NEW track \in UInt32, NEW track_len \in UInt32, NEW image_size \in UInt32
    PROVE  /\ BoundsExact(track, track_len, image_size)
           /\ OffsetExact(track, track_len, image_size)
  <1>1. /\ UINT32_MAX \in Nat /\ track \in Nat /\ track_len \in Nat
        /\ image_size \in Nat /\ image_size <= UINT32_MAX
    BY WidthAssumption DEF UInt32
  <1>2. CASE track_len = 0
    BY <1>1, <1>2 DEF BoundsExact, OffsetExact, disk_track_in_bounds
  <1>3. CASE track_len # 0 /\ track <= UINT32_MAX \div track_len
    <2>1. Mul32(track, track_len) = track * track_len
      BY <1>3, GuardedProduct
    <2>2. /\ track * track_len \in Nat
          /\ (track + 1) * track_len = track * track_len + track_len
      BY <1>1
    <2>3. disk_track_in_bounds(track, track_len, image_size)
             <=> track * track_len + track_len <= image_size
      BY <1>1, <1>3, <2>1, <2>2 DEF disk_track_in_bounds
    <2>4. QED
      BY <1>1, <1>3, <2>1, <2>2, <2>3 DEF BoundsExact, OffsetExact, disk_track_offset
  <1>4. CASE track_len # 0 /\ ~(track <= UINT32_MAX \div track_len)
    <2>1. ~(track * track_len <= UINT32_MAX)
      BY <1>1, <1>4, AtMostQuotient
    <2>2. ~((track + 1) * track_len <= image_size)
      <3>1. /\ track * track_len \in Nat
            /\ (track + 1) * track_len = track * track_len + track_len
        BY <1>1
      <3>2. QED
        BY <1>1, <2>1, <3>1
    <2>3. ~disk_track_in_bounds(track, track_len, image_size)
      BY <1>4 DEF disk_track_in_bounds
    <2>4. QED
      BY <2>2, <2>3 DEF BoundsExact, OffsetExact
  <1>5. QED
    BY <1>2, <1>3, <1>4

\* The accepted tracks are the first disk_track_count tracks.
THEOREM CountCorrect ==
    ASSUME NEW track \in UInt32, NEW track_len \in UInt32, NEW image_size \in UInt32
    PROVE  CountExact(track, track_len, image_size)
  <1>1. /\ track \in Nat /\ track_len \in Nat /\ image_size \in Nat
    BY WidthAssumption DEF UInt32
  <1>2. CASE track_len = 0
    BY <1>1, <1>2 DEF CountExact, disk_track_in_bounds, disk_track_count
  <1>3. CASE track_len # 0
    <2>1. disk_track_in_bounds(track, track_len, image_size)
             <=> (track + 1) * track_len <= image_size
      BY <1>1, <1>3, BoundsCorrect DEF BoundsExact
    <2>2. track + 1 <= image_size \div track_len <=> (track + 1) * track_len <= image_size
      BY <1>1, <1>3, AtMostQuotient
    <2>3. image_size \div track_len \in Nat
      BY <1>1, <1>3, Quotient
    <2>4. QED
      BY <1>1, <1>3, <2>1, <2>2, <2>3 DEF CountExact, disk_track_count
  <1>4. QED
    BY <1>2, <1>3

-----------------------------------------------------------------------------
(* Shapes of jobs and of the tasks' positions.                             *)

IoJobs ==
    [type : {"READ", "WRITE"}, by : Tasks \cup {"none"}, drive : Drives,
     track : UInt32, len : 1 .. BufSize, n : 0 .. MaxWrites]
MountJobs ==
    [type : {"MOUNT"}, by : Consoles \cup {"none"}, drive : Drives,
     track : {0}, len : {0}, n : {0}]
CloseJobs == [type : {"CLOSE"}, by : {"none"}, bclose : Backings]
AllJobs == IoJobs \cup MountJobs \cup CloseJobs

TaskState(c, s) ==
    /\ s.pc \in {"idle", "post", "wait", "done", "copied", "dispose", "connect", "opened", "unlock"}
    /\ s.pc \in {"post", "wait"} =>
          s = [pc |-> s.pc, job |-> s.job] /\ s.job \in IoJobs \cup MountJobs /\ s.job.by = c
    /\ s.pc = "done" => s.job \in IoJobs
    /\ s.pc = "dispose" =>
          /\ s.b \in Backings
          /\ s.then.pc \in {"idle", "unlock", "connect"}
          /\ s.then.pc = "connect" => s.then.drive \in Drives
    /\ s.pc = "connect" => s.drive \in Drives
    /\ s.pc = "opened" => s.b \in Backings /\ s.drive \in Drives /\ s.img \in LocalImages
    /\ s.pc \in {"dispose", "connect", "opened", "unlock"} => c \in Consoles

WorkerState(w) ==
    /\ w.pc \in {"idle", "got", "picked", "store", "drop", "want", "install", "discard"}
    /\ w.pc = "got" => w = [pc |-> "got", job |-> w.job] /\ w.job \in AllJobs
    /\ w.pc = "picked" =>
          /\ w = [pc |-> "picked", job |-> w.job, b |-> w.b]
          /\ w.job \in IoJobs /\ w.b \in Backings \cup {NoBacking}
    /\ w.pc = "store" =>
          /\ w = [pc |-> "store", job |-> w.job, b |-> w.b, data |-> w.data]
          /\ w.job \in IoJobs /\ w.b \in Backings
    /\ w.pc = "drop" =>
          /\ w = [pc |-> "drop", job |-> w.job, b |-> w.b]
          /\ w.job \in IoJobs /\ w.b \in Backings
    /\ w.pc = "want" =>
          /\ w = [pc |-> "want", job |-> w.job, url |-> w.url]
          /\ w.job \in MountJobs /\ w.url \in RemoteImages
    /\ w.pc \in {"install", "discard"} =>
          /\ w = [pc |-> w.pc, job |-> w.job, url |-> w.url, b |-> w.b]
          /\ w.job \in MountJobs /\ w.url \in RemoteImages /\ w.b \in Backings

EvtState(e) ==
    /\ e.pc \in {"idle", "down", "dispose", "scan", "post"}
    /\ e.pc = "dispose" => e.close \subseteq Backings
    /\ e.pc \in {"scan", "post"} => e.todo \subseteq Drives
    /\ e.pc = "scan" => e.todo # {}
    /\ e.pc = "post" => e.drive \in Drives

Slots ==
    [mounted : BOOLEAN, remote : BOOLEAN, readonly : BOOLEAN,
     name : Images \cup {NoName}, backing : Backings \cup {NoBacking}]
OpenFiles == [img : Images, ro : BOOLEAN]

TasksOK == DOMAIN task = Tasks /\ \A c \in Tasks : TaskState(c, task[c])

Shapes ==
    /\ drv \in [Drives -> Slots]
    /\ heap \in [Backings -> {NoName} \cup OpenFiles]
    /\ rq \in Seq(AllJobs) /\ Len(rq) <= QueueLen
    /\ TasksOK
    /\ WorkerState(worker) /\ EvtState(evt)
    /\ mlock \in Consoles \cup {"none"} /\ link \in BOOLEAN /\ disc \in BOOLEAN
    /\ leaked \subseteq Backings /\ failed \subseteq Drives

Counted == written \in 0 .. MaxWrites

(* The caller named in a job that is queued or under way waits for it, and *)
(* for no other.                                                           *)
Awaited ==
    /\ \A i \in 1 .. Len(rq) :
          rq[i].by # "none" =>
            /\ task[rq[i].by].pc = "wait"
            /\ \A k \in 1 .. Len(rq) : rq[k].by = rq[i].by => k = i
    /\ worker.pc # "idle" /\ worker.job.by # "none" =>
          /\ task[worker.job.by].pc = "wait"
          /\ \A i \in 1 .. Len(rq) : rq[i].by # worker.job.by

-----------------------------------------------------------------------------
(* Who owns an open backing, kind by kind.                                 *)

InTable(b) == \E d \in Drives : drv[d].backing = b
QueuedAt(b, i) == rq[i].type = "CLOSE" /\ rq[i].bclose = b
Queued(b) == \E i \in 1 .. Len(rq) : QueuedAt(b, i)
HeldBy(b, c) == task[c].pc \in {"opened", "dispose"} /\ task[c].b = b
Held(b) == \E c \in Tasks : HeldBy(b, c)
WorkerHas(b) ==
    \/ worker.pc = "got" /\ worker.job.type = "CLOSE" /\ worker.job.bclose = b
    \/ worker.pc \in {"install", "discard"} /\ worker.b = b
EvtHas(b) == evt.pc = "dispose" /\ b \in evt.close

OwnedSomewhere(b) ==
    InTable(b) \/ Queued(b) \/ Held(b) \/ WorkerHas(b) \/ EvtHas(b) \/ b \in leaked
OneKind(b) ==
    /\ InTable(b) => ~Queued(b) /\ ~Held(b) /\ ~WorkerHas(b) /\ ~EvtHas(b) /\ b \notin leaked
    /\ Queued(b) => ~Held(b) /\ ~WorkerHas(b) /\ ~EvtHas(b) /\ b \notin leaked
    /\ Held(b) => ~WorkerHas(b) /\ ~EvtHas(b) /\ b \notin leaked
    /\ WorkerHas(b) => ~EvtHas(b) /\ b \notin leaked
    /\ EvtHas(b) => b \notin leaked
OneDrive(b) == \A d, e \in Drives : drv[d].backing = b /\ drv[e].backing = b => d = e
OneJob(b) == \A i, k \in 1 .. Len(rq) : QueuedAt(b, i) /\ QueuedAt(b, k) => i = k
OneHolder(b) == \A c, o \in Tasks : HeldBy(b, c) /\ HeldBy(b, o) => c = o

OwnedOnce(b) ==
    /\ heap[b] # NoName <=> OwnedSomewhere(b)
    /\ OneKind(b) /\ OneDrive(b) /\ OneJob(b) /\ OneHolder(b)
Owned == \A b \in Backings : OwnedOnce(b)

-----------------------------------------------------------------------------
(* The mount table and the worker's session.                               *)

SlotTrue(d) ==
    /\ drv[d].mounted <=> drv[d].backing # NoBacking
    /\ drv[d].remote <=> drv[d].name \in RemoteImages
    /\ drv[d].mounted =>
          /\ heap[drv[d].backing] # NoName
          /\ ImageOf(drv[d].backing) = drv[d].name
          /\ drv[d].readonly <=> heap[drv[d].backing].ro
Table == \A d \in Drives : SlotTrue(d)

WorkerSession ==
    /\ worker.pc \in {"picked", "store", "drop"} /\ worker.b # NoBacking =>
          /\ heap[worker.b] # NoName /\ ImageOf(worker.b) \in RemoteImages
          /\ disk_track_in_bounds(worker.job.track, worker.job.len, ImageSize)
          /\ worker.job.type = "WRITE" => ~heap[worker.b].ro
    /\ worker.pc = "drop" => worker.job.type = "WRITE"
    /\ worker.pc \in {"install", "discard"} =>
          heap[worker.b] # NoName /\ ImageOf(worker.b) = worker.url
OpenedFiles ==
    \A c \in Tasks : task[c].pc = "opened" => heap[task[c].b] = [img |-> task[c].img, ro |-> FALSE]
Session == WorkerSession /\ OpenedFiles

(* The mount lock is held from the open to the swap, and from an open that *)
(* failed to the end of the call.                                          *)
Holds(c) ==
    \/ task[c].pc \in {"opened", "unlock"}
    \/ task[c].pc = "dispose" /\ task[c].then.pc = "unlock"
Locked == \A c \in Tasks : Holds(c) => mlock = c

-----------------------------------------------------------------------------
CoreInv == Shapes /\ Counted /\ Awaited /\ Owned /\ Table /\ Session /\ Locked

-----------------------------------------------------------------------------
(* Facts about tasks and jobs.                                             *)

LEMMA TaskNames ==
  /\ "fdc" \in Tasks /\ Consoles \subseteq Tasks /\ Readers \subseteq Tasks
  /\ "none" \notin Tasks /\ "fdc" \notin Consoles
BY DiskAssumption DEF Tasks

LEMMA ImageNames ==
  /\ LocalImages \subseteq Images /\ RemoteImages \subseteq Images
  /\ NoName \notin Images /\ NoName \notin OpenFiles
  /\ \A img \in LocalImages : img \notin RemoteImages
BY DiskAssumption DEF Images, OpenFiles

LEMMA FileNames ==
  ASSUME NEW img \in Images, NEW ro \in BOOLEAN
  PROVE  [img |-> img, ro |-> ro] \in OpenFiles /\ [img |-> img, ro |-> ro] # NoName
<1>1. [img |-> img, ro |-> ro] \in OpenFiles
  BY DEF OpenFiles
<1>2. QED
  BY <1>1, ImageNames

(* What the fields of a job are.                                           *)
LEMMA JobFields ==
  ASSUME NEW j \in AllJobs
  PROVE  /\ j.by \in Tasks \cup {"none"}
         /\ j.type \in {"READ", "WRITE"} => j \in IoJobs
         /\ j.type = "MOUNT" => j \in MountJobs
         /\ j.type = "CLOSE" => j.by = "none" /\ j.bclose \in Backings
         /\ j.type \in {"READ", "WRITE", "MOUNT", "CLOSE"}
BY TaskNames DEF AllJobs, IoJobs, MountJobs, CloseJobs

LEMMA QueueAppend ==
  ASSUME rq \in Seq(AllJobs), NEW j \in AllJobs, rq' = Append(rq, j)
  PROVE  /\ rq' \in Seq(AllJobs) /\ Len(rq') = Len(rq) + 1 /\ Len(rq) \in Nat
         /\ \A i \in 1 .. Len(rq) : rq'[i] = rq[i]
         /\ rq'[Len(rq) + 1] = j
         /\ \A i \in 1 .. Len(rq') : i \in 1 .. Len(rq) \/ i = Len(rq) + 1
<1>1. Len(rq) \in Nat
  OBVIOUS
<1>2. rq' \in Seq(AllJobs) /\ Len(rq') = Len(rq) + 1
  OBVIOUS
<1>3. (\A i \in 1 .. Len(rq) : rq'[i] = rq[i]) /\ rq'[Len(rq) + 1] = j
  OBVIOUS
<1>4. \A i \in 1 .. Len(rq') : i \in 1 .. Len(rq) \/ i = Len(rq) + 1
  BY <1>1, <1>2
<1>5. QED
  BY <1>1, <1>2, <1>3, <1>4

LEMMA QueueTail ==
  ASSUME rq \in Seq(AllJobs), rq # <<>>, rq' = Tail(rq)
  PROVE  /\ rq' \in Seq(AllJobs) /\ Len(rq') = Len(rq) - 1 /\ Len(rq') \in Nat
         /\ \A i \in 1 .. Len(rq') : rq'[i] = rq[i + 1] /\ i + 1 \in 1 .. Len(rq)
         /\ Head(rq) = rq[1] /\ rq[1] \in AllJobs /\ 1 \in 1 .. Len(rq)
         /\ \A i \in 1 .. Len(rq) : i = 1 \/ i - 1 \in 1 .. Len(rq')
<1>1. Len(rq) \in Nat /\ Len(rq) # 0
  OBVIOUS
<1>2. rq' \in Seq(AllJobs) /\ Len(rq') = Len(rq) - 1
  OBVIOUS
<1>3. \A i \in 1 .. Len(rq') : rq'[i] = rq[i + 1]
  OBVIOUS
<1>4. Head(rq) = rq[1] /\ rq[1] \in AllJobs
  BY <1>1
<1>5. QED
  BY <1>1, <1>2, <1>3, <1>4

(* A job without its caller.                                               *)
Orphan(j, c) == IF j.by = c THEN [j EXCEPT !.by = "none"] ELSE j

LEMMA OrphanFields ==
  ASSUME NEW j \in AllJobs, NEW c
  PROVE  /\ Orphan(j, c) \in AllJobs
         /\ Orphan(j, c).type = j.type
         /\ Orphan(j, c).by = IF j.by = c THEN "none" ELSE j.by
         /\ j.type = "CLOSE" => Orphan(j, c).bclose = j.bclose
         /\ j.type # "CLOSE" =>
              /\ Orphan(j, c).drive = j.drive /\ Orphan(j, c).n = j.n
              /\ Orphan(j, c).track = j.track /\ Orphan(j, c).len = j.len
         /\ j \in IoJobs => Orphan(j, c) \in IoJobs
         /\ j \in MountJobs => Orphan(j, c) \in MountJobs
<1>1. CASE j \in IoJobs
  BY <1>1 DEF Orphan, IoJobs, AllJobs, MountJobs, CloseJobs
<1>2. CASE j \in MountJobs
  BY <1>2 DEF Orphan, IoJobs, AllJobs, MountJobs, CloseJobs
<1>3. CASE j \in CloseJobs
  BY <1>3 DEF Orphan, IoJobs, AllJobs, MountJobs, CloseJobs
<1>4. QED
  BY <1>1, <1>2, <1>3 DEF AllJobs

(* The state of the worker, field by field.                                *)
LEMMA WorkerJob ==
  ASSUME WorkerState(worker), worker.pc # "idle"
  PROVE  worker.job \in AllJobs
BY DEF WorkerState, AllJobs

(* A caller that gives up changes nothing but who its job is for.          *)
LEMMA ExpiryEffect ==
  ASSUME Shapes, NEW c \in Tasks, WaitExpires(c)
  PROVE  /\ rq' \in Seq(AllJobs) /\ Len(rq') = Len(rq) /\ Len(rq) \in Nat
         /\ \A i \in 1 .. Len(rq) : rq[i] \in AllJobs /\ rq'[i] = Orphan(rq[i], c)
         /\ WorkerState(worker') /\ worker'.pc = worker.pc
         /\ worker.pc # "idle" => worker'.job = Orphan(worker.job, c)
         /\ worker'.pc \in {"picked", "store", "drop", "install", "discard"} => worker'.b = worker.b
         /\ worker'.pc \in {"want", "install", "discard"} => worker'.url = worker.url
         /\ worker'.pc = "store" => worker'.data = worker.data
<1>1. rq \in Seq(AllJobs) /\ Len(rq) \in Nat /\ \A i \in 1 .. Len(rq) : rq[i] \in AllJobs
  BY DEF Shapes
<1>2. rq' = [i \in 1 .. Len(rq) |-> Orphan(rq[i], c)]
  BY DEF WaitExpires, Orphan
<1>3. \A i \in 1 .. Len(rq) : Orphan(rq[i], c) \in AllJobs
  BY <1>1, OrphanFields
<1>4. rq' \in Seq(AllJobs) /\ Len(rq') = Len(rq) /\ \A i \in 1 .. Len(rq) : rq'[i] = Orphan(rq[i], c)
  BY <1>1, <1>2, <1>3
<1>5. CASE worker.pc = "idle"
  BY <1>1, <1>4, <1>5 DEF WaitExpires, Shapes, WorkerState
<1>6. CASE worker.pc # "idle"
  <2> DEFINE o == Orphan(worker.job, c)
  <2>1. worker' = [worker EXCEPT !.job = o]
    BY <1>6 DEF WaitExpires, Orphan
  <2>2. worker.job \in AllJobs
    BY <1>6, WorkerJob DEF Shapes
  <2>3. /\ o \in AllJobs /\ (worker.job \in IoJobs => o \in IoJobs)
        /\ (worker.job \in MountJobs => o \in MountJobs)
    BY <2>2, OrphanFields
  <2> HIDE DEF o
  <2>4. /\ worker.pc = "got" => worker' = [pc |-> "got", job |-> o]
        /\ worker.pc = "picked" => worker' = [pc |-> "picked", job |-> o, b |-> worker.b]
        /\ worker.pc = "store" => worker' = [pc |-> "store", job |-> o, b |-> worker.b, data |-> worker.data]
        /\ worker.pc = "drop" => worker' = [pc |-> "drop", job |-> o, b |-> worker.b]
        /\ worker.pc = "want" => worker' = [pc |-> "want", job |-> o, url |-> worker.url]
        /\ worker.pc \in {"install", "discard"} =>
              worker' = [pc |-> worker.pc, job |-> o, url |-> worker.url, b |-> worker.b]
    <3>1. WorkerState(worker)
      BY DEF Shapes
    <3>2. CASE worker.pc = "got"
      <4>1. worker = [pc |-> "got", job |-> worker.job]
        BY <3>1, <3>2 DEF WorkerState
      <4>2. QED
        BY <4>1, <2>1, <3>2
    <3>3. CASE worker.pc = "picked"
      <4>1. worker = [pc |-> "picked", job |-> worker.job, b |-> worker.b]
        BY <3>1, <3>3 DEF WorkerState
      <4>2. QED
        BY <4>1, <2>1, <3>3
    <3>4. CASE worker.pc = "store"
      <4>1. worker = [pc |-> "store", job |-> worker.job, b |-> worker.b, data |-> worker.data]
        BY <3>1, <3>4 DEF WorkerState
      <4>2. QED
        BY <4>1, <2>1, <3>4
    <3>5. CASE worker.pc = "drop"
      <4>1. worker = [pc |-> "drop", job |-> worker.job, b |-> worker.b]
        BY <3>1, <3>5 DEF WorkerState
      <4>2. QED
        BY <4>1, <2>1, <3>5
    <3>6. CASE worker.pc = "want"
      <4>1. worker = [pc |-> "want", job |-> worker.job, url |-> worker.url]
        BY <3>1, <3>6 DEF WorkerState
      <4>2. QED
        BY <4>1, <2>1, <3>6
    <3>7. CASE worker.pc \in {"install", "discard"}
      <4>1. worker = [pc |-> worker.pc, job |-> worker.job, url |-> worker.url, b |-> worker.b]
        BY <3>1, <3>7 DEF WorkerState
      <4>2. QED
        BY <4>1, <2>1, <3>7
    <3>8. QED
      BY <3>1, <3>2, <3>3, <3>4, <3>5, <3>6, <3>7
  <2>5. WorkerState(worker)
    BY DEF Shapes
  <2>6. WorkerState(worker') /\ worker'.pc = worker.pc /\ worker'.job = o
    BY <1>6, <2>3, <2>4, <2>5 DEF WorkerState
  <2>7. /\ worker'.pc \in {"picked", "store", "drop", "install", "discard"} => worker'.b = worker.b
        /\ worker'.pc \in {"want", "install", "discard"} => worker'.url = worker.url
        /\ worker'.pc = "store" => worker'.data = worker.data
    BY <2>4, <2>6
  <2>8. QED
    BY <1>1, <1>4, <1>6, <2>6, <2>7 DEF o
<1>7. QED
  BY <1>5, <1>6

(* One task goes on to the state s.                                        *)
LEMMA TaskMoves ==
  ASSUME TasksOK, NEW c \in Tasks, NEW s, TaskState(c, s), Become(c, s)
  PROVE  TasksOK' /\ task'[c] = s /\ \A o \in Tasks : o # c => task'[o] = task[o]
BY DEF TasksOK, Become

(* The end of a job: its caller, if it still waits, is idle or goes on to  *)
(* copy what it read.                                                      *)
LEMMA CompleteEffect ==
  ASSUME Shapes, Awaited, worker.pc # "idle", NEW ok, NEW img, Complete(ok, img)
  PROVE  /\ worker' = IdleWorker /\ TasksOK'
         /\ \A c \in Tasks :
              \/ task'[c] = task[c]
              \/ task[c].pc = "wait" /\ c = worker.job.by /\ task'[c].pc \in {"idle", "done"}
         /\ worker.job.by # "none" => task'[worker.job.by].pc # "wait"
<1> DEFINE j == worker.job
           s == IF ok /\ j.type = "READ" THEN [pc |-> "done", job |-> j] ELSE IdleTask
<1>1. worker' = IdleWorker /\ TasksOK /\ j \in AllJobs
  BY WorkerJob DEF Complete, Work, Shapes
<1>2. CASE j.by = "none"
  BY <1>1, <1>2 DEF Complete, TasksOK
<1>3. CASE j.by # "none"
  <2>1. j.by \in Tasks /\ task[j.by].pc = "wait"
    BY <1>1, <1>3, JobFields DEF Awaited
  <2>2. Become(j.by, s)
    BY <1>3 DEF Complete
  <2>3. TaskState(j.by, s) /\ s.pc \in {"idle", "done"}
    BY <1>1, JobFields DEF TaskState, IdleTask
  <2>4. TasksOK' /\ task'[j.by] = s /\ \A o \in Tasks : o # j.by => task'[o] = task[o]
    <3> HIDE DEF s, j
    <3>1. QED
      BY <1>1, <2>1, <2>2, <2>3, TaskMoves
  <2>5. QED
    BY <1>1, <2>1, <2>3, <2>4
<1>4. QED
  BY <1>2, <1>3

-----------------------------------------------------------------------------
(* Shapes: every step keeps them.                                          *)

LEMMA CheckedTrack ==
  ASSUME NEW d \in Drives, NEW t \in UInt32, NEW l \in UInt32, check_track(d, t, l)
  PROVE  /\ l \in 1 .. BufSize /\ disk_track_in_bounds(t, l, ImageSize)
         /\ drv[d].mounted /\ drv[d].backing # NoBacking
BY DiskAssumption, WidthAssumption DEF check_track, UInt32

(* The cells of an accepted track are cells of the image.                  *)
LEMMA TrackInImage ==
  ASSUME NEW t \in UInt32, NEW l \in 1 .. BufSize, disk_track_in_bounds(t, l, ImageSize)
  PROVE  /\ l \in UInt32 /\ disk_track_offset(t, l) \in Nat
         /\ CellsOf(t, l) \subseteq Cells
         /\ \A i \in 0 .. (l - 1) : disk_track_offset(t, l) + i \in Cells
         /\ \A i \in 0 .. (l - 1) : disk_track_offset(t, l) + i \in CellsOf(t, l)
         /\ \A x \in CellsOf(t, l) : x - disk_track_offset(t, l) \in 0 .. (l - 1)
<1>1. l \in UInt32 /\ l \in Nat /\ ImageSize \in UInt32 /\ ImageSize \in Nat /\ t \in Nat
  BY DiskAssumption, WidthAssumption DEF UInt32
<1>2. disk_track_offset(t, l) \in Nat
  BY <1>1, WidthAssumption DEF disk_track_offset, Mul32
<1>3. disk_track_offset(t, l) + l <= ImageSize
  BY <1>1, BoundsCorrect DEF OffsetExact
<1>4. QED
  BY <1>1, <1>2, <1>3 DEF CellsOf, Cells

LEMMA ShapesAfterCall ==
  ASSUME Shapes, Counted, NEW c \in Tasks, NEW d \in Drives, NEW t \in UInt32, NEW l \in UInt32,
         \/ ReadHit(c, d, t, l) \/ ReadLocal(c, d, t, l)
         \/ ReadLocalFails(c, d, t, l) \/ ReadRemote(c, d, t, l)
         \/ WriteLocal(d, t, l) \/ WriteLocalFails(d, t, l) \/ WriteRemote(d, t, l)
  PROVE  Shapes'
<1>1. c \in Tasks /\ "fdc" \in Tasks
  BY TaskNames
<1>2. l \in 1 .. BufSize
  BY CheckedTrack DEF ReadHit, ReadLocal, ReadLocalFails, ReadRemote, WriteLocal, WriteLocalFails, WriteRemote
<1>3. TasksOK'
  <2>1. CASE ReadHit(c, d, t, l) \/ ReadLocal(c, d, t, l)
    <3>1. PICK data : Copied(c, d, t, l, data)
      BY <2>1 DEF ReadHit, ReadLocal
    <3>2. TaskState(c, [pc |-> "copied", drive |-> d, track |-> t, len |-> l, data |-> data])
      BY DEF TaskState
    <3>3. QED
      BY <1>1, <3>1, <3>2, TaskMoves DEF Copied, Shapes
  <2>2. CASE ReadRemote(c, d, t, l)
    <3> DEFINE s == [pc |-> "post", job |-> Job("READ", c, d, <<t, l>>, 0)]
    <3>1. Become(c, s)
      BY <2>2 DEF ReadRemote
    <3>2. Job("READ", c, d, <<t, l>>, 0) \in IoJobs /\ Job("READ", c, d, <<t, l>>, 0).by = c
      BY <1>1, <1>2, DiskAssumption DEF Job, IoJobs
    <3>3. TaskState(c, s)
      BY <3>2 DEF TaskState
    <3> HIDE DEF s
    <3>4. QED
      BY <1>1, <3>1, <3>3, TaskMoves DEF Shapes
  <2>3. CASE WriteRemote(d, t, l)
    <3> DEFINE s == [pc |-> "post", job |-> Job("WRITE", "fdc", d, <<t, l>>, NextWrite)]
    <3>1. Become("fdc", s)
      BY <2>3 DEF WriteRemote
    <3>2. NextWrite \in 0 .. MaxWrites
      BY <2>3, DiskAssumption DEF WriteRemote, NextWrite, Counted
    <3>3. Job("WRITE", "fdc", d, <<t, l>>, NextWrite) \in IoJobs
          /\ Job("WRITE", "fdc", d, <<t, l>>, NextWrite).by = "fdc"
      BY <1>1, <1>2, <3>2 DEF Job, IoJobs
    <3>4. TaskState("fdc", s)
      BY <3>3 DEF TaskState
    <3> HIDE DEF s
    <3>5. QED
      BY <1>1, <3>1, <3>4, TaskMoves DEF Shapes
  <2>4. CASE ReadLocalFails(c, d, t, l) \/ WriteLocal(d, t, l) \/ WriteLocalFails(d, t, l)
    BY <2>4 DEF ReadLocalFails, WriteLocal, WriteLocalFails, Shapes, TasksOK
  <2>5. QED
    BY <2>1, <2>2, <2>3, <2>4
<1>4. UNCHANGED <<drv, heap, rq, worker, evt, mlock, link, disc, leaked, failed>>
  BY DEF ReadHit, ReadLocal, ReadLocalFails, ReadRemote, WriteLocal, WriteLocalFails, WriteRemote,
         table, files, jobs, wifi, history
<1>5. QED
  BY <1>3, <1>4 DEF Shapes

(* What a console does with the backing that it took out of the table.     *)
LEMMA DisposingState ==
  ASSUME Shapes, NEW c \in Consoles, NEW d \in Drives, NEW then,
         then.pc \in {"idle", "unlock", "connect"}, then.pc = "connect" => then.drive \in Drives,
         TaskState(c, then)
  PROVE  TaskState(c, Disposing(drv[d].backing, then))
BY DEF Disposing, TaskState, Shapes, Slots

LEMMA IdleState ==
  ASSUME NEW c
  PROVE  TaskState(c, IdleTask) /\ IdleTask.pc = "idle"
BY DEF TaskState, IdleTask

LEMMA ShapesAfterUnmount ==
  ASSUME Shapes, NEW c \in Consoles, NEW d \in Drives, NEW then, NEW slot \in Slots,
         then.pc \in {"idle", "unlock", "connect"}, then.pc = "connect" => then.drive \in Drives,
         TaskState(c, then),
         drv' = [drv EXCEPT ![d] = slot], failed' = failed \ {d},
         Become(c, Disposing(drv[d].backing, then)),
         UNCHANGED <<files, jobs, wifi, leaked>>, mlock' \in Consoles \cup {"none"}
  PROVE  Shapes'
<1>1. TasksOK'
  BY TaskNames, DisposingState, TaskMoves DEF Shapes
<1>2. drv' \in [Drives -> Slots]
  BY DEF Shapes
<1>3. QED
  BY <1>1, <1>2 DEF Shapes, files, jobs, wifi

LEMMA SlotFields ==
  /\ EmptySlot \in Slots /\ ~EmptySlot.mounted /\ ~EmptySlot.remote
  /\ EmptySlot.backing = NoBacking /\ EmptySlot.name = NoName
  /\ \A url \in RemoteImages :
        /\ RemoteSlot(url) \in Slots /\ ~RemoteSlot(url).mounted /\ RemoteSlot(url).remote
        /\ RemoteSlot(url).backing = NoBacking /\ RemoteSlot(url).name = url
  /\ \A img \in LocalImages, b \in Backings :
        /\ LocalSlot(img, b) \in Slots /\ LocalSlot(img, b).mounted /\ ~LocalSlot(img, b).remote
        /\ LocalSlot(img, b).backing = b /\ LocalSlot(img, b).name = img /\ ~LocalSlot(img, b).readonly
BY DEF EmptySlot, RemoteSlot, LocalSlot, Slots, Images

LEMMA ShapesRemoteConfigure ==
  ASSUME Shapes, NEW c \in Consoles, NEW d \in Drives, NEW url \in RemoteImages, RemoteConfigure(c, d, url)
  PROVE  Shapes'
<1> DEFINE then == [pc |-> "connect", drive |-> d]
<1>1. TaskState(c, then) /\ then.pc = "connect" /\ then.drive = d
  BY DEF TaskState
<1>2. Become(c, Disposing(drv[d].backing, then))
  BY DEF RemoteConfigure
<1>3. mlock' \in Consoles \cup {"none"} /\ drv' = [drv EXCEPT ![d] = RemoteSlot(url)]
  BY DEF RemoteConfigure, Shapes
<1>4. UNCHANGED <<files, jobs, wifi, leaked>> /\ failed' = failed \ {d} /\ RemoteSlot(url) \in Slots
  BY SlotFields DEF RemoteConfigure
<1> HIDE DEF then
<1>5. QED
  BY <1>1, <1>2, <1>3, <1>4, ShapesAfterUnmount

LEMMA ShapesMountOpen ==
  ASSUME Shapes, NEW c \in Consoles, NEW d \in Drives, NEW img \in LocalImages, MountOpen(c, d, img)
  PROVE  Shapes'
<1>1. PICK b \in Free :
        heap' = Open(b, img, FALSE) /\ Become(c, [pc |-> "opened", b |-> b, drive |-> d, img |-> img])
  BY DEF MountOpen
<1>2. TaskState(c, [pc |-> "opened", b |-> b, drive |-> d, img |-> img])
  BY <1>1 DEF TaskState, Free
<1>3. TasksOK'
  BY <1>1, <1>2, TaskMoves, TaskNames DEF Shapes
<1>4. heap' \in [Backings -> {NoName} \cup OpenFiles]
  BY <1>1, ImageNames DEF Shapes, Open, Free, OpenFiles
<1>5. UNCHANGED <<drv, rq, worker, evt, link, disc, leaked, failed>> /\ mlock' = c
  BY DEF MountOpen, table, jobs, wifi, history
<1>6. QED
  BY <1>3, <1>4, <1>5 DEF Shapes

LEMMA ShapesUnmount ==
  ASSUME Shapes, NEW c \in Consoles, NEW d \in Drives, MountFails(c, d) \/ UnmountDo(c, d)
  PROVE  Shapes'
<1>1. PICK then : Unmount(c, d, then) /\ then \in {IdleTask, [pc |-> "unlock"]}
  BY DEF MountFails, UnmountDo
<1>2. TaskState(c, then) /\ then.pc \in {"idle", "unlock"}
  BY <1>1, IdleState DEF TaskState
<1>3. mlock' \in Consoles \cup {"none"}
  BY DEF MountFails, UnmountDo, Shapes
<1>4. QED
  BY <1>1, <1>2, <1>3, SlotFields, ShapesAfterUnmount DEF Unmount

(* A backing handed to the worker.                                         *)
LEMMA HandEffect ==
  ASSUME Shapes, NEW b \in Backings, HandToWorker(b)
  PROVE  /\ rq' \in Seq(AllJobs) /\ Len(rq') <= QueueLen /\ leaked' \subseteq Backings
         /\ \/ rq' = Append(rq, CloseJob(b)) /\ CloseJob(b) \in AllJobs /\ leaked' = leaked
            \/ rq' = rq /\ leaked' = leaked \cup {b}
<1>1. CloseJob(b) \in AllJobs
  BY DEF CloseJob, AllJobs, CloseJobs
<1>2. CASE Room /\ rq' = Append(rq, CloseJob(b)) /\ UNCHANGED leaked
  <2>1. rq' \in Seq(AllJobs) /\ Len(rq') = Len(rq) + 1 /\ Len(rq) \in Nat
    BY <1>1, <1>2, QueueAppend DEF Shapes
  <2>2. QED
    BY <1>1, <1>2, <2>1, DiskAssumption DEF Shapes, Room
<1>3. CASE PostMayFail /\ leaked' = leaked \cup {b} /\ UNCHANGED rq
  BY <1>3 DEF Shapes
<1>4. QED
  BY <1>2, <1>3 DEF HandToWorker

LEMMA ShapesPostWait ==
  ASSUME Shapes, NEW c \in Tasks, PostWait(c)
  PROVE  /\ Shapes' /\ task[c].job \in AllJobs /\ task[c].job.by = c
         /\ task'[c] = [pc |-> "wait", job |-> task[c].job]
         /\ \A o \in Tasks : o # c => task'[o] = task[o]
<1> DEFINE j == task[c].job
<1>1. task[c] = [pc |-> "post", job |-> j] /\ j \in IoJobs \cup MountJobs /\ j.by = c
  BY DEF PostWait, Shapes, TasksOK, TaskState
<1>2. j \in AllJobs
  BY <1>1 DEF AllJobs
<1>3. Become(c, [pc |-> "wait", job |-> j])
  <2>1. [task[c] EXCEPT !.pc = "wait"] = [pc |-> "wait", job |-> j]
    BY <1>1
  <2>2. QED
    BY <2>1 DEF PostWait
<1>4. TaskState(c, [pc |-> "wait", job |-> j])
  BY <1>1 DEF TaskState
<1>5. TasksOK' /\ task'[c] = [pc |-> "wait", job |-> j] /\ \A o \in Tasks : o # c => task'[o] = task[o]
  BY <1>3, <1>4, TaskMoves DEF Shapes
<1>6. rq' = Append(rq, j) /\ Len(rq) < QueueLen
  BY DEF PostWait, Room
<1>7. rq' \in Seq(AllJobs) /\ Len(rq') <= QueueLen
  <2>1. rq' \in Seq(AllJobs) /\ Len(rq') = Len(rq) + 1 /\ Len(rq) \in Nat
    BY <1>2, <1>6, QueueAppend DEF Shapes
  <2>2. QED
    BY <2>1, <1>6, DiskAssumption
<1>8. UNCHANGED <<drv, heap, worker, evt, mlock, link, disc, leaked, failed>>
  BY DEF PostWait, table, files, wifi, history
<1>9. QED
  BY <1>1, <1>2, <1>5, <1>7, <1>8 DEF Shapes

LEMMA ShapesDispose ==
  ASSUME Shapes, NEW c \in Tasks, Dispose(c)
  PROVE  Shapes' /\ task'[c] = task[c].then /\ \A o \in Tasks : o # c => task'[o] = task[o]
<1>1. /\ task[c].pc = "dispose" /\ task[c].b \in Backings /\ TaskState(c, task[c].then)
  BY DEF Dispose, Shapes, TasksOK, TaskState
<1>2. TasksOK' /\ task'[c] = task[c].then /\ \A o \in Tasks : o # c => task'[o] = task[o]
  BY <1>1, TaskMoves DEF Dispose, Shapes
<1>3. UNCHANGED <<drv, worker, evt, mlock, link, disc, failed>>
  BY DEF Dispose, table, wifi
<1>4. heap' \in [Backings -> {NoName} \cup OpenFiles] /\ leaked' \subseteq Backings
      /\ rq' \in Seq(AllJobs) /\ Len(rq') <= QueueLen
  <2>1. CASE HandToWorker(task[c].b) /\ UNCHANGED heap
    BY <1>1, <2>1, HandEffect DEF Shapes
  <2>2. CASE heap' = Close(task[c].b) /\ UNCHANGED <<rq, leaked>>
    BY <1>1, <2>2 DEF Shapes, Close
  <2>3. QED
    BY <2>1, <2>2 DEF Dispose
<1>5. QED
  BY <1>2, <1>3, <1>4 DEF Shapes

LEMMA ShapesMountSwap ==
  ASSUME Shapes, NEW c \in Tasks, MountSwap(c)
  PROVE  Shapes'
<1> DEFINE d == task[c].drive
           slot == LocalSlot(task[c].img, task[c].b)
<1>1. c \in Consoles /\ d \in Drives /\ slot \in Slots
  BY SlotFields DEF MountSwap, Shapes, TasksOK, TaskState
<1>2. /\ drv' = [drv EXCEPT ![d] = slot] /\ failed' = failed \ {d} /\ mlock' = "none"
      /\ Become(c, Disposing(drv[d].backing, IdleTask)) /\ UNCHANGED <<files, jobs, wifi, leaked>>
  BY DEF MountSwap
<1> HIDE DEF d, slot
<1>3. QED
  BY <1>1, <1>2, IdleState, ShapesAfterUnmount

(* The other steps of a call.                                              *)
LEMMA ShapesCallStep ==
  ASSUME Shapes, NEW c \in Tasks,
         \/ PostFails(c) \/ WaitExpires(c) \/ ReadDone(c) \/ ReadReturns(c)
         \/ RemoteConnect(c) \/ MountUnlock(c)
  PROVE  Shapes'
<1>1. TaskState(c, task[c]) /\ TaskState(c, IdleTask)
  BY IdleState DEF Shapes, TasksOK
<1>2. CASE PostFails(c)
  <2>1. TasksOK' /\ task[c].job \in IoJobs \cup MountJobs
    BY <1>1, <1>2, TaskMoves DEF PostFails, Shapes, TaskState
  <2>2. failed' \subseteq Drives
    BY <1>2, <2>1 DEF PostFails, Shapes, IoJobs, MountJobs
  <2>3. QED
    BY <1>2, <2>1, <2>2 DEF PostFails, Shapes, table, files, jobs, wifi
<1>3. CASE WaitExpires(c)
  <2>1. TasksOK'
    BY <1>1, <1>3, TaskMoves DEF WaitExpires, Shapes
  <2>2. rq' \in Seq(AllJobs) /\ Len(rq') = Len(rq) /\ WorkerState(worker')
    BY <1>3, ExpiryEffect
  <2>3. UNCHANGED <<drv, heap, evt, mlock, link, disc, leaked, failed>>
    BY <1>3 DEF WaitExpires, table, files, wifi, history
  <2>4. QED
    BY <2>1, <2>2, <2>3 DEF Shapes
<1>4. CASE ReadDone(c)
  <2>1. PICK s : Become(c, s) /\ (s = IdleTask \/ s.pc = "copied")
    BY <1>4 DEF ReadDone, Copied
  <2>2. TasksOK'
    BY <1>1, <2>1, TaskMoves DEF Shapes, TaskState
  <2>3. QED
    BY <1>4, <2>2 DEF ReadDone, Shapes, table, files, jobs, wifi, history
<1>5. CASE ReadReturns(c)
  <2>1. TasksOK'
    BY <1>1, <1>5, TaskMoves DEF ReadReturns, Shapes
  <2>2. QED
    BY <1>5, <2>1 DEF ReadReturns, Shapes, table, files, jobs, wifi, history
<1>6. CASE RemoteConnect(c)
  <2>1. c \in Consoles /\ task[c].drive \in Drives
    BY <1>1, <1>6 DEF RemoteConnect, TaskState
  <2>2. MountJob(c, task[c].drive) \in MountJobs /\ MountJob(c, task[c].drive).by = c
    BY <2>1 DEF MountJob, Job, MountJobs
  <2>3. TaskState(c, [pc |-> "post", job |-> MountJob(c, task[c].drive)])
    BY <2>2 DEF TaskState
  <2>4. TasksOK'
    BY <1>1, <1>6, <2>3, TaskMoves DEF RemoteConnect, Shapes
  <2>5. QED
    BY <1>6, <2>4 DEF RemoteConnect, Shapes, table, files, jobs, wifi, history
<1>7. CASE MountUnlock(c)
  <2>1. TasksOK'
    BY <1>1, <1>7, TaskMoves DEF MountUnlock, Shapes
  <2>2. QED
    BY <1>7, <2>1 DEF MountUnlock, Shapes, table, files, jobs, wifi, history
<1>8. QED
  BY <1>2, <1>3, <1>4, <1>5, <1>6, <1>7

LEMMA ShapesComplete ==
  ASSUME Shapes, Awaited, worker.pc # "idle", NEW ok, NEW img, Complete(ok, img),
         UNCHANGED <<rq, mlock, wifi, leaked>>,
         drv' \in [Drives -> Slots], heap' \in [Backings -> {NoName} \cup OpenFiles],
         failed' \subseteq Drives
  PROVE  Shapes'
<1>1. worker' = IdleWorker /\ TasksOK'
  BY CompleteEffect
<1>2. WorkerState(worker')
  BY <1>1 DEF WorkerState, IdleWorker
<1>3. QED
  BY <1>1, <1>2 DEF Shapes, wifi

LEMMA ShapesContinue ==
  ASSUME Shapes, NEW s, WorkerState(s), Continue(s), UNCHANGED <<drv, rq, mlock, wifi, leaked, failed>>,
         heap' \in [Backings -> {NoName} \cup OpenFiles]
  PROVE  Shapes'
BY DEF Continue, Work, Shapes, wifi, TasksOK

(* The job under way: what the worker knows of it.                         *)
LEMMA WorkerFields ==
  ASSUME Shapes
  PROVE  /\ worker.pc # "idle" => worker.job \in AllJobs
         /\ worker.pc \in {"picked", "store", "drop"} =>
              worker.job \in IoJobs /\ worker.b \in Backings \cup {NoBacking}
         /\ worker.pc \in {"store", "drop", "install", "discard"} => worker.b \in Backings
         /\ worker.pc \in {"want", "install", "discard"} => worker.job \in MountJobs /\ worker.url \in RemoteImages
BY WorkerJob DEF Shapes, WorkerState

LEMMA ShapesReceive == ASSUME Shapes, Receive PROVE Shapes'
<1>1. rq \in Seq(AllJobs) /\ rq # <<>> /\ rq' = Tail(rq)
  BY DEF Shapes, Receive
<1>2. rq' \in Seq(AllJobs) /\ Len(rq') <= QueueLen /\ Head(rq) \in AllJobs
  <2>1. rq' \in Seq(AllJobs) /\ Len(rq') = Len(rq) - 1 /\ Len(rq') \in Nat /\ Head(rq) \in AllJobs
    BY <1>1, QueueTail
  <2>2. Len(rq) \in Nat /\ Len(rq) <= QueueLen
    BY <1>1 DEF Shapes
  <2>3. QED
    BY <2>1, <2>2, DiskAssumption
<1>3. WorkerState(worker')
  BY <1>2 DEF Receive, Work, WorkerState
<1>4. QED
  BY <1>2, <1>3 DEF Receive, Shapes, table, files, wifi, history, TasksOK

LEMMA ShapesTrackIo ==
  ASSUME Shapes, Awaited, Session,
         \/ Lookup \/ NotReady \/ FetchTrack \/ FetchFails
         \/ SendTrack \/ SendFails \/ StoreTrack \/ DropTrack
  PROVE  Shapes'
<1>1. drv \in [Drives -> Slots] /\ heap \in [Backings -> {NoName} \cup OpenFiles] /\ failed \subseteq Drives
  BY DEF Shapes
<1>2. CASE Lookup
  <2>1. PICK b \in Backings \cup {NoBacking} : Continue([pc |-> "picked", job |-> worker.job, b |-> b])
    BY <1>1, <1>2, WorkerFields, JobFields DEF Lookup, Slots, IoJobs
  <2>2. worker.job \in IoJobs
    BY <1>2, WorkerFields, JobFields DEF Lookup
  <2>3. WorkerState([pc |-> "picked", job |-> worker.job, b |-> b])
    BY <2>1, <2>2 DEF WorkerState
  <2>4. UNCHANGED <<drv, rq, mlock, wifi, leaked, failed, heap>>
    BY <1>2 DEF Lookup, table, files
  <2>5. QED
    BY <1>1, <2>1, <2>3, <2>4, ShapesContinue
<1>3. CASE NotReady \/ FetchFails \/ StoreTrack \/ DropTrack
  <2>1. PICK ok, img : Complete(ok, img)
    BY <1>3 DEF NotReady, FetchFails, StoreTrack, DropTrack
  <2>2. worker.pc # "idle" /\ UNCHANGED <<drv, heap, rq, mlock, wifi, leaked, failed>>
    BY <1>3 DEF NotReady, FetchFails, StoreTrack, DropTrack, Usable, table, files
  <2>3. QED
    BY <1>1, <2>1, <2>2, ShapesComplete
<1>4. CASE FetchTrack \/ SendTrack
  <2>1. PICK data : Continue([pc |-> "store", job |-> worker.job, b |-> worker.b, data |-> data])
    BY <1>4 DEF FetchTrack, SendTrack
  <2>2. WorkerState([pc |-> "store", job |-> worker.job, b |-> worker.b, data |-> data])
    BY <1>4, WorkerFields DEF FetchTrack, SendTrack, Usable, WorkerState
  <2>3. UNCHANGED <<drv, rq, mlock, wifi, leaked, failed, heap>>
    BY <1>4 DEF FetchTrack, SendTrack, table, files
  <2>4. QED
    BY <1>1, <2>1, <2>2, <2>3, ShapesContinue
<1>5. CASE SendFails
  <2>1. Continue([pc |-> "drop", job |-> worker.job, b |-> worker.b])
    BY <1>5 DEF SendFails
  <2>2. WorkerState([pc |-> "drop", job |-> worker.job, b |-> worker.b])
    BY <1>5, WorkerFields DEF SendFails, Usable, WorkerState
  <2>3. UNCHANGED <<drv, rq, mlock, wifi, leaked, failed, heap>>
    BY <1>5 DEF SendFails, table
  <2>4. QED
    BY <1>1, <2>1, <2>2, <2>3, ShapesContinue
<1>6. QED
  BY <1>2, <1>3, <1>4, <1>5

(* One field of a slot is set.                                             *)
LEMMA SetBacking ==
  ASSUME NEW s \in Slots, NEW v \in Backings \cup {NoBacking}, NEW y, y = [s EXCEPT !.backing = v]
  PROVE  /\ y \in Slots /\ y.backing = v /\ y.name = s.name
         /\ y.remote = s.remote /\ y.mounted = s.mounted /\ y.readonly = s.readonly
BY DEF Slots

LEMMA SetMounted ==
  ASSUME NEW s \in Slots, NEW v \in BOOLEAN, NEW y, y = [s EXCEPT !.mounted = v]
  PROVE  /\ y \in Slots /\ y.backing = s.backing /\ y.name = s.name
         /\ (y.remote <=> s.remote) /\ (y.mounted <=> v) /\ (y.readonly <=> s.readonly)
<1>1. y \in Slots /\ y.backing = s.backing /\ y.name = s.name
  BY DEF Slots
<1>2. (y.remote <=> s.remote) /\ (y.mounted <=> v) /\ (y.readonly <=> s.readonly)
  BY Zenon DEF Slots
<1>3. QED
  BY <1>1, <1>2

LEMMA SetReadonly ==
  ASSUME NEW s \in Slots, NEW v \in BOOLEAN, NEW y, y = [s EXCEPT !.readonly = v]
  PROVE  /\ y \in Slots /\ y.backing = s.backing /\ y.name = s.name
         /\ (y.remote <=> s.remote) /\ (y.mounted <=> s.mounted) /\ (y.readonly <=> v)
<1>1. y \in Slots /\ y.backing = s.backing /\ y.name = s.name
  BY DEF Slots
<1>2. (y.remote <=> s.remote) /\ (y.mounted <=> s.mounted) /\ (y.readonly <=> v)
  BY Zenon DEF Slots
<1>3. QED
  BY <1>1, <1>2

(* The slot after the installation of a session.                           *)
LEMMA InstallEffect ==
  ASSUME Shapes, Session, Install
  PROVE  /\ worker.job.drive \in Drives /\ worker.b \in Backings /\ worker.url \in RemoteImages
         /\ ~drv[worker.job.drive].mounted /\ drv[worker.job.drive].remote
         /\ drv[worker.job.drive].name = worker.url
         /\ drv' \in [Drives -> Slots]
         /\ \A e \in Drives : e # worker.job.drive => drv'[e] = drv[e]
         /\ drv'[worker.job.drive].mounted /\ drv'[worker.job.drive].remote
         /\ drv'[worker.job.drive].name = worker.url /\ drv'[worker.job.drive].backing = worker.b
         /\ (drv'[worker.job.drive].readonly <=> heap[worker.b].ro)
<1> DEFINE d == worker.job.drive
<1>1. worker.b \in Backings /\ worker.url \in RemoteImages /\ d \in Drives
  BY WorkerFields DEF Install, MountJobs
<1>2. heap[worker.b] \in OpenFiles
  BY <1>1 DEF Install, Session, WorkerSession, Shapes
<1>3. ~drv[d].mounted /\ drv[d].remote /\ drv[d].name = worker.url
  BY DEF Install, WantsSession
<1>4. PICK ro : ro = heap[worker.b].ro
  OBVIOUS
<1>5. PICK m : m = TRUE
  OBVIOUS
<1>6. ro \in BOOLEAN /\ m \in BOOLEAN
  BY <1>2, <1>4, <1>5 DEF OpenFiles
<1>7. drv \in [Drives -> Slots] /\ drv[d] \in Slots
  BY <1>1 DEF Shapes
<1>8. drv' = [drv EXCEPT ![d] = [[[drv[d] EXCEPT !.backing = worker.b] EXCEPT !.mounted = m] EXCEPT !.readonly = ro]]
  BY <1>4, <1>5 DEF Install
<1> HIDE DEF d
<1>9. PICK s1 : s1 = [drv[d] EXCEPT !.backing = worker.b]
  OBVIOUS
<1>10. s1 \in Slots /\ s1.backing = worker.b /\ s1.name = drv[d].name /\ s1.remote = drv[d].remote
  BY <1>1, <1>7, <1>9, SetBacking
<1>11. PICK s2 : s2 = [s1 EXCEPT !.mounted = m]
  OBVIOUS
<1>12. s2 \in Slots /\ s2.backing = s1.backing /\ s2.name = s1.name
       /\ (s2.remote <=> s1.remote) /\ (s2.mounted <=> m)
  BY <1>6, <1>10, <1>11, SetMounted
<1>13. PICK s3 : s3 = [s2 EXCEPT !.readonly = ro]
  OBVIOUS
<1>14. s3 \in Slots /\ s3.backing = s2.backing /\ s3.name = s2.name
       /\ (s3.remote <=> s2.remote) /\ (s3.mounted <=> s2.mounted) /\ (s3.readonly <=> ro)
  BY <1>6, <1>12, <1>13, SetReadonly
<1>15. drv' = [drv EXCEPT ![d] = s3]
  BY <1>8, <1>9, <1>11, <1>13
<1>16. drv' \in [Drives -> Slots] /\ drv'[d] = s3 /\ \A e \in Drives : e # d => drv'[e] = drv[e]
  BY <1>1, <1>7, <1>14, <1>15
<1>17. s3.mounted /\ s3.remote /\ s3.name = worker.url /\ s3.backing = worker.b
  BY <1>3, <1>5, <1>10, <1>12, <1>14
<1>18. s3.readonly <=> heap[worker.b].ro
  BY <1>4, <1>14
<1>19. QED
  BY <1>1, <1>3, <1>16, <1>17, <1>18 DEF d

LEMMA ShapesSessions ==
  ASSUME Shapes, Awaited, Table, Session,
         \/ WantMount \/ MountOffline \/ OpenSession \/ OpenFails
         \/ Install \/ Mismatch \/ Discard \/ CloseSession
  PROVE  Shapes'
<1>1. drv \in [Drives -> Slots] /\ heap \in [Backings -> {NoName} \cup OpenFiles] /\ failed \subseteq Drives
  BY DEF Shapes
<1>2. worker.pc # "idle"
  BY DEF WantMount, MountOffline, OpenSession, OpenFails, Install, Mismatch, Discard, CloseSession
<1>3. CASE WantMount /\ WantsSession(worker.job.drive)
  <2> DEFINE s == [pc |-> "want", job |-> worker.job, url |-> drv[worker.job.drive].name]
  <2>1. Continue(s)
    BY <1>3 DEF WantMount
  <2>2. worker.job \in MountJobs /\ drv[worker.job.drive].name \in RemoteImages
    <3>1. worker.job \in MountJobs
      BY <1>3, WorkerFields, JobFields DEF WantMount
    <3>2. QED
      BY <1>3, <3>1 DEF WantsSession, Table, SlotTrue, MountJobs
  <2>3. WorkerState(s)
    BY <2>2 DEF WorkerState
  <2>4. UNCHANGED <<drv, rq, mlock, wifi, leaked, failed, heap>>
    BY <1>3 DEF WantMount, table, files
  <2> HIDE DEF s
  <2>5. QED
    BY <1>1, <2>1, <2>3, <2>4, ShapesContinue
<1>4. CASE (WantMount /\ ~WantsSession(worker.job.drive)) \/ MountOffline
  <2>1. PICK ok, img : Complete(ok, img)
    BY <1>4 DEF WantMount, MountOffline
  <2>2. UNCHANGED <<drv, heap, rq, mlock, wifi, leaked, failed>>
    BY <1>4 DEF WantMount, MountOffline, table, files
  <2>3. QED
    BY <1>1, <1>2, <2>1, <2>2, ShapesComplete
<1>5. CASE OpenSession
  <2>1. PICK b \in Free, ro \in BOOLEAN :
          /\ heap' = Open(b, worker.url, ro)
          /\ Continue([pc |-> "install", job |-> worker.job, url |-> worker.url, b |-> b])
    BY <1>5 DEF OpenSession
  <2>2. b \in Backings /\ worker.job \in MountJobs /\ worker.url \in RemoteImages
    BY <1>5, WorkerFields DEF OpenSession, Free
  <2>3. heap' \in [Backings -> {NoName} \cup OpenFiles]
    BY <1>1, <2>1, <2>2 DEF Open, OpenFiles, Images
  <2>4. WorkerState([pc |-> "install", job |-> worker.job, url |-> worker.url, b |-> b])
    BY <2>2 DEF WorkerState
  <2>5. UNCHANGED <<drv, rq, mlock, wifi, leaked, failed>>
    BY <1>5 DEF OpenSession, table
  <2>6. QED
    BY <2>1, <2>3, <2>4, <2>5, ShapesContinue
<1>6. CASE OpenFails
  <2>1. Complete(FALSE, NoName) /\ UNCHANGED <<drv, heap, rq, mlock, wifi, leaked>>
    BY <1>6 DEF OpenFails, table, files
  <2>2. failed' \subseteq Drives
    BY <1>1, <1>6, WorkerFields DEF OpenFails, MountJobs
  <2>3. QED
    BY <1>1, <1>2, <2>1, <2>2, ShapesComplete
<1>7. CASE Install
  <2>1. drv' \in [Drives -> Slots]
    BY <1>7, InstallEffect
  <2>2. Complete(TRUE, NoName) /\ UNCHANGED <<heap, rq, mlock, wifi, leaked, failed>>
    BY <1>7 DEF Install, files
  <2>3. QED
    BY <1>1, <1>2, <2>1, <2>2, ShapesComplete
<1>8. CASE Mismatch
  <2>1. worker = [pc |-> "install", job |-> worker.job, url |-> worker.url, b |-> worker.b]
    BY <1>8 DEF Mismatch, Shapes, WorkerState
  <2>2. [worker EXCEPT !.pc = "discard"] =
          [pc |-> "discard", job |-> worker.job, url |-> worker.url, b |-> worker.b]
    BY <2>1
  <2>3. WorkerState([worker EXCEPT !.pc = "discard"])
    BY <1>8, <2>2, WorkerFields DEF Mismatch, WorkerState
  <2>4. Continue([worker EXCEPT !.pc = "discard"]) /\ UNCHANGED <<drv, heap, rq, mlock, wifi, leaked, failed>>
    BY <1>8 DEF Mismatch, table, files
  <2>5. QED
    BY <1>1, <2>3, <2>4, ShapesContinue
<1>9. CASE Discard \/ CloseSession
  <2>1. PICK ok, img : Complete(ok, img)
    BY <1>9 DEF Discard, CloseSession
  <2>2. heap' \in [Backings -> {NoName} \cup OpenFiles]
    BY <1>1, <1>9 DEF Discard, CloseSession, Close
  <2>3. UNCHANGED <<drv, rq, mlock, wifi, leaked, failed>>
    BY <1>9 DEF Discard, CloseSession, table
  <2>4. QED
    BY <1>1, <1>2, <2>1, <2>2, <2>3, ShapesComplete
<1>10. QED
  BY <1>3, <1>4, <1>5, <1>6, <1>7, <1>8, <1>9

(* The WiFi-down hook takes the sessions out of the table.                 *)
Gone(d) == drv[d].remote /\ drv[d].mounted

LEMMA UnmountAllEffect ==
  ASSUME Shapes, Table, RemoteUnmountAll
  PROVE  /\ drv' \in [Drives -> Slots]
         /\ \A d \in Drives : drv'[d] = IF Gone(d) THEN RemoteSlot(drv[d].name) ELSE drv[d]
         /\ \A d \in Drives : Gone(d) => drv[d].name \in RemoteImages
<1>1. drv' = [d \in Drives |-> IF Gone(d) THEN RemoteSlot(drv[d].name) ELSE drv[d]]
  BY DEF RemoteUnmountAll, Gone
<1>2. \A d \in Drives : Gone(d) => drv[d].name \in RemoteImages
  BY DEF Table, SlotTrue, Gone
<1>3. QED
  BY <1>1, <1>2, SlotFields DEF Shapes

LEMMA ScanningState ==
  ASSUME NEW todo, todo \subseteq Drives
  PROVE  EvtState(Scanning(todo))
BY DEF EvtState, Scanning, IdleEvt

LEMMA ClosingState ==
  ASSUME NEW bs, bs \subseteq Backings
  PROVE  EvtState(Closing(bs))
BY DEF EvtState, Closing, IdleEvt

LEMMA ShapesEvent ==
  ASSUME Shapes, Table, Event
  PROVE  Shapes'
<1>1. CASE LinkLost
  BY <1>1 DEF LinkLost, Shapes, TasksOK, table, files, jobs, history
<1>2. CASE OnDisconnected
  <2>1. EvtState(evt')
    BY <1>2 DEF OnDisconnected, EvtState
  <2>2. QED
    BY <1>2, <2>1 DEF OnDisconnected, Shapes, TasksOK, table, files, jobs, history
<1>3. CASE RemoteUnmountAll
  <2> DEFINE bs == {drv[d].backing : d \in {x \in Drives : drv[x].remote /\ drv[x].mounted}}
  <2>1. drv' \in [Drives -> Slots]
    BY <1>3, UnmountAllEffect
  <2>2. bs \subseteq Backings
    BY DEF Table, SlotTrue, Shapes, Slots
  <2>3. evt' = Closing(bs)
    BY <1>3 DEF RemoteUnmountAll
  <2> HIDE DEF bs
  <2>4. EvtState(evt')
    BY <2>2, <2>3, ClosingState
  <2>5. QED
    BY <1>3, <2>1, <2>4 DEF RemoteUnmountAll, Shapes, TasksOK, files, jobs, history
<1>4. CASE EvtDispose
  <2>1. PICK b \in evt.close : HandToWorker(b) /\ evt' = Closing(evt.close \ {b})
    BY <1>4 DEF EvtDispose
  <2>2. evt.close \subseteq Backings
    BY <1>4 DEF EvtDispose, Shapes, EvtState
  <2>3. EvtState(evt')
    BY <2>1, <2>2, ClosingState
  <2>4. rq' \in Seq(AllJobs) /\ Len(rq') <= QueueLen /\ leaked' \subseteq Backings
    BY <2>1, <2>2, HandEffect
  <2>5. QED
    BY <1>4, <2>3, <2>4 DEF EvtDispose, Shapes, TasksOK, table, files
<1>5. CASE OnGotIp
  <2>1. EvtState(evt')
    BY <1>5, ScanningState DEF OnGotIp
  <2>2. QED
    BY <1>5, <2>1 DEF OnGotIp, Shapes, TasksOK, table, files, jobs, history
<1>6. CASE ScanDrive
  <2>1. PICK d \in evt.todo :
          evt' = IF WantsSession(d) THEN [pc |-> "post", drive |-> d, todo |-> evt.todo \ {d}]
                 ELSE Scanning(evt.todo \ {d})
    BY <1>6 DEF ScanDrive
  <2>2. evt.todo \subseteq Drives
    BY <1>6 DEF ScanDrive, Shapes, EvtState
  <2>3. EvtState([pc |-> "post", drive |-> d, todo |-> evt.todo \ {d}])
    BY <2>1, <2>2 DEF EvtState
  <2>4. EvtState(evt')
    BY <2>1, <2>2, <2>3, ScanningState
  <2>5. QED
    BY <1>6, <2>4 DEF ScanDrive, Shapes, TasksOK, table, files, jobs, history
<1>7. CASE ScanPost
  <2>1. evt.todo \subseteq Drives /\ evt.drive \in Drives
    BY <1>7 DEF ScanPost, Shapes, EvtState
  <2>2. EvtState(evt')
    BY <1>7, <2>1, ScanningState DEF ScanPost
  <2>3. MountJob("none", evt.drive) \in AllJobs
    BY <2>1 DEF MountJob, Job, AllJobs, MountJobs
  <2>4. rq' \in Seq(AllJobs) /\ Len(rq') <= QueueLen
    <3>1. CASE Room /\ rq' = Append(rq, MountJob("none", evt.drive))
      <4>1. rq' \in Seq(AllJobs) /\ Len(rq') = Len(rq) + 1 /\ Len(rq) \in Nat
        BY <2>3, <3>1, QueueAppend DEF Shapes
      <4>2. QED
        BY <3>1, <4>1, DiskAssumption DEF Room
    <3>2. CASE UNCHANGED rq
      BY <3>2 DEF Shapes
    <3>3. QED
      BY <1>7, <3>1, <3>2 DEF ScanPost
  <2>5. failed' \subseteq Drives
    BY <1>7, <2>1 DEF ScanPost, Shapes
  <2>6. QED
    BY <1>7, <2>2, <2>4, <2>5 DEF ScanPost, Shapes, TasksOK, table, files
<1>8. QED
  BY <1>1, <1>2, <1>3, <1>4, <1>5, <1>6, <1>7 DEF Event

-----------------------------------------------------------------------------
(* The start of the device.                                                *)

LEMMA BootEffect ==
  ASSUME NEW cfg \in BootConfigs, NEW f \in BootBackings(cfg), NEW D, NEW H,
         D = BootDrives(cfg, f), H = BootHeap(cfg, f)
  PROVE  /\ D \in [Drives -> Slots] /\ H \in [Backings -> {NoName} \cup OpenFiles]
         /\ \A d \in Drives :
              /\ D[d].mounted <=> D[d].backing # NoBacking
              /\ D[d].remote <=> D[d].name \in RemoteImages
              /\ ~D[d].readonly /\ (D[d].mounted => ~D[d].remote)
              /\ D[d].mounted => H[D[d].backing] = [img |-> D[d].name, ro |-> FALSE]
         /\ \A d, e \in Drives : D[d].backing = D[e].backing => d = e \/ D[d].backing = NoBacking
         /\ \A b \in Backings : H[b] # NoName <=> \E d \in Drives : D[d].backing = b
         /\ ~Shared => \A d, e \in Drives : D[d].name = D[e].name => d = e \/ D[d].name = NoName
<1> DEFINE L == {d \in Drives : cfg[d] \in LocalImages}
<1>1. cfg \in [Drives -> Images \cup {NoName}]
      /\ (~Shared => \A d, e \in Drives : cfg[d] = cfg[e] => d = e \/ cfg[d] = NoName)
  BY DEF BootConfigs
<1>2. f \in [L -> Backings] /\ \A d, e \in L : f[d] = f[e] => d = e
  BY DEF BootBackings
<1>3. \A d \in Drives : d \in L <=> cfg[d] \in LocalImages
  OBVIOUS
<1>4. L \subseteq Drives
  OBVIOUS
<1> HIDE DEF L
<1>5. ASSUME NEW d \in Drives
      PROVE  D[d] = IF d \in L THEN LocalSlot(cfg[d], f[d])
                    ELSE IF cfg[d] \in RemoteImages THEN RemoteSlot(cfg[d]) ELSE EmptySlot
  BY <1>3, ImageNames DEF BootDrives
<1>6. \A d \in L : LocalSlot(cfg[d], f[d]) \in Slots /\ f[d] \in Backings /\ f[d] # NoBacking
  BY <1>2, <1>3, <1>4, SlotFields, DiskAssumption
<1>7. D \in [Drives -> Slots]
  <2>1. \A d \in Drives : D[d] \in Slots
    BY <1>5, <1>6, SlotFields
  <2>2. D = [d \in Drives |-> D[d]]
    BY DEF BootDrives
  <2>3. QED
    BY <2>1, <2>2
<1>8. ASSUME NEW d \in L PROVE H[f[d]] = [img |-> cfg[d], ro |-> FALSE]
  <2>1. (CHOOSE e \in L : f[e] = f[d]) = d
    BY <1>2, <1>8
  <2>2. DOMAIN f = L /\ f[d] \in Backings
    BY <1>2
  <2>3. QED
    BY <2>1, <2>2 DEF BootHeap
<1>9. ASSUME NEW b \in Backings PROVE H[b] = NoName \/ \E d \in L : f[d] = b
  BY <1>2 DEF BootHeap
<1>10. \A d \in L : [img |-> cfg[d], ro |-> FALSE] \in OpenFiles
  BY <1>3, <1>4, ImageNames DEF OpenFiles
<1>11. H \in [Backings -> {NoName} \cup OpenFiles]
  <2>1. ASSUME NEW b \in Backings PROVE H[b] \in {NoName} \cup OpenFiles
    <3>1. CASE \E d \in L : f[d] = b
      <4>1. PICK d \in L : f[d] = b
        BY <3>1
      <4>2. H[f[d]] \in OpenFiles
        BY <1>8, <1>10
      <4>3. QED
        BY <4>1, <4>2
    <3>2. QED
      BY <1>9, <3>1
  <2>2. H = [b \in Backings |-> H[b]]
    BY DEF BootHeap
  <2>3. QED
    BY <2>1, <2>2
<1>12. ASSUME NEW d \in L
       PROVE  /\ D[d] = LocalSlot(cfg[d], f[d]) /\ D[d].mounted /\ ~D[d].remote /\ ~D[d].readonly
              /\ D[d].backing = f[d] /\ D[d].name = cfg[d] /\ D[d].name \notin RemoteImages
              /\ H[D[d].backing] = [img |-> D[d].name, ro |-> FALSE]
  <2>1. D[d] = LocalSlot(cfg[d], f[d]) /\ cfg[d] \in LocalImages /\ f[d] \in Backings
    BY <1>2, <1>3, <1>4, <1>5
  <2>2. D[d].backing = f[d] /\ D[d].name = cfg[d] /\ D[d].mounted /\ ~D[d].remote /\ ~D[d].readonly
    BY <2>1, SlotFields
  <2>3. H[f[d]] = [img |-> cfg[d], ro |-> FALSE]
    BY <1>8
  <2>4. QED
    BY <2>1, <2>2, <2>3, ImageNames
<1>13. ASSUME NEW d \in Drives, d \notin L
       PROVE  /\ ~D[d].mounted /\ ~D[d].readonly /\ D[d].backing = NoBacking
              /\ D[d].name = NoName \/ D[d].name = cfg[d]
              /\ D[d].remote <=> D[d].name \in RemoteImages
  <2>1. CASE cfg[d] \in RemoteImages
    <3>1. D[d] = RemoteSlot(cfg[d])
      BY <1>5, <1>13, <2>1
    <3>2. QED
      BY <2>1, <3>1 DEF RemoteSlot
  <2>2. CASE cfg[d] \notin RemoteImages
    <3>1. D[d] = EmptySlot
      BY <1>5, <1>13, <2>2
    <3>2. QED
      BY <3>1, ImageNames DEF EmptySlot, Images
  <2>3. QED
    BY <2>1, <2>2
<1>14. ASSUME NEW d \in Drives
       PROVE  /\ D[d].mounted <=> D[d].backing # NoBacking
              /\ D[d].remote <=> D[d].name \in RemoteImages
              /\ ~D[d].readonly /\ (D[d].mounted => ~D[d].remote)
              /\ D[d].mounted => H[D[d].backing] = [img |-> D[d].name, ro |-> FALSE]
  <2>1. CASE d \in L
    BY <1>6, <1>12, <2>1
  <2>2. CASE d \notin L
    BY <1>13, <2>2
  <2>3. QED
    BY <2>1, <2>2
<1>15. ASSUME NEW d \in Drives, NEW e \in Drives, D[d].backing = D[e].backing, D[d].backing # NoBacking
       PROVE  d = e
  <2>1. d \in L /\ e \in L
    BY <1>13, <1>15
  <2>2. D[d].backing = f[d] /\ D[e].backing = f[e]
    BY <1>12, <2>1
  <2>3. QED
    BY <1>2, <1>15, <2>1, <2>2
<1>16. ASSUME NEW b \in Backings PROVE H[b] # NoName <=> \E d \in Drives : D[d].backing = b
  <2>1. ASSUME NEW d \in L PROVE H[f[d]] # NoName
    <3>1. H[f[d]] \in OpenFiles
      BY <1>8, <1>10
    <3>2. QED
      BY <3>1, ImageNames
  <2>2. ASSUME NEW d \in Drives, D[d].backing = b PROVE H[b] # NoName
    <3>1. b # NoBacking
      BY DiskAssumption
    <3>2. d \in L /\ D[d].backing = f[d]
      BY <1>12, <1>13, <2>2, <3>1
    <3>3. QED
      BY <2>1, <2>2, <3>2
  <2>3. ASSUME NEW d \in L, f[d] = b PROVE d \in Drives /\ D[d].backing = b
    BY <1>4, <1>12, <2>3
  <2>4. QED
    BY <1>9, <2>2, <2>3
<1>17. ASSUME ~Shared, NEW d \in Drives, NEW e \in Drives, D[d].name = D[e].name, D[d].name # NoName
       PROVE  d = e
  <2>1. D[d].name = cfg[d] /\ D[e].name = cfg[e]
    BY <1>12, <1>13, <1>17
  <2>2. QED
    BY <1>1, <1>17, <2>1
<1>18. QED
  BY <1>7, <1>11, <1>14, <1>15, <1>16, <1>17

-----------------------------------------------------------------------------
(* What the steps have in common.  A task is at a quiet place when it      *)
(* waits for nothing and holds no backing.                                 *)

Quiet(pc) == pc \in {"idle", "post", "done", "copied", "connect", "unlock"}

QuietStep ==
    /\ UNCHANGED <<drv, heap, rq, worker, evt, leaked>>
    /\ \A o \in Tasks : task'[o] = task[o] \/ (Quiet(task[o].pc) /\ Quiet(task'[o].pc))

(* The worker ends a job, or goes on with it.                              *)
EndStep ==
    /\ worker.pc # "idle" /\ worker' = IdleWorker /\ rq' = rq /\ UNCHANGED <<evt, leaked>>
    /\ \A c \in Tasks :
          \/ task'[c] = task[c]
          \/ task[c].pc = "wait" /\ c = worker.job.by /\ task'[c].pc \in {"idle", "done"}
    /\ worker.job.by # "none" => task'[worker.job.by].pc # "wait"

GoOnStep ==
    /\ worker.pc # "idle" /\ worker'.pc # "idle" /\ worker'.job = worker.job
    /\ UNCHANGED <<rq, task, evt, leaked>>

(* A console takes the backing of drive d out of the table.                *)
TakeStep(c, d) ==
    /\ UNCHANGED <<heap, rq, worker, evt, leaked>>
    /\ \A e \in Drives : e # d => drv'[e] = drv[e]
    /\ \A o \in Tasks : o # c => task'[o] = task[o]
    /\ IF drv[d].backing = NoBacking THEN Quiet(task'[c].pc)
       ELSE task'[c].pc = "dispose" /\ task'[c].b = drv[d].backing

LEMMA QuietCalls ==
  ASSUME Shapes, Counted, NEW c \in Tasks, NEW d \in Drives, NEW t \in UInt32, NEW l \in UInt32,
         \/ ReadHit(c, d, t, l) \/ ReadLocal(c, d, t, l)
         \/ ReadLocalFails(c, d, t, l) \/ ReadRemote(c, d, t, l)
         \/ WriteLocal(d, t, l) \/ WriteLocalFails(d, t, l) \/ WriteRemote(d, t, l)
  PROVE  QuietStep /\ UNCHANGED mlock
<1>1. UNCHANGED <<drv, heap, rq, worker, evt, leaked, mlock>>
  BY DEF ReadHit, ReadLocal, ReadLocalFails, ReadRemote, WriteLocal, WriteLocalFails, WriteRemote,
         table, files, jobs, wifi, history
<1>2. \/ UNCHANGED task
      \/ \E s : Become(c, s) /\ Idle(c) /\ Quiet(s.pc)
      \/ \E s : Become("fdc", s) /\ Idle("fdc") /\ Quiet(s.pc)
  BY DEF ReadHit, ReadLocal, ReadLocalFails, ReadRemote, WriteLocal, WriteLocalFails, WriteRemote,
         Copied, Quiet
<1>3. QED
  BY <1>1, <1>2 DEF QuietStep, Become, Idle, Quiet, Shapes, TasksOK

LEMMA QuietCallSteps ==
  ASSUME Shapes, NEW c \in Tasks,
         PostFails(c) \/ ReadDone(c) \/ ReadReturns(c) \/ RemoteConnect(c) \/ MountUnlock(c)
  PROVE  QuietStep
<1>1. UNCHANGED <<drv, heap, rq, worker, evt, leaked>>
  BY DEF PostFails, ReadDone, ReadReturns, RemoteConnect, MountUnlock, table, files, jobs, wifi, history
<1>2. \E s : Become(c, s) /\ Quiet(task[c].pc) /\ Quiet(s.pc)
  BY DEF PostFails, ReadDone, ReadReturns, RemoteConnect, MountUnlock, Copied, Quiet, IdleTask
<1>3. QED
  BY <1>1, <1>2 DEF QuietStep, Become, Shapes, TasksOK

LEMMA EndSteps ==
  ASSUME Shapes, Awaited, Session,
         \/ NotReady \/ FetchFails \/ StoreTrack \/ DropTrack
         \/ (WantMount /\ ~WantsSession(worker.job.drive)) \/ MountOffline \/ OpenFails
         \/ Install \/ Discard \/ CloseSession
  PROVE  EndStep
<1>1. PICK ok, img : Complete(ok, img)
  BY DEF NotReady, FetchFails, StoreTrack, DropTrack, WantMount, MountOffline, OpenFails,
         Install, Discard, CloseSession
<1>2. worker.pc # "idle" /\ UNCHANGED <<rq, evt, leaked>>
  BY DEF NotReady, FetchFails, StoreTrack, DropTrack, WantMount, MountOffline, OpenFails,
         Install, Discard, CloseSession, Usable, wifi
<1>3. QED
  BY <1>1, <1>2, CompleteEffect DEF EndStep

LEMMA GoOnSteps ==
  ASSUME Shapes,
         \/ Lookup \/ FetchTrack \/ SendTrack \/ SendFails
         \/ (WantMount /\ WantsSession(worker.job.drive)) \/ OpenSession \/ Mismatch
  PROVE  GoOnStep
<1>1. UNCHANGED <<rq, evt, leaked>> /\ worker.pc # "idle"
  BY DEF Lookup, FetchTrack, SendTrack, SendFails, WantMount, OpenSession, Mismatch, Usable, wifi
<1>2. PICK s : Continue(s) /\ s.pc # "idle" /\ s.job = worker.job
  <2>1. CASE Lookup \/ SendFails
    BY <2>1 DEF Lookup, SendFails
  <2>4. CASE FetchTrack \/ SendTrack
    <3>1. PICK data : Continue([pc |-> "store", job |-> worker.job, b |-> worker.b, data |-> data])
      BY <2>4 DEF FetchTrack, SendTrack
    <3>2. QED
      BY <3>1
  <2>2. CASE (WantMount /\ WantsSession(worker.job.drive)) \/ OpenSession
    <3>1. PICK s : Continue(s) /\ \/ s = [pc |-> "want", job |-> worker.job, url |-> drv[worker.job.drive].name]
                                  \/ \E b : s = [pc |-> "install", job |-> worker.job, url |-> worker.url, b |-> b]
      BY <2>2 DEF WantMount, OpenSession
    <3>2. QED
      BY <3>1
  <2>3. CASE Mismatch
    BY <2>3 DEF Mismatch, Shapes, WorkerState
  <2>5. QED
    BY <2>1, <2>2, <2>3, <2>4
<1>3. QED
  BY <1>1, <1>2 DEF Continue, Work, GoOnStep

LEMMA Disposal ==
  ASSUME NEW b, NEW then
  PROVE  IF b = NoBacking THEN Disposing(b, then) = then
         ELSE Disposing(b, then).pc = "dispose" /\ Disposing(b, then).b = b /\ Disposing(b, then).then = then
BY DEF Disposing

LEMMA TakeSteps ==
  ASSUME Shapes, NEW c \in Consoles, NEW d \in Drives, NEW url,
         (RemoteConfigure(c, d, url) /\ url \in RemoteImages) \/ MountFails(c, d) \/ UnmountDo(c, d)
  PROVE  TakeStep(c, d) /\ task[c].pc = "idle" /\ drv'[d].backing = NoBacking
<1>1. PICK then, slot :
        /\ Become(c, Disposing(drv[d].backing, then)) /\ drv' = [drv EXCEPT ![d] = slot]
        /\ Quiet(then.pc) /\ slot.backing = NoBacking
  <2>1. CASE RemoteConfigure(c, d, url) /\ url \in RemoteImages
    BY <2>1, SlotFields DEF RemoteConfigure, Quiet
  <2>2. CASE MountFails(c, d) \/ UnmountDo(c, d)
    BY <2>2, SlotFields DEF MountFails, UnmountDo, Unmount, Quiet, IdleTask
  <2>3. QED
    BY <2>1, <2>2
<1>2. UNCHANGED <<heap, rq, worker, evt, leaked>> /\ task[c].pc = "idle"
  BY DEF RemoteConfigure, MountFails, UnmountDo, Unmount, Idle, files, jobs, wifi
<1>3. task'[c] = Disposing(drv[d].backing, then) /\ \A o \in Tasks : o # c => task'[o] = task[o]
  BY <1>1, TaskNames DEF Become, Shapes, TasksOK
<1>4. drv'[d] = slot /\ \A e \in Drives : e # d => drv'[e] = drv[e]
  BY <1>1 DEF Shapes
<1>5. QED
  BY <1>1, <1>2, <1>3, <1>4, Disposal DEF TakeStep

LEMMA SwapEffect ==
  ASSUME Shapes, NEW c \in Tasks, MountSwap(c)
  PROVE  /\ TakeStep(c, task[c].drive) /\ task[c].pc = "opened" /\ c \in Consoles
         /\ task[c].drive \in Drives /\ task[c].b \in Backings /\ task[c].img \in LocalImages
         /\ drv'[task[c].drive] = LocalSlot(task[c].img, task[c].b)
<1>1. /\ task[c].pc = "opened" /\ c \in Consoles
      /\ task[c].drive \in Drives /\ task[c].b \in Backings /\ task[c].img \in LocalImages
  BY DEF MountSwap, Shapes, TasksOK, TaskState
<1>2. task'[c] = Disposing(drv[task[c].drive].backing, IdleTask) /\ \A o \in Tasks : o # c => task'[o] = task[o]
  BY DEF MountSwap, Become, Shapes, TasksOK
<1>3. /\ drv'[task[c].drive] = LocalSlot(task[c].img, task[c].b)
      /\ \A e \in Drives : e # task[c].drive => drv'[e] = drv[e]
  BY <1>1 DEF MountSwap, Shapes
<1>4. UNCHANGED <<heap, rq, worker, evt, leaked>>
  BY DEF MountSwap, files, jobs, wifi
<1>5. QED
  BY <1>1, <1>2, <1>3, <1>4, Disposal, IdleState DEF TakeStep, Quiet

LEMMA OpenEffect ==
  ASSUME Shapes, NEW c \in Consoles, NEW d \in Drives, NEW img \in LocalImages, MountOpen(c, d, img)
  PROVE  \E b \in Backings :
           /\ heap[b] = NoName /\ heap'[b] = [img |-> img, ro |-> FALSE]
           /\ \A x \in Backings : x # b => heap'[x] = heap[x]
           /\ task[c].pc = "idle" /\ task'[c] = [pc |-> "opened", b |-> b, drive |-> d, img |-> img]
           /\ \A o \in Tasks : o # c => task'[o] = task[o]
           /\ UNCHANGED <<drv, rq, worker, evt, leaked, disc, link>> /\ mlock = "none" /\ mlock' = c
<1>1. PICK b \in Free :
        heap' = Open(b, img, FALSE) /\ Become(c, [pc |-> "opened", b |-> b, drive |-> d, img |-> img])
  BY DEF MountOpen
<1>2. b \in Backings /\ heap[b] = NoName
  BY DEF Free
<1>3. heap'[b] = [img |-> img, ro |-> FALSE] /\ \A x \in Backings : x # b => heap'[x] = heap[x]
  BY <1>1, <1>2 DEF Open, Shapes
<1>4. /\ task'[c] = [pc |-> "opened", b |-> b, drive |-> d, img |-> img]
      /\ \A o \in Tasks : o # c => task'[o] = task[o]
  BY <1>1, TaskNames DEF Become, Shapes, TasksOK
<1>5. /\ task[c].pc = "idle" /\ UNCHANGED <<drv, rq, worker, evt, leaked, disc, link>>
      /\ mlock = "none" /\ mlock' = c
  BY DEF MountOpen, Idle, table, jobs, wifi, history
<1>6. QED
  BY <1>2, <1>3, <1>4, <1>5

LEMMA SessionOpenEffect ==
  ASSUME Shapes, OpenSession
  PROVE  \E b \in Backings :
           /\ heap[b] = NoName /\ heap'[b].img = worker.url /\ heap'[b] \in OpenFiles
           /\ \A x \in Backings : x # b => heap'[x] = heap[x]
           /\ worker.pc = "want" /\ worker.url \in RemoteImages
           /\ worker' = [pc |-> "install", job |-> worker.job, url |-> worker.url, b |-> b]
           /\ UNCHANGED <<drv, task, mlock, link, disc>>
<1>1. PICK b \in Free, ro \in BOOLEAN :
          /\ heap' = Open(b, worker.url, ro)
          /\ Continue([pc |-> "install", job |-> worker.job, url |-> worker.url, b |-> b])
  BY DEF OpenSession
<1>2. b \in Backings /\ heap[b] = NoName
  BY DEF Free
<1>3. worker.pc = "want" /\ worker.url \in RemoteImages /\ UNCHANGED <<drv, task, mlock, link, disc>>
  BY <1>1, WorkerFields DEF OpenSession, table, Continue, wifi
<1>4. heap'[b] = [img |-> worker.url, ro |-> ro] /\ \A x \in Backings : x # b => heap'[x] = heap[x]
  BY <1>1, <1>2 DEF Open, Shapes
<1>5. heap'[b].img = worker.url /\ heap'[b] \in OpenFiles
  BY <1>3, <1>4, ImageNames DEF OpenFiles
<1>6. QED
  BY <1>1, <1>2, <1>3, <1>4, <1>5 DEF Continue, Work

-----------------------------------------------------------------------------
(* Awaited.                                                                *)

LEMMA AwaitedKept ==
  ASSUME Shapes, Awaited, rq' = rq, worker' = worker,
         \A o \in Tasks : task[o].pc = "wait" => task'[o].pc = "wait"
  PROVE  Awaited'
<1>1. \A i \in 1 .. Len(rq) : rq[i] \in AllJobs
  BY DEF Shapes
<1>2. worker.pc # "idle" => worker.job \in AllJobs
  BY WorkerFields
<1>3. QED
  BY <1>1, <1>2, JobFields DEF Awaited

LEMMA AwaitedPosted ==
  ASSUME Shapes, Awaited, NEW j \in AllJobs, rq' = Append(rq, j), worker' = worker,
         \A o \in Tasks : task[o].pc = "wait" => task'[o].pc = "wait",
         j.by # "none" => task[j.by].pc # "wait" /\ task'[j.by].pc = "wait"
  PROVE  Awaited'
<1>1. rq \in Seq(AllJobs) /\ \A i \in 1 .. Len(rq) : rq[i] \in AllJobs
  BY DEF Shapes
<1>2. worker.pc # "idle" => worker.job \in AllJobs
  BY WorkerFields
<1>3. /\ \A i \in 1 .. Len(rq) : rq'[i] = rq[i]
      /\ rq'[Len(rq) + 1] = j
      /\ \A i \in 1 .. Len(rq') : i \in 1 .. Len(rq) \/ i = Len(rq) + 1
  BY <1>1, QueueAppend
<1>4. ASSUME NEW i \in 1 .. Len(rq), rq[i].by # "none"
      PROVE  rq[i].by # j.by /\ task'[rq[i].by].pc = "wait"
  <2>1. rq[i].by \in Tasks /\ task[rq[i].by].pc = "wait"
    BY <1>1, <1>4, JobFields DEF Awaited
  <2>2. QED
    BY <1>4, <2>1
<1>5. ASSUME NEW i \in 1 .. Len(rq'), rq'[i].by # "none"
      PROVE  /\ task'[rq'[i].by].pc = "wait"
             /\ \A k \in 1 .. Len(rq') : rq'[k].by = rq'[i].by => k = i
  <2>1. CASE i = Len(rq) + 1
    BY <1>3, <1>4, <1>5, <2>1
  <2>2. CASE i \in 1 .. Len(rq)
    <3>1. rq'[i] = rq[i] /\ rq[i].by # j.by /\ task'[rq[i].by].pc = "wait"
      BY <1>3, <1>4, <1>5, <2>2
    <3>2. \A k \in 1 .. Len(rq) : rq[k].by = rq[i].by => k = i
      BY <1>5, <2>2, <3>1 DEF Awaited
    <3>3. QED
      BY <1>3, <3>1, <3>2
  <2>3. QED
    BY <1>3, <2>1, <2>2
<1>6. ASSUME worker.pc # "idle", worker.job.by # "none"
      PROVE  task'[worker.job.by].pc = "wait" /\ \A i \in 1 .. Len(rq') : rq'[i].by # worker.job.by
  <2>1. worker.job.by \in Tasks /\ task[worker.job.by].pc = "wait"
    BY <1>2, <1>6, JobFields DEF Awaited
  <2>2. worker.job.by # j.by
    BY <1>6, <2>1
  <2>3. \A i \in 1 .. Len(rq) : rq[i].by # worker.job.by
    BY <1>6 DEF Awaited
  <2>4. QED
    BY <1>3, <2>1, <2>2, <2>3
<1>7. QED
  BY <1>5, <1>6 DEF Awaited

LEMMA AwaitedExpires == ASSUME Shapes, Awaited, NEW c \in Tasks, WaitExpires(c) PROVE Awaited'
<1>1. /\ Len(rq') = Len(rq)
      /\ \A i \in 1 .. Len(rq) : rq[i] \in AllJobs /\ rq'[i] = Orphan(rq[i], c)
      /\ worker'.pc = worker.pc /\ (worker.pc # "idle" => worker'.job = Orphan(worker.job, c))
  BY ExpiryEffect
<1>2. \A o \in Tasks : o # c => task'[o] = task[o]
  BY DEF WaitExpires, Become, Shapes, TasksOK
<1>3. \A i \in 1 .. Len(rq) :
        /\ rq'[i].by = IF rq[i].by = c THEN "none" ELSE rq[i].by
        /\ rq[i].by \in Tasks \cup {"none"}
  BY <1>1, OrphanFields, JobFields
<1>4. worker.pc # "idle" =>
        /\ worker'.job.by = IF worker.job.by = c THEN "none" ELSE worker.job.by
        /\ worker.job.by \in Tasks \cup {"none"}
  BY <1>1, WorkerFields, OrphanFields, JobFields
<1>5. QED
  BY <1>1, <1>2, <1>3, <1>4 DEF Awaited

LEMMA AwaitedReceived == ASSUME Shapes, Awaited, Receive PROVE Awaited'
<1>1. /\ rq \in Seq(AllJobs) /\ rq # <<>> /\ rq' = Tail(rq) /\ task' = task
      /\ worker' = [pc |-> "got", job |-> Head(rq)]
  BY DEF Receive, Work, Shapes
<1>2. /\ \A i \in 1 .. Len(rq') : rq'[i] = rq[i + 1] /\ i + 1 \in 1 .. Len(rq)
      /\ Head(rq) = rq[1] /\ 1 \in 1 .. Len(rq) /\ Len(rq') \in Nat
  BY <1>1, QueueTail
<1>3. ASSUME NEW i \in 1 .. Len(rq'), rq'[i].by # "none"
      PROVE  /\ task'[rq'[i].by].pc = "wait"
             /\ \A k \in 1 .. Len(rq') : rq'[k].by = rq'[i].by => k = i
  <2>1. i + 1 \in 1 .. Len(rq) /\ rq'[i] = rq[i + 1]
    BY <1>2
  <2>2. task[rq[i + 1].by].pc = "wait" /\ \A k \in 1 .. Len(rq) : rq[k].by = rq[i + 1].by => k = i + 1
    BY <1>3, <2>1 DEF Awaited
  <2>3. QED
    BY <1>1, <1>2, <2>1, <2>2
<1>4. ASSUME rq[1].by # "none"
      PROVE  task'[rq[1].by].pc = "wait" /\ \A i \in 1 .. Len(rq') : rq'[i].by # rq[1].by
  <2>1. task[rq[1].by].pc = "wait" /\ \A k \in 1 .. Len(rq) : rq[k].by = rq[1].by => k = 1
    BY <1>2, <1>4 DEF Awaited
  <2>2. QED
    BY <1>1, <1>2, <2>1
<1>5. QED
  BY <1>1, <1>2, <1>3, <1>4 DEF Awaited

LEMMA AwaitedEnd == ASSUME Shapes, Awaited, EndStep PROVE Awaited'
<1>1. \A i \in 1 .. Len(rq) : rq[i].by \in Tasks \cup {"none"}
  BY JobFields DEF Shapes
<1>2. QED
  BY <1>1 DEF Awaited, EndStep, IdleWorker

LEMMA AwaitedGoOn == ASSUME Shapes, Awaited, GoOnStep PROVE Awaited'
BY DEF Awaited, GoOnStep

-----------------------------------------------------------------------------
(* Owned, kind by kind.                                                    *)

LEMMA DrivesKept ==
  ASSUME NEW b, OneDrive(b), \A d \in Drives : drv'[d].backing = drv[d].backing
  PROVE  (InTable(b)' <=> InTable(b)) /\ OneDrive(b)'
BY DEF InTable, OneDrive

(* Only drive d changes.                                                   *)
LEMMA DriveMoves ==
  ASSUME NEW b, OneDrive(b), NEW d \in Drives, \A e \in Drives : e # d => drv'[e] = drv[e]
  PROVE  /\ drv[d].backing # b /\ drv'[d].backing # b => (InTable(b)' <=> InTable(b)) /\ OneDrive(b)'
         /\ drv[d].backing = b => InTable(b)
         /\ drv[d].backing = b /\ drv'[d].backing # b => ~InTable(b)' /\ OneDrive(b)'
         /\ ~InTable(b) /\ drv'[d].backing = b => InTable(b)' /\ OneDrive(b)'
BY DEF InTable, OneDrive

LEMMA QueueKept ==
  ASSUME NEW b, OneJob(b), Len(rq') = Len(rq),
         \A i \in 1 .. Len(rq) : /\ rq'[i].type = rq[i].type
                                 /\ rq[i].type = "CLOSE" => rq'[i].bclose = rq[i].bclose
  PROVE  (Queued(b)' <=> Queued(b)) /\ OneJob(b)'
BY DEF Queued, QueuedAt, OneJob

LEMMA QueueGrows ==
  ASSUME Shapes, NEW b, OneJob(b), NEW j \in AllJobs, rq' = Append(rq, j)
  PROVE  /\ Queued(b)' <=> Queued(b) \/ (j.type = "CLOSE" /\ j.bclose = b)
         /\ ~(Queued(b) /\ j.type = "CLOSE" /\ j.bclose = b) => OneJob(b)'
<1>1. /\ Len(rq') = Len(rq) + 1 /\ Len(rq) \in Nat
      /\ \A i \in 1 .. Len(rq) : rq'[i] = rq[i]
      /\ rq'[Len(rq) + 1] = j
      /\ \A i \in 1 .. Len(rq') : i \in 1 .. Len(rq) \/ i = Len(rq) + 1
  BY QueueAppend DEF Shapes
<1>2. Len(rq) + 1 \in 1 .. Len(rq') /\ \A i \in 1 .. Len(rq) : i \in 1 .. Len(rq')
  BY <1>1
<1>3. QED
  BY <1>1, <1>2 DEF Queued, QueuedAt, OneJob

LEMMA QueueShrinks ==
  ASSUME Shapes, NEW b, OneJob(b), rq # <<>>, rq' = Tail(rq)
  PROVE  /\ OneJob(b)' /\ (Queued(b)' => Queued(b))
         /\ ~QueuedAt(b, 1) => (Queued(b)' <=> Queued(b))
         /\ QueuedAt(b, 1) => Queued(b) /\ ~Queued(b)'
<1>1. /\ Len(rq') = Len(rq) - 1 /\ Len(rq') \in Nat
      /\ \A i \in 1 .. Len(rq') : rq'[i] = rq[i + 1] /\ i + 1 \in 1 .. Len(rq)
      /\ 1 \in 1 .. Len(rq)
      /\ \A i \in 1 .. Len(rq) : i = 1 \/ i - 1 \in 1 .. Len(rq')
  BY QueueTail DEF Shapes
<1>2. \A i \in 1 .. Len(rq') : QueuedAt(b, i)' <=> QueuedAt(b, i + 1)
  BY <1>1 DEF QueuedAt
<1>3. OneJob(b)'
  <2>1. ASSUME NEW i \in 1 .. Len(rq'), NEW k \in 1 .. Len(rq'), QueuedAt(b, i)', QueuedAt(b, k)'
        PROVE  i = k
    <3>1. i + 1 = k + 1
      BY <1>1, <1>2, <2>1 DEF OneJob
    <3>2. QED
      BY <3>1
  <2>2. QED
    BY <2>1 DEF OneJob
<1>4. Queued(b)' => Queued(b)
  BY <1>1, <1>2 DEF Queued
<1>5. ASSUME ~QueuedAt(b, 1), NEW i \in 1 .. Len(rq), QueuedAt(b, i)
      PROVE  Queued(b)'
  <2>1. i - 1 \in 1 .. Len(rq') /\ (i - 1) + 1 = i
    BY <1>1, <1>5
  <2>2. QED
    BY <1>2, <1>5, <2>1 DEF Queued
<1>6. ASSUME QueuedAt(b, 1), NEW i \in 1 .. Len(rq'), QueuedAt(b, i)'
      PROVE  FALSE
  <2>1. i + 1 = 1
    BY <1>1, <1>2, <1>6 DEF OneJob
  <2>2. QED
    BY <1>1, <2>1
<1>7. QED
  BY <1>1, <1>3, <1>4, <1>5, <1>6 DEF Queued

LEMMA HoldersKept ==
  ASSUME NEW b, OneHolder(b),
         \A c \in Tasks : \/ task'[c] = task[c]
                          \/ task[c].pc \notin {"opened", "dispose"} /\ task'[c].pc \notin {"opened", "dispose"}
  PROVE  (Held(b)' <=> Held(b)) /\ OneHolder(b)'
<1>1. \A c \in Tasks : HeldBy(b, c)' <=> HeldBy(b, c)
  BY DEF HeldBy
<1>2. QED
  BY <1>1 DEF Held, OneHolder

(* Only task c changes.                                                    *)
LEMMA HolderMoves ==
  ASSUME NEW b, OneHolder(b), NEW c \in Tasks, \A o \in Tasks : o # c => task'[o] = task[o]
  PROVE  /\ ~HeldBy(b, c) /\ ~HeldBy(b, c)' => (Held(b)' <=> Held(b)) /\ OneHolder(b)'
         /\ HeldBy(b, c) => Held(b)
         /\ HeldBy(b, c) /\ ~HeldBy(b, c)' => ~Held(b)' /\ OneHolder(b)'
         /\ ~Held(b) /\ HeldBy(b, c)' => Held(b)' /\ OneHolder(b)'
<1>1. \A o \in Tasks : o # c => (HeldBy(b, o)' <=> HeldBy(b, o))
  BY DEF HeldBy
<1>2. QED
  BY <1>1 DEF Held, OneHolder

-----------------------------------------------------------------------------
(* Owned: every step keeps it.                                             *)

LEMMA OwnedQuiet == ASSUME Owned, QuietStep PROVE Owned'
<1> SUFFICES ASSUME NEW b \in Backings PROVE OwnedOnce(b)'
  BY DEF Owned
<1>1. OwnedOnce(b) /\ UNCHANGED <<drv, heap, rq, worker, evt, leaked>>
  BY DEF Owned, QuietStep
<1>2. (Held(b)' <=> Held(b)) /\ OneHolder(b)'
  <2>1. \A c \in Tasks : \/ task'[c] = task[c]
                         \/ task[c].pc \notin {"opened", "dispose"} /\ task'[c].pc \notin {"opened", "dispose"}
    BY DEF QuietStep, Quiet
  <2>2. QED
    BY <1>1, <2>1, HoldersKept DEF OwnedOnce
<1>3. (InTable(b)' <=> InTable(b)) /\ OneDrive(b)' /\ (Queued(b)' <=> Queued(b)) /\ OneJob(b)'
  BY <1>1 DEF OwnedOnce, InTable, OneDrive, Queued, QueuedAt, OneJob
<1>4. (WorkerHas(b)' <=> WorkerHas(b)) /\ (EvtHas(b)' <=> EvtHas(b)) /\ leaked' = leaked /\ heap' = heap
  BY <1>1 DEF WorkerHas, EvtHas
<1>5. QED
  BY <1>1, <1>2, <1>3, <1>4 DEF OwnedOnce, OneKind, OwnedSomewhere

LEMMA OwnedPosted ==
  ASSUME Shapes, Owned, NEW j \in AllJobs, j.type # "CLOSE", rq' = Append(rq, j),
         UNCHANGED <<drv, heap, worker, leaked>>,
         evt' = evt \/ (evt.pc # "dispose" /\ evt'.pc # "dispose"),
         \A c \in Tasks : \/ task'[c] = task[c]
                          \/ task[c].pc \notin {"opened", "dispose"} /\ task'[c].pc \notin {"opened", "dispose"}
  PROVE  Owned'
<1> SUFFICES ASSUME NEW b \in Backings PROVE OwnedOnce(b)'
  BY DEF Owned
<1>1. OwnedOnce(b)
  BY DEF Owned
<1>2. (Held(b)' <=> Held(b)) /\ OneHolder(b)'
  BY <1>1, HoldersKept DEF OwnedOnce
<1>3. (InTable(b)' <=> InTable(b)) /\ OneDrive(b)'
  BY <1>1 DEF OwnedOnce, InTable, OneDrive
<1>4. (Queued(b)' <=> Queued(b)) /\ OneJob(b)'
  BY <1>1, QueueGrows DEF OwnedOnce
<1>5. (WorkerHas(b)' <=> WorkerHas(b)) /\ (EvtHas(b)' <=> EvtHas(b)) /\ leaked' = leaked /\ heap' = heap
  BY DEF WorkerHas, EvtHas
<1>6. QED
  BY <1>1, <1>2, <1>3, <1>4, <1>5 DEF OwnedOnce, OneKind, OwnedSomewhere

LEMMA OwnedExpires == ASSUME Shapes, Owned, NEW c \in Tasks, WaitExpires(c) PROVE Owned'
<1> SUFFICES ASSUME NEW b \in Backings PROVE OwnedOnce(b)'
  BY DEF Owned
<1>1. OwnedOnce(b)
  BY DEF Owned
<1>2. /\ Len(rq') = Len(rq)
      /\ \A i \in 1 .. Len(rq) : rq[i] \in AllJobs /\ rq'[i] = Orphan(rq[i], c)
      /\ worker'.pc = worker.pc /\ (worker.pc # "idle" => worker'.job = Orphan(worker.job, c))
      /\ worker'.pc \in {"picked", "store", "drop", "install", "discard"} => worker'.b = worker.b
  BY ExpiryEffect
<1>3. (Queued(b)' <=> Queued(b)) /\ OneJob(b)'
  <2>1. \A i \in 1 .. Len(rq) : /\ rq'[i].type = rq[i].type
                                /\ rq[i].type = "CLOSE" => rq'[i].bclose = rq[i].bclose
    BY <1>2, OrphanFields
  <2>2. QED
    BY <1>1, <1>2, <2>1, QueueKept DEF OwnedOnce
<1>4. (Held(b)' <=> Held(b)) /\ OneHolder(b)'
  <2>1. \A o \in Tasks : \/ task'[o] = task[o]
                         \/ task[o].pc \notin {"opened", "dispose"} /\ task'[o].pc \notin {"opened", "dispose"}
    BY DEF WaitExpires, Become, IdleTask, Shapes, TasksOK
  <2>2. QED
    BY <1>1, <2>1, HoldersKept DEF OwnedOnce
<1>5. UNCHANGED <<drv, heap, evt, leaked>>
  BY DEF WaitExpires, table, files, wifi, history
<1>6. (InTable(b)' <=> InTable(b)) /\ OneDrive(b)'
  BY <1>1, <1>5 DEF OwnedOnce, InTable, OneDrive
<1>7. WorkerHas(b)' <=> WorkerHas(b)
  <2>1. worker.pc # "idle" => /\ worker'.job.type = worker.job.type
                              /\ worker.job.type = "CLOSE" => worker'.job.bclose = worker.job.bclose
    BY <1>2, WorkerFields, OrphanFields
  <2>2. QED
    BY <1>2, <2>1 DEF WorkerHas
<1>8. EvtHas(b)' <=> EvtHas(b)
  BY <1>5 DEF EvtHas
<1>9. QED
  BY <1>1, <1>3, <1>4, <1>5, <1>6, <1>7, <1>8 DEF OwnedOnce, OneKind, OwnedSomewhere

(* A backing goes from the table to the console that changes the drive.    *)
LEMMA OwnedTaken ==
  ASSUME Shapes, Owned, NEW c \in Tasks, NEW d \in Drives, TakeStep(c, d), task[c].pc = "idle",
         drv'[d].backing = NoBacking
  PROVE  Owned'
<1> SUFFICES ASSUME NEW b \in Backings PROVE OwnedOnce(b)'
  BY DEF Owned
<1>1. OwnedOnce(b) /\ b # NoBacking
  BY DiskAssumption DEF Owned
<1>2. UNCHANGED <<heap, rq, worker, evt, leaked>>
  BY DEF TakeStep
<1>3. (Queued(b)' <=> Queued(b)) /\ OneJob(b)' /\ (WorkerHas(b)' <=> WorkerHas(b)) /\ (EvtHas(b)' <=> EvtHas(b))
  BY <1>1, <1>2 DEF OwnedOnce, Queued, QueuedAt, OneJob, WorkerHas, EvtHas
<1>4. \A e \in Drives : e # d => drv'[e] = drv[e]
  BY DEF TakeStep
<1>5. \A o \in Tasks : o # c => task'[o] = task[o]
  BY DEF TakeStep
<1>6. ~HeldBy(b, c) /\ (HeldBy(b, c)' <=> drv[d].backing = b)
  BY <1>1 DEF HeldBy, TakeStep, Quiet
<1>7. CASE drv[d].backing = b
  <2>1. InTable(b) /\ ~InTable(b)' /\ OneDrive(b)'
    BY <1>1, <1>4, <1>7, DriveMoves DEF OwnedOnce
  <2>2. ~Held(b)
    BY <1>1, <2>1 DEF OwnedOnce, OneKind
  <2>3. Held(b)' /\ OneHolder(b)'
    BY <1>1, <1>5, <1>6, <1>7, <2>2, HolderMoves DEF OwnedOnce
  <2>4. QED
    BY <1>1, <1>2, <1>3, <2>1, <2>2, <2>3 DEF OwnedOnce, OneKind, OwnedSomewhere
<1>8. CASE drv[d].backing # b
  <2>1. (InTable(b)' <=> InTable(b)) /\ OneDrive(b)'
    BY <1>1, <1>4, <1>8, DriveMoves DEF OwnedOnce
  <2>2. (Held(b)' <=> Held(b)) /\ OneHolder(b)'
    BY <1>1, <1>5, <1>6, <1>8, HolderMoves DEF OwnedOnce
  <2>3. QED
    BY <1>1, <1>2, <1>3, <2>1, <2>2 DEF OwnedOnce, OneKind, OwnedSomewhere
<1>9. QED
  BY <1>7, <1>8

(* The new one goes into the table, the old one to the console.            *)
LEMMA OwnedSwapped == ASSUME Shapes, Owned, NEW c \in Tasks, MountSwap(c) PROVE Owned'
<1> SUFFICES ASSUME NEW b \in Backings PROVE OwnedOnce(b)'
  BY DEF Owned
<1> DEFINE d == task[c].drive
<1>1. OwnedOnce(b) /\ b # NoBacking
  BY DiskAssumption DEF Owned
<1>2. /\ TakeStep(c, d) /\ task[c].pc = "opened" /\ d \in Drives /\ task[c].b \in Backings
      /\ drv'[d].backing = task[c].b
  BY SwapEffect, SlotFields
<1> HIDE DEF d
<1>3. UNCHANGED <<heap, rq, worker, evt, leaked>>
  BY <1>2 DEF TakeStep
<1>4. (Queued(b)' <=> Queued(b)) /\ OneJob(b)' /\ (WorkerHas(b)' <=> WorkerHas(b)) /\ (EvtHas(b)' <=> EvtHas(b))
  BY <1>1, <1>3 DEF OwnedOnce, Queued, QueuedAt, OneJob, WorkerHas, EvtHas
<1>5. \A e \in Drives : e # d => drv'[e] = drv[e]
  BY <1>2 DEF TakeStep
<1>6. \A o \in Tasks : o # c => task'[o] = task[o]
  BY <1>2 DEF TakeStep
<1>7. (HeldBy(b, c) <=> task[c].b = b) /\ (HeldBy(b, c)' <=> drv[d].backing = b)
  BY <1>1, <1>2 DEF HeldBy, TakeStep, Quiet
<1>8. CASE task[c].b = b
  <2>1. Held(b) /\ HeldBy(b, c)
    BY <1>1, <1>6, <1>7, <1>8, HolderMoves DEF OwnedOnce
  <2>2. ~InTable(b)
    BY <1>1, <2>1 DEF OwnedOnce, OneKind
  <2>3. drv[d].backing # b
    BY <1>2, <2>2 DEF InTable
  <2>4. InTable(b)' /\ OneDrive(b)'
    BY <1>1, <1>2, <1>5, <1>8, <2>2, DriveMoves DEF OwnedOnce
  <2>5. ~Held(b)' /\ OneHolder(b)'
    BY <1>1, <1>6, <1>7, <2>1, <2>3, HolderMoves DEF OwnedOnce
  <2>6. QED
    BY <1>1, <1>3, <1>4, <2>1, <2>2, <2>4, <2>5 DEF OwnedOnce, OneKind, OwnedSomewhere
<1>9. CASE task[c].b # b /\ drv[d].backing = b
  <2>1. InTable(b) /\ ~InTable(b)' /\ OneDrive(b)'
    BY <1>1, <1>2, <1>5, <1>9, DriveMoves DEF OwnedOnce
  <2>2. ~Held(b)
    BY <1>1, <2>1 DEF OwnedOnce, OneKind
  <2>3. Held(b)' /\ OneHolder(b)'
    BY <1>1, <1>6, <1>7, <1>9, <2>2, HolderMoves DEF OwnedOnce
  <2>4. QED
    BY <1>1, <1>3, <1>4, <2>1, <2>2, <2>3 DEF OwnedOnce, OneKind, OwnedSomewhere
<1>10. CASE task[c].b # b /\ drv[d].backing # b
  <2>1. (InTable(b)' <=> InTable(b)) /\ OneDrive(b)'
    BY <1>1, <1>2, <1>5, <1>10, DriveMoves DEF OwnedOnce
  <2>2. (Held(b)' <=> Held(b)) /\ OneHolder(b)'
    BY <1>1, <1>6, <1>7, <1>10, HolderMoves DEF OwnedOnce
  <2>3. QED
    BY <1>1, <1>3, <1>4, <2>1, <2>2 DEF OwnedOnce, OneKind, OwnedSomewhere
<1>11. QED
  BY <1>8, <1>9, <1>10

LEMMA OwnedOpened ==
  ASSUME Shapes, Owned, NEW c \in Consoles, NEW d \in Drives, NEW img \in LocalImages, MountOpen(c, d, img)
  PROVE  Owned'
<1> SUFFICES ASSUME NEW b \in Backings PROVE OwnedOnce(b)'
  BY DEF Owned
<1>1. OwnedOnce(b) /\ c \in Tasks
  BY TaskNames DEF Owned
<1>2. PICK n \in Backings :
        /\ heap[n] = NoName /\ heap'[n] = [img |-> img, ro |-> FALSE]
        /\ \A x \in Backings : x # n => heap'[x] = heap[x]
        /\ task[c].pc = "idle" /\ task'[c] = [pc |-> "opened", b |-> n, drive |-> d, img |-> img]
        /\ \A o \in Tasks : o # c => task'[o] = task[o]
        /\ UNCHANGED <<drv, rq, worker, evt, leaked>>
  BY OpenEffect
<1>3. /\ (InTable(b)' <=> InTable(b)) /\ OneDrive(b)' /\ (Queued(b)' <=> Queued(b)) /\ OneJob(b)'
      /\ (WorkerHas(b)' <=> WorkerHas(b)) /\ (EvtHas(b)' <=> EvtHas(b)) /\ leaked' = leaked
  BY <1>1, <1>2 DEF OwnedOnce, InTable, OneDrive, Queued, QueuedAt, OneJob, WorkerHas, EvtHas
<1>4. ~HeldBy(b, c) /\ (HeldBy(b, c)' <=> n = b)
  BY <1>2 DEF HeldBy
<1>5. CASE n = b
  <2>1. ~Held(b) /\ ~InTable(b) /\ ~Queued(b) /\ ~WorkerHas(b) /\ ~EvtHas(b) /\ b \notin leaked
    BY <1>1, <1>2, <1>5 DEF OwnedOnce, OwnedSomewhere
  <2>2. Held(b)' /\ OneHolder(b)'
    BY <1>1, <1>2, <1>4, <1>5, <2>1, HolderMoves DEF OwnedOnce
  <2>3. heap'[b] # NoName
    <3>1. [img |-> img, ro |-> FALSE] \in OpenFiles
      BY ImageNames DEF OpenFiles
    <3>2. QED
      BY <1>2, <1>5, <3>1, ImageNames
  <2>4. QED
    BY <1>3, <2>1, <2>2, <2>3 DEF OwnedOnce, OneKind, OwnedSomewhere
<1>6. CASE n # b
  <2>1. (Held(b)' <=> Held(b)) /\ OneHolder(b)'
    BY <1>1, <1>2, <1>4, <1>6, HolderMoves DEF OwnedOnce
  <2>2. heap'[b] = heap[b]
    BY <1>2, <1>6
  <2>3. QED
    BY <1>1, <1>3, <2>1, <2>2 DEF OwnedOnce, OneKind, OwnedSomewhere
<1>7. QED
  BY <1>5, <1>6

(* A console closes the backing it holds, or hands it to the worker.       *)
LEMMA DisposeEffect ==
  ASSUME Shapes, NEW c \in Tasks, Dispose(c)
  PROVE  /\ task[c].pc = "dispose" /\ task[c].b \in Backings
         /\ Quiet(task'[c].pc) /\ \A o \in Tasks : o # c => task'[o] = task[o]
         /\ UNCHANGED <<drv, worker, evt>>
         /\ \/ /\ heap'[task[c].b] = NoName /\ \A x \in Backings : x # task[c].b => heap'[x] = heap[x]
               /\ ImageOf(task[c].b) \in LocalImages /\ UNCHANGED <<rq, leaked>>
            \/ HandToWorker(task[c].b) /\ heap' = heap
<1>1. task[c].pc = "dispose" /\ task[c].b \in Backings /\ Quiet(task[c].then.pc)
  BY DEF Dispose, Shapes, TasksOK, TaskState, Quiet
<1>2. task'[c] = task[c].then /\ \A o \in Tasks : o # c => task'[o] = task[o]
  BY ShapesDispose
<1>3. UNCHANGED <<drv, worker, evt>>
  BY DEF Dispose, table, wifi
<1>4. CASE ImageOf(task[c].b) \in LocalImages /\ heap' = Close(task[c].b) /\ UNCHANGED <<rq, leaked>>
  BY <1>1, <1>2, <1>3, <1>4 DEF Close, Shapes
<1>5. CASE HandToWorker(task[c].b) /\ UNCHANGED heap
  BY <1>1, <1>2, <1>3, <1>5
<1>6. QED
  BY <1>4, <1>5 DEF Dispose

(* Of a backing handed over, either the queue or the list of the leaked    *)
(* ones becomes the owner.                                                 *)
LEMMA Handed ==
  ASSUME Shapes, NEW b \in Backings, NEW h \in Backings, HandToWorker(h), OneJob(b)
  PROVE  /\ b # h => (Queued(b)' <=> Queued(b)) /\ OneJob(b)' /\ (b \in leaked' <=> b \in leaked)
         /\ b = h /\ ~Queued(b) /\ b \notin leaked =>
              (Queued(b)' <=> b \notin leaked') /\ OneJob(b)'
<1>1. CASE rq' = Append(rq, CloseJob(h)) /\ CloseJob(h) \in AllJobs /\ leaked' = leaked
  <2>1. /\ Queued(b)' <=> Queued(b) \/ b = h
        /\ ~(Queued(b) /\ b = h) => OneJob(b)'
    <3>1. CloseJob(h).type = "CLOSE" /\ CloseJob(h).bclose = h
      BY DEF CloseJob
    <3>2. QED
      BY <1>1, <3>1, QueueGrows
  <2>2. QED
    BY <1>1, <2>1
<1>2. CASE rq' = rq /\ leaked' = leaked \cup {h}
  BY <1>2 DEF Queued, QueuedAt, OneJob
<1>3. QED
  BY <1>1, <1>2, HandEffect

LEMMA OwnedDisposed == ASSUME Shapes, Owned, NEW c \in Tasks, Dispose(c) PROVE Owned'
<1> SUFFICES ASSUME NEW b \in Backings PROVE OwnedOnce(b)'
  BY DEF Owned
<1> DEFINE h == task[c].b
<1>1. OwnedOnce(b)
  BY DEF Owned
<1>2. /\ task[c].pc = "dispose" /\ h \in Backings
      /\ Quiet(task'[c].pc) /\ \A o \in Tasks : o # c => task'[o] = task[o]
      /\ UNCHANGED <<drv, worker, evt>>
      /\ \/ /\ heap'[h] = NoName /\ \A x \in Backings : x # h => heap'[x] = heap[x]
            /\ UNCHANGED <<rq, leaked>>
         \/ HandToWorker(h) /\ heap' = heap
  BY DisposeEffect
<1> HIDE DEF h
<1>3. /\ (InTable(b)' <=> InTable(b)) /\ OneDrive(b)'
      /\ (WorkerHas(b)' <=> WorkerHas(b)) /\ (EvtHas(b)' <=> EvtHas(b))
  BY <1>1, <1>2 DEF OwnedOnce, InTable, OneDrive, WorkerHas, EvtHas
<1>4. (HeldBy(b, c) <=> h = b) /\ ~HeldBy(b, c)'
  BY <1>2 DEF HeldBy, Quiet, h
<1>5. /\ (h = b => Held(b) /\ ~Held(b)') /\ (h # b => (Held(b)' <=> Held(b))) /\ OneHolder(b)'
  BY <1>1, <1>2, <1>4, HolderMoves DEF OwnedOnce
<1>6. CASE heap'[h] = NoName /\ (\A x \in Backings : x # h => heap'[x] = heap[x]) /\ UNCHANGED <<rq, leaked>>
  <2>1. (Queued(b)' <=> Queued(b)) /\ OneJob(b)' /\ leaked' = leaked
    BY <1>1, <1>6 DEF OwnedOnce, Queued, QueuedAt, OneJob
  <2>2. QED
    BY <1>1, <1>3, <1>5, <1>6, <2>1 DEF OwnedOnce, OneKind, OwnedSomewhere
<1>7. CASE HandToWorker(h) /\ heap' = heap
  <2>1. /\ b # h => (Queued(b)' <=> Queued(b)) /\ OneJob(b)' /\ (b \in leaked' <=> b \in leaked)
        /\ b = h /\ ~Queued(b) /\ b \notin leaked =>
              (Queued(b)' <=> b \notin leaked') /\ OneJob(b)'
    BY <1>1, <1>2, <1>7, Handed DEF OwnedOnce
  <2>2. QED
    BY <1>1, <1>3, <1>5, <1>7, <2>1 DEF OwnedOnce, OneKind, OwnedSomewhere
<1>8. QED
  BY <1>2, <1>6, <1>7

LEMMA OwnedReceived == ASSUME Shapes, Owned, Receive PROVE Owned'
<1> SUFFICES ASSUME NEW b \in Backings PROVE OwnedOnce(b)'
  BY DEF Owned
<1>1. OwnedOnce(b)
  BY DEF Owned
<1>2. /\ rq \in Seq(AllJobs) /\ rq # <<>> /\ rq' = Tail(rq) /\ worker.pc = "idle"
      /\ worker' = [pc |-> "got", job |-> Head(rq)] /\ UNCHANGED <<drv, heap, task, evt, leaked>>
  BY DEF Receive, Work, Shapes, table, files, wifi, history
<1>3. /\ (InTable(b)' <=> InTable(b)) /\ OneDrive(b)' /\ (Held(b)' <=> Held(b)) /\ OneHolder(b)'
      /\ (EvtHas(b)' <=> EvtHas(b)) /\ leaked' = leaked /\ heap' = heap
  BY <1>1, <1>2 DEF OwnedOnce, InTable, OneDrive, Held, HeldBy, OneHolder, EvtHas
<1>4. ~WorkerHas(b) /\ (WorkerHas(b)' <=> QueuedAt(b, 1))
  <2>1. Head(rq) = rq[1]
    BY <1>2, QueueTail
  <2>2. QED
    BY <1>2, <2>1 DEF WorkerHas, QueuedAt
<1>5. /\ OneJob(b)' /\ (Queued(b)' => Queued(b))
      /\ ~QueuedAt(b, 1) => (Queued(b)' <=> Queued(b))
      /\ QueuedAt(b, 1) => Queued(b) /\ ~Queued(b)'
  BY <1>1, <1>2, QueueShrinks DEF OwnedOnce
<1>6. QED
  BY <1>1, <1>3, <1>4, <1>5 DEF OwnedOnce, OneKind, OwnedSomewhere

LEMMA EndHolders ==
  ASSUME NEW b, OneHolder(b), EndStep
  PROVE  (Held(b)' <=> Held(b)) /\ OneHolder(b)'
<1>1. \A c \in Tasks : \/ task'[c] = task[c]
                       \/ task[c].pc \notin {"opened", "dispose"} /\ task'[c].pc \notin {"opened", "dispose"}
  BY DEF EndStep
<1>2. QED
  BY <1>1, HoldersKept

LEMMA OwnedEnd ==
  ASSUME Owned, EndStep, UNCHANGED <<drv, heap>>, worker.pc \notin {"install", "discard"},
         worker.pc = "got" => worker.job.type # "CLOSE"
  PROVE  Owned'
<1> SUFFICES ASSUME NEW b \in Backings PROVE OwnedOnce(b)'
  BY DEF Owned
<1>1. OwnedOnce(b) /\ rq' = rq /\ UNCHANGED <<evt, leaked>> /\ worker' = IdleWorker
  BY DEF Owned, EndStep
<1>2. (Held(b)' <=> Held(b)) /\ OneHolder(b)'
  BY <1>1, EndHolders DEF OwnedOnce
<1>3. (InTable(b)' <=> InTable(b)) /\ OneDrive(b)' /\ (Queued(b)' <=> Queued(b)) /\ OneJob(b)'
  BY <1>1 DEF OwnedOnce, InTable, OneDrive, Queued, QueuedAt, OneJob
<1>4. (WorkerHas(b)' <=> WorkerHas(b)) /\ (EvtHas(b)' <=> EvtHas(b)) /\ leaked' = leaked /\ heap' = heap
  BY <1>1 DEF WorkerHas, EvtHas, IdleWorker
<1>5. QED
  BY <1>1, <1>2, <1>3, <1>4 DEF OwnedOnce, OneKind, OwnedSomewhere

LEMMA OwnedGoOn ==
  ASSUME Owned, GoOnStep, UNCHANGED <<drv, heap>>,
         worker.pc = "got" => worker.job.type # "CLOSE",
         \/ worker.pc = "install" /\ worker'.pc = "discard" /\ worker'.b = worker.b
         \/ worker.pc \notin {"install", "discard"} /\ worker'.pc \notin {"got", "install", "discard"}
  PROVE  Owned'
<1> SUFFICES ASSUME NEW b \in Backings PROVE OwnedOnce(b)'
  BY DEF Owned
<1>1. OwnedOnce(b) /\ UNCHANGED <<rq, task, evt, leaked>> /\ worker'.job = worker.job
  BY DEF Owned, GoOnStep
<1>2. /\ (Held(b)' <=> Held(b)) /\ OneHolder(b)' /\ (InTable(b)' <=> InTable(b)) /\ OneDrive(b)'
      /\ (Queued(b)' <=> Queued(b)) /\ OneJob(b)'
  BY <1>1 DEF OwnedOnce, Held, HeldBy, OneHolder, InTable, OneDrive, Queued, QueuedAt, OneJob
<1>3. (WorkerHas(b)' <=> WorkerHas(b)) /\ (EvtHas(b)' <=> EvtHas(b)) /\ leaked' = leaked /\ heap' = heap
  BY <1>1 DEF WorkerHas, EvtHas
<1>4. QED
  BY <1>1, <1>2, <1>3 DEF OwnedOnce, OneKind, OwnedSomewhere

LEMMA OwnedSession == ASSUME Shapes, Owned, OpenSession PROVE Owned'
<1> SUFFICES ASSUME NEW b \in Backings PROVE OwnedOnce(b)'
  BY DEF Owned
<1>1. OwnedOnce(b) /\ rq' = rq /\ UNCHANGED <<evt, leaked>>
  BY DEF Owned, OpenSession, wifi
<1>2. PICK n \in Backings :
        /\ heap[n] = NoName /\ heap'[n].img = worker.url /\ heap'[n] \in OpenFiles
        /\ \A x \in Backings : x # n => heap'[x] = heap[x]
        /\ worker.pc = "want" /\ worker.url \in RemoteImages
        /\ worker' = [pc |-> "install", job |-> worker.job, url |-> worker.url, b |-> n]
        /\ UNCHANGED <<drv, task, mlock, link, disc>>
  BY SessionOpenEffect
<1>3. /\ (Held(b)' <=> Held(b)) /\ OneHolder(b)' /\ (InTable(b)' <=> InTable(b)) /\ OneDrive(b)'
      /\ (Queued(b)' <=> Queued(b)) /\ OneJob(b)' /\ (EvtHas(b)' <=> EvtHas(b)) /\ leaked' = leaked
  BY <1>1, <1>2 DEF OwnedOnce, Held, HeldBy, OneHolder, InTable, OneDrive, Queued, QueuedAt, OneJob, EvtHas
<1>4. ~WorkerHas(b) /\ (WorkerHas(b)' <=> n = b)
  BY <1>2 DEF WorkerHas
<1>5. CASE n = b
  <2>1. heap'[b] # NoName
    BY <1>2, <1>5, ImageNames
  <2>2. QED
    BY <1>1, <1>2, <1>3, <1>4, <1>5, <2>1 DEF OwnedOnce, OneKind, OwnedSomewhere
<1>6. CASE n # b
  <2>1. heap'[b] = heap[b]
    BY <1>2, <1>6
  <2>2. QED
    BY <1>1, <1>3, <1>4, <1>6, <2>1 DEF OwnedOnce, OneKind, OwnedSomewhere
<1>7. QED
  BY <1>5, <1>6

LEMMA OwnedInstalled == ASSUME Shapes, Awaited, Owned, Table, Session, Install PROVE Owned'
<1> SUFFICES ASSUME NEW b \in Backings PROVE OwnedOnce(b)'
  BY DEF Owned
<1> DEFINE d == worker.job.drive
<1>1. OwnedOnce(b) /\ b # NoBacking
  BY DiskAssumption DEF Owned
<1>2. EndStep /\ heap' = heap /\ worker.pc = "install"
  BY EndSteps DEF Install, files
<1>3. rq' = rq /\ UNCHANGED <<evt, leaked>> /\ worker' = IdleWorker
  BY <1>2 DEF EndStep
<1>4. /\ d \in Drives /\ ~drv[d].mounted /\ drv'[d].backing = worker.b
      /\ \A e \in Drives : e # d => drv'[e] = drv[e]
  BY InstallEffect
<1>5. drv[d].backing = NoBacking
  BY <1>4 DEF Table, SlotTrue
<1> HIDE DEF d
<1>6. (Held(b)' <=> Held(b)) /\ OneHolder(b)'
  BY <1>1, <1>2, EndHolders DEF OwnedOnce
<1>7. (Queued(b)' <=> Queued(b)) /\ OneJob(b)' /\ (EvtHas(b)' <=> EvtHas(b)) /\ leaked' = leaked
  BY <1>1, <1>3 DEF OwnedOnce, Queued, QueuedAt, OneJob, EvtHas
<1>8. (WorkerHas(b) <=> worker.b = b) /\ ~WorkerHas(b)'
  BY <1>2, <1>3 DEF WorkerHas, IdleWorker
<1>9. CASE worker.b = b
  <2>1. ~InTable(b)
    BY <1>1, <1>8, <1>9 DEF OwnedOnce, OneKind
  <2>2. InTable(b)' /\ OneDrive(b)'
    BY <1>1, <1>4, <1>9, <2>1, DriveMoves DEF OwnedOnce
  <2>3. QED
    BY <1>1, <1>2, <1>6, <1>7, <1>8, <1>9, <2>1, <2>2 DEF OwnedOnce, OneKind, OwnedSomewhere
<1>10. CASE worker.b # b
  <2>1. (InTable(b)' <=> InTable(b)) /\ OneDrive(b)'
    BY <1>1, <1>4, <1>5, <1>10, DriveMoves DEF OwnedOnce
  <2>2. QED
    BY <1>1, <1>2, <1>6, <1>7, <1>8, <1>10, <2>1 DEF OwnedOnce, OneKind, OwnedSomewhere
<1>11. QED
  BY <1>9, <1>10

LEMMA OwnedClosed == ASSUME Shapes, Awaited, Owned, Session, Discard \/ CloseSession PROVE Owned'
<1> SUFFICES ASSUME NEW b \in Backings PROVE OwnedOnce(b)'
  BY DEF Owned
<1>1. OwnedOnce(b) /\ EndStep /\ drv' = drv
  BY EndSteps DEF Owned, Discard, CloseSession, table
<1>2. rq' = rq /\ UNCHANGED <<evt, leaked>> /\ worker' = IdleWorker
  BY <1>1 DEF EndStep
<1>3. PICK x \in Backings : heap' = [heap EXCEPT ![x] = NoName] /\ \A y \in Backings : WorkerHas(y) <=> y = x
  <2>1. CASE Discard
    <3>1. worker.b \in Backings /\ worker.pc = "discard"
      BY <2>1, WorkerFields DEF Discard
    <3>2. QED
      BY <2>1, <3>1 DEF Discard, Close, WorkerHas
  <2>2. CASE CloseSession
    <3>1. worker.pc = "got" /\ worker.job.type = "CLOSE" /\ worker.job.bclose \in Backings
      BY <2>2, WorkerFields, JobFields DEF CloseSession
    <3>2. QED
      BY <2>2, <3>1 DEF CloseSession, Close, WorkerHas
  <2>3. QED
    BY <2>1, <2>2
<1>4. /\ (InTable(b)' <=> InTable(b)) /\ OneDrive(b)' /\ (Queued(b)' <=> Queued(b)) /\ OneJob(b)'
      /\ (EvtHas(b)' <=> EvtHas(b)) /\ leaked' = leaked
  BY <1>1, <1>2 DEF OwnedOnce, InTable, OneDrive, Queued, QueuedAt, OneJob, EvtHas
<1>5. (Held(b)' <=> Held(b)) /\ OneHolder(b)' /\ ~WorkerHas(b)'
  BY <1>1, <1>2, EndHolders DEF OwnedOnce, WorkerHas, IdleWorker
<1>6. IF b = x THEN heap'[b] = NoName ELSE heap'[b] = heap[b]
  BY <1>3 DEF Shapes
<1>7. QED
  BY <1>1, <1>3, <1>4, <1>5, <1>6 DEF OwnedOnce, OneKind, OwnedSomewhere

(* The event task, between its hooks and in the WiFi-up hook.              *)
LEMMA OwnedEventQuiet ==
  ASSUME Owned, UNCHANGED <<drv, heap, rq, worker, task, leaked>>,
         evt' = evt \/ (evt.pc # "dispose" /\ evt'.pc # "dispose")
  PROVE  Owned'
<1> SUFFICES ASSUME NEW b \in Backings PROVE OwnedOnce(b)'
  BY DEF Owned
<1>1. OwnedOnce(b)
  BY DEF Owned
<1>2. /\ (Held(b)' <=> Held(b)) /\ OneHolder(b)' /\ (InTable(b)' <=> InTable(b)) /\ OneDrive(b)'
      /\ (Queued(b)' <=> Queued(b)) /\ OneJob(b)' /\ (WorkerHas(b)' <=> WorkerHas(b))
      /\ leaked' = leaked /\ heap' = heap
  BY <1>1 DEF OwnedOnce, Held, HeldBy, OneHolder, InTable, OneDrive, Queued, QueuedAt, OneJob, WorkerHas
<1>3. EvtHas(b)' <=> EvtHas(b)
  BY DEF EvtHas
<1>4. QED
  BY <1>1, <1>2, <1>3 DEF OwnedOnce, OneKind, OwnedSomewhere

LEMMA ClosingHas ==
  ASSUME NEW bs, NEW b
  PROVE  Closing(bs).pc = "dispose" /\ b \in Closing(bs).close <=> b \in bs
BY DEF Closing, IdleEvt

LEMMA OwnedUnmountAll == ASSUME Shapes, Owned, Table, RemoteUnmountAll PROVE Owned'
<1> SUFFICES ASSUME NEW b \in Backings PROVE OwnedOnce(b)'
  BY DEF Owned
<1>1. OwnedOnce(b) /\ b # NoBacking
  BY DiskAssumption DEF Owned
<1>2. UNCHANGED <<heap, rq, worker, task, leaked>> /\ evt.pc = "down"
  BY DEF RemoteUnmountAll, files, jobs, history
<1>3. \A d \in Drives : drv'[d] = IF Gone(d) THEN RemoteSlot(drv[d].name) ELSE drv[d]
  BY UnmountAllEffect
<1>4. ~EvtHas(b) /\ (EvtHas(b)' <=> \E d \in Drives : Gone(d) /\ drv[d].backing = b)
  <2> DEFINE bs == {drv[d].backing : d \in {x \in Drives : drv[x].remote /\ drv[x].mounted}}
  <2>1. evt' = Closing(bs)
    BY DEF RemoteUnmountAll
  <2>2. b \in bs <=> \E d \in Drives : Gone(d) /\ drv[d].backing = b
    BY DEF Gone
  <2> HIDE DEF bs
  <2>3. QED
    BY <1>2, <2>1, <2>2, ClosingHas DEF EvtHas
<1>5. \A d \in Drives : drv'[d].backing = IF Gone(d) THEN NoBacking ELSE drv[d].backing
  <2>1. \A x : RemoteSlot(x).backing = NoBacking
    BY DEF RemoteSlot
  <2>2. QED
    BY <1>3, <2>1
<1>6. OneDrive(b)' /\ (InTable(b)' <=> \E d \in Drives : ~Gone(d) /\ drv[d].backing = b)
  BY <1>1, <1>5 DEF OwnedOnce, OneDrive, InTable
<1>7. (EvtHas(b)' => InTable(b) /\ ~InTable(b)') /\ (InTable(b)' => InTable(b))
      /\ (InTable(b) => EvtHas(b)' \/ InTable(b)')
  BY <1>1, <1>4, <1>6 DEF OwnedOnce, OneDrive, InTable
<1>8. /\ (Held(b)' <=> Held(b)) /\ OneHolder(b)' /\ (WorkerHas(b)' <=> WorkerHas(b))
      /\ (Queued(b)' <=> Queued(b)) /\ OneJob(b)' /\ leaked' = leaked /\ heap' = heap
  BY <1>1, <1>2 DEF OwnedOnce, Held, HeldBy, OneHolder, Queued, QueuedAt, OneJob, WorkerHas
<1>9. QED
  BY <1>1, <1>4, <1>6, <1>7, <1>8 DEF OwnedOnce, OneKind, OwnedSomewhere

LEMMA OwnedEvtDispose == ASSUME Shapes, Owned, EvtDispose PROVE Owned'
<1> SUFFICES ASSUME NEW b \in Backings PROVE OwnedOnce(b)'
  BY DEF Owned
<1>1. OwnedOnce(b)
  BY DEF Owned
<1>2. PICK h \in evt.close : HandToWorker(h) /\ evt' = Closing(evt.close \ {h})
  BY DEF EvtDispose
<1>3. UNCHANGED <<drv, heap, worker, task>> /\ evt.pc = "dispose" /\ h \in Backings
  BY DEF EvtDispose, table, files, Shapes, EvtState
<1>4. (EvtHas(b) <=> b \in evt.close) /\ (EvtHas(b)' <=> b \in evt.close /\ b # h)
  <2>1. PICK bs : bs = evt.close \ {h}
    OBVIOUS
  <2>2. evt' = Closing(bs) /\ (b \in bs <=> b \in evt.close /\ b # h)
    BY <1>2, <2>1
  <2>3. EvtHas(b)' <=> b \in bs
    BY <2>2, ClosingHas DEF EvtHas
  <2>4. QED
    BY <1>3, <2>2, <2>3 DEF EvtHas
<1>5. /\ b # h => (Queued(b)' <=> Queued(b)) /\ OneJob(b)' /\ (b \in leaked' <=> b \in leaked)
      /\ b = h /\ ~Queued(b) /\ b \notin leaked =>
              (Queued(b)' <=> b \notin leaked') /\ OneJob(b)'
  BY <1>1, <1>2, <1>3, Handed DEF OwnedOnce
<1>6. /\ (Held(b)' <=> Held(b)) /\ OneHolder(b)' /\ (WorkerHas(b)' <=> WorkerHas(b))
      /\ (InTable(b)' <=> InTable(b)) /\ OneDrive(b)' /\ heap' = heap
  BY <1>1, <1>3 DEF OwnedOnce, Held, HeldBy, OneHolder, InTable, OneDrive, WorkerHas
<1>7. QED
  BY <1>1, <1>2, <1>4, <1>5, <1>6 DEF OwnedOnce, OneKind, OwnedSomewhere

-----------------------------------------------------------------------------
(* Table.                                                                  *)

(* A backing in the table is open, and no one else's.                      *)
LEMMA TableBacking ==
  ASSUME Shapes, Owned, Table, NEW d \in Drives, drv[d].mounted
  PROVE  /\ drv[d].backing \in Backings /\ heap[drv[d].backing] # NoName
         /\ \A c \in Tasks : ~HeldBy(drv[d].backing, c)
         /\ ~WorkerHas(drv[d].backing)
<1>1. drv[d].backing \in Backings /\ heap[drv[d].backing] # NoName
  BY DEF Shapes, Slots, Table, SlotTrue
<1>2. InTable(drv[d].backing) /\ OwnedOnce(drv[d].backing)
  BY <1>1 DEF InTable, Owned
<1>3. QED
  BY <1>1, <1>2 DEF OwnedOnce, OneKind, Held

LEMMA SlotKept ==
  ASSUME NEW d, SlotTrue(d), drv'[d] = drv[d], drv[d].mounted => heap'[drv[d].backing] = heap[drv[d].backing]
  PROVE  SlotTrue(d)'
BY DEF SlotTrue, ImageOf

LEMMA TableKept == ASSUME Table, UNCHANGED <<drv, heap>> PROVE Table'
BY SlotKept DEF Table

LEMMA TableOpening ==
  ASSUME Table, drv' = drv, NEW n, heap[n] = NoName, \A x \in Backings : x # n => heap'[x] = heap[x], Shapes
  PROVE  Table'
<1> SUFFICES ASSUME NEW d \in Drives PROVE SlotTrue(d)'
  BY DEF Table
<1>1. drv[d].mounted => drv[d].backing \in Backings /\ drv[d].backing # n
  BY DEF Table, SlotTrue, Shapes, Slots
<1>2. QED
  BY <1>1, SlotKept DEF Table

LEMMA TableDisposed == ASSUME Shapes, Owned, Table, NEW c \in Tasks, Dispose(c) PROVE Table'
<1> SUFFICES ASSUME NEW d \in Drives PROVE SlotTrue(d)'
  BY DEF Table
<1>1. drv[d].mounted => heap'[drv[d].backing] = heap[drv[d].backing]
  <2>1. HeldBy(task[c].b, c)
    BY DisposeEffect DEF HeldBy
  <2>2. drv[d].mounted => drv[d].backing # task[c].b /\ drv[d].backing \in Backings
    BY <2>1, TableBacking
  <2>3. QED
    BY <2>2, DisposeEffect
<1>2. drv' = drv
  BY DisposeEffect
<1>3. QED
  BY <1>1, <1>2, SlotKept DEF Table

LEMMA TableClosed == ASSUME Shapes, Owned, Table, Discard \/ CloseSession PROVE Table'
<1> SUFFICES ASSUME NEW d \in Drives PROVE SlotTrue(d)'
  BY DEF Table
<1>1. PICK x \in Backings : heap' = [heap EXCEPT ![x] = NoName] /\ WorkerHas(x)
  <2>1. CASE Discard
    BY <2>1, WorkerFields DEF Discard, Close, WorkerHas
  <2>2. CASE CloseSession
    BY <2>2, WorkerFields, JobFields DEF CloseSession, Close, WorkerHas
  <2>3. QED
    BY <2>1, <2>2
<1>2. drv[d].mounted => drv[d].backing # x /\ drv[d].backing \in Backings
  BY <1>1, TableBacking
<1>3. drv[d].mounted => heap'[drv[d].backing] = heap[drv[d].backing]
  BY <1>1, <1>2 DEF Shapes
<1>4. drv' = drv
  BY DEF Discard, CloseSession, table
<1>5. QED
  BY <1>3, <1>4, SlotKept DEF Table

(* The slot of drive d is replaced by a drive that is not ready.           *)
LEMMA TableTaken ==
  ASSUME Table, NEW d \in Drives, heap' = heap, \A e \in Drives : e # d => drv'[e] = drv[e],
         drv'[d] = EmptySlot \/ \E url \in RemoteImages : drv'[d] = RemoteSlot(url)
  PROVE  Table'
<1>1. SlotTrue(d)'
  <2>1. CASE drv'[d] = EmptySlot
    <3>1. ~drv'[d].mounted /\ ~drv'[d].remote /\ drv'[d].backing = NoBacking /\ drv'[d].name \notin RemoteImages
      BY <2>1, ImageNames DEF EmptySlot
    <3>2. QED
      BY <3>1 DEF SlotTrue
  <2>2. CASE \E url \in RemoteImages : drv'[d] = RemoteSlot(url)
    <3>1. ~drv'[d].mounted /\ drv'[d].remote /\ drv'[d].backing = NoBacking /\ drv'[d].name \in RemoteImages
      BY <2>2 DEF RemoteSlot
    <3>2. QED
      BY <3>1 DEF SlotTrue
  <2>3. QED
    BY <2>1, <2>2
<1>2. QED
  BY <1>1, SlotKept DEF Table

LEMMA TakenSlot ==
  ASSUME Shapes, NEW c \in Consoles, NEW d \in Drives, NEW url,
         (RemoteConfigure(c, d, url) /\ url \in RemoteImages) \/ MountFails(c, d) \/ UnmountDo(c, d)
  PROVE  drv'[d] = EmptySlot \/ \E u \in RemoteImages : drv'[d] = RemoteSlot(u)
BY DEF RemoteConfigure, MountFails, UnmountDo, Unmount, Shapes

LEMMA TableSwapped == ASSUME Shapes, Table, Session, NEW c \in Tasks, MountSwap(c) PROVE Table'
<1>0. PICK d : d = task[c].drive
  OBVIOUS
<1>1. /\ TakeStep(c, d) /\ task[c].pc = "opened" /\ d \in Drives /\ task[c].b \in Backings
      /\ task[c].img \in LocalImages /\ drv'[d] = LocalSlot(task[c].img, task[c].b)
  BY <1>0, SwapEffect
<1>2. heap' = heap /\ heap[task[c].b] = [img |-> task[c].img, ro |-> FALSE]
  BY <1>1 DEF TakeStep, Session, OpenedFiles
<1>3. SlotTrue(d)'
  <2>1. /\ drv'[d].mounted /\ ~drv'[d].remote /\ ~drv'[d].readonly /\ drv'[d].backing = task[c].b
        /\ drv'[d].name = task[c].img /\ drv'[d].name \notin RemoteImages
    BY <1>1, SlotFields, ImageNames
  <2>2. heap[task[c].b] \in OpenFiles
    BY <1>1, <1>2, ImageNames DEF OpenFiles
  <2>3. heap'[drv'[d].backing] # NoName /\ heap'[drv'[d].backing].img = drv'[d].name /\ ~heap'[drv'[d].backing].ro
    BY <1>2, <2>1, <2>2, ImageNames
  <2>4. drv'[d].backing # NoBacking
    BY <1>1, <2>1, DiskAssumption
  <2>5. QED
    BY <2>1, <2>3, <2>4 DEF SlotTrue, ImageOf
<1>4. QED
  BY <1>1, <1>2, <1>3, SlotKept DEF Table, TakeStep

LEMMA TableInstalled == ASSUME Shapes, Table, Session, Install PROVE Table'
<1>0. PICK d : d = worker.job.drive
  OBVIOUS
<1>1. /\ d \in Drives /\ worker.b \in Backings /\ worker.url \in RemoteImages
      /\ \A e \in Drives : e # d => drv'[e] = drv[e]
      /\ drv'[d].mounted /\ drv'[d].remote
      /\ drv'[d].name = worker.url /\ drv'[d].backing = worker.b
      /\ (drv'[d].readonly <=> heap[worker.b].ro)
  BY <1>0, InstallEffect
<1>2. heap' = heap /\ heap[worker.b] # NoName /\ ImageOf(worker.b) = worker.url
  BY DEF Install, files, Session, WorkerSession
<1>3. SlotTrue(d)'
  BY <1>1, <1>2, DiskAssumption DEF SlotTrue, ImageOf
<1>4. QED
  BY <1>1, <1>2, <1>3, SlotKept DEF Table

LEMMA TableUnmountAll == ASSUME Shapes, Table, RemoteUnmountAll PROVE Table'
<1> SUFFICES ASSUME NEW d \in Drives PROVE SlotTrue(d)'
  BY DEF Table
<1>1. heap' = heap /\ drv'[d] = IF Gone(d) THEN RemoteSlot(drv[d].name) ELSE drv[d]
  BY UnmountAllEffect DEF RemoteUnmountAll, files
<1>2. CASE Gone(d)
  <2>1. drv[d].name \in RemoteImages /\ drv'[d] = RemoteSlot(drv[d].name)
    BY <1>1, <1>2, UnmountAllEffect
  <2>2. ~drv'[d].mounted /\ drv'[d].remote /\ drv'[d].backing = NoBacking /\ drv'[d].name \in RemoteImages
    BY <2>1 DEF RemoteSlot
  <2>3. QED
    BY <2>2 DEF SlotTrue
<1>3. CASE ~Gone(d)
  BY <1>1, <1>3, SlotKept DEF Table
<1>4. QED
  BY <1>2, <1>3

-----------------------------------------------------------------------------
(* Session.                                                                *)

LEMMA WorkerSessionKept ==
  ASSUME WorkerSession, worker' = worker,
         worker.pc \in {"picked", "store", "drop"} /\ worker.b # NoBacking => heap'[worker.b] = heap[worker.b],
         worker.pc \in {"install", "discard"} => heap'[worker.b] = heap[worker.b]
  PROVE  WorkerSession'
BY DEF WorkerSession, ImageOf

LEMMA WorkerSessionIdle == ASSUME worker' = IdleWorker PROVE WorkerSession'
BY DEF WorkerSession, IdleWorker

LEMMA OpenedKept ==
  ASSUME OpenedFiles,
         \A c \in Tasks : task'[c] = task[c] \/ task'[c].pc # "opened",
         \A c \in Tasks : task[c].pc = "opened" => heap'[task[c].b] = heap[task[c].b]
  PROVE  OpenedFiles'
BY DEF OpenedFiles

LEMMA SessionQuiet == ASSUME Session, QuietStep PROVE Session'
<1>1. heap' = heap /\ worker' = worker /\ \A c \in Tasks : task'[c] = task[c] \/ task'[c].pc # "opened"
  BY DEF QuietStep, Quiet
<1>2. QED
  BY <1>1, WorkerSessionKept, OpenedKept DEF Session

(* Steps that leave the heap and the worker alone.                         *)
LEMMA SessionSteps ==
  ASSUME Session, heap' = heap, worker' = worker, \A c \in Tasks : task'[c] = task[c] \/ task'[c].pc # "opened"
  PROVE  Session'
BY WorkerSessionKept, OpenedKept DEF Session

LEMMA SessionExpires == ASSUME Shapes, Session, NEW c \in Tasks, WaitExpires(c) PROVE Session'
<1>1. /\ worker'.pc = worker.pc /\ (worker.pc # "idle" => worker'.job = Orphan(worker.job, c))
      /\ worker'.pc \in {"picked", "store", "drop", "install", "discard"} => worker'.b = worker.b
      /\ worker'.pc \in {"want", "install", "discard"} => worker'.url = worker.url
  BY ExpiryEffect
<1>2. worker.pc \in {"picked", "store", "drop"} =>
        worker'.job.type = worker.job.type /\ worker'.job.track = worker.job.track /\ worker'.job.len = worker.job.len
  <2>1. worker.pc \in {"picked", "store", "drop"} => worker.job \in AllJobs /\ worker.job.type # "CLOSE"
    BY WorkerFields DEF IoJobs, AllJobs
  <2>2. QED
    BY <1>1, <2>1, OrphanFields
<1>3. heap' = heap /\ \A o \in Tasks : task'[o] = task[o] \/ task'[o].pc # "opened"
  BY DEF WaitExpires, files, Become, IdleTask, Shapes, TasksOK
<1>4. WorkerSession'
  BY <1>1, <1>2, <1>3 DEF Session, WorkerSession, ImageOf
<1>5. QED
  BY <1>3, <1>4, OpenedKept DEF Session

LEMMA SessionEnd == ASSUME Session, EndStep, heap' = heap PROVE Session'
<1>1. worker' = IdleWorker /\ \A c \in Tasks : task'[c] = task[c] \/ task'[c].pc # "opened"
  BY DEF EndStep
<1>2. QED
  BY <1>1, WorkerSessionIdle, OpenedKept DEF Session

(* A backing in use by the worker, or by a console that has just opened    *)
(* it, is not the one that is closed.                                      *)
LEMMA SessionDisposed == ASSUME Shapes, Owned, Session, NEW c \in Tasks, Dispose(c) PROVE Session'
<1>1. /\ task[c].pc = "dispose" /\ task[c].b \in Backings /\ worker' = worker
      /\ \A o \in Tasks : task'[o] = task[o] \/ task'[o].pc # "opened"
  BY DisposeEffect DEF Quiet
<1>2. ASSUME NEW o \in Tasks, task[o].pc = "opened"
      PROVE  task[o].b \in Backings /\ task[o].b # task[c].b
  <2>1. HeldBy(task[o].b, o) /\ task[o].b \in Backings /\ HeldBy(task[c].b, c)
    BY <1>1, <1>2 DEF HeldBy, Shapes, TasksOK, TaskState
  <2>2. QED
    BY <1>1, <1>2, <2>1 DEF Owned, OwnedOnce, OneHolder
<1>3. worker.pc \in {"install", "discard"} => worker.b \in Backings /\ worker.b # task[c].b
  <2>1. Held(task[c].b)
    BY <1>1 DEF Held, HeldBy
  <2>2. ~WorkerHas(task[c].b)
    BY <1>1, <2>1 DEF Owned, OwnedOnce, OneKind
  <2>3. QED
    BY <2>2, WorkerFields DEF WorkerHas
<1>4. CASE heap' = heap
  BY <1>1, <1>4, WorkerSessionKept, OpenedKept DEF Session
<1>5. CASE /\ ImageOf(task[c].b) \in LocalImages
           /\ \A x \in Backings : x # task[c].b => heap'[x] = heap[x]
  <2>1. worker.pc \in {"picked", "store", "drop"} /\ worker.b # NoBacking =>
          worker.b \in Backings /\ worker.b # task[c].b
    BY <1>5, WorkerFields, ImageNames DEF Session, WorkerSession
  <2>2. QED
    BY <1>1, <1>2, <1>3, <1>5, <2>1, WorkerSessionKept, OpenedKept DEF Session
<1>6. QED
  BY <1>4, <1>5, DisposeEffect

LEMMA SessionOpened ==
  ASSUME Shapes, Session, NEW c \in Consoles, NEW d \in Drives, NEW img \in LocalImages, MountOpen(c, d, img)
  PROVE  Session'
<1>1. PICK n \in Backings :
        /\ heap[n] = NoName /\ heap'[n] = [img |-> img, ro |-> FALSE]
        /\ \A x \in Backings : x # n => heap'[x] = heap[x]
        /\ task'[c] = [pc |-> "opened", b |-> n, drive |-> d, img |-> img]
        /\ \A o \in Tasks : o # c => task'[o] = task[o]
        /\ worker' = worker
  BY OpenEffect
<1>2. WorkerSession'
  <2>1. /\ worker.pc \in {"picked", "store", "drop"} /\ worker.b # NoBacking => worker.b \in Backings /\ worker.b # n
        /\ worker.pc \in {"install", "discard"} => worker.b \in Backings /\ worker.b # n
    BY <1>1, WorkerFields DEF Session, WorkerSession
  <2>2. QED
    BY <1>1, <2>1, WorkerSessionKept DEF Session
<1>3. ASSUME NEW o \in Tasks, o # c, task[o].pc = "opened"
      PROVE  heap'[task[o].b] = [img |-> task[o].img, ro |-> FALSE]
  <2>1. task[o].b \in Backings /\ task[o].img \in Images
    BY <1>3, ImageNames DEF Shapes, TasksOK, TaskState
  <2>2. heap[task[o].b] = [img |-> task[o].img, ro |-> FALSE]
    BY <1>3 DEF Session, OpenedFiles
  <2>3. heap[task[o].b] # NoName
    BY <2>1, <2>2, FileNames
  <2>4. QED
    BY <1>1, <2>1, <2>2, <2>3
<1>4. ASSUME NEW o \in Tasks, task'[o].pc = "opened"
      PROVE  heap'[task'[o].b] = [img |-> task'[o].img, ro |-> FALSE]
  <2>1. CASE o = c
    <3>1. task'[o].b = n /\ task'[o].img = img
      BY <1>1, <2>1
    <3>2. QED
      BY <1>1, <3>1
  <2>2. CASE o # c
    <3>1. task'[o] = task[o]
      BY <1>1, <2>2
    <3>2. QED
      BY <1>3, <1>4, <2>2, <3>1
  <2>3. QED
    BY <2>1, <2>2
<1>5. OpenedFiles'
  BY <1>4 DEF OpenedFiles
<1>6. QED
  BY <1>2, <1>5 DEF Session

LEMMA SessionStarted == ASSUME Shapes, Session, OpenSession PROVE Session'
<1>1. PICK n \in Backings :
        /\ heap[n] = NoName /\ heap'[n].img = worker.url /\ heap'[n] \in OpenFiles
        /\ \A x \in Backings : x # n => heap'[x] = heap[x]
        /\ worker' = [pc |-> "install", job |-> worker.job, url |-> worker.url, b |-> n]
        /\ task' = task
  BY SessionOpenEffect
<1>2. WorkerSession'
  BY <1>1, ImageNames DEF WorkerSession, ImageOf
<1>3. ASSUME NEW o \in Tasks, task[o].pc = "opened"
      PROVE  heap'[task[o].b] = heap[task[o].b]
  <2>1. task[o].b \in Backings /\ task[o].img \in Images
    BY <1>3, ImageNames DEF Shapes, TasksOK, TaskState
  <2>2. heap[task[o].b] = [img |-> task[o].img, ro |-> FALSE]
    BY <1>3 DEF Session, OpenedFiles
  <2>3. heap[task[o].b] # NoName
    BY <2>1, <2>2, FileNames
  <2>4. QED
    BY <1>1, <2>1, <2>3
<1>4. QED
  BY <1>1, <1>2, <1>3, OpenedKept DEF Session

LEMMA SessionClosed == ASSUME Shapes, Awaited, Owned, Session, Discard \/ CloseSession PROVE Session'
<1>1. PICK x \in Backings : heap' = [heap EXCEPT ![x] = NoName] /\ WorkerHas(x)
  <2>1. CASE Discard
    BY <2>1, WorkerFields DEF Discard, Close, WorkerHas
  <2>2. CASE CloseSession
    BY <2>2, WorkerFields, JobFields DEF CloseSession, Close, WorkerHas
  <2>3. QED
    BY <2>1, <2>2
<1>2. EndStep
  BY EndSteps
<1>3. worker' = IdleWorker /\ \A c \in Tasks : task'[c] = task[c] \/ task'[c].pc # "opened"
  BY <1>2 DEF EndStep
<1>4. ASSUME NEW o \in Tasks, task[o].pc = "opened"
      PROVE  heap'[task[o].b] = heap[task[o].b]
  <2>1. Held(task[o].b) /\ task[o].b \in Backings
    BY <1>4 DEF Held, HeldBy, Shapes, TasksOK, TaskState
  <2>2. ~WorkerHas(task[o].b)
    BY <2>1 DEF Owned, OwnedOnce, OneKind
  <2>3. QED
    BY <1>1, <2>1, <2>2 DEF Shapes
<1>5. QED
  BY <1>3, <1>4, WorkerSessionIdle, OpenedKept DEF Session

(* The worker goes on with the session that it has.                        *)
LEMMA SessionGoesOn ==
  ASSUME Shapes, Session, Table,
         \/ Lookup \/ FetchTrack \/ SendTrack \/ SendFails
         \/ (WantMount /\ WantsSession(worker.job.drive)) \/ Mismatch
  PROVE  Session' /\ heap' = heap
<1>1. heap' = heap /\ task' = task
  BY DEF Lookup, FetchTrack, SendTrack, SendFails, WantMount, Mismatch, Continue, files
<1>2. OpenedFiles'
  BY <1>1, OpenedKept DEF Session
<1>3. CASE Lookup
  <2> DEFINE j == worker.job
             usable == /\ drv[j.drive].mounted /\ drv[j.drive].remote
                       /\ j.type = "WRITE" => ~drv[j.drive].readonly
                       /\ drv[j.drive].backing # NoBacking
                       /\ disk_track_in_bounds(j.track, j.len, ImageSize)
  <2>1. worker' = [pc |-> "picked", job |-> j, b |-> IF usable THEN drv[j.drive].backing ELSE NoBacking]
    BY <1>3 DEF Lookup, Continue, Work
  <2>2. j.drive \in Drives
    BY <1>3, WorkerFields, JobFields DEF Lookup, IoJobs
  <2>3. worker'.pc = "picked" /\ worker'.job = j /\ worker'.b = IF usable THEN drv[j.drive].backing ELSE NoBacking
    BY <2>1
  <2>4. usable => /\ heap[drv[j.drive].backing] # NoName /\ ImageOf(drv[j.drive].backing) \in RemoteImages
                  /\ j.type = "WRITE" => ~heap[drv[j.drive].backing].ro
    BY <2>2 DEF Table, SlotTrue
  <2>5. usable => disk_track_in_bounds(j.track, j.len, ImageSize)
    OBVIOUS
  <2>6. QED
    <3> HIDE DEF usable
    <3>1. worker'.b # NoBacking =>
            /\ heap'[worker'.b] # NoName /\ heap'[worker'.b].img \in RemoteImages
            /\ worker'.job.type = "WRITE" => ~heap'[worker'.b].ro
            /\ disk_track_in_bounds(worker'.job.track, worker'.job.len, ImageSize)
      BY <1>1, <2>3, <2>4, <2>5 DEF ImageOf
    <3>2. WorkerSession'
      BY <2>3, <3>1 DEF WorkerSession, ImageOf
    <3>3. QED
      BY <1>1, <1>2, <3>2 DEF Session
<1>4. CASE FetchTrack \/ SendTrack \/ SendFails
  <2>1. worker.pc = "picked" /\ worker.b # NoBacking /\ (SendFails => worker.job.type = "WRITE")
    BY <1>4 DEF FetchTrack, SendTrack, SendFails, Usable
  <2>2. /\ worker'.pc \in {"store", "drop"} /\ worker'.job = worker.job /\ worker'.b = worker.b
        /\ (worker'.pc = "drop" => worker.job.type = "WRITE")
    <3>1. CASE FetchTrack \/ SendTrack
      <4>1. PICK data : worker' = [pc |-> "store", job |-> worker.job, b |-> worker.b, data |-> data]
        BY <3>1 DEF FetchTrack, SendTrack, Continue, Work
      <4>2. QED
        BY <4>1
    <3>2. CASE SendFails
      BY <2>1, <3>2 DEF SendFails, Continue, Work
    <3>3. QED
      BY <1>4, <3>1, <3>2
  <2>3. WorkerSession'
    BY <1>1, <2>1, <2>2 DEF Session, WorkerSession, ImageOf
  <2>4. QED
    BY <1>1, <1>2, <2>3 DEF Session
<1>5. CASE WantMount /\ WantsSession(worker.job.drive)
  <2>1. worker'.pc = "want"
    BY <1>5 DEF WantMount, Continue, Work
  <2>2. QED
    BY <1>1, <1>2, <2>1 DEF Session, WorkerSession
<1>6. CASE Mismatch
  <2>1. worker.pc = "install" /\ worker' = [worker EXCEPT !.pc = "discard"]
        /\ worker = [pc |-> worker.pc, job |-> worker.job, url |-> worker.url, b |-> worker.b]
    BY <1>6 DEF Mismatch, Continue, Work, Shapes, WorkerState
  <2>2. worker'.pc = "discard" /\ worker'.b = worker.b /\ worker'.url = worker.url
    BY <2>1
  <2>3. WorkerSession'
    BY <1>1, <2>1, <2>2 DEF Session, WorkerSession, ImageOf
  <2>4. QED
    BY <1>1, <1>2, <2>3 DEF Session
<1>7. QED
  BY <1>3, <1>4, <1>5, <1>6

LEMMA SessionReceived == ASSUME Session, Receive PROVE Session'
<1>1. heap' = heap /\ task' = task /\ worker'.pc = "got"
  BY DEF Receive, Work, files
<1>2. QED
  BY <1>1, OpenedKept DEF Session, WorkerSession

-----------------------------------------------------------------------------
(* Locked.                                                                 *)

LEMMA LockedKept ==
  ASSUME Locked, mlock' = mlock, \A c \in Tasks : Holds(c)' => Holds(c)
  PROVE  Locked'
BY DEF Locked

LEMMA LockedSteps ==
  ASSUME Locked, mlock' = mlock, \A c \in Tasks : task'[c] = task[c] \/ task'[c].pc \notin {"opened", "unlock", "dispose"}
  PROVE  Locked'
<1>1. \A c \in Tasks : Holds(c)' => Holds(c)
  BY DEF Holds
<1>2. QED
  BY <1>1, LockedKept

LEMMA LockedCallSteps ==
  ASSUME Shapes, Locked, NEW c \in Tasks,
         \/ PostWait(c) \/ PostFails(c) \/ WaitExpires(c) \/ ReadDone(c) \/ ReadReturns(c)
         \/ Dispose(c) \/ RemoteConnect(c)
  PROVE  Locked'
<1>1. mlock' = mlock /\ \A o \in Tasks : o # c => task'[o] = task[o]
  BY DEF PostWait, PostFails, WaitExpires, ReadDone, ReadReturns, Dispose, RemoteConnect,
         Become, Copied, Shapes, TasksOK
<1>2. Holds(c)' => Holds(c)
  <2>1. CASE Dispose(c)
    <3>1. task[c].pc = "dispose" /\ task'[c] = task[c].then /\ task[c].then.pc \in {"idle", "unlock", "connect"}
      BY <2>1, ShapesDispose DEF Dispose, Shapes, TasksOK, TaskState
    <3>2. QED
      BY <3>1 DEF Holds
  <2>2. CASE \/ PostWait(c) \/ PostFails(c) \/ WaitExpires(c) \/ ReadDone(c) \/ ReadReturns(c)
             \/ RemoteConnect(c)
    <3>1. task'[c].pc \notin {"opened", "unlock", "dispose"}
      <4>1. CASE PostWait(c)
        <5>1. task'[c] = [pc |-> "wait", job |-> task[c].job]
          BY <4>1, ShapesPostWait
        <5>2. QED
          BY <5>1
      <4>2. CASE PostFails(c) \/ WaitExpires(c) \/ ReadDone(c) \/ ReadReturns(c) \/ RemoteConnect(c)
        <5>1. \E s : Become(c, s) /\ s.pc \in {"idle", "copied", "post"}
          <6>1. CASE PostFails(c) \/ WaitExpires(c) \/ ReadReturns(c)
            BY <6>1, IdleState DEF PostFails, WaitExpires, ReadReturns
          <6>2. CASE ReadDone(c)
            BY <6>2, IdleState DEF ReadDone, Copied
          <6>3. CASE RemoteConnect(c)
            BY <6>3, IdleState DEF RemoteConnect
          <6>4. QED
            BY <4>2, <6>1, <6>2, <6>3
        <5>2. QED
          BY <5>1 DEF Become, Shapes, TasksOK
      <4>3. QED
        BY <2>2, <4>1, <4>2
    <3>2. QED
      BY <3>1 DEF Holds
  <2>3. QED
    BY <2>1, <2>2
<1>3. \A o \in Tasks : Holds(o)' => Holds(o)
  BY <1>1, <1>2 DEF Holds
<1>4. QED
  BY <1>1, <1>3, LockedKept

LEMMA LockedReleased ==
  ASSUME Shapes, Locked, NEW c \in Tasks, MountSwap(c) \/ MountUnlock(c)
  PROVE  Locked'
<1>1. mlock = c
  BY DEF MountSwap, MountUnlock, Locked, Holds
<1>2. \A o \in Tasks : o # c => task'[o] = task[o]
  BY DEF MountSwap, MountUnlock, Become, Shapes, TasksOK
<1>3. ~Holds(c)'
  <2>1. CASE MountSwap(c)
    <3>1. task'[c] = Disposing(drv[task[c].drive].backing, IdleTask)
      BY <2>1 DEF MountSwap, Become, Shapes, TasksOK
    <3>2. QED
      BY <3>1, Disposal, IdleState DEF Holds
  <2>2. CASE MountUnlock(c)
    BY <2>2 DEF MountUnlock, Become, IdleTask, Shapes, TasksOK, Holds
  <2>3. QED
    BY <2>1, <2>2
<1>4. \A o \in Tasks : o # c => ~Holds(o)'
  BY <1>1, <1>2 DEF Locked, Holds
<1>5. QED
  BY <1>3, <1>4 DEF Locked

LEMMA LockedMounts ==
  ASSUME Shapes, Locked, NEW c \in Consoles, NEW d \in Drives, NEW url,
         \/ (RemoteConfigure(c, d, url) /\ url \in RemoteImages) \/ MountFails(c, d) \/ UnmountDo(c, d)
         \/ \E img \in LocalImages : MountOpen(c, d, img)
  PROVE  Locked'
<1>1. \A o \in Tasks : o # c => task'[o] = task[o]
  BY DEF RemoteConfigure, MountFails, UnmountDo, Unmount, MountOpen, Become, Shapes, TasksOK
<1>2. CASE mlock = "none" /\ mlock' = c
  <2>1. \A o \in Tasks : ~Holds(o)
    BY <1>2, TaskNames DEF Locked
  <2>2. \A o \in Tasks : o # c => ~Holds(o)'
    BY <1>1, <2>1 DEF Holds
  <2>3. QED
    BY <1>2, <2>2 DEF Locked
<1>3. CASE \/ RemoteConfigure(c, d, url) \/ UnmountDo(c, d)
           \/ (Unmount(c, d, IdleTask) /\ UNCHANGED mlock)
  <2>1. PICK then : /\ task'[c] = Disposing(drv[d].backing, then) /\ then.pc \in {"idle", "connect"}
                    /\ mlock' = mlock
    <3>1. PICK then : Become(c, Disposing(drv[d].backing, then)) /\ then.pc \in {"idle", "connect"} /\ mlock' = mlock
      BY <1>3 DEF RemoteConfigure, UnmountDo, Unmount, IdleTask
    <3>2. QED
      BY <3>1, TaskNames DEF Become, Shapes, TasksOK
  <2>2. ~Holds(c)'
    BY <2>1, Disposal DEF Holds
  <2>3. QED
    BY <1>1, <2>1, <2>2, LockedKept DEF Holds
<1>4. QED
  BY <1>2, <1>3 DEF MountFails, MountOpen

-----------------------------------------------------------------------------
(* The start of the device, and what holds then.                           *)

Booted ==
    /\ \E cfg \in BootConfigs : \E f \in BootBackings(cfg) :
          drv = BootDrives(cfg, f) /\ heap = BootHeap(cfg, f)
    /\ cache = NoCache /\ rq = <<>> /\ worker = IdleWorker /\ task = [c \in Tasks |-> IdleTask]
    /\ mlock = "none" /\ link = FALSE /\ disc = FALSE /\ evt = IdleEvt
    /\ leaked = {} /\ failed = {}

LEMMA BootedCore == Booted /\ Counted => CoreInv
<1> SUFFICES ASSUME Booted, Counted PROVE CoreInv
  OBVIOUS
<1>1. /\ drv \in [Drives -> Slots] /\ heap \in [Backings -> {NoName} \cup OpenFiles]
      /\ \A d \in Drives :
           /\ drv[d].mounted <=> drv[d].backing # NoBacking
           /\ drv[d].remote <=> drv[d].name \in RemoteImages
           /\ ~drv[d].readonly /\ (drv[d].mounted => ~drv[d].remote)
           /\ drv[d].mounted => heap[drv[d].backing] = [img |-> drv[d].name, ro |-> FALSE]
      /\ \A d, e \in Drives : drv[d].backing = drv[e].backing => d = e \/ drv[d].backing = NoBacking
      /\ \A b \in Backings : heap[b] # NoName <=> \E d \in Drives : drv[d].backing = b
  BY BootEffect DEF Booted
<1>2. \A c \in Tasks : task[c] = IdleTask /\ task[c].pc = "idle"
  BY IdleState DEF Booted
<1>3. rq = <<>> /\ Len(rq) = 0 /\ worker.pc = "idle" /\ evt.pc = "idle" /\ leaked = {}
  BY DEF Booted, IdleWorker, IdleEvt
<1>4. Shapes
  <2>1. TasksOK
    BY <1>2, IdleState DEF TasksOK, Booted
  <2>2. WorkerState(worker) /\ EvtState(evt)
    BY <1>3 DEF WorkerState, EvtState
  <2>3. rq \in Seq(AllJobs) /\ Len(rq) <= QueueLen
    BY <1>3, DiskAssumption
  <2>4. mlock \in Consoles \cup {"none"} /\ link \in BOOLEAN /\ disc \in BOOLEAN
        /\ leaked \subseteq Backings /\ failed \subseteq Drives
    BY DEF Booted
  <2>5. QED
    BY <1>1, <2>1, <2>2, <2>3, <2>4 DEF Shapes
<1>5. Awaited
  BY <1>3 DEF Awaited
<1>6. Owned
  <2> SUFFICES ASSUME NEW b \in Backings PROVE OwnedOnce(b)
    BY DEF Owned
  <2>1. heap[b] # NoName <=> InTable(b)
    BY <1>1 DEF InTable
  <2>2. ~Queued(b) /\ OneJob(b)
    BY <1>3 DEF Queued, OneJob
  <2>3. ~Held(b) /\ OneHolder(b)
    BY <1>2 DEF Held, HeldBy, OneHolder
  <2>4. ~WorkerHas(b) /\ ~EvtHas(b) /\ b \notin leaked
    BY <1>3 DEF WorkerHas, EvtHas
  <2>5. OneDrive(b)
    BY <1>1, DiskAssumption DEF OneDrive
  <2>6. QED
    BY <2>1, <2>2, <2>3, <2>4, <2>5 DEF OwnedOnce, OneKind, OwnedSomewhere
<1>7. Table
  <2> SUFFICES ASSUME NEW d \in Drives PROVE SlotTrue(d)
    BY DEF Table
  <2>1. ASSUME drv[d].mounted
        PROVE  heap[drv[d].backing] # NoName /\ heap[drv[d].backing].img = drv[d].name /\ ~heap[drv[d].backing].ro
    <3>1. drv[d].backing \in Backings /\ heap[drv[d].backing] = [img |-> drv[d].name, ro |-> FALSE]
      BY <1>1, <2>1 DEF Slots
    <3>2. heap[drv[d].backing] # NoName
      BY <1>1, <3>1
    <3>3. QED
      BY <3>1, <3>2
  <2>2. QED
    BY <1>1, <2>1 DEF SlotTrue, ImageOf
<1>8. Session
  BY <1>2, <1>3 DEF Session, WorkerSession, OpenedFiles
<1>9. Locked
  BY <1>2 DEF Locked, Holds
<1>10. QED
  BY <1>4, <1>5, <1>6, <1>7, <1>8, <1>9 DEF CoreInv

LEMMA RestartCore == ASSUME CoreInv, Restart PROVE CoreInv'
<1>1. Booted'
  BY DEF Restart, Booted
<1>2. Counted'
  BY DEF CoreInv, Counted, Restart
<1>3. Booted' /\ Counted' => CoreInv'
  BY BootedCore, PTL
<1>4. QED
  BY <1>1, <1>2, <1>3

-----------------------------------------------------------------------------
(* Every step keeps the core invariant.                                    *)

LEMMA CountedStep == ASSUME Counted, [Next]_vars PROVE Counted'
<1>1. written' \in {written, NextWrite} /\ (written' # written => written < MaxWrites)
  <2>1. CASE \E c \in Readers : ReadCall(c)
    BY <2>1 DEF ReadCall, ReadHit, ReadLocal, ReadLocalFails, ReadRemote, history
  <2>2. CASE \E c \in Tasks : CallStep(c)
    BY <2>2 DEF CallStep, PostWait, PostFails, WaitExpires, ReadDone, ReadReturns,
                Dispose, RemoteConnect, MountSwap, MountUnlock, history
  <2>3. CASE WriteCall
    BY <2>3 DEF WriteCall, WriteLocal, WriteLocalFails, WriteRemote
  <2>4. CASE \E c \in Consoles : MountCall(c)
    BY <2>4 DEF MountCall, RemoteConfigure, MountOpen, MountFails, UnmountDo, Unmount, history
  <2>5. CASE Worker
    BY <2>5 DEF Worker, Receive, Lookup, NotReady, FetchTrack, FetchFails, SendTrack, SendFails,
                StoreTrack, DropTrack, WantMount, MountOffline, OpenSession, OpenFails, Install,
                Mismatch, Discard, CloseSession, history
  <2>6. CASE Event
    BY <2>6 DEF Event, LinkLost, OnDisconnected, RemoteUnmountAll, EvtDispose, OnGotIp, ScanDrive,
                ScanPost, history
  <2>7. CASE Restart
    BY <2>7 DEF Restart
  <2>8. CASE UNCHANGED vars
    BY <2>8 DEF vars
  <2>9. QED
    BY <2>1, <2>2, <2>3, <2>4, <2>5, <2>6, <2>7, <2>8 DEF Next
<1>2. QED
  BY <1>1, DiskAssumption DEF Counted, NextWrite

LEMMA CoreQuiet ==
  ASSUME CoreInv, Shapes', Counted', QuietStep, Locked'
  PROVE  CoreInv'
<1>1. Awaited'
  BY AwaitedKept DEF CoreInv, QuietStep, Quiet
<1>2. Owned' /\ Table' /\ Session'
  BY OwnedQuiet, TableKept, SessionQuiet DEF CoreInv, QuietStep
<1>3. QED
  BY <1>1, <1>2 DEF CoreInv

LEMMA CoreReadWrite ==
  ASSUME CoreInv, Counted', NEW c \in Tasks, NEW d \in Drives, NEW r \in Requests,
         \/ ReadHit(c, d, r[1], r[2]) \/ ReadLocal(c, d, r[1], r[2])
         \/ ReadLocalFails(c, d, r[1], r[2]) \/ ReadRemote(c, d, r[1], r[2])
         \/ WriteLocal(d, r[1], r[2]) \/ WriteLocalFails(d, r[1], r[2]) \/ WriteRemote(d, r[1], r[2])
  PROVE  CoreInv'
<1>1. r[1] \in UInt32 /\ r[2] \in UInt32 /\ Shapes /\ Counted /\ Locked
  BY DiskAssumption DEF CoreInv
<1>2. Shapes' /\ QuietStep /\ UNCHANGED mlock
  BY <1>1, ShapesAfterCall, QuietCalls
<1>3. Locked'
  <2>1. \A o \in Tasks : task'[o] = task[o] \/ task'[o].pc \notin {"opened", "unlock", "dispose"}
    <3>1. \/ UNCHANGED task
          \/ \E s : Become(c, s) /\ s.pc \notin {"opened", "unlock", "dispose"}
          \/ \E s : Become("fdc", s) /\ s.pc \notin {"opened", "unlock", "dispose"}
      BY DEF ReadHit, ReadLocal, ReadLocalFails, ReadRemote, WriteLocal, WriteLocalFails, WriteRemote, Copied
    <3>2. QED
      BY <1>1, <3>1 DEF Become, Shapes, TasksOK
  <2>2. QED
    BY <1>1, <1>2, <2>1, LockedSteps
<1>4. QED
  BY <1>2, <1>3, CoreQuiet

LEMMA CoreCallStep == ASSUME CoreInv, Counted', NEW c \in Tasks, CallStep(c) PROVE CoreInv'
<1>1. Shapes /\ Awaited /\ Owned /\ Table /\ Session /\ Locked
  BY DEF CoreInv
<1>2. CASE PostWait(c)
  <2>1. /\ Shapes' /\ task[c].job \in AllJobs /\ task[c].job.by = c
        /\ task'[c] = [pc |-> "wait", job |-> task[c].job]
        /\ \A o \in Tasks : o # c => task'[o] = task[o]
    BY <1>1, <1>2, ShapesPostWait
  <2>2. PICK j : j = task[c].job
    OBVIOUS
  <2>3. /\ task[c].pc = "post" /\ rq' = Append(rq, j)
        /\ UNCHANGED <<drv, heap, worker, leaked, evt>>
    BY <1>2, <2>2 DEF PostWait, table, files, wifi, history
  <2>4. j \in AllJobs /\ j.by = c /\ j.type # "CLOSE"
    <3>1. j \in IoJobs \cup MountJobs
      BY <1>1, <2>2, <2>3 DEF Shapes, TasksOK, TaskState
    <3>2. QED
      BY <2>1, <2>2, <3>1 DEF IoJobs, MountJobs
  <2>5. Awaited'
    BY <1>1, <2>1, <2>3, <2>4, AwaitedPosted
  <2>6. Owned'
    BY <1>1, <2>1, <2>3, <2>4, OwnedPosted
  <2>7. Table' /\ Session'
    BY <1>1, <2>1, <2>3, TableKept, SessionSteps
  <2>8. Locked'
    BY <1>1, <1>2, LockedCallSteps
  <2>9. QED
    BY <2>1, <2>5, <2>6, <2>7, <2>8 DEF CoreInv
<1>3. CASE WaitExpires(c)
  <2>1. Table'
    BY <1>1, <1>3, TableKept DEF WaitExpires, table, files
  <2>2. QED
    BY <1>1, <1>3, <2>1, ShapesCallStep, AwaitedExpires, OwnedExpires, SessionExpires, LockedCallSteps DEF CoreInv
<1>4. CASE PostFails(c) \/ ReadDone(c) \/ ReadReturns(c) \/ RemoteConnect(c) \/ MountUnlock(c)
  BY <1>1, <1>4, ShapesCallStep, QuietCallSteps, LockedCallSteps, LockedReleased, CoreQuiet
<1>5. CASE Dispose(c)
  <2>1. Shapes' /\ Owned' /\ Table' /\ Session' /\ Locked'
    BY <1>1, <1>5, ShapesDispose, OwnedDisposed, TableDisposed, SessionDisposed, LockedCallSteps
  <2>2. Awaited'
    <3>1. /\ task[c].pc = "dispose" /\ task[c].b \in Backings /\ worker' = worker
          /\ \A o \in Tasks : o # c => task'[o] = task[o]
          /\ rq' = rq \/ HandToWorker(task[c].b)
      BY <1>1, <1>5, DisposeEffect
    <3>2. \A o \in Tasks : task[o].pc = "wait" => task'[o].pc = "wait"
      BY <3>1
    <3>3. rq' = rq \/ (rq' = Append(rq, CloseJob(task[c].b)) /\ CloseJob(task[c].b) \in AllJobs)
      BY <1>1, <3>1, HandEffect
    <3>4. CloseJob(task[c].b).by = "none"
      BY DEF CloseJob
    <3>5. QED
      BY <1>1, <3>1, <3>2, <3>3, <3>4, AwaitedKept, AwaitedPosted
  <2>3. QED
    BY <2>1, <2>2 DEF CoreInv
<1>6. CASE MountSwap(c)
  <2>1. Shapes' /\ Owned' /\ Table' /\ Locked'
    BY <1>1, <1>6, ShapesMountSwap, OwnedSwapped, TableSwapped, LockedReleased
  <2>2. /\ TakeStep(c, task[c].drive) /\ task[c].pc = "opened"
        /\ (task'[c].pc = "dispose" \/ Quiet(task'[c].pc))
    BY <1>1, <1>6, SwapEffect DEF TakeStep
  <2>3. Awaited'
    BY <1>1, <2>2, AwaitedKept DEF TakeStep
  <2>4. Session'
    BY <1>1, <2>2, SessionSteps DEF TakeStep, Quiet
  <2>5. QED
    BY <2>1, <2>3, <2>4 DEF CoreInv
<1>7. QED
  BY <1>2, <1>3, <1>4, <1>5, <1>6 DEF CallStep

LEMMA CoreMountCall == ASSUME CoreInv, Counted', NEW c \in Consoles, MountCall(c) PROVE CoreInv'
<1>1. Shapes /\ Awaited /\ Owned /\ Table /\ Session /\ Locked /\ c \in Tasks
  BY TaskNames DEF CoreInv
<1>2. PICK d \in Drives :
        \/ \E url \in RemoteImages : RemoteConfigure(c, d, url)
        \/ \E img \in LocalImages : MountOpen(c, d, img)
        \/ MountFails(c, d) \/ UnmountDo(c, d)
  BY DEF MountCall
<1>3. ASSUME NEW img \in LocalImages, MountOpen(c, d, img)
      PROVE  CoreInv'
  <2>1. PICK n \in Backings :
           /\ heap[n] = NoName /\ heap'[n] = [img |-> img, ro |-> FALSE]
           /\ \A x \in Backings : x # n => heap'[x] = heap[x]
           /\ task[c].pc = "idle" /\ task'[c] = [pc |-> "opened", b |-> n, drive |-> d, img |-> img]
           /\ \A o \in Tasks : o # c => task'[o] = task[o]
           /\ UNCHANGED <<drv, rq, worker, evt, leaked, disc, link>> /\ mlock = "none" /\ mlock' = c
    BY <1>1, <1>3, OpenEffect
  <2>2. Awaited' /\ Table'
    BY <1>1, <2>1, AwaitedKept, TableOpening
  <2>3. Shapes' /\ Owned' /\ Session'
    BY <1>1, <1>3, ShapesMountOpen, OwnedOpened, SessionOpened
  <2>4. Locked'
    BY <1>1, <1>3, LockedMounts
  <2>5. QED
    BY <2>2, <2>3, <2>4 DEF CoreInv
<1>4. ASSUME NEW url, (RemoteConfigure(c, d, url) /\ url \in RemoteImages) \/ MountFails(c, d) \/ UnmountDo(c, d)
      PROVE  CoreInv'
  <2>1. /\ TakeStep(c, d) /\ task[c].pc = "idle" /\ drv'[d].backing = NoBacking
        /\ drv'[d] = EmptySlot \/ \E u \in RemoteImages : drv'[d] = RemoteSlot(u)
    BY <1>1, <1>4, TakeSteps, TakenSlot
  <2>2. Shapes' /\ Locked'
    BY <1>1, <1>4, ShapesRemoteConfigure, ShapesUnmount, LockedMounts
  <2>3. Owned'
    BY <1>1, <2>1, OwnedTaken
  <2>4. Table'
    BY <1>1, <2>1, TableTaken DEF TakeStep
  <2>5. /\ UNCHANGED <<heap, rq, worker>> /\ \A o \in Tasks : o # c => task'[o] = task[o]
        /\ task'[c].pc # "opened"
    BY <2>1 DEF TakeStep, Quiet
  <2>6. Awaited' /\ Session'
    BY <1>1, <2>1, <2>5, AwaitedKept, SessionSteps
  <2>7. QED
    BY <2>2, <2>3, <2>4, <2>6 DEF CoreInv
<1>5. QED
  BY <1>2, <1>3, <1>4

LEMMA CoreWorker == ASSUME CoreInv, Counted', Worker PROVE CoreInv'
<1>1. Shapes /\ Awaited /\ Owned /\ Table /\ Session /\ Locked
  BY DEF CoreInv
<1>2. CASE Receive
  <2>1. UNCHANGED <<drv, heap, task, mlock>>
    BY <1>2 DEF Receive, table, files
  <2>2. Table' /\ Locked'
    BY <1>1, <2>1, TableKept, LockedSteps
  <2>3. QED
    BY <1>1, <1>2, <2>2, ShapesReceive, AwaitedReceived, OwnedReceived, SessionReceived DEF CoreInv
<1>3. ASSUME EndStep, mlock' = mlock
      PROVE  Awaited' /\ Locked'
  <2>1. \A c \in Tasks : task'[c] = task[c] \/ task'[c].pc \notin {"opened", "unlock", "dispose"}
    BY <1>3 DEF EndStep
  <2>2. QED
    BY <1>1, <1>3, <2>1, AwaitedEnd, LockedSteps
<1>4. CASE \/ NotReady \/ FetchFails \/ StoreTrack \/ DropTrack
           \/ (WantMount /\ ~WantsSession(worker.job.drive)) \/ MountOffline \/ OpenFails
  <2>1. EndStep
    BY <1>1, <1>4, EndSteps
  <2>2. UNCHANGED <<drv, heap, mlock>>
    BY <1>4 DEF NotReady, FetchFails, StoreTrack, DropTrack, WantMount, MountOffline, OpenFails, table, files
  <2>3. worker.pc \notin {"install", "discard"} /\ (worker.pc = "got" => worker.job.type # "CLOSE")
    BY <1>4 DEF NotReady, FetchFails, StoreTrack, DropTrack, WantMount, MountOffline, OpenFails, Usable
  <2>4. Owned' /\ Table' /\ Session'
    BY <1>1, <2>1, <2>2, <2>3, OwnedEnd, TableKept, SessionEnd
  <2>5. Shapes'
    BY <1>1, <1>4, ShapesTrackIo, ShapesSessions
  <2>6. QED
    BY <1>3, <2>1, <2>2, <2>4, <2>5 DEF CoreInv
<1>5. CASE \/ Lookup \/ FetchTrack \/ SendTrack \/ SendFails
           \/ (WantMount /\ WantsSession(worker.job.drive)) \/ Mismatch
  <2>1. GoOnStep /\ Session' /\ heap' = heap
    BY <1>1, <1>5, GoOnSteps, SessionGoesOn
  <2>2. UNCHANGED <<drv, mlock>>
    BY <1>5 DEF Lookup, FetchTrack, SendTrack, SendFails, WantMount, Mismatch, table
  <2>3. Shapes'
    BY <1>1, <1>5, ShapesTrackIo, ShapesSessions
  <2>4. Awaited' /\ Table' /\ Locked'
    BY <1>1, <2>1, <2>2, AwaitedGoOn, TableKept, LockedSteps DEF GoOnStep
  <2>5. /\ worker.pc = "got" => worker.job.type # "CLOSE"
        /\ \/ worker.pc = "install" /\ worker'.pc = "discard" /\ worker'.b = worker.b
           \/ worker.pc \notin {"install", "discard"} /\ worker'.pc \notin {"got", "install", "discard"}
    <3>1. CASE Lookup \/ SendFails \/ (WantMount /\ WantsSession(worker.job.drive))
      <4>1. /\ worker.pc \notin {"install", "discard"}
            /\ worker.pc = "got" => worker.job.type # "CLOSE"
        BY <3>1 DEF Lookup, SendFails, WantMount, Usable
      <4>2. worker'.pc \in {"picked", "drop", "want"}
        <5>1. CASE Lookup
          BY <5>1 DEF Lookup, Continue, Work
        <5>2. CASE SendFails
          BY <5>2 DEF SendFails, Continue, Work
        <5>3. CASE WantMount /\ WantsSession(worker.job.drive)
          BY <5>3 DEF WantMount, Continue, Work
        <5>4. QED
          BY <3>1, <5>1, <5>2, <5>3
      <4>3. QED
        BY <4>1, <4>2
    <3>2. CASE FetchTrack \/ SendTrack
      <4>1. worker.pc = "picked" /\ \E data :
              worker' = [pc |-> "store", job |-> worker.job, b |-> worker.b, data |-> data]
        BY <3>2 DEF FetchTrack, SendTrack, Continue, Work, Usable
      <4>2. QED
        BY <4>1
    <3>3. CASE Mismatch
      BY <1>1, <3>3 DEF Mismatch, Continue, Work, Shapes, WorkerState
    <3>4. QED
      BY <1>5, <3>1, <3>2, <3>3
  <2>6. Owned'
    BY <1>1, <2>1, <2>2, <2>5, OwnedGoOn
  <2>7. QED
    BY <2>1, <2>3, <2>4, <2>6 DEF CoreInv
<1>6. CASE OpenSession
  <2>1. GoOnStep /\ Shapes' /\ Owned' /\ Session'
    BY <1>1, <1>6, GoOnSteps, ShapesSessions, OwnedSession, SessionStarted
  <2>2. PICK n \in Backings :
           /\ heap[n] = NoName /\ heap'[n].img = worker.url /\ heap'[n] \in OpenFiles
           /\ \A x \in Backings : x # n => heap'[x] = heap[x]
           /\ worker.pc = "want" /\ worker.url \in RemoteImages
           /\ worker' = [pc |-> "install", job |-> worker.job, url |-> worker.url, b |-> n]
           /\ UNCHANGED <<drv, task, mlock, link, disc>>
    BY <1>1, <1>6, SessionOpenEffect
  <2>3. Awaited' /\ Table' /\ Locked'
    BY <1>1, <2>1, <2>2, AwaitedGoOn, TableOpening, LockedSteps
  <2>4. QED
    BY <2>1, <2>3 DEF CoreInv
<1>7. CASE Install
  <2>1. EndStep /\ Shapes' /\ Owned' /\ Table'
    BY <1>1, <1>7, EndSteps, ShapesSessions, OwnedInstalled, TableInstalled
  <2>2. heap' = heap /\ mlock' = mlock
    BY <1>7 DEF Install, files
  <2>3. QED
    BY <1>1, <1>3, <2>1, <2>2, SessionEnd DEF CoreInv
<1>8. CASE Discard \/ CloseSession
  <2>1. EndStep /\ Shapes' /\ Owned' /\ Table' /\ Session'
    BY <1>1, <1>8, EndSteps, ShapesSessions, OwnedClosed, TableClosed, SessionClosed
  <2>2. mlock' = mlock
    BY <1>8 DEF Discard, CloseSession
  <2>3. QED
    BY <1>3, <2>1, <2>2 DEF CoreInv
<1>9. QED
  BY <1>2, <1>4, <1>5, <1>6, <1>7, <1>8 DEF Worker

LEMMA CoreEvent == ASSUME CoreInv, Counted', Event PROVE CoreInv'
<1>1. Shapes /\ Awaited /\ Owned /\ Table /\ Session /\ Locked
  BY DEF CoreInv
<1>2. Shapes' /\ UNCHANGED <<heap, worker, task, mlock>>
  <2>1. UNCHANGED <<heap, worker, task, mlock>>
    BY DEF Event, LinkLost, OnDisconnected, RemoteUnmountAll, EvtDispose, OnGotIp, ScanDrive, ScanPost,
           files, jobs
  <2>2. QED
    BY <1>1, <2>1, ShapesEvent
<1>3. Session' /\ Locked'
  BY <1>1, <1>2, SessionSteps, LockedSteps
<1>4. CASE LinkLost \/ OnDisconnected \/ OnGotIp \/ ScanDrive
  <2>1. UNCHANGED <<drv, rq, leaked>> /\ (evt' = evt \/ (evt.pc # "dispose" /\ evt'.pc # "dispose"))
    <3>1. UNCHANGED <<drv, rq, leaked>>
      BY <1>4 DEF LinkLost, OnDisconnected, OnGotIp, ScanDrive, table, jobs, history
    <3>2. evt' = evt \/ (evt.pc # "dispose" /\ evt'.pc # "dispose")
      BY <1>4 DEF LinkLost, OnDisconnected, OnGotIp, ScanDrive, Scanning, IdleEvt
    <3>3. QED
      BY <3>1, <3>2
  <2>2. QED
    BY <1>1, <1>2, <1>3, <2>1, AwaitedKept, OwnedEventQuiet, TableKept DEF CoreInv
<1>5. CASE RemoteUnmountAll
  <2>1. rq' = rq
    BY <1>5 DEF RemoteUnmountAll, jobs
  <2>2. QED
    BY <1>1, <1>2, <1>3, <1>5, <2>1, AwaitedKept, OwnedUnmountAll, TableUnmountAll DEF CoreInv
<1>6. CASE EvtDispose
  <2>1. PICK h \in Backings : HandToWorker(h)
    BY <1>1, <1>6 DEF EvtDispose, Shapes, EvtState
  <2>2. rq' = rq \/ (rq' = Append(rq, CloseJob(h)) /\ CloseJob(h) \in AllJobs)
    BY <1>1, <2>1, HandEffect
  <2>3. CloseJob(h).by = "none"
    BY DEF CloseJob
  <2>4. Awaited'
    BY <1>1, <1>2, <2>2, <2>3, AwaitedKept, AwaitedPosted
  <2>5. drv' = drv
    BY <1>6 DEF EvtDispose, table
  <2>6. QED
    BY <1>1, <1>2, <1>3, <1>6, <2>4, <2>5, OwnedEvtDispose, TableKept DEF CoreInv
<1>7. CASE ScanPost
  <2>1. UNCHANGED <<drv, leaked>> /\ evt.pc = "post" /\ evt'.pc # "dispose" /\ evt.drive \in Drives
    BY <1>1, <1>7 DEF ScanPost, table, Scanning, IdleEvt, Shapes, EvtState
  <2>2. PICK j : j = MountJob("none", evt.drive)
    OBVIOUS
  <2>3. j \in AllJobs /\ j.type = "MOUNT" /\ j.by = "none"
    BY <2>1, <2>2 DEF MountJob, Job, AllJobs, MountJobs
  <2>4. CASE rq' = Append(rq, j)
    BY <1>1, <1>2, <1>3, <2>1, <2>3, <2>4, AwaitedPosted, OwnedPosted, TableKept DEF CoreInv
  <2>5. CASE rq' = rq
    BY <1>1, <1>2, <1>3, <2>1, <2>5, AwaitedKept, OwnedEventQuiet, TableKept DEF CoreInv
  <2>6. QED
    BY <1>7, <2>2, <2>4, <2>5 DEF ScanPost
<1>8. QED
  BY <1>4, <1>5, <1>6, <1>7 DEF Event

LEMMA CoreStep == ASSUME CoreInv, [Next]_vars PROVE CoreInv'
<1>1. Counted'
  BY CountedStep DEF CoreInv
<1>2. CASE \E c \in Readers : ReadCall(c)
  BY <1>1, <1>2, TaskNames, CoreReadWrite DEF ReadCall
<1>3. CASE \E c \in Tasks : CallStep(c)
  BY <1>1, <1>3, CoreCallStep
<1>4. CASE WriteCall
  BY <1>1, <1>4, TaskNames, CoreReadWrite DEF WriteCall
<1>5. CASE \E c \in Consoles : MountCall(c)
  BY <1>1, <1>5, CoreMountCall
<1>6. CASE Worker
  BY <1>1, <1>6, CoreWorker
<1>7. CASE Event
  BY <1>1, <1>7, CoreEvent
<1>8. CASE Restart
  BY <1>8, RestartCore
<1>9. CASE UNCHANGED vars
  <2>1. QuietStep /\ Shapes' /\ Locked'
    BY <1>9 DEF QuietStep, vars, CoreInv, Shapes, TasksOK, Locked, Holds
  <2>2. QED
    BY <1>1, <2>1, CoreQuiet
<1>10. QED
  BY <1>2, <1>3, <1>4, <1>5, <1>6, <1>7, <1>8, <1>9 DEF Next

LEMMA CoreInvariant == Spec => []CoreInv
<1>1. Init => CoreInv
  <2> SUFFICES ASSUME Init PROVE CoreInv
    OBVIOUS
  <2>1. Booted /\ Counted
    BY DiskAssumption DEF Init, Booted, Counted
  <2>2. QED
    BY <2>1, BootedCore
<1>2. CoreInv /\ [Next]_vars => CoreInv'
  BY CoreStep
<1>3. QED
  BY <1>1, <1>2, PTL DEF Spec

-----------------------------------------------------------------------------
(* Theorems.                                                               *)

LEMMA SetOfOwners ==
  ASSUME NEW b, OwnedOnce(b)
  PROVE  /\ ~OwnedSomewhere(b) => Owners(b) = {}
         /\ OwnedSomewhere(b) => \E x : Owners(b) = {x}
<1> DEFINE T == {<<"table", d>> : d \in {x \in Drives : drv[x].backing = b}}
           Q == {<<"queue", i>> : i \in {x \in 1..Len(rq) : rq[x].type = "CLOSE" /\ rq[x].bclose = b}}
           H == {<<"task", c>> : c \in {x \in Tasks : task[x].pc \in {"opened", "dispose"} /\ task[x].b = b}}
           C == IF worker.pc = "got" /\ worker.job.type = "CLOSE" /\ worker.job.bclose = b
                THEN {<<"worker", "close">>} ELSE {}
           O == IF worker.pc \in {"install", "discard"} /\ worker.b = b
                THEN {<<"worker", "open">>} ELSE {}
           V == IF evt.pc = "dispose" /\ b \in evt.close THEN {<<"evt", "close">>} ELSE {}
           L == IF b \in leaked THEN {<<"leaked", b>>} ELSE {}
<1>1. Owners(b) = T \cup Q \cup H \cup C \cup O \cup V \cup L
  BY DEF Owners
<1>2. /\ ~InTable(b) => T = {}
      /\ InTable(b) => \E x : T = {x}
  <2>1. ~InTable(b) => T = {}
    BY DEF InTable
  <2>2. ASSUME NEW d \in Drives, drv[d].backing = b
        PROVE  T = {<<"table", d>>}
    <3>1. {x \in Drives : drv[x].backing = b} = {d}
      BY <2>2 DEF OwnedOnce, OneDrive
    <3>2. QED
      BY <3>1
  <2>3. QED
    BY <2>1, <2>2 DEF InTable
<1>3. /\ ~Queued(b) => Q = {}
      /\ Queued(b) => \E x : Q = {x}
  <2>1. ~Queued(b) => Q = {}
    BY DEF Queued, QueuedAt
  <2>2. ASSUME NEW i \in 1 .. Len(rq), QueuedAt(b, i)
        PROVE  Q = {<<"queue", i>>}
    <3>1. {x \in 1..Len(rq) : rq[x].type = "CLOSE" /\ rq[x].bclose = b} = {i}
      BY <2>2 DEF OwnedOnce, OneJob, QueuedAt
    <3>2. QED
      BY <3>1
  <2>3. QED
    BY <2>1, <2>2 DEF Queued
<1>4. /\ ~Held(b) => H = {}
      /\ Held(b) => \E x : H = {x}
  <2>1. ~Held(b) => H = {}
    BY DEF Held, HeldBy
  <2>2. ASSUME NEW c \in Tasks, HeldBy(b, c)
        PROVE  H = {<<"task", c>>}
    <3>1. {x \in Tasks : task[x].pc \in {"opened", "dispose"} /\ task[x].b = b} = {c}
      BY <2>2 DEF OwnedOnce, OneHolder, HeldBy
    <3>2. QED
      BY <3>1
  <2>3. QED
    BY <2>1, <2>2 DEF Held
<1>5. /\ ~WorkerHas(b) => C = {} /\ O = {}
      /\ WorkerHas(b) => \E x : C \cup O = {x}
  BY DEF WorkerHas
<1>6. /\ ~EvtHas(b) => V = {}
      /\ EvtHas(b) => \E x : V = {x}
  BY DEF EvtHas
<1>7. /\ b \notin leaked => L = {}
      /\ b \in leaked => \E x : L = {x}
  OBVIOUS
<1> HIDE DEF T, Q, H, C, O, V, L
<1>8. ~OwnedSomewhere(b) => Owners(b) = {}
  BY <1>1, <1>2, <1>3, <1>4, <1>5, <1>6, <1>7 DEF OwnedSomewhere
<1>9. OneKind(b)
  BY DEF OwnedOnce
<1>10. CASE InTable(b)
  <2>1. Q = {} /\ H = {} /\ C = {} /\ O = {} /\ V = {} /\ L = {}
    BY <1>3, <1>4, <1>5, <1>6, <1>7, <1>9, <1>10 DEF OneKind
  <2>2. Owners(b) = T
    BY <1>1, <2>1
  <2>3. QED
    BY <1>2, <1>10, <2>2 DEF OwnedSomewhere
<1>11. CASE Queued(b)
  <2>1. T = {} /\ H = {} /\ C = {} /\ O = {} /\ V = {} /\ L = {}
    BY <1>2, <1>4, <1>5, <1>6, <1>7, <1>9, <1>11 DEF OneKind
  <2>2. Owners(b) = Q
    BY <1>1, <2>1
  <2>3. QED
    BY <1>3, <1>11, <2>2 DEF OwnedSomewhere
<1>12. CASE Held(b)
  <2>1. T = {} /\ Q = {} /\ C = {} /\ O = {} /\ V = {} /\ L = {}
    BY <1>2, <1>3, <1>5, <1>6, <1>7, <1>9, <1>12 DEF OneKind
  <2>2. Owners(b) = H
    BY <1>1, <2>1
  <2>3. QED
    BY <1>4, <1>12, <2>2 DEF OwnedSomewhere
<1>13. CASE WorkerHas(b)
  <2>1. T = {} /\ Q = {} /\ H = {} /\ V = {} /\ L = {}
    BY <1>2, <1>3, <1>4, <1>6, <1>7, <1>9, <1>13 DEF OneKind
  <2>2. Owners(b) = C \cup O
    BY <1>1, <2>1
  <2>3. QED
    BY <1>5, <1>13, <2>2 DEF OwnedSomewhere
<1>14. CASE EvtHas(b)
  <2>1. T = {} /\ Q = {} /\ H = {} /\ C = {} /\ O = {} /\ L = {}
    BY <1>2, <1>3, <1>4, <1>5, <1>7, <1>9, <1>14 DEF OneKind
  <2>2. Owners(b) = V
    BY <1>1, <2>1
  <2>3. QED
    BY <1>6, <1>14, <2>2 DEF OwnedSomewhere
<1>15. CASE b \in leaked
  <2>1. T = {} /\ Q = {} /\ H = {} /\ C = {} /\ O = {} /\ V = {}
    BY <1>2, <1>3, <1>4, <1>5, <1>6, <1>9, <1>15 DEF OneKind
  <2>2. Owners(b) = L
    BY <1>1, <2>1
  <2>3. QED
    BY <1>7, <1>15, <2>2 DEF OwnedSomewhere
<1>16. QED
  BY <1>8, <1>10, <1>11, <1>12, <1>13, <1>14, <1>15 DEF OwnedSomewhere

(* An open image file or session has exactly one owner that will close it, *)
(* and a closed one has none, whatever the tasks do (disk.c, the           *)
(* disk_backing_t passed between s_drv, the callers, the queue, the worker *)
(* and the WiFi-down hook).                                                *)
THEOREM OneOwner == Spec => []BackingOwnedOnce
<1>1. CoreInv => BackingOwnedOnce
  <2> SUFFICES ASSUME CoreInv, NEW b \in Backings
               PROVE  Cardinality(Owners(b)) = (IF heap[b] = NoName THEN 0 ELSE 1)
    BY DEF BackingOwnedOnce
  <2>1. OwnedOnce(b)
    BY DEF CoreInv, Owned
  <2>2. CASE heap[b] = NoName
    <3>1. Owners(b) = {}
      BY <2>1, <2>2, SetOfOwners DEF OwnedOnce
    <3>2. QED
      BY <2>2, <3>1, FS_EmptySet
  <2>3. CASE heap[b] # NoName
    <3>1. PICK x : Owners(b) = {x}
      BY <2>1, <2>3, SetOfOwners DEF OwnedOnce
    <3>2. QED
      BY <2>3, <3>1, FS_Singleton
  <2>4. QED
    BY <2>2, <2>3
<1>2. QED
  BY <1>1, CoreInvariant, PTL

(* A drive is ready iff it has a backing, and that backing is open on the  *)
(* image and with the access mode that the slot of s_drv records.          *)
THEOREM MountTableTrue == Spec => []TableMatchesBacking
<1>1. CoreInv => TableMatchesBacking
  BY DEF CoreInv, Table, SlotTrue, TableMatchesBacking
<1>2. QED
  BY <1>1, CoreInvariant, PTL

(* The session that worker_read or worker_write uses without s_lock is     *)
(* open throughout, and is a session of a remote image.                    *)
THEOREM NoIoOnClosedSession == Spec => []WorkerSessionOpen
<1>1. CoreInv => WorkerSessionOpen
  BY DEF CoreInv, Session, WorkerSession, WorkerSessionOpen
<1>2. QED
  BY <1>1, CoreInvariant, PTL

(* The steps that change an image.                                         *)
LEMMA StoreMoves ==
  ASSUME [Next]_vars, store' # store
  PROVE  \/ \E d \in Drives, r \in Requests : WriteLocal(d, r[1], r[2]) \/ WriteLocalFails(d, r[1], r[2])
         \/ SendTrack \/ SendFails
<1>1. ~(\E c \in Readers : ReadCall(c))
  <2>1. \A c, d, t, l : ReadHit(c, d, t, l) \/ ReadLocalFails(c, d, t, l) \/ ReadRemote(c, d, t, l) => store' = store
    BY DEF ReadHit, ReadLocalFails, ReadRemote, files
  <2>2. \A c, d, t, l : ReadLocal(c, d, t, l) => store' = store
    BY DEF ReadLocal, files
  <2>3. QED
    BY <2>1, <2>2 DEF ReadCall
<1>2. ~(\E c \in Tasks : CallStep(c))
  BY DEF CallStep, PostWait, PostFails, WaitExpires, ReadDone, ReadReturns,
         Dispose, RemoteConnect, MountSwap, MountUnlock, files
<1>3. ~(\E c \in Consoles : MountCall(c))
  BY DEF MountCall, RemoteConfigure, MountOpen, MountFails, UnmountDo, Unmount, files
<1>4. ~Event /\ ~Restart /\ vars' # vars
  BY DEF Event, LinkLost, OnDisconnected, RemoteUnmountAll, EvtDispose, OnGotIp, ScanDrive, ScanPost,
         Restart, vars, files
<1>5. Worker => SendTrack \/ SendFails
  BY DEF Worker, Receive, Lookup, NotReady, FetchTrack, FetchFails,
         StoreTrack, DropTrack, WantMount, MountOffline, OpenSession, OpenFails, Install,
         Mismatch, Discard, CloseSession, files
<1>6. WriteCall => \E d \in Drives, r \in Requests : WriteLocal(d, r[1], r[2]) \/ WriteLocalFails(d, r[1], r[2])
  BY DEF WriteCall, WriteRemote, files
<1>7. QED
  BY <1>1, <1>2, <1>3, <1>4, <1>5, <1>6 DEF Next

(* No step of any task writes to a remote image but the worker's own, on a *)
(* session that was opened read-write (worker_write checks the flag that   *)
(* the mount of this very session has set).                                *)
THEOREM NoWriteToReadOnly == Spec => ReadOnlyNeverWritten
<1>1. ASSUME CoreInv, [Next]_vars
      PROVE  \A img \in RemoteImages :
                store'[img] # store[img] => ImageOf(worker.b) = img /\ ~heap[worker.b].ro
  <2> SUFFICES ASSUME NEW img \in RemoteImages, store'[img] # store[img]
               PROVE  ImageOf(worker.b) = img /\ ~heap[worker.b].ro
    OBVIOUS
  <2>1. CASE SendTrack \/ SendFails
    <3>1. Usable("WRITE") /\ \E cells : store' = WriteCells(ImageOf(worker.b), cells, worker.job.n)
      BY <2>1 DEF SendTrack, SendFails
    <3>2. ImageOf(worker.b) = img
      BY <3>1 DEF WriteCells
    <3>3. ~heap[worker.b].ro
      BY <1>1, <3>1 DEF Usable, CoreInv, Session, WorkerSession
    <3>4. QED
      BY <3>2, <3>3
  <2>2. ASSUME NEW d \in Drives, NEW r \in Requests, WriteLocal(d, r[1], r[2]) \/ WriteLocalFails(d, r[1], r[2])
        PROVE  FALSE
    <3>1. /\ drv[d].mounted /\ ~drv[d].remote
          /\ \E cells : store' = WriteCells(ImageOf(drv[d].backing), cells, NextWrite)
      BY <2>2 DEF WriteLocal, WriteLocalFails, check_track
    <3>2. ImageOf(drv[d].backing) \notin RemoteImages
      BY <1>1, <3>1 DEF CoreInv, Table, SlotTrue
    <3>3. store'[img] = store[img]
      BY <3>1, <3>2 DEF WriteCells
    <3>4. QED
      BY <3>3
  <2>3. QED
    BY <1>1, <2>1, <2>2, StoreMoves
<1>2. CoreInv /\ [Next]_vars =>
        [\A img \in RemoteImages :
           store'[img] # store[img] => /\ ImageOf(worker.b) = img
                                       /\ ~heap[worker.b].ro]_vars
  BY <1>1
<1>3. QED
  BY <1>2, CoreInvariant, PTL DEF Spec, ReadOnlyNeverWritten

=============================================================================
