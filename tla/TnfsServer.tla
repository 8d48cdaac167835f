----------------------------- MODULE TnfsServer -----------------------------
(***************************************************************************)
(* The TNFS server of the device (src/src/net/tnfs_server.c): one task     *)
(* that serves the SD card to a few clients over UDP.                      *)
(*                                                                         *)
(* A handler h_* is an operator that yields the outcomes of a request: the *)
(* session, the descriptors and the card after it, and the body of the     *)
(* reply. A path is a sequence of names; the FAT file system and its       *)
(* descriptors are modelled from how the handlers use them.                *)
(***************************************************************************)
EXTENDS TnfsNet, Integers, FiniteSets, TLC

CONSTANTS
    Peers,        \* the clients' sockets
    Seqs,         \* the sequence numbers that desktop clients use
    Requests,     \* the requests that desktop clients send
    Slots,        \* the session slots, TNFSD_MAX_SESSIONS of them
    FileSlots,    \* file slots of a session, 0 .. TNFSD_MAX_FILES - 1
    DirSlots,     \* directory slots of a session, 0 .. TNFSD_MAX_DIRS - 1
    SidLimit,     \* session ids are modulo SidLimit (2^16 in the code)
    Fds,          \* descriptors of the VFS; 0 belongs to the console
    CardPaths,    \* the paths that can exist on the card
    Images,       \* the paths the console may mount on a drive
    Card,         \* the card at boot
    Dotfiles,     \* names that start with a dot
    EntrySize,    \* EntrySize[n]: bytes of name n in a READDIRX reply
    BodyCap,      \* bytes of entries that fit a READDIRX reply
    Room,         \* bound on the cells of a file: then the card is full
    IoFaults      \* whether card operations may fail

Paths == Seq(STRING)
Nodes == [kind : {"absent", "dir", "file"}, data : Seq(Nat)]

(* On a card, what exists lies in folders. *)
IsTree(card) ==
    \A p \in CardPaths : card[p].kind # "absent" =>
        \A n \in 1 .. Len(p) - 1 : card[SubSeq(p, 1, n)].kind = "dir"

ASSUME ServerAssumption ==
    /\ Slots \subseteq Nat /\ Slots # {} /\ IsFiniteSet(Slots)
    /\ FileSlots \subseteq Nat /\ FileSlots # {} /\ DirSlots \subseteq Nat
    /\ SidLimit \in Nat /\ Cardinality(Slots) < SidLimit
    /\ Fds \subseteq Nat /\ 0 \in Fds

ASSUME CardAssumption ==
    /\ CardPaths \subseteq Paths \ {<<>>} /\ Images \subseteq CardPaths
    /\ \A p \in CardPaths : \A n \in 1 .. Len(p) : SubSeq(p, 1, n) \in CardPaths
    /\ Card \in [CardPaths -> Nodes] /\ IsTree(Card)

ASSUME RequestsAssumption ==
    \A r \in Requests :
        /\ "cmd" \in DOMAIN r
        /\ r.cmd \in {"MOUNT", "OPEN", "MKDIR", "RMDIR", "UNLINK", "RENAME"} =>
               "path" \in DOMAIN r /\ r.path \in Paths
        /\ r.cmd = "RENAME" => "path2" \in DOMAIN r /\ r.path2 \in Paths
        /\ r.cmd = "WRITE" => "data" \in DOMAIN r /\ r.data \in Nat
        /\ r.cmd = "LSEEK" => "off" \in DOMAIN r /\ r.off \in Int

Chunk == 1   \* TNFS_IO_CHUNK, in cells
NoFd == -1
NoPeer == "0.0.0.0:0"

VARIABLES
    up,       \* net_is_connected()
    serving,  \* the task: "boot", "waiting" for the link, or "serving"
    sess,     \* s_sessions
    expired,  \* slots that have been idle for TNFSD_IDLE_US
    next_sid, \* s_next_sid
    vfs,      \* the open descriptors
    fs,       \* the card
    images    \* the paths that are mounted on drives

serverVars == <<up, serving, sess, expired, next_sid, vfs, fs, images>>

Absent == [kind |-> "absent", data |-> <<>>]
Dir == [kind |-> "dir", data |-> <<>>]
File(data) == [kind |-> "file", data |-> data]

NoReply == [seq |-> -1, cmd |-> "none", body |-> [status |-> "none"]]
FreeDir == [in_use |-> FALSE]

(* A slot after memset(0) with its descriptors set to -1. *)
Blank == [in_use |-> FALSE, sid |-> 0, peer |-> NoPeer, root |-> <<>>,
          files |-> [i \in FileSlots |-> NoFd],
          dirs |-> [i \in DirSlots |-> FreeDir],
          reply |-> NoReply]

(***************************************************************************)
(* The VFS (external).                                                     *)
(***************************************************************************)
Unused == [path |-> <<>>, pos |-> 0, mode |-> "none", append |-> FALSE]
Stdin == [path |-> <<"console">>, pos |-> 0, mode |-> "rd", append |-> FALSE]

IsOpen(v, fd) == v[fd] # Unused
CloseAll(v, fds) == [fd \in Fds |-> IF fd \in fds THEN Unused ELSE v[fd]]

(* The root always exists; CardPaths bounds what can be created. *)
Kind(p) == IF p = <<>> THEN "dir" ELSE IF p \in CardPaths THEN fs[p].kind ELSE "absent"
ParentIsDir(p) == p \in CardPaths /\ Kind(Front(p)) = "dir"
Entries(p) == {Last(q) : q \in {q \in CardPaths : fs[q].kind # "absent" /\ Front(q) = p}}

(***************************************************************************)
(* Sessions.                                                               *)
(***************************************************************************)
find_session(table, sid, peer) ==
    {s \in Slots : sid # 0 /\ table[s].in_use /\ table[s].sid = sid /\ table[s].peer = peer}

(* Seeded bug: the slot is cleared, and its files stay open. *)
HeldByNone(session) == {}
(* The descriptors that free_session closes: those of the slot's files. *)
HeldBy(session) == {session.files[i] : i \in FileSlots} \ {NoFd}

(* free_session of a set of slots. *)
free_sessions(table, gone) == [s \in Slots |-> IF s \in gone THEN Blank ELSE table[s]]

(* Seeded bug: a session with an open file is never idle. *)
ReapWithoutFiles == {s \in Slots : sess[s].in_use /\ s \in expired /\ HeldBy(sess[s]) = {}}
reap_idle == {s \in Slots : sess[s].in_use /\ s \in expired}

(* Seeded bug: an id may be in use. *)
NextSidBlindly(table) == IF next_sid = 0 THEN 1 ELSE next_sid
(* The first id from s_next_sid on that is not 0 and not in use. *)
NextSid(table) ==
    LET free(n) == n # 0 /\ \A s \in Slots : table[s].in_use => table[s].sid # n
        after(k) == (next_sid + k) % SidLimit
        k == CHOOSE k \in 0 .. SidLimit - 1 :
                 free(after(k)) /\ \A j \in 0 .. k - 1 : ~free(after(j))
    IN  after(k)
(* Seeded bug: the counter is wider than the field of the header. *)
SidAfterUnwrapped(sid) == sid + 1
(* What next_sid() leaves in s_next_sid. *)
SidAfter(sid) == (sid + 1) % SidLimit

(* sd_path() refuses a path that leaves the card. *)
resolve_path(s, req) == s.root \o req
BadPath(p) == ".." \in Range(p)

(* Seeded bug: a folder that holds a mounted image may move. *)
ChangeBeginExact(p) == p \in images
(* disk_change_begin(): p is a mounted image or a folder that holds one. A *)
(* name that is not on the card is neither (sd_canonical fails).           *)
disk_change_begin(p) == Kind(p) # "absent" /\ \E i \in images : IsPrefix(p, i)

(***************************************************************************)
(* Handlers. Each yields a set of outcomes.                                *)
(***************************************************************************)
Outcome(s, v, f, body) == [s |-> s, vfs |-> v, fs |-> f, body |-> body]
Status(st) == [status |-> st]
Fails(s, st) == {Outcome(s, vfs, fs, Status(st))}
Faults(s) == IF IoFaults THEN Fails(s, "EIO") ELSE {}

FreeFileSlots(s) == {i \in FileSlots : s.files[i] = NoFd}
Lowest(S) == CHOOSE i \in S : \A j \in S : i <= j

(* The flags that make an OPEN a change of the file. *)
Writes(flags) == flags \cap {"wr", "rw", "trunc", "append"} # {}

(* open() of the VFS (external). *)
CanOpen(p, flags) ==
    \/ Kind(p) = "file" /\ ~({"creat", "excl"} \subseteq flags)
    \/ Kind(p) = "absent" /\ "creat" \in flags /\ ParentIsDir(p)
Opened(p, flags) ==
    IF Kind(p) = "absent" \/ "trunc" \in flags THEN [fs EXCEPT ![p] = File(<<>>)] ELSE fs
Descriptor(p, flags) ==
    [path |-> p, pos |-> 0, append |-> "append" \in flags,
     mode |-> CASE "rw" \in flags -> "rw" [] "wr" \in flags -> "wr" [] OTHER -> "rd"]

h_open(s, m) ==
    LET p == resolve_path(s, m.path)
        slot == Lowest(FreeFileSlots(s))
        fd == Lowest({fd \in Fds : ~IsOpen(vfs, fd)})
    IN  CASE ~m.wf \/ BadPath(p) -> Fails(s, "EINVAL")
          [] FreeFileSlots(s) = {} -> Fails(s, "EMFILE")
          [] Writes(m.flags) /\ disk_change_begin(p) -> Fails(s, "EBUSY")
          [] ~CanOpen(p, m.flags) -> Fails(s, IF Kind(p) = "absent" THEN "ENOENT" ELSE "EACCES")
          [] \A f \in Fds : IsOpen(vfs, f) -> Fails(s, "EMFILE")
          [] OTHER -> Faults(s) \union
               {Outcome([s EXCEPT !.files[slot] = fd],
                        [vfs EXCEPT ![fd] = Descriptor(p, m.flags)],
                        Opened(p, m.flags),
                        [status |-> "OK", fd |-> slot])}

(* The descriptor of a TNFS file number, NoFd if it is not open. *)
FdOf(s, n) == IF n \in FileSlots THEN s.files[n] ELSE NoFd

h_read(s, m) ==
    LET fd == FdOf(s, m.fd)
        d == vfs[fd]
        size == Len(fs[d.path].data)
        data == SubSeq(fs[d.path].data, d.pos + 1,
                       IF d.pos + Chunk < size THEN d.pos + Chunk ELSE size)
    IN  CASE ~m.wf -> Fails(s, "EINVAL")
          [] fd = NoFd -> Fails(s, "EBADF")
          [] d.mode = "wr" -> Fails(s, "EACCES")
          [] data = <<>> -> Fails(s, "EOF")
          [] OTHER -> Faults(s) \union
               {Outcome(s, [vfs EXCEPT ![fd].pos = @ + Len(data)], fs,
                        [status |-> "OK", data |-> data])}

(* A file's data with cell number i + 1 set to x, extended where needed. *)
Put(data, i, x) ==
    [j \in 1 .. (IF i + 1 > Len(data) THEN i + 1 ELSE Len(data)) |->
        IF j = i + 1 THEN x ELSE IF j <= Len(data) THEN data[j] ELSE 0]

(* write() of one cell. A file that was deleted meanwhile takes no data. *)
h_write(s, m) ==
    LET fd == FdOf(s, m.fd)
        d == vfs[fd]
        pos == IF d.append THEN Len(fs[d.path].data) ELSE d.pos
    IN  CASE ~m.wf -> Fails(s, "EINVAL")
          [] fd = NoFd -> Fails(s, "EBADF")
          [] d.mode = "rd" -> Fails(s, "EACCES")
          [] pos >= Room -> Fails(s, "ENOSPC")
          [] OTHER -> Faults(s) \union
               {Outcome(s, [vfs EXCEPT ![fd].pos = pos + 1],
                        IF fs[d.path].kind = "file"
                        THEN [fs EXCEPT ![d.path].data = Put(@, pos, m.data)] ELSE fs,
                        [status |-> "OK", n |-> 1])}

h_close(s, m) ==
    LET fd == FdOf(s, m.fd)
    IN  CASE ~m.wf -> Fails(s, "EINVAL")
          [] fd = NoFd -> Fails(s, "EBADF")
          [] OTHER -> {Outcome([s EXCEPT !.files[m.fd] = NoFd], CloseAll(vfs, {fd}), fs,
                               Status("OK"))}

h_lseek(s, m) ==
    LET fd == FdOf(s, m.fd)
        d == vfs[fd]
        base == [SET |-> 0, CUR |-> d.pos, END |-> Len(fs[d.path].data)]
    IN  CASE ~m.wf -> Fails(s, "EINVAL")
          [] fd = NoFd -> Fails(s, "EBADF")
          [] m.whence \notin DOMAIN base -> Fails(s, "EINVAL")
          [] base[m.whence] + m.off < 0 -> Fails(s, "EINVAL")
          [] OTHER -> {Outcome(s, [vfs EXCEPT ![fd].pos = base[m.whence] + m.off], fs,
                               [status |-> "OK", pos |-> base[m.whence] + m.off])}

h_stat(s, m) ==
    LET p == resolve_path(s, m.path)
    IN  CASE ~m.wf \/ BadPath(p) -> Fails(s, "EINVAL")
          [] Kind(p) = "absent" -> Fails(s, "ENOENT")
          [] OTHER -> {Outcome(s, vfs, fs, [status |-> "OK", kind |-> Kind(p)])}

(* f_unlink of the FAT file system (external), behind rmdir() and unlink() *)
(* alike: a file or an empty folder goes, open or not (FATFS_FS_LOCK is 0). *)
FatUnlink(p) ==
    CASE p = <<>> -> "EINVAL"
      [] Kind(p) = "absent" -> "ENOENT"
      [] p # <<>> /\ Entries(p) # {} -> "EACCES"
      [] OTHER -> "OK"

(* mkdir_op, rmdir and unlink_op, the functions h_pathop is given. RMDIR   *)
(* has no guard.                                                           *)
PathOp(op, p) ==
    CASE op = "MKDIR" -> IF Kind(p) # "absent" THEN "EEXIST"
                         ELSE IF ParentIsDir(p) THEN "OK" ELSE "ENOENT"
      [] op = "RMDIR" -> FatUnlink(p)
      [] op = "UNLINK" -> IF disk_change_begin(p) THEN "EBUSY" ELSE FatUnlink(p)

h_pathop(s, m) ==
    LET p == resolve_path(s, m.path)
    IN  CASE ~m.wf \/ BadPath(p) -> Fails(s, "EINVAL")
          [] PathOp(m.cmd, p) # "OK" -> Fails(s, PathOp(m.cmd, p))
          [] OTHER -> Faults(s) \union
               {Outcome(s, vfs, [fs EXCEPT ![p] = IF m.cmd = "MKDIR" THEN Dir ELSE Absent],
                        Status("OK"))}

(* Everything below o moves to below n. *)
Moved(o, n) ==
    [q \in CardPaths |->
        LET from == o \o SubSeq(q, Len(n) + 1, Len(q))
        IN  IF IsPrefix(n, q) /\ from \in CardPaths THEN fs[from]
            ELSE IF IsPrefix(o, q) THEN Absent ELSE fs[q]]

h_rename(s, m) ==
    LET o == resolve_path(s, m.path)
        n == resolve_path(s, m.path2)
    IN  CASE ~m.wf \/ BadPath(o) \/ BadPath(n) -> Fails(s, "EINVAL")
          [] disk_change_begin(o) -> Fails(s, "EBUSY")
          [] Kind(o) = "absent" \/ o = <<>> -> Fails(s, "ENOENT")
          [] Kind(n) # "absent" -> Fails(s, "EEXIST")
          [] ~ParentIsDir(n) \/ IsPrefix(o, n) -> Fails(s, "ENOENT")
          [] OTHER -> Faults(s) \union {Outcome(s, vfs, Moved(o, n), Status("OK"))}

(***************************************************************************)
(* Directories. A DIR is the sequence of its entries that are still to be  *)
(* read, as they were when it was opened.                                  *)
(***************************************************************************)
FreeDirSlots(s) == {i \in DirSlots : ~s.dirs[i].in_use}

(* The entries that dir_next shows: no dotfiles, and only what matches. *)
Visible(p, pattern) ==
    LET order == SetToSeq((Entries(p) \cap pattern) \ Dotfiles)
    IN  [i \in DOMAIN order |-> [name |-> order[i], dir |-> Kind(Append(p, order[i])) = "dir"]]

(* h_opendir and h_opendirx; the extended one counts what matches as well. *)
h_opendir(s, m) ==
    LET p == resolve_path(s, m.path)
        slot == Lowest(FreeDirSlots(s))
        left == Visible(p, m.pattern)
    IN  CASE ~m.wf \/ BadPath(p) -> Fails(s, "EINVAL")
          [] FreeDirSlots(s) = {} -> Fails(s, "EMFILE")
          [] Kind(p) # "dir" -> Fails(s, "ENOENT")
          [] OTHER -> Faults(s) \union
               {Outcome([s EXCEPT !.dirs[slot] =
                            [in_use |-> TRUE, left |-> left, pending |-> <<>>, pos |-> 0]],
                        vfs, fs,
                        IF m.cmd = "OPENDIRX"
                        THEN [status |-> "OK", dh |-> slot, count |-> Len(left)]
                        ELSE [status |-> "OK", dh |-> slot])}

DirOpen(s, h) == h \in DirSlots /\ s.dirs[h].in_use

(* What dir_next will give: the stashed entry first. *)
Stream(d) == d.pending \o d.left

h_readdir(s, m) ==
    LET d == s.dirs[m.dh]
    IN  CASE ~m.wf -> Fails(s, "EINVAL")
          [] ~DirOpen(s, m.dh) -> Fails(s, "EBADF")
          [] Stream(d) = <<>> -> Fails(s, "EOF")
          [] OTHER -> {Outcome([s EXCEPT !.dirs[m.dh].pending = <<>>,
                                         !.dirs[m.dh].left = Tail(Stream(d))],
                               vfs, fs, [status |-> "OK", names |-> <<Head(Stream(d))>>])}

Bytes(entries) == FoldLeft(LAMBDA n, e : n + EntrySize[e.name], 0, entries)

(* The slot after n entries of the stream; the one that did not fit is kept. *)
dir_stash(d, n, want) ==
    LET rest == SubSeq(Stream(d), n + 1, Len(Stream(d)))
        stash == n < want /\ rest # <<>>
    IN  [d EXCEPT !.pos = @ + n,
                  !.pending = IF stash THEN <<Head(rest)>> ELSE <<>>,
                  !.left = IF stash THEN Tail(rest) ELSE rest]

h_readdirx(s, m) ==
    LET d == s.dirs[m.dh]
        want == IF m.n = 0 THEN 1 ELSE m.n
        fits == {k \in 0 .. Len(Stream(d)) :
                    k <= want /\ Bytes(SubSeq(Stream(d), 1, k)) <= BodyCap}
        n == CHOOSE k \in fits : \A j \in fits : j <= k
        after == [s EXCEPT !.dirs[m.dh] = dir_stash(d, n, want)]
    IN  CASE ~m.wf -> Fails(s, "EINVAL")
          [] ~DirOpen(s, m.dh) -> Fails(s, "EBADF")
          [] n = 0 -> {Outcome(after, vfs, fs, Status("EOF"))}
          [] OTHER -> {Outcome(after, vfs, fs,
                               [status |-> "OK", names |-> SubSeq(Stream(d), 1, n),
                                eof |-> n < want /\ n = Len(Stream(d)), pos |-> d.pos])}

h_closedir(s, m) ==
    CASE ~m.wf -> Fails(s, "EINVAL")
      [] ~DirOpen(s, m.dh) -> Fails(s, "EBADF")
      [] OTHER -> {Outcome([s EXCEPT !.dirs[m.dh] = FreeDir], vfs, fs, Status("OK"))}

(* The switch of process(). *)
Handle(s, m) ==
    CASE m.cmd \in {"UMOUNT", "CHMOD"} -> {Outcome(s, vfs, fs, Status("OK"))}
      [] m.cmd = "OPEN" -> h_open(s, m)
      [] m.cmd = "READ" -> h_read(s, m)
      [] m.cmd = "WRITE" -> h_write(s, m)
      [] m.cmd = "CLOSE" -> h_close(s, m)
      [] m.cmd = "LSEEK" -> h_lseek(s, m)
      [] m.cmd = "STAT" -> h_stat(s, m)
      [] m.cmd \in {"MKDIR", "RMDIR", "UNLINK"} -> h_pathop(s, m)
      [] m.cmd = "RENAME" -> h_rename(s, m)
      [] m.cmd \in {"OPENDIR", "OPENDIRX"} -> h_opendir(s, m)
      [] m.cmd = "READDIR" -> h_readdir(s, m)
      [] m.cmd = "READDIRX" -> h_readdirx(s, m)
      [] m.cmd = "CLOSEDIR" -> h_closedir(s, m)
      [] OTHER -> Fails(s, "ENOSYS")

(***************************************************************************)
(* The task.                                                               *)
(***************************************************************************)
ServerInit ==
    /\ up \in BOOLEAN
    /\ serving = "boot"
    /\ sess = [s \in Slots |-> [Blank EXCEPT !.files = [i \in FileSlots |-> 0]]]
    /\ expired = {}
    /\ next_sid = 1
    /\ vfs = [fd \in Fds |-> IF fd = 0 THEN Stdin ELSE Unused]
    /\ fs = Card
    /\ images = {}
    /\ NetInit

(* tnfsd_task: the slots are freed once. Their memory is zero, and 0 is a   *)
(* descriptor.                                                              *)
tnfsd_task ==
    /\ serving = "boot"
    /\ serving' = "waiting"
    /\ vfs' = CloseAll(vfs, UNION {HeldBy(sess[s]) : s \in Slots})
    /\ sess' = free_sessions(sess, Slots)
    /\ UNCHANGED <<up, expired, next_sid, fs, images, netVars>>

(* serve() up to its loop; datagrams for an unbound port are gone. *)
serve ==
    /\ serving = "waiting" /\ up
    /\ serving' = "serving"
    /\ inbox' = <<>>
    /\ UNCHANGED <<up, sess, expired, next_sid, vfs, fs, images, outbox>>

(* The loop ends with the link: all sessions are dropped. *)
drop_all_sessions ==
    /\ serving = "serving" /\ ~up
    /\ serving' = "waiting"
    /\ vfs' = CloseAll(vfs, UNION {HeldBy(sess[s]) : s \in Slots})
    /\ sess' = free_sessions(sess, Slots)
    /\ expired' = {}
    /\ inbox' = <<>>
    /\ UNCHANGED <<up, next_sid, fs, images, outbox>>

(* reap_idle(), after every recvfrom() and before the datagram is looked at. *)
ReapIdle ==
    /\ serving = "serving" /\ reap_idle # {}
    /\ vfs' = CloseAll(vfs, UNION {HeldBy(sess[s]) : s \in reap_idle})
    /\ sess' = free_sessions(sess, reap_idle)
    /\ expired' = {}
    /\ UNCHANGED <<up, serving, next_sid, fs, images, netVars>>

(* reply_and_cache(): the reply is kept with the session and sent to its peer. *)
reply_and_cache(s, m, body) ==
    [s EXCEPT !.reply = [seq |-> m.seq, cmd |-> m.cmd, body |-> body]]
Datagram(s) ==
    [peer |-> s.peer, sid |-> s.sid, seq |-> s.reply.seq, cmd |-> s.reply.cmd,
     body |-> s.reply.body]
(* Seeded bug: no reply is ever found. *)
NotCached(s, m) == FALSE
Answered(s, m) == s.reply.seq = m.seq /\ s.reply.cmd = m.cmd

(* recvfrom() has given m and reap_idle() is done; what takes m from the   *)
(* network is left to the module that composes client and server.          *)
Receives == serving = "serving" /\ reap_idle = {}

(* The session that a datagram other than MOUNT belongs to. *)
Target(m) == find_session(sess, m.sid, m.peer)

(* The slots whose last reply is to this very MOUNT. *)
MountedBy(m) == {s \in Slots : sess[s].in_use /\ sess[s].peer = m.peer /\ Answered(sess[s], m)}

(* A duplicate is answered with the cached reply and not run again. *)
Duplicated(m) ==
    /\ Receives
    /\ LET again == IF m.cmd = "MOUNT" THEN MountedBy(m)
                    ELSE {s \in Target(m) : Answered(sess[s], m)}
       IN  /\ again # {}
           /\ outbox' = SendTo(outbox, Datagram(sess[Lowest(again)]))
           /\ expired' = expired \ {Lowest(again)}
    /\ UNCHANGED <<up, serving, sess, next_sid, vfs, fs, images>>

(* An unknown or expired session: no answer. *)
Ignore(m) ==
    /\ Receives /\ m.cmd # "MOUNT" /\ Target(m) = {}
    /\ UNCHANGED <<serverVars, outbox>>

(* The end of process(): the outcome o of m is answered and kept, and       *)
(* UMOUNT frees the session.                                               *)
Finish(slot, m, o) ==
    LET s == reply_and_cache(o.s, m, o.body)
        table == [sess EXCEPT ![slot] = s]
        gone == IF m.cmd = "UMOUNT" THEN {slot} ELSE {}
    IN  /\ outbox' = SendTo(outbox, Datagram(s))
        /\ sess' = free_sessions(table, gone)
        /\ vfs' = CloseAll(o.vfs, UNION {HeldBy(table[g]) : g \in gone})
        /\ fs' = o.fs
        /\ expired' = expired \ {slot}
        /\ UNCHANGED <<up, serving, next_sid, images>>

(* The session that m is a new request of. *)
Fresh(m) == {s \in Target(m) : Receives /\ m.cmd # "MOUNT" /\ ~Answered(sess[s], m)}

process(m) == \E slot \in Fresh(m) : \E o \in Handle(sess[slot], m) : Finish(slot, m, o)

FreeSlots == {s \in Slots : ~sess[s].in_use}

(* handle_mount() of a request that was not answered before. The reply to  *)
(* a bad mount point goes to the peer of a cleared slot.                   *)
handle_mount(m) ==
    /\ Receives /\ m.cmd = "MOUNT" /\ MountedBy(m) = {}
    /\ LET slot == Lowest(FreeSlots)
           sid == NextSid(sess)
           s == [Blank EXCEPT !.in_use = TRUE, !.sid = sid, !.peer = m.peer, !.root = m.path]
       IN  \/ /\ FreeSlots = {}
              /\ outbox' = SendTo(outbox, [peer |-> m.peer, sid |-> 0, seq |-> m.seq,
                                          cmd |-> "MOUNT", body |-> Status("EAGAIN")])
              /\ UNCHANGED <<sess, next_sid>>
           \/ /\ FreeSlots # {} /\ BadPath(m.path)
              /\ outbox' = SendTo(outbox, Datagram(reply_and_cache(
                               [Blank EXCEPT !.sid = sid], m, Status("ENOENT"))))
              /\ next_sid' = SidAfter(sid)
              /\ UNCHANGED sess
           \/ /\ FreeSlots # {} /\ ~BadPath(m.path)
              /\ sess' = [sess EXCEPT ![slot] = reply_and_cache(s, m, Status("OK"))]
              /\ outbox' = SendTo(outbox, Datagram(sess'[slot]))
              /\ next_sid' = SidAfter(sid)
    /\ UNCHANGED <<up, serving, expired, vfs, fs, images>>

Answer(m) == Duplicated(m) \/ Ignore(m) \/ process(m) \/ handle_mount(m)

Task == tnfsd_task \/ serve \/ drop_all_sessions \/ ReapIdle

(***************************************************************************)
(* The surroundings: the link, the clock, and a console that mounts images *)
(* (disk_mount and disk_unmount as the change guard sees them).            *)
(***************************************************************************)
Link ==
    /\ up' = ~up
    /\ UNCHANGED <<serving, sess, expired, next_sid, vfs, fs, images, netVars>>

Expire ==
    /\ \E s \in Slots \ expired : sess[s].in_use /\ expired' = expired \union {s}
    /\ UNCHANGED <<up, serving, sess, next_sid, vfs, fs, images, netVars>>

Console ==
    /\ \/ \E i \in Images \ images : fs[i].kind = "file" /\ images' = images \union {i}
       \/ \E i \in images : images' = images \ {i}
    /\ UNCHANGED <<up, serving, sess, expired, next_sid, vfs, fs, netVars>>

(* Desktop clients (external): any request, under any session of the       *)
(* sender and with any sequence number, arrives and is answered.           *)
Desktop ==
    /\ \E p \in Peers, q \in Seqs, r \in Requests :
          \E sid \in IF r.cmd = "MOUNT" THEN {0}
                     ELSE {sess[s].sid : s \in {s \in Slots : sess[s].peer = p}} :
             Answer(WithHeader([peer |-> p, seq |-> q, sid |-> sid], r))
    /\ UNCHANGED inbox

svars == <<serverVars, netVars>>

ServerNext == Task \/ Link \/ Expire \/ Console \/ Desktop

ServerSpec == ServerInit /\ [][ServerNext]_svars

(* The task runs on. *)
FairServerSpec == ServerSpec /\ WF_svars(Task)

-----------------------------------------------------------------------------
ServerTypeOK ==
    /\ up \in BOOLEAN /\ serving \in {"boot", "waiting", "serving"}
    /\ \A s \in Slots : /\ sess[s].sid \in 0 .. SidLimit - 1
                        /\ sess[s].peer \in Peers \union {NoPeer}
                        /\ sess[s].files \in [FileSlots -> Fds \union {NoFd}]
    /\ expired \subseteq Slots /\ next_sid \in 0 .. SidLimit - 1
    /\ DOMAIN vfs = Fds /\ DOMAIN fs = CardPaths /\ images \subseteq Images

(* No descriptor is lost and none is closed twice, whichever of CLOSE,     *)
(* UMOUNT, the reaper and the loss of the link ends a session: an open     *)
(* descriptor is held by one file slot of one live session, and a slot     *)
(* holds an open descriptor (free_session, h_open, h_close).               *)
DescriptorsOwned ==
    serving # "boot" =>
        /\ \A fd \in Fds :
              LET held == {x \in Slots \X FileSlots : sess[x[1]].files[x[2]] = fd}
              IN  Cardinality(held) = IF IsOpen(vfs, fd) THEN 1 ELSE 0
        /\ \A s \in Slots : ~sess[s].in_use => sess[s] = Blank

(* Session ids that wrap around never give two live sessions the same id,  *)
(* nor 0, which stands for no session (next_sid).                          *)
SidsDistinct ==
    \A s, t \in Slots :
        sess[s].in_use => sess[s].sid # 0 /\ (s # t /\ sess[t].in_use => sess[s].sid # sess[t].sid)

(* The step answers a request of this kind, and keeps the answer. *)
Replied(cmd) == \E s \in Slots : sess'[s].reply # sess[s].reply /\ sess'[s].reply.cmd = cmd

(* While it is mounted, an image is not moved or cut off by a client, nor  *)
(* does its folder move or go, and no request but one deletes it           *)
(* (disk_change_begin in h_open, unlink_op and h_rename). The one is RMDIR *)
(* of the image itself: process() hands it to rmdir() with no guard, and   *)
(* the FAT takes the file. Even that changes nothing else on the card.     *)
OnlyRmdirTakesImage ==
    [][\A i \in images \cap images' :
          fs[i].kind = "file" =>
              \/ fs'[i].kind = "file" /\ Len(fs'[i].data) >= Len(fs[i].data)
              \/ Replied("RMDIR") /\ fs' = [fs EXCEPT ![i] = Absent]]_svars

(* A client that goes away does not keep its slot: a session that has been *)
(* idle for too long is freed, unless a request of its client comes first, *)
(* also when the link goes down meanwhile (reap_idle, drop_all_sessions).  *)
SlotsRecover == \A s \in Slots : s \in expired ~> s \notin expired
=============================================================================
