-------------------------------- MODULE Tnfs --------------------------------
(***************************************************************************)
(* The TNFS client of one device and the TNFS server of another, with the  *)
(* network between them.                                                   *)
(***************************************************************************)
EXTENDS TnfsServer, TnfsClient

CONSTANT Remote  \* the path of the image that the device opens

(* A session, a file and a counter for the initial states; what the calls  *)
(* are given; a sequence number that changes when it advances; a directory *)
(* entry that fits a reply.                                                *)
ASSUME DeviceAssumption ==
    /\ 1 \in Slots /\ 0 \in FileSlots /\ SeqLimit > 1
    /\ IsFiniteSet(Names) /\ BodyCap \in Nat /\ \A n \in Names : EntrySize[n] \in 0 .. BodyCap
    /\ Remote \in CardPaths
    /\ \A a \in OpenArgs : a.path = Remote /\ a.writable \in BOOLEAN /\ a.create \in BOOLEAN
    /\ \A a \in ReadArgs \union WriteArgs : a.off \in Nat /\ a.cells \in Seq(Nat) \ {<<>>}
    /\ ListArgs \subseteq Paths
    /\ \A s \in Servers : s.tcp \in BOOLEAN /\ s.dirx \in BOOLEAN

VARIABLE done  \* the last command of the client that took effect, and how often

vars == <<serverVars, clientVars, netVars, done>>

(* The server is up, as tnfsd_task and serve leave it. *)
Idle ==
    /\ sess = [s \in Slots |-> Blank]
    /\ next_sid = 1
    /\ vfs = [fd \in Fds |-> Unused]
    /\ f = NoFile /\ sent = 0 /\ done = [id |-> 0, times |-> 1]

(* The same after a tnfs_open() without trouble: MOUNT, OPEN and LSEEK. *)
FileOpen ==
    \E a \in OpenArgs :
       LET size == Len(Card[a.path].data)
       IN  /\ ~a.create /\ Card[a.path].kind = "file"
           /\ sess = [s \in Slots |-> IF s # 1 THEN Blank ELSE
                         [Blank EXCEPT !.in_use = TRUE, !.sid = 1, !.peer = 1, !.files[0] = 0,
                             !.reply = [seq |-> 2 % SeqLimit, cmd |-> "LSEEK",
                                        body |-> [status |-> "OK", pos |-> size]]]]
           /\ next_sid = SidAfter(1)
           /\ vfs = [fd \in Fds |-> IF fd # 0 THEN Unused ELSE
                        [Descriptor(a.path, OpenFlags(a)) EXCEPT !.pos = size]]
           /\ f = [NoFile EXCEPT !.sock = 1, !.conn = 1, !.seq = 3 % SeqLimit,
                              !.size = size]
           /\ sent = 3 /\ done = [id |-> 3, times |-> 1] /\ ~server.tcp

Init ==
    /\ up = TRUE /\ serving = "serving"
    /\ expired = {} /\ fs = Card /\ images = {}
    /\ ClientInit /\ NetInit
    /\ Idle \/ FileOpen

Client == ClientNext /\ UNCHANGED <<serverVars, done>>
Wait == (TimesOut \/ Backoff \/ Responds) /\ UNCHANGED <<serverVars, done>>

(* A server without OPENDIRX refuses it like an unknown command (external). *)
Refuses(m) == m.cmd = "OPENDIRX" /\ ~server.dirx
RunAs(m) ==
    \/ ~Refuses(m) /\ process(m)
    \/ /\ Refuses(m)
       /\ \E slot \in Fresh(m) : \E o \in Fails(sess[slot], "ENOSYS") : Finish(slot, m, o)

Ran(m) == [id |-> m.id, times |-> IF m.id = done.id THEN done.times + 1 ELSE 1]

(* The server takes the next datagram. A MOUNT that takes no free slot has *)
(* no effect.                                                              *)
Server ==
    /\ inbox # <<>>
    /\ LET m == Head(inbox)
       IN  \/ (Duplicated(m) \/ Ignore(m)) /\ UNCHANGED done
           \/ handle_mount(m) /\ done' = (IF FreeSlots' = FreeSlots THEN done ELSE Ran(m))
           \/ RunAs(m) /\ done' = Ran(m)
    /\ inbox' = Tail(inbox)
    /\ UNCHANGED clientVars

Reap == ReapIdle /\ UNCHANGED <<clientVars, done>>

(* TNFSD_IDLE_US is far longer than a command with all its attempts, or    *)
(* than a datagram lives.                                                  *)
Idles ==
    /\ ~Calling /\ inbox = <<>> /\ outbox = <<>>
    /\ Expire /\ UNCHANGED <<clientVars, done>>

Network == ~f.tcp /\ (Lose \/ Duplicate) /\ UNCHANGED <<serverVars, clientVars, done>>

Next == Client \/ Server \/ Reap \/ Idles \/ Network

(* The server runs on, and a client waits no longer than its time-out. A   *)
(* stale reply restarts the wait, but a network does not duplicate a       *)
(* datagram for ever.                                                      *)
Spec == Init /\ [][Next]_vars /\ WF_vars(Wait) /\ WF_vars(Server \/ Reap)

-----------------------------------------------------------------------------
(* Requests that are lost, repeated by the client or duplicated by the     *)
(* network take effect in the order they were issued, and each at most     *)
(* once: the server's reply cache and the client's sequence numbers        *)
(* (tnfs_command, serve).                                                  *)
AtMostOnce == [][done' # done => done'.id > done.id]_vars

(* The file as the server has it. *)
Data == fs[Remote].data

(* What tnfs_read_at returned, and what tnfs_write_at reported as written, *)
(* is in the file where it should be, whichever requests and replies got   *)
(* lost, as long as no LSEEK of the session was given up.                  *)
DataTrue ==
    ~Calling /\ clean /\ last.err = "ESP_OK" /\ last.op \in {"read_at", "write_at"}
        => last.got = SubSeq(Data, last.arg.off + 1, last.arg.off + Len(last.arg.cells))

(* What a listing shows of the entries of a directory; only an extended    *)
(* one tells a directory from a file.                                      *)
Shown(entries, extended) ==
    [i \in DOMAIN entries |-> [entries[i] EXCEPT !.dir = @ /\ extended]]

(* A listing that succeeds gives every entry of the directory once, in     *)
(* order, with either kind of listing (tnfs_listx, tnfs_list_basic,        *)
(* h_readdirx). It is a basic one when the server has no OPENDIRX, or when *)
(* the card failed it.                                                     *)
ListingExact ==
    last.op = "list_dir" /\ last.err = "ESP_OK" =>
        \E extended \in {server.dirx} \union (IF IoFaults THEN {FALSE} ELSE {}) :
            last.got = Shown(Visible(last.arg, Names), extended)

(* Every call returns: no loss, duplicate, full server or expired session  *)
(* keeps the disk-I/O worker waiting.                                      *)
CallReturns == Calling ~> ~Calling
=============================================================================
