----------------------------- MODULE TnfsClient -----------------------------
(***************************************************************************)
(* The TNFS client of the device (src/src/net/tnfs.c).                     *)
(*                                                                         *)
(* A function of the client is a chain of commands. Between two commands   *)
(* the client is in a step `call.at`, and what it does with the result of  *)
(* the command is an operator of that name: it yields the file, the call   *)
(* and the next command, or ends the call. tnfs_command() itself, with its *)
(* retransmissions, is the actions below.                                  *)
(***************************************************************************)
EXTENDS TnfsNet, Integers

CONSTANTS
    Retries,   \* TNFS_RETRIES
    SeqLimit,  \* sequence numbers are modulo SeqLimit (2^8 in the code)
    Names,     \* the names a listing can give
    OpenArgs,  \* the arguments of tnfs_open, [path, writable, create]
    ReadArgs,  \* the arguments of tnfs_read_at, [off, cells]
    WriteArgs, \* the arguments of tnfs_write_at, [off, cells]
    ListArgs,  \* the arguments of tnfs_list_dir, paths
    Servers,   \* the kinds of servers, [tcp, dirx]
    MaxCalls   \* bound on the calls that are made

ASSUME ClientAssumption ==
    Retries \in Nat \ {0} /\ SeqLimit \in Nat \ {0} /\ MaxCalls \in Nat

VARIABLES
    f,      \* the tnfs_file_t
    call,   \* the call under way: what it does next and its locals
    cmd,    \* the command under way: the request and the attempt
    last,   \* what the last call returned, until the next one begins
    server, \* [tcp, dirx]: the transport the server answers on, and whether
            \* it knows OPENDIRX (external)
    calls,  \* the number of calls so far
    sent,   \* the number of commands so far
    clean   \* no LSEEK of this session ran out of attempts

clientVars == <<f, call, cmd, last, server, calls, sent, clean>>

NoFile == [sock |-> 0, tcp |-> FALSE, conn |-> 0, seq |-> 0, fd |-> 0, size |-> 0,
           pos |-> 0, pos_valid |-> FALSE]
NoCall == [op |-> "none", at |-> "idle"]
NoCmd == [m |-> [cmd |-> "none"], attempt |-> 0]

NoResult == [op |-> "none", err |-> "ESP_OK", arg |-> 0, got |-> <<>>]

Timeout == [status |-> "timeout"]

(* The outcomes of a step: another command, or the end of the call. *)
Ask(file, c, at, request) ==
    [f |-> file, call |-> [c EXCEPT !.at = at], ask |-> <<request>>, ret |-> <<>>]
Return(file, c, err) ==
    [f |-> file, call |-> NoCall, ask |-> <<>>,
     ret |-> <<[op |-> c.op, err |-> err, arg |-> c.arg, got |-> c.got]>>]

(* The error of a command: status_err() for an answer. *)
status_err(r) ==
    CASE r = Timeout -> "ESP_ERR_TIMEOUT"
      [] r.status = "OK" -> "ESP_OK"
      [] r.status = "ENOENT" -> "ESP_ERR_NOT_FOUND"
      [] OTHER -> "ESP_FAIL"

(***************************************************************************)
(* Sessions.                                                               *)
(***************************************************************************)
tnfs_mount_root(file, c) ==
    Ask([file EXCEPT !.seq = 0, !.conn = 0], c, "mount", [cmd |-> "MOUNT", path |-> <<>>])

(* A socket of its own for every attempt to mount. *)
tnfs_try(file, c, tcp) ==
    tnfs_mount_root([file EXCEPT !.sock = @ + 1, !.tcp = tcp], c)

(* Best-effort UMOUNT; the call returns err after it. *)
Umount(file, c, err) == Ask(file, [c EXCEPT !.err = err], "umount", [cmd |-> "UMOUNT"])

Umounted(file, c) == Return([NoFile EXCEPT !.sock = file.sock], c, c.err)

(***************************************************************************)
(* tnfs_open.                                                              *)
(***************************************************************************)
OpenFlags(arg) ==
    IF arg.create THEN {"wr", "creat", "trunc"} ELSE IF arg.writable THEN {"rw"} ELSE {"rd"}

tnfs_open(file, c) ==
    Ask(file, c, "open", [cmd |-> "OPEN", path |-> c.arg.path, flags |-> OpenFlags(c.arg)])

tnfs_query_size(file, c) ==
    Ask(file, c, "size", [cmd |-> "LSEEK", fd |-> file.fd, whence |-> "END", off |-> 0])

AfterOpen(file, c, r) ==
    LET opened == [file EXCEPT !.fd = r.fd, !.size = 0, !.pos_valid = FALSE]
    IN  IF r.status # "OK" THEN Umount(file, c, status_err(r))
        ELSE IF c.arg.create THEN Return(opened, c, "ESP_OK") ELSE tnfs_query_size(opened, c)

(* The result of the query is not looked at: the size stays 0. *)
AfterSize(file, c, r) ==
    Return(IF r.status = "OK" THEN [file EXCEPT !.size = r.pos] ELSE file, c, "ESP_OK")

(***************************************************************************)
(* tnfs_read_at and tnfs_write_at: a chunk of TNFS_IO_CHUNK bytes, which   *)
(* is one cell, at a time. c.left are the cells that are still to do.      *)
(***************************************************************************)
Transfer(file, c) ==
    IF c.op = "read_at"
    THEN Ask(file, c, "read", [cmd |-> "READ", fd |-> file.fd])
    ELSE Ask(file, c, "write", [cmd |-> "WRITE", fd |-> file.fd, data |-> Head(c.left)])

(* The seek is left out when the position is known to be right. *)
tnfs_seek(file, c) ==
    IF file.pos_valid /\ file.pos = c.off THEN Transfer(file, c)
    ELSE Ask(file, c, "seek", [cmd |-> "LSEEK", fd |-> file.fd, whence |-> "SET", off |-> c.off])

(* Seeded bug: the position is still trusted. *)
BrokenTrusting(file, c, r) ==
    Return(file, c, IF r = Timeout THEN "ESP_ERR_TIMEOUT" ELSE "ESP_FAIL")
(* An error: where the server's file stands is not known. *)
Broken(file, c, r) ==
    Return([file EXCEPT !.pos_valid = FALSE], c,
           IF r = Timeout THEN "ESP_ERR_TIMEOUT" ELSE "ESP_FAIL")

AfterSeek(file, c, r) ==
    IF r.status # "OK" THEN Broken(file, c, r)
    ELSE Transfer([file EXCEPT !.pos = c.off, !.pos_valid = TRUE], c)

(* The loop after one cell x. *)
NextChunk(file, c, x) ==
    LET moved == [file EXCEPT !.pos = @ + 1]
        rest == [c EXCEPT !.off = @ + 1, !.left = Tail(@), !.got = Append(@, x)]
    IN  IF rest.left = <<>> THEN Return(moved, rest, "ESP_OK") ELSE tnfs_seek(moved, rest)

(* An EOF reply carries no count and is an error like the others. *)
tnfs_read_at(file, c, r) ==
    IF r.status # "OK" THEN Broken(file, c, r) ELSE NextChunk(file, c, r.data[1])

tnfs_write_at(file, c, r) ==
    IF r.status # "OK" THEN Broken(file, c, r)
    ELSE NextChunk([file EXCEPT !.size = IF c.off + 1 > @ THEN c.off + 1 ELSE @],
                   c, Head(c.left))

(***************************************************************************)
(* tnfs_list_dir.                                                          *)
(***************************************************************************)
OpenDir(c, request) == [cmd |-> request, path |-> c.arg, pattern |-> Names]

tnfs_list_dir(file, c) == Ask(file, c, "opendirx", OpenDir(c, "OPENDIRX"))

Closedir(file, c, err) ==
    Ask(file, [c EXCEPT !.err = err], "closedir", [cmd |-> "CLOSEDIR", dh |-> c.dh])

ReadDirx(file, c) == Ask(file, c, "readdirx", [cmd |-> "READDIRX", dh |-> c.dh, n |-> 1])
ReadDir(file, c) == Ask(file, c, "readdir", [cmd |-> "READDIR", dh |-> c.dh])

(* Whatever is neither success nor ENOENT means that there is no OPENDIRX. *)
tnfs_listx(file, c, r) ==
    CASE r.status = "OK" -> ReadDirx(file, [c EXCEPT !.dh = r.dh])
      [] r.status \in {"timeout", "ENOENT"} -> Closedir(file, c, status_err(r))
      [] OTHER -> Ask(file, c, "opendir", OpenDir(c, "OPENDIR"))

AfterReadDirx(file, c, r) ==
    LET more == [c EXCEPT !.got = @ \o r.names]
    IN  CASE r.status = "EOF" -> Closedir(file, c, "ESP_OK")
          [] r.status \notin {"OK", "EOF"} -> Closedir(file, c, status_err(r))
          [] r.status = "OK" /\ r.eof -> Closedir(file, more, "ESP_OK")
          [] OTHER -> ReadDirx(file, more)

tnfs_list_basic(file, c, r) ==
    IF r.status = "OK" THEN ReadDir(file, [c EXCEPT !.dh = r.dh])
    ELSE Closedir(file, c, status_err(r))

(* Names only: every entry is reported as a file. *)
AfterReadDir(file, c, r) ==
    CASE r.status = "EOF" -> Closedir(file, c, "ESP_OK")
      [] r.status \notin {"OK", "EOF"} -> Closedir(file, c, status_err(r))
      [] OTHER -> ReadDir(file, [c EXCEPT !.got =
                     @ \o [i \in DOMAIN r.names |-> [r.names[i] EXCEPT !.dir = FALSE]]])

(***************************************************************************)
(* What follows a command.                                                 *)
(***************************************************************************)
Reply == Head(outbox)

(* The id of the session is in the header of the reply. *)
AfterMount(file, c, r) ==
    CASE r.status = "OK" -> LET mounted == [file EXCEPT !.conn = Reply.sid]
                            IN  IF c.op = "open" THEN tnfs_open(mounted, c)
                                ELSE tnfs_list_dir(mounted, c)
      [] r.status # "OK" /\ ~file.tcp /\ server.tcp -> tnfs_try(file, c, TRUE)
      [] OTHER -> Return([NoFile EXCEPT !.sock = file.sock], c, "ESP_ERR_TIMEOUT")

After(file, c, r) ==
    CASE c.at = "mount" -> AfterMount(file, c, r)
      [] c.at = "umount" -> Umounted(file, c)
      [] c.at = "open" -> AfterOpen(file, c, r)
      [] c.at = "size" -> AfterSize(file, c, r)
      [] c.at = "seek" -> AfterSeek(file, c, r)
      [] c.at = "read" -> tnfs_read_at(file, c, r)
      [] c.at = "write" -> tnfs_write_at(file, c, r)
      [] c.at = "close" -> Umount(file, c, "ESP_OK")
      [] c.at = "opendirx" -> tnfs_listx(file, c, r)
      [] c.at = "readdirx" -> AfterReadDirx(file, c, r)
      [] c.at = "opendir" -> tnfs_list_basic(file, c, r)
      [] c.at = "readdir" -> AfterReadDir(file, c, r)
      [] c.at = "closedir" -> Umount(file, c, c.err)

(* send(): a server that only listens on TCP does not see datagrams. *)
Send(queue, m) == IF server.tcp /\ ~m.tcp THEN queue ELSE SendTo(queue, m)

(* The client goes on with o: the first attempt of its command is sent, or *)
(* the call returns.                                                       *)
Proceed(o) ==
    /\ f' = o.f
    /\ call' = o.call
    /\ \/ /\ o.ask = <<>>
          /\ cmd' = NoCmd /\ last' = o.ret[1]
          /\ UNCHANGED <<inbox, sent>>
       \/ /\ o.ask # <<>>
          /\ cmd' = [m |-> WithHeader([peer |-> o.f.sock, tcp |-> o.f.tcp, sid |-> o.f.conn,
                                       seq |-> o.f.seq, id |-> sent + 1, wf |-> TRUE],
                                      o.ask[1]),
                     attempt |-> 1]
          /\ inbox' = Send(inbox, cmd'.m)
          /\ sent' = sent + 1
          /\ last' = NoResult

(***************************************************************************)
(* tnfs_command().                                                         *)
(***************************************************************************)
Calling == call.at # "idle"

(* Seeded bug: attempts are not counted. *)
RetransmitForever ==
    /\ inbox' = Send(inbox, cmd.m)
    /\ UNCHANGED <<cmd, f, call, last, sent, clean>>
Retransmit ==
    /\ inbox' = Send(inbox, cmd.m)
    /\ cmd' = [cmd EXCEPT !.attempt = @ + 1]
    /\ UNCHANGED <<f, call, last, sent, clean>>

(* No attempt is left: the sequence number stays. *)
GiveUp ==
    /\ Proceed(After(f, call, Timeout))
    /\ clean' = (clean /\ cmd.m.cmd # "LSEEK")

(* SO_RCVTIMEO elapsed. A datagram may be late; a stream is given up when  *)
(* the server does not answer at all.                                      *)
TimesOut ==
    /\ Calling
    /\ f.tcp => inbox = <<>> /\ outbox = <<>>
    /\ \/ cmd.attempt < Retries /\ ~f.tcp /\ Retransmit
       \/ (cmd.attempt = Retries \/ f.tcp) /\ GiveUp
    /\ UNCHANGED <<outbox, server, calls>>

(* Seeded bug: a late reply to an earlier command of the kind is taken. *)
CommandOnly == Reply.cmd = cmd.m.cmd
(* tcp_response takes what comes; udp_response looks at the header. *)
udp_response == Reply.seq = cmd.m.seq /\ Reply.cmd = cmd.m.cmd
tcp_response == TRUE
Accepts == Reply.peer = f.sock /\ IF f.tcp THEN tcp_response ELSE udp_response

(* A stale reply, or one to a socket that is closed. *)
Discard ==
    /\ outbox # <<>> /\ ~(Calling /\ Accepts)
    /\ outbox' = Tail(outbox)
    /\ UNCHANGED <<clientVars, inbox>>

(* The server is busy: another attempt after a while, or none is left. *)
Backoff ==
    /\ Calling /\ outbox # <<>> /\ Accepts /\ Reply.body.status = "EAGAIN"
    /\ \/ cmd.attempt < Retries /\ Retransmit
       \/ cmd.attempt = Retries /\ GiveUp
    /\ outbox' = Tail(outbox)
    /\ UNCHANGED <<server, calls>>

(* The answer; only now the sequence number advances. *)
Responds ==
    /\ Calling /\ outbox # <<>> /\ Accepts /\ Reply.body.status # "EAGAIN"
    /\ Proceed(After([f EXCEPT !.seq = (cmd.m.seq + 1) % SeqLimit], call, Reply.body))
    /\ outbox' = Tail(outbox)
    /\ UNCHANGED <<server, calls, clean>>

(***************************************************************************)
(* The calls, made by the disk-I/O worker and by the console.              *)
(***************************************************************************)
Begin(op, arg) == [op |-> op, at |-> "begin", arg |-> arg, got |-> <<>>, err |-> "ESP_OK",
                   off |-> 0, left |-> <<>>, dh |-> 0]

Open == f.conn # 0

Call ==
    /\ ~Calling /\ calls < MaxCalls
    /\ calls' = calls + 1
    /\ \/ /\ ~Open /\ clean' = TRUE
          /\ \/ \E a \in OpenArgs : Proceed(tnfs_try(f, Begin("open", a), FALSE))
             \/ \E p \in ListArgs : Proceed(tnfs_try(f, Begin("list_dir", p), FALSE))
       \/ /\ Open /\ UNCHANGED clean
          /\ \/ \E op \in {"read_at", "write_at"} :
                   \E a \in IF op = "read_at" THEN ReadArgs ELSE WriteArgs :
                      Proceed(tnfs_seek(f, [Begin(op, a) EXCEPT !.off = a.off, !.left = a.cells]))
             \/ Proceed(Ask(f, Begin("close", 0), "close", [cmd |-> "CLOSE", fd |-> f.fd]))
    /\ UNCHANGED <<outbox, server>>

ClientInit ==
    /\ call = NoCall /\ cmd = NoCmd /\ last = NoResult
    /\ server \in Servers
    /\ calls = 0 /\ clean = TRUE

ClientNext == TimesOut \/ Discard \/ Backoff \/ Responds \/ Call
=============================================================================
