------------------------------ MODULE FdcServer ------------------------------
(***************************************************************************)
(* The FDC+ protocol engine (src/src/fdc/fdc.c, src/include/protocol.h)    *)
(* and the FDC+ at the other end of a line that loses and garbles bytes.   *)
(*                                                                         *)
(* A command block is two tokens, a track DataLen tokens and a checksum.   *)
(* A block or a track is valid when its tokens are those of one message:   *)
(* a checksum that matches by chance is left out.                          *)
(***************************************************************************)
EXTENDS Naturals, Sequences, SequencesExt

CONSTANTS
    Tracks,    \* the tracks of the drive
    Data,      \* what a track can hold
    NoOp,      \* the host waits for nothing
    DataLen,   \* tokens of a track
    MaxFaults  \* bound on the faults of the line and of the card, and on the
               \* repeats that come while the engine is still at the command

(* The commands of the host. *)
Ops == [cmd : {"READ"}, track : Tracks] \union [cmd : {"WRIT"}, track : Tracks, data : Data]
       \union [cmd : {"STAT"}]

ASSUME ServerAssumption ==
    DataLen \in Nat \ {0} /\ MaxFaults \in Nat /\ NoOp \notin Ops

VARIABLES
    rx,      \* tokens to the server: the line and the UART's ring
    tx,      \* tokens to the host
    fpc,     \* the position of fdc_task: "poll", "block", "reading", "data",
             \* "cksum" or "writing"
    s_cmd,   \* the tokens of the command block
    s_data,  \* the tokens of the track that is received
    overrun, \* an overflow event is in the UART's event queue
    drive,   \* the drive: "none" mounted, read-only "ro", or "rw"
    faults   \* the number of faults so far

(* The host and the image; see DriveService. *)
VARIABLES
    hpc,     \* the host: "idle", "sent" a command, or sent the "track"
    image, op, written, result,
    early    \* it has repeated a command too early: see EarlyRepeat

vars == <<rx, tx, fpc, s_cmd, s_data, overrun, drive, faults, hpc, image, op, written, result,
          early>>

Junk == <<"junk">>
Block(o) == << <<"head", o>>, <<"tail", o>> >>
Track(d) == [i \in 1 .. DataLen |-> <<"data", d, i>>]
Cksum(d) == <<"cksum", d>>
Resp(cmd, code) == <<"resp", cmd, code>>

(* fdc_block_valid, and the checksum of a track. *)
fdc_block_valid(b) == b[1][1] = "head" /\ b = Block(b[1][2])
fdc_checksum16(ck) == ck[1] = "cksum" /\ s_data = Track(ck[2])

Command == s_cmd[1][2]

Init ==
    /\ rx = <<>> /\ tx = <<>> /\ fpc = "poll" /\ s_cmd = <<>> /\ s_data = <<>>
    /\ overrun = FALSE /\ drive \in {"none", "ro", "rw"} /\ faults = 0
    /\ hpc = "idle" /\ op = NoOp /\ written = FALSE /\ result = "none" /\ early = FALSE
    /\ image \in [Tracks -> Data]

host == <<hpc, op, written, result, early>>

(***************************************************************************)
(* fdc_task.                                                               *)
(***************************************************************************)
(* Seeded bug: the event stays in the queue. *)
PeekUartEvents ==
    /\ fpc = "poll" /\ overrun
    /\ rx' = <<>>
    /\ UNCHANGED <<tx, fpc, s_cmd, s_data, overrun, drive, faults, image, host>>
(* The top of the loop: after an overflow the input is flushed. *)
drain_uart_events ==
    /\ fpc = "poll" /\ overrun
    /\ overrun' = FALSE /\ rx' = <<>>
    /\ UNCHANGED <<tx, fpc, s_cmd, s_data, drive, faults, image, host>>

(* link_recv of the first byte. *)
Poll ==
    /\ fpc = "poll" /\ ~overrun /\ rx # <<>>
    /\ s_cmd' = <<Head(rx)>> /\ rx' = Tail(rx)
    /\ fpc' = "block"
    /\ UNCHANGED <<tx, s_data, overrun, drive, faults, image, host>>

Idle == fpc' = "poll" /\ s_cmd' = <<>> /\ s_data' = <<>>

(* The handler of the command goes on. *)
Go(pc) == fpc' = pc /\ s_cmd' = Block(Command) /\ UNCHANGED s_data

handle_stat ==
    /\ tx' = Append(tx, Resp("STAT", drive # "none"))
    /\ Idle

(* Ready: the answer comes before the data. *)
handle_writ ==
    \/ drive = "rw" /\ tx' = Append(tx, Resp("WRIT", "OK")) /\ Go("data")
    \/ drive # "rw" /\ tx' = Append(tx, Resp("WRIT", "NOT_READY")) /\ Idle

dispatch ==
    \/ Command.cmd = "STAT" /\ handle_stat
    \/ Command.cmd = "READ" /\ Go("reading") /\ UNCHANGED tx
    \/ Command.cmd = "WRIT" /\ handle_writ

(* The rest of the block: a bad one is ignored. *)
Receive ==
    /\ fpc = "block" /\ rx # <<>>
    /\ rx' = Tail(rx)
    /\ \/ fdc_block_valid(Append(s_cmd, Head(rx))) /\ dispatch
       \/ ~fdc_block_valid(Append(s_cmd, Head(rx))) /\ Idle /\ UNCHANGED tx
    /\ UNCHANGED <<overrun, drive, faults, image, host>>

(* disk_read_track and the reply; there is none without a disk, or when    *)
(* the card fails.                                                         *)
handle_read ==
    /\ fpc = "reading"
    /\ \/ /\ drive # "none"
          /\ tx' = tx \o Track(image[Command.track]) \o <<Cksum(image[Command.track])>>
          /\ UNCHANGED faults
       \/ drive = "none" /\ UNCHANGED <<tx, faults>>
       \/ faults < MaxFaults /\ faults' = faults + 1 /\ UNCHANGED tx
    /\ Idle
    /\ UNCHANGED <<rx, overrun, drive, image, host>>

(* The track, ... *)
RecvData ==
    /\ fpc = "data" /\ rx # <<>>
    /\ s_data' = Append(s_data, Head(rx)) /\ rx' = Tail(rx)
    /\ fpc' = IF Len(s_data') = DataLen THEN "cksum" ELSE "data"
    /\ UNCHANGED <<tx, s_cmd, overrun, drive, faults, image, host>>

(* ... and its checksum: bad data is reported and not written. *)
RecvCksum ==
    /\ fpc = "cksum" /\ rx # <<>>
    /\ rx' = Tail(rx)
    /\ \/ /\ fdc_checksum16(Head(rx))
          /\ Go("writing") /\ UNCHANGED tx
       \/ /\ ~fdc_checksum16(Head(rx))
          /\ tx' = Append(tx, Resp("WSTA", "CSUM_ERR")) /\ Idle
    /\ UNCHANGED <<overrun, drive, faults, image, host>>

(* A short read: the window, which is long against the time on the line,   *)
(* has passed and nothing is under way. The input is flushed.              *)
RecvTimeout ==
    /\ fpc \in {"block", "data", "cksum"} /\ rx = <<>> /\ tx = <<>>
    /\ Idle
    /\ UNCHANGED <<rx, tx, overrun, drive, faults, image, host>>

(* disk_write_track: on the card before WSTA, unless it fails. *)
Written ==
    /\ drive = "rw"
    /\ image' = [image EXCEPT ![Command.track] = s_data[1][2]]
    /\ written' = (written \/ (Command = op /\ s_data[1][2] = op.data))
    /\ tx' = Append(tx, Resp("WSTA", "OK"))
    /\ UNCHANGED faults

(* Seeded bug: the answer does not depend on disk_write_track. *)
NotWrittenOk ==
    /\ \/ drive # "rw" /\ UNCHANGED faults
       \/ faults < MaxFaults /\ faults' = faults + 1
    /\ tx' = Append(tx, Resp("WSTA", "OK"))
    /\ UNCHANGED <<image, written>>
NotWritten ==
    /\ \/ drive # "rw" /\ UNCHANGED faults
       \/ faults < MaxFaults /\ faults' = faults + 1
    /\ tx' = Append(tx, Resp("WSTA", "WRITE_ERR"))
    /\ UNCHANGED <<image, written>>

Write ==
    /\ fpc = "writing"
    /\ Written \/ NotWritten
    /\ Idle
    /\ UNCHANGED <<rx, overrun, drive, hpc, op, result, early>>

Server == drain_uart_events \/ Poll \/ Receive \/ handle_read
          \/ RecvData \/ RecvCksum \/ RecvTimeout \/ Write

(***************************************************************************)
(* The surroundings: the console, the line, and the host (external).       *)
(***************************************************************************)
Console ==
    /\ fpc \notin {"reading", "writing"}
    /\ drive' \in IF drive = "none" THEN {"ro", "rw"} ELSE {"none"}
    /\ UNCHANGED <<rx, tx, fpc, s_cmd, s_data, overrun, faults, image, host>>

(* A token is lost, with or without the UART's notice, or garbled. *)
Noise ==
    /\ faults < MaxFaults /\ faults' = faults + 1
    /\ \/ \E i \in DOMAIN rx : rx' = RemoveAt(rx, i) /\ overrun' \in {overrun, TRUE} /\ UNCHANGED tx
       \/ \E i \in DOMAIN rx : rx' = [rx EXCEPT ![i] = Junk] /\ UNCHANGED <<overrun, tx>>
       \/ \E i \in DOMAIN tx : tx' = RemoveAt(tx, i) /\ UNCHANGED <<rx, overrun>>
    /\ UNCHANGED <<fpc, s_cmd, s_data, drive, image, host>>

(* Nothing is on the line, and the engine waits for a command. *)
Quiet == fpc = "poll" /\ rx = <<>> /\ tx = <<>>

SendCommand ==
    /\ op = NoOp
    /\ \E o \in Ops : op' = o /\ rx' = rx \o Block(o)
    /\ hpc' = "sent" /\ written' = FALSE /\ result' = "none"
    /\ early' = (early /\ ~Quiet)
    /\ UNCHANGED <<tx, fpc, s_cmd, s_data, overrun, drive, faults, image>>

(* A second without an answer: the same command again. The time on the     *)
(* line is short, and the server's command window, which began before the  *)
(* host's last byte, is over.                                              *)
Repeat ==
    /\ op # NoOp /\ rx = <<>> /\ tx = <<>>
    /\ fpc \in {"poll", "data"}
    /\ rx' = Block(op) /\ hpc' = "sent"
    /\ early' = (early /\ ~Quiet)
    /\ UNCHANGED <<tx, fpc, s_cmd, s_data, overrun, drive, faults, image, op, written, result>>

(* The second is over while the engine is in disk_read_track or            *)
(* disk_write_track, which for a remote drive may take REMOTE_OP_WAIT_MS;  *)
(* from then on the host cannot tell which of its commands the engine is   *)
(* at, and may repeat itself at any time until the line is quiet.          *)
EarlyRepeat ==
    /\ op # NoOp /\ (fpc \in {"reading", "writing"} \/ (early /\ ~Quiet))
    /\ faults < MaxFaults /\ faults' = faults + 1
    /\ rx' = rx \o Block(op) /\ hpc' = "sent" /\ early' = TRUE
    /\ UNCHANGED <<tx, fpc, s_cmd, s_data, overrun, drive, image, op, written, result>>

(* What the host takes from the line, and how the operation ends. *)
GoodTrack == \E d \in Data : IsPrefix(Append(Track(d), Cksum(d)), tx)

Ends(r, rest) == op' = NoOp /\ hpc' = "idle" /\ result' = r /\ tx' = rest /\ UNCHANGED rx

Answers(cmd) == Head(tx)[1] = "resp" /\ Head(tx)[2] = cmd

HostRead ==
    /\ op.cmd = "READ" /\ GoodTrack
    /\ Ends(tx[1][2], SubSeq(tx, DataLen + 2, Len(tx)))

HostStat == op.cmd = "STAT" /\ Answers("STAT") /\ Ends("OK", Tail(tx))

HostWrit ==
    /\ op.cmd = "WRIT" /\ hpc = "sent" /\ Answers("WRIT")
    /\ \/ /\ Head(tx)[3] = "OK"
          /\ rx' = rx \o Append(Track(op.data), Cksum(op.data))
          /\ hpc' = "track" /\ tx' = Tail(tx) /\ UNCHANGED <<op, result>>
       \/ Head(tx)[3] = "NOT_READY" /\ Ends("error", Tail(tx))

HostWsta ==
    /\ op.cmd = "WRIT" /\ hpc = "track" /\ Answers("WSTA")
    /\ Ends(IF Head(tx)[3] = "OK" THEN "OK" ELSE "error", Tail(tx))

(* Anything else is dropped. *)
Expected ==
    /\ op # NoOp
    /\ CASE op.cmd = "READ" -> GoodTrack
         [] op.cmd = "STAT" -> Answers("STAT")
         [] op.cmd = "WRIT" -> Answers(IF hpc = "sent" THEN "WRIT" ELSE "WSTA")
HostDrop == ~Expected /\ tx' = Tail(tx) /\ UNCHANGED <<rx, hpc, op, result>>

HostReceive ==
    /\ tx # <<>>
    /\ \/ Expected /\ (HostRead \/ HostStat \/ HostWrit \/ HostWsta)
       \/ HostDrop
    /\ UNCHANGED <<fpc, s_cmd, s_data, overrun, drive, faults, image, written, early>>

Next == Server \/ Console \/ Noise \/ SendCommand \/ Repeat \/ EarlyRepeat \/ HostReceive

(* The fdc task runs on, and the host waits no longer than its time-out. *)
Spec == Init /\ [][Next]_vars /\ WF_vars(Server) /\ WF_vars(HostReceive) /\ WF_vars(Repeat)

-----------------------------------------------------------------------------
(* The engine is the drive of DriveService, whatever the line loses or     *)
(* garbles and however often the host repeats a command: a repeated WRIT   *)
(* is harmless, WSTA OK means that the track is on the card, nothing else  *)
(* is ever written, and a READ gives the track that was asked for. When    *)
(* the host has repeated a command that the engine was still at, all this  *)
(* is in doubt until it sends one on a quiet line, and holds again then.   *)
Drive == INSTANCE DriveService WITH
    image <- image, op <- op, written <- written, result <- result, doubt <- early
Serves == Drive!DriveSpec

(* After the last fault the link recovers by itself: an operation ends as  *)
(* long as the drive stays mounted (the time-outs and the flushes),        *)
(* whatever commands an early repeat has left on the line.                 *)
Recovers == op # NoOp ~> (op = NoOp \/ drive = "none")
=============================================================================
