---------------------------- MODULE DriveService ----------------------------
(***************************************************************************)
(* What the FDC+ protocol promises the host: a drive that does one         *)
(* operation at a time. A write may reach the image more than once, but    *)
(* only while the host waits for it; it is reported as done only after it  *)
(* has; and a read returns what the track holds.                           *)
(*                                                                         *)
(* A host that loses patience with an operation puts the drive in doubt:   *)
(* answers carry no track number, so one to the earlier command may be     *)
(* taken for one to a later command.                                       *)
(***************************************************************************)
CONSTANTS Tracks, Data, NoOp

VARIABLES
    image,   \* the contents of the tracks
    op,      \* the operation the host waits for, [cmd] with a track and data
    written, \* whether its data has reached the image
    result,  \* how the last operation ended
    doubt    \* an answer may be to a command that the host has repeated

driveVars == <<image, op, written, result, doubt>>

Ops == [cmd : {"READ"}, track : Tracks] \union [cmd : {"WRIT"}, track : Tracks, data : Data]
       \union [cmd : {"STAT"}]

DriveInit ==
    /\ image \in [Tracks -> Data] /\ op = NoOp /\ written = FALSE /\ result = "none"
    /\ doubt = FALSE

(* The doubt ends when a command is sent on a quiet line. *)
Settle == doubt' \in {doubt, FALSE}

Issue ==
    /\ op = NoOp /\ op' \in Ops
    /\ written' = FALSE /\ result' = "none"
    /\ Settle
    /\ UNCHANGED image

(* The command again: too early, or on a line that may be quiet. *)
Again ==
    /\ op # NoOp
    /\ doubt' = TRUE \/ Settle
    /\ UNCHANGED <<image, op, written, result>>

Store ==
    /\ op # NoOp /\ op.cmd = "WRIT"
    /\ image' = [image EXCEPT ![op.track] = op.data]
    /\ written' = TRUE
    /\ UNCHANGED <<op, result, doubt>>

(* In doubt, the data may be of another write, and so may the track. *)
Stray ==
    /\ doubt
    /\ \E t \in Tracks, d \in Data : image' = [image EXCEPT ![t] = d]
    /\ written' \in {written, TRUE}
    /\ UNCHANGED <<op, result, doubt>>

Return ==
    /\ op # NoOp /\ op' = NoOp
    /\ \/ op.cmd = "READ" /\ result' \in IF doubt THEN Data ELSE {image[op.track]}
       \/ op.cmd = "WRIT" /\ (written \/ doubt) /\ result' = "OK"
       \/ op.cmd = "STAT" /\ result' = "OK"
       \/ result' = "error"
    /\ UNCHANGED <<image, written, doubt>>

DriveSpec == DriveInit /\ [][Issue \/ Again \/ Store \/ Stray \/ Return]_driveVars
=============================================================================
