--------------------------- MODULE FdcServerProofs ---------------------------
(***************************************************************************)
(* That the FDC+ engine on its faulty line implements DriveService, for    *)
(* every set of tracks and data, length of a track and number of faults.   *)
(***************************************************************************)
EXTENDS FdcServer, TLAPS, SequenceTheorems

(* What the host can have put on the line for the operation it waits for. *)
DataTokens(d) == {Cksum(d)} \union {<<"data", d, i>> : i \in 1 .. DataLen}
Sent == {Junk, <<"head", op>>, <<"tail", op>>}
        \union IF op.cmd = "WRIT" THEN DataTokens(op.data) ELSE {}

(* What the server can have answered to it, and how much of it. *)
Replies ==
    CASE op.cmd = "READ" -> DataTokens(image[op.track])
      [] op.cmd = "STAT" -> {Resp("STAT", b) : b \in BOOLEAN}
      [] op.cmd = "WRIT" ->
           {Resp("WRIT", "OK"), Resp("WRIT", "NOT_READY"),
            Resp("WSTA", "CSUM_ERR"), Resp("WSTA", "WRITE_ERR")}
           \union IF written THEN {Resp("WSTA", "OK")} ELSE {}
ReplyLen == IF op.cmd = "READ" THEN DataLen + 1 ELSE 1

(* Everything on the line is of the operation that is under way. *)
LineOfOp ==
    /\ op \in Ops
    /\ rx \in Seq(Sent) /\ s_cmd \in Seq(Sent) /\ s_data \in Seq(Sent)
    /\ tx \in Seq(Replies) /\ Len(tx) <= ReplyLen

(* An answer travels on an otherwise empty line, and "go on with the data" *)
(* only while the engine waits for them.                                   *)
OneDirection ==
    tx # <<>> =>
        /\ rx = <<>>
        /\ \/ fpc = "poll" /\ tx # <<Resp("WRIT", "OK")>>
           \/ fpc = "data" /\ tx = <<Resp("WRIT", "OK")>> /\ s_data = <<>>

(* The input never outlasts the step of the engine that takes it. *)
InputBound ==
    \/ fpc = "poll" /\ Len(rx) <= 2 /\ s_cmd = <<>> /\ s_data = <<>>
    \/ fpc = "block" /\ Len(rx) <= 1 /\ Len(s_cmd) = 1 /\ s_data = <<>>
    \/ fpc = "reading" /\ rx = <<>> /\ op.cmd = "READ" /\ s_cmd = Block(op)
    \/ /\ fpc = "data" /\ Len(s_data) < DataLen
       /\ Len(rx) <= DataLen - Len(s_data) + 1
       /\ op.cmd = "WRIT" /\ s_cmd = Block(op)
    \/ fpc = "cksum" /\ Len(rx) <= 1 /\ op.cmd = "WRIT" /\ s_cmd = Block(op)
    \/ /\ fpc = "writing" /\ rx = <<>> /\ op.cmd = "WRIT" /\ s_cmd = Block(op)
       /\ s_data = Track(op.data)

(* Between two operations the line is quiet. *)
Busy == LineOfOp /\ OneDirection /\ InputBound
Exact == (op = NoOp => Quiet /\ s_cmd = <<>> /\ s_data = <<>>) /\ (op # NoOp => Busy)

(* Whatever is on the line, of whichever command of the host.              *)
TrackTokens == UNION {DataTokens(d) : d \in Data}
Tokens == {Junk} \union {<<"head", o>> : o \in Ops} \union {<<"tail", o>> : o \in Ops}
          \union TrackTokens
Answer == TrackTokens
          \union {Resp(c, r) : c \in {"STAT", "WRIT", "WSTA"},
                               r \in BOOLEAN \union {"OK", "NOT_READY", "CSUM_ERR", "WRITE_ERR"}}

(* The engine is at a command that the host has sent at some time, and a   *)
(* track that it writes is one that the host has sent.                     *)
AtCommand ==
    /\ fpc \in {"poll", "block", "reading", "data", "cksum", "writing"}
    /\ fpc = "poll" => s_cmd = <<>> /\ s_data = <<>>
    /\ fpc = "block" => Len(s_cmd) = 1 /\ s_data = <<>>
    /\ fpc = "reading" => \E o \in Ops : o.cmd = "READ" /\ s_cmd = Block(o)
    /\ fpc \in {"data", "cksum", "writing"} => \E o \in Ops : o.cmd = "WRIT" /\ s_cmd = Block(o)
    /\ fpc = "writing" => \E d \in Data : s_data = Track(d)

Types ==
    /\ op \in Ops \union {NoOp} /\ written \in BOOLEAN /\ early \in BOOLEAN
    /\ image \in [Tracks -> Data]
    /\ rx \in Seq(Tokens) /\ s_cmd \in Seq(Tokens) /\ s_data \in Seq(Tokens)
    /\ tx \in Seq(Answer)
    /\ AtCommand

(* After an early repeat only the types are left, until a command is sent  *)
(* on a quiet line.                                                        *)
IInv == Types /\ (early \/ Exact)

-----------------------------------------------------------------------------
(* Taking one token out of a line leaves the others (RemoveAt of the       *)
(* community modules).                                                     *)
LEMMA RemoveAtType ==
  ASSUME NEW S, NEW s \in Seq(S), NEW i \in DOMAIN s
  PROVE  RemoveAt(s, i) \in Seq(S) /\ Len(RemoveAt(s, i)) = Len(s) - 1
<1> DEFINE a == SubSeq(s, 1, i - 1)
           b == SubSeq(s, i + 1, Len(s))
<1>0. Len(s) \in Nat /\ i \in 1 .. Len(s)
  BY LenProperties
<1>1. a \in Seq(S) /\ Len(a) = i - 1
  BY <1>0, SubSeqProperties, ElementOfSeq
<1>2. b \in Seq(S) /\ Len(b) = Len(s) - i
  BY <1>0, SubSeqProperties, ElementOfSeq
<1>3. RemoveAt(s, i) = a \o b
  BY DEF RemoveAt
<1> HIDE DEF a, b
<1>4. a \o b \in Seq(S) /\ Len(a \o b) = Len(a) + Len(b)
  BY <1>1, <1>2, ConcatProperties
<1>5. QED
  BY <1>0, <1>1, <1>2, <1>3, <1>4

(* A sequence of one token.                                                *)
LEMMA OneToken ==
  ASSUME NEW S, NEW s \in Seq(S), Len(s) = 1
  PROVE  s[1] \in S /\ s = <<s[1]>>
<1>1. s[1] \in S /\ <<s[1]>> \in Seq(S) /\ Len(<<s[1]>>) = 1
  BY ElementOfSeq
<1>2. QED
  BY <1>1, SeqEqual

(* The first token of a block, and the second.                             *)
LEMMA TwoTokens ==
  ASSUME NEW S, NEW s \in S, NEW t \in S
  PROVE  Append(<<s>>, t) = <<s, t>>
<1>1. <<s>> \in Seq(S) /\ Len(<<s>>) = 1 /\ <<s>>[1] = s
  OBVIOUS
<1>2. <<s, t>> \in Seq(S) /\ Len(<<s, t>>) = 2 /\ <<s, t>>[1] = s /\ <<s, t>>[2] = t
  OBVIOUS
<1>3. /\ Append(<<s>>, t) \in Seq(S) /\ Len(Append(<<s>>, t)) = 2
      /\ Append(<<s>>, t)[1] = s /\ Append(<<s>>, t)[2] = t
  BY <1>1, AppendProperties
<1>4. \A i \in 1 .. 2 : Append(<<s>>, t)[i] = <<s, t>>[i]
  BY <1>2, <1>3
<1>5. QED
  BY <1>2, <1>3, <1>4, SeqEqual

(* What a command of the host can be. *)
LEMMA OpsFields ==
  ASSUME NEW o \in Ops
  PROVE  /\ o # NoOp
         /\ o.cmd \in {"READ", "WRIT", "STAT"}
         /\ o.cmd # "STAT" => o.track \in Tracks
         /\ o.cmd = "WRIT" => o.data \in Data
BY ServerAssumption DEF Ops

(* The tokens of a command block are what the host can have sent. *)
LEMMA BlockSent == Block(op) \in Seq(Sent) /\ Len(Block(op)) = 2
BY DEF Block, Sent

(* A valid block on the line is the block of the operation under way, and  *)
(* a checksum that matches makes the received track the operation's.       *)
LEMMA ValidBlock ==
  ASSUME NEW s \in Sent, NEW t \in Sent, fdc_block_valid(<<s, t>>)
  PROVE  s[2] = op
BY DEF fdc_block_valid, Sent, DataTokens, Junk, Cksum, Block

LEMMA ValidCksum ==
  ASSUME NEW t \in Sent, fdc_checksum16(t)
  PROVE  op.cmd = "WRIT" /\ s_data = Track(op.data)
BY DEF fdc_checksum16, Sent, DataTokens, Junk, Cksum

(* An answer that the host takes for a good track is the whole answer and  *)
(* the track that was asked for.                                           *)
LEMMA TrackTaken ==
  ASSUME op \in Ops, op.cmd = "READ", tx \in Seq(Replies), Len(tx) <= DataLen + 1, GoodTrack
  PROVE  tx[1][2] = image[op.track] /\ SubSeq(tx, DataLen + 2, Len(tx)) = <<>>
<1>1. PICK d \in Data : IsPrefix(Append(Track(d), Cksum(d)), tx)
  BY DEF GoodTrack
<1> DEFINE T == {<<"data", d, i>> : i \in 1 .. DataLen} \union {Cksum(d)}
           g == Append(Track(d), Cksum(d))
<1>2. Track(d) \in Seq(T) /\ Len(Track(d)) = DataLen
  BY ServerAssumption DEF Track
<1>3. g \in Seq(T) /\ Len(g) = DataLen + 1 /\ g[1] = Track(d)[1]
  BY <1>2, ServerAssumption, AppendProperties
<1>4. Track(d)[1] = <<"data", d, 1>>
  BY ServerAssumption DEF Track
<1>5. Len(tx) \in Nat
  BY LenProperties
<1>6. Len(tx) = DataLen + 1
  BY <1>1, <1>3, <1>5, ServerAssumption DEF IsPrefix
<1>7. tx[1] = g[1]
  <2>1. SubSeq(tx, 1, Len(g)) = tx /\ SubSeq(g, 1, Len(g)) = g
    BY <1>3, <1>6, SubSeqFull
  <2>2. QED
    BY <1>1, <2>1 DEF IsPrefix
<1>8. tx[1] \in DataTokens(image[op.track])
  BY <1>6, ServerAssumption, ElementOfSeq DEF Replies
<1>9. d = image[op.track]
  BY <1>3, <1>4, <1>7, <1>8 DEF DataTokens, Cksum
<1>10. SubSeq(tx, DataLen + 2, Len(tx)) = <<>>
  BY <1>6, ServerAssumption, SubSeqEmpty
<1>11. QED
  BY <1>3, <1>4, <1>7, <1>9, <1>10

(* It is a track, in any case.                                             *)
LEMMA GoodTrackData ==
  ASSUME NEW S, tx \in Seq(S), GoodTrack
  PROVE  tx[1][2] \in Data
<1>1. PICK d \in Data : IsPrefix(Append(Track(d), Cksum(d)), tx)
  BY DEF GoodTrack
<1> DEFINE T == {<<"data", d, i>> : i \in 1 .. DataLen} \union {Cksum(d)}
           g == Append(Track(d), Cksum(d))
<1>2. Track(d) \in Seq(T) /\ Len(Track(d)) = DataLen /\ Track(d)[1] = <<"data", d, 1>>
  BY ServerAssumption DEF Track
<1>3. g \in Seq(T) /\ Len(g) = DataLen + 1 /\ g[1] = <<"data", d, 1>>
  BY <1>2, ServerAssumption, AppendProperties
<1>4. Len(tx) \in Nat
  BY LenProperties
<1>5. Len(g) <= Len(tx) /\ SubSeq(g, 1, Len(g)) = SubSeq(tx, 1, Len(g))
  BY <1>1 DEF IsPrefix
<1>6. tx[1] = g[1]
  <2>1. SubSeq(g, 1, Len(g))[1] = g[1] /\ SubSeq(tx, 1, Len(g))[1] = tx[1]
    BY <1>3, <1>4, <1>5, ServerAssumption
  <2>2. QED
    BY <1>5, <2>1
<1>7. QED
  BY <1>3, <1>6

-----------------------------------------------------------------------------
(* The initial states satisfy the invariant.                               *)
LEMMA InitExact == Init => Exact
BY ServerAssumption DEF Init, Exact, Quiet

(* The steps of the engine keep it.                                        *)
LEMMA ServerExact == Exact /\ Server => Exact'
<1> SUFFICES ASSUME Exact, Server PROVE Exact'
  OBVIOUS
<1> USE ServerAssumption
<1>1. CASE op = NoOp
  BY <1>1 DEF Exact, Quiet, Server, drain_uart_events, Poll, Receive, handle_read, RecvData,
              RecvCksum, RecvTimeout, Write, host
<1>2. CASE op # NoOp
  <2>1. op' = op
    BY DEF Server, drain_uart_events, Poll, Receive, handle_read, RecvData, RecvCksum,
           RecvTimeout, Write, host
  <2>2. LineOfOp /\ OneDirection /\ InputBound
    BY <1>2 DEF Exact, Busy
  <2>3. SUFFICES Busy'
    BY <1>2, <2>1 DEF Exact
  <2>4. Sent' = Sent
    BY <2>1 DEF Sent
  <2>5. /\ <<>> \in Seq(Sent) /\ Len(<<>>) = 0
        /\ Block(op) \in Seq(Sent) /\ Len(Block(op)) = 2
        /\ Len(rx) \in Nat /\ Len(s_cmd) \in Nat /\ Len(s_data) \in Nat /\ Len(tx) \in Nat
    BY <2>2, BlockSent, LenProperties DEF LineOfOp
  <2>6. rx # <<>> => /\ Head(rx) \in Sent /\ Tail(rx) \in Seq(Sent)
                     /\ Len(Tail(rx)) = Len(rx) - 1
    BY <2>2, HeadTailProperties DEF LineOfOp
  <2>7. \A c \in Replies' : <<c>> \in Seq(Replies') /\ Len(<<c>>) = 1 /\ <<c>> = Append(<<>>, c)
    OBVIOUS
  <2>8. UNCHANGED <<image, written>> => Replies' = Replies
    BY <2>1 DEF Replies
  <2>9. ReplyLen' = ReplyLen /\ ReplyLen \in Nat \ {0} /\ <<>> \in Seq(Replies')
    BY <2>1, EmptySeq DEF ReplyLen
  <2>10. CASE drain_uart_events
    BY <2>10, <2>1, <2>2, <2>4, <2>5, <2>8, <2>9
       DEF drain_uart_events, host, Busy, LineOfOp, OneDirection, InputBound
  <2>11. CASE Poll
    <3>1. tx = <<>> /\ Len(rx) <= 2
      BY <2>11, <2>2 DEF Poll, OneDirection, InputBound
    <3>2. s_cmd' \in Seq(Sent) /\ Len(s_cmd') = 1
      BY <2>11, <2>6 DEF Poll
    <3>3. QED
      BY <2>11, <2>1, <2>2, <2>4, <2>5, <2>6, <2>8, <2>9, <3>1, <3>2
         DEF Poll, host, Busy, LineOfOp, OneDirection, InputBound
  <2>12. CASE Receive
    <3>1. tx = <<>> /\ rx' = <<>> /\ Len(s_cmd) = 1
      BY <2>12, <2>2, <2>5, <2>6, EmptySeq DEF Receive, OneDirection, InputBound
    <3>2. PICK h \in Sent : s_cmd = <<h>>
      BY <2>2, <3>1, OneToken DEF LineOfOp
    <3>3. Append(s_cmd, Head(rx)) = <<h, Head(rx)>>
      BY <2>6, <2>12, <3>2, TwoTokens DEF Receive
    <3>4. Replies' = Replies
      BY <2>12, <2>8 DEF Receive, dispatch, handle_stat, handle_writ, host
    <3>5. CASE Idle /\ UNCHANGED tx
      BY <3>5, <3>1, <2>1, <2>2, <2>4, <2>5, <2>9
         DEF Idle, Busy, LineOfOp, OneDirection, InputBound
    <3>6. CASE fdc_block_valid(Append(s_cmd, Head(rx))) /\ dispatch
      <4>1. Command = op
        BY <3>6, <2>12, <2>6, <3>2, <3>3, ValidBlock DEF Command, Receive
      <4>2. CASE op.cmd = "STAT" /\ handle_stat
        <5>1. Resp("STAT", drive # "none") \in Replies'
          BY <4>2, <2>1 DEF Replies
        <5>2. tx' = <<Resp("STAT", drive # "none")>> /\ tx' # <<Resp("WRIT", "OK")>>
          BY <4>2, <3>1 DEF handle_stat, Resp
        <5>3. QED
          BY <4>2, <5>1, <5>2, <3>1, <2>1, <2>2, <2>4, <2>5, <2>7, <2>9
             DEF handle_stat, Idle, Busy, LineOfOp, OneDirection, InputBound
      <4>3. CASE op.cmd = "READ" /\ Go("reading") /\ UNCHANGED tx
        BY <4>1, <4>3, <3>1, <2>1, <2>2, <2>4, <2>5, <2>9
           DEF Go, Busy, LineOfOp, OneDirection, InputBound
      <4>4. CASE op.cmd = "WRIT" /\ handle_writ
        <5>1. Resp("WRIT", "OK") \in Replies' /\ Resp("WRIT", "NOT_READY") \in Replies'
          BY <4>4, <2>1 DEF Replies
        <5>2. Resp("WRIT", "NOT_READY") # Resp("WRIT", "OK")
          BY DEF Resp
        <5>3. CASE tx' = Append(tx, Resp("WRIT", "OK")) /\ Go("data")
          <6>1. s_data = <<>>
            BY <2>2, <2>12 DEF InputBound, Receive
          <6>2. QED
            BY <4>1, <4>4, <5>1, <5>3, <6>1, <3>1, <2>1, <2>2, <2>4, <2>5, <2>7, <2>9
               DEF Go, Busy, LineOfOp, OneDirection, InputBound
        <5>4. CASE tx' = Append(tx, Resp("WRIT", "NOT_READY")) /\ Idle
          BY <5>1, <5>2, <5>4, <3>1, <2>1, <2>2, <2>4, <2>5, <2>7, <2>9
             DEF Idle, Busy, LineOfOp, OneDirection, InputBound
        <5>5. QED
          BY <4>4, <5>3, <5>4 DEF handle_writ
      <4>5. QED
        BY <3>6, <4>1, <4>2, <4>3, <4>4 DEF dispatch
    <3>7. QED
      BY <2>12, <3>5, <3>6 DEF Receive
  <2>13. CASE handle_read
    <3>1. tx = <<>> /\ rx = <<>> /\ op.cmd = "READ" /\ Command = op
      BY <2>13, <2>2 DEF handle_read, OneDirection, InputBound, Command, Block
    <3>2. Replies' = DataTokens(image[op.track]) /\ Replies' = Replies
      BY <2>13, <2>8, <3>1 DEF Replies, handle_read, host
    <3>3. CASE tx' = tx
      BY <2>13, <3>1, <3>2, <3>3, <2>1, <2>2, <2>4, <2>5, <2>9
         DEF handle_read, Idle, Busy, LineOfOp, OneDirection, InputBound
    <3>4. CASE tx' = tx \o Track(image[Command.track]) \o <<Cksum(image[Command.track])>>
      <4> DEFINE d == image[op.track]
                 c == <<Cksum(d)>>
      <4>1. Track(d) \in Seq(Replies') /\ Len(Track(d)) = DataLen /\ Track(d)[1] = <<"data", d, 1>>
        BY <3>2 DEF Track, DataTokens
      <4>2. c \in Seq(Replies') /\ Len(c) = 1
        BY <3>2 DEF DataTokens
      <4>3. tx' = Track(d) \o c
        BY <3>1, <3>4, <4>1, ConcatEmptySeq
      <4> HIDE DEF c
      <4>4. tx' \in Seq(Replies') /\ Len(tx') = DataLen + 1 /\ tx'[1] = <<"data", d, 1>>
        <5> HIDE DEF d
        <5>1. /\ Track(d) \o c \in Seq(Replies')
              /\ Len(Track(d) \o c) = Len(Track(d)) + Len(c)
              /\ \A i \in 1 .. Len(Track(d)) + Len(c) :
                    (Track(d) \o c)[i] = IF i <= Len(Track(d)) THEN Track(d)[i]
                                         ELSE c[i - Len(Track(d))]
          BY <4>1, <4>2, ConcatProperties
        <5>2. 1 \in 1 .. Len(Track(d)) + Len(c) /\ 1 <= Len(Track(d))
          BY <4>1, <4>2
        <5>3. QED
          BY <4>1, <4>2, <4>3, <5>1, <5>2
      <4>5. tx' # <<Resp("WRIT", "OK")>>
        BY <4>4 DEF Resp
      <4>6. ReplyLen = DataLen + 1
        BY <3>1 DEF ReplyLen
      <4>7. QED
        BY <2>13, <3>1, <4>4, <4>5, <4>6, <2>1, <2>2, <2>4, <2>5, <2>9
           DEF handle_read, Idle, Busy, LineOfOp, OneDirection, InputBound
    <3>5. QED
      BY <2>13, <3>3, <3>4 DEF handle_read
  <2>14. CASE RecvData
    <3>1. /\ tx = <<>> /\ tx' = tx /\ op.cmd = "WRIT" /\ s_cmd' = Block(op)
          /\ Len(s_data) < DataLen /\ Len(rx) <= DataLen - Len(s_data) + 1
      BY <2>14, <2>2 DEF RecvData, OneDirection, InputBound
    <3>2. s_data' \in Seq(Sent) /\ Len(s_data') = Len(s_data) + 1
      BY <2>14, <2>2, <2>6, AppendProperties DEF RecvData, LineOfOp
    <3>3. rx' \in Seq(Sent) /\ Len(rx') = Len(rx) - 1
      BY <2>14, <2>6 DEF RecvData
    <3>4. \/ fpc' = "cksum" /\ Len(s_data') = DataLen
          \/ fpc' = "data" /\ Len(s_data') # DataLen
      BY <2>14 DEF RecvData
    <3>5. QED
      BY <3>1, <3>2, <3>3, <3>4, <2>1, <2>2, <2>4, <2>5, <2>9
         DEF Busy, LineOfOp, OneDirection, InputBound
  <2>15. CASE RecvCksum
    <3>1. tx = <<>> /\ rx' = <<>> /\ op.cmd = "WRIT" /\ Command = op
      BY <2>15, <2>2, <2>5, <2>6, EmptySeq
         DEF RecvCksum, OneDirection, InputBound, Command, Block
    <3>2. Replies' = Replies
      BY <2>15, <2>8 DEF RecvCksum, host
    <3>3. CASE fdc_checksum16(Head(rx)) /\ Go("writing") /\ UNCHANGED tx
      <4>1. s_data = Track(op.data)
        BY <2>15, <2>6, <3>3, ValidCksum DEF RecvCksum
      <4>2. QED
        BY <4>1, <3>1, <3>2, <3>3, <2>1, <2>2, <2>4, <2>5, <2>9
           DEF Go, Busy, LineOfOp, OneDirection, InputBound
    <3>4. CASE tx' = Append(tx, Resp("WSTA", "CSUM_ERR")) /\ Idle
      <4>1. Resp("WSTA", "CSUM_ERR") \in Replies'
        BY <3>1, <2>1 DEF Replies
      <4>2. Resp("WSTA", "CSUM_ERR") # Resp("WRIT", "OK")
        BY DEF Resp
      <4>3. QED
        BY <3>1, <3>2, <3>4, <4>1, <4>2, <2>1, <2>2, <2>4, <2>5, <2>7, <2>9
           DEF Idle, Busy, LineOfOp, OneDirection, InputBound
    <3>5. QED
      BY <2>15, <3>3, <3>4 DEF RecvCksum
  <2>16. CASE RecvTimeout
    BY <2>16, <2>1, <2>2, <2>4, <2>5, <2>9
       DEF RecvTimeout, Idle, host, Busy, LineOfOp, OneDirection, InputBound
  <2>17. CASE Write
    <3>1. tx = <<>> /\ rx' = <<>> /\ op.cmd = "WRIT"
      BY <2>17, <2>2 DEF Write, OneDirection, InputBound
    <3>2. PICK code \in {"OK", "WRITE_ERR"} :
            tx' = Append(tx, Resp("WSTA", code)) /\ (code = "OK" => written')
      <4>1. Command = op /\ s_data[1][2] = op.data
        BY <2>17, <2>2 DEF Write, InputBound, Command, Block, Track
      <4>2. QED
        BY <2>17, <4>1 DEF Write, Written, NotWritten
    <3>3. Resp("WSTA", code) \in Replies'
      BY <2>1, <3>1, <3>2 DEF Replies
    <3>4. Resp("WSTA", code) # Resp("WRIT", "OK")
      BY DEF Resp
    <3>5. QED
      BY <2>17, <3>1, <3>2, <3>3, <3>4, <2>1, <2>2, <2>4, <2>5, <2>7, <2>9
         DEF Write, Idle, Busy, LineOfOp, OneDirection, InputBound
  <2>18. QED
    BY <2>10, <2>11, <2>12, <2>13, <2>14, <2>15, <2>16, <2>17 DEF Server
<1>3. QED
  BY <1>1, <1>2

(* An answer of which a token is lost, or taken by the host.               *)
LEMMA ReplyShorter ==
  ASSUME Exact, tx # <<>>, tx' \in Seq(Replies), Len(tx') = Len(tx) - 1,
         UNCHANGED <<rx, op, image, written, fpc, s_cmd, s_data>>
  PROVE  Exact'
<1>1. Sent' = Sent /\ Replies' = Replies /\ ReplyLen' = ReplyLen
  BY DEF Sent, Replies, ReplyLen
<1>2. op # NoOp /\ rx = <<>> /\ Len(tx) \in Nat /\ ReplyLen \in Nat
  BY LenProperties, ServerAssumption DEF Exact, Quiet, Busy, OneDirection, LineOfOp, ReplyLen
<1>3. CASE tx' = <<>>
  BY <1>1, <1>2, <1>3 DEF Exact, Busy, LineOfOp, OneDirection, InputBound
<1>4. CASE tx' # <<>>
  <2>1. Len(tx') \in Nat \ {0}
    BY <1>4, EmptySeq
  <2>2. op.cmd = "READ"
    BY <1>2, <2>1 DEF Exact, Busy, LineOfOp, ReplyLen
  <2>3. tx' # <<Resp("WRIT", "OK")>>
    <3>1. tx'[1] \in DataTokens(image[op.track])
      BY <2>1, <2>2, ElementOfSeq DEF Replies
    <3>2. Resp("WRIT", "OK") \notin DataTokens(image[op.track])
      BY DEF Resp, DataTokens, Cksum
    <3>3. QED
      BY <3>1, <3>2
  <2>4. fpc = "poll"
    BY <1>2, <2>2 DEF Exact, Busy, OneDirection, InputBound
  <2>5. QED
    BY <1>1, <1>2, <2>3, <2>4 DEF Exact, Busy, LineOfOp, OneDirection, InputBound
<1>5. QED
  BY <1>3, <1>4

(* Console and line: nothing is added, and what is lost only shortens.     *)
LEMMA NoiseExact == Exact /\ (Console \/ Noise) => Exact'
<1> SUFFICES ASSUME Exact, Console \/ Noise PROVE Exact'
  OBVIOUS
<1>1. op' = op /\ image' = image /\ written' = written /\ UNCHANGED <<fpc, s_cmd, s_data>>
  BY DEF Console, Noise, host
<1>2. Sent' = Sent /\ Replies' = Replies /\ ReplyLen' = ReplyLen
  BY <1>1 DEF Sent, Replies, ReplyLen
<1>3. CASE rx' = rx /\ tx' = tx
  BY <1>1, <1>2, <1>3 DEF Exact, Quiet, Busy, LineOfOp, OneDirection, InputBound
<1>4. CASE rx # <<>> /\ rx' \in Seq(Sent) /\ Len(rx') <= Len(rx) /\ tx' = tx
  <2>1. op # NoOp /\ tx = <<>> /\ rx \in Seq(Sent)
    BY <1>4 DEF Exact, Quiet, Busy, OneDirection, LineOfOp
  <2>2. Len(rx) \in Nat /\ Len(rx') \in Nat /\ Len(s_data) \in Nat
    BY <1>4, <2>1, LenProperties DEF Exact, Busy, LineOfOp
  <2>3. QED
    BY <1>1, <1>2, <1>4, <2>1, <2>2, ServerAssumption
       DEF Exact, Busy, LineOfOp, OneDirection, InputBound
<1>5. CASE tx # <<>> /\ tx' \in Seq(Replies) /\ Len(tx') = Len(tx) - 1 /\ rx' = rx
  BY <1>1, <1>5, ReplyShorter
<1>6. CASE Noise
  <2>1. CASE \E i \in DOMAIN rx : rx' = RemoveAt(rx, i) /\ UNCHANGED tx
    <3>1. PICK i \in DOMAIN rx : rx' = RemoveAt(rx, i)
      BY <2>1
    <3>2. rx \in Seq(Sent) /\ rx # <<>>
      BY <3>1 DEF Exact, Quiet, Busy, LineOfOp
    <3>3. rx' \in Seq(Sent) /\ Len(rx') = Len(rx) - 1 /\ Len(rx) \in Nat
      BY <3>1, <3>2, RemoveAtType, LenProperties
    <3>4. QED
      BY <2>1, <3>2, <3>3, <1>4
  <2>2. CASE \E i \in DOMAIN rx : rx' = [rx EXCEPT ![i] = Junk] /\ UNCHANGED tx
    <3>1. PICK i \in DOMAIN rx : rx' = [rx EXCEPT ![i] = Junk]
      BY <2>2
    <3>2. rx \in Seq(Sent) /\ rx # <<>> /\ Junk \in Sent
      BY <3>1 DEF Exact, Quiet, Busy, LineOfOp, Sent
    <3>3. i \in 1 .. Len(rx) /\ Len(rx) \in Nat
      BY <3>2, LenProperties
    <3>4. rx' \in Seq(Sent) /\ Len(rx') = Len(rx)
      BY <3>1, <3>2, <3>3, ExceptSeq
    <3>5. QED
      BY <2>2, <3>2, <3>3, <3>4, <1>4
  <2>3. CASE \E i \in DOMAIN tx : tx' = RemoveAt(tx, i) /\ UNCHANGED rx
    <3>1. PICK i \in DOMAIN tx : tx' = RemoveAt(tx, i)
      BY <2>3
    <3>2. tx \in Seq(Replies) /\ tx # <<>>
      BY <3>1 DEF Exact, Quiet, Busy, LineOfOp
    <3>3. QED
      BY <2>3, <3>1, <3>2, RemoveAtType, <1>5
  <2>4. QED
    BY <1>6, <2>1, <2>2, <2>3 DEF Noise
<1>7. QED
  BY <1>3, <1>6 DEF Console

(* The host's steps keep it: it sends only on an empty line.               *)
LEMMA HostExact == Exact /\ (SendCommand \/ Repeat \/ HostReceive) => Exact'
<1> SUFFICES ASSUME Exact, SendCommand \/ Repeat \/ HostReceive PROVE Exact'
  OBVIOUS
<1> USE ServerAssumption
<1>1. CASE SendCommand
  <2>1. PICK o \in Ops : op' = o /\ rx' = rx \o Block(o)
    BY <1>1 DEF SendCommand
  <2>2. op = NoOp /\ Quiet /\ s_cmd = <<>> /\ s_data = <<>>
    BY <1>1 DEF SendCommand, Exact
  <2>3. rx' \in Seq(Sent') /\ Len(rx') = 2
    <3>1. Block(o) \in Seq(Sent') /\ Len(Block(o)) = 2
      BY <2>1 DEF Block, Sent
    <3>2. rx' = Block(o)
      BY <2>1, <2>2, <3>1, ConcatEmptySeq DEF Quiet
    <3>3. QED
      BY <3>1, <3>2
  <2>4. ReplyLen' \in Nat \ {0}
    BY DEF ReplyLen
  <2>5. op' \in Ops /\ op' # NoOp
    BY <2>1, OpsFields
  <2>6. fpc' = "poll" /\ tx' = <<>> /\ s_cmd' = <<>> /\ s_data' = <<>>
    BY <1>1, <2>2 DEF SendCommand, Quiet
  <2>7. LineOfOp'
    BY <2>3, <2>4, <2>5, <2>6, EmptySeq DEF LineOfOp
  <2>8. QED
    BY <2>3, <2>5, <2>6, <2>7 DEF Exact, Busy, OneDirection, InputBound
<1>2. CASE Repeat
  <2>1. Sent' = Sent /\ Replies' = Replies /\ ReplyLen' = ReplyLen
    BY <1>2 DEF Repeat, Sent, Replies, ReplyLen
  <2>2. op # NoOp /\ op' = op /\ LineOfOp /\ InputBound /\ tx = <<>> /\ tx' = tx
    BY <1>2 DEF Repeat, Exact, Busy
  <2>3. Len(s_data) \in Nat
    BY <2>2, LenProperties DEF LineOfOp
  <2>4. LineOfOp'
    BY <1>2, <2>1, <2>2, BlockSent DEF Repeat, LineOfOp
  <2>5. InputBound'
    BY <1>2, <2>2, <2>3, BlockSent DEF Repeat, InputBound
  <2>6. OneDirection'
    BY <2>2 DEF OneDirection
  <2>7. QED
    BY <2>2, <2>4, <2>5, <2>6 DEF Exact, Busy
<1>3. CASE HostReceive
  <2>1. /\ tx # <<>> /\ op # NoOp /\ op \in Ops /\ rx = <<>> /\ tx \in Seq(Replies)
        /\ Len(tx) \in Nat \ {0} /\ Len(tx) <= ReplyLen /\ ReplyLen \in Nat
    BY <1>3, LenProperties, EmptySeq
       DEF HostReceive, Exact, Quiet, Busy, LineOfOp, OneDirection, ReplyLen
  <2>2. UNCHANGED <<fpc, s_cmd, s_data, image, written>>
    BY <1>3 DEF HostReceive
  <2>3. Head(tx) = tx[1] /\ Head(tx) \in Replies /\ Tail(tx) \in Seq(Replies)
        /\ Len(Tail(tx)) = Len(tx) - 1
    BY <2>1, HeadTailProperties
  <2>4. CASE HostDrop
    BY <2>1, <2>2, <2>3, <2>4, ReplyShorter DEF HostDrop
  <2>5. op.cmd # "READ" => tx = <<Head(tx)>> /\ Tail(tx) = <<>>
    <3>1. SUFFICES ASSUME op.cmd # "READ" PROVE tx = <<Head(tx)>> /\ Tail(tx) = <<>>
      OBVIOUS
    <3>2. Len(tx) = 1
      <4>1. ReplyLen = 1
        BY <3>1 DEF ReplyLen
      <4>2. Len(tx) \in Nat \ {0} /\ Len(tx) <= ReplyLen
        BY <2>1
      <4>3. QED
        BY <4>1, <4>2
    <3>3. QED
      <4>1. tx = <<Head(tx)>>
        BY <2>1, <2>3, <3>2, OneToken
      <4>2. Len(Tail(tx)) = 0
        BY <2>3, <3>2
      <4>3. QED
        BY <2>3, <4>1, <4>2, EmptySeq
  <2>6. ASSUME op.cmd = "WRIT", Head(tx)[2] = "WRIT", Head(tx)[3] = "OK",
               op' = op, rx' = rx \o Append(Track(op.data), Cksum(op.data)), tx' = Tail(tx)
        PROVE  Exact'
    <3>1. Head(tx) = Resp("WRIT", "OK")
      BY <2>3, <2>6 DEF Replies, Resp
    <3>2. fpc = "data" /\ s_data = <<>> /\ LineOfOp /\ s_cmd = Block(op)
      BY <2>1, <2>5, <2>6, <3>1 DEF Exact, Busy, OneDirection, InputBound
    <3>3. Sent' = Sent /\ Replies' = Replies /\ ReplyLen' = ReplyLen
      BY <2>2, <2>6 DEF Sent, Replies, ReplyLen
    <3>4. rx' \in Seq(Sent) /\ Len(rx') = DataLen + 1
      <4>1. Track(op.data) \in Seq(Sent) /\ Len(Track(op.data)) = DataLen /\ Cksum(op.data) \in Sent
        BY <2>6 DEF Track, Sent, DataTokens
      <4>2. /\ Append(Track(op.data), Cksum(op.data)) \in Seq(Sent)
            /\ Len(Append(Track(op.data), Cksum(op.data))) = DataLen + 1
        BY <4>1, AppendProperties
      <4>3. QED
        BY <2>1, <2>6, <4>2, ConcatEmptySeq
    <3>5. tx' = <<>>
      BY <2>5, <2>6
    <3>6. QED
      BY <2>1, <2>2, <2>6, <3>2, <3>3, <3>4, <3>5, EmptySeq
         DEF Exact, Busy, LineOfOp, OneDirection, InputBound
  <2>7. ASSUME op' = NoOp, tx' = <<>>, rx' = rx, tx # <<Resp("WRIT", "OK")>> PROVE Exact'
    BY <2>1, <2>2, <2>7 DEF Exact, Busy, Quiet, OneDirection, InputBound
  <2>8. CASE HostRead
    <3>1. op.cmd = "READ" /\ LineOfOp /\ OneDirection /\ InputBound
      BY <2>1, <2>8 DEF HostRead, Exact, Busy
    <3>2. SubSeq(tx, DataLen + 2, Len(tx)) = <<>>
      BY <2>1, <2>8, <3>1, TrackTaken DEF HostRead, ReplyLen
    <3>3. tx # <<Resp("WRIT", "OK")>>
      BY <2>1, <3>1 DEF OneDirection, InputBound
    <3>4. QED
      BY <2>7, <2>8, <3>2, <3>3 DEF HostRead, Ends
  <2>9. CASE HostStat
    <3>1. Head(tx) # Resp("WRIT", "OK")
      BY <2>9 DEF HostStat, Answers, Resp
    <3>2. QED
      BY <2>5, <2>7, <2>9, <3>1 DEF HostStat, Ends
  <2>10. CASE HostWrit
    <3>1. op.cmd = "WRIT" /\ Head(tx)[2] = "WRIT"
      BY <2>10 DEF HostWrit, Answers
    <3>2. CASE Head(tx)[3] = "OK"
      BY <2>6, <2>10, <3>1, <3>2 DEF HostWrit
    <3>3. CASE Head(tx)[3] = "NOT_READY"
      <4>1. Head(tx) # Resp("WRIT", "OK")
        BY <3>3 DEF Resp
      <4>2. QED
        <5>1. op' = NoOp /\ tx' = Tail(tx) /\ rx' = rx
          BY <2>10, <3>3 DEF HostWrit, Ends
        <5>2. QED
          BY <2>5, <2>7, <3>1, <4>1, <5>1
    <3>4. QED
      BY <2>10, <3>2, <3>3 DEF HostWrit
  <2>11. CASE HostWsta
    <3>1. Head(tx) # Resp("WRIT", "OK")
      BY <2>11 DEF HostWsta, Answers, Resp
    <3>2. QED
      BY <2>5, <2>7, <2>11, <3>1 DEF HostWsta, Ends
  <2>12. QED
    BY <1>3, <2>4, <2>8, <2>9, <2>10, <2>11 DEF HostReceive
<1>4. QED
  BY <1>1, <1>2, <1>3

-----------------------------------------------------------------------------
(* The types.                                                              *)
LEMMA Strings ==
  /\ \A d \in Data : Cksum(d) \in Tokens /\ Cksum(d) \in Answer
  /\ \A d \in Data : Track(d) \in Seq(Tokens) /\ Track(d) \in Seq(Answer)
  /\ \A d \in Data : Track(d)[1][2] = d
  /\ \A o \in Ops : Block(o) \in Seq(Tokens) /\ Block(o)[1][2] = o
<1> USE ServerAssumption
<1>1. \A d \in Data : DataTokens(d) \subseteq Tokens /\ DataTokens(d) \subseteq Answer
  BY DEF Tokens, Answer, TrackTokens
<1>2. \A d \in Data : Cksum(d) \in DataTokens(d)
  BY DEF DataTokens
<1>3. ASSUME NEW d \in Data
      PROVE  Track(d) \in Seq(DataTokens(d)) /\ Track(d)[1][2] = d
  BY DEF Track, DataTokens
<1>4. ASSUME NEW o \in Ops PROVE Block(o) \in Seq(Tokens) /\ Block(o)[1][2] = o
  BY DEF Block, Tokens
<1>5. ASSUME NEW d \in Data PROVE Track(d) \in Seq(Tokens) /\ Track(d) \in Seq(Answer)
  <2>1. Len(Track(d)) = DataLen /\ \A i \in 1 .. DataLen : Track(d)[i] \in DataTokens(d)
    BY DEF Track, DataTokens
  <2>2. \A i \in 1 .. DataLen : Track(d)[i] \in Tokens /\ Track(d)[i] \in Answer
    BY <1>1, <2>1
  <2>3. QED
    BY <2>2 DEF Track
<1>6. QED
  BY <1>1, <1>2, <1>3, <1>4, <1>5

LEMMA RespAnswer ==
  ASSUME NEW c \in {"STAT", "WRIT", "WSTA"},
         NEW r \in BOOLEAN \union {"OK", "NOT_READY", "CSUM_ERR", "WRITE_ERR"}
  PROVE  Resp(c, r) \in Answer
BY DEF Answer

(* What disk_write_track writes, wherever it comes from.                   *)
LEMMA WriteStores ==
  ASSUME Types, Write, Written
  PROVE  /\ \E t \in Tracks, d \in Data : image' = [image EXCEPT ![t] = d]
         /\ image' \in [Tracks -> Data]
         /\ written' \in {written, TRUE} /\ written' \in BOOLEAN
         /\ UNCHANGED <<op, result, early>>
<1>1. PICK o \in Ops : o.cmd = "WRIT" /\ s_cmd = Block(o)
  BY DEF Write, Types, AtCommand
<1>2. PICK d \in Data : s_data = Track(d)
  BY DEF Write, Types, AtCommand
<1>3. Command.track \in Tracks /\ s_data[1][2] \in Data
  BY <1>1, <1>2, OpsFields, Strings DEF Command
<1>4. QED
  BY <1>3 DEF Types, Write, Written

LEMMA ServerTypes == Types /\ Server => Types'
<1> SUFFICES ASSUME Types, Server PROVE Types'
  OBVIOUS
<1> USE ServerAssumption
<1>0. /\ <<>> \in Seq(Tokens)
      /\ rx # <<>> => Head(rx) \in Tokens /\ Tail(rx) \in Seq(Tokens)
  BY EmptySeq, HeadTailProperties DEF Types
<1>1. \A c \in Answer : Append(tx, c) \in Seq(Answer)
  BY AppendProperties DEF Types
<1>2. UNCHANGED <<op, early>>
  BY DEF Server, drain_uart_events, Poll, Receive, handle_read, RecvData, RecvCksum,
         RecvTimeout, Write, host
<1>3. CASE drain_uart_events
  BY <1>0, <1>3 DEF drain_uart_events, host, Types, AtCommand
<1>4. CASE Poll
  <2>1. s_cmd' \in Seq(Tokens) /\ Len(s_cmd') = 1 /\ s_data = <<>>
    BY <1>0, <1>4 DEF Poll, Types, AtCommand
  <2>2. QED
    BY <1>0, <1>4, <2>1 DEF Poll, host, Types, AtCommand
<1>5. CASE Receive
  <2>1. rx' \in Seq(Tokens) /\ UNCHANGED <<image, written>>
    BY <1>0, <1>5 DEF Receive, host
  <2>2. CASE Idle /\ tx' \in Seq(Answer)
    BY <1>0, <1>2, <2>1, <2>2 DEF Idle, Types, AtCommand
  <2>3. CASE fdc_block_valid(Append(s_cmd, Head(rx))) /\ dispatch
    <3>1. Len(s_cmd) = 1 /\ s_data = <<>> /\ Head(rx) \in Tokens
      BY <1>0, <1>5 DEF Receive, Types, AtCommand
    <3>2. PICK h \in Tokens : s_cmd = <<h>>
      BY <3>1, OneToken DEF Types
    <3>3. Append(s_cmd, Head(rx)) = <<h, Head(rx)>>
      BY <3>1, <3>2, TwoTokens
    <3>4. h[1] = "head" /\ <<h, Head(rx)>> = Block(h[2])
      <4>1. <<h, Head(rx)>>[1] = h
        OBVIOUS
      <4>2. QED
        BY <2>3, <3>3, <4>1 DEF fdc_block_valid
    <3>5. h[2] \in Ops
      BY <3>4 DEF Tokens, TrackTokens, DataTokens, Junk, Cksum
    <3>6. Command = h[2] /\ Command \in Ops
      BY <3>2, <3>5 DEF Command
    <3>7. Block(Command) \in Seq(Tokens)
      BY <3>6, Strings
    <3>8. CASE Go("reading") /\ UNCHANGED tx /\ Command.cmd = "READ"
      BY <1>2, <2>1, <3>1, <3>6, <3>7, <3>8 DEF Go, Types, AtCommand
    <3>9. CASE Go("data") /\ tx' = Append(tx, Resp("WRIT", "OK")) /\ Command.cmd = "WRIT"
      BY <1>1, <1>2, <2>1, <3>1, <3>6, <3>7, <3>9, RespAnswer DEF Go, Types, AtCommand
    <3>10. CASE Idle /\ \/ tx' = Append(tx, Resp("WRIT", "NOT_READY"))
                        \/ tx' = Append(tx, Resp("STAT", drive # "none"))
      <4>1. tx' \in Seq(Answer)
        BY <1>1, <3>10, RespAnswer
      <4>2. QED
        BY <2>2, <3>10, <4>1
    <3>11. QED
      BY <2>3, <3>8, <3>9, <3>10 DEF dispatch, handle_stat, handle_writ
  <2>4. QED
    BY <1>5, <2>2, <2>3 DEF Receive, Types
<1>6. CASE handle_read
  <2>1. PICK o \in Ops : o.cmd = "READ" /\ s_cmd = Block(o)
    BY <1>6 DEF handle_read, Types, AtCommand
  <2>2. Command.track \in Tracks
    BY <2>1, OpsFields DEF Command, Block
  <2>3. image[Command.track] \in Data
    BY <2>2 DEF Types
  <2> DEFINE d == image[Command.track]
  <2>4. Track(d) \in Seq(Answer) /\ <<Cksum(d)>> \in Seq(Answer)
    BY <2>3, Strings
  <2>5. tx \o Track(d) \o <<Cksum(d)>> \in Seq(Answer)
    <3>1. \A q, r \in Seq(Answer) : q \o r \in Seq(Answer)
      BY ConcatProperties
    <3>2. tx \in Seq(Answer)
      BY DEF Types
    <3> HIDE DEF d
    <3>3. QED
      BY <2>4, <3>1, <3>2
  <2>6. tx' \in Seq(Answer)
    BY <1>6, <2>5 DEF handle_read, Types
  <2>7. QED
    BY <1>0, <1>2, <1>6, <2>6 DEF handle_read, host, Idle, Types, AtCommand
<1>7. CASE RecvData
  <2>1. s_data' \in Seq(Tokens) /\ fpc' \in {"data", "cksum"} /\ fpc = "data"
    BY <1>0, <1>7, AppendProperties DEF RecvData, Types
  <2>2. QED
    BY <1>0, <1>7, <2>1 DEF RecvData, host, Types, AtCommand
<1>8. CASE RecvCksum
  <2>1. PICK o \in Ops : o.cmd = "WRIT" /\ s_cmd = Block(o)
    BY <1>8 DEF RecvCksum, Types, AtCommand
  <2>2. rx' \in Seq(Tokens) /\ UNCHANGED <<image, written>>
    BY <1>0, <1>8 DEF RecvCksum, host
  <2>3. CASE fdc_checksum16(Head(rx)) /\ Go("writing") /\ UNCHANGED tx
    <3>1. Command = o
      BY <2>1, Strings DEF Command
    <3>2. Head(rx)[1] = "cksum" /\ s_data = Track(Head(rx)[2]) /\ Head(rx) \in Tokens
      BY <1>0, <1>8, <2>3 DEF fdc_checksum16, RecvCksum
    <3>3. Head(rx)[2] \in Data
      BY <3>2 DEF Tokens, TrackTokens, DataTokens, Junk, Cksum
    <3>4. QED
      BY <1>2, <2>1, <2>2, <2>3, <3>1, <3>2, <3>3 DEF Go, Types, AtCommand
  <2>4. CASE tx' = Append(tx, Resp("WSTA", "CSUM_ERR")) /\ Idle
    BY <1>0, <1>1, <1>2, <2>2, <2>4, RespAnswer DEF Idle, Types, AtCommand
  <2>5. QED
    BY <1>8, <2>3, <2>4 DEF RecvCksum
<1>9. CASE RecvTimeout
  BY <1>0, <1>9 DEF RecvTimeout, Idle, host, Types, AtCommand
<1>10. CASE Write
  <2>1. image' \in [Tracks -> Data] /\ written' \in BOOLEAN
    BY <1>10, WriteStores DEF Types, Write, NotWritten
  <2>2. tx' \in Seq(Answer)
    BY <1>1, <1>10, RespAnswer DEF Write, Written, NotWritten
  <2>3. QED
    BY <1>0, <1>2, <1>10, <2>1, <2>2 DEF Write, Idle, Types, AtCommand
<1>11. QED
  BY <1>3, <1>4, <1>5, <1>6, <1>7, <1>8, <1>9, <1>10 DEF Server

LEMMA NoiseTypes == Types /\ (Console \/ Noise) => Types'
<1> SUFFICES ASSUME Types, Console \/ Noise PROVE Types'
  OBVIOUS
<1>1. UNCHANGED <<op, written, early, image, s_cmd, s_data, fpc>>
  BY DEF Console, Noise, host
<1>2. SUFFICES rx' \in Seq(Tokens) /\ tx' \in Seq(Answer)
  BY <1>1 DEF Types, AtCommand
<1>3. CASE Console
  BY <1>3 DEF Console, Types
<1>4. CASE Noise
  <2>1. \A i \in DOMAIN rx : RemoveAt(rx, i) \in Seq(Tokens)
    BY RemoveAtType DEF Types
  <2>2. \A i \in DOMAIN rx : [rx EXCEPT ![i] = Junk] \in Seq(Tokens)
    <3>1. \A i \in DOMAIN rx : i \in 1 .. Len(rx)
      BY LenProperties DEF Types
    <3>2. Junk \in Tokens
      BY DEF Tokens
    <3>3. QED
      BY <3>1, <3>2, ExceptSeq DEF Types
  <2>3. \A i \in DOMAIN tx : RemoveAt(tx, i) \in Seq(Answer)
    BY RemoveAtType DEF Types
  <2>4. QED
    BY <1>4, <2>1, <2>2, <2>3 DEF Noise, Types
<1>5. QED
  BY <1>3, <1>4

LEMMA HostTypes == Types /\ (SendCommand \/ Repeat \/ EarlyRepeat \/ HostReceive) => Types'
<1> SUFFICES ASSUME Types, SendCommand \/ Repeat \/ EarlyRepeat \/ HostReceive PROVE Types'
  OBVIOUS
<1>1. UNCHANGED <<image, fpc, s_cmd, s_data>> /\ written' \in BOOLEAN /\ early' \in BOOLEAN
  BY DEF SendCommand, Repeat, EarlyRepeat, HostReceive, Types
<1>2. ASSUME NEW q \in Seq(Tokens) PROVE rx \o q \in Seq(Tokens)
  BY ConcatProperties DEF Types
<1>3. SUFFICES op' \in Ops \union {NoOp} /\ rx' \in Seq(Tokens) /\ tx' \in Seq(Answer)
  BY <1>1 DEF Types, AtCommand
<1>4. CASE SendCommand
  BY <1>2, <1>4, Strings DEF SendCommand, Types
<1>5. CASE Repeat \/ EarlyRepeat
  <2>1. op \in Ops
    BY <1>5 DEF Repeat, EarlyRepeat, Types
  <2>2. Block(op) \in Seq(Tokens)
    BY <2>1, Strings
  <2>3. QED
    BY <1>2, <1>5, <2>1, <2>2 DEF Repeat, EarlyRepeat, Types
<1>6. CASE HostReceive
  <2>1. Len(tx) \in Nat /\ tx # <<>> /\ Tail(tx) \in Seq(Answer)
    BY <1>6, LenProperties, HeadTailProperties DEF HostReceive, Types
  <2>2. SubSeq(tx, DataLen + 2, Len(tx)) \in Seq(Answer)
    <3>1. CASE DataLen + 2 <= Len(tx)
      <4>1. \A i \in DataLen + 2 .. Len(tx) : tx[i] \in Answer
        BY <2>1, ServerAssumption, ElementOfSeq DEF Types
      <4>2. QED
        BY <2>1, <3>1, <4>1, ServerAssumption, SubSeqProperties DEF Types
    <3>2. CASE ~(DataLen + 2 <= Len(tx))
      <4>1. SubSeq(tx, DataLen + 2, Len(tx)) = <<>>
        BY <2>1, <3>2, ServerAssumption, SubSeqEmpty
      <4>2. QED
        BY <4>1, EmptySeq
    <3>3. QED
      BY <3>1, <3>2
  <2>3. CASE HostDrop
    BY <2>1, <2>3 DEF HostDrop, Types
  <2>4. CASE HostRead
    BY <2>2, <2>4 DEF HostRead, Ends, Types
  <2>5. CASE HostStat \/ HostWsta
    BY <2>1, <2>5 DEF HostStat, HostWsta, Ends, Types
  <2>6. CASE HostWrit /\ ~HostDrop
    <3>1. CASE rx' = rx \o Append(Track(op.data), Cksum(op.data)) /\ UNCHANGED op /\ tx' = Tail(tx)
      <4>1. op.data \in Data
        <5>1. op \in Ops
          BY <1>6, <2>6 DEF HostReceive, Expected, Types
        <5>2. QED
          BY <2>6, <5>1, OpsFields DEF HostWrit
      <4>2. Append(Track(op.data), Cksum(op.data)) \in Seq(Tokens)
        BY <4>1, Strings, AppendProperties
      <4>3. QED
        BY <1>2, <2>1, <3>1, <4>2 DEF Types
    <3>2. QED
      BY <2>1, <2>6, <3>1 DEF HostWrit, Ends, Types
  <2>7. QED
    BY <1>6, <2>3, <2>4, <2>5, <2>6 DEF HostReceive
<1>7. QED
  BY <1>4, <1>5, <1>6

(* On a quiet line all is as if nothing had been repeated.                 *)
LEMMA QuietExact == Types /\ Quiet => Exact
<1> SUFFICES ASSUME Types, Quiet, op # NoOp PROVE Busy
  BY DEF Exact, Types, AtCommand, Quiet
<1>1. /\ op \in Ops /\ rx = <<>> /\ tx = <<>> /\ s_cmd = <<>> /\ s_data = <<>> /\ fpc = "poll"
      /\ ReplyLen \in Nat
  BY ServerAssumption DEF Types, AtCommand, Quiet, ReplyLen
<1>2. QED
  BY <1>1, EmptySeq DEF Busy, LineOfOp, OneDirection, InputBound

LEMMA NextIInv == IInv /\ Next => IInv'
<1> SUFFICES ASSUME IInv, Next PROVE IInv'
  OBVIOUS
<1>1. Types'
  BY ServerTypes, NoiseTypes, HostTypes DEF IInv, Next
<1>2. CASE SendCommand \/ Repeat
  <2>1. ~early' => Exact
    BY <1>2, QuietExact DEF SendCommand, Repeat, IInv
  <2>2. QED
    BY <1>1, <1>2, <2>1, HostExact DEF IInv
<1>3. CASE EarlyRepeat
  BY <1>1, <1>3 DEF EarlyRepeat, IInv
<1>4. CASE Server \/ Console \/ Noise \/ HostReceive
  <2>1. early' = early
    BY <1>4 DEF Server, drain_uart_events, Poll, Receive, handle_read, RecvData, RecvCksum,
                RecvTimeout, Write, Console, Noise, HostReceive, host
  <2>2. QED
    BY <1>1, <1>4, <2>1, ServerExact, NoiseExact, HostExact DEF IInv
<1>5. QED
  BY <1>2, <1>3, <1>4 DEF Next

-----------------------------------------------------------------------------
(* A command is issued, ended and its track stored as DriveService says,   *)
(* and everything else on the line is invisible to it.                     *)
LEMMA ServerRefines == IInv /\ Server => [Drive!Store \/ Drive!Stray]_Drive!driveVars
<1> SUFFICES ASSUME IInv, Server PROVE [Drive!Store \/ Drive!Stray]_Drive!driveVars
  OBVIOUS
<1>1. CASE Write
  <2>1. CASE NotWritten
    BY <1>1, <2>1 DEF Write, NotWritten, Drive!driveVars
  <2>2. CASE Written /\ early
    BY <1>1, <2>2, WriteStores DEF IInv, Write, Drive!Stray
  <2>3. CASE Written /\ ~early
    <3>1. op # NoOp /\ op.cmd = "WRIT" /\ s_cmd = Block(op) /\ s_data = Track(op.data)
      BY <1>1, <2>3 DEF Write, IInv, Exact, Quiet, Busy, InputBound
    <3>2. Command = op /\ s_data[1][2] = op.data
      BY <3>1, ServerAssumption DEF Command, Block, Track
    <3>3. QED
      BY <1>1, <2>3, <3>1, <3>2 DEF Write, Written, Drive!Store
  <2>4. QED
    BY <1>1, <2>1, <2>2, <2>3 DEF Write
<1>2. CASE ~Write
  BY <1>2 DEF Server, drain_uart_events, Poll, Receive, handle_read, RecvData, RecvCksum,
              RecvTimeout, host, Drive!driveVars
<1>3. QED
  BY <1>1, <1>2

LEMMA SendRefines ==
  IInv /\ (SendCommand \/ Repeat \/ EarlyRepeat) => Drive!Issue \/ Drive!Again
BY DEF IInv, Types, SendCommand, Repeat, EarlyRepeat, Drive!Issue, Drive!Again, Drive!Settle,
       Drive!Ops, Ops

LEMMA ReceiveRefines == IInv /\ HostReceive => [Drive!Return]_Drive!driveVars
<1> SUFFICES ASSUME IInv, HostReceive PROVE [Drive!Return]_Drive!driveVars
  OBVIOUS
<1>1. UNCHANGED <<image, written, early>> /\ tx # <<>>
  BY DEF HostReceive
<1>2. CASE HostDrop
  BY <1>1, <1>2 DEF HostDrop, Drive!driveVars
<1>3. CASE ~HostDrop
  <2>1. op # NoOp /\ op \in Ops
    BY <1>3 DEF HostReceive, Expected, IInv, Types
  <2>2. ~early => LineOfOp
    BY <2>1 DEF IInv, Exact, Busy
  <2>3. CASE HostRead
    <3>1. op.cmd = "READ" /\ GoodTrack /\ result' = tx[1][2] /\ op' = NoOp
      BY <2>3 DEF HostRead, Ends
    <3>2. tx[1][2] \in Data
      BY <3>1, GoodTrackData DEF IInv, Types
    <3>3. ~early => tx[1][2] = image[op.track]
      BY <2>1, <2>2, <3>1, TrackTaken DEF LineOfOp, ReplyLen
    <3>4. QED
      BY <1>1, <2>1, <3>1, <3>2, <3>3 DEF Drive!Return
  <2>4. CASE HostStat
    BY <1>1, <2>1, <2>4 DEF HostStat, Ends, Drive!Return
  <2>5. CASE HostWrit
    BY <1>1, <2>1, <2>5 DEF HostWrit, Ends, Drive!Return, Drive!driveVars
  <2>6. CASE HostWsta
    <3>1. op.cmd = "WRIT" /\ Head(tx)[2] = "WSTA"
      BY <2>6 DEF HostWsta, Answers
    <3>2. Head(tx)[3] = "OK" => written \/ early
      <4>1. ~early => Head(tx) \in Replies
        BY <1>1, <2>2, HeadTailProperties DEF LineOfOp
      <4>2. QED
        BY <3>1, <4>1 DEF Replies, Resp
    <3>3. QED
      BY <1>1, <2>1, <2>6, <3>1, <3>2 DEF HostWsta, Ends, Drive!Return
  <2>7. QED
    BY <1>3, <2>3, <2>4, <2>5, <2>6 DEF HostReceive
<1>4. QED
  BY <1>2, <1>3

(* The invariant of the link holds in every behaviour. As long as the host *)
(* has not repeated a command that the engine was still at, everything on  *)
(* the line is of the one operation under way, in one direction, and never *)
(* more than the step of the engine takes (the windows and the flushes of  *)
(* fdc.c); after such a repeat the engine is still only ever at commands   *)
(* and tracks that the host has sent, and a quiet line ends it.            *)
THEOREM LinkInvariant == Spec => []IInv
<1>1. Init => IInv
  BY InitExact, EmptySeq, ServerAssumption DEF Init, IInv, Types, AtCommand
<1>2. IInv /\ [Next]_vars => IInv'
  <2>1. ASSUME IInv, UNCHANGED vars PROVE IInv'
    BY <2>1 DEF vars, IInv, Types, AtCommand, Exact, Quiet, Busy, LineOfOp, OneDirection,
                InputBound, Sent, Replies, ReplyLen
  <2>2. QED
    BY <2>1, NextIInv
<1>3. QED
  BY <1>1, <1>2, PTL DEF Spec

(* Serves: the engine, its faulty line and a host that repeats itself are  *)
(* the drive of DriveService. WSTA OK is sent only for a track that is on  *)
(* the card, nothing is written but what the host waits for, and a READ    *)
(* gives what the track holds, except from a repeat that comes while the   *)
(* engine is still at the command until a command on a quiet line.         *)
THEOREM EngineServes == Spec => Serves
<1>1. Init => Drive!DriveInit
  BY DEF Init, Drive!DriveInit
<1>2. IInv /\ [Next]_vars
        => [Drive!Issue \/ Drive!Again \/ Drive!Store \/ Drive!Stray \/ Drive!Return]_Drive!driveVars
  <2>1. Console \/ Noise \/ UNCHANGED vars => UNCHANGED Drive!driveVars
    BY DEF Console, Noise, vars, host, Drive!driveVars
  <2>2. QED
    BY <2>1, ServerRefines, SendRefines, ReceiveRefines DEF Next
<1>3. QED
  BY <1>1, <1>2, LinkInvariant, PTL DEF Spec, Serves, Drive!DriveSpec
=============================================================================
