------------------------------ MODULE TnfsProofs ------------------------------
(***************************************************************************)
(* The safety of the TNFS client and server over the network, for any      *)
(* number of sessions, any files and calls, any loss and duplication.      *)
(***************************************************************************)
EXTENDS Tnfs, TnfsServerProofs

(***************************************************************************)
(* The client. A step of a call has its command.                           *)
(***************************************************************************)
ListSteps == {"opendirx", "readdirx", "opendir", "readdir"}
IoSteps == {"seek", "read", "write"}

Asked(file, c) ==
    CASE c.at = "mount" -> [cmd |-> "MOUNT", path |-> <<>>]
      [] c.at = "umount" -> [cmd |-> "UMOUNT"]
      [] c.at = "open" -> [cmd |-> "OPEN", path |-> c.arg.path, flags |-> OpenFlags(c.arg)]
      [] c.at = "size" -> [cmd |-> "LSEEK", fd |-> file.fd, whence |-> "END", off |-> 0]
      [] c.at = "seek" -> [cmd |-> "LSEEK", fd |-> file.fd, whence |-> "SET", off |-> c.off]
      [] c.at = "read" -> [cmd |-> "READ", fd |-> file.fd]
      [] c.at = "write" -> [cmd |-> "WRITE", fd |-> file.fd, data |-> Head(c.left)]
      [] c.at = "close" -> [cmd |-> "CLOSE", fd |-> file.fd]
      [] c.at = "opendirx" -> OpenDir(c, "OPENDIRX")
      [] c.at = "readdirx" -> [cmd |-> "READDIRX", dh |-> c.dh, n |-> 1]
      [] c.at = "opendir" -> OpenDir(c, "OPENDIR")
      [] c.at = "readdir" -> [cmd |-> "READDIR", dh |-> c.dh]
      [] OTHER -> [cmd |-> "CLOSEDIR", dh |-> c.dh]

Message(file, c, id) ==
    WithHeader([peer |-> file.sock, tcp |-> file.tcp, sid |-> file.conn, seq |-> file.seq,
                id |-> id, wf |-> TRUE],
               Asked(file, c))

FileOK(file) ==
    /\ DOMAIN file = {"sock", "tcp", "conn", "seq", "fd", "size", "pos", "pos_valid"}
    /\ file.sock \in Nat /\ file.tcp \in BOOLEAN /\ file.seq \in 0 .. SeqLimit - 1
    /\ file.pos_valid \in BOOLEAN /\ file.pos \in Nat

CallOK(c) ==
    /\ DOMAIN c = {"op", "at", "arg", "got", "err", "off", "left", "dh"}
    /\ \/ c.op = "open" /\ c.at \in {"mount", "open", "size", "umount"} /\ c.arg \in OpenArgs
       \/ c.op = "list_dir" /\ c.at \in {"mount", "closedir", "umount"} \union ListSteps /\ c.arg \in ListArgs
       \/ c.op \in {"read_at", "write_at"} /\ c.at \in {"seek", IF c.op = "read_at" THEN "read" ELSE "write"}
          /\ c.arg \in ReadArgs \union WriteArgs /\ c.off \in Nat /\ c.left \in Seq(Nat) \ {<<>>}
       \/ c.op = "close" /\ c.at \in {"close", "umount"}

ClientOK ==
    /\ FileOK(f) /\ sent \in Nat /\ server \in Servers
    /\ ~Calling => call = NoCall
    /\ Calling => CallOK(call) /\ DOMAIN cmd = {"m", "attempt"} /\ cmd.m = Message(f, call, sent)
    /\ Calling \/ Open => f.sock > 0
    /\ f.tcp => server.tcp

(***************************************************************************)
(* Each command once.                                                      *)
(***************************************************************************)
Flying == Range(inbox) \union (IF Calling THEN {cmd.m} ELSE {})

MessageOK(x) ==
    /\ RequestOK(x) /\ x.wf = TRUE /\ x.id \in Nat /\ x.peer \in 1 .. f.sock
    /\ x.cmd = "MOUNT" => x.path = <<>>

Sorted(q) == \A i, j \in DOMAIN q : i <= j => q[i].id <= q[j].id

Queues ==
    /\ inbox \in Seq(Range(inbox)) /\ outbox \in Seq(Range(outbox))
    /\ \A x \in Flying : MessageOK(x) /\ x.id \in done.id .. sent
    /\ \A x, y \in Flying : x.id = y.id => x = y
    /\ Sorted(inbox)
    /\ \A r \in Range(outbox) : r.peer \in 1 .. f.sock

(* What took effect last is answered from the cache, or its session is gone. *)
Settled(x) ==
    IF x.cmd = "MOUNT" THEN MountedBy(x) # {} ELSE \A s \in Target(x) : Answered(sess[s], x)

Sessions ==
    /\ ServerInv /\ serving = "serving" /\ images = {}
    /\ \A s \in Slots : sess[s].in_use => sess[s].peer \in 1 .. f.sock /\ sess[s].root = <<>>
    /\ \A s \in expired : sess[s].in_use

Once ==
    /\ done.id \in 0 .. sent
    /\ \A x \in Flying : x.id = done.id => Settled(x)
    /\ expired # {} => outbox = <<>> /\ \A x \in Flying : x.id # done.id

OnceInv == ClientOK /\ Queues /\ Sessions /\ Once

(***************************************************************************)
(* The session that the calls go on with: from the MOUNT to the close. The *)
(* number of its next command is f.seq, and what it sent under an earlier  *)
(* number is done with.                                                    *)
(***************************************************************************)
Live == clean /\ (Calling \/ Open) /\ call.at \notin {"close", "umount", "closedir"}

Own(x) == x.peer = f.sock
Cur(x) == Own(x) /\ x.seq = f.seq
Mine(s) == sess[s].in_use /\ sess[s].peer = f.sock /\ (call.at # "mount" => sess[s].sid = f.conn)

Executed == done.id = sent

(* A transfer that was given up leaves its number to the next command,     *)
(* which is an LSEEK.                                                      *)
Before == IF call.at = "seek" \/ (~Calling /\ ~f.pos_valid) THEN {"READ", "WRITE"} ELSE {}

(* A reply that the client takes. *)
Current(r) == Calling /\ Cur(r) /\ r.cmd = cmd.m.cmd

(* A stream carries one command at a time. *)
Stream1 ==
    server.tcp =>
        /\ \A x \in Range(inbox) : Calling /\ f.tcp /\ x = cmd.m
        /\ \A r \in Range(outbox) : f.tcp /\ Current(r)
        /\ Len(inbox) + Len(outbox) <= 1

Mounting ==
    call.at = "mount" =>
        /\ \A x \in Range(inbox) : Own(x) => x = cmd.m
        /\ \A s \in Slots : Mine(s) =>
              /\ Executed
              /\ sess[s].reply = [seq |-> f.seq, cmd |-> "MOUNT", body |-> Status("OK")]
              /\ sess[s].dirs = Blank.dirs

Mounted ==
    call.at # "mount" =>
        \A x \in Range(inbox) :
            /\ Own(x)
            /\ x.id > done.id => Cur(x) /\ x.sid = f.conn
            /\ Cur(x) => (Calling /\ x.id = sent) \/ x.cmd \in Before

Cached ==
    \A s \in Slots : Mine(s) /\ sess[s].reply.seq = f.seq =>
        (Calling /\ Executed /\ sess[s].reply.cmd = cmd.m.cmd) \/ sess[s].reply.cmd \in Before

Replies ==
    /\ \A r \in Range(outbox) : Cur(r) => Current(r) \/ r.cmd \in Before
    /\ \A r \in Range(outbox) : Current(r) =>
           \/ call.at = "mount" /\ r.body.status = "EAGAIN"
           \/ Executed /\ \E s \in Slots : Mine(s) /\ r = Datagram(sess[s])

(* Nothing older follows a reply that the client takes. *)
Ordered == \A i, j \in DOMAIN outbox : i <= j /\ Current(outbox[i]) /\ Own(outbox[j]) => Cur(outbox[j])

Going == Mounting /\ Mounted /\ Cached /\ Replies /\ Ordered
FreshInv == Stream1 /\ (Live => Going)

(***************************************************************************)
(* The file, and where the server's descriptor stands in it.               *)
(***************************************************************************)
HasFile(s, n) ==
    /\ n \in FileSlots /\ sess[s].files[n] \in Fds
    /\ vfs[sess[s].files[n]].path = Remote /\ vfs[sess[s].files[n]].append = FALSE
    /\ fs[Remote].kind = "file"
Pos(s) == vfs[sess[s].files[f.fd]].pos
Done(s) == Executed /\ sess[s].reply.body.status = "OK"

Placed(s) ==
    /\ call.at = "open" /\ Done(s) => HasFile(s, sess[s].reply.body.fd)
    /\ call.at \in {"idle", "size"} \union IoSteps => HasFile(s, f.fd)
    /\ ~Calling /\ f.pos_valid => Pos(s) = f.pos
    /\ call.at = "seek" /\ Done(s) => Pos(s) = call.off
    /\ call.at \in {"read", "write"} =>
          /\ ~Executed => Pos(s) = call.off
          /\ Done(s) => Pos(s) = call.off + 1 /\ call.off < Len(Data)
    /\ call.at = "read" /\ Done(s) => sess[s].reply.body.data[1] = Data[call.off + 1]
    /\ call.at = "write" /\ Done(s) => Head(call.left) = Data[call.off + 1]

FileInv == Live => \A s \in Slots : Mine(s) => Placed(s)

(* The cells from off on are what was read or written. *)
Holding(cells, off) ==
    \A i \in 1 .. Len(cells) : off + i <= Len(Data) /\ cells[i] = Data[off + i]

Transferred ==
    call.at \in IoSteps =>
        /\ Open /\ call.got \in Seq(Nat) /\ call.off = call.arg.off + Len(call.got)
        /\ Len(call.got) + Len(call.left) = Len(call.arg.cells)
        /\ Holding(call.got, call.arg.off)
        /\ call.at = "seek" => call.got = <<>>
        /\ call.at # "seek" => f.pos_valid /\ f.pos = call.off

Returned ==
    ~Calling /\ last.err = "ESP_OK" /\ last.op \in {"read_at", "write_at"} =>
        /\ f.pos_valid /\ last.arg \in ReadArgs \union WriteArgs
        /\ last.got \in Seq(Nat) /\ Len(last.got) = Len(last.arg.cells)
        /\ Holding(last.got, last.arg.off)

TransferInv ==
    /\ Live => Transferred /\ Returned /\ (call.at = "size" => ~f.pos_valid)
    /\ ~Calling /\ clean /\ last.err = "ESP_OK" /\ last.op \in {"read_at", "write_at"} => Open

DataInv == OnceInv /\ FreshInv /\ FileInv /\ TransferInv

-----------------------------------------------------------------------------
(* Queues: what losing, doubling, sending and taking do to them.           *)

(* p is q without some elements, or with some of them doubled in place. *)
Thinned(p, q) ==
    /\ p \in Seq(Range(p))
    /\ \E h \in [DOMAIN p -> DOMAIN q] :
           /\ \A i \in DOMAIN p : p[i] = q[h[i]]
           /\ \A i, j \in DOMAIN p : i <= j => h[i] <= h[j]

LEMMA Lengths ==
  ASSUME NEW q, q \in Seq(Range(q))
  PROVE  /\ Len(q) \in Nat /\ (q # <<>> => Len(q) >= 1) /\ (Len(q) = 0 => q = <<>>)
         /\ Len(q) = 1 => Tail(q) = <<>>
<1>1. Len(q) \in Nat /\ DOMAIN q = 1 .. Len(q) /\ (Len(q) = 0 <=> q = <<>>)
  BY EmptySeq
<1>2. Len(q) = 1 => Tail(q) = <<>>
  <2> SUFFICES ASSUME Len(q) = 1 PROVE Tail(q) = <<>>
    OBVIOUS
  <2>1. Tail(q) \in Seq(Range(q)) /\ Len(Tail(q)) = 0
    BY <1>1
  <2>2. QED
    BY <2>1, EmptySeq
<1>3. QED
  BY <1>1, <1>2

LEMMA ThinSame ==
  ASSUME NEW q, q \in Seq(Range(q))
  PROVE  Thinned(q, q)
<1> DEFINE h == [i \in DOMAIN q |-> i]
<1>1. h \in [DOMAIN q -> DOMAIN q] /\ \A i \in DOMAIN q : h[i] = i
  OBVIOUS
<1>2. QED
  BY <1>1 DEF Thinned

LEMMA ThinTail ==
  ASSUME NEW q, q \in Seq(Range(q)), q # <<>>
  PROVE  Thinned(Tail(q), q) /\ Head(q) \in Range(q) /\ Head(q) = q[1] /\ 1 \in DOMAIN q
<1>1. Len(q) \in Nat \ {0} /\ DOMAIN q = 1 .. Len(q)
  OBVIOUS
<1>2. /\ Tail(q) \in Seq(Range(q)) /\ DOMAIN Tail(q) = 1 .. Len(q) - 1
      /\ \A i \in 1 .. Len(q) - 1 : Tail(q)[i] = q[i + 1]
  BY <1>1
<1>3. Tail(q) \in Seq(Range(Tail(q)))
  BY <1>2, SeqOfRange
<1> DEFINE h == [i \in 1 .. Len(q) - 1 |-> i + 1]
<1>4. h \in [1 .. Len(q) - 1 -> 1 .. Len(q)] /\ \A i \in 1 .. Len(q) - 1 : h[i] = i + 1
  BY <1>1
<1>5. Head(q) = q[1] /\ q[1] \in Range(q)
  BY <1>1 DEF Range
<1> HIDE DEF h
<1>6. \A i, j \in 1 .. Len(q) - 1 : i <= j => h[i] <= h[j]
  BY <1>1, <1>4
<1>7. QED
  BY <1>1, <1>2, <1>3, <1>4, <1>5, <1>6 DEF Thinned

LEMMA ThinRemove ==
  ASSUME NEW q, q \in Seq(Range(q)), NEW k \in DOMAIN q
  PROVE  Thinned(RemoveAt(q, k), q)
<1> DEFINE p == RemoveAt(q, k)
           n == Len(q)
           h == [i \in 1 .. n - 1 |-> IF i < k THEN i ELSE i + 1]
<1>1. n \in Nat /\ k \in 1 .. n /\ DOMAIN q = 1 .. n
  OBVIOUS
<1>2. /\ SubSeq(q, 1, k - 1) \in Seq(Range(q)) /\ Len(SubSeq(q, 1, k - 1)) = k - 1
      /\ \A i \in 1 .. k - 1 : SubSeq(q, 1, k - 1)[i] = q[i]
  BY <1>1
<1>3. /\ SubSeq(q, k + 1, n) \in Seq(Range(q)) /\ Len(SubSeq(q, k + 1, n)) = n - k
      /\ \A i \in 1 .. n - k : SubSeq(q, k + 1, n)[i] = q[k + i]
  BY <1>1
<1>4. /\ p \in Seq(Range(q)) /\ Len(p) = n - 1
      /\ \A i \in 1 .. n - 1 : p[i] = q[IF i < k THEN i ELSE i + 1]
  <2> DEFINE a == SubSeq(q, 1, k - 1)
             b == SubSeq(q, k + 1, n)
  <2>1. p = a \o b
    BY DEF RemoveAt
  <2>2. a \in Seq(Range(q)) /\ Len(a) = k - 1 /\ b \in Seq(Range(q)) /\ Len(b) = n - k
    BY <1>2, <1>3
  <2> HIDE DEF a, b, p
  <2>3. p \in Seq(Range(q)) /\ Len(p) = Len(a) + Len(b)
        /\ \A i \in 1 .. Len(a) + Len(b) : p[i] = IF i <= Len(a) THEN a[i] ELSE b[i - Len(a)]
    BY <2>1, <2>2, ConcatProperties
  <2>4. /\ \A i \in 1 .. k - 1 : a[i] = q[i]
        /\ \A i \in 1 .. n - k : b[i] = q[k + i]
    BY <1>2, <1>3 DEF a, b
  <2>5. ASSUME NEW i \in 1 .. n - 1 PROVE p[i] = q[IF i < k THEN i ELSE i + 1]
    <3>1. CASE i < k
      BY <1>1, <2>2, <2>3, <2>4, <3>1
    <3>2. CASE ~(i < k)
      <4> DEFINE j == i - (k - 1)
      <4>1. j \in 1 .. n - k /\ k + j = i + 1 /\ ~(i <= k - 1) /\ i \in 1 .. Len(a) + Len(b)
        <5>1. n \in Int /\ k \in Int /\ i \in Int /\ i <= n - 1 /\ 1 <= i /\ k <= i
          BY <1>1, <3>2
        <5>2. Len(a) = k - 1 /\ Len(b) = n - k
          BY <2>2
        <5> HIDE DEF n
        <5>3. Len(a) + Len(b) = n - 1
          BY <5>1, <5>2
        <5>4. QED
          BY <5>1, <5>3
      <4>2. p[i] = b[j]
        BY <2>2, <2>3, <4>1
      <4>3. b[j] = q[k + j]
        BY <2>4, <4>1
      <4>4. QED
        BY <3>2, <4>1, <4>2, <4>3
    <3>3. QED
      BY <3>1, <3>2
  <2>6. QED
    BY <1>1, <2>2, <2>3, <2>5
<1> HIDE DEF p
<1>5. DOMAIN p = 1 .. n - 1 /\ n - 1 \in Nat
  BY <1>1, <1>4
<1>6. p \in Seq(Range(p))
  BY <1>4, SeqOfRange
<1>7. h \in [1 .. n - 1 -> 1 .. n] /\ \A i \in 1 .. n - 1 : h[i] = IF i < k THEN i ELSE i + 1
  BY <1>1
<1> HIDE DEF h
<1>8. \A i, j \in 1 .. n - 1 : i <= j => h[i] <= h[j]
  BY <1>1, <1>7
<1>9. QED
  BY <1>1, <1>4, <1>5, <1>6, <1>7, <1>8 DEF Thinned, p

LEMMA ThinDouble ==
  ASSUME NEW q, q \in Seq(Range(q)), NEW k \in DOMAIN q
  PROVE  Thinned(InsertAt(q, k, q[k]), q)
<1> DEFINE p == InsertAt(q, k, q[k])
           n == Len(q)
           h == [i \in 1 .. n + 1 |-> IF i <= k THEN i ELSE i - 1]
<1>1. n \in Nat /\ k \in 1 .. n /\ DOMAIN q = 1 .. n /\ q[k] \in Range(q)
  BY DEF Range
<1>2. /\ SubSeq(q, 1, k - 1) \in Seq(Range(q)) /\ Len(SubSeq(q, 1, k - 1)) = k - 1
      /\ \A i \in 1 .. k - 1 : SubSeq(q, 1, k - 1)[i] = q[i]
  BY <1>1
<1>3. /\ SubSeq(q, k, n) \in Seq(Range(q)) /\ Len(SubSeq(q, k, n)) = n - k + 1
      /\ \A i \in 1 .. n - k + 1 : SubSeq(q, k, n)[i] = q[k + i - 1]
  BY <1>1
<1> DEFINE a == SubSeq(q, 1, k - 1) \o <<q[k]>>
<1>4. a \in Seq(Range(q)) /\ Len(a) = k /\ \A i \in 1 .. k : a[i] = q[i]
  BY <1>1, <1>2
<1> HIDE DEF a
<1>5. /\ p \in Seq(Range(q)) /\ Len(p) = n + 1
      /\ \A i \in 1 .. n + 1 : p[i] = q[IF i <= k THEN i ELSE i - 1]
  <2>1. p = a \o SubSeq(q, k, n)
    BY DEF InsertAt, a
  <2> DEFINE b == SubSeq(q, k, n)
  <2>2. b \in Seq(Range(q)) /\ Len(b) = n - k + 1
    BY <1>3
  <2> HIDE DEF b, p
  <2>3. p \in Seq(Range(q)) /\ Len(p) = Len(a) + Len(b)
        /\ \A i \in 1 .. Len(a) + Len(b) : p[i] = IF i <= Len(a) THEN a[i] ELSE b[i - Len(a)]
    BY <1>4, <2>1, <2>2, ConcatProperties DEF b
  <2>4. \A i \in 1 .. n - k + 1 : b[i] = q[k + i - 1]
    BY <1>3 DEF b
  <2>5. ASSUME NEW i \in 1 .. n + 1 PROVE p[i] = q[IF i <= k THEN i ELSE i - 1]
    <3>1. CASE i <= k
      BY <1>1, <1>4, <2>2, <2>3, <3>1
    <3>2. CASE ~(i <= k)
      <4> DEFINE j == i - k
      <4>1. j \in 1 .. n - k + 1 /\ k + j - 1 = i - 1 /\ i \in 1 .. Len(a) + Len(b)
        <5>1. n \in Int /\ k \in Int /\ i \in Int /\ i <= n + 1 /\ 1 <= i /\ k + 1 <= i
          BY <1>1, <3>2
        <5>2. Len(a) = k /\ Len(b) = n - k + 1
          BY <1>4, <2>2
        <5> HIDE DEF n
        <5>3. Len(a) + Len(b) = n + 1
          <6>1. Len(a) + Len(b) = k + (n - k + 1)
            BY <5>2
          <6>2. k + (n - k + 1) = n + 1
            BY <5>1
          <6>3. QED
            BY <6>1, <6>2
        <5>4. i \in 1 .. Len(a) + Len(b)
          BY <5>1, <5>3
        <5>5. j \in 1 .. n - k + 1 /\ k + j - 1 = i - 1
          BY <5>1
        <5>6. QED
          BY <5>4, <5>5
      <4>2. p[i] = b[j]
        BY <1>4, <2>3, <3>2, <4>1
      <4>3. b[j] = q[k + j - 1]
        BY <2>4, <4>1
      <4>4. QED
        BY <3>2, <4>1, <4>2, <4>3
    <3>3. QED
      BY <3>1, <3>2
  <2>6. QED
    BY <1>1, <1>4, <2>2, <2>3, <2>5
<1> HIDE DEF p
<1>6. DOMAIN p = 1 .. n + 1 /\ n + 1 \in Nat
  BY <1>1, <1>5
<1>7. p \in Seq(Range(p))
  BY <1>5, SeqOfRange
<1>8. h \in [1 .. n + 1 -> 1 .. n] /\ \A i \in 1 .. n + 1 : h[i] = IF i <= k THEN i ELSE i - 1
  BY <1>1
<1> HIDE DEF h
<1>9. \A i, j \in 1 .. n + 1 : i <= j => h[i] <= h[j]
  BY <1>1, <1>8
<1>10. QED
  BY <1>1, <1>5, <1>6, <1>7, <1>8, <1>9 DEF Thinned, p

LEMMA ThinElements ==
  ASSUME NEW p, NEW q, Thinned(p, q)
  PROVE  p \in Seq(Range(p)) /\ Range(p) \subseteq Range(q)
BY DEF Thinned, Range

(* sendto() adds the datagram behind the others, or drops it. *)
LEMMA SendAdds ==
  ASSUME NEW q, q \in Seq(Range(q)), NEW m
  PROVE  SendTo(q, m) = q \/ SendTo(q, m) = Append(q, m)
BY DEF SendTo

LEMMA Appended ==
  ASSUME NEW q, q \in Seq(Range(q)), NEW m
  PROVE  LET p == Append(q, m)
         IN  /\ p \in Seq(Range(p)) /\ Range(p) = Range(q) \union {m}
             /\ Len(p) = Len(q) + 1 /\ DOMAIN p = 1 .. Len(q) + 1 /\ DOMAIN q = 1 .. Len(q) /\ Len(q) \in Nat
             /\ p[Len(q) + 1] = m /\ \A i \in 1 .. Len(q) : p[i] = q[i]
<1> DEFINE p == Append(q, m)
           n == Len(q)
<1>1. n \in Nat /\ DOMAIN q = 1 .. n
  OBVIOUS
<1>2. p \in Seq(Range(q) \union {m}) /\ Len(p) = n + 1 /\ p[n + 1] = m /\ \A i \in 1 .. n : p[i] = q[i]
  BY <1>1, AppendProperties, SeqMonotonic
<1> HIDE DEF p
<1>3. p \in Seq(Range(p)) /\ DOMAIN p = 1 .. n + 1
  BY <1>1, <1>2, SeqOfRange
<1>4. Range(p) = Range(q) \union {m}
  BY <1>1, <1>2, <1>3 DEF Range
<1>5. QED
  BY <1>1, <1>2, <1>3, <1>4 DEF p

-----------------------------------------------------------------------------
(* The client: what a step yields is a file and a call of the right shape, *)
(* and the command of that call.                                           *)

LEMMA SeqNumbers ==
  SeqLimit \in Nat \ {0, 1} /\ 0 \in 0 .. SeqLimit - 1
BY ClientAssumption, DeviceAssumption

FileReady(file) == FileOK(file) /\ file.sock > 0 /\ (file.tcp => server.tcp)

OutcomeOK(o, sock) ==
    /\ FileOK(o.f) /\ (o.f.tcp => server.tcp) /\ sock <= o.f.sock
    /\ \/ o.ask = <<>> /\ o.call = NoCall /\ (o.f.conn # 0 => o.f.sock > 0)
       \/ o.ask = <<Asked(o.f, o.call)>> /\ CallOK(o.call) /\ o.f.sock > 0

LEMMA AskStep ==
  ASSUME NEW file, FileReady(file), NEW c, NEW at, CallOK([c EXCEPT !.at = at]),
         NEW request, request = Asked(file, [c EXCEPT !.at = at])
  PROVE  OutcomeOK(Ask(file, c, at, request), file.sock)
BY DEF OutcomeOK, Ask, FileReady, FileOK

LEMMA ReturnStep ==
  ASSUME NEW file, FileReady(file), NEW c, NEW err
  PROVE  OutcomeOK(Return(file, c, err), file.sock)
BY DEF OutcomeOK, Return, FileReady, FileOK

(* The session is over; the next one takes another socket. *)
LEMMA ClosedFile ==
  ASSUME NEW file, FileReady(file)
  PROVE  FileReady([NoFile EXCEPT !.sock = file.sock])
         /\ [NoFile EXCEPT !.sock = file.sock].sock = file.sock
BY SeqNumbers DEF FileReady, FileOK, NoFile

LEMMA AskedIs ==
  ASSUME NEW file, NEW c
  PROVE  /\ c.at = "mount" => Asked(file, c) = [cmd |-> "MOUNT", path |-> <<>>]
         /\ c.at = "umount" => Asked(file, c) = [cmd |-> "UMOUNT"]
         /\ c.at = "open" => Asked(file, c) = [cmd |-> "OPEN", path |-> c.arg.path, flags |-> OpenFlags(c.arg)]
         /\ c.at = "size" => Asked(file, c) = [cmd |-> "LSEEK", fd |-> file.fd, whence |-> "END", off |-> 0]
         /\ c.at = "seek" => Asked(file, c) = [cmd |-> "LSEEK", fd |-> file.fd, whence |-> "SET", off |-> c.off]
         /\ c.at = "read" => Asked(file, c) = [cmd |-> "READ", fd |-> file.fd]
         /\ c.at = "write" => Asked(file, c) = [cmd |-> "WRITE", fd |-> file.fd, data |-> Head(c.left)]
         /\ c.at = "close" => Asked(file, c) = [cmd |-> "CLOSE", fd |-> file.fd]
         /\ c.at = "opendirx" => Asked(file, c) = OpenDir(c, "OPENDIRX")
         /\ c.at = "readdirx" => Asked(file, c) = [cmd |-> "READDIRX", dh |-> c.dh, n |-> 1]
         /\ c.at = "opendir" => Asked(file, c) = OpenDir(c, "OPENDIR")
         /\ c.at = "readdir" => Asked(file, c) = [cmd |-> "READDIR", dh |-> c.dh]
         /\ c.at = "closedir" => Asked(file, c) = [cmd |-> "CLOSEDIR", dh |-> c.dh]
BY DEF Asked

(* A session begins with a socket of its own. *)
LEMMA TryStep ==
  ASSUME NEW file, FileOK(file), NEW c, NEW tcp \in BOOLEAN, tcp => server.tcp,
         CallOK([c EXCEPT !.at = "mount"])
  PROVE  OutcomeOK(tnfs_try(file, c, tcp), file.sock) /\ tnfs_try(file, c, tcp).f.sock = file.sock + 1
<1> DEFINE g == [[file EXCEPT !.sock = @ + 1, !.tcp = tcp] EXCEPT !.seq = 0, !.conn = 0]
           a == [c EXCEPT !.at = "mount"]
<1>1. FileReady(g) /\ g.sock = file.sock + 1 /\ file.sock <= g.sock /\ g.sock \in Nat
  BY SeqNumbers DEF FileOK, FileReady
<1>2. Asked(g, a) = [cmd |-> "MOUNT", path |-> <<>>]
  <2>1. a.at = "mount"
    BY DEF CallOK
  <2> HIDE DEF a, g
  <2>2. QED
    BY <2>1, AskedIs
<1>3. tnfs_try(file, c, tcp) = Ask(g, c, "mount", [cmd |-> "MOUNT", path |-> <<>>])
  BY DEF tnfs_try, tnfs_mount_root
<1> HIDE DEF g
<1>4. OutcomeOK(tnfs_try(file, c, tcp), g.sock)
  BY <1>1, <1>2, <1>3, AskStep
<1>5. tnfs_try(file, c, tcp).f = g
  BY <1>3 DEF Ask
<1>6. QED
  BY <1>1, <1>4, <1>5 DEF OutcomeOK, FileOK

LEMMA UmountStep ==
  ASSUME NEW file, FileReady(file), NEW c, NEW err, CallOK([[c EXCEPT !.err = err] EXCEPT !.at = "umount"])
  PROVE  OutcomeOK(Umount(file, c, err), file.sock)
<1> DEFINE d == [c EXCEPT !.err = err]
           a == [d EXCEPT !.at = "umount"]
<1>1. CallOK(a) /\ a.at = "umount"
  BY DEF CallOK
<1>2. Umount(file, c, err) = Ask(file, d, "umount", [cmd |-> "UMOUNT"])
  BY DEF Umount
<1> HIDE DEF d
<1>3. Asked(file, a) = [cmd |-> "UMOUNT"]
  <2> HIDE DEF a
  <2>1. QED
    BY <1>1, AskedIs
<1>4. QED
  BY <1>1, <1>2, <1>3, AskStep

LEMMA ClosedirStep ==
  ASSUME NEW file, FileReady(file), NEW c, NEW err, CallOK([[c EXCEPT !.err = err] EXCEPT !.at = "closedir"])
  PROVE  OutcomeOK(Closedir(file, c, err), file.sock)
<1> DEFINE d == [c EXCEPT !.err = err]
           a == [d EXCEPT !.at = "closedir"]
<1>1. CallOK(a) /\ a.at = "closedir" /\ a.dh = c.dh
  BY DEF CallOK
<1>2. Closedir(file, c, err) = Ask(file, d, "closedir", [cmd |-> "CLOSEDIR", dh |-> c.dh])
  BY DEF Closedir
<1> HIDE DEF d
<1>3. Asked(file, a) = [cmd |-> "CLOSEDIR", dh |-> c.dh]
  <2> HIDE DEF a
  <2>1. QED
    BY <1>1, AskedIs
<1>4. QED
  BY <1>1, <1>2, <1>3, AskStep

(* A call in its step c.at, as the steps of its kind change it. *)
LEMMA OpenKind ==
  ASSUME NEW c, CallOK(c), c.op = "open", NEW at \in {"mount", "open", "size", "umount"}
  PROVE  CallOK([c EXCEPT !.at = at]) /\ \A x : CallOK([[c EXCEPT !.err = x] EXCEPT !.at = at])
BY DEF CallOK

LEMMA CloseKind ==
  ASSUME NEW c, CallOK(c), c.op = "close", NEW err
  PROVE  CallOK([[c EXCEPT !.err = err] EXCEPT !.at = "umount"])
BY DEF CallOK

LEMMA ListKind ==
  ASSUME NEW c, CallOK(c), c.op = "list_dir", NEW at \in {"mount", "closedir", "umount"} \union ListSteps
  PROVE  /\ CallOK([c EXCEPT !.at = at])
         /\ \A x : /\ CallOK([[c EXCEPT !.err = x] EXCEPT !.at = at])
                  /\ CallOK([[c EXCEPT !.dh = x] EXCEPT !.at = at])
                  /\ CallOK([[c EXCEPT !.got = x] EXCEPT !.at = at])
         /\ \A x, y : CallOK([[[c EXCEPT !.got = x] EXCEPT !.err = y] EXCEPT !.at = at])
BY DEF CallOK

LEMMA AfterMountOK ==
  ASSUME NEW file, FileReady(file), NEW c, CallOK(c), c.at = "mount", NEW r, server \in Servers
  PROVE  OutcomeOK(AfterMount(file, c, r), file.sock)
<1> DEFINE mounted == [file EXCEPT !.conn = Reply.sid]
           closed == [NoFile EXCEPT !.sock = file.sock]
<1>1. \/ r.status = "OK" /\ c.op = "open" /\ AfterMount(file, c, r) = tnfs_open(mounted, c)
      \/ r.status = "OK" /\ c.op # "open" /\ AfterMount(file, c, r) = tnfs_list_dir(mounted, c)
      \/ server.tcp /\ AfterMount(file, c, r) = tnfs_try(file, c, TRUE)
      \/ AfterMount(file, c, r) = Return(closed, c, "ESP_ERR_TIMEOUT")
  BY DEF AfterMount
<1>2. c.op \in {"open", "list_dir"}
  BY DEF CallOK
<1>3. FileReady(mounted) /\ mounted.sock = file.sock
  BY DEF FileReady, FileOK
<1> HIDE DEF mounted
<1>4. CASE c.op = "open" /\ AfterMount(file, c, r) = tnfs_open(mounted, c)
  <2> DEFINE a == [c EXCEPT !.at = "open"]
  <2>1. CallOK(a) /\ a.at = "open" /\ a.arg = c.arg
    BY <1>4, OpenKind DEF CallOK
  <2>2. Asked(mounted, a) = [cmd |-> "OPEN", path |-> c.arg.path, flags |-> OpenFlags(c.arg)]
    <3> HIDE DEF a
    <3>1. QED
      BY <2>1, AskedIs
  <2>3. QED
    BY <1>3, <1>4, <2>1, <2>2, AskStep DEF tnfs_open
<1>5. CASE c.op # "open" /\ AfterMount(file, c, r) = tnfs_list_dir(mounted, c)
  <2> DEFINE a == [c EXCEPT !.at = "opendirx"]
  <2>1. CallOK(a) /\ a.at = "opendirx" /\ a.arg = c.arg
    BY <1>2, <1>5, ListKind DEF CallOK, ListSteps
  <2>2. Asked(mounted, a) = OpenDir(c, "OPENDIRX")
    <3> HIDE DEF a
    <3>1. QED
      BY <2>1, AskedIs DEF OpenDir
  <2>3. QED
    BY <1>3, <1>5, <2>1, <2>2, AskStep DEF tnfs_list_dir
<1>6. CASE server.tcp /\ AfterMount(file, c, r) = tnfs_try(file, c, TRUE)
  <2>1. CallOK([c EXCEPT !.at = "mount"])
    <3>1. CASE c.op = "open"
      <4>1. "mount" \in {"mount", "open", "size", "umount"}
        OBVIOUS
      <4>2. QED
        BY <3>1, <4>1, OpenKind, Zenon
    <3>2. CASE c.op = "list_dir"
      <4>1. "mount" \in {"mount", "closedir", "umount"} \union ListSteps
        OBVIOUS
      <4>2. QED
        BY <3>2, <4>1, ListKind, Zenon
    <3>3. QED
      BY <1>2, <3>1, <3>2
  <2>2. FileOK(file) /\ TRUE \in BOOLEAN /\ (TRUE => server.tcp)
    BY <1>6 DEF FileReady
  <2>3. OutcomeOK(tnfs_try(file, c, TRUE), file.sock)
    BY <2>1, <2>2, TryStep, Zenon
  <2>4. QED
    BY <1>6, <2>3
<1>7. CASE AfterMount(file, c, r) = Return(closed, c, "ESP_ERR_TIMEOUT")
  <2>1. FileReady(closed) /\ closed.sock = file.sock
    BY ClosedFile
  <2> HIDE DEF closed
  <2>2. QED
    BY <1>7, <2>1, ReturnStep
<1>8. QED
  BY <1>1, <1>4, <1>5, <1>6, <1>7

LEMMA UmountedOK ==
  ASSUME NEW file, FileReady(file), NEW c
  PROVE  OutcomeOK(Umounted(file, c), file.sock)
<1> DEFINE closed == [NoFile EXCEPT !.sock = file.sock]
<1>1. FileReady(closed) /\ closed.sock = file.sock
  BY ClosedFile
<1>2. Umounted(file, c) = Return(closed, c, c.err)
  BY DEF Umounted
<1> HIDE DEF closed
<1>3. QED
  BY <1>1, <1>2, ReturnStep

LEMMA AfterOpenOK ==
  ASSUME NEW file, FileReady(file), NEW c, CallOK(c), c.at = "open", NEW r
  PROVE  OutcomeOK(AfterOpen(file, c, r), file.sock)
<1> DEFINE opened == [file EXCEPT !.fd = r.fd, !.size = 0, !.pos_valid = FALSE]
<1>1. \/ AfterOpen(file, c, r) = Umount(file, c, status_err(r))
      \/ AfterOpen(file, c, r) = Return(opened, c, "ESP_OK")
      \/ AfterOpen(file, c, r) = tnfs_query_size(opened, c)
  BY DEF AfterOpen
<1>2. c.op = "open"
  BY DEF CallOK, ListSteps
<1>3. FileReady(opened) /\ opened.sock = file.sock
  BY DEF FileReady, FileOK
<1> HIDE DEF opened
<1>4. CASE AfterOpen(file, c, r) = tnfs_query_size(opened, c)
  <2> DEFINE a == [c EXCEPT !.at = "size"]
  <2>1. CallOK(a) /\ a.at = "size"
    BY <1>2, OpenKind DEF CallOK
  <2>2. Asked(opened, a) = [cmd |-> "LSEEK", fd |-> opened.fd, whence |-> "END", off |-> 0]
    <3> HIDE DEF a
    <3>1. QED
      BY <2>1, AskedIs
  <2>3. QED
    BY <1>3, <1>4, <2>1, <2>2, AskStep DEF tnfs_query_size
<1>5. \A err : CallOK([[c EXCEPT !.err = err] EXCEPT !.at = "umount"])
  <2>1. "umount" \in {"mount", "open", "size", "umount"}
    OBVIOUS
  <2>2. QED
    BY <1>2, <2>1, OpenKind, Zenon
<1>6. CASE AfterOpen(file, c, r) = Umount(file, c, status_err(r))
  <2> DEFINE e == status_err(r)
  <2> HIDE DEF e
  <2>1. CallOK([[c EXCEPT !.err = e] EXCEPT !.at = "umount"])
    BY <1>5, Zenon
  <2>2. OutcomeOK(Umount(file, c, e), file.sock)
    BY <2>1, UmountStep, Zenon
  <2>3. QED
    BY <1>6, <2>2 DEF e
<1>7. CASE AfterOpen(file, c, r) = Return(opened, c, "ESP_OK")
  BY <1>3, <1>7, ReturnStep
<1>8. QED
  BY <1>1, <1>4, <1>6, <1>7

LEMMA AfterSizeOK ==
  ASSUME NEW file, FileReady(file), NEW c, NEW r
  PROVE  OutcomeOK(AfterSize(file, c, r), file.sock)
<1> DEFINE sized == IF r.status = "OK" THEN [file EXCEPT !.size = r.pos] ELSE file
<1>1. FileReady(sized) /\ sized.sock = file.sock
  BY DEF FileReady, FileOK
<1>2. AfterSize(file, c, r) = Return(sized, c, "ESP_OK")
  BY DEF AfterSize
<1> HIDE DEF sized
<1>3. QED
  BY <1>1, <1>2, ReturnStep

LEMMA BrokenOK ==
  ASSUME NEW file, FileReady(file), NEW c, NEW r
  PROVE  OutcomeOK(Broken(file, c, r), file.sock)
<1> DEFINE broken == [file EXCEPT !.pos_valid = FALSE]
<1>1. FileReady(broken) /\ broken.sock = file.sock
  BY DEF FileReady, FileOK
<1>2. \E err : Broken(file, c, r) = Return(broken, c, err)
  BY DEF Broken
<1> HIDE DEF broken
<1>3. QED
  BY <1>1, <1>2, ReturnStep

LEMMA TransferOK ==
  ASSUME NEW file, FileReady(file), NEW c, c.op \in {"read_at", "write_at"},
         CallOK([c EXCEPT !.at = IF c.op = "read_at" THEN "read" ELSE "write"])
  PROVE  OutcomeOK(Transfer(file, c), file.sock)
<1> DEFINE at == IF c.op = "read_at" THEN "read" ELSE "write"
           a == [c EXCEPT !.at = at]
<1>1. CASE c.op = "read_at"
  <2>1. CallOK(a) /\ a.at = "read" /\ a = [c EXCEPT !.at = "read"]
    BY <1>1 DEF CallOK
  <2>2. Transfer(file, c) = Ask(file, c, "read", [cmd |-> "READ", fd |-> file.fd])
    BY <1>1 DEF Transfer
  <2>3. Asked(file, a) = [cmd |-> "READ", fd |-> file.fd]
    <3> HIDE DEF a
    <3>1. QED
      BY <2>1, AskedIs
  <2> HIDE DEF a
  <2>4. QED
    BY <2>1, <2>2, <2>3, AskStep
<1>2. CASE c.op = "write_at"
  <2>1. CallOK(a) /\ a.at = "write" /\ a = [c EXCEPT !.at = "write"] /\ a.left = c.left
    BY <1>2 DEF CallOK
  <2>2. Transfer(file, c) = Ask(file, c, "write", [cmd |-> "WRITE", fd |-> file.fd, data |-> Head(c.left)])
    BY <1>2 DEF Transfer
  <2>3. Asked(file, a) = [cmd |-> "WRITE", fd |-> file.fd, data |-> Head(c.left)]
    <3> HIDE DEF a
    <3>1. QED
      BY <2>1, AskedIs
  <2> HIDE DEF a
  <2>4. QED
    BY <2>1, <2>2, <2>3, AskStep
<1>3. QED
  BY <1>1, <1>2

LEMMA SeekOK ==
  ASSUME NEW file, FileReady(file), NEW c, c.op \in {"read_at", "write_at"},
         CallOK([c EXCEPT !.at = "seek"])
  PROVE  OutcomeOK(tnfs_seek(file, c), file.sock)
<1> DEFINE a == [c EXCEPT !.at = "seek"]
<1>1. a.at = "seek" /\ a.off = c.off
  BY DEF CallOK
<1>2. Asked(file, a) = [cmd |-> "LSEEK", fd |-> file.fd, whence |-> "SET", off |-> c.off]
  <2> HIDE DEF a
  <2>1. QED
    BY <1>1, AskedIs
<1>3. CallOK([c EXCEPT !.at = IF c.op = "read_at" THEN "read" ELSE "write"])
  BY DEF CallOK
<1>4. \/ tnfs_seek(file, c) = Transfer(file, c)
      \/ tnfs_seek(file, c) =
           Ask(file, c, "seek", [cmd |-> "LSEEK", fd |-> file.fd, whence |-> "SET", off |-> c.off])
  BY DEF tnfs_seek
<1>5. QED
  BY <1>2, <1>3, <1>4, TransferOK, AskStep

LEMMA NextChunkOK ==
  ASSUME NEW file, FileReady(file), NEW c, CallOK(c), c.op \in {"read_at", "write_at"}, NEW x
  PROVE  OutcomeOK(NextChunk(file, c, x), file.sock)
<1> DEFINE moved == [file EXCEPT !.pos = @ + 1]
           rest == [c EXCEPT !.off = @ + 1, !.left = Tail(@), !.got = Append(@, x)]
<1>1. NextChunk(file, c, x) = IF rest.left = <<>> THEN Return(moved, rest, "ESP_OK") ELSE tnfs_seek(moved, rest)
  BY DEF NextChunk
<1>2. FileReady(moved) /\ moved.sock = file.sock
  BY DEF FileReady, FileOK
<1>3. c.off \in Nat /\ c.left \in Seq(Nat) \ {<<>>}
  BY DEF CallOK
<1>4. c.off + 1 \in Nat /\ Tail(c.left) \in Seq(Nat)
  BY <1>3, HeadTailProperties
<1>5. rest.op = c.op /\ rest.left = Tail(c.left)
  BY DEF CallOK
<1>6. CASE rest.left # <<>>
  <2> DEFINE left == Tail(c.left)
             off == c.off + 1
             got == Append(c.got, x)
  <2>1. left \in Seq(Nat) \ {<<>>} /\ off \in Nat
    BY <1>4, <1>5, <1>6
  <2>2. rest = [c EXCEPT !.off = off, !.left = left, !.got = got]
    OBVIOUS
  <2> HIDE DEF left, off, got, rest
  <2>3. CallOK([rest EXCEPT !.at = "seek"])
    BY <2>1, <2>2 DEF CallOK
  <2> HIDE DEF moved
  <2>4. OutcomeOK(tnfs_seek(moved, rest), file.sock)
    BY <1>2, <1>5, <2>3, SeekOK
  <2>5. QED
    BY <1>1, <1>6, <2>4
<1>7. CASE rest.left = <<>>
  <2> HIDE DEF moved, rest
  <2>1. OutcomeOK(Return(moved, rest, "ESP_OK"), file.sock)
    BY <1>2, ReturnStep
  <2>2. QED
    BY <1>1, <1>7, <2>1
<1>8. QED
  BY <1>6, <1>7

LEMMA AfterSeekOK ==
  ASSUME NEW file, FileReady(file), NEW c, CallOK(c), c.at = "seek", NEW r
  PROVE  OutcomeOK(AfterSeek(file, c, r), file.sock)
<1> DEFINE there == [file EXCEPT !.pos = c.off, !.pos_valid = TRUE]
<1>1. AfterSeek(file, c, r) = Broken(file, c, r) \/ AfterSeek(file, c, r) = Transfer(there, c)
  BY DEF AfterSeek
<1>2. /\ c.op \in {"read_at", "write_at"} /\ c.off \in Nat
      /\ CallOK([c EXCEPT !.at = IF c.op = "read_at" THEN "read" ELSE "write"])
  BY DEF CallOK, ListSteps
<1>3. FileReady(there) /\ there.sock = file.sock
  BY <1>2 DEF FileReady, FileOK
<1> HIDE DEF there
<1>4. OutcomeOK(Transfer(there, c), file.sock)
  BY <1>2, <1>3, TransferOK
<1>5. QED
  BY <1>1, <1>4, BrokenOK

LEMMA AfterTransferOK ==
  ASSUME NEW file, FileReady(file), NEW c, CallOK(c), c.at \in {"read", "write"}, NEW r
  PROVE  OutcomeOK(tnfs_read_at(file, c, r), file.sock) /\ OutcomeOK(tnfs_write_at(file, c, r), file.sock)
<1> DEFINE grown == [file EXCEPT !.size = IF c.off + 1 > @ THEN c.off + 1 ELSE @]
<1>1. /\ tnfs_read_at(file, c, r) = Broken(file, c, r) \/ tnfs_read_at(file, c, r) = NextChunk(file, c, r.data[1])
      /\ tnfs_write_at(file, c, r) = Broken(file, c, r) \/ tnfs_write_at(file, c, r) = NextChunk(grown, c, Head(c.left))
  BY DEF tnfs_read_at, tnfs_write_at
<1>2. c.op \in {"read_at", "write_at"}
  BY DEF CallOK, ListSteps
<1>3. FileReady(grown) /\ grown.sock = file.sock
  BY DEF FileReady, FileOK
<1> HIDE DEF grown
<1>4. \A x : OutcomeOK(NextChunk(file, c, x), file.sock) /\ OutcomeOK(NextChunk(grown, c, x), file.sock)
  BY <1>2, <1>3, NextChunkOK
<1>5. QED
  BY <1>1, <1>4, BrokenOK

(* Another command of a listing, with what the call has learned. *)
LEMMA ListAsk ==
  ASSUME NEW file, FileReady(file), NEW c, CallOK(c), c.op = "list_dir"
  PROVE  /\ \A d : CallOK([d EXCEPT !.at = "readdirx"]) /\ [d EXCEPT !.at = "readdirx"].at = "readdirx"
                   /\ [d EXCEPT !.at = "readdirx"].dh = d.dh => OutcomeOK(ReadDirx(file, d), file.sock)
         /\ \A d : CallOK([d EXCEPT !.at = "readdir"]) /\ [d EXCEPT !.at = "readdir"].at = "readdir"
                   /\ [d EXCEPT !.at = "readdir"].dh = d.dh => OutcomeOK(ReadDir(file, d), file.sock)
<1>1. ASSUME NEW d, NEW a, a = [d EXCEPT !.at = "readdirx"], CallOK(a), a.at = "readdirx", a.dh = d.dh
      PROVE  OutcomeOK(ReadDirx(file, d), file.sock)
  <2>1. Asked(file, a) = [cmd |-> "READDIRX", dh |-> d.dh, n |-> 1]
    BY <1>1, AskedIs
  <2>2. QED
    BY <1>1, <2>1, AskStep DEF ReadDirx
<1>2. ASSUME NEW d, NEW a, a = [d EXCEPT !.at = "readdir"], CallOK(a), a.at = "readdir", a.dh = d.dh
      PROVE  OutcomeOK(ReadDir(file, d), file.sock)
  <2>1. Asked(file, a) = [cmd |-> "READDIR", dh |-> a.dh]
    BY <1>2 DEF Asked
  <2>2. QED
    BY <1>2, <2>1, AskStep DEF ReadDir
<1>3. QED
  BY <1>1, <1>2

LEMMA ListAfter ==
  ASSUME NEW file, FileReady(file), NEW c, CallOK(c), c.op = "list_dir"
  PROVE  /\ \A x : /\ OutcomeOK(Closedir(file, c, x), file.sock)
                   /\ OutcomeOK(Umount(file, c, x), file.sock)
                   /\ OutcomeOK(Closedir(file, [c EXCEPT !.got = x], "ESP_OK"), file.sock)
                   /\ OutcomeOK(ReadDirx(file, [c EXCEPT !.got = x]), file.sock)
                   /\ OutcomeOK(ReadDirx(file, [c EXCEPT !.dh = x]), file.sock)
                   /\ OutcomeOK(ReadDir(file, [c EXCEPT !.got = x]), file.sock)
                   /\ OutcomeOK(ReadDir(file, [c EXCEPT !.dh = x]), file.sock)
         /\ OutcomeOK(Ask(file, c, "opendir", OpenDir(c, "OPENDIR")), file.sock)
<1>1. /\ "umount" \in {"mount", "closedir", "umount"} \union ListSteps
      /\ "closedir" \in {"mount", "closedir", "umount"} \union ListSteps
      /\ "opendir" \in {"mount", "closedir", "umount"} \union ListSteps
      /\ "readdir" \in {"mount", "closedir", "umount"} \union ListSteps
      /\ "readdirx" \in {"mount", "closedir", "umount"} \union ListSteps
  BY DEF ListSteps
<1>2. ASSUME NEW x PROVE OutcomeOK(Closedir(file, c, x), file.sock)
  <2>1. CallOK([[c EXCEPT !.err = x] EXCEPT !.at = "closedir"])
    BY <1>1, ListKind, Zenon
  <2>2. QED
    BY <2>1, ClosedirStep, Zenon
<1>3. ASSUME NEW x PROVE OutcomeOK(Umount(file, c, x), file.sock)
  <2>1. CallOK([[c EXCEPT !.err = x] EXCEPT !.at = "umount"])
    BY <1>1, ListKind, Zenon
  <2>2. QED
    BY <2>1, UmountStep, Zenon
<1>4. ASSUME NEW x PROVE OutcomeOK(Closedir(file, [c EXCEPT !.got = x], "ESP_OK"), file.sock)
  <2>1. CallOK([[[c EXCEPT !.got = x] EXCEPT !.err = "ESP_OK"] EXCEPT !.at = "closedir"])
    BY <1>1, ListKind, Zenon
  <2>2. QED
    BY <2>1, ClosedirStep, Zenon
<1>5. ASSUME NEW x
      PROVE  /\ OutcomeOK(ReadDirx(file, [c EXCEPT !.got = x]), file.sock)
             /\ OutcomeOK(ReadDir(file, [c EXCEPT !.got = x]), file.sock)
  <2> DEFINE d == [c EXCEPT !.got = x]
  <2>1. CallOK([d EXCEPT !.at = "readdirx"]) /\ CallOK([d EXCEPT !.at = "readdir"])
    BY <1>1, ListKind, Zenon
  <2>2. /\ [d EXCEPT !.at = "readdirx"].at = "readdirx" /\ [d EXCEPT !.at = "readdirx"].dh = d.dh
        /\ [d EXCEPT !.at = "readdir"].at = "readdir" /\ [d EXCEPT !.at = "readdir"].dh = d.dh
    BY DEF CallOK
  <2> HIDE DEF d
  <2>3. OutcomeOK(ReadDirx(file, d), file.sock) /\ OutcomeOK(ReadDir(file, d), file.sock)
    BY <2>1, <2>2, ListAsk
  <2>4. QED
    BY <2>3 DEF d
<1>6. ASSUME NEW x
      PROVE  /\ OutcomeOK(ReadDirx(file, [c EXCEPT !.dh = x]), file.sock)
             /\ OutcomeOK(ReadDir(file, [c EXCEPT !.dh = x]), file.sock)
  <2> DEFINE d == [c EXCEPT !.dh = x]
  <2>1. CallOK([d EXCEPT !.at = "readdirx"]) /\ CallOK([d EXCEPT !.at = "readdir"])
    BY <1>1, ListKind, Zenon
  <2>2. /\ [d EXCEPT !.at = "readdirx"].at = "readdirx" /\ [d EXCEPT !.at = "readdirx"].dh = d.dh
        /\ [d EXCEPT !.at = "readdir"].at = "readdir" /\ [d EXCEPT !.at = "readdir"].dh = d.dh
    BY DEF CallOK
  <2> HIDE DEF d
  <2>3. OutcomeOK(ReadDirx(file, d), file.sock) /\ OutcomeOK(ReadDir(file, d), file.sock)
    BY <2>1, <2>2, ListAsk
  <2>4. QED
    BY <2>3 DEF d
<1>7. OutcomeOK(Ask(file, c, "opendir", OpenDir(c, "OPENDIR")), file.sock)
  <2> DEFINE a == [c EXCEPT !.at = "opendir"]
  <2>1. CallOK(a)
    BY <1>1, ListKind, Zenon
  <2>2. a.at = "opendir" /\ a.arg = c.arg
    BY DEF CallOK
  <2>3. Asked(file, a) = OpenDir(c, "OPENDIR")
    <3> HIDE DEF a
    <3>1. QED
      BY <2>2, AskedIs DEF OpenDir
  <2>4. QED
    BY <2>1, <2>3, AskStep
<1>8. QED
  BY <1>2, <1>3, <1>4, <1>5, <1>6, <1>7

LEMMA AfterListOK ==
  ASSUME NEW file, FileReady(file), NEW c, CallOK(c), c.op = "list_dir", NEW r
  PROVE  /\ OutcomeOK(tnfs_listx(file, c, r), file.sock)
         /\ OutcomeOK(tnfs_list_basic(file, c, r), file.sock)
         /\ OutcomeOK(AfterReadDirx(file, c, r), file.sock)
         /\ OutcomeOK(AfterReadDir(file, c, r), file.sock)
<1>1. OutcomeOK(tnfs_listx(file, c, r), file.sock)
  BY ListAfter DEF tnfs_listx
<1>2. OutcomeOK(tnfs_list_basic(file, c, r), file.sock)
  BY ListAfter DEF tnfs_list_basic
<1>3. OutcomeOK(AfterReadDirx(file, c, r), file.sock)
  BY ListAfter DEF AfterReadDirx
<1>4. OutcomeOK(AfterReadDir(file, c, r), file.sock)
  BY ListAfter DEF AfterReadDir
<1>5. QED
  BY <1>1, <1>2, <1>3, <1>4

LEMMA AfterOK ==
  ASSUME NEW file, FileReady(file), NEW c, CallOK(c), NEW r, server \in Servers
  PROVE  OutcomeOK(After(file, c, r), file.sock)
<1>1. CASE c.at = "mount"
  BY <1>1, AfterMountOK DEF After
<1>2. CASE c.at = "umount"
  BY <1>2, UmountedOK DEF After
<1>3. CASE c.at = "open"
  BY <1>3, AfterOpenOK DEF After
<1>4. CASE c.at = "size"
  BY <1>4, AfterSizeOK DEF After
<1>5. CASE c.at = "seek"
  BY <1>5, AfterSeekOK DEF After
<1>6. CASE c.at \in {"read", "write"}
  BY <1>6, AfterTransferOK DEF After
<1>7. CASE c.at = "close"
  <2>1. c.op = "close"
    BY <1>7 DEF CallOK, ListSteps
  <2>2. CallOK([[c EXCEPT !.err = "ESP_OK"] EXCEPT !.at = "umount"])
    BY <2>1, CloseKind, Zenon
  <2>3. OutcomeOK(Umount(file, c, "ESP_OK"), file.sock)
    BY <2>2, UmountStep, Zenon
  <2>4. QED
    BY <1>7, <2>3 DEF After
<1>8. CASE c.at \in {"closedir"} \union ListSteps
  <2>1. c.op = "list_dir"
    BY <1>8 DEF CallOK, ListSteps
  <2>2. CASE c.at = "closedir"
    BY <2>1, <2>2, ListAfter DEF After
  <2>3. CASE c.at \in ListSteps
    BY <2>1, <2>3, AfterListOK DEF After, ListSteps
  <2>4. QED
    BY <1>8, <2>2, <2>3
<1>9. QED
  BY <1>1, <1>2, <1>3, <1>4, <1>5, <1>6, <1>7, <1>8 DEF CallOK, ListSteps

-----------------------------------------------------------------------------
(* Requests and replies under way.                                         *)

(* m is the command of call c. *)
MessageOf(m, file, c, id) ==
    /\ m.peer = file.sock /\ m.tcp = file.tcp /\ m.sid = file.conn /\ m.seq = file.seq
    /\ m.id = id /\ m.wf = TRUE /\ RequestOK(m)
    /\ m.cmd = Asked(file, c).cmd /\ (m.cmd = "MOUNT" <=> c.at = "mount")
    /\ m.cmd = "MOUNT" => m.path = <<>>

LEMMA MessageIs ==
  ASSUME NEW file, FileReady(file), NEW c, CallOK(c), NEW id \in Nat
  PROVE  MessageOf(Message(file, c, id), file, c, id)
<1> SUFFICES ASSUME NEW m, m = Message(file, c, id)
             PROVE  MessageOf(m, file, c, id)
  OBVIOUS
<1> DEFINE r == Asked(file, c)
           header == [peer |-> file.sock, tcp |-> file.tcp, sid |-> file.conn, seq |-> file.seq,
                      id |-> id, wf |-> TRUE]
<1>1. m = WithHeader(header, r)
  BY DEF Message
<1>2. /\ m.peer = file.sock /\ m.tcp = file.tcp /\ m.sid = file.conn /\ m.seq = file.seq
      /\ m.id = id /\ m.wf = TRUE
  BY <1>1 DEF WithHeader
<1>3. \A x \in {"cmd", "path", "path2", "data", "off"} : x \in DOMAIN r => m[x] = r[x]
  <2> HIDE DEF r
  <2>1. QED
    BY <1>1 DEF WithHeader
<1>4. CASE c.at = "mount"
  <2>1. r = [cmd |-> "MOUNT", path |-> <<>>]
    BY <1>4, AskedIs
  <2>2. m.cmd = "MOUNT" /\ r.cmd = "MOUNT" /\ m.path = <<>> /\ <<>> \in Paths
    BY <1>3, <2>1 DEF Paths
  <2>3. QED
    BY <1>2, <1>4, <2>2 DEF RequestOK, MessageOf
<1>5. CASE c.at = "open"
  <2>1. r = [cmd |-> "OPEN", path |-> c.arg.path, flags |-> OpenFlags(c.arg)]
    BY <1>5, AskedIs
  <2>2. c.arg \in OpenArgs
    BY <1>5 DEF CallOK, ListSteps
  <2>3. c.arg.path \in Paths
    BY <2>2, DeviceAssumption, CardAssumption
  <2>4. m.cmd = "OPEN" /\ r.cmd = "OPEN" /\ m.path \in Paths
    BY <1>3, <2>1, <2>3
  <2>5. QED
    BY <1>2, <1>5, <2>4 DEF RequestOK, MessageOf
<1>6. CASE c.at = "write"
  <2>1. r = [cmd |-> "WRITE", fd |-> file.fd, data |-> Head(c.left)]
    BY <1>6, AskedIs
  <2>2. c.left \in Seq(Nat) \ {<<>>}
    BY <1>6 DEF CallOK, ListSteps
  <2>3. Head(c.left) \in Nat
    BY <2>2
  <2>4. m.cmd = "WRITE" /\ r.cmd = "WRITE" /\ m.data \in Nat
    BY <1>3, <2>1, <2>3
  <2>5. QED
    BY <1>2, <1>6, <2>4 DEF RequestOK, MessageOf
<1>7. CASE c.at \in {"size", "seek"}
  <2>1. PICK off \in Int, whence \in {"SET", "END"} : r = [cmd |-> "LSEEK", fd |-> file.fd, whence |-> whence, off |-> off]
    <3>1. CASE c.at = "size"
      <4>1. r = [cmd |-> "LSEEK", fd |-> file.fd, whence |-> "END", off |-> 0]
        BY <3>1 DEF Asked
      <4> HIDE DEF r
      <4>2. QED
        BY <4>1
    <3>2. CASE c.at = "seek"
      <4>1. c.off \in Int
        BY <3>2 DEF CallOK, ListSteps
      <4>2. r = [cmd |-> "LSEEK", fd |-> file.fd, whence |-> "SET", off |-> c.off]
        BY <3>2 DEF Asked
      <4> HIDE DEF r
      <4>3. QED
        BY <4>1, <4>2
    <3>3. QED
      BY <1>7, <3>1, <3>2
  <2>2. r.cmd = "LSEEK" /\ "cmd" \in DOMAIN r /\ "off" \in DOMAIN r /\ r.off \in Int
    BY <2>1
  <2>3. m.cmd = "LSEEK" /\ m.off \in Int
    <3> HIDE DEF r
    <3>1. QED
      BY <1>3, <2>2
  <2>4. QED
    BY <1>2, <1>7, <2>2, <2>3 DEF RequestOK, MessageOf
<1>8. CASE c.at \notin {"mount", "open", "write", "size", "seek"}
  <2>1. /\ r.cmd \in {"UMOUNT", "READ", "CLOSE", "OPENDIRX", "READDIRX", "OPENDIR", "READDIR", "CLOSEDIR"}
        /\ "cmd" \in DOMAIN r
    BY <1>8 DEF Asked, OpenDir
  <2>2. m.cmd = r.cmd
    BY <1>3, <2>1
  <2>3. QED
    BY <1>2, <1>8, <2>1, <2>2 DEF RequestOK, MessageOf
<1>9. QED
  BY <1>4, <1>5, <1>6, <1>7, <1>8

TakesReply == outbox' = outbox \/ (outbox # <<>> /\ outbox' = Tail(outbox))

LEMMA OutboxLess ==
  ASSUME outbox \in Seq(Range(outbox)), TakesReply
  PROVE  /\ outbox' \in Seq(Range(outbox')) /\ Range(outbox') \subseteq Range(outbox)
         /\ outbox = <<>> => outbox' = <<>>
<1>1. CASE outbox' = outbox
  BY <1>1
<1>2. CASE outbox # <<>> /\ outbox' = Tail(outbox)
  BY <1>2, ThinTail, ThinElements
<1>3. QED
  BY <1>1, <1>2 DEF TakesReply

LEMMA SortedThin ==
  ASSUME NEW p, NEW q, Thinned(p, q), Sorted(q)
  PROVE  Sorted(p)
<1>1. PICK h \in [DOMAIN p -> DOMAIN q] :
         /\ \A i \in DOMAIN p : p[i] = q[h[i]]
         /\ \A i, j \in DOMAIN p : i <= j => h[i] <= h[j]
  BY DEF Thinned
<1>2. ASSUME NEW i \in DOMAIN p, NEW j \in DOMAIN p, i <= j PROVE p[i].id <= p[j].id
  <2>1. h[i] \in DOMAIN q /\ h[j] \in DOMAIN q /\ h[i] <= h[j]
    BY <1>1, <1>2
  <2>2. QED
    BY <1>1, <2>1 DEF Sorted
<1>3. QED
  BY <1>2 DEF Sorted

(* Sending the latest command. *)
LEMMA SendSorted ==
  ASSUME NEW q, q \in Seq(Range(q)), Sorted(q), NEW m, m.id \in Nat,
         \A x \in Range(q) : x.id <= m.id, NEW p, p \in {q, Send(q, m)}
  PROVE  p \in Seq(Range(p)) /\ Range(p) \subseteq Range(q) \union {m} /\ Sorted(p)
<1>1. p = q \/ p = Append(q, m)
  BY SendAdds DEF Send
<1>2. CASE p = Append(q, m)
  <2>1. /\ p \in Seq(Range(p)) /\ Range(p) = Range(q) \union {m}
        /\ DOMAIN p = 1 .. Len(q) + 1 /\ DOMAIN q = 1 .. Len(q) /\ Len(q) \in Nat
        /\ p[Len(q) + 1] = m /\ \A i \in 1 .. Len(q) : p[i] = q[i]
    BY <1>2, Appended
  <2>2. ASSUME NEW i \in DOMAIN p, NEW j \in DOMAIN p, i <= j PROVE p[i].id <= p[j].id
    <3>1. CASE j = Len(q) + 1 /\ i = Len(q) + 1
      BY <2>1, <3>1
    <3>2. CASE j = Len(q) + 1 /\ i # Len(q) + 1
      <4>1. i \in 1 .. Len(q) /\ q[i] \in Range(q)
        BY <2>1, <3>2 DEF Range
      <4>2. QED
        BY <2>1, <3>2, <4>1
    <3>3. CASE j # Len(q) + 1
      <4>1. i \in 1 .. Len(q) /\ j \in 1 .. Len(q)
        BY <2>1, <2>2, <3>3
      <4>2. QED
        BY <2>1, <2>2, <4>1 DEF Sorted
    <3>4. QED
      BY <3>1, <3>2, <3>3
  <2>3. QED
    BY <2>1, <2>2 DEF Sorted
<1>3. QED
  BY <1>1, <1>2

-----------------------------------------------------------------------------
(* The steps of the client.                                                *)

(* Another attempt, or a datagram that is not taken. *)
SameCommand ==
    /\ UNCHANGED <<f, call, last, sent, clean>> /\ cmd'.m = cmd.m
    /\ Calling => DOMAIN cmd' = {"m", "attempt"}
    /\ inbox' = inbox \/ (Calling /\ inbox' = Send(inbox, cmd.m))

LEMMA CallOutcomes ==
  ASSUME ClientOK, Call
  PROVE  \E o : OutcomeOK(o, f.sock) /\ Proceed(o)
<1>0. FileOK(f) /\ server \in Servers /\ (Open => FileReady(f))
  BY DEF ClientOK, FileReady
<1>1. ASSUME ~Open, NEW a \in OpenArgs, Proceed(tnfs_try(f, Begin("open", a), FALSE))
      PROVE  \E o : OutcomeOK(o, f.sock) /\ Proceed(o)
  <2>1. CallOK([Begin("open", a) EXCEPT !.at = "mount"])
    BY DEF CallOK, Begin
  <2>2. OutcomeOK(tnfs_try(f, Begin("open", a), FALSE), f.sock)
    BY <1>0, <2>1, TryStep, Zenon
  <2>3. QED
    BY <1>1, <2>2
<1>2. ASSUME ~Open, NEW p \in ListArgs, Proceed(tnfs_try(f, Begin("list_dir", p), FALSE))
      PROVE  \E o : OutcomeOK(o, f.sock) /\ Proceed(o)
  <2>1. CallOK([Begin("list_dir", p) EXCEPT !.at = "mount"])
    BY DEF CallOK, Begin
  <2>2. OutcomeOK(tnfs_try(f, Begin("list_dir", p), FALSE), f.sock)
    BY <1>0, <2>1, TryStep, Zenon
  <2>3. QED
    BY <1>2, <2>2
<1>3. ASSUME Open, NEW op \in {"read_at", "write_at"}, NEW a \in IF op = "read_at" THEN ReadArgs ELSE WriteArgs,
             Proceed(tnfs_seek(f, [Begin(op, a) EXCEPT !.off = a.off, !.left = a.cells]))
      PROVE  \E o : OutcomeOK(o, f.sock) /\ Proceed(o)
  <2> DEFINE c == [Begin(op, a) EXCEPT !.off = a.off, !.left = a.cells]
  <2>1. a \in ReadArgs \union WriteArgs
    BY <1>3
  <2>2. a.off \in Nat /\ a.cells \in Seq(Nat) \ {<<>>}
    BY <2>1, DeviceAssumption
  <2>3. CallOK([c EXCEPT !.at = "seek"]) /\ c.op = op
    BY <2>1, <2>2 DEF CallOK, Begin
  <2> HIDE DEF c
  <2>4. OutcomeOK(tnfs_seek(f, c), f.sock)
    BY <1>0, <1>3, <2>3, SeekOK
  <2>5. QED
    BY <1>3, <2>4 DEF c
<1>4. ASSUME Open, Proceed(Ask(f, Begin("close", 0), "close", [cmd |-> "CLOSE", fd |-> f.fd]))
      PROVE  \E o : OutcomeOK(o, f.sock) /\ Proceed(o)
  <2> DEFINE a == [Begin("close", 0) EXCEPT !.at = "close"]
  <2>1. CallOK(a) /\ a.at = "close"
    BY DEF CallOK, Begin
  <2>2. Asked(f, a) = [cmd |-> "CLOSE", fd |-> f.fd]
    <3> HIDE DEF a
    <3>1. QED
      BY <2>1, AskedIs
  <2>3. OutcomeOK(Ask(f, Begin("close", 0), "close", [cmd |-> "CLOSE", fd |-> f.fd]), f.sock)
    BY <1>0, <1>4, <2>1, <2>2, AskStep
  <2>4. QED
    BY <1>4, <2>3
<1>5. CASE ~Open
  <2>1. \/ \E a \in OpenArgs : Proceed(tnfs_try(f, Begin("open", a), FALSE))
        \/ \E p \in ListArgs : Proceed(tnfs_try(f, Begin("list_dir", p), FALSE))
    BY <1>5, Zenon DEF Call
  <2>2. QED
    BY <1>1, <1>2, <1>5, <2>1
<1>6. CASE Open
  <2>1. \/ \E op \in {"read_at", "write_at"} :
              \E a \in IF op = "read_at" THEN ReadArgs ELSE WriteArgs :
                 Proceed(tnfs_seek(f, [Begin(op, a) EXCEPT !.off = a.off, !.left = a.cells]))
        \/ Proceed(Ask(f, Begin("close", 0), "close", [cmd |-> "CLOSE", fd |-> f.fd]))
    BY <1>6, Zenon DEF Call
  <2>2. QED
    BY <1>3, <1>4, <1>6, <2>1, Zenon
<1>7. QED
  BY <1>5, <1>6

LEMMA AdvancedFile ==
  ASSUME NEW file, FileReady(file), NEW n \in Nat
  PROVE  FileReady([file EXCEPT !.seq = (n + 1) % SeqLimit])
         /\ [file EXCEPT !.seq = (n + 1) % SeqLimit].sock = file.sock
<1>1. (n + 1) % SeqLimit \in 0 .. SeqLimit - 1
  BY SeqNumbers, Wrapped
<1> DEFINE k == (n + 1) % SeqLimit
<1> HIDE DEF k
<1>2. FileReady([file EXCEPT !.seq = k]) /\ [file EXCEPT !.seq = k].sock = file.sock
  BY <1>1 DEF FileReady, FileOK, k
<1>3. QED
  BY <1>2 DEF k

LEMMA ClientSteps ==
  ASSUME ClientOK, ClientNext
  PROVE  /\ server' = server /\ TakesReply
         /\ \/ SameCommand
            \/ \E o : OutcomeOK(o, f.sock) /\ Proceed(o)
<1>1. Calling => /\ FileReady(f) /\ CallOK(call) /\ server \in Servers /\ cmd.m.seq = f.seq
                 /\ DOMAIN cmd = {"m", "attempt"}
  <2> SUFFICES ASSUME Calling
               PROVE  /\ FileReady(f) /\ CallOK(call) /\ server \in Servers /\ cmd.m.seq = f.seq
                      /\ DOMAIN cmd = {"m", "attempt"}
    OBVIOUS
  <2>1. FileReady(f) /\ CallOK(call) /\ sent \in Nat /\ cmd.m = Message(f, call, sent)
    BY DEF ClientOK, FileReady
  <2>2. MessageOf(cmd.m, f, call, sent)
    BY <2>1, MessageIs
  <2>3. cmd.m.seq = f.seq
    BY <2>2 DEF MessageOf
  <2>4. QED
    BY <2>1, <2>3 DEF ClientOK
<1>2. Calling /\ Retransmit => SameCommand
  BY <1>1 DEF Retransmit, SameCommand
<1>3. Calling /\ GiveUp => \E o : OutcomeOK(o, f.sock) /\ Proceed(o)
  BY <1>1, AfterOK DEF GiveUp
<1>4. CASE TimesOut
  BY <1>2, <1>3, <1>4 DEF TimesOut, TakesReply
<1>5. CASE Backoff
  BY <1>2, <1>3, <1>5 DEF Backoff, TakesReply
<1>6. CASE Discard
  BY <1>1, <1>6 DEF Discard, TakesReply, SameCommand, clientVars
<1>7. CASE Responds
  <2> DEFINE file == [f EXCEPT !.seq = (cmd.m.seq + 1) % SeqLimit]
  <2>1. Calling /\ cmd.m.seq \in Nat
    BY <1>1, <1>7, SeqNumbers DEF Responds, FileReady, FileOK
  <2>2. FileReady(file) /\ file.sock = f.sock
    BY <1>1, <2>1, AdvancedFile
  <2>3. Proceed(After(file, call, Reply.body)) /\ TakesReply /\ server' = server
    BY <1>7 DEF Responds, TakesReply
  <2> HIDE DEF file
  <2>4. OutcomeOK(After(file, call, Reply.body), f.sock)
    BY <1>1, <2>1, <2>2, AfterOK
  <2>5. QED
    BY <2>3, <2>4
<1>8. CASE Call
  <2>1. server' = server /\ outbox' = outbox
    BY <1>8, Zenon DEF Call
  <2>2. QED
    BY <1>8, <2>1, CallOutcomes DEF TakesReply
<1>9. QED
  BY <1>4, <1>5, <1>6, <1>7, <1>8 DEF ClientNext

LEMMA SessionsSame ==
  ASSUME Sessions, UNCHANGED serverVars, f.sock \in Nat, f'.sock \in Nat, f.sock <= f'.sock
  PROVE  Sessions' /\ \A x : Settled(x)' <=> Settled(x)
<1>1. UNCHANGED <<up, serving, sess, expired, next_sid, vfs, fs, images>>
  BY DEF serverVars
<1>2. ServerInv /\ up' \in BOOLEAN /\ expired' \subseteq Slots
  BY <1>1 DEF Sessions, ServerInv, Shapes
<1>3. ServerInv'
  BY <1>1, <1>2, Unmoved
<1>4. Sessions'
  BY <1>1, <1>3 DEF Sessions
<1>5. \A x : Settled(x)' <=> Settled(x)
  BY <1>1 DEF Settled, MountedBy, Target, find_session, Answered
<1>6. QED
  BY <1>4, <1>5

(* Nothing new is under way. *)
LEMMA NothingNew ==
  ASSUME OnceInv, UNCHANGED <<serverVars, done, f, call, sent, server>>,
         Calling => cmd'.m = cmd.m /\ DOMAIN cmd' = DOMAIN cmd,
         inbox' \in Seq(Range(inbox')), Sorted(inbox'), Range(inbox') \subseteq Flying,
         outbox' \in Seq(Range(outbox')), Range(outbox') \subseteq Range(outbox)
  PROVE  OnceInv'
<1>1. ClientOK'
  BY DEF OnceInv, ClientOK, Calling, Open, FileOK, CallOK
<1>2. Flying' \subseteq Flying
  BY DEF Flying, Calling
<1>3. f.sock \in Nat /\ f'.sock \in Nat /\ f.sock <= f'.sock
  BY DEF OnceInv, ClientOK, FileOK
<1>4. Sessions' /\ \A x : Settled(x)' <=> Settled(x)
  BY <1>3, SessionsSame DEF OnceInv
<1>5. Queues'
  BY <1>2 DEF OnceInv, Queues, MessageOK
<1>6. Once'
  <2>1. outbox = <<>> => outbox' = <<>>
    <3>1. outbox = <<>> => Range(outbox) = {}
      BY DEF Range
    <3>2. Range(outbox') = {} => outbox' = <<>>
      BY EmptySeq DEF Range
    <3>3. QED
      BY <3>1, <3>2
  <2>2. expired' = expired
    BY DEF serverVars
  <2>3. QED
    BY <1>2, <1>4, <2>1, <2>2 DEF OnceInv, Once
<1>7. QED
  BY <1>1, <1>4, <1>5, <1>6 DEF OnceInv

(* A command that was never sent before, or none. *)
LEMMA NewCommand ==
  ASSUME OnceInv, NEW o, OutcomeOK(o, f.sock), Proceed(o), TakesReply,
         UNCHANGED <<serverVars, done, server>>
  PROVE  OnceInv'
<1>1. FileOK(f) /\ sent \in Nat /\ f.sock \in Nat /\ server \in Servers /\ done.id \in 0 .. sent
  BY DEF OnceInv, ClientOK, FileOK, Once
<1>2. /\ inbox \in Seq(Range(inbox)) /\ outbox \in Seq(Range(outbox)) /\ Sorted(inbox)
      /\ \A x \in Flying : MessageOK(x) /\ x.id \in done.id .. sent
  BY DEF OnceInv, Queues
<1>3. FileOK(f') /\ (f'.tcp => server.tcp) /\ f'.sock \in Nat /\ f.sock <= f'.sock
  BY DEF OutcomeOK, Proceed, FileOK
<1>4. Sessions' /\ \A x : Settled(x)' <=> Settled(x)
  BY <1>1, <1>3, SessionsSame DEF OnceInv
<1>5. outbox' \in Seq(Range(outbox')) /\ Range(outbox') \subseteq Range(outbox) /\ (outbox = <<>> => outbox' = <<>>)
  BY <1>2, OutboxLess
<1>6. Range(inbox) \subseteq Flying /\ expired' = expired
  BY DEF Flying, serverVars
<1>7. \A x : MessageOK(x) => MessageOK(x)'
  BY <1>1, <1>3 DEF MessageOK
<1>8. \A r \in Range(outbox) : r.peer \in 1 .. f'.sock
  BY <1>1, <1>3 DEF OnceInv, Queues
<1>9. CASE o.ask = <<>>
  <2>1. /\ call' = NoCall /\ inbox' = inbox /\ sent' = sent
        /\ (f'.conn # 0 => f'.sock > 0)
    BY <1>9 DEF Proceed, OutcomeOK
  <2>2. ~Calling'
    BY <2>1 DEF Calling, NoCall
  <2>3. ClientOK'
    BY <1>1, <1>3, <2>1, <2>2 DEF ClientOK, Open
  <2>4. Flying' \subseteq Flying
    BY <1>6, <2>1, <2>2 DEF Flying
  <2>5. Queues'
    BY <1>2, <1>5, <1>7, <1>8, <2>1, <2>4 DEF OnceInv, Queues
  <2>6. Once'
    BY <1>4, <1>5, <1>6, <2>1, <2>4 DEF OnceInv, Once
  <2>7. QED
    BY <1>4, <2>3, <2>5, <2>6 DEF OnceInv
<1>10. CASE o.ask # <<>>
  <2>0. PICK m : m = Message(f', call', sent')
    OBVIOUS
  <2>1. /\ o.ask = <<Asked(f', call')>> /\ CallOK(call') /\ f'.sock > 0
        /\ f' = o.f /\ call' = o.call /\ sent' = sent + 1
    BY <1>10 DEF Proceed, OutcomeOK
  <2>2. cmd' = [m |-> m, attempt |-> 1]
    <3>1. o.ask[1] = Asked(f', call')
      BY <2>1
    <3>2. cmd' = [m |-> WithHeader([peer |-> o.f.sock, tcp |-> o.f.tcp, sid |-> o.f.conn,
                                    seq |-> o.f.seq, id |-> sent + 1, wf |-> TRUE], o.ask[1]),
                  attempt |-> 1]
      BY <1>10 DEF Proceed
    <3>3. QED
      BY <2>0, <2>1, <3>1, <3>2 DEF Message
  <2>3. inbox' = Send(inbox, m)
    BY <1>10, <2>2 DEF Proceed
  <2>4. Calling'
    BY <2>1 DEF CallOK, Calling, ListSteps
  <2>6. MessageOf(m, f', call', sent')
    <3>1. f' = f' /\ FileReady(f')
      BY <1>3, <2>1 DEF FileReady
    <3>2. sent' \in Nat
      BY <1>1, <2>1
    <3>3. QED
      BY <2>0, <2>1, <3>1, <3>2, MessageIs
  <2>7. m.id = sent + 1 /\ m.wf = TRUE /\ RequestOK(m) /\ m.peer = f'.sock /\ (m.cmd = "MOUNT" => m.path = <<>>)
    BY <2>1, <2>6 DEF MessageOf
  <2>8. ClientOK'
    BY <1>1, <1>3, <2>0, <2>1, <2>2, <2>4 DEF ClientOK
  <2>9. inbox' \in Seq(Range(inbox')) /\ Range(inbox') \subseteq Range(inbox) \union {m} /\ Sorted(inbox')
    <3>1. m.id \in Nat /\ \A x \in Range(inbox) : x.id <= m.id
      BY <1>1, <1>2, <1>6, <2>7
    <3>2. Send(inbox, m) = inbox' /\ inbox' \in {inbox, Send(inbox, m)}
      BY <2>3
    <3>3. QED
      BY <1>2, <3>1, <3>2, SendSorted
  <2>10. Flying' \subseteq Flying \union {m}
    BY <1>6, <2>2, <2>9 DEF Flying
  <2>11. MessageOK(m)' /\ m.id \in done.id .. sent + 1 /\ m.id # done.id /\ \A x \in Flying : x.id < m.id
    <3>1. m.id \in Nat /\ m.peer \in 1 .. f'.sock
      BY <1>1, <1>3, <2>1, <2>7
    <3>2. MessageOK(m)'
      BY <2>7, <3>1 DEF MessageOK, RequestOK
    <3>3. m.id \in done.id .. sent + 1 /\ m.id # done.id
      BY <1>1, <2>7
    <3>4. \A x \in Flying : x.id < m.id
      BY <1>1, <1>2, <2>7
    <3>5. QED
      BY <3>2, <3>3, <3>4
  <2>12. Queues'
    <3>1. \A x \in Flying' : MessageOK(x)' /\ x.id \in done'.id .. sent'
      BY <1>1, <1>2, <1>7, <2>1, <2>10, <2>11
    <3>2. \A x, y \in Flying' : x.id = y.id => x = y
      BY <1>1, <1>2, <2>10, <2>11 DEF OnceInv, Queues
    <3>3. QED
      BY <1>5, <1>8, <2>9, <3>1, <3>2 DEF Queues
  <2>13. Once'
    <3>1. done'.id \in 0 .. sent'
      BY <1>1, <2>1
    <3>2. \A x \in Flying' : x.id = done'.id => Settled(x)'
      BY <1>4, <2>10, <2>11 DEF OnceInv, Once
    <3>3. expired' # {} => outbox' = <<>> /\ \A x \in Flying' : x.id # done'.id
      BY <1>5, <1>6, <2>10, <2>11 DEF OnceInv, Once
    <3>4. QED
      BY <3>1, <3>2, <3>3 DEF Once
  <2>14. QED
    BY <1>4, <2>8, <2>12, <2>13 DEF OnceInv
<1>11. QED
  BY <1>9, <1>10

LEMMA ClientOnce == ASSUME OnceInv, Client PROVE OnceInv' /\ done' = done
<1>1. ClientNext /\ UNCHANGED <<serverVars, done>>
  BY DEF Client
<1>2. server' = server /\ TakesReply /\ (SameCommand \/ \E o : OutcomeOK(o, f.sock) /\ Proceed(o))
  BY <1>1, ClientSteps DEF OnceInv
<1>3. CASE SameCommand
  <2>1. inbox \in Seq(Range(inbox)) /\ outbox \in Seq(Range(outbox)) /\ Sorted(inbox)
    BY DEF OnceInv, Queues
  <2>2. outbox' \in Seq(Range(outbox')) /\ Range(outbox') \subseteq Range(outbox)
    BY <1>2, <2>1, OutboxLess
  <2>3. inbox' \in Seq(Range(inbox')) /\ Range(inbox') \subseteq Flying /\ Sorted(inbox')
    <3>1. CASE inbox' = inbox
      BY <2>1, <3>1 DEF Flying
    <3>2. CASE Calling /\ inbox' = Send(inbox, cmd.m)
      <4> DEFINE m == cmd.m
      <4>1. m \in Flying /\ Range(inbox) \subseteq Flying
        BY <3>2 DEF Flying
      <4>2. m.id = sent /\ sent \in Nat
        <5>1. FileReady(f) /\ CallOK(call) /\ sent \in Nat /\ m = Message(f, call, sent)
          BY <3>2 DEF OnceInv, ClientOK, FileReady
        <5>2. MessageOf(m, f, call, sent)
          BY <5>1, MessageIs
        <5>3. QED
          BY <5>1, <5>2 DEF MessageOf
      <4>3. \A x \in Range(inbox) : x.id <= m.id
        BY <4>1, <4>2 DEF OnceInv, Queues, Once
      <4> HIDE DEF m
      <4>4. inbox' \in {inbox, Send(inbox, m)}
        BY <3>2 DEF m
      <4>5. QED
        BY <2>1, <4>1, <4>2, <4>3, <4>4, SendSorted
    <3>3. QED
      BY <1>3, <3>1, <3>2 DEF SameCommand
  <2>4. UNCHANGED <<serverVars, done, f, call, sent, server>> /\ (Calling => cmd'.m = cmd.m /\ DOMAIN cmd' = DOMAIN cmd)
    BY <1>1, <1>2, <1>3 DEF SameCommand, OnceInv, ClientOK
  <2>5. OnceInv'
    BY <2>2, <2>3, <2>4, NothingNew
  <2>6. QED
    BY <1>1, <2>5
<1>4. CASE \E o : OutcomeOK(o, f.sock) /\ Proceed(o)
  BY <1>1, <1>2, <1>4, NewCommand
<1>5. QED
  BY <1>2, <1>3, <1>4

-----------------------------------------------------------------------------
(* The steps of the server.                                                *)

LEMMA Sent ==
  ASSUME NEW q, q \in Seq(Range(q)), NEW r
  PROVE  SendTo(q, r) \in Seq(Range(SendTo(q, r))) /\ Range(SendTo(q, r)) \subseteq Range(q) \union {r}
<1>1. CASE SendTo(q, r) = q
  BY <1>1
<1>2. CASE SendTo(q, r) = Append(q, r)
  <2>1. PICK p : p = Append(q, r)
    OBVIOUS
  <2>2. p \in Seq(Range(p)) /\ Range(p) = Range(q) \union {r}
    BY <2>1, Appended
  <2>3. QED
    BY <1>2, <2>1, <2>2
<1>3. QED
  BY <1>1, <1>2, SendAdds

LEMMA NextRequest ==
  ASSUME OnceInv, inbox # <<>>
  PROVE  /\ Head(inbox) \in Range(inbox) /\ Head(inbox) \in Flying /\ MessageOK(Head(inbox))
         /\ Head(inbox).id \in done.id .. sent /\ Head(inbox).id \in Nat
         /\ Tail(inbox) \in Seq(Range(Tail(inbox))) /\ Sorted(Tail(inbox)) /\ Range(Tail(inbox)) \subseteq Range(inbox)
         /\ \A x \in Flying : x.id \in Head(inbox).id .. sent
<1>1. inbox \in Seq(Range(inbox)) /\ Sorted(inbox) /\ \A x \in Flying : MessageOK(x) /\ x.id \in done.id .. sent
  BY DEF OnceInv, Queues
<1>2. /\ Thinned(Tail(inbox), inbox) /\ Head(inbox) \in Range(inbox) /\ Head(inbox) = inbox[1]
      /\ 1 \in DOMAIN inbox
  BY <1>1, ThinTail
<1>3. Head(inbox) \in Flying /\ sent \in Nat /\ done.id \in Nat
  BY <1>2 DEF Flying, OnceInv, ClientOK, Once
<1>4. Tail(inbox) \in Seq(Range(Tail(inbox))) /\ Sorted(Tail(inbox)) /\ Range(Tail(inbox)) \subseteq Range(inbox)
  BY <1>1, <1>2, ThinElements, SortedThin
<1>5. ASSUME NEW x \in Flying PROVE x.id \in Head(inbox).id .. sent
  <2>1. CASE x \in Range(inbox)
    <3>1. PICK i \in DOMAIN inbox : x = inbox[i]
      BY <2>1 DEF Range
    <3>2. 1 <= i
      BY <1>1
    <3>3. inbox[1].id <= inbox[i].id
      BY <1>1, <1>2, <3>2 DEF Sorted
    <3>4. QED
      BY <1>1, <1>2, <1>3, <3>1, <3>3
  <2>2. CASE Calling /\ x = cmd.m
    <3>1. FileReady(f) /\ CallOK(call) /\ sent \in Nat /\ x = Message(f, call, sent)
      BY <2>2 DEF OnceInv, ClientOK, FileReady
    <3>2. MessageOf(x, f, call, sent)
      BY <3>1, MessageIs
    <3>3. x.id = sent
      BY <3>2 DEF MessageOf
    <3>4. QED
      BY <1>1, <1>3, <3>3
  <2>3. QED
    BY <2>1, <2>2 DEF Flying
<1>6. QED
  BY <1>1, <1>2, <1>3, <1>4, <1>5

(* No session is about to be reaped while the server takes a request. *)
LEMMA NoneExpired ==
  ASSUME Sessions, Receives
  PROVE  expired = {}
BY DEF Sessions, Receives, reap_idle, ServerInv, Shapes

(* What the server did with the request leaves the rest as it was. *)
LEMMA Taken ==
  ASSUME OnceInv, inbox # <<>>, inbox' = Tail(inbox), UNCHANGED clientVars, Sessions', Receives,
         expired' \subseteq expired,
         outbox' = outbox \/ \E r : r.peer \in 1 .. f.sock /\ outbox' = SendTo(outbox, r),
         done'.id = done.id \/ done'.id = Head(inbox).id,
         \A x \in Flying : x.id = done'.id => Settled(x)'
  PROVE  OnceInv'
<1>1. UNCHANGED <<f, call, cmd, sent, server>>
  BY DEF clientVars
<1>2. ClientOK'
  BY <1>1 DEF OnceInv, ClientOK, Calling, Open, FileOK, CallOK
<1>3. /\ Head(inbox).id \in done.id .. sent /\ \A x \in Flying : x.id \in Head(inbox).id .. sent
      /\ inbox' \in Seq(Range(inbox')) /\ Sorted(inbox') /\ Range(inbox') \subseteq Range(inbox)
  BY NextRequest
<1>4. Flying' \subseteq Flying
  BY <1>1, <1>3 DEF Flying, Calling
<1>5. outbox' \in Seq(Range(outbox')) /\ \A r \in Range(outbox') : r.peer \in 1 .. f'.sock
  BY <1>1, Sent DEF OnceInv, Queues
<1>6. sent \in Nat /\ done.id \in 0 .. sent /\ done'.id \in 0 .. sent'
  BY <1>1, <1>3 DEF OnceInv, ClientOK, Once
<1>7. Queues'
  <2>1. \A x \in Flying' : MessageOK(x)'
    BY <1>1, <1>4 DEF OnceInv, Queues, MessageOK
  <2>2. \A x \in Flying' : x.id \in done'.id .. sent'
    BY <1>1, <1>3, <1>4, <1>6
  <2>3. \A x, y \in Flying' : x.id = y.id => x = y
    BY <1>4 DEF OnceInv, Queues
  <2>4. QED
    BY <1>3, <1>5, <2>1, <2>2, <2>3 DEF Queues
<1>8. expired' = {}
  BY NoneExpired DEF OnceInv
<1>9. Once'
  BY <1>4, <1>6, <1>8 DEF Once
<1>10. QED
  BY <1>2, <1>7, <1>9 DEF OnceInv

(* The session of the slot has the answer, or is gone; the others stay. *)
Finished(slot, m, o) ==
    /\ DOMAIN sess' = Slots /\ \A x \in Slots \ {slot} : sess'[x] = sess[x]
    /\ m.cmd = "UMOUNT" => sess'[slot] = Blank
    /\ m.cmd # "UMOUNT" =>
          /\ sess'[slot] = reply_and_cache(o.s, m, o.body)
          /\ sess'[slot].in_use = sess[slot].in_use /\ sess'[slot].sid = sess[slot].sid
          /\ sess'[slot].peer = sess[slot].peer /\ sess'[slot].root = sess[slot].root
          /\ sess'[slot].files = o.s.files /\ sess'[slot].dirs = o.s.dirs
          /\ sess'[slot].reply = [seq |-> m.seq, cmd |-> m.cmd, body |-> o.body]
    /\ outbox' = SendTo(outbox, [peer |-> sess[slot].peer, sid |-> sess[slot].sid, seq |-> m.seq,
                                 cmd |-> m.cmd, body |-> o.body])
    /\ expired' = expired \ {slot} /\ fs' = o.fs
    /\ UNCHANGED <<up, serving, next_sid, images>>

LEMMA FinishIs ==
  ASSUME TableOK(sess), NEW m, NEW slot \in Slots, NEW o, SessionStep(sess[slot], o), Finish(slot, m, o)
  PROVE  Finished(slot, m, o)
<1> DEFINE s == reply_and_cache(o.s, m, o.body)
           table == [sess EXCEPT ![slot] = s]
           gone == IF m.cmd = "UMOUNT" THEN {slot} ELSE {}
           d == [peer |-> sess[slot].peer, sid |-> sess[slot].sid, seq |-> m.seq,
                 cmd |-> m.cmd, body |-> o.body]
<1>1. /\ s.in_use = sess[slot].in_use /\ s.sid = sess[slot].sid /\ s.peer = sess[slot].peer
      /\ s.root = sess[slot].root /\ s.files = o.s.files /\ s.dirs = o.s.dirs
      /\ s.reply = [seq |-> m.seq, cmd |-> m.cmd, body |-> o.body]
  BY DEF SessionStep, SessionOK, reply_and_cache
<1>2. /\ sess' = free_sessions(table, gone) /\ outbox' = SendTo(outbox, Datagram(s))
      /\ expired' = expired \ {slot} /\ fs' = o.fs /\ UNCHANGED <<up, serving, next_sid, images>>
  BY DEF Finish
<1>3. Datagram(s) = d
  <2> HIDE DEF s
  <2>1. s.reply.seq = m.seq /\ s.reply.cmd = m.cmd /\ s.reply.body = o.body
    BY <1>1
  <2>2. QED
    BY <1>1, <2>1 DEF Datagram
<1> HIDE DEF s
<1>4. /\ table[slot] = s /\ \A x \in Slots \ {slot} : table[x] = sess[x]
  BY DEF TableOK
<1> HIDE DEF table
<1>5. DOMAIN sess' = Slots /\ \A x \in Slots : sess'[x] = IF x \in gone THEN Blank ELSE table[x]
  BY <1>2 DEF free_sessions
<1>6. /\ DOMAIN sess' = Slots /\ \A x \in Slots \ {slot} : sess'[x] = sess[x]
      /\ m.cmd = "UMOUNT" => sess'[slot] = Blank
      /\ m.cmd # "UMOUNT" => sess'[slot] = s
  BY <1>4, <1>5
<1> HIDE DEF gone, d
<1>7. QED
  BY <1>1, <1>2, <1>3, <1>6 DEF s, d, Finished

(* A request that is carried out, by a server with or without OPENDIRX. *)
LEMMA RunAsIs ==
  ASSUME Sessions, NEW m, RequestOK(m), RunAs(m)
  PROVE  \E slot \in Fresh(m) : \E o :
            /\ SessionStep(sess[slot], o) /\ CardStep(o.fs, m.cmd) /\ Finish(slot, m, o)
            /\ IF Refuses(m) THEN o \in Fails(sess[slot], "ENOSYS") ELSE o \in Handle(sess[slot], m)
<1>1. /\ TableOK(sess) /\ VfsOK(vfs) /\ Owned(sess, vfs) /\ CardOK(fs) /\ MountedKnown
  BY DEF Sessions, ServerInv, Shapes
<1>2. \A slot \in Fresh(m) : slot \in Slots /\ SessionOK(sess[slot])
  BY <1>1 DEF Fresh, Target, find_session, TableOK
<1>3. CASE ~Refuses(m) /\ process(m)
  <2>1. PICK slot \in Fresh(m) : \E o \in Handle(sess[slot], m) : Finish(slot, m, o)
    BY <1>3 DEF process
  <2>2. PICK o \in Handle(sess[slot], m) : Finish(slot, m, o)
    BY <2>1
  <2>3. SessionStep(sess[slot], o) /\ CardStep(o.fs, m.cmd)
    BY <1>1, <1>2, HandleStep
  <2>4. QED
    BY <1>3, <2>2, <2>3
<1>4. CASE Refuses(m) /\ \E slot \in Fresh(m) : \E o \in Fails(sess[slot], "ENOSYS") : Finish(slot, m, o)
  <2>1. PICK slot \in Fresh(m) : \E o \in Fails(sess[slot], "ENOSYS") : Finish(slot, m, o)
    BY <1>4
  <2>2. PICK o \in Fails(sess[slot], "ENOSYS") : Finish(slot, m, o)
    BY <2>1
  <2>3. SessionStep(sess[slot], o) /\ o.fs = fs
    BY <1>1, <1>2, FailsStep
  <2>4. CardStep(o.fs, m.cmd)
    BY <1>1, <2>3, SameCard
  <2>5. QED
    BY <1>4, <2>2, <2>3, <2>4
<1>5. QED
  BY <1>3, <1>4 DEF RunAs

(* An answer from the cache, or none. *)
LEMMA AnsweredOnce ==
  ASSUME OnceInv, inbox # <<>>, inbox' = Tail(inbox), UNCHANGED <<clientVars, done>>,
         Duplicated(Head(inbox)) \/ Ignore(Head(inbox))
  PROVE  OnceInv'
<1> DEFINE m == Head(inbox)
<1>1. /\ UNCHANGED <<up, serving, sess, next_sid, vfs, fs, images, f>> /\ expired' \subseteq expired /\ Receives
  BY DEF Duplicated, Ignore, serverVars, clientVars
<1>2. ServerInv /\ up' \in BOOLEAN /\ expired' \subseteq Slots
  BY <1>1 DEF OnceInv, Sessions, ServerInv, Shapes
<1>3. ServerInv'
  BY <1>1, <1>2, Unmoved
<1>4. Sessions'
  BY <1>1, <1>3 DEF OnceInv, Sessions
<1>5. \A x : Settled(x)' <=> Settled(x)
  BY <1>1 DEF Settled, MountedBy, Target, find_session, Answered
<1>6. outbox' = outbox \/ \E r : r.peer \in 1 .. f.sock /\ outbox' = SendTo(outbox, r)
  <2>1. CASE Ignore(m)
    BY <2>1 DEF Ignore
  <2>2. CASE Duplicated(m)
    <3> DEFINE again == IF m.cmd = "MOUNT" THEN MountedBy(m)
                        ELSE {s \in Target(m) : Answered(sess[s], m)}
               slot == Lowest(again)
    <3>1. again # {} /\ outbox' = SendTo(outbox, Datagram(sess[slot]))
      BY <2>2 DEF Duplicated
    <3>2. again \subseteq {s \in Slots : sess[s].in_use}
      BY DEF MountedBy, Target, find_session
    <3> HIDE DEF again
    <3>3. slot \in Slots /\ sess[slot].in_use
      BY <3>1, <3>2, LowestIn, ServerAssumption
    <3> HIDE DEF slot
    <3>4. Datagram(sess[slot]).peer \in 1 .. f.sock
      BY <3>3 DEF Datagram, OnceInv, Sessions
    <3>5. QED
      BY <3>1, <3>4
  <2>3. QED
    BY <2>1, <2>2
<1>7. \A x \in Flying : x.id = done'.id => Settled(x)'
  BY <1>5 DEF OnceInv, Once
<1>8. QED
  BY <1>1, <1>4, <1>6, <1>7, Taken

(* A mount that was answered before is not run again. *)
LEMMA MountIsNew ==
  ASSUME OnceInv, NEW m \in Flying, m.cmd = "MOUNT", MountedBy(m) = {}
  PROVE  m.id > done.id
BY DEF OnceInv, Queues, Once, Settled

(* A MOUNT of the card: no slot is free, or a blank slot is taken. *)
TakesSlot(slot, s, m) ==
    /\ sess' = [sess EXCEPT ![slot] = s] /\ outbox' = SendTo(outbox, Datagram(s))
    /\ s.in_use /\ s.sid = NextSid(sess) /\ s.peer = m.peer /\ s.root = <<>>
    /\ s.files = Blank.files /\ s.dirs = Blank.dirs
    /\ s.reply = [seq |-> m.seq, cmd |-> m.cmd, body |-> Status("OK")]

LEMMA MountIs ==
  ASSUME ServerInv, NEW m, handle_mount(m), m.path = <<>>
  PROVE  \/ /\ UNCHANGED sess /\ FreeSlots = {}
            /\ outbox' = SendTo(outbox, [peer |-> m.peer, sid |-> 0, seq |-> m.seq, cmd |-> "MOUNT",
                                         body |-> Status("EAGAIN")])
         \/ \E slot \in FreeSlots : \E s : TakesSlot(slot, s, m)
<1> DEFINE slot == Lowest(FreeSlots)
           sid == NextSid(sess)
           new == [Blank EXCEPT !.in_use = TRUE, !.sid = sid, !.peer = m.peer, !.root = m.path]
           s == reply_and_cache(new, m, Status("OK"))
<1>1. ~BadPath(m.path)
  BY DEF BadPath, Range
<1>2. \/ /\ UNCHANGED sess /\ FreeSlots = {}
         /\ outbox' = SendTo(outbox, [peer |-> m.peer, sid |-> 0, seq |-> m.seq, cmd |-> "MOUNT",
                                      body |-> Status("EAGAIN")])
      \/ /\ FreeSlots # {} /\ sess' = [sess EXCEPT ![slot] = s]
         /\ outbox' = SendTo(outbox, Datagram(sess'[slot]))
  BY <1>1 DEF handle_mount
<1>3. CASE FreeSlots # {} /\ sess' = [sess EXCEPT ![slot] = s]
           /\ outbox' = SendTo(outbox, Datagram(sess'[slot]))
  <2>1. slot \in FreeSlots
    <3>1. FreeSlots \in SUBSET Nat
      BY ServerAssumption DEF FreeSlots
    <3>2. QED
      BY <1>3, <3>1, LowestIn
  <2> HIDE DEF slot, sid
  <2>2. /\ s.in_use /\ s.sid = sid /\ s.peer = m.peer /\ s.root = <<>>
        /\ s.files = Blank.files /\ s.dirs = Blank.dirs
        /\ s.reply = [seq |-> m.seq, cmd |-> m.cmd, body |-> Status("OK")]
    BY DEF reply_and_cache, Blank
  <2> HIDE DEF s
  <2>3. sess'[slot] = s
    BY <1>3, <2>1 DEF FreeSlots, ServerInv, Shapes, TableOK
  <2>4. QED
    BY <1>3, <2>1, <2>2, <2>3 DEF sid, TakesSlot
<1>4. QED
  BY <1>2, <1>3

LEMMA MountedOnce ==
  ASSUME OnceInv, inbox # <<>>, inbox' = Tail(inbox), UNCHANGED clientVars, NEW m, m = Head(inbox),
         handle_mount(m), done' = (IF FreeSlots' = FreeSlots THEN done ELSE Ran(m))
  PROVE  OnceInv' /\ (done' # done => done'.id > done.id)
<1>1. /\ m \in Flying /\ MessageOK(m) /\ m.cmd = "MOUNT" /\ MountedBy(m) = {} /\ Receives
      /\ UNCHANGED <<up, serving, expired, vfs, fs, images, f>>
  BY NextRequest DEF handle_mount, clientVars
<1>2. m.id > done.id /\ m.path = <<>> /\ m.peer \in 1 .. f.sock /\ RequestOK(m)
  BY <1>1, MountIsNew DEF MessageOK
<1>3. ServerInv /\ ServerInv'
  BY <1>1, <1>2, MountStep DEF OnceInv, Sessions
<1>4. DOMAIN sess = Slots
  BY <1>3 DEF ServerInv, Shapes, TableOK
<1>5. CASE UNCHANGED sess /\ FreeSlots = {} /\
           outbox' = SendTo(outbox, [peer |-> m.peer, sid |-> 0, seq |-> m.seq, cmd |-> "MOUNT",
                                     body |-> Status("EAGAIN")])
  <2>1. Sessions'
    BY <1>1, <1>3, <1>5 DEF OnceInv, Sessions
  <2>2. done' = done
    BY <1>5 DEF FreeSlots
  <2>3. \A x : Settled(x)' <=> Settled(x)
    BY <1>5 DEF Settled, MountedBy, Target, find_session, Answered
  <2>4. \A x \in Flying : x.id = done'.id => Settled(x)'
    BY <2>2, <2>3 DEF OnceInv, Once
  <2>5. PICK r : r.peer \in 1 .. f.sock /\ outbox' = SendTo(outbox, r)
    <3> DEFINE r == [peer |-> m.peer, sid |-> 0, seq |-> m.seq, cmd |-> "MOUNT", body |-> Status("EAGAIN")]
    <3>1. r.peer = m.peer
      OBVIOUS
    <3> HIDE DEF r
    <3>2. QED
      BY <1>2, <1>5, <3>1 DEF r
  <2>6. QED
    BY <1>1, <2>1, <2>2, <2>4, <2>5, Taken
<1>6. ASSUME NEW slot \in FreeSlots, NEW s,
             sess' = [sess EXCEPT ![slot] = s], outbox' = SendTo(outbox, Datagram(s)),
             s.in_use, s.peer = m.peer, s.root = <<>>,
             s.reply = [seq |-> m.seq, cmd |-> m.cmd, body |-> Status("OK")]
      PROVE  OnceInv' /\ (done' # done => done'.id > done.id)
  <2>1. slot \in Slots /\ ~sess[slot].in_use
    BY DEF FreeSlots
  <2>2. sess'[slot] = s /\ \A x \in Slots \ {slot} : sess'[x] = sess[x]
    BY <1>4, <1>6, <2>1
  <2>3. Sessions'
    BY <1>1, <1>2, <1>3, <1>6, <2>2 DEF OnceInv, Sessions
  <2>4. done'.id = m.id
    <3>1. FreeSlots' # FreeSlots
      BY <1>6, <2>1, <2>2 DEF FreeSlots
    <3>2. QED
      BY <3>1 DEF Ran
  <2>5. Settled(m)'
    <3>1. slot \in MountedBy(m)'
      BY <1>6, <2>1, <2>2 DEF MountedBy, Answered
    <3>2. QED
      BY <1>1, <3>1 DEF Settled
  <2>6. \A x \in Flying : x.id = done'.id => Settled(x)'
    BY <1>1, <2>4, <2>5 DEF OnceInv, Queues
  <2>7. Datagram(s).peer \in 1 .. f.sock
    BY <1>2, <1>6 DEF Datagram
  <2>8. OnceInv'
    BY <1>1, <1>6, <2>3, <2>4, <2>6, <2>7, Taken
  <2>9. QED
    BY <1>2, <2>4, <2>8
<1>7. CASE \E slot \in FreeSlots : \E s : TakesSlot(slot, s, m)
  BY <1>6, <1>7 DEF TakesSlot
<1>8. QED
  BY <1>2, <1>3, <1>5, <1>7, MountIs

(* A request is run once: then its session has the answer, or is gone. *)
LEMMA RunOnce ==
  ASSUME OnceInv, inbox # <<>>, inbox' = Tail(inbox), UNCHANGED clientVars, NEW m, m = Head(inbox),
         RunAs(m), done' = Ran(m)
  PROVE  OnceInv' /\ done'.id > done.id
<1>1. m \in Flying /\ MessageOK(m) /\ RequestOK(m) /\ m.id \in done.id .. sent
  BY NextRequest DEF MessageOK
<1>0. PICK slot \in Fresh(m) : \E o : SessionStep(sess[slot], o) /\ CardStep(o.fs, m.cmd) /\ Finish(slot, m, o)
  BY <1>1, RunAsIs DEF OnceInv
<1>2. PICK o : SessionStep(sess[slot], o) /\ CardStep(o.fs, m.cmd) /\ Finish(slot, m, o)
  BY <1>0
<1>3. /\ slot \in Slots /\ slot \in Target(m) /\ Receives /\ m.cmd # "MOUNT" /\ ~Answered(sess[slot], m)
      /\ sess[slot].in_use /\ sess[slot].sid = m.sid /\ sess[slot].peer = m.peer
  BY DEF Fresh, Target, find_session
<1>4. m.id > done.id
  <2>1. m.id # done.id
    BY <1>1, <1>3 DEF OnceInv, Once, Settled
  <2>2. QED
    BY <1>1, <2>1 DEF OnceInv, Once, ClientOK
<1>5. ServerInv /\ ServerInv' /\ TableOK(sess) /\ Distinct(sess)
  BY <1>2, FinishStep DEF OnceInv, Sessions, ServerInv, Shapes
<1>6. /\ DOMAIN sess' = Slots /\ \A x \in Slots \ {slot} : sess'[x] = sess[x]
      /\ m.cmd = "UMOUNT" => sess'[slot] = Blank
      /\ m.cmd # "UMOUNT" =>
            /\ sess'[slot].in_use = sess[slot].in_use /\ sess'[slot].sid = sess[slot].sid
            /\ sess'[slot].peer = sess[slot].peer /\ sess'[slot].root = sess[slot].root
            /\ sess'[slot].reply = [seq |-> m.seq, cmd |-> m.cmd, body |-> o.body]
      /\ outbox' = SendTo(outbox, [peer |-> sess[slot].peer, sid |-> sess[slot].sid, seq |-> m.seq,
                                   cmd |-> m.cmd, body |-> o.body])
      /\ expired' = expired \ {slot} /\ UNCHANGED <<serving, images>>
  <2>1. Finished(slot, m, o)
    BY <1>2, <1>3, <1>5, FinishIs
  <2>2. QED
    BY <2>1 DEF Finished
<1>7. ~Blank.in_use
  BY DEF Blank
<1>8. f' = f /\ done'.id = m.id /\ expired = {}
  BY <1>3, NoneExpired DEF clientVars, Ran, OnceInv
<1>9. Sessions'
  BY <1>3, <1>5, <1>6, <1>7, <1>8 DEF OnceInv, Sessions
<1>10. Settled(m)'
  <2>1. ASSUME NEW x \in Target(m)' PROVE Answered(sess'[x], m)
    <3>1. x \in Slots /\ m.sid # 0 /\ sess'[x].in_use /\ sess'[x].sid = m.sid
      BY DEF Target, find_session
    <3>2. x = slot
      BY <1>3, <1>5, <1>6, <3>1 DEF Distinct
    <3>3. QED
      BY <1>6, <1>7, <3>1, <3>2 DEF Answered
  <2>2. QED
    BY <1>3, <2>1 DEF Settled
<1>11. \A x \in Flying : x.id = done'.id => Settled(x)'
  BY <1>1, <1>8, <1>10 DEF OnceInv, Queues
<1>12. \E r : r.peer \in 1 .. f.sock /\ outbox' = SendTo(outbox, r)
  <2> DEFINE r == [peer |-> sess[slot].peer, sid |-> sess[slot].sid, seq |-> m.seq, cmd |-> m.cmd, body |-> o.body]
  <2>1. r.peer = sess[slot].peer
    OBVIOUS
  <2>2. sess[slot].peer \in 1 .. f.sock
    BY <1>3 DEF OnceInv, Sessions
  <2> HIDE DEF r
  <2>3. QED
    BY <1>6, <2>1, <2>2 DEF r
<1>13. OnceInv'
  BY <1>3, <1>6, <1>8, <1>9, <1>11, <1>12, Taken
<1>14. QED
  BY <1>4, <1>8, <1>13

LEMMA ServerOnce == ASSUME OnceInv, Server PROVE OnceInv' /\ (done' # done => done'.id > done.id)
<1>1. PICK m : m = Head(inbox)
  OBVIOUS
<1>2. inbox # <<>> /\ inbox' = Tail(inbox) /\ UNCHANGED clientVars
  BY DEF Server
<1>3. CASE (Duplicated(m) \/ Ignore(m)) /\ UNCHANGED done
  BY <1>1, <1>2, <1>3, AnsweredOnce
<1>4. CASE handle_mount(m) /\ done' = (IF FreeSlots' = FreeSlots THEN done ELSE Ran(m))
  BY <1>1, <1>2, <1>4, MountedOnce
<1>5. CASE RunAs(m) /\ done' = Ran(m)
  BY <1>1, <1>2, <1>5, RunOnce
<1>6. QED
  BY <1>1, <1>3, <1>4, <1>5 DEF Server

LEMMA ReapOnce == ASSUME OnceInv, Reap PROVE OnceInv'
<1>1. /\ reap_idle # {} /\ reap_idle \in SUBSET Slots /\ expired' = {} /\ sess' = free_sessions(sess, reap_idle)
      /\ UNCHANGED <<up, serving, next_sid, fs, images, inbox, outbox, f, call, cmd, sent, server, done>>
      /\ vfs' = CloseAll(vfs, UNION {HeldBy(sess[s]) : s \in reap_idle})
  BY DEF Reap, ReapIdle, netVars, clientVars, reap_idle
<1>2. expired # {} /\ serving = "serving" /\ ServerInv
  BY <1>1 DEF reap_idle, OnceInv, Sessions
<1>3. ServerInv'
  <2>1. serving' \in {"waiting", "serving"} /\ up' \in BOOLEAN /\ expired' \subseteq Slots /\ serving # "boot"
    BY <1>1, <1>2 DEF ServerInv, Shapes
  <2>2. QED
    BY <1>1, <1>2, <2>1, SessionsEnd
<1>4. Sessions'
  <2>1. \A s \in Slots : sess'[s].in_use => sess'[s] = sess[s]
    BY <1>1, BlankOK DEF free_sessions
  <2>2. QED
    BY <1>1, <1>3, <2>1 DEF OnceInv, Sessions
<1>5. ClientOK' /\ Flying' = Flying
  BY <1>1 DEF OnceInv, ClientOK, Calling, Open, FileOK, CallOK, Flying
<1>6. Queues'
  BY <1>1, <1>5 DEF OnceInv, Queues, MessageOK
<1>7. Once'
  BY <1>1, <1>2, <1>5 DEF OnceInv, Once
<1>8. QED
  BY <1>4, <1>5, <1>6, <1>7 DEF OnceInv

LEMMA IdlesOnce == ASSUME OnceInv, Idles PROVE OnceInv'
<1>1. /\ ~Calling /\ inbox = <<>> /\ outbox = <<>>
      /\ UNCHANGED <<up, serving, sess, next_sid, vfs, fs, images, inbox, outbox, f, call, cmd, sent, server, done>>
      /\ \E s \in Slots : sess[s].in_use /\ expired' = expired \union {s}
  BY DEF Idles, Expire, netVars, clientVars
<1>2. ServerInv'
  <2>1. ServerInv /\ up' \in BOOLEAN /\ expired' \subseteq Slots
    BY <1>1 DEF OnceInv, Sessions, ServerInv, Shapes
  <2>2. QED
    BY <1>1, <2>1, Unmoved
<1>3. Sessions'
  BY <1>1, <1>2 DEF OnceInv, Sessions
<1>4. ClientOK' /\ Flying' = Flying
  BY <1>1 DEF OnceInv, ClientOK, Calling, Open, FileOK, CallOK, Flying
<1>5. Flying = {}
  BY <1>1 DEF Flying, Range
<1>6. Queues'
  BY <1>1, <1>4 DEF OnceInv, Queues, MessageOK
<1>7. Once'
  BY <1>1, <1>4, <1>5 DEF OnceInv, Once
<1>8. QED
  BY <1>3, <1>4, <1>6, <1>7 DEF OnceInv

(* What the network delivers is what was sent, in order. *)
LEMMA NetworkThins ==
  ASSUME Queues, Network
  PROVE  Thinned(inbox', inbox) /\ Thinned(outbox', outbox)
<1>1. inbox \in Seq(Range(inbox)) /\ outbox \in Seq(Range(outbox))
  BY DEF Queues
<1>2. \A i \in DOMAIN inbox : Thinned(RemoveAt(inbox, i), inbox) /\ Thinned(InsertAt(inbox, i, inbox[i]), inbox)
  BY <1>1, ThinRemove, ThinDouble
<1>3. \A i \in DOMAIN outbox : Thinned(RemoveAt(outbox, i), outbox)
  BY <1>1, ThinRemove
<1>4. Thinned(inbox, inbox) /\ Thinned(outbox, outbox)
  BY <1>1, ThinSame
<1>5. QED
  BY <1>2, <1>3, <1>4 DEF Network, Lose, Duplicate

LEMMA NetworkOnce == ASSUME OnceInv, Network PROVE OnceInv'
<1>1. Thinned(inbox', inbox) /\ Thinned(outbox', outbox)
  BY NetworkThins DEF OnceInv
<1>2. /\ inbox' \in Seq(Range(inbox')) /\ Sorted(inbox') /\ Range(inbox') \subseteq Flying
      /\ outbox' \in Seq(Range(outbox')) /\ Range(outbox') \subseteq Range(outbox)
  BY <1>1, ThinElements, SortedThin DEF OnceInv, Queues, Flying
<1>3. UNCHANGED <<serverVars, done, f, call, sent, server, cmd>>
  BY DEF Network, clientVars
<1>4. QED
  BY <1>2, <1>3, NothingNew

LEMMA OnceNext ==
  ASSUME OnceInv, [Next]_vars
  PROVE  OnceInv' /\ (done' # done => done'.id > done.id)
<1>1. CASE Client
  BY <1>1, ClientOnce
<1>2. CASE Server
  BY <1>2, ServerOnce
<1>3. CASE Reap \/ Idles \/ Network
  BY <1>3, ReapOnce, IdlesOnce, NetworkOnce DEF Reap, Idles, Network
<1>4. CASE UNCHANGED vars
  <2>1. UNCHANGED <<serverVars, done, f, call, sent, server, cmd, inbox, outbox>>
    BY <1>4 DEF vars, clientVars, netVars
  <2>2. /\ inbox' \in Seq(Range(inbox')) /\ Sorted(inbox') /\ Range(inbox') \subseteq Flying
        /\ outbox' \in Seq(Range(outbox')) /\ Range(outbox') \subseteq Range(outbox)
    BY <2>1 DEF OnceInv, Queues, Flying
  <2>3. QED
    BY <2>1, <2>2, NothingNew
<1>5. QED
  BY <1>1, <1>2, <1>3, <1>4 DEF Next

LEMMA OnceInit == Init => OnceInv
<1> SUFFICES ASSUME Init PROVE OnceInv
  OBVIOUS
<1>1. /\ up = TRUE /\ serving = "serving" /\ expired = {} /\ fs = Card /\ images = {}
      /\ call = NoCall /\ server \in Servers /\ inbox = <<>> /\ outbox = <<>>
  BY DEF Init, ClientInit, NetInit
<1>2. ~Calling /\ Flying = {} /\ Range(inbox) = {} /\ Range(outbox) = {} /\ <<>> \in Seq({})
  BY <1>1 DEF Calling, NoCall, Flying, Range
<1>3. SidLimit \in Nat \ {0, 1} /\ 1 \in 0 .. SidLimit - 1
  <2>1. Cardinality(Slots) \in Nat /\ Cardinality(Slots) # 0
    BY ServerAssumption, FS_CardinalityType, FS_EmptySet
  <2>2. QED
    BY <2>1, ServerAssumption
<1>4. CardOK(fs)
  BY <1>1, CardAssumption DEF CardOK
<1>5. Queues /\ expired = {}
  BY <1>1, <1>2 DEF Queues, Sorted
<1>6. CASE Idle
  <2>1. \A s \in Slots : sess[s] = Blank
    BY <1>6 DEF Idle
  <2>2. TableOK(sess) /\ Freed(sess) /\ Distinct(sess)
    BY <1>6, <2>1, BlankOK DEF Idle, TableOK, Freed, Distinct
  <2>3. DOMAIN vfs = Fds /\ \A fd \in Fds : ~IsOpen(vfs, fd)
    BY <1>6 DEF Idle, IsOpen
  <2>4. \A s \in Slots, i \in FileSlots, fd \in Fds : ~Holds(sess, s, i, fd)
    <3>1. NoFd \notin Fds
      BY ServerAssumption DEF NoFd
    <3>2. QED
      BY <2>1, <3>1, BlankOK DEF Holds
  <2>5. VfsOK(vfs) /\ Owned(sess, vfs)
    BY <2>3, <2>4 DEF VfsOK, Owned
  <2>6. ServerInv
    BY <1>1, <1>3, <1>4, <1>6, <2>2, <2>5 DEF ServerInv, Shapes, MountedKnown, Idle
  <2>7. Sessions
    BY <1>1, <2>1, <2>6, BlankOK DEF Sessions
  <2>8. ClientOK
    BY <1>1, <1>2, <1>6, SeqNumbers DEF ClientOK, Idle, FileOK, NoFile, Open, Calling
  <2>9. Once
    BY <1>1, <1>2, <1>6 DEF Once, Idle
  <2>10. QED
    BY <1>5, <2>7, <2>8, <2>9 DEF OnceInv
<1>7. CASE FileOpen
  <2>1. PICK a \in OpenArgs :
          LET size == Len(Card[a.path].data)
              new == [Blank EXCEPT !.in_use = TRUE, !.sid = 1, !.peer = 1, !.files[0] = 0,
                             !.reply = [seq |-> 2 % SeqLimit, cmd |-> "LSEEK",
                                        body |-> [status |-> "OK", pos |-> size]]]
          IN  /\ sess = [s \in Slots |-> IF s # 1 THEN Blank ELSE new]
              /\ next_sid = SidAfter(1)
              /\ vfs = [fd \in Fds |-> IF fd # 0 THEN Unused ELSE
                          [Descriptor(a.path, OpenFlags(a)) EXCEPT !.pos = size]]
              /\ f = [NoFile EXCEPT !.sock = 1, !.conn = 1, !.seq = 3 % SeqLimit, !.size = size]
              /\ sent = 3 /\ done = [id |-> 3, times |-> 1] /\ ~server.tcp
    BY <1>7, Zenon DEF FileOpen
  <2> DEFINE size == Len(Card[a.path].data)
             new == [Blank EXCEPT !.in_use = TRUE, !.sid = 1, !.peer = 1, !.files[0] = 0,
                            !.reply = [seq |-> 2 % SeqLimit, cmd |-> "LSEEK",
                                       body |-> [status |-> "OK", pos |-> size]]]
             open == [Descriptor(a.path, OpenFlags(a)) EXCEPT !.pos = size]
  <2>2. a.path \in CardPaths /\ size \in Nat
    <3>1. a.path \in CardPaths
      BY DeviceAssumption
    <3>2. fs[a.path].data \in Seq(Nat) /\ Len(fs[a.path].data) \in Nat
      BY <1>4, <3>1, FileData
    <3>3. QED
      BY <1>1, <3>1, <3>2
  <2> HIDE DEF size
  <2>3. DescriptorOK(open)
    BY <2>2 DEF Descriptor, DescriptorOK
  <2>4. /\ SessionOK(new) /\ new.in_use /\ new.sid = 1 /\ new.peer = 1 /\ new.root = <<>>
        /\ \A i \in FileSlots : new.files[i] = IF i = 0 THEN 0 ELSE NoFd
    <3>1. 0 \in FileSlots /\ 0 \in Fds /\ <<>> \in Paths
      BY DeviceAssumption, ServerAssumption DEF Paths
    <3>2. QED
      BY <1>3, <3>1, BlankOK DEF SessionOK, Blank
  <2>5. /\ DOMAIN sess = Slots /\ \A s \in Slots : sess[s] = IF s = 1 THEN new ELSE Blank
    BY <2>1 DEF size
  <2>6. DOMAIN vfs = Fds /\ \A fd \in Fds : vfs[fd] = IF fd = 0 THEN open ELSE Unused
    BY <2>1 DEF size
  <2>7. f = [NoFile EXCEPT !.sock = 1, !.conn = 1, !.seq = 3 % SeqLimit, !.size = size]
        /\ next_sid = SidAfter(1) /\ sent = 3 /\ done = [id |-> 3, times |-> 1] /\ ~server.tcp
    BY <2>1 DEF size
  <2> HIDE DEF new, open
  <2>8. TableOK(sess) /\ Freed(sess) /\ Distinct(sess)
    BY <2>4, <2>5, BlankOK DEF TableOK, Freed, Distinct
  <2>9. \A fd \in Fds : IsOpen(vfs, fd) <=> fd = 0
    BY <2>3, <2>6, UsedDescriptor DEF IsOpen
  <2>10. \A s \in Slots, i \in FileSlots, fd \in Fds : Holds(sess, s, i, fd) <=> s = 1 /\ i = 0 /\ fd = 0
    <3>1. NoFd \notin Fds
      BY ServerAssumption DEF NoFd
    <3>2. QED
      BY <2>4, <2>5, <3>1, BlankOK DEF Holds
  <2>11. VfsOK(vfs) /\ Owned(sess, vfs)
    BY <2>3, <2>6, <2>9, <2>10, DeviceAssumption DEF VfsOK, Owned
  <2>12. next_sid \in 0 .. SidLimit - 1
    <3>1. 2 % SidLimit \in 0 .. SidLimit - 1
      BY <1>3, Wrapped
    <3>2. QED
      BY <2>7, <3>1 DEF SidAfter
  <2>13. ServerInv
    BY <1>1, <1>4, <2>8, <2>11, <2>12 DEF ServerInv, Shapes, MountedKnown
  <2>14. f.sock = 1
    BY <2>7 DEF NoFile
  <2>15. Sessions
    BY <1>1, <2>4, <2>5, <2>13, <2>14, BlankOK DEF Sessions
  <2>16. ClientOK
    <3>1. 3 % SeqLimit \in 0 .. SeqLimit - 1
      BY SeqNumbers, Wrapped
    <3> DEFINE seq == 3 % SeqLimit
    <3> HIDE DEF seq
    <3>2. seq \in 0 .. SeqLimit - 1 /\ f = [NoFile EXCEPT !.sock = 1, !.conn = 1, !.seq = seq, !.size = size]
      BY <2>7, <3>1 DEF seq
    <3>3. FileOK(f) /\ f.sock = 1 /\ f.tcp = FALSE
      BY <3>2 DEF FileOK, NoFile
    <3>4. QED
      BY <1>1, <1>2, <2>7, <3>3 DEF ClientOK, Calling
  <2>17. Once
    BY <1>1, <1>2, <2>7 DEF Once
  <2>18. QED
    BY <1>5, <2>15, <2>16, <2>17 DEF OnceInv
<1>8. QED
  BY <1>6, <1>7 DEF Init

LEMMA OnceInvariance == Spec => []OnceInv
<1>1. OnceInv /\ [Next]_vars => OnceInv'
  BY OnceNext
<1>2. QED
  BY <1>1, OnceInit, PTL DEF Spec

(* Whatever is lost, repeated by the client or doubled by the network, and  *)
(* whichever sessions end meanwhile: a command that tnfs_command() sends    *)
(* takes effect at most once, and never after a later one.                  *)
THEOREM CommandsOnce == Spec => AtMostOnce
<1>1. OnceInv /\ [Next]_vars => [done' # done => done'.id > done.id]_vars
  BY OnceNext
<1>2. QED
  BY <1>1, OnceInvariance, PTL DEF Spec, AtMostOnce

-----------------------------------------------------------------------------
(* The client and the replies that are its own.                            *)

LEMMA CommandIs ==
  ASSUME ClientOK, Calling
  PROVE  MessageOf(cmd.m, f, call, sent) /\ CallOK(call) /\ FileReady(f)
<1>1. FileReady(f) /\ CallOK(call) /\ sent \in Nat /\ cmd.m = Message(f, call, sent)
  BY DEF ClientOK, FileReady
<1> DEFINE m == cmd.m
<1> HIDE DEF m
<1>2. m = Message(f, call, sent) => MessageOf(m, f, call, sent)
  BY <1>1, MessageIs
<1>3. QED
  BY <1>1, <1>2 DEF m

LEMMA NextCommandIs ==
  ASSUME ClientOK', Calling', server' = server
  PROVE  MessageOf(cmd'.m, f', call', sent') /\ CallOK(call')
<1>1. FileReady(f') /\ CallOK(call') /\ sent' \in Nat /\ cmd'.m = Message(f', call', sent')
  BY DEF ClientOK, FileReady
<1>2. PICK m : m = cmd'.m
  OBVIOUS
<1>3. MessageOf(m, f', call', sent')
  BY <1>1, <1>2, MessageIs
<1>4. QED
  BY <1>1, <1>2, <1>3

(* The commands of the steps. *)
LEMMA CommandNames ==
  ASSUME NEW file, NEW c
  PROVE  /\ c.at = "mount" => Asked(file, c).cmd = "MOUNT"
         /\ c.at = "open" => Asked(file, c).cmd = "OPEN"
         /\ c.at \in {"size", "seek"} => Asked(file, c).cmd = "LSEEK"
         /\ c.at = "read" => Asked(file, c).cmd = "READ"
         /\ c.at = "write" => Asked(file, c).cmd = "WRITE"
         /\ c.at = "opendirx" => Asked(file, c).cmd = "OPENDIRX"
         /\ c.at = "readdirx" => Asked(file, c).cmd = "READDIRX"
         /\ c.at = "opendir" => Asked(file, c).cmd = "OPENDIR"
         /\ c.at = "readdir" => Asked(file, c).cmd = "READDIR"
<1>1. /\ c.at = "mount" => Asked(file, c).cmd = "MOUNT"
      /\ c.at = "open" => Asked(file, c).cmd = "OPEN"
      /\ c.at = "size" => Asked(file, c).cmd = "LSEEK"
      /\ c.at = "seek" => Asked(file, c).cmd = "LSEEK"
  BY AskedIs
<1>2. /\ c.at = "read" => Asked(file, c).cmd = "READ"
      /\ c.at = "write" => Asked(file, c).cmd = "WRITE"
      /\ c.at = "readdirx" => Asked(file, c).cmd = "READDIRX"
      /\ c.at = "readdir" => Asked(file, c).cmd = "READDIR"
  BY AskedIs
<1>3. /\ c.at = "opendirx" => Asked(file, c).cmd = "OPENDIRX"
      /\ c.at = "opendir" => Asked(file, c).cmd = "OPENDIR"
  BY AskedIs DEF OpenDir
<1>4. QED
  BY <1>1, <1>2, <1>3

(* The sequence number of a command is that of the replies to it. *)
LEMMA AcceptsCurrent ==
  ASSUME ClientOK, Stream1, Calling, outbox # <<>>, outbox \in Seq(Range(outbox)), Accepts
  PROVE  Current(Reply) /\ Reply \in Range(outbox) /\ Reply = outbox[1] /\ 1 \in DOMAIN outbox
<1>1. Reply \in Range(outbox) /\ Reply = outbox[1] /\ 1 \in DOMAIN outbox
  BY ThinTail DEF Reply
<1>2. cmd.m.seq = f.seq /\ (f.tcp => server.tcp)
  BY CommandIs DEF MessageOf, ClientOK
<1>3. CASE f.tcp
  BY <1>1, <1>2, <1>3 DEF Stream1
<1>4. CASE ~f.tcp
  BY <1>1, <1>2, <1>4 DEF Accepts, udp_response, Current, Cur, Own
<1>5. QED
  BY <1>1, <1>3, <1>4

(* How a step of the client goes on with o: in a session of its own, with  *)
(* no session to go on with, or in the same one.                           *)
Anew(file, o) == o.f.sock = file.sock + 1 /\ o.call.at = "mount" /\ o.ask # <<>>
Over(o) == o.call.at \in {"umount", "closedir"} \/ (o.call = NoCall /\ o.f.conn = 0)
Further(file, c, o) ==
    /\ o.f.sock = file.sock /\ o.f.seq = file.seq /\ o.call.at # "mount"
    /\ o.f.conn = IF c.at = "mount" THEN Reply.sid ELSE file.conn
Failed(file, o) ==
    /\ o.f = [file EXCEPT !.pos_valid = FALSE] /\ o.call = NoCall /\ o.ask = <<>>
    /\ o.ret[1].err # "ESP_OK"

LEMMA EndsSession ==
  ASSUME NEW file, NEW c, "at" \in DOMAIN c, NEW err
  PROVE  Over(Umount(file, c, err)) /\ Over(Closedir(file, c, err))
BY DEF Over, Umount, Closedir, Ask

LEMMA EndsClosed ==
  ASSUME NEW file, NEW c, NEW err
  PROVE  Over(Return([NoFile EXCEPT !.sock = file.sock], c, err))
BY DEF Over, Return, NoFile

LEMMA AsksFurther ==
  ASSUME NEW file, NEW g, g.sock = file.sock, g.seq = file.seq, NEW c, NEW d, "at" \in DOMAIN d,
         g.conn = IF c.at = "mount" THEN Reply.sid ELSE file.conn, NEW at, at # "mount", NEW request
  PROVE  Further(file, c, Ask(g, d, at, request))
BY DEF Further, Ask

LEMMA ReturnsFurther ==
  ASSUME NEW file, NEW g, g.sock = file.sock, g.seq = file.seq, NEW c, NEW d,
         g.conn = file.conn, c.at # "mount", NEW err
  PROVE  Further(file, c, Return(g, d, err))
BY DEF Further, Return, NoCall

LEMMA AfterMountGoes ==
  ASSUME NEW file, FileReady(file), NEW c, CallOK(c), c.at = "mount", NEW r
  PROVE  LET o == AfterMount(file, c, r)
         IN  Anew(file, o) \/ Over(o) \/ (Further(file, c, o) /\ r.status = "OK")
<1> DEFINE mounted == [file EXCEPT !.conn = Reply.sid]
           o == AfterMount(file, c, r)
<1>1. \/ r.status = "OK" /\ o = tnfs_open(mounted, c)
      \/ r.status = "OK" /\ o = tnfs_list_dir(mounted, c)
      \/ o = tnfs_try(file, c, TRUE)
      \/ o = Return([NoFile EXCEPT !.sock = file.sock], c, "ESP_ERR_TIMEOUT")
  BY DEF AfterMount
<1>2. mounted.sock = file.sock /\ mounted.seq = file.seq /\ mounted.conn = Reply.sid /\ "at" \in DOMAIN c
  BY DEF FileReady, FileOK, CallOK
<1>3. Anew(file, tnfs_try(file, c, TRUE))
  BY DEF Anew, tnfs_try, tnfs_mount_root, Ask, FileReady, FileOK, CallOK
<1> HIDE DEF mounted, o
<1>4. Further(file, c, tnfs_open(mounted, c)) /\ Further(file, c, tnfs_list_dir(mounted, c))
  BY <1>2, AsksFurther DEF tnfs_open, tnfs_list_dir
<1>5. QED
  BY <1>1, <1>3, <1>4, EndsClosed DEF o

LEMMA AfterOpenGoes ==
  ASSUME NEW file, FileReady(file), NEW c, CallOK(c), c.at = "open", NEW r
  PROVE  LET o == AfterOpen(file, c, r)
         IN  Over(o) \/ (Further(file, c, o) /\ r.status = "OK")
<1> DEFINE opened == [file EXCEPT !.fd = r.fd, !.size = 0, !.pos_valid = FALSE]
           o == AfterOpen(file, c, r)
<1>1. \/ o = Umount(file, c, status_err(r))
      \/ r.status = "OK" /\ o = Return(opened, c, "ESP_OK")
      \/ r.status = "OK" /\ o = tnfs_query_size(opened, c)
  BY DEF AfterOpen
<1>2. opened.sock = file.sock /\ opened.seq = file.seq /\ opened.conn = file.conn /\ "at" \in DOMAIN c
  BY DEF FileReady, FileOK, CallOK
<1> HIDE DEF opened, o
<1>3. Further(file, c, tnfs_query_size(opened, c)) /\ Further(file, c, Return(opened, c, "ESP_OK"))
  BY <1>2, AsksFurther, ReturnsFurther DEF tnfs_query_size
<1>4. Over(Umount(file, c, status_err(r)))
  BY <1>2, EndsSession
<1>5. QED
  BY <1>1, <1>3, <1>4 DEF o

LEMMA AfterSizeGoes ==
  ASSUME NEW file, FileReady(file), NEW c, c.at = "size", NEW r
  PROVE  Further(file, c, AfterSize(file, c, r))
<1> DEFINE sized == IF r.status = "OK" THEN [file EXCEPT !.size = r.pos] ELSE file
<1>1. sized.sock = file.sock /\ sized.seq = file.seq /\ sized.conn = file.conn
  BY DEF FileReady, FileOK
<1>2. AfterSize(file, c, r) = Return(sized, c, "ESP_OK")
  BY DEF AfterSize
<1> HIDE DEF sized
<1>3. QED
  BY <1>1, <1>2, ReturnsFurther

(* The steps of a transfer: it fails, or cell by cell it goes on. *)
LEMMA BrokenFails ==
  ASSUME NEW file, FileReady(file), NEW c, c.at # "mount", NEW r
  PROVE  Failed(file, Broken(file, c, r)) /\ Further(file, c, Broken(file, c, r))
<1> DEFINE broken == [file EXCEPT !.pos_valid = FALSE]
<1>1. PICK err : err # "ESP_OK" /\ Broken(file, c, r) = Return(broken, c, err)
  <2>1. Broken(file, c, r) = Return(broken, c, IF r = Timeout THEN "ESP_ERR_TIMEOUT" ELSE "ESP_FAIL")
    BY DEF Broken
  <2>2. (IF r = Timeout THEN "ESP_ERR_TIMEOUT" ELSE "ESP_FAIL") # "ESP_OK"
    OBVIOUS
  <2>3. QED
    BY <2>1, <2>2
<1>2. broken.sock = file.sock /\ broken.seq = file.seq /\ broken.conn = file.conn
  BY DEF FileReady, FileOK
<1> HIDE DEF broken
<1>3. Further(file, c, Return(broken, c, err))
  BY <1>2, ReturnsFurther
<1>4. Failed(file, Return(broken, c, err))
  BY <1>1 DEF Failed, Return, broken
<1>5. QED
  BY <1>1, <1>3, <1>4

(* The next cell is asked for, with the server's file where it should be. *)
Transfers(file, c, o) ==
    /\ o.f = file /\ o.ask # <<>>
    /\ o.call = [c EXCEPT !.at = IF c.op = "read_at" THEN "read" ELSE "write"]

LEMMA TransferGoes ==
  ASSUME NEW file, NEW c, c.op \in {"read_at", "write_at"}
  PROVE  Transfers(file, c, Transfer(file, c))
BY DEF Transfers, Transfer, Ask

LEMMA TransfersFurther ==
  ASSUME NEW file, NEW g, g.sock = file.sock, g.seq = file.seq, g.conn = file.conn,
         NEW c, c.at # "mount", NEW d, "at" \in DOMAIN d, NEW o, Transfers(g, d, o)
  PROVE  Further(file, c, o)
BY DEF Transfers, Further

LEMMA AfterSeekGoes ==
  ASSUME NEW file, FileReady(file), NEW c, CallOK(c), c.at = "seek", NEW r
  PROVE  LET o == AfterSeek(file, c, r)
         IN  /\ Further(file, c, o)
             /\ \/ Failed(file, o)
                \/ r.status = "OK" /\ Transfers([file EXCEPT !.pos = c.off, !.pos_valid = TRUE], c, o)
<1> DEFINE there == [file EXCEPT !.pos = c.off, !.pos_valid = TRUE]
           o == AfterSeek(file, c, r)
<1>1. o = Broken(file, c, r) \/ (r.status = "OK" /\ o = Transfer(there, c))
  BY DEF AfterSeek
<1>2. there.sock = file.sock /\ there.seq = file.seq /\ there.conn = file.conn
      /\ "at" \in DOMAIN c /\ c.op \in {"read_at", "write_at"}
  BY DEF FileReady, FileOK, CallOK, ListSteps
<1> HIDE DEF there, o
<1>3. Transfers(there, c, Transfer(there, c))
  BY <1>2, TransferGoes
<1>4. Further(file, c, Transfer(there, c))
  BY <1>2, <1>3, TransfersFurther
<1>5. QED
  BY <1>1, <1>3, <1>4, BrokenFails DEF there, o

(* After a cell x: the last one, or another is transferred. *)
Cell(file, c, x, o) ==
    LET moved == [file EXCEPT !.pos = @ + 1]
        rest == [c EXCEPT !.off = @ + 1, !.left = Tail(@), !.got = Append(@, x)]
    IN  \/ /\ rest.left = <<>> /\ o.f = moved /\ o.call = NoCall /\ o.ask = <<>>
           /\ o.ret = <<[op |-> c.op, err |-> "ESP_OK", arg |-> c.arg, got |-> rest.got]>>
        \/ rest.left # <<>> /\ Transfers(moved, rest, o)

LEMMA NextChunkGoes ==
  ASSUME NEW file, FileReady(file), file.pos_valid, NEW c, CallOK(c), c.at \in {"read", "write"},
         file.pos = c.off, NEW x
  PROVE  Cell(file, c, x, NextChunk(file, c, x)) /\ Further(file, c, NextChunk(file, c, x))
<1> DEFINE moved == [file EXCEPT !.pos = @ + 1]
           rest == [c EXCEPT !.off = @ + 1, !.left = Tail(@), !.got = Append(@, x)]
           o == NextChunk(file, c, x)
<1>1. o = IF rest.left = <<>> THEN Return(moved, rest, "ESP_OK") ELSE tnfs_seek(moved, rest)
  BY DEF NextChunk
<1>2. /\ moved.sock = file.sock /\ moved.seq = file.seq /\ moved.conn = file.conn
      /\ moved.pos_valid /\ moved.pos = file.pos + 1
  BY DEF FileReady, FileOK
<1>3. /\ rest.off = c.off + 1 /\ rest.op = c.op /\ rest.arg = c.arg /\ "at" \in DOMAIN rest
      /\ c.op \in {"read_at", "write_at"}
  BY DEF CallOK, ListSteps
<1> HIDE DEF moved, rest, o
<1>4. CASE rest.left = <<>>
  <2>1. o = Return(moved, rest, "ESP_OK")
    BY <1>1, <1>4
  <2>2. Further(file, c, o)
    BY <1>2, <2>1, ReturnsFurther
  <2>3. /\ o.f = moved /\ o.call = NoCall /\ o.ask = <<>>
        /\ o.ret = <<[op |-> c.op, err |-> "ESP_OK", arg |-> c.arg, got |-> rest.got]>>
    BY <1>3, <2>1 DEF Return
  <2>4. QED
    BY <1>4, <2>2, <2>3 DEF Cell, moved, rest, o
<1>5. CASE rest.left # <<>>
  <2>1. o = Transfer(moved, rest)
    BY <1>1, <1>2, <1>3, <1>5 DEF tnfs_seek
  <2>2. Transfers(moved, rest, o)
    BY <1>3, <2>1, TransferGoes
  <2>3. Further(file, c, o)
    BY <1>2, <1>3, <2>2, TransfersFurther
  <2>4. QED
    BY <1>5, <2>2, <2>3 DEF Cell, moved, rest, o
<1>6. QED
  BY <1>4, <1>5

(* The size is not looked at by what follows. *)
Grown(file, g) == g = file \/ \E n : g = [file EXCEPT !.size = n]

LEMMA AfterCellGoes ==
  ASSUME NEW file, FileReady(file), NEW c, CallOK(c), c.at \in {"read", "write"},
         file.pos_valid, file.pos = c.off, NEW r
  PROVE  LET o == After(file, c, r)
             x == IF c.at = "read" THEN r.data[1] ELSE Head(c.left)
         IN  /\ Further(file, c, o)
             /\ \/ Failed(file, o)
                \/ r.status = "OK" /\ \E g : Grown(file, g) /\ Cell(g, c, x, o)
<1> DEFINE o == After(file, c, r)
           grown == [file EXCEPT !.size = IF c.off + 1 > @ THEN c.off + 1 ELSE @]
<1>1. Grown(file, file) /\ Grown(file, grown)
  BY DEF Grown
<1>2. /\ FileReady(grown) /\ grown.pos_valid /\ grown.pos = c.off
      /\ grown.sock = file.sock /\ grown.seq = file.seq /\ grown.conn = file.conn
  BY DEF FileReady, FileOK
<1>3. c.at = "read" => o = tnfs_read_at(file, c, r)
  BY DEF After
<1>4. c.at = "write" => o = tnfs_write_at(file, c, r)
  BY DEF After
<1>5. /\ tnfs_read_at(file, c, r) = Broken(file, c, r)
         \/ (r.status = "OK" /\ tnfs_read_at(file, c, r) = NextChunk(file, c, r.data[1]))
      /\ tnfs_write_at(file, c, r) = Broken(file, c, r)
         \/ (r.status = "OK" /\ tnfs_write_at(file, c, r) = NextChunk(grown, c, Head(c.left)))
  BY DEF tnfs_read_at, tnfs_write_at
<1> HIDE DEF grown, o
<1>6. \A x : Cell(file, c, x, NextChunk(file, c, x)) /\ Further(file, c, NextChunk(file, c, x))
  BY NextChunkGoes
<1>7. \A x : Cell(grown, c, x, NextChunk(grown, c, x)) /\ Further(grown, c, NextChunk(grown, c, x))
  BY <1>2, NextChunkGoes
<1>8. \A x : Further(file, c, NextChunk(grown, c, x))
  BY <1>2, <1>7 DEF Further
<1>9. Failed(file, Broken(file, c, r)) /\ Further(file, c, Broken(file, c, r))
  BY BrokenFails
<1>10. CASE c.at = "read"
  BY <1>1, <1>3, <1>5, <1>6, <1>9, <1>10 DEF o
<1>11. CASE c.at = "write"
  BY <1>1, <1>4, <1>5, <1>7, <1>8, <1>9, <1>11 DEF o
<1>12. QED
  BY <1>10, <1>11

LEMMA AfterListGoes ==
  ASSUME NEW file, FileReady(file), NEW c, CallOK(c), c.at \in ListSteps, NEW r
  PROVE  /\ Over(After(file, c, r)) \/ (Further(file, c, After(file, c, r)) /\ r # Timeout)
<1> DEFINE o == After(file, c, r)
<1>1. /\ "at" \in DOMAIN c /\ c.at # "mount" /\ Timeout.status = "timeout"
      /\ \A x : "at" \in DOMAIN [c EXCEPT !.dh = x] /\ "at" \in DOMAIN [c EXCEPT !.got = x]
  BY DEF CallOK, ListSteps, Timeout
<1>2. \A d, err : "at" \in DOMAIN d => Over(Closedir(file, d, err))
  BY EndsSession
<1>3. \A d : "at" \in DOMAIN d => Further(file, c, ReadDirx(file, d)) /\ Further(file, c, ReadDir(file, d))
  BY <1>1, AsksFurther DEF ReadDirx, ReadDir
<1>4. Further(file, c, Ask(file, c, "opendir", OpenDir(c, "OPENDIR")))
  BY <1>1, AsksFurther
<1>5. CASE c.at = "opendirx"
  <2>1. o = tnfs_listx(file, c, r)
    BY <1>5 DEF After
  <2>2. \/ r.status = "OK" /\ o = ReadDirx(file, [c EXCEPT !.dh = r.dh])
        \/ o = Closedir(file, c, status_err(r))
        \/ r.status # "timeout" /\ o = Ask(file, c, "opendir", OpenDir(c, "OPENDIR"))
    BY <2>1 DEF tnfs_listx
  <2> HIDE DEF o
  <2>3. QED
    BY <1>1, <1>2, <1>3, <1>4, <2>2 DEF o
<1>6. CASE c.at = "readdirx"
  <2> DEFINE more == [c EXCEPT !.got = @ \o r.names]
  <2>1. o = AfterReadDirx(file, c, r)
    BY <1>6 DEF After
  <2>2. \/ \E err : o = Closedir(file, c, err)
        \/ o = Closedir(file, more, "ESP_OK")
        \/ r.status = "OK" /\ o = ReadDirx(file, more)
    BY <2>1 DEF AfterReadDirx
  <2>3. "at" \in DOMAIN more
    BY <1>1
  <2> HIDE DEF o, more
  <2>4. QED
    BY <1>1, <1>2, <1>3, <2>2, <2>3 DEF o
<1>7. CASE c.at = "opendir"
  <2>1. o = tnfs_list_basic(file, c, r)
    BY <1>7 DEF After
  <2>2. \/ r.status = "OK" /\ o = ReadDir(file, [c EXCEPT !.dh = r.dh])
        \/ o = Closedir(file, c, status_err(r))
    BY <2>1 DEF tnfs_list_basic
  <2> HIDE DEF o
  <2>3. QED
    BY <1>1, <1>2, <1>3, <2>2 DEF o
<1>8. CASE c.at = "readdir"
  <2> DEFINE more == [c EXCEPT !.got = @ \o [i \in DOMAIN r.names |-> [r.names[i] EXCEPT !.dir = FALSE]]]
  <2>1. o = AfterReadDir(file, c, r)
    BY <1>8 DEF After
  <2>2. \/ \E err : o = Closedir(file, c, err)
        \/ r.status = "OK" /\ o = ReadDir(file, more)
    BY <2>1 DEF AfterReadDir
  <2>3. "at" \in DOMAIN more
    BY <1>1
  <2> HIDE DEF o, more
  <2>4. QED
    BY <1>1, <1>2, <1>3, <2>2, <2>3 DEF o
<1>9. QED
  BY <1>5, <1>6, <1>7, <1>8 DEF ListSteps

(* What follows a command, and what follows one that was given up. *)
LEMMA AfterGoes ==
  ASSUME NEW file, FileReady(file), NEW c, CallOK(c), NEW r,
         c.at \in {"read", "write"} => file.pos_valid /\ file.pos = c.off
  PROVE  LET o == After(file, c, r)
         IN  \/ Anew(file, o) \/ Over(o)
             \/ Further(file, c, o) /\ (c.at = "mount" => r.status = "OK")
<1> DEFINE o == After(file, c, r)
<1>1. CASE c.at = "mount"
  <2>1. o = AfterMount(file, c, r)
    BY <1>1 DEF After
  <2> HIDE DEF o
  <2>2. QED
    BY <1>1, <2>1, AfterMountGoes DEF o
<1>2. CASE c.at = "umount"
  <2>1. o = Return([NoFile EXCEPT !.sock = file.sock], c, c.err)
    BY <1>2 DEF After, Umounted
  <2> HIDE DEF o
  <2>2. QED
    BY <2>1, EndsClosed DEF o
<1>3. CASE c.at = "open"
  <2>1. o = AfterOpen(file, c, r)
    BY <1>3 DEF After
  <2> HIDE DEF o
  <2>2. QED
    BY <1>3, <2>1, AfterOpenGoes DEF o
<1>4. CASE c.at = "size"
  <2>1. o = AfterSize(file, c, r)
    BY <1>4 DEF After
  <2> HIDE DEF o
  <2>2. QED
    BY <1>4, <2>1, AfterSizeGoes DEF o
<1>5. CASE c.at = "seek"
  <2>1. o = AfterSeek(file, c, r)
    BY <1>5 DEF After
  <2>2. Further(file, c, AfterSeek(file, c, r))
    BY <1>5, AfterSeekGoes, Zenon
  <2>3. c.at # "mount"
    BY <1>5
  <2> HIDE DEF o
  <2>4. QED
    BY <2>1, <2>2, <2>3 DEF o
<1>6. CASE c.at \in {"read", "write"}
  <2>1. c.at # "mount" /\ file.pos_valid /\ file.pos = c.off
    BY <1>6
  <2>2. Further(file, c, o)
    BY <1>6, <2>1, AfterCellGoes
  <2> HIDE DEF o
  <2>3. QED
    BY <2>1, <2>2 DEF o
<1>7. CASE c.at = "close"
  <2>1. o = Umount(file, c, "ESP_OK")
    BY <1>7 DEF After
  <2>2. "at" \in DOMAIN c
    BY DEF CallOK
  <2> HIDE DEF o
  <2>3. QED
    BY <2>1, <2>2, EndsSession DEF o
<1>8. CASE c.at = "closedir"
  <2>1. o = Umount(file, c, c.err)
    BY <1>8 DEF After
  <2>2. "at" \in DOMAIN c
    BY DEF CallOK
  <2> HIDE DEF o
  <2>3. QED
    BY <2>1, <2>2, EndsSession DEF o
<1>9. CASE c.at \in ListSteps
  <2>1. c.at # "mount"
    BY <1>9 DEF ListSteps
  <2>2. Over(After(file, c, r)) \/ Further(file, c, After(file, c, r))
    BY <1>9, AfterListGoes, Zenon
  <2> HIDE DEF o
  <2>3. QED
    BY <2>1, <2>2 DEF o
<1>10. QED
  BY <1>1, <1>2, <1>3, <1>4, <1>5, <1>6, <1>7, <1>8, <1>9 DEF CallOK, ListSteps

LEMMA TimeoutGoes ==
  ASSUME NEW file, FileReady(file), NEW c, CallOK(c),
         c.at \in {"read", "write"} => file.pos_valid /\ file.pos = c.off
  PROVE  LET o == After(file, c, Timeout)
         IN  \/ Anew(file, o) \/ Over(o) \/ c.at \in {"size", "seek"}
             \/ c.at \in {"read", "write"} /\ Failed(file, o)
<1> DEFINE o == After(file, c, Timeout)
<1>0. Timeout.status = "timeout"
  BY DEF Timeout
<1>1. CASE c.at = "mount"
  <2>1. o = AfterMount(file, c, Timeout)
    BY <1>1 DEF After
  <2> HIDE DEF o
  <2>2. QED
    BY <1>0, <1>1, <2>1, AfterMountGoes DEF o
<1>2. CASE c.at = "open"
  <2>1. o = AfterOpen(file, c, Timeout)
    BY <1>2 DEF After
  <2> HIDE DEF o
  <2>2. QED
    BY <1>0, <1>2, <2>1, AfterOpenGoes DEF o
<1>3. CASE c.at \in {"read", "write"}
  <2>1. Failed(file, o)
    BY <1>0, <1>3, AfterCellGoes
  <2>2. QED
    BY <1>3, <2>1
<1>4. CASE c.at \in ListSteps
  BY <1>4, AfterListGoes
<1>5. CASE c.at = "umount"
  <2>1. o = Return([NoFile EXCEPT !.sock = file.sock], c, c.err)
    BY <1>5 DEF After, Umounted
  <2> HIDE DEF o
  <2>2. QED
    BY <2>1, EndsClosed DEF o
<1>6. CASE c.at \in {"close", "closedir"}
  <2>1. \E err : o = Umount(file, c, err)
    BY <1>6 DEF After
  <2>2. "at" \in DOMAIN c
    BY DEF CallOK
  <2> HIDE DEF o
  <2>3. QED
    BY <2>1, <2>2, EndsSession DEF o
<1>7. QED
  BY <1>1, <1>2, <1>3, <1>4, <1>5, <1>6 DEF CallOK, ListSteps

-----------------------------------------------------------------------------
(* The steps of the client, for the session that goes on.                  *)
Asks == Calling' /\ sent' = sent + 1 /\ inbox' = Send(inbox, cmd'.m) /\ last' = NoResult
Stops == ~Calling' /\ sent' = sent /\ inbox' = inbox

Renewed == f'.sock = f.sock + 1 /\ call'.at = "mount" /\ Asks

GivesUp ==
    /\ Calling /\ call.at \in {"read", "write"} /\ f' = [f EXCEPT !.pos_valid = FALSE]
    /\ Stops /\ last'.err # "ESP_OK"

Advanced == [f EXCEPT !.seq = (f.seq + 1) % SeqLimit]

Answers(o) ==
    /\ Calling /\ outbox # <<>> /\ Accepts /\ outbox' = Tail(outbox)
    /\ o = After(Advanced, call, Reply.body) /\ Further(Advanced, call, o)
    /\ call.at = "mount" => Reply.body.status = "OK"
    /\ f' = o.f /\ call' = o.call
    /\ \/ o.ask # <<>> /\ Asks
       \/ o.ask = <<>> /\ Stops /\ last' = o.ret[1]

(* A call on a file that is open. *)
Starts(op, a) ==
    /\ ~Calling /\ Open /\ outbox' = outbox /\ f' = f /\ Asks
    /\ a \in IF op = "read_at" THEN ReadArgs ELSE WriteArgs
    /\ \E at \in {"seek", IF op = "read_at" THEN "read" ELSE "write"} :
          /\ call' = [Begin(op, a) EXCEPT !.off = a.off, !.left = a.cells, !.at = at]
          /\ at # "seek" => f.pos_valid /\ f.pos = a.off

LEMMA ProceedIs ==
  ASSUME NEW o, NEW sock, OutcomeOK(o, sock), Proceed(o)
  PROVE  /\ f' = o.f /\ call' = o.call
         /\ \/ o.ask # <<>> /\ Asks
            \/ o.ask = <<>> /\ Stops /\ last' = o.ret[1]
<1>1. CASE o.ask = <<>>
  BY <1>1 DEF Proceed, OutcomeOK, Stops, Calling, NoCall
<1>2. CASE o.ask # <<>>
  BY <1>2 DEF Proceed, OutcomeOK, Asks, Calling, CallOK, ListSteps
<1>3. QED
  BY <1>1, <1>2

LEMMA NotLive ==
  ASSUME NEW o, NEW sock, OutcomeOK(o, sock), Proceed(o), Over(o)
  PROVE  ~Live'
<1>1. f' = o.f /\ call' = o.call
  BY DEF Proceed
<1>2. CASE o.call.at \in {"umount", "closedir"}
  BY <1>1, <1>2 DEF Live
<1>3. CASE o.call = NoCall /\ o.f.conn = 0
  BY <1>1, <1>3 DEF Live, Calling, NoCall, Open
<1>4. QED
  BY <1>2, <1>3 DEF Over

LEMMA RenewedBy ==
  ASSUME NEW o, NEW sock, OutcomeOK(o, sock), Proceed(o), NEW file, file.sock = f.sock, Anew(file, o)
  PROVE  Renewed
BY ProceedIs DEF Anew, Renewed

(* The call of a transfer knows where the server's file is. *)
Placing == call.at \in {"read", "write"} => f.pos_valid /\ f.pos = call.off

LEMMA GiveUpKinds ==
  ASSUME ClientOK, Calling, GiveUp, Live => Placing, Live'
  PROVE  Renewed \/ (Live /\ GivesUp)
<1>1. FileReady(f) /\ CallOK(call) /\ server \in Servers /\ MessageOf(cmd.m, f, call, sent)
  BY CommandIs DEF ClientOK
<1> DEFINE o == After(f, call, Timeout)
<1>2. OutcomeOK(o, f.sock)
  BY <1>1, AfterOK
<1>3. Proceed(o) /\ clean' = (clean /\ cmd.m.cmd # "LSEEK")
  BY DEF GiveUp
<1>4. clean /\ call.at \notin {"size", "seek"}
  <2>1. clean'
    BY DEF Live
  <2>2. call.at \in {"size", "seek"} => cmd.m.cmd = "LSEEK"
    BY <1>1, CommandNames DEF MessageOf
  <2>3. QED
    BY <1>3, <2>1, <2>2
<1>5. CASE call.at \in {"close", "umount", "closedir"}
  <2>1. Placing
    BY <1>5 DEF Placing
  <2>2. call.at \notin {"size", "seek", "read", "write"}
    BY <1>5
  <2>3. Anew(f, o) \/ Over(o)
    BY <1>1, <2>1, <2>2, TimeoutGoes DEF Placing
  <2> HIDE DEF o
  <2>4. QED
    BY <1>2, <1>3, <2>3, NotLive, RenewedBy
<1>6. CASE call.at \notin {"close", "umount", "closedir"}
  <2>1. Live /\ Placing
    BY <1>4, <1>6 DEF Live
  <2>2. Anew(f, o) \/ Over(o) \/ (call.at \in {"read", "write"} /\ Failed(f, o))
    BY <1>1, <1>4, <2>1, TimeoutGoes DEF Placing
  <2> HIDE DEF o
  <2>3. CASE call.at \in {"read", "write"} /\ Failed(f, o)
    BY <1>2, <1>3, <2>1, <2>3, ProceedIs DEF Failed, GivesUp
  <2>4. QED
    BY <1>2, <1>3, <2>2, <2>3, NotLive, RenewedBy
<1>7. QED
  BY <1>5, <1>6

LEMMA ResponseKinds ==
  ASSUME ClientOK, Responds, Live => Placing, Live'
  PROVE  Renewed \/ (Live /\ \E o : Answers(o))
<1>0. Calling /\ clean' = clean /\ outbox # <<>> /\ Accepts /\ outbox' = Tail(outbox)
  BY DEF Responds
<1>1. FileReady(f) /\ CallOK(call) /\ server \in Servers /\ MessageOf(cmd.m, f, call, sent)
  BY <1>0, CommandIs DEF ClientOK
<1>2. cmd.m.seq = f.seq /\ f.seq \in Nat /\ clean
  BY <1>0, <1>1, SeqNumbers DEF MessageOf, FileReady, FileOK, Live
<1>3. FileReady(Advanced) /\ Advanced.sock = f.sock /\ Advanced.pos = f.pos /\ Advanced.pos_valid = f.pos_valid
  <2>1. FileReady(Advanced) /\ Advanced.sock = f.sock
    BY <1>1, <1>2, AdvancedFile DEF Advanced
  <2>2. Advanced.pos = f.pos /\ Advanced.pos_valid = f.pos_valid
    BY <1>1 DEF Advanced, FileReady, FileOK
  <2>3. QED
    BY <2>1, <2>2
<1> DEFINE r == Reply.body
           o == After(Advanced, call, r)
<1>4. Proceed(o)
  BY <1>2 DEF Responds, Advanced
<1>5. OutcomeOK(o, f.sock)
  BY <1>1, <1>3, AfterOK
<1>6. CASE call.at \in {"close", "umount", "closedir"}
  <2>1. call.at \notin {"read", "write", "mount"}
    BY <1>6
  <2>2. Anew(Advanced, o) \/ Over(o)
    <3>1. CASE call.at = "umount"
      <4>1. o = Return([NoFile EXCEPT !.sock = Advanced.sock], call, call.err)
        BY <3>1 DEF After, Umounted
      <4> HIDE DEF o
      <4>2. QED
        BY <4>1, EndsClosed
    <3>2. CASE call.at # "umount"
      <4>1. \E err : o = Umount(Advanced, call, err)
        BY <1>6, <3>2 DEF After
      <4>2. "at" \in DOMAIN call
        BY <1>1 DEF CallOK
      <4> HIDE DEF o
      <4>3. QED
        BY <4>1, <4>2, EndsSession
    <3>3. QED
      BY <3>1, <3>2
  <2> HIDE DEF o
  <2>3. QED
    BY <1>3, <1>4, <1>5, <2>2, NotLive, RenewedBy
<1>7. CASE call.at \notin {"close", "umount", "closedir"}
  <2>1. Live /\ Placing
    BY <1>0, <1>2, <1>7 DEF Live
  <2>2. Anew(Advanced, o) \/ Over(o) \/ (Further(Advanced, call, o) /\ (call.at = "mount" => r.status = "OK"))
    BY <1>1, <1>3, <2>1, AfterGoes DEF Placing
  <2>3. o = After(Advanced, call, Reply.body)
    OBVIOUS
  <2> HIDE DEF o
  <2>4. CASE Further(Advanced, call, o) /\ (call.at = "mount" => r.status = "OK")
    <3>1. Answers(o)
      BY <1>0, <1>4, <1>5, <2>3, <2>4, ProceedIs DEF Answers
    <3>2. QED
      BY <2>1, <3>1
  <2>5. QED
    BY <1>3, <1>4, <1>5, <2>2, <2>4, NotLive, RenewedBy
<1>8. QED
  BY <1>6, <1>7

LEMMA SeekStarts ==
  ASSUME NEW op \in {"read_at", "write_at"}, NEW a
  PROVE  LET c == [Begin(op, a) EXCEPT !.off = a.off, !.left = a.cells]
             o == tnfs_seek(f, c)
         IN  /\ o.f = f
             /\ \E at \in {"seek", IF op = "read_at" THEN "read" ELSE "write"} :
                   /\ o.call = [Begin(op, a) EXCEPT !.off = a.off, !.left = a.cells, !.at = at]
                   /\ at # "seek" => f.pos_valid /\ f.pos = a.off
<1> DEFINE c == [Begin(op, a) EXCEPT !.off = a.off, !.left = a.cells]
           o == tnfs_seek(f, c)
           at == IF op = "read_at" THEN "read" ELSE "write"
<1>1. c.op = op /\ c.off = a.off
  BY DEF Begin
<1>2. \A x : [c EXCEPT !.at = x] = [Begin(op, a) EXCEPT !.off = a.off, !.left = a.cells, !.at = x]
  OBVIOUS
<1> HIDE DEF c
<1>3. CASE f.pos_valid /\ f.pos = a.off
  <2>1. o = Transfer(f, c)
    BY <1>1, <1>3 DEF tnfs_seek
  <2>2. Transfers(f, c, o)
    BY <1>1, <2>1, TransferGoes
  <2>3. o.f = f /\ o.call = [c EXCEPT !.at = at]
    BY <1>1, <2>2 DEF Transfers
  <2> HIDE DEF o
  <2>4. QED
    BY <1>2, <1>3, <2>3 DEF o, c
<1>4. CASE ~(f.pos_valid /\ f.pos = a.off)
  <2>1. o = Ask(f, c, "seek", [cmd |-> "LSEEK", fd |-> f.fd, whence |-> "SET", off |-> c.off])
    BY <1>1, <1>4 DEF tnfs_seek
  <2>2. o.f = f /\ o.call = [c EXCEPT !.at = "seek"]
    BY <2>1 DEF Ask
  <2> HIDE DEF o
  <2>3. QED
    BY <1>2, <1>4, <2>2 DEF o, c
<1>5. QED
  BY <1>3, <1>4

LEMMA CallKinds ==
  ASSUME ClientOK, Call, Live'
  PROVE  Renewed \/ (Live /\ \E op \in {"read_at", "write_at"} : \E a : Starts(op, a))
<1>0. FileOK(f) /\ server \in Servers /\ (Open => FileReady(f)) /\ ~Calling /\ outbox' = outbox
  <2>1. ~Calling /\ outbox' = outbox
    BY Zenon DEF Call
  <2>2. QED
    BY <2>1 DEF ClientOK, FileReady
<1>1. ASSUME NEW c, CallOK([c EXCEPT !.at = "mount"]), "at" \in DOMAIN c, Proceed(tnfs_try(f, c, FALSE))
      PROVE  Renewed
  <2> DEFINE o == tnfs_try(f, c, FALSE)
  <2>1. OutcomeOK(o, f.sock)
    BY <1>0, <1>1, TryStep, Zenon
  <2>2. Anew(f, o)
    BY <1>0, <1>1 DEF Anew, tnfs_try, tnfs_mount_root, Ask, FileOK
  <2> HIDE DEF o
  <2>3. QED
    BY <1>1, <2>1, <2>2, RenewedBy DEF o
<1>2. ASSUME NEW a \in OpenArgs, Proceed(tnfs_try(f, Begin("open", a), FALSE)) PROVE Renewed
  <2>1. CallOK([Begin("open", a) EXCEPT !.at = "mount"]) /\ "at" \in DOMAIN Begin("open", a)
    BY DEF CallOK, Begin
  <2>2. QED
    BY <1>1, <1>2, <2>1, Zenon
<1>3. ASSUME NEW p \in ListArgs, Proceed(tnfs_try(f, Begin("list_dir", p), FALSE)) PROVE Renewed
  <2>1. CallOK([Begin("list_dir", p) EXCEPT !.at = "mount"]) /\ "at" \in DOMAIN Begin("list_dir", p)
    BY DEF CallOK, Begin
  <2>2. QED
    BY <1>1, <1>3, <2>1, Zenon
<1>4. ASSUME Open, NEW op \in {"read_at", "write_at"}, NEW a \in IF op = "read_at" THEN ReadArgs ELSE WriteArgs,
             Proceed(tnfs_seek(f, [Begin(op, a) EXCEPT !.off = a.off, !.left = a.cells]))
      PROVE  Starts(op, a)
  <2> DEFINE c == [Begin(op, a) EXCEPT !.off = a.off, !.left = a.cells]
             o == tnfs_seek(f, c)
  <2>1. a \in ReadArgs \union WriteArgs
    BY <1>4
  <2>2. a.off \in Nat /\ a.cells \in Seq(Nat) \ {<<>>}
    BY <2>1, DeviceAssumption
  <2>3. CallOK([c EXCEPT !.at = "seek"]) /\ c.op = op
    BY <2>1, <2>2 DEF CallOK, Begin
  <2>4. OutcomeOK(o, f.sock)
    <3> HIDE DEF c
    <3>1. QED
      BY <1>0, <1>4, <2>3, SeekOK
  <2>5. /\ o.f = f
        /\ \E at \in {"seek", IF op = "read_at" THEN "read" ELSE "write"} :
              /\ o.call = [Begin(op, a) EXCEPT !.off = a.off, !.left = a.cells, !.at = at]
              /\ at # "seek" => f.pos_valid /\ f.pos = a.off
    BY SeekStarts, Zenon
  <2>6. o.ask # <<>>
    <3> HIDE DEF c
    <3>1. Transfers(f, c, Transfer(f, c))
      BY <2>3, TransferGoes
    <3>2. QED
      BY <3>1 DEF tnfs_seek, Transfers, Ask
  <2>7. Proceed(o)
    BY <1>4
  <2> HIDE DEF o
  <2>8. f' = o.f /\ call' = o.call /\ Asks
    BY <2>4, <2>6, <2>7, ProceedIs
  <2>9. QED
    BY <1>0, <1>4, <2>5, <2>8 DEF Starts
<1>5. Proceed(Ask(f, Begin("close", 0), "close", [cmd |-> "CLOSE", fd |-> f.fd])) => FALSE
  BY DEF Proceed, Ask, Begin, Live
<1>6. CASE ~Open
  <2>1. \/ \E a \in OpenArgs : Proceed(tnfs_try(f, Begin("open", a), FALSE))
        \/ \E p \in ListArgs : Proceed(tnfs_try(f, Begin("list_dir", p), FALSE))
    BY <1>6, Zenon DEF Call
  <2>2. QED
    BY <1>2, <1>3, <2>1
<1>7. CASE Open
  <2>1. \/ \E op \in {"read_at", "write_at"} :
              \E a \in IF op = "read_at" THEN ReadArgs ELSE WriteArgs :
                 Proceed(tnfs_seek(f, [Begin(op, a) EXCEPT !.off = a.off, !.left = a.cells]))
        \/ Proceed(Ask(f, Begin("close", 0), "close", [cmd |-> "CLOSE", fd |-> f.fd]))
    BY <1>7, Zenon DEF Call
  <2>2. \E op \in {"read_at", "write_at"} : \E a : Starts(op, a)
    BY <1>4, <1>5, <1>7, <2>1, Zenon
  <2>3. clean' = clean
    BY <1>7, Zenon DEF Call
  <2>4. call.at = "idle"
    BY <1>0 DEF Calling
  <2>5. Live
    BY <1>7, <2>3, <2>4 DEF Live
  <2>6. QED
    BY <2>2, <2>5
<1>8. QED
  BY <1>6, <1>7

LEMMA ClientKinds ==
  ASSUME ClientOK, ClientNext, Live => Placing, Live'
  PROVE  \/ SameCommand \/ Renewed
         \/ Live /\ GivesUp
         \/ Live /\ \E o : Answers(o)
         \/ Live /\ \E op \in {"read_at", "write_at"} : \E a : Starts(op, a)
<1>1. Calling /\ Retransmit => SameCommand
  BY DEF Retransmit, SameCommand, ClientOK
<1>2. CASE TimesOut
  BY <1>1, <1>2, GiveUpKinds DEF TimesOut
<1>3. CASE Backoff
  BY <1>1, <1>3, GiveUpKinds DEF Backoff
<1>4. CASE Discard
  BY <1>4 DEF Discard, SameCommand, clientVars, ClientOK
<1>5. QED
  BY <1>2, <1>3, <1>4, ResponseKinds, CallKinds DEF ClientNext

-----------------------------------------------------------------------------
(* A stream has one command under way, also after a step of the client.    *)
LEMMA StreamAsks ==
  ASSUME OnceInv', server' = server, NEW o, NEW sock, OutcomeOK(o, sock), Proceed(o),
         server.tcp => inbox = <<>> /\ outbox' = <<>>
  PROVE  Stream1'
<1> SUFFICES ASSUME server.tcp PROVE Stream1'
  BY DEF Stream1
<1>1. inbox = <<>> /\ outbox' = <<>> /\ Range(<<>>) = {} /\ Len(<<>>) = 0
  BY DEF Range
<1>2. CASE Stops
  BY <1>1, <1>2 DEF Stops, Stream1
<1>3. CASE Asks
  <2>1. PICK m : m = cmd'.m
    OBVIOUS
  <2>2. Calling' /\ inbox' = Send(<<>>, m)
    BY <1>1, <1>3, <2>1 DEF Asks
  <2>3. MessageOf(m, f', call', sent')
    BY <2>1, <2>2, NextCommandIs DEF OnceInv
  <2>4. m.tcp = f'.tcp
    BY <2>3 DEF MessageOf
  <2>5. inbox' = <<>> \/ (f'.tcp /\ inbox' = <<m>>)
    BY <2>2, <2>4 DEF Send, SendTo
  <2>6. Len(<<m>>) = 1 /\ Range(<<m>>) = {m}
    BY DEF Range
  <2>7. Len(inbox') + Len(outbox') <= 1 /\ Range(outbox') = {} /\ Range(inbox') \subseteq {m}
    <3>1. PICK p, q : p = inbox' /\ q = outbox'
      OBVIOUS
    <3>2. Len(p) \in 0 .. 1 /\ Len(q) = 0 /\ Range(q) = {} /\ Range(p) \subseteq {m}
      BY <3>1, <1>1, <2>5, <2>6
    <3>3. Len(p) + Len(q) <= 1
      <4>1. PICK i \in 0 .. 1 : i = Len(p)
        BY <3>2
      <4>2. i + 0 <= 1
        OBVIOUS
      <4>3. QED
        BY <3>2, <4>1, <4>2
    <3>4. QED
      BY <3>1, <3>2, <3>3, Zenon
  <2>8. Range(inbox') # {} => f'.tcp
    BY <1>1, <2>5
  <2>9. QED
    BY <2>1, <2>2, <2>7, <2>8 DEF Stream1
<1>4. QED
  BY <1>2, <1>3, ProceedIs

(* At a step of a new command, the queues of a stream are empty. *)
LEMMA StreamQuiet ==
  ASSUME OnceInv, Stream1, server.tcp
  PROVE  /\ ~f.tcp \/ ~Calling => inbox = <<>> /\ outbox = <<>>
         /\ outbox # <<>> => inbox = <<>> /\ Tail(outbox) = <<>> /\ f.tcp /\ Calling /\ Reply.peer = f.sock
<1>1. inbox \in Seq(Range(inbox)) /\ outbox \in Seq(Range(outbox))
  BY DEF OnceInv, Queues
<1>2. /\ \A x \in Range(inbox) : Calling /\ f.tcp
      /\ \A r \in Range(outbox) : f.tcp /\ Current(r)
      /\ Len(inbox) + Len(outbox) <= 1
  BY DEF Stream1
<1>3. /\ inbox # <<>> => Head(inbox) \in Range(inbox)
      /\ outbox # <<>> => Head(outbox) \in Range(outbox)
  BY <1>1, ThinTail
<1>4. /\ Len(inbox) \in Nat /\ Len(outbox) \in Nat
      /\ outbox # <<>> => Len(outbox) >= 1
      /\ Len(inbox) = 0 => inbox = <<>>
      /\ Len(outbox) = 1 => Tail(outbox) = <<>>
  BY <1>1, Lengths
<1>5. outbox # <<>> => Len(inbox) = 0 /\ Len(outbox) = 1
  <2> DEFINE i == Len(inbox)
             o == Len(outbox)
  <2>1. i \in Nat /\ o \in Nat /\ i + o <= 1 /\ (outbox # <<>> => o >= 1)
    BY <1>2, <1>4
  <2> HIDE DEF i, o
  <2>2. outbox # <<>> => i = 0 /\ o = 1
    BY <2>1
  <2>3. QED
    BY <2>2 DEF i, o
<1>6. QED
  BY <1>2, <1>3, <1>4, <1>5 DEF Current, Cur, Own, Reply

LEMMA StreamSame ==
  ASSUME OnceInv, Stream1, SameCommand, server' = server, TakesReply,
         \/ inbox' = inbox
         \/ /\ Calling /\ inbox' = Send(inbox, cmd.m)
            /\ server.tcp /\ f.tcp => inbox = <<>> /\ outbox' = <<>>
  PROVE  Stream1'
<1> SUFFICES ASSUME server.tcp PROVE Stream1'
  BY DEF Stream1
<1>1. UNCHANGED <<f, call>> /\ cmd'.m = cmd.m /\ server'.tcp
  BY DEF SameCommand
<1>2. inbox \in Seq(Range(inbox)) /\ outbox \in Seq(Range(outbox))
  BY DEF OnceInv, Queues
<1>3. Range(outbox') \subseteq Range(outbox) /\ Len(outbox') \in Nat /\ Len(outbox') <= Len(outbox)
  <2>1. Range(outbox') \subseteq Range(outbox)
    BY <1>2, OutboxLess
  <2>2. Len(outbox') \in Nat /\ Len(outbox') <= Len(outbox)
    BY <1>2 DEF TakesReply
  <2>3. QED
    BY <2>1, <2>2
<1>4. CASE inbox' = inbox
  BY <1>1, <1>2, <1>3, <1>4 DEF Stream1, Current, Cur, Own, Calling
<1>5. CASE Calling /\ f.tcp /\ inbox' = Send(inbox, cmd.m) /\ inbox = <<>> /\ outbox' = <<>>
  <2>1. PICK m : m = cmd.m
    OBVIOUS
  <2>2. inbox' = <<>> \/ inbox' = <<m>>
    BY <1>5, <2>1 DEF Send, SendTo
  <2>3. Len(<<m>>) = 1 /\ Range(<<m>>) = {m} /\ Range(<<>>) = {} /\ Len(<<>>) = 0
    BY DEF Range
  <2>4. Len(inbox') + Len(outbox') <= 1 /\ Range(outbox') = {} /\ Range(inbox') \subseteq {m}
    <3>1. PICK p, q : p = inbox' /\ q = outbox'
      OBVIOUS
    <3>2. Len(p) \in 0 .. 1 /\ Len(q) = 0 /\ Range(q) = {} /\ Range(p) \subseteq {m}
      BY <3>1, <1>5, <2>2, <2>3
    <3>3. Len(p) + Len(q) <= 1
      <4>1. PICK i \in 0 .. 1 : i = Len(p)
        BY <3>2
      <4>2. i + 0 <= 1
        OBVIOUS
      <4>3. QED
        BY <3>2, <4>1, <4>2
    <3>4. QED
      BY <3>1, <3>2, <3>3, Zenon
  <2>5. QED
    BY <1>1, <1>5, <2>1, <2>4 DEF Stream1, Calling
<1>6. CASE Calling /\ ~f.tcp /\ inbox' = Send(inbox, cmd.m)
  <2>1. cmd.m.tcp = f.tcp
    BY <1>6, CommandIs DEF OnceInv, MessageOf
  <2>2. inbox' = inbox
    BY <1>6, <2>1 DEF Send
  <2>3. QED
    BY <1>4, <2>2
<1>7. QED
  BY <1>4, <1>5, <1>6

LEMMA ClientStream ==
  ASSUME OnceInv, Stream1, Client, OnceInv'
  PROVE  Stream1'
<1>1. /\ server' = server /\ TakesReply /\ ClientNext
      /\ (SameCommand \/ \E o : OutcomeOK(o, f.sock) /\ Proceed(o))
  BY ClientSteps DEF OnceInv, Client
<1>2. CASE SameCommand
  <2>1. \/ inbox' = inbox
        \/ /\ Calling /\ inbox' = Send(inbox, cmd.m)
           /\ server.tcp /\ f.tcp => inbox = <<>> /\ outbox' = <<>>
    <3>1. CASE TimesOut
      BY <1>2, <3>1 DEF SameCommand, TimesOut
    <3>2. CASE Backoff \/ Responds
      BY <1>2, <3>2, StreamQuiet DEF SameCommand, Backoff, Responds
    <3>3. CASE Discard
      BY <3>3 DEF Discard
    <3>4. CASE Call
      BY <1>2, <3>4, Zenon DEF SameCommand, Call
    <3>5. QED
      BY <1>1, <3>1, <3>2, <3>3, <3>4 DEF ClientNext
  <2>2. QED
    BY <1>1, <1>2, <2>1, StreamSame
<1>3. CASE \E o : OutcomeOK(o, f.sock) /\ Proceed(o)
  <2>1. PICK o : OutcomeOK(o, f.sock) /\ Proceed(o)
    BY <1>3
  <2>2. (server.tcp => inbox = <<>> /\ outbox' = <<>>) \/ SameCommand
    <3>1. CASE TimesOut
      BY <3>1, StreamQuiet DEF TimesOut
    <3>2. CASE Backoff \/ Responds
      BY <3>2, StreamQuiet DEF Backoff, Responds
    <3>3. CASE Discard
      BY <3>3, StreamQuiet DEF Discard, Accepts, tcp_response
    <3>4. CASE Call
      <4>1. ~Calling /\ outbox' = outbox
        BY <3>4, Zenon DEF Call
      <4>2. QED
        BY <4>1, StreamQuiet
    <3>5. QED
      BY <1>1, <3>1, <3>2, <3>3, <3>4 DEF ClientNext
  <2>3. QED
    BY <1>1, <1>2, <2>1, <2>2, StreamAsks
<1>4. QED
  BY <1>1, <1>2, <1>3

(* What thins the queues, or repeats the command, keeps what is under way. *)
LEMMA GoingThins ==
  ASSUME Going, UNCHANGED <<f, call, sent, sess, done>>, Calling => cmd'.m = cmd.m,
         Calling => MessageOf(cmd.m, f, call, sent),
         Range(inbox') \subseteq Flying, Thinned(outbox', outbox)
  PROVE  Going'
<1>1. /\ Calling' = Calling /\ Before' = Before /\ Executed' = Executed
      /\ \A x : Own(x)' = Own(x) /\ Cur(x)' = Cur(x) /\ Current(x)' = Current(x)
      /\ \A s : Mine(s)' = Mine(s)
  BY DEF Calling, Before, Executed, Own, Cur, Current, Mine
<1>2. Range(outbox') \subseteq Range(outbox)
  BY ThinElements
<1>3. ASSUME NEW x \in Range(inbox')
      PROVE  x \in Range(inbox) \/ (/\ Calling /\ x = cmd.m /\ Own(x) /\ Cur(x) /\ x.sid = f.conn /\ x.id = sent)
  BY <1>3 DEF Flying, MessageOf, Own, Cur
<1>4. Mounting'
  <2> SUFFICES ASSUME call'.at = "mount" PROVE Mounting'
    BY DEF Mounting
  <2>1. Calling /\ call.at = "mount"
    BY DEF Calling
  <2>2. \A x \in Range(inbox') : Own(x)' => x = cmd'.m
    BY <1>1, <1>3, <2>1 DEF Going, Mounting
  <2>3. \A s \in Slots : Mine(s) =>
           Executed /\ sess[s].reply = [seq |-> f.seq, cmd |-> "MOUNT", body |-> Status("OK")]
           /\ sess[s].dirs = Blank.dirs
    BY <2>1 DEF Going, Mounting
  <2>4. QED
    BY <1>1, <2>2, <2>3 DEF Mounting
<1>5. Mounted'
  BY <1>1, <1>3 DEF Going, Mounted
<1>6. Cached'
  BY <1>1 DEF Going, Cached, Calling
<1>7. Replies'
  BY <1>1, <1>2 DEF Going, Replies
<1>8. Ordered'
  <2>1. PICK h \in [DOMAIN outbox' -> DOMAIN outbox] :
           /\ \A i \in DOMAIN outbox' : outbox'[i] = outbox[h[i]]
           /\ \A i, j \in DOMAIN outbox' : i <= j => h[i] <= h[j]
    BY DEF Thinned
  <2>2. ASSUME NEW i \in DOMAIN outbox', NEW j \in DOMAIN outbox', i <= j,
               Current(outbox[i])', Own(outbox[j])'
        PROVE  Cur(outbox[j])'
    <3>1. PICK a \in DOMAIN outbox, b \in DOMAIN outbox :
             a <= b /\ outbox'[i] = outbox[a] /\ outbox'[j] = outbox[b]
      BY <2>1, <2>2
    <3>2. PICK r, q : r = outbox[a] /\ q = outbox[b]
      OBVIOUS
    <3>3. Current(r)' /\ Own(q)'
      BY <2>2, <3>1, <3>2
    <3>4. Current(outbox[a]) /\ Own(outbox[b])
      BY <1>1, <3>2, <3>3
    <3>5. Cur(q)'
      BY <1>1, <3>1, <3>2, <3>4 DEF Going, Ordered
    <3>6. QED
      BY <3>1, <3>2, <3>5
  <2>3. QED
    BY <2>2 DEF Ordered
<1>9. QED
  BY <1>4, <1>5, <1>6, <1>7, <1>8 DEF Going

LEMMA TakesThins ==
  ASSUME outbox \in Seq(Range(outbox)), TakesReply
  PROVE  Thinned(outbox', outbox)
BY ThinSame, ThinTail DEF TakesReply

(* A new socket hears of nothing that went before. *)
LEMMA RenewedGoes ==
  ASSUME OnceInv, OnceInv', Renewed, TakesReply, UNCHANGED <<sess, server>>
  PROVE  Going'
<1>1. f'.sock = f.sock + 1 /\ call'.at = "mount" /\ Calling' /\ inbox' = Send(inbox, cmd'.m) /\ f.sock \in Nat
  BY DEF Renewed, Asks, OnceInv, ClientOK, FileOK
<1>2. inbox \in Seq(Range(inbox)) /\ outbox \in Seq(Range(outbox))
  BY DEF OnceInv, Queues
<1>3. Range(outbox') \subseteq Range(outbox)
  BY <1>2, OutboxLess
<1>4. Range(inbox') \subseteq Range(inbox) \union {cmd'.m}
  BY <1>1, <1>2, Sent DEF Send
<1>5. /\ \A x \in Range(inbox) : ~Own(x)'
      /\ \A r \in Range(outbox) : ~Own(r)'
      /\ \A s \in Slots : ~Mine(s)'
  BY <1>1 DEF OnceInv, Queues, Sessions, Flying, MessageOK, Own, Mine
<1>6. Mounting' /\ Mounted'
  BY <1>1, <1>4, <1>5 DEF Mounting, Mounted
<1>7. Cached' /\ Replies'
  BY <1>3, <1>5 DEF Cached, Replies, Current, Cur
<1>8. Ordered'
  <2>1. \A i \in DOMAIN outbox' : outbox'[i] \in Range(outbox)
    BY <1>3 DEF Range
  <2>2. QED
    BY <1>5, <2>1 DEF Ordered, Current, Cur
<1>9. QED
  BY <1>6, <1>7, <1>8 DEF Going

(* A transfer that is given up leaves its number to an LSEEK. *)
LEMMA GivesUpGoes ==
  ASSUME OnceInv, Going, GivesUp, TakesReply, UNCHANGED <<sess, done>>
  PROVE  Going'
<1>1. /\ Calling /\ call.at \in {"read", "write"} /\ ~Calling' /\ call'.at = "idle" /\ sent' = sent /\ inbox' = inbox
      /\ f'.sock = f.sock /\ f'.conn = f.conn /\ f'.seq = f.seq /\ ~f'.pos_valid
  BY DEF GivesUp, Stops, OnceInv, ClientOK, FileOK, Calling
<1>2. cmd.m.cmd \in {"READ", "WRITE"} /\ cmd.m \in Flying /\ cmd.m.id = sent
  BY <1>1, CommandIs, CommandNames DEF OnceInv, MessageOf, Flying
<1>3. outbox \in Seq(Range(outbox)) /\ \A x \in Range(inbox) : x.id = sent => x = cmd.m
  BY <1>2 DEF OnceInv, Queues, Flying
<1>4. Range(outbox') \subseteq Range(outbox)
  BY <1>3, OutboxLess
<1>5. call.at # "mount" /\ call.at # "seek"
  BY <1>1
<1>6. /\ Before = {} /\ Before' = {"READ", "WRITE"}
      /\ \A x : Own(x)' = Own(x) /\ Cur(x)' = Cur(x) /\ ~Current(x)'
      /\ \A s : Mine(s)' = Mine(s)
  BY <1>1, <1>5 DEF Before, Own, Cur, Current, Mine
<1>7. Mounting' /\ Mounted'
  BY <1>1, <1>2, <1>3, <1>5, <1>6 DEF Going, Mounting, Mounted
<1>8. Cached' /\ Replies' /\ Ordered'
  BY <1>1, <1>2, <1>4, <1>6 DEF Going, Cached, Replies, Ordered, Current
<1>9. QED
  BY <1>7, <1>8 DEF Going

(* The answer: its session is the one that the client goes on with, and    *)
(* nothing that is under way has the next number.                          *)
LEMMA AnswerIs ==
  ASSUME OnceInv, FreshInv, Live, NEW o, Answers(o)
  PROVE  /\ Current(Reply) /\ Reply = outbox[1] /\ 1 \in DOMAIN outbox /\ Executed
         /\ \E s \in Slots : Mine(s) /\ Reply = Datagram(sess[s])
<1>1. outbox \in Seq(Range(outbox)) /\ Calling /\ outbox # <<>> /\ Accepts
  BY DEF OnceInv, Queues, Answers
<1>2. Current(Reply) /\ Reply \in Range(outbox) /\ Reply = outbox[1] /\ 1 \in DOMAIN outbox
  BY <1>1, AcceptsCurrent DEF OnceInv, FreshInv
<1>3. ~(call.at = "mount" /\ Reply.body.status = "EAGAIN")
  BY DEF Answers
<1>4. QED
  BY <1>2, <1>3 DEF FreshInv, Going, Replies

LEMMA AnswersGoes ==
  ASSUME OnceInv, OnceInv', FreshInv, Live, NEW o, Answers(o), UNCHANGED <<sess, done, server>>
  PROVE  Going' /\ (\E s \in Slots : Mine(s) /\ Reply = Datagram(sess[s]) /\ Mine(s)'
                                     /\ \A t \in Slots : Mine(t)' => t = s)
<1>1. PICK s \in Slots : Mine(s) /\ Reply = Datagram(sess[s])
  BY AnswerIs
<1>2. Current(Reply) /\ Reply = outbox[1] /\ 1 \in DOMAIN outbox /\ Executed /\ Calling
  BY AnswerIs DEF Current
<1>3. f.seq \in 0 .. SeqLimit - 1 /\ FileOK(f)
  BY DEF OnceInv, ClientOK, FileOK
<1>4. /\ f'.sock = f.sock /\ f'.seq = (f.seq + 1) % SeqLimit /\ call'.at # "mount"
      /\ f'.conn = IF call.at = "mount" THEN Reply.sid ELSE f.conn
  BY <1>3 DEF Answers, Further, Advanced, FileOK
<1>5. f'.seq # f.seq
  <2>1. SeqLimit \in Nat \ {0, 1}
    BY SeqNumbers
  <2>2. (f.seq + 1) % SeqLimit # f.seq
    BY <1>3, <2>1
  <2>3. QED
    BY <1>4, <2>2
<1>6. Reply.sid = sess[s].sid /\ Reply.seq = sess[s].reply.seq /\ Reply.seq = f.seq
  BY <1>1, <1>2 DEF Datagram, Current, Cur
<1>7. f'.conn = sess[s].sid
  BY <1>1, <1>4, <1>6 DEF Mine
<1>8. Mine(s)' /\ \A t \in Slots : Mine(t)' => t = s
  BY <1>1, <1>4, <1>7 DEF Mine, OnceInv, Sessions, ServerInv, Shapes, Distinct
<1>9. MessageOf(cmd.m, f, call, sent) /\ cmd.m \in Flying
  BY <1>2, CommandIs DEF OnceInv, Flying
<1>10. ASSUME NEW x \in Range(inbox) PROVE Own(x)' /\ x.id = done.id /\ ~Cur(x)'
  <2>1. x \in Flying /\ x.id \in done.id .. sent /\ done.id = sent /\ sent \in Nat
    BY <1>2 DEF OnceInv, Queues, Flying, Executed, ClientOK
  <2>2. x.id = sent
    BY <2>1
  <2>3. x = cmd.m
    BY <1>9, <2>1, <2>2 DEF OnceInv, Queues, MessageOf
  <2>4. QED
    BY <1>4, <1>5, <1>9, <2>1, <2>2, <2>3 DEF MessageOf, Own, Cur
<1>11. Calling' => MessageOf(cmd'.m, f', call', sent')
  BY NextCommandIs DEF OnceInv
<1>12. inbox \in Seq(Range(inbox)) /\ outbox \in Seq(Range(outbox)) /\ outbox # <<>> /\ outbox' = Tail(outbox)
  BY DEF OnceInv, Queues, Answers
<1>13. Range(inbox') \subseteq Range(inbox) \union (IF Calling' THEN {cmd'.m} ELSE {})
  <2>1. CASE Asks
    BY <1>12, <2>1, Sent DEF Asks, Send
  <2>2. CASE Stops
    BY <2>2 DEF Stops
  <2>3. QED
    BY <2>1, <2>2 DEF Answers
<1>14. ASSUME NEW r \in Range(outbox) PROVE ~Cur(r)'
  <2>1. PICK j \in DOMAIN outbox : r = outbox[j] /\ 1 <= j
    BY <1>12 DEF Range
  <2>2. Own(r) => Cur(r)
    BY <1>2, <2>1 DEF FreshInv, Going, Ordered
  <2>3. QED
    BY <1>4, <1>5, <2>2 DEF Own, Cur
<1>15. \A r \in Range(outbox') : ~Cur(r)'
  <2>1. Range(outbox') \subseteq Range(outbox)
    BY <1>12, OutboxLess DEF TakesReply
  <2>2. QED
    BY <1>14, <2>1
<1>16. Mounting'
  BY <1>4 DEF Mounting
<1>17. Mounted'
  <2>1. ASSUME NEW x \in Range(inbox')
        PROVE  /\ Own(x)' /\ (x.id > done'.id => Cur(x)' /\ x.sid = f'.conn)
               /\ Cur(x)' => Calling' /\ x.id = sent'
    <3>1. CASE x \in Range(inbox)
      <4>1. ~(x.id > done'.id)
        BY <1>2, <1>10, <3>1 DEF OnceInv, ClientOK, Executed
      <4>2. QED
        BY <1>10, <3>1, <4>1
    <3>2. CASE Calling' /\ x = cmd'.m
      BY <1>11, <3>2 DEF MessageOf, Own, Cur
    <3>3. QED
      BY <1>13, <3>1, <3>2
  <2>2. QED
    BY <2>1 DEF Mounted
<1>18. Cached'
  BY <1>5, <1>6, <1>8 DEF Cached
<1>19. Replies'
  BY <1>15 DEF Replies, Current
<1>20. Ordered'
  BY <1>15 DEF Ordered, Current, Range
<1>21. QED
  BY <1>1, <1>8, <1>16, <1>17, <1>18, <1>19, <1>20 DEF Going

(* A call: after a failed transfer it begins with a seek. *)
LEMMA StartsGoes ==
  ASSUME OnceInv, OnceInv', Going, NEW op \in {"read_at", "write_at"}, NEW a, Starts(op, a),
         UNCHANGED <<sess, done, server>>
  PROVE  Going'
<1>1. ~Calling /\ call.at = "idle" /\ outbox' = outbox /\ f' = f /\ Calling' /\ inbox' = Send(inbox, cmd'.m)
  BY DEF Starts, Asks, Calling
<1>2. /\ call'.at \in {"seek", IF op = "read_at" THEN "read" ELSE "write"} /\ call'.at # "mount"
      /\ call'.at # "seek" => f.pos_valid
  BY DEF Starts, Begin
<1>3. MessageOf(cmd'.m, f', call', sent')
  BY <1>1, NextCommandIs DEF OnceInv
<1>4. inbox \in Seq(Range(inbox)) /\ Range(inbox') \subseteq Range(inbox) \union {cmd'.m}
  <2>1. inbox \in Seq(Range(inbox))
    BY DEF OnceInv, Queues
  <2>2. QED
    BY <1>1, <2>1, Sent DEF Send
<1>5. /\ Before' = (IF call'.at = "seek" THEN {"READ", "WRITE"} ELSE {})
      /\ Before = (IF f.pos_valid THEN {} ELSE {"READ", "WRITE"})
  BY <1>1 DEF Before
<1>6. Before \subseteq Before' /\ cmd'.m.cmd \notin Before
  <2>1. CASE call'.at = "seek"
    <3>1. cmd'.m.cmd = "LSEEK"
      BY <1>3, <2>1, CommandNames DEF MessageOf
    <3>2. cmd'.m.cmd \notin {"READ", "WRITE"}
      BY <3>1
    <3>3. QED
      BY <1>5, <2>1, <3>2
  <2>2. CASE call'.at # "seek"
    BY <1>2, <1>5, <2>2
  <2>3. QED
    BY <2>1, <2>2
<1>7. /\ \A x : Own(x)' = Own(x) /\ Cur(x)' = Cur(x) /\ ~Current(x) /\ (Current(x)' => Cur(x) /\ x.cmd = cmd'.m.cmd)
      /\ \A s : Mine(s)' = Mine(s)
  <2>1. call.at # "mount"
    BY <1>1
  <2>2. QED
    BY <1>1, <1>2, <2>1 DEF Own, Cur, Current, Mine
<1>8. \A r \in Range(outbox) : Cur(r) => r.cmd \in Before
  BY <1>7 DEF Going, Replies
<1>9. \A r \in Range(outbox) : ~Current(r)'
  BY <1>6, <1>7, <1>8
<1>10. Mounting'
  BY <1>2 DEF Mounting
<1>11. Mounted'
  <2>1. call.at # "mount"
    BY <1>1
  <2>2. ASSUME NEW x \in Range(inbox')
        PROVE  /\ Own(x)' /\ (x.id > done'.id => Cur(x)' /\ x.sid = f'.conn)
               /\ Cur(x)' => (Calling' /\ x.id = sent') \/ x.cmd \in Before'
    <3>1. CASE x \in Range(inbox)
      BY <1>1, <1>6, <1>7, <2>1, <3>1 DEF Going, Mounted
    <3>2. CASE x = cmd'.m
      BY <1>1, <1>3, <3>2 DEF MessageOf, Own, Cur
    <3>3. QED
      BY <1>4, <3>1, <3>2
  <2>3. QED
    BY <2>2 DEF Mounted
<1>12. Cached'
  BY <1>1, <1>6, <1>7 DEF Going, Cached
<1>13. Replies'
  BY <1>1, <1>6, <1>7, <1>8, <1>9 DEF Replies
<1>14. Ordered'
  BY <1>1, <1>9 DEF Ordered, Range
<1>15. QED
  BY <1>10, <1>11, <1>12, <1>13, <1>14 DEF Going

LEMMA ClientFresh ==
  ASSUME OnceInv, OnceInv', FreshInv, Live => Placing, Client
  PROVE  FreshInv'
<1>1. /\ server' = server /\ TakesReply /\ ClientNext /\ UNCHANGED <<sess, done>>
  BY ClientSteps DEF OnceInv, Client, serverVars
<1>2. Stream1'
  BY ClientStream DEF FreshInv
<1>3. ASSUME Live' PROVE Going'
  <2>1. CASE SameCommand
    <3>1. Live
      BY <1>3, <2>1 DEF SameCommand, Live, Calling, Open
    <3>2. UNCHANGED <<f, call, sent>> /\ cmd'.m = cmd.m
      BY <2>1 DEF SameCommand
    <3>3. Calling => MessageOf(cmd.m, f, call, sent)
      BY CommandIs DEF OnceInv
    <3>4. Range(inbox') \subseteq Flying /\ outbox \in Seq(Range(outbox))
      <4>1. inbox \in Seq(Range(inbox)) /\ outbox \in Seq(Range(outbox))
        BY DEF OnceInv, Queues
      <4>2. QED
        BY <2>1, <4>1, Sent DEF SameCommand, Send, Flying
    <3>5. QED
      BY <1>1, <3>1, <3>2, <3>3, <3>4, TakesThins, GoingThins DEF FreshInv
  <2>2. CASE Renewed
    BY <1>1, <2>2, RenewedGoes
  <2>3. CASE Live /\ GivesUp
    BY <1>1, <2>3, GivesUpGoes DEF FreshInv
  <2>4. CASE Live /\ \E o : Answers(o)
    BY <1>1, <2>4, AnswersGoes
  <2>5. CASE Live /\ \E op \in {"read_at", "write_at"} : \E a : Starts(op, a)
    BY <1>1, <2>5, StartsGoes DEF FreshInv
  <2>6. QED
    BY <1>1, <1>3, <2>1, <2>2, <2>3, <2>4, <2>5, ClientKinds DEF OnceInv
<1>4. QED
  BY <1>2, <1>3 DEF FreshInv

-----------------------------------------------------------------------------
(* The steps of the server: an answer from the cache or none, a full       *)
(* server, a mount, and a request that is carried out.                     *)
Repeats(m) ==
    /\ UNCHANGED <<sess, vfs, fs, done>>
    /\ \E s \in Slots :
          /\ sess[s].in_use /\ sess[s].peer = m.peer /\ (m.cmd # "MOUNT" => sess[s].sid = m.sid)
          /\ Answered(sess[s], m) /\ outbox' = SendTo(outbox, Datagram(sess[s]))
Ignores == UNCHANGED <<sess, vfs, fs, done, outbox>>
Refused(m) ==
    /\ UNCHANGED <<sess, vfs, fs, done>> /\ m.cmd = "MOUNT"
    /\ outbox' = SendTo(outbox, [peer |-> m.peer, sid |-> 0, seq |-> m.seq, cmd |-> "MOUNT",
                                 body |-> Status("EAGAIN")])
MountsIn(m, slot, s) ==
    /\ m.cmd = "MOUNT" /\ m.id > done.id /\ done'.id = m.id /\ UNCHANGED <<vfs, fs>>
    /\ TakesSlot(slot, s, m) /\ sess'[slot] = s /\ \A x \in Slots \ {slot} : sess'[x] = sess[x]
Runs(m, slot, o) ==
    /\ sess[slot].in_use /\ sess[slot].sid = m.sid /\ sess[slot].peer = m.peer
    /\ m.cmd # "MOUNT" /\ m.id > done.id /\ done'.id = m.id
    /\ SessionStep(sess[slot], o) /\ CardStep(o.fs, m.cmd) /\ Finished(slot, m, o)
    /\ m.cmd # "UMOUNT" => \A fd \in Fds : vfs'[fd] = o.vfs[fd]
    /\ IF Refuses(m) THEN o \in Fails(sess[slot], "ENOSYS") ELSE o \in Handle(sess[slot], m)

LEMMA RepeatsIs ==
  ASSUME Sessions, NEW m, Duplicated(m), UNCHANGED done
  PROVE  Repeats(m)
<1> DEFINE again == IF m.cmd = "MOUNT" THEN MountedBy(m) ELSE {s \in Target(m) : Answered(sess[s], m)}
           slot == Lowest(again)
<1>1. again # {} /\ outbox' = SendTo(outbox, Datagram(sess[slot])) /\ UNCHANGED <<sess, vfs, fs>>
  BY DEF Duplicated
<1>2. \A s \in again : /\ s \in Slots /\ sess[s].in_use /\ sess[s].peer = m.peer
                       /\ (m.cmd # "MOUNT" => sess[s].sid = m.sid) /\ Answered(sess[s], m)
  BY DEF MountedBy, Target, find_session
<1>3. slot \in again
  <2>1. again \in SUBSET Nat
    BY <1>2, ServerAssumption
  <2> HIDE DEF again
  <2>2. QED
    BY <1>1, <2>1, LowestIn
<1> HIDE DEF slot, again
<1>4. QED
  BY <1>1, <1>2, <1>3 DEF Repeats

LEMMA ServerKinds ==
  ASSUME OnceInv, Server, NEW m, m = Head(inbox)
  PROVE  \/ Repeats(m) \/ Ignores \/ Refused(m)
         \/ \E slot \in FreeSlots : \E s : MountsIn(m, slot, s)
         \/ \E slot \in Slots : \E o : Runs(m, slot, o)
<1>0. inbox # <<>> /\ inbox' = Tail(inbox) /\ UNCHANGED clientVars
  BY DEF Server
<1>1. m \in Flying /\ MessageOK(m) /\ RequestOK(m) /\ m.id \in Nat
  BY <1>0, NextRequest DEF MessageOK
<1>2. Sessions /\ ServerInv /\ TableOK(sess) /\ VfsOK(vfs)
  BY DEF OnceInv, Sessions, ServerInv, Shapes
<1>3. CASE Duplicated(m) /\ UNCHANGED done
  BY <1>2, <1>3, RepeatsIs
<1>4. CASE Ignore(m) /\ UNCHANGED done
  BY <1>4 DEF Ignore, Ignores, serverVars
<1>5. CASE handle_mount(m) /\ done' = (IF FreeSlots' = FreeSlots THEN done ELSE Ran(m))
  <2>1. m.cmd = "MOUNT" /\ m.path = <<>> /\ m.id > done.id /\ UNCHANGED <<vfs, fs>>
    BY <1>1, <1>5, MountIsNew DEF handle_mount, MessageOK
  <2>2. CASE /\ UNCHANGED sess /\ FreeSlots = {}
             /\ outbox' = SendTo(outbox, [peer |-> m.peer, sid |-> 0, seq |-> m.seq, cmd |-> "MOUNT",
                                          body |-> Status("EAGAIN")])
    <3>1. done' = done
      BY <1>5, <2>2 DEF FreeSlots
    <3>2. QED
      BY <2>1, <2>2, <3>1 DEF Refused
  <2>3. ASSUME NEW slot \in FreeSlots, NEW s, TakesSlot(slot, s, m) PROVE MountsIn(m, slot, s)
    <3>1. sess' = [sess EXCEPT ![slot] = s] /\ s.in_use /\ slot \in Slots /\ ~sess[slot].in_use
      BY <2>3 DEF TakesSlot, FreeSlots
    <3>2. sess'[slot] = s /\ \A x \in Slots \ {slot} : sess'[x] = sess[x]
      BY <1>2, <3>1 DEF TableOK
    <3>3. FreeSlots' # FreeSlots
      BY <3>1, <3>2 DEF FreeSlots
    <3>4. done'.id = m.id
      BY <1>5, <3>3 DEF Ran
    <3>5. QED
      BY <2>1, <2>3, <3>2, <3>4 DEF MountsIn
  <2>4. QED
    BY <1>2, <1>5, <2>1, <2>2, <2>3, MountIs
<1>6. CASE RunAs(m) /\ done' = Ran(m)
  <2>1. PICK slot \in Fresh(m) : \E o :
            /\ SessionStep(sess[slot], o) /\ CardStep(o.fs, m.cmd) /\ Finish(slot, m, o)
            /\ IF Refuses(m) THEN o \in Fails(sess[slot], "ENOSYS") ELSE o \in Handle(sess[slot], m)
    BY <1>1, <1>2, <1>6, RunAsIs
  <2>2. PICK o :
            /\ SessionStep(sess[slot], o) /\ CardStep(o.fs, m.cmd) /\ Finish(slot, m, o)
            /\ IF Refuses(m) THEN o \in Fails(sess[slot], "ENOSYS") ELSE o \in Handle(sess[slot], m)
    BY <2>1
  <2>3. /\ slot \in Slots /\ sess[slot].in_use /\ sess[slot].sid = m.sid /\ sess[slot].peer = m.peer
        /\ m.cmd # "MOUNT"
    BY DEF Fresh, Target, find_session
  <2>4. m.id > done.id /\ done'.id = m.id
    <3>1. done'.id > done.id
      BY <1>0, <1>6, RunOnce
    <3>2. QED
      BY <1>6, <3>1 DEF Ran
  <2>5. Finished(slot, m, o)
    BY <1>2, <2>2, <2>3, FinishIs
  <2>6. ASSUME m.cmd # "UMOUNT" PROVE \A fd \in Fds : vfs'[fd] = o.vfs[fd]
    BY <2>2, <2>6 DEF Finish, CloseAll
  <2>7. Runs(m, slot, o)
    BY <2>2, <2>3, <2>4, <2>5, <2>6 DEF Runs
  <2>8. QED
    BY <2>3, <2>7
<1>7. QED
  BY <1>3, <1>4, <1>5, <1>6 DEF Server

(* Every reply is to the request, from its peer. *)
LEMMA RepliesTo ==
  ASSUME OnceInv, Server, NEW m, m = Head(inbox)
  PROVE  \/ outbox' = outbox
         \/ \E r : outbox' = SendTo(outbox, r) /\ r.peer = m.peer /\ r.seq = m.seq /\ r.cmd = m.cmd
<1>1. CASE Repeats(m)
  <2>1. PICK s \in Slots : /\ sess[s].peer = m.peer /\ Answered(sess[s], m)
                           /\ outbox' = SendTo(outbox, Datagram(sess[s]))
    BY <1>1 DEF Repeats
  <2>2. QED
    BY <2>1 DEF Datagram, Answered
<1>2. CASE Ignores
  BY <1>2 DEF Ignores
<1>3. CASE Refused(m)
  BY <1>3 DEF Refused
<1>4. CASE \E slot \in FreeSlots : \E s : MountsIn(m, slot, s)
  <2>1. PICK s : outbox' = SendTo(outbox, Datagram(s)) /\ s.peer = m.peer
                 /\ s.reply = [seq |-> m.seq, cmd |-> m.cmd, body |-> Status("OK")]
    BY <1>4 DEF MountsIn, TakesSlot
  <2>2. QED
    BY <2>1 DEF Datagram
<1>5. CASE \E slot \in Slots : \E o : Runs(m, slot, o)
  <2>1. PICK slot \in Slots : \E o : Runs(m, slot, o)
    BY <1>5
  <2>2. QED
    BY <2>1 DEF Runs, Finished
<1>6. QED
  BY <1>1, <1>2, <1>3, <1>4, <1>5, ServerKinds

LEMMA ServerStream ==
  ASSUME OnceInv, Stream1, Server
  PROVE  Stream1'
<1> SUFFICES ASSUME server.tcp PROVE Stream1'
  BY DEF Stream1, Server, clientVars
<1>1. PICK m : m = Head(inbox)
  OBVIOUS
<1>2. inbox # <<>> /\ inbox' = Tail(inbox) /\ UNCHANGED <<f, call, cmd, server>>
  BY DEF Server, clientVars
<1>3. inbox \in Seq(Range(inbox)) /\ outbox \in Seq(Range(outbox)) /\ m \in Range(inbox)
  BY <1>1, <1>2, NextRequest DEF OnceInv, Queues
<1>4. Calling /\ f.tcp /\ m = cmd.m /\ Len(inbox) + Len(outbox) <= 1
  BY <1>3 DEF Stream1
<1>5. outbox = <<>> /\ Tail(inbox) = <<>>
  <2> DEFINE i == Len(inbox)
             o == Len(outbox)
  <2>1. i \in Nat /\ o \in Nat /\ i + o <= 1 /\ i >= 1 /\ (o >= 1 \/ outbox = <<>>) /\ (i = 1 => Tail(inbox) = <<>>)
    BY <1>2, <1>3, <1>4, Lengths
  <2> HIDE DEF i, o
  <2>2. i = 1 /\ o = 0
    BY <2>1
  <2>3. QED
    BY <2>1, <2>2
<1>6. MessageOf(m, f, call, sent)
  BY <1>4, CommandIs DEF OnceInv
<1>7. PICK p, q : p = inbox' /\ q = outbox'
  OBVIOUS
<1>8. p = <<>> /\ (q = <<>> \/ \E r : q = <<r>> /\ r.peer = m.peer /\ r.seq = m.seq /\ r.cmd = m.cmd)
  BY <1>1, <1>2, <1>5, <1>7, RepliesTo DEF SendTo
<1>9. Len(p) = 0 /\ Range(p) = {}
  BY <1>8 DEF Range
<1>10. Len(q) \in 0 .. 1 /\ \A r \in Range(q) : r.peer = m.peer /\ r.seq = m.seq /\ r.cmd = m.cmd
  BY <1>8 DEF Range
<1>11. Len(p) + Len(q) <= 1
  <2>1. PICK i \in 0 .. 1 : i = Len(q)
    BY <1>10
  <2>2. 0 + i <= 1
    BY <2>1
  <2>3. QED
    BY <1>9, <2>1, <2>2
<1>12. \A r \in Range(outbox') : f'.tcp /\ Current(r)'
  BY <1>2, <1>4, <1>6, <1>7, <1>10 DEF MessageOf, Current, Cur, Own, Calling
<1>13. Len(inbox') + Len(outbox') <= 1 /\ Range(inbox') = {}
  BY <1>7, <1>9, <1>11, Zenon
<1>14. QED
  BY <1>12, <1>13 DEF Stream1

(* The command is none of those that were given up. *)
LEMMA CommandFits ==
  ASSUME ClientOK, Calling
  PROVE  /\ cmd.m.cmd \notin Before /\ (cmd.m.cmd = "MOUNT" <=> call.at = "mount")
         /\ call.at # "umount" => cmd.m.cmd # "UMOUNT"
         /\ cmd.m.id = sent /\ Cur(cmd.m) /\ cmd.m.sid = f.conn
<1>1. MessageOf(cmd.m, f, call, sent) /\ CallOK(call)
  BY CommandIs
<1>2. cmd.m.cmd \notin Before
  <2>1. CASE call.at = "seek"
    <3>1. cmd.m.cmd = "LSEEK"
      BY <1>1, <2>1, CommandNames DEF MessageOf
    <3>2. cmd.m.cmd \notin {"READ", "WRITE"}
      BY <3>1
    <3>3. QED
      BY <3>2 DEF Before
  <2>2. CASE call.at # "seek"
    BY <2>2 DEF Before
  <2>3. QED
    BY <2>1, <2>2
<1>3. ASSUME call.at # "umount" PROVE cmd.m.cmd # "UMOUNT"
  <2>1. cmd.m.cmd = Asked(f, call).cmd
    BY <1>1 DEF MessageOf
  <2>2. call.at \in {"mount", "open", "size", "read", "write", "seek"} => Asked(f, call).cmd # "UMOUNT"
    BY CommandNames
  <2>3. call.at \in ListSteps => Asked(f, call).cmd # "UMOUNT"
    BY CommandNames DEF ListSteps
  <2>4. call.at = "close" => Asked(f, call).cmd = "CLOSE"
    BY AskedIs
  <2>5. call.at = "closedir" => Asked(f, call).cmd = "CLOSEDIR"
    BY AskedIs
  <2>6. call.at \in {"mount", "open", "size", "read", "write", "seek", "close", "closedir"} \union ListSteps
    BY <1>1, <1>3 DEF CallOK
  <2>7. QED
    BY <2>1, <2>2, <2>3, <2>4, <2>5, <2>6
<1>4. QED
  BY <1>1, <1>2, <1>3 DEF MessageOf, Cur, Own

(* The request that the server takes, and what the client waits for. *)
LEMMA RequestGoes ==
  ASSUME OnceInv, Going, NEW m \in Range(inbox)
  PROVE  /\ call.at = "mount" /\ Own(m) => Calling /\ m = cmd.m
         /\ call.at # "mount" /\ Cur(m) => (Calling /\ m = cmd.m) \/ m.cmd \in Before
         /\ call.at # "mount" => Own(m)
         /\ call.at # "mount" /\ m.id > done.id => Cur(m) /\ m.sid = f.conn
         /\ call.at # "mount" /\ m.cmd = "MOUNT" => ~Cur(m)
         /\ Calling /\ Executed => m = cmd.m
         /\ m.id > done.id => ~Executed
         /\ m.id \in Nat /\ done.id \in Nat /\ sent \in Nat
<1>1. /\ m \in Flying /\ m.id \in done.id .. sent /\ done.id \in Nat /\ sent \in Nat
      /\ \A x, y \in Flying : x.id = y.id => x = y
  BY DEF OnceInv, Queues, Flying, Once, ClientOK
<1>2. Calling => cmd.m \in Flying /\ cmd.m.id = sent /\ (cmd.m.cmd = "MOUNT" <=> call.at = "mount")
  BY CommandFits DEF OnceInv, Flying
<1>3. Calling /\ m.id = sent => m = cmd.m
  BY <1>1, <1>2
<1>4. call.at # "mount" /\ Cur(m) => (Calling /\ m = cmd.m) \/ m.cmd \in Before
  BY <1>3 DEF Going, Mounted
<1>5. "MOUNT" \notin Before
  BY DEF Before
<1>6. Executed => m.id = sent
  BY <1>1 DEF Executed
<1>7. m.id > done.id => ~Executed
  BY <1>1 DEF Executed
<1>8. call.at = "mount" => Calling
  BY DEF Calling
<1>9. QED
  BY <1>1, <1>2, <1>3, <1>4, <1>5, <1>6, <1>7, <1>8 DEF Going, Mounting, Mounted

LEMMA OrderedSend ==
  ASSUME outbox \in Seq(Range(outbox)), UNCHANGED <<f, call, cmd>>, Ordered, NEW r, outbox' = SendTo(outbox, r),
         Own(r) /\ (\E q \in Range(outbox) : Current(q)) => Cur(r)
  PROVE  Ordered'
<1>1. \A x : Own(x)' = Own(x) /\ Cur(x)' = Cur(x) /\ Current(x)' = Current(x)
  BY DEF Own, Cur, Current, Calling
<1>2. PICK p : p = outbox'
  OBVIOUS
<1>3. CASE p = outbox
  BY <1>1, <1>2, <1>3 DEF Ordered
<1>4. CASE p = Append(outbox, r)
  <2> DEFINE n == Len(outbox)
  <2>1. /\ n \in Nat /\ DOMAIN p = 1 .. n + 1 /\ DOMAIN outbox = 1 .. n
        /\ p[n + 1] = r /\ \A i \in 1 .. n : p[i] = outbox[i]
    BY <1>4, Appended
  <2> HIDE DEF n
  <2>2. ASSUME NEW i \in 1 .. n + 1, NEW j \in 1 .. n + 1, i <= j, Current(p[i]), Own(p[j])
        PROVE  Cur(p[j])
    <3>1. CASE j = n + 1 /\ i = n + 1
      BY <2>1, <2>2, <3>1 DEF Current
    <3>2. CASE j = n + 1 /\ i # n + 1
      <4>1. i \in 1 .. n
        BY <2>1, <2>2, <3>2
      <4>2. Current(outbox[i]) /\ outbox[i] \in Range(outbox)
        BY <2>1, <2>2, <4>1 DEF Range
      <4>3. QED
        BY <2>1, <2>2, <3>2, <4>2
    <3>3. CASE j # n + 1
      <4>1. i \in 1 .. n /\ j \in 1 .. n
        BY <2>1, <2>2, <3>3
      <4>2. Current(outbox[i]) /\ Own(outbox[j])
        BY <2>1, <2>2, <4>1
      <4>3. Cur(outbox[j])
        BY <2>1, <2>2, <4>1, <4>2 DEF Ordered
      <4>4. QED
        BY <2>1, <4>1, <4>3
    <3>4. QED
      BY <3>1, <3>2, <3>3
  <2>3. \A i, j \in DOMAIN outbox' : i <= j /\ Current(p[i]) /\ Own(p[j]) => Cur(p[j])
    BY <1>2, <2>1, <2>2
  <2>4. QED
    BY <1>1, <1>2, <2>3 DEF Ordered
<1>5. QED
  BY <1>2, <1>3, <1>4, SendAdds

(* An answer from the cache, or that there is no room. *)
LEMMA RepliedGoes ==
  ASSUME OnceInv, Going, UNCHANGED <<f, call, cmd, sent, sess, done>>, NEW m \in Range(inbox),
         Range(inbox') \subseteq Range(inbox), NEW r, outbox' = SendTo(outbox, r),
         r.peer = m.peer, r.seq = m.seq, r.cmd = m.cmd,
         \/ m.cmd = "MOUNT" /\ r.body.status = "EAGAIN"
         \/ \E s \in Slots : /\ sess[s].in_use /\ sess[s].peer = m.peer /\ r = Datagram(sess[s])
                             /\ m.cmd # "MOUNT" => sess[s].sid = m.sid
  PROVE  Going'
<1>1. /\ Calling' = Calling /\ Before' = Before /\ Executed' = Executed
      /\ \A x : Own(x)' = Own(x) /\ Cur(x)' = Cur(x) /\ Current(x)' = Current(x)
      /\ \A s : Mine(s)' = Mine(s)
  BY DEF Calling, Before, Executed, Own, Cur, Current, Mine
<1>2. outbox \in Seq(Range(outbox))
  BY DEF OnceInv, Queues
<1>3. Range(outbox') \subseteq Range(outbox) \union {r}
  BY <1>2, Sent
<1>4. Own(r) = Own(m) /\ Cur(r) = Cur(m)
  BY DEF Own, Cur
<1>5. /\ call.at = "mount" /\ Own(m) => Calling /\ m = cmd.m
      /\ call.at # "mount" /\ Cur(m) => (Calling /\ m = cmd.m) \/ m.cmd \in Before
      /\ call.at # "mount" /\ m.cmd = "MOUNT" => ~Cur(m)
      /\ Calling /\ Executed => m = cmd.m
  BY RequestGoes
<1>6. Calling => /\ cmd.m.cmd \notin Before /\ (cmd.m.cmd = "MOUNT" <=> call.at = "mount")
                 /\ Cur(cmd.m) /\ cmd.m.sid = f.conn
  BY CommandFits DEF OnceInv
<1>7. Cur(r) => Current(r) \/ r.cmd \in Before
  BY <1>4, <1>5, <1>6 DEF Current, Cur
<1>8. ASSUME Current(r)
      PROVE  \/ call.at = "mount" /\ r.body.status = "EAGAIN"
             \/ Executed /\ \E s \in Slots : Mine(s) /\ r = Datagram(sess[s])
  <2>1. Calling /\ m = cmd.m /\ Cur(m)
    BY <1>4, <1>5, <1>6, <1>8 DEF Current, Cur
  <2>2. CASE m.cmd = "MOUNT" /\ r.body.status = "EAGAIN"
    BY <1>6, <2>1, <2>2
  <2>3. ASSUME NEW s \in Slots, sess[s].in_use, sess[s].peer = m.peer, r = Datagram(sess[s]),
               m.cmd # "MOUNT" => sess[s].sid = m.sid
        PROVE  Executed /\ Mine(s) /\ r = Datagram(sess[s])
    <3>1. Mine(s)
      BY <1>6, <2>1, <2>3 DEF Mine, Cur, Own
    <3>2. CASE call.at = "mount"
      BY <2>3, <3>1, <3>2 DEF Going, Mounting
    <3>3. CASE call.at # "mount"
      <4>1. sess[s].reply.seq = f.seq /\ sess[s].reply.cmd = m.cmd
        BY <2>1, <2>3 DEF Datagram, Cur
      <4>2. Executed
        BY <1>6, <2>1, <3>1, <4>1 DEF Going, Cached
      <4>3. QED
        BY <2>3, <3>1, <4>2
    <3>4. QED
      BY <3>2, <3>3
  <2>4. QED
    BY <2>2, <2>3
<1>9. Mounting'
  <2>1. call.at = "mount" => cmd'.m = cmd.m
    OBVIOUS
  <2>2. QED
    BY <1>1, <2>1 DEF Going, Mounting
<1>10. Mounted'
  BY <1>1 DEF Going, Mounted
<1>11. Cached'
  BY <1>1 DEF Going, Cached
<1>12. Replies'
  BY <1>1, <1>3, <1>7, <1>8 DEF Going, Replies
<1>13. Ordered'
  <2>1. ASSUME NEW q \in Range(outbox), Current(q), Own(r) PROVE Cur(r)
    <3>1. CASE call.at = "mount"
      BY <1>4, <1>5, <1>6, <2>1, <3>1
    <3>2. CASE call.at # "mount"
      <4>1. Executed /\ Calling
        BY <2>1, <3>2 DEF Going, Replies, Current
      <4>2. QED
        BY <1>4, <1>5, <1>6, <4>1
    <3>3. QED
      BY <3>1, <3>2
  <2>2. QED
    BY <1>2, <2>1, OrderedSend DEF Going
<1>14. QED
  BY <1>9, <1>10, <1>11, <1>12, <1>13 DEF Going

(* A mount: the session that the client goes on with, or another one's. *)
LEMMA MountsGoes ==
  ASSUME OnceInv, Going, UNCHANGED <<f, call, cmd, sent>>, NEW m \in Range(inbox),
         Range(inbox') \subseteq Range(inbox), NEW slot \in FreeSlots, NEW s, MountsIn(m, slot, s)
  PROVE  Going'
<1>1. /\ Calling' = Calling /\ Before' = Before
      /\ \A x : Own(x)' = Own(x) /\ Cur(x)' = Cur(x) /\ Current(x)' = Current(x)
  BY DEF Calling, Before, Own, Cur, Current
<1>2. outbox \in Seq(Range(outbox))
  BY DEF OnceInv, Queues
<1>3. /\ m.cmd = "MOUNT" /\ m.id > done.id /\ done'.id = m.id /\ sess'[slot] = s
      /\ \A x \in Slots \ {slot} : sess'[x] = sess[x]
      /\ outbox' = SendTo(outbox, Datagram(s)) /\ s.in_use /\ s.peer = m.peer /\ s.dirs = Blank.dirs
      /\ s.reply = [seq |-> m.seq, cmd |-> m.cmd, body |-> Status("OK")]
  BY DEF MountsIn, TakesSlot
<1>4. /\ call.at = "mount" /\ ~Executed
      /\ Own(m) => Calling /\ m = cmd.m
  BY <1>3, RequestGoes
<1>5. Calling => Cur(cmd.m) /\ cmd.m.id = sent
  BY CommandFits DEF OnceInv
<1>6. ASSUME NEW t \in Slots, Mine(t)'
      PROVE  /\ t = slot /\ Own(m) /\ Executed'
             /\ sess'[t].reply = [seq |-> f.seq, cmd |-> "MOUNT", body |-> Status("OK")]
             /\ sess'[t].dirs = Blank.dirs
  <2>1. t = slot
    <3>1. t # slot => Mine(t)
      BY <1>3, <1>6 DEF Mine
    <3>2. QED
      BY <1>4, <1>6, <3>1 DEF Going, Mounting
  <2>2. Own(m) /\ m.seq = f.seq
    BY <1>3, <1>4, <1>5, <1>6, <2>1 DEF Mine, Own, Cur
  <2>3. Executed'
    BY <1>3, <1>4, <1>5, <2>2 DEF Executed
  <2>4. QED
    BY <1>3, <2>1, <2>2, <2>3
<1>7. PICK r : r = Datagram(s)
  OBVIOUS
<1>8. r.peer = m.peer /\ r.seq = m.seq /\ r.cmd = m.cmd /\ outbox' = SendTo(outbox, r)
  BY <1>3, <1>7 DEF Datagram
<1>9. Range(outbox') \subseteq Range(outbox) \union {r}
  BY <1>2, <1>8, Sent
<1>10. Own(r) => Cur(r) /\ Current(r)
  BY <1>4, <1>5, <1>8 DEF Own, Cur, Current
<1>11. Mounting'
  BY <1>1, <1>4, <1>6 DEF Going, Mounting
<1>12. Mounted'
  BY <1>4 DEF Mounted
<1>13. Cached'
  <2>1. Own(m) => Calling /\ cmd.m.cmd = "MOUNT"
    BY <1>3, <1>4
  <2>2. ASSUME NEW t \in Slots, Mine(t)' PROVE Calling' /\ Executed' /\ sess'[t].reply.cmd = cmd'.m.cmd
    <3>1. Own(m) /\ Executed' /\ sess'[t].reply.cmd = "MOUNT"
      BY <1>6, <2>2
    <3>2. QED
      BY <1>1, <2>1, <3>1
  <2>3. QED
    BY <2>2 DEF Cached
<1>14. Replies'
  <2>1. ASSUME NEW q \in Range(outbox), Current(q) PROVE q.body.status = "EAGAIN"
    BY <1>4, <2>1 DEF Going, Replies
  <2>2. ASSUME Own(r) PROVE Executed' /\ Mine(slot)' /\ r = Datagram(sess'[slot]) /\ slot \in Slots
    <3>1. Mine(slot)' /\ slot \in Slots
      BY <1>3, <1>4, <1>8, <2>2 DEF Mine, Own, FreeSlots
    <3>2. QED
      BY <1>3, <1>6, <1>7, <3>1
  <2>3. \A q \in Range(outbox') : Cur(q) => Current(q) \/ q.cmd \in Before
    BY <1>9, <1>10 DEF Going, Replies, Cur
  <2>4. \A q \in Range(outbox') : Current(q) =>
           \/ q.body.status = "EAGAIN"
           \/ Executed' /\ \E t \in Slots : Mine(t)' /\ q = Datagram(sess'[t])
    BY <1>9, <2>1, <2>2 DEF Current, Cur
  <2>5. QED
    BY <1>1, <1>4, <2>3, <2>4 DEF Replies
<1>15. Ordered'
  BY <1>2, <1>8, <1>10, OrderedSend DEF Going
<1>16. QED
  BY <1>11, <1>12, <1>13, <1>14, <1>15 DEF Going

(* A request that is carried out is the client's, and in its session. *)
LEMMA RunsMine ==
  ASSUME OnceInv, Going, UNCHANGED <<f, call, cmd, sent>>, call.at # "umount", NEW m \in Range(inbox),
         NEW slot \in Slots, NEW o, Runs(m, slot, o)
  PROVE  /\ ~Executed
         /\ call.at = "mount" => ~Own(m) /\ \A t \in Slots : ~Mine(t)'
         /\ call.at # "mount" => /\ Cur(m) /\ ((Calling /\ m = cmd.m) \/ m.cmd \in Before)
                                 /\ m.cmd # "UMOUNT" /\ Mine(slot) /\ Mine(slot)'
                                 /\ \A t \in Slots : Mine(t) \/ Mine(t)' => t = slot
                                 /\ sess'[slot].reply = [seq |-> m.seq, cmd |-> m.cmd, body |-> o.body]
                                 /\ Executed' <=> m.id = sent
<1>1. /\ sess[slot].in_use /\ sess[slot].sid = m.sid /\ sess[slot].peer = m.peer
      /\ m.cmd # "MOUNT" /\ m.id > done.id /\ done'.id = m.id /\ Finished(slot, m, o)
  BY DEF Runs
<1>2. /\ \A x \in Slots \ {slot} : sess'[x] = sess[x]
      /\ m.cmd = "UMOUNT" => sess'[slot] = Blank
      /\ m.cmd # "UMOUNT" =>
            /\ sess'[slot].in_use = sess[slot].in_use /\ sess'[slot].sid = sess[slot].sid
            /\ sess'[slot].peer = sess[slot].peer
            /\ sess'[slot].reply = [seq |-> m.seq, cmd |-> m.cmd, body |-> o.body]
  BY <1>1 DEF Finished
<1>3. ~Blank.in_use
  BY DEF Blank
<1>4. ~Executed /\ (Executed' <=> m.id = sent)
  BY <1>1, RequestGoes DEF Executed
<1>5. CASE call.at = "mount"
  <2>1. Own(m) => Calling /\ m = cmd.m
    BY <1>5, RequestGoes
  <2>2. Calling => cmd.m.cmd = "MOUNT"
    BY <1>5, CommandFits DEF OnceInv
  <2>3. ~Own(m)
    BY <1>1, <2>1, <2>2
  <2>4. ASSUME NEW t \in Slots, Mine(t)' PROVE FALSE
    <3>1. Mine(t)
      BY <1>1, <1>2, <1>3, <1>5, <2>3, <2>4 DEF Mine, Own
    <3>2. QED
      BY <1>4, <1>5, <3>1 DEF Going, Mounting
  <2>5. QED
    BY <1>4, <1>5, <2>3, <2>4
<1>6. CASE call.at # "mount"
  <2>1. Cur(m) /\ m.sid = f.conn /\ ((Calling /\ m = cmd.m) \/ m.cmd \in Before)
    BY <1>1, <1>6, RequestGoes
  <2>2. m.cmd # "UMOUNT"
    <3>1. Calling => cmd.m.cmd # "UMOUNT"
      BY CommandFits DEF OnceInv
    <3>2. "UMOUNT" \notin Before
      BY DEF Before
    <3>3. QED
      BY <2>1, <3>1, <3>2
  <2>3. Mine(slot) /\ Mine(slot)'
    BY <1>1, <1>2, <2>1, <2>2 DEF Mine, Cur, Own
  <2>4. ASSUME NEW t \in Slots, Mine(t) PROVE t = slot
    BY <1>6, <2>3, <2>4 DEF Mine, OnceInv, Sessions, ServerInv, Distinct
  <2>5. ASSUME NEW t \in Slots, Mine(t)' PROVE t = slot
    BY <1>2, <1>6, <2>4, <2>5 DEF Mine
  <2>6. QED
    BY <1>2, <1>4, <1>6, <2>1, <2>2, <2>3, <2>4, <2>5
<1>7. QED
  BY <1>5, <1>6

LEMMA RunsGoes ==
  ASSUME OnceInv, Going, UNCHANGED <<f, call, cmd, sent>>, call.at # "umount", NEW m \in Range(inbox),
         Range(inbox') \subseteq Range(inbox), NEW slot \in Slots, NEW o, Runs(m, slot, o)
  PROVE  Going'
<1>1. /\ Calling' = Calling /\ Before' = Before
      /\ \A x : Own(x)' = Own(x) /\ Cur(x)' = Cur(x) /\ Current(x)' = Current(x)
  BY DEF Calling, Before, Own, Cur, Current
<1>2. outbox \in Seq(Range(outbox))
  BY DEF OnceInv, Queues
<1>3. /\ sess[slot].in_use /\ sess[slot].sid = m.sid /\ sess[slot].peer = m.peer
      /\ m.id > done.id /\ done'.id = m.id /\ Finished(slot, m, o)
  BY DEF Runs
<1>4. PICK r : r = [peer |-> sess[slot].peer, sid |-> sess[slot].sid, seq |-> m.seq,
                    cmd |-> m.cmd, body |-> o.body]
  OBVIOUS
<1>5. r.peer = m.peer /\ r.seq = m.seq /\ r.cmd = m.cmd /\ outbox' = SendTo(outbox, r)
  BY <1>3, <1>4 DEF Finished
<1>6. Range(outbox') \subseteq Range(outbox) \union {r}
  BY <1>2, <1>5, Sent
<1>7. Own(r) = Own(m) /\ Cur(r) = Cur(m)
  BY <1>5 DEF Own, Cur
<1>8. ~Executed /\ m.id \in Nat /\ done.id \in Nat
  BY RunsMine, RequestGoes
<1>9. CASE call.at = "mount"
  <2>1. ~Own(m) /\ \A t \in Slots : ~Mine(t)'
    BY <1>9, RunsMine
  <2>2. Mounting' /\ Mounted' /\ Cached'
    BY <1>1, <1>9, <2>1 DEF Going, Mounting, Mounted, Cached
  <2>3. Replies'
    BY <1>1, <1>6, <1>7, <1>8, <1>9, <2>1 DEF Going, Replies, Current, Cur
  <2>4. Ordered'
    BY <1>2, <1>5, <1>7, <2>1, OrderedSend DEF Going
  <2>5. QED
    BY <2>2, <2>3, <2>4 DEF Going
<1>10. CASE call.at # "mount"
  <2>1. /\ Cur(m) /\ ((Calling /\ m = cmd.m) \/ m.cmd \in Before)
        /\ Mine(slot)' /\ m.cmd # "UMOUNT"
        /\ \A t \in Slots : Mine(t)' => t = slot
        /\ sess'[slot].reply = [seq |-> m.seq, cmd |-> m.cmd, body |-> o.body]
        /\ Executed' <=> m.id = sent
    BY <1>10, RunsMine
  <2>2. Calling => cmd.m.cmd \notin Before /\ cmd.m.id = sent
    BY CommandFits DEF OnceInv
  <2>3. \A q \in Range(outbox) : ~Current(q)
    BY <1>8, <1>10 DEF Going, Replies
  <2>4. r = Datagram(sess'[slot])
    <3>1. sess'[slot].peer = sess[slot].peer /\ sess'[slot].sid = sess[slot].sid
      BY <1>3, <2>1 DEF Finished
    <3>2. sess'[slot].reply.seq = m.seq /\ sess'[slot].reply.cmd = m.cmd /\ sess'[slot].reply.body = o.body
      BY <2>1
    <3>3. QED
      BY <1>4, <3>1, <3>2 DEF Datagram
  <2>5. Cur(r) /\ (Current(r) => Executed') /\ (Current(r) \/ r.cmd \in Before)
    BY <1>5, <1>7, <2>1, <2>2 DEF Current
  <2>6. Mounting'
    BY <1>10 DEF Mounting
  <2>7. Mounted'
    <3>1. \A x \in Range(inbox) : x.id \in Nat /\ Own(x)
      BY <1>10, RequestGoes
    <3>2. \A x \in Range(inbox') : x.id > m.id => x.id > done.id
      BY <1>3, <1>8, <3>1
    <3>3. QED
      BY <1>1, <1>3, <1>10, <3>1, <3>2 DEF Going, Mounted
  <2>8. Cached'
    <3>1. sess'[slot].reply.cmd = m.cmd
      BY <2>1
    <3>2. (Calling /\ Executed' /\ m.cmd = cmd.m.cmd) \/ m.cmd \in Before
      BY <2>1, <2>2
    <3>3. QED
      BY <1>1, <2>1, <3>1, <3>2 DEF Cached
  <2>9. Replies'
    <3>1. \A q \in Range(outbox') : Cur(q) => Current(q) \/ q.cmd \in Before
      BY <1>6, <2>5 DEF Going, Replies
    <3>2. \A q \in Range(outbox') : Current(q) => q = r /\ Executed'
      BY <1>6, <2>3, <2>5
    <3>3. QED
      BY <1>1, <2>1, <2>4, <3>1, <3>2 DEF Replies
  <2>10. Ordered'
    BY <1>2, <1>5, <2>5, OrderedSend DEF Going
  <2>11. QED
    BY <2>6, <2>7, <2>8, <2>9, <2>10 DEF Going
<1>11. QED
  BY <1>9, <1>10

LEMMA ServerFresh ==
  ASSUME OnceInv, FreshInv, Server
  PROVE  FreshInv'
<1>1. PICK m : m = Head(inbox)
  OBVIOUS
<1>2. inbox # <<>> /\ UNCHANGED <<f, call, cmd, sent, clean>>
  BY DEF Server, clientVars
<1>3. m \in Range(inbox) /\ Range(inbox') \subseteq Range(inbox) /\ inbox' = Tail(inbox)
  BY <1>1, <1>2, NextRequest DEF Server
<1>4. Stream1'
  BY ServerStream DEF FreshInv
<1>5. ASSUME Live' PROVE Going'
  <2>1. Live /\ Going /\ call.at # "umount"
    BY <1>2, <1>5 DEF Live, Calling, Open, FreshInv
  <2>2. CASE Repeats(m)
    <3>1. PICK s \in Slots :
             /\ sess[s].in_use /\ sess[s].peer = m.peer /\ (m.cmd # "MOUNT" => sess[s].sid = m.sid)
             /\ Answered(sess[s], m) /\ outbox' = SendTo(outbox, Datagram(sess[s]))
      BY <2>2 DEF Repeats
    <3>2. UNCHANGED <<sess, done>>
      BY <2>2 DEF Repeats
    <3>3. PICK r : r = Datagram(sess[s])
      OBVIOUS
    <3>4. r.peer = m.peer /\ r.seq = m.seq /\ r.cmd = m.cmd
      BY <3>1, <3>3 DEF Datagram, Answered
    <3>5. QED
      BY <1>2, <1>3, <2>1, <3>1, <3>2, <3>3, <3>4, RepliedGoes
  <2>3. CASE Ignores
    <3>1. UNCHANGED <<sess, done, outbox>> /\ Range(inbox') \subseteq Flying
      BY <1>3, <2>3 DEF Ignores, Flying
    <3>2. Thinned(outbox', outbox)
      BY <3>1, ThinSame DEF OnceInv, Queues
    <3>3. Calling => MessageOf(cmd.m, f, call, sent)
      BY CommandIs DEF OnceInv
    <3>4. QED
      BY <1>2, <2>1, <3>1, <3>2, <3>3, GoingThins
  <2>4. CASE Refused(m)
    <3>1. PICK r : r = [peer |-> m.peer, sid |-> 0, seq |-> m.seq, cmd |-> "MOUNT", body |-> Status("EAGAIN")]
      OBVIOUS
    <3>2. /\ r.peer = m.peer /\ r.seq = m.seq /\ r.cmd = m.cmd /\ m.cmd = "MOUNT" /\ r.body.status = "EAGAIN"
          /\ outbox' = SendTo(outbox, r) /\ UNCHANGED <<sess, done>>
      BY <2>4, <3>1 DEF Refused, Status
    <3>3. QED
      BY <1>2, <1>3, <2>1, <3>2, RepliedGoes
  <2>5. CASE \E slot \in FreeSlots : \E s : MountsIn(m, slot, s)
    BY <1>2, <1>3, <2>1, <2>5, MountsGoes
  <2>6. CASE \E slot \in Slots : \E o : Runs(m, slot, o)
    BY <1>2, <1>3, <2>1, <2>6, RunsGoes
  <2>7. QED
    BY <1>1, <2>2, <2>3, <2>4, <2>5, <2>6, ServerKinds
<1>6. QED
  BY <1>4, <1>5 DEF FreshInv

LEMMA ReapFresh ==
  ASSUME OnceInv, FreshInv, Reap
  PROVE  FreshInv' /\ \A s \in Slots : Mine(s)' => Mine(s) /\ sess'[s] = sess[s]
<1>1. /\ reap_idle # {} /\ sess' = free_sessions(sess, reap_idle)
      /\ UNCHANGED <<inbox, outbox, f, call, cmd, sent, server, done, clean>>
  BY DEF Reap, ReapIdle, netVars, clientVars
<1>2. outbox = <<>> /\ Range(<<>>) = {}
  BY <1>1 DEF reap_idle, OnceInv, Once, Range
<1>3. \A s \in Slots : sess'[s].in_use => sess'[s] = sess[s]
  BY <1>1, BlankOK DEF free_sessions
<1>4. /\ Calling' = Calling /\ Before' = Before /\ Executed' = Executed /\ Live' = Live
      /\ \A x : Own(x)' = Own(x) /\ Cur(x)' = Cur(x) /\ Current(x)' = Current(x)
  BY <1>1 DEF Calling, Before, Executed, Own, Cur, Current, Live, Open
<1>5. \A s \in Slots : Mine(s)' => Mine(s) /\ sess'[s] = sess[s]
  BY <1>1, <1>3 DEF Mine
<1>6. Stream1'
  BY <1>1, <1>4 DEF FreshInv, Stream1
<1>7. ASSUME Going PROVE Going'
  <2>1. Mounting' /\ Mounted' /\ Cached'
    BY <1>1, <1>4, <1>5, <1>7 DEF Going, Mounting, Mounted, Cached
  <2>2. Replies' /\ Ordered'
    BY <1>1, <1>2 DEF Replies, Ordered
  <2>3. QED
    BY <2>1, <2>2 DEF Going
<1>8. QED
  BY <1>4, <1>5, <1>6, <1>7 DEF FreshInv

LEMMA QuietFresh ==
  ASSUME OnceInv, FreshInv, UNCHANGED <<f, call, cmd, sent, server, done, clean, sess>>,
         Network \/ UNCHANGED <<inbox, outbox>>
  PROVE  FreshInv'
<1>1. Calling' = Calling /\ Live' = Live
  BY DEF Calling, Live, Open
<1>2. Stream1'
  <2>1. CASE UNCHANGED <<inbox, outbox>>
    BY <1>1, <2>1 DEF FreshInv, Stream1, Current, Cur, Own
  <2>2. CASE Network
    <3>1. server.tcp => inbox = <<>> /\ outbox = <<>>
      BY <2>2, StreamQuiet DEF Network, FreshInv
    <3>2. ~server.tcp
      BY <2>2, <3>1 DEF Network, Lose, Duplicate
    <3>3. QED
      BY <3>2 DEF Stream1
  <2>3. QED
    BY <2>1, <2>2
<1>3. Thinned(inbox', inbox) /\ Thinned(outbox', outbox)
  <2>1. CASE UNCHANGED <<inbox, outbox>>
    BY <2>1, ThinSame DEF OnceInv, Queues
  <2>2. QED
    BY <2>1, NetworkThins DEF OnceInv
<1>4. Range(inbox') \subseteq Flying
  BY <1>3, ThinElements DEF Flying
<1>5. Calling => MessageOf(cmd.m, f, call, sent)
  BY CommandIs DEF OnceInv
<1>6. QED
  BY <1>1, <1>2, <1>3, <1>4, <1>5, GoingThins DEF FreshInv

(* A file that is open at the start. *)
LEMMA OpenInit ==
  ASSUME Init, FileOpen
  PROVE  /\ f.sock = 1 /\ f.conn = 1 /\ f.seq = 3 % SeqLimit /\ f.pos_valid = FALSE /\ f.fd = 0
         /\ sess[1].reply.seq = 2 % SeqLimit /\ sess[1].files[0] = 0
         /\ \A s \in Slots : sess[s].in_use => s = 1
         /\ vfs[0].path = Remote /\ vfs[0].append = FALSE /\ fs[Remote].kind = "file"
<1>1. PICK a \in OpenArgs :
        LET size == Len(Card[a.path].data)
            new == [Blank EXCEPT !.in_use = TRUE, !.sid = 1, !.peer = 1, !.files[0] = 0,
                           !.reply = [seq |-> 2 % SeqLimit, cmd |-> "LSEEK",
                                      body |-> [status |-> "OK", pos |-> size]]]
        IN  /\ ~a.create /\ Card[a.path].kind = "file"
            /\ sess = [s \in Slots |-> IF s # 1 THEN Blank ELSE new]
            /\ vfs = [fd \in Fds |-> IF fd # 0 THEN Unused ELSE
                        [Descriptor(a.path, OpenFlags(a)) EXCEPT !.pos = size]]
            /\ f = [NoFile EXCEPT !.sock = 1, !.conn = 1, !.seq = 3 % SeqLimit, !.size = size]
  BY Zenon DEF FileOpen
<1> DEFINE size == Len(Card[a.path].data)
           new == [Blank EXCEPT !.in_use = TRUE, !.sid = 1, !.peer = 1, !.files[0] = 0,
                          !.reply = [seq |-> 2 % SeqLimit, cmd |-> "LSEEK",
                                     body |-> [status |-> "OK", pos |-> size]]]
           open == [Descriptor(a.path, OpenFlags(a)) EXCEPT !.pos = size]
<1>2. a.path = Remote /\ fs = Card /\ 1 \in Slots /\ 0 \in Fds /\ 0 \in FileSlots
  BY DeviceAssumption, ServerAssumption DEF Init
<1>3. /\ f = [NoFile EXCEPT !.sock = 1, !.conn = 1, !.seq = 3 % SeqLimit, !.size = size]
      /\ sess[1] = new /\ vfs[0] = open /\ \A s \in Slots \ {1} : sess[s] = Blank
  BY <1>1, <1>2 DEF size
<1> HIDE DEF size
<1>4. open.path = Remote /\ open.append = FALSE
  <2>1. "append" \notin OpenFlags(a)
    BY DEF OpenFlags
  <2>2. open.path = a.path /\ open.append = ("append" \in OpenFlags(a))
    BY DEF Descriptor
  <2>3. ("append" \in OpenFlags(a)) = FALSE
    BY <2>1
  <2> HIDE DEF open
  <2>4. QED
    BY <1>2, <2>2, <2>3
<1>5. new.reply.seq = 2 % SeqLimit /\ new.files[0] = 0
  BY <1>2 DEF Blank
<1>6. f.sock = 1 /\ f.conn = 1 /\ f.seq = 3 % SeqLimit /\ f.pos_valid = FALSE /\ f.fd = 0
  BY <1>3 DEF NoFile
<1> HIDE DEF new, open
<1>7. \A s \in Slots : sess[s].in_use => s = 1
  BY <1>3, BlankOK
<1>8. QED
  BY <1>1, <1>2, <1>3, <1>4, <1>5, <1>6, <1>7

LEMMA FreshInit == Init => FreshInv
<1> SUFFICES ASSUME Init PROVE FreshInv
  OBVIOUS
<1>1. call = NoCall /\ inbox = <<>> /\ outbox = <<>> /\ Range(<<>>) = {} /\ Len(<<>>) = 0 /\ DOMAIN <<>> = {}
  BY DEF Init, ClientInit, NetInit, Range
<1>2. call.at = "idle" /\ ~Calling
  BY <1>1 DEF Calling, NoCall
<1>3. Stream1
  BY <1>1 DEF Stream1
<1>4. CASE Idle
  BY <1>2, <1>3, <1>4 DEF FreshInv, Live, Idle, NoFile, Open
<1>5. CASE FileOpen
  <2>1. f.seq = 3 % SeqLimit /\ sess[1].reply.seq = 2 % SeqLimit /\ \A s \in Slots : sess[s].in_use => s = 1
    BY <1>5, OpenInit
  <2>2. 2 % SeqLimit # 3 % SeqLimit
    BY SeqNumbers
  <2>3. Cached
    BY <2>1, <2>2 DEF Cached, Mine
  <2>4. Mounting /\ Mounted /\ Replies /\ Ordered
    BY <1>1, <1>2 DEF Mounting, Mounted, Replies, Ordered
  <2>5. QED
    BY <1>3, <2>3, <2>4 DEF FreshInv, Going
<1>6. QED
  BY <1>4, <1>5 DEF Init

-----------------------------------------------------------------------------
(* What the requests of a transfer do to the descriptors of the session.   *)
Untouched(slot, o) ==
    o.s.files = sess[slot].files /\ o.vfs = vfs /\ o.fs = fs /\ o.body.status # "OK"
Moves(slot, n, o, pos) ==
    /\ n \in FileSlots /\ sess[slot].files[n] \in Fds /\ DescriptorOK(vfs[sess[slot].files[n]])
    /\ o.s.files = sess[slot].files /\ o.vfs = [vfs EXCEPT ![sess[slot].files[n]].pos = pos]

ServerReady == TableOK(sess) /\ VfsOK(vfs) /\ Owned(sess, vfs) /\ CardOK(fs)

LEMMA Ready ==
  ASSUME Sessions
  PROVE  ServerReady
BY DEF Sessions, ServerInv, Shapes, ServerReady

LEMMA FailsUntouched ==
  ASSUME NEW slot, NEW st, st # "OK", NEW o \in Fails(sess[slot], st)
  PROVE  Untouched(slot, o)
BY DEF Fails, Outcome, Status, Untouched

LEMMA FaultsUntouched ==
  ASSUME NEW slot, NEW o \in Faults(sess[slot])
  PROVE  Untouched(slot, o)
BY FailsUntouched DEF Faults

LEMMA FileNumber ==
  ASSUME ServerReady, NEW slot \in Slots, NEW n, FdOf(sess[slot], n) # NoFd
  PROVE  /\ n \in FileSlots /\ FdOf(sess[slot], n) = sess[slot].files[n]
         /\ sess[slot].files[n] \in Fds /\ DescriptorOK(vfs[sess[slot].files[n]])
BY HeldDescriptor DEF ServerReady

(* A cell of a file that is read with one READ. *)
LEMMA OneCell ==
  ASSUME NEW q \in Seq(Nat), NEW pos \in Nat,
         NEW data, data = SubSeq(q, pos + 1, IF pos + Chunk < Len(q) THEN pos + Chunk ELSE Len(q)),
         data # <<>>
  PROVE  pos < Len(q) /\ Len(data) = 1 /\ data[1] = q[pos + 1]
<1>1. PICK n \in Nat, i \in Nat : n = Len(q) /\ i = pos + 1
  BY LenProperties
<1>2. pos < n
  <2>1. CASE pos >= n
    <3>1. PICK end : end = IF pos + Chunk < n THEN pos + Chunk ELSE n
      OBVIOUS
    <3>2. end = n /\ i > end /\ data = SubSeq(q, i, end)
      BY <1>1, <2>1, <3>1 DEF Chunk
    <3>3. SubSeq(q, i, end) = <<>>
      BY <1>1, <3>2
    <3>4. QED
      BY <3>2, <3>3
  <2>2. QED
    BY <1>1, <2>1
<1>3. i <= n /\ (IF pos + Chunk < n THEN pos + Chunk ELSE n) = i
  BY <1>1, <1>2 DEF Chunk
<1>4. data = SubSeq(q, i, i)
  BY <1>1, <1>3
<1>5. Len(SubSeq(q, i, i)) = i - i + 1 /\ SubSeq(q, i, i)[1] = q[i + 1 - 1]
  <2>1. i \in 1 .. n /\ i <= i + 1
    BY <1>1, <1>3
  <2>2. i \in 1 .. Len(q) + 1 /\ i \in i - 1 .. Len(q) /\ i - 1 \in Nat
    BY <1>1, <2>1
  <2>3. 1 \in 1 .. (i - i + 1)
    BY <2>1
  <2>4. QED
    BY <2>2, <2>3, SubSeqProperties
<1>6. i - i + 1 = 1 /\ i + 1 - 1 = i
  OBVIOUS
<1>7. data[1] = q[i] /\ Len(data) = 1
  BY <1>4, <1>5, <1>6
<1>8. QED
  BY <1>1, <1>2, <1>7

ReadsCell(slot, n, o, d) ==
    /\ Moves(slot, n, o, d.pos + 1) /\ o.fs = fs
    /\ d.pos < Len(fs[d.path].data) /\ o.body.data[1] = fs[d.path].data[d.pos + 1]
WritesCell(slot, n, o, d, x) ==
    LET pos == IF d.append THEN Len(fs[d.path].data) ELSE d.pos
    IN  /\ Moves(slot, n, o, pos + 1)
        /\ o.fs = IF fs[d.path].kind = "file" THEN [fs EXCEPT ![d.path].data = Put(@, pos, x)] ELSE fs
Seeks(slot, n, o, whence, off) ==
    \E pos : Moves(slot, n, o, pos) /\ o.fs = fs /\ (whence = "SET" => pos = 0 + off)

LEMMA ReadMoves ==
  ASSUME ServerReady, NEW slot \in Slots, NEW m, NEW d, d = vfs[FdOf(sess[slot], m.fd)],
         NEW o \in h_read(sess[slot], m)
  PROVE  Untouched(slot, o) \/ ReadsCell(slot, m.fd, o, d)
<1>0. PICK fd : fd = FdOf(sess[slot], m.fd)
  OBVIOUS
<1>a. PICK q : q = fs[d.path].data
  OBVIOUS
<1> DEFINE s == sess[slot]
           data == SubSeq(q, d.pos + 1, IF d.pos + Chunk < Len(q) THEN d.pos + Chunk ELSE Len(q))
           read == Outcome(s, [vfs EXCEPT ![fd].pos = @ + Len(data)], fs,
                           [status |-> "OK", data |-> data])
<1>1. \/ o \in Fails(s, "EINVAL") \/ o \in Fails(s, "EBADF") \/ o \in Fails(s, "EACCES")
      \/ o \in Fails(s, "EOF") \/ o \in Faults(s)
      \/ fd # NoFd /\ data # <<>> /\ o = read
  BY <1>0, <1>a, Zenon DEF h_read
<1>2. CASE fd # NoFd /\ data # <<>> /\ o = read
  <2>1. m.fd \in FileSlots /\ fd = sess[slot].files[m.fd] /\ fd \in Fds /\ DescriptorOK(vfs[fd]) /\ d = vfs[fd]
    BY <1>0, <1>2, FileNumber
  <2>2. d.pos \in Nat /\ d.path \in CardPaths
    BY <2>1 DEF DescriptorOK
  <2>3. q \in Seq(Nat)
    BY <1>a, <2>2, FileData DEF ServerReady
  <2>4. d.pos < Len(q) /\ Len(data) = 1 /\ data[1] = q[d.pos + 1]
    BY <1>2, <2>2, <2>3, OneCell, Zenon
  <2> HIDE DEF data
  <2>5. o.vfs = [vfs EXCEPT ![fd].pos = @ + Len(data)] /\ o.s = s /\ o.fs = fs /\ o.body.data = data
    BY <1>2 DEF Outcome
  <2>6. PICK pos : pos = d.pos + 1
    OBVIOUS
  <2>7. o.vfs = [vfs EXCEPT ![fd].pos = pos] /\ o.s.files = sess[slot].files
    <3>1. vfs[fd].pos + Len(data) = pos
      BY <2>1, <2>4, <2>6
    <3>2. QED
      BY <2>5, <3>1
  <2>8. Moves(slot, m.fd, o, pos)
    BY <2>1, <2>7 DEF Moves
  <2>9. QED
    BY <1>a, <2>4, <2>5, <2>6, <2>8 DEF ReadsCell
<1>3. QED
  BY <1>1, <1>2, FailsUntouched, FaultsUntouched

LEMMA WriteMoves ==
  ASSUME ServerReady, NEW slot \in Slots, NEW m, NEW d, d = vfs[FdOf(sess[slot], m.fd)],
         NEW o \in h_write(sess[slot], m)
  PROVE  Untouched(slot, o) \/ WritesCell(slot, m.fd, o, d, m.data)
<1>0. PICK fd : fd = FdOf(sess[slot], m.fd)
  OBVIOUS
<1>a. PICK pos : pos = IF d.append THEN Len(fs[d.path].data) ELSE d.pos
  OBVIOUS
<1> DEFINE s == sess[slot]
           card == IF fs[d.path].kind = "file"
                   THEN [fs EXCEPT ![d.path].data = Put(@, pos, m.data)] ELSE fs
           written == Outcome(s, [vfs EXCEPT ![fd].pos = pos + 1], card, [status |-> "OK", n |-> 1])
<1>1. \/ o \in Fails(s, "EINVAL") \/ o \in Fails(s, "EBADF") \/ o \in Fails(s, "EACCES")
      \/ o \in Fails(s, "ENOSPC") \/ o \in Faults(s)
      \/ fd # NoFd /\ o = written
  BY <1>0, <1>a, Zenon DEF h_write
<1>2. CASE fd # NoFd /\ o = written
  <2>1. m.fd \in FileSlots /\ fd = sess[slot].files[m.fd] /\ fd \in Fds /\ DescriptorOK(vfs[fd])
    BY <1>0, <1>2, FileNumber
  <2> HIDE DEF card
  <2>2. o.s = s /\ o.vfs = [vfs EXCEPT ![fd].pos = pos + 1] /\ o.fs = card
    BY <1>2 DEF Outcome
  <2>3. PICK next : next = pos + 1
    OBVIOUS
  <2>4. o.vfs = [vfs EXCEPT ![fd].pos = next] /\ o.s.files = sess[slot].files
    BY <2>2, <2>3
  <2>5. Moves(slot, m.fd, o, next)
    BY <2>1, <2>4 DEF Moves
  <2>6. QED
    BY <1>a, <2>2, <2>3, <2>5 DEF card, WritesCell
<1>3. QED
  BY <1>1, <1>2, FailsUntouched, FaultsUntouched

LEMMA SeekMoves ==
  ASSUME ServerReady, NEW slot \in Slots, NEW m, NEW o \in h_lseek(sess[slot], m)
  PROVE  Untouched(slot, o) \/ Seeks(slot, m.fd, o, m.whence, m.off)
<1>0. PICK fd : fd = FdOf(sess[slot], m.fd)
  OBVIOUS
<1> DEFINE s == sess[slot]
           base == [SET |-> 0, CUR |-> vfs[fd].pos, END |-> Len(fs[vfs[fd].path].data)]
<1>a. PICK pos : pos = base[m.whence] + m.off
  OBVIOUS
<1> DEFINE moved == Outcome(s, [vfs EXCEPT ![fd].pos = pos], fs, [status |-> "OK", pos |-> pos])
<1>1. \/ o \in Fails(s, "EINVAL") \/ o \in Fails(s, "EBADF")
      \/ fd # NoFd /\ o = moved
  BY <1>0, <1>a, Zenon DEF h_lseek
<1>2. CASE fd # NoFd /\ o = moved
  <2>1. m.fd \in FileSlots /\ fd = sess[slot].files[m.fd] /\ fd \in Fds /\ DescriptorOK(vfs[fd])
    BY <1>0, <1>2, FileNumber
  <2>2. base.SET = 0
    OBVIOUS
  <2>3. m.whence = "SET" => pos = 0 + m.off
    BY <1>a, <2>2
  <2>4. o.s = s /\ o.vfs = [vfs EXCEPT ![fd].pos = pos] /\ o.fs = fs
    BY <1>2 DEF Outcome
  <2>5. Moves(slot, m.fd, o, pos)
    BY <2>1, <2>4 DEF Moves
  <2>6. QED
    BY <2>3, <2>4, <2>5 DEF Seeks
<1>3. QED
  BY <1>1, <1>2, FailsUntouched

LEMMA MovesIs ==
  ASSUME ServerReady, NEW slot \in Slots, NEW n, NEW o, NEW pos, Moves(slot, n, o, pos)
  PROVE  /\ o.s.files = sess[slot].files /\ o.vfs[sess[slot].files[n]].pos = pos
         /\ \A x \in Fds : o.vfs[x].path = vfs[x].path /\ o.vfs[x].append = vfs[x].append
<1>1. PICK fd : fd = sess[slot].files[n]
  OBVIOUS
<1>2. /\ o.s.files = sess[slot].files /\ o.vfs = [vfs EXCEPT ![fd].pos = pos] /\ fd \in Fds /\ DOMAIN vfs = Fds
      /\ DOMAIN vfs[fd] = {"path", "pos", "mode", "append"}
  BY <1>1 DEF Moves, ServerReady, VfsOK, DescriptorOK
<1>3. o.vfs[fd] = [vfs[fd] EXCEPT !.pos = pos] /\ \A x \in Fds \ {fd} : o.vfs[x] = vfs[x]
  BY <1>2
<1>4. o.vfs[fd].pos = pos /\ o.vfs[fd].path = vfs[fd].path /\ o.vfs[fd].append = vfs[fd].append
  BY <1>2, <1>3
<1>5. QED
  BY <1>1, <1>2, <1>3, <1>4

(* The handler of the command. *)
LEMMA RunsHandler ==
  ASSUME NEW slot, NEW m, NEW o, Runs(m, slot, o)
  PROVE  /\ m.cmd = "OPEN" => o \in h_open(sess[slot], m)
         /\ m.cmd = "READ" => o \in h_read(sess[slot], m)
         /\ m.cmd = "WRITE" => o \in h_write(sess[slot], m)
         /\ m.cmd = "LSEEK" => o \in h_lseek(sess[slot], m)
<1>1. m.cmd \in {"OPEN", "READ", "WRITE", "LSEEK"} => o \in Handle(sess[slot], m)
  BY DEF Runs, Refuses
<1>2. /\ m.cmd = "OPEN" => Handle(sess[slot], m) = h_open(sess[slot], m)
      /\ m.cmd = "READ" => Handle(sess[slot], m) = h_read(sess[slot], m)
      /\ m.cmd = "WRITE" => Handle(sess[slot], m) = h_write(sess[slot], m)
      /\ m.cmd = "LSEEK" => Handle(sess[slot], m) = h_lseek(sess[slot], m)
  BY DEF Handle
<1>3. QED
  BY <1>1, <1>2

(* A transfer keeps the files of the session open. *)
LEMMA TransferEffect ==
  ASSUME Sessions, NEW slot \in Slots, NEW m, NEW o, Runs(m, slot, o), m.cmd \in {"READ", "WRITE", "LSEEK"}
  PROVE  /\ sess'[slot].files = sess[slot].files /\ o.s.files = sess[slot].files
         /\ \A x \in Fds : vfs'[x].path = vfs[x].path /\ vfs'[x].append = vfs[x].append
         /\ fs'[Remote].kind = fs[Remote].kind
<1>1. ServerReady
  BY Ready
<1>2. PICK d : d = vfs[FdOf(sess[slot], m.fd)]
  OBVIOUS
<1>3. \/ Untouched(slot, o) \/ ReadsCell(slot, m.fd, o, d) \/ WritesCell(slot, m.fd, o, d, m.data)
      \/ Seeks(slot, m.fd, o, m.whence, m.off)
  BY <1>1, <1>2, RunsHandler, ReadMoves, WriteMoves, SeekMoves
<1>4. Untouched(slot, o) \/ \E pos : Moves(slot, m.fd, o, pos)
  BY <1>3 DEF ReadsCell, WritesCell, Seeks
<1>5. /\ o.s.files = sess[slot].files
      /\ \A x \in Fds : o.vfs[x].path = vfs[x].path /\ o.vfs[x].append = vfs[x].append
  BY <1>1, <1>4, MovesIs DEF Untouched
<1>6. fs' = o.fs /\ sess'[slot].files = o.s.files /\ \A fd \in Fds : vfs'[fd] = o.vfs[fd]
  BY DEF Runs, Finished
<1>7. o.fs[Remote].kind = fs[Remote].kind
  <2>1. CASE o.fs = fs
    BY <2>1
  <2>2. CASE o.fs # fs
    <3>1. WritesCell(slot, m.fd, o, d, m.data)
      BY <1>3, <2>2 DEF Untouched, ReadsCell, Seeks
    <3>2. PICK p, pos : p = d.path /\ o.fs = [fs EXCEPT ![p].data = Put(@, pos, m.data)]
      BY <2>2, <3>1 DEF WritesCell
    <3>3. Remote \in CardPaths /\ fs \in [CardPaths -> Nodes] /\ DOMAIN fs[Remote] = {"kind", "data"}
      BY <1>1, DeviceAssumption DEF ServerReady, CardOK, Nodes
    <3>4. QED
      BY <3>2, <3>3
  <2>3. QED
    BY <2>1, <2>2
<1>8. QED
  BY <1>5, <1>6, <1>7

LEMMA FileStays ==
  ASSUME Sessions, NEW slot \in Slots, NEW m, NEW o, Runs(m, slot, o), m.cmd \in {"READ", "WRITE", "LSEEK"},
         NEW n, HasFile(slot, n)
  PROVE  HasFile(slot, n)'
BY TransferEffect DEF HasFile

(* An OPEN gives a descriptor of the file. *)
LEMMA OpenGives ==
  ASSUME ServerReady, NEW slot \in Slots, sess[slot].root = <<>>, NEW m, m.path = Remote, "append" \notin m.flags,
         NEW o \in h_open(sess[slot], m), o.body.status = "OK"
  PROVE  /\ o.body.fd \in FileSlots /\ o.s.files[o.body.fd] \in Fds
         /\ o.vfs[o.s.files[o.body.fd]].path = Remote /\ o.vfs[o.s.files[o.body.fd]].append = FALSE
         /\ o.fs[Remote].kind = "file"
<1> DEFINE s == sess[slot]
           i == Lowest(FreeFileSlots(s))
           free == {x \in Fds : ~IsOpen(vfs, x)}
           fd == Lowest(free)
           opened == Outcome([s EXCEPT !.files[i] = fd], [vfs EXCEPT ![fd] = Descriptor(Remote, m.flags)],
                             Opened(Remote, m.flags), [status |-> "OK", fd |-> i])
<1>1. resolve_path(s, m.path) = Remote /\ Remote \in CardPaths /\ Remote # <<>>
  <2>1. Remote \in Seq(STRING) /\ Remote \in CardPaths /\ Remote # <<>>
    BY DeviceAssumption, CardAssumption DEF Paths
  <2>2. <<>> \o Remote = Remote
    BY <2>1
  <2>3. QED
    BY <2>1, <2>2 DEF resolve_path
<1>2. /\ FreeFileSlots(s) # {} /\ CanOpen(Remote, m.flags) /\ free # {} /\ o = opened
  <2>1. \/ Untouched(slot, o)
        \/ /\ FreeFileSlots(s) # {} /\ CanOpen(Remote, m.flags) /\ ~(\A x \in Fds : IsOpen(vfs, x)) /\ o = opened
    <3>1. \/ o \in Fails(s, "EINVAL") \/ o \in Fails(s, "EMFILE") \/ o \in Fails(s, "EBUSY")
          \/ o \in Fails(s, IF Kind(Remote) = "absent" THEN "ENOENT" ELSE "EACCES") \/ o \in Faults(s)
          \/ /\ FreeFileSlots(s) # {} /\ CanOpen(Remote, m.flags) /\ ~(\A x \in Fds : IsOpen(vfs, x)) /\ o = opened
      BY <1>1, Zenon DEF h_open
    <3>2. (IF Kind(Remote) = "absent" THEN "ENOENT" ELSE "EACCES") # "OK"
      OBVIOUS
    <3> HIDE DEF opened
    <3>3. QED
      BY <3>1, <3>2, FailsUntouched, FaultsUntouched
  <2> HIDE DEF opened
  <2>2. QED
    BY <2>1 DEF Untouched
<1>3. i \in FileSlots /\ fd \in Fds
  BY <1>2, LowestIn, ServerAssumption DEF FreeFileSlots
<1>4. DOMAIN s = {"in_use", "sid", "peer", "root", "files", "dirs", "reply"}
      /\ s.files \in [FileSlots -> Fds \union {NoFd}] /\ DOMAIN vfs = Fds
  BY DEF ServerReady, TableOK, SessionOK, VfsOK
<1> HIDE DEF i, fd, free
<1>5. o.body.fd = i /\ o.s.files[i] = fd
  BY <1>2, <1>3, <1>4 DEF Outcome
<1>6. o.vfs[fd].path = Remote /\ o.vfs[fd].append = FALSE
  <2>1. o.vfs[fd] = Descriptor(Remote, m.flags)
    BY <1>2, <1>3, <1>4 DEF Outcome
  <2>2. ("append" \in m.flags) = FALSE
    OBVIOUS
  <2>3. Descriptor(Remote, m.flags).path = Remote
        /\ Descriptor(Remote, m.flags).append = ("append" \in m.flags)
    BY DEF Descriptor
  <2>4. QED
    BY <2>1, <2>2, <2>3
<1>7. o.fs[Remote].kind = "file"
  <2>1. o.fs = Opened(Remote, m.flags)
    BY <1>2 DEF Outcome
  <2>2. fs \in [CardPaths -> Nodes]
    BY DEF ServerReady, CardOK
  <2>3. CASE Kind(Remote) = "absent" \/ "trunc" \in m.flags
    BY <1>1, <2>1, <2>2, <2>3 DEF Opened, File
  <2>4. CASE ~(Kind(Remote) = "absent" \/ "trunc" \in m.flags)
    BY <1>1, <1>2, <2>1, <2>4 DEF Opened, CanOpen, Kind
  <2>5. QED
    BY <2>3, <2>4
<1>8. QED
  BY <1>3, <1>5, <1>6, <1>7

(* What the client asks for in the steps of a transfer. *)
LEMMA RequestFields ==
  ASSUME ClientOK, Calling
  PROVE  /\ call.at = "open" => /\ cmd.m.cmd = "OPEN" /\ cmd.m.path = Remote
                                /\ "append" \notin cmd.m.flags
         /\ call.at = "size" => cmd.m.cmd = "LSEEK"
         /\ call.at = "seek" => /\ cmd.m.cmd = "LSEEK" /\ cmd.m.fd = f.fd
                                /\ cmd.m.whence = "SET" /\ cmd.m.off = call.off
         /\ call.at = "read" => cmd.m.cmd = "READ" /\ cmd.m.fd = f.fd
         /\ call.at = "write" => /\ cmd.m.cmd = "WRITE" /\ cmd.m.fd = f.fd
                                 /\ cmd.m.data = Head(call.left)
<1>1. CallOK(call) /\ cmd.m = Message(f, call, sent)
  BY DEF ClientOK
<1> DEFINE r == Asked(f, call)
           header == [peer |-> f.sock, tcp |-> f.tcp, sid |-> f.conn, seq |-> f.seq,
                      id |-> sent, wf |-> TRUE]
<1>2. cmd.m = WithHeader(header, r)
  BY <1>1 DEF Message
<1>3. DOMAIN header = {"peer", "tcp", "sid", "seq", "id", "wf"}
  OBVIOUS
<1> HIDE DEF header, r
<1>4. \A x \in {"cmd", "path", "flags", "fd", "whence", "off", "data"} : x \in DOMAIN r => cmd.m[x] = r[x]
  BY <1>2, <1>3 DEF WithHeader
<1>5. ASSUME call.at = "open"
      PROVE  cmd.m.cmd = "OPEN" /\ cmd.m.path = Remote /\ "append" \notin cmd.m.flags
  <2>1. r = [cmd |-> "OPEN", path |-> call.arg.path, flags |-> OpenFlags(call.arg)]
    BY <1>5, AskedIs DEF r
  <2>2. call.arg \in OpenArgs
    BY <1>1, <1>5 DEF CallOK, ListSteps
  <2>3. call.arg.path = Remote /\ "append" \notin OpenFlags(call.arg)
    BY <2>2, DeviceAssumption DEF OpenFlags
  <2>4. cmd.m.cmd = r.cmd /\ cmd.m.path = r.path /\ cmd.m.flags = r.flags
    BY <1>4, <2>1
  <2>5. QED
    BY <2>1, <2>3, <2>4
<1>6. ASSUME call.at = "size" PROVE cmd.m.cmd = "LSEEK"
  <2>1. r = [cmd |-> "LSEEK", fd |-> f.fd, whence |-> "END", off |-> 0]
    BY <1>6, AskedIs DEF r
  <2>2. QED
    BY <1>4, <2>1
<1>7. ASSUME call.at = "seek"
      PROVE  cmd.m.cmd = "LSEEK" /\ cmd.m.fd = f.fd /\ cmd.m.whence = "SET" /\ cmd.m.off = call.off
  <2>1. r = [cmd |-> "LSEEK", fd |-> f.fd, whence |-> "SET", off |-> call.off]
    BY <1>7, AskedIs DEF r
  <2>2. cmd.m.cmd = r.cmd /\ cmd.m.fd = r.fd /\ cmd.m.whence = r.whence /\ cmd.m.off = r.off
    BY <1>4, <2>1
  <2>3. QED
    BY <2>1, <2>2
<1>8. ASSUME call.at = "read" PROVE cmd.m.cmd = "READ" /\ cmd.m.fd = f.fd
  <2>1. r = [cmd |-> "READ", fd |-> f.fd]
    BY <1>8, AskedIs DEF r
  <2>2. cmd.m.cmd = r.cmd /\ cmd.m.fd = r.fd
    BY <1>4, <2>1
  <2>3. QED
    BY <2>1, <2>2
<1>9. ASSUME call.at = "write"
      PROVE  cmd.m.cmd = "WRITE" /\ cmd.m.fd = f.fd /\ cmd.m.data = Head(call.left)
  <2>1. r = [cmd |-> "WRITE", fd |-> f.fd, data |-> Head(call.left)]
    BY <1>9, AskedIs DEF r
  <2>2. cmd.m.cmd = r.cmd /\ cmd.m.fd = r.fd /\ cmd.m.data = r.data
    BY <1>4, <2>1
  <2>3. QED
    BY <2>1, <2>2
<1>10. QED
  BY <1>5, <1>6, <1>7, <1>8, <1>9

LEMMA PutIs ==
  ASSUME NEW q \in Seq(Nat), NEW i \in Nat, NEW x
  PROVE  /\ Put(q, i, x)[i + 1] = x /\ i < Len(Put(q, i, x))
         /\ \A j \in 1 .. Len(q) : j <= Len(Put(q, i, x)) /\ (j <= i => Put(q, i, x)[j] = q[j])
<1> DEFINE n == IF i + 1 > Len(q) THEN i + 1 ELSE Len(q)
<1>1. Len(q) \in Nat
  BY LenProperties
<1>2. n \in Nat /\ n >= Len(q) /\ i + 1 <= n
  BY <1>1
<1> HIDE DEF n
<1>3. Put(q, i, x) = [j \in 1 .. n |-> IF j = i + 1 THEN x ELSE IF j <= Len(q) THEN q[j] ELSE 0]
  BY DEF Put, n
<1> DEFINE p == Put(q, i, x)
<1> HIDE DEF p
<1>4. p = [j \in 1 .. n |-> IF j = i + 1 THEN x ELSE IF j <= Len(q) THEN q[j] ELSE 0]
  BY <1>3 DEF p
<1>5. DOMAIN p = 1 .. n /\ \E S : p \in Seq(S)
  <2>1. p \in [1 .. n -> Range(p)]
    BY <1>4 DEF Range
  <2>2. p \in Seq(Range(p))
    BY <1>2, <2>1, SeqDef
  <2>3. QED
    BY <1>4, <2>2
<1>6. Len(p) = n
  BY <1>2, <1>5, LenProperties
<1>7. i + 1 \in 1 .. n /\ \A j \in 1 .. Len(q) : j \in 1 .. n
  BY <1>1, <1>2
<1>8. p[i + 1] = x /\ \A j \in 1 .. Len(q) : j <= i => p[j] = q[j]
  BY <1>1, <1>4, <1>7
<1>9. QED
  BY <1>1, <1>2, <1>6, <1>8 DEF p

(* A cell that is read or written at the offset of the call. *)
LEMMA RunsCell ==
  ASSUME Sessions, NEW slot \in Slots, NEW m, NEW o, Runs(m, slot, o), f' = f, call' = call,
         call.at \in {"read", "write"}, m.fd = f.fd, HasFile(slot, f.fd),
         m.cmd = IF call.at = "read" THEN "READ" ELSE "WRITE",
         call.at = "write" => m.data = Head(call.left), call.off \in Nat, Pos(slot) = call.off
  PROVE  /\ o.body.status = "OK" =>
               /\ Pos(slot)' = call.off + 1 /\ call.off < Len(Data')
               /\ call.at = "read" => o.body.data[1] = Data'[call.off + 1]
               /\ call.at = "write" => Head(call.left) = Data'[call.off + 1]
         /\ \A j \in 1 .. Len(Data) : j <= Len(Data') /\ (j <= call.off => Data'[j] = Data[j])
<1>1. ServerReady
  BY Ready
<1>2. PICK fd : fd = sess[slot].files[f.fd]
  OBVIOUS
<1>3. PICK d : d = vfs[fd]
  OBVIOUS
<1>4. /\ m.fd = f.fd /\ f.fd \in FileSlots /\ fd \in Fds /\ d.path = Remote /\ d.append = FALSE
      /\ fs[Remote].kind = "file" /\ d.pos = call.off /\ FdOf(sess[slot], m.fd) = fd
  BY <1>2, <1>3 DEF HasFile, Pos, FdOf
<1>5. /\ fs' = o.fs /\ vfs'[fd] = o.vfs[fd] /\ sess'[slot].files = o.s.files
  <2>1. m.cmd # "UMOUNT"
    OBVIOUS
  <2>2. QED
    BY <1>4, <2>1 DEF Runs, Finished
<1>6. \A pos : Moves(slot, m.fd, o, pos) => Pos(slot)' = pos
  <2>1. ASSUME NEW pos, Moves(slot, m.fd, o, pos) PROVE Pos(slot)' = pos
    <3>1. o.s.files = sess[slot].files /\ o.vfs[fd].pos = pos
      BY <1>1, <1>2, <1>4, <2>1, MovesIs
    <3>2. sess'[slot].files[f'.fd] = fd
      BY <1>2, <1>5, <3>1
    <3>3. QED
      BY <1>5, <3>1, <3>2 DEF Pos
  <2>2. QED
    BY <2>1
<1>7. Data \in Seq(Nat) /\ Len(Data) \in Nat /\ fs \in [CardPaths -> Nodes] /\ Remote \in CardPaths
  BY <1>1, FileData, DeviceAssumption DEF ServerReady, Data, CardOK
<1>8. CASE Untouched(slot, o)
  <2>1. fs' = fs /\ o.body.status # "OK"
    BY <1>5, <1>8 DEF Untouched
  <2>2. QED
    BY <1>7, <2>1 DEF Data
<1>9. CASE call.at = "read"
  <2>1. Untouched(slot, o) \/ ReadsCell(slot, m.fd, o, d)
    BY <1>1, <1>3, <1>4, <1>9, RunsHandler, ReadMoves
  <2>2. CASE ReadsCell(slot, m.fd, o, d)
    <3>1. fs' = fs /\ Pos(slot)' = call.off + 1
      BY <1>4, <1>5, <1>6, <2>2 DEF ReadsCell
    <3>2. call.off < Len(Data) /\ o.body.data[1] = Data[call.off + 1]
      BY <1>4, <2>2 DEF ReadsCell, Data
    <3>3. Data' = Data
      BY <3>1 DEF Data
    <3>4. QED
      BY <1>7, <1>9, <3>1, <3>2, <3>3
  <2>3. QED
    BY <1>8, <2>1, <2>2
<1>10. CASE call.at = "write"
  <2>1. Untouched(slot, o) \/ WritesCell(slot, m.fd, o, d, m.data)
    BY <1>1, <1>3, <1>4, <1>10, RunsHandler, WriteMoves
  <2>2. CASE WritesCell(slot, m.fd, o, d, m.data)
    <3>1. /\ Moves(slot, m.fd, o, call.off + 1)
          /\ o.fs = [fs EXCEPT ![Remote].data = Put(@, call.off, m.data)]
      BY <1>4, <2>2 DEF WritesCell
    <3>2. Data' = Put(Data, call.off, Head(call.left))
      <4>1. DOMAIN fs[Remote] = {"kind", "data"}
        BY <1>7 DEF Nodes
      <4>2. QED
        BY <1>5, <1>7, <1>10, <3>1, <4>1 DEF Data
    <3>3. Pos(slot)' = call.off + 1
      BY <1>6, <3>1
    <3>4. QED
      BY <1>7, <1>10, <3>2, <3>3, PutIs
  <2>3. QED
    BY <1>8, <2>1, <2>2
<1>11. QED
  BY <1>9, <1>10

(* The descriptor after a seek to the offset of the call. *)
LEMMA RunsSeek ==
  ASSUME Sessions, NEW slot \in Slots, NEW m, NEW o, Runs(m, slot, o), f' = f, call' = call,
         m.cmd = "LSEEK", m.fd = f.fd, m.whence = "SET", m.off = call.off, call.off \in Nat,
         HasFile(slot, f.fd), o.body.status = "OK"
  PROVE  Pos(slot)' = call.off
<1>1. ServerReady
  BY Ready
<1>2. Seeks(slot, m.fd, o, m.whence, m.off)
  BY <1>1, RunsHandler, SeekMoves DEF Untouched
<1>3. Moves(slot, m.fd, o, call.off)
  BY <1>2 DEF Seeks
<1>4. PICK fd : fd = sess[slot].files[f.fd]
  OBVIOUS
<1>5. fd \in Fds /\ o.s.files = sess[slot].files /\ o.vfs[fd].pos = call.off
  BY <1>1, <1>3, <1>4, MovesIs DEF HasFile
<1>6. m.cmd # "UMOUNT"
  OBVIOUS
<1>7. vfs'[fd] = o.vfs[fd] /\ sess'[slot].files = o.s.files
  BY <1>5, <1>6 DEF Runs, Finished
<1>8. sess'[slot].files[f'.fd] = fd
  BY <1>4, <1>5, <1>7
<1>9. QED
  BY <1>5, <1>7, <1>8 DEF Pos

(* The file while a request of the session is carried out. *)
LEMMA RunsPlaced ==
  ASSUME OnceInv, Going, Live, FileInv, Transferred, UNCHANGED <<f, call, cmd, sent, clean>>,
         NEW m \in Range(inbox), NEW slot \in Slots, NEW o, Runs(m, slot, o)
  PROVE  /\ \A t \in Slots : Mine(t)' => Placed(t)'
         /\ ~Calling => ~f.pos_valid
         /\ call.at \in {"read", "write"} =>
               \A j \in 1 .. Len(Data) : j <= Len(Data') /\ (j <= call.off => Data'[j] = Data[j])
<1>0. Sessions /\ ClientOK /\ Calling' = Calling
  BY DEF OnceInv, Calling
<1>a. call.at # "umount"
  BY DEF Live
<1>1. ~Executed
  BY <1>a, RunsMine
<1>2. CASE call.at = "mount"
  <2>1. \A t \in Slots : ~Mine(t)'
    BY <1>2, <1>a, RunsMine
  <2>2. Calling
    BY <1>2 DEF Calling
  <2>3. QED
    BY <1>2, <2>1, <2>2
<1>3. CASE call.at # "mount"
  <2>1. /\ (Calling /\ m = cmd.m) \/ m.cmd \in Before
        /\ Mine(slot) /\ \A t \in Slots : Mine(t)' => t = slot
        /\ sess'[slot].reply = [seq |-> m.seq, cmd |-> m.cmd, body |-> o.body]
        /\ Executed' <=> m.id = sent
    BY <1>3, <1>a, RunsMine
  <2>2. Placed(slot)
    BY <2>1 DEF FileInv
  <2>3. Calling => cmd.m.cmd \notin Before /\ cmd.m.id = sent
    BY <1>0, CommandFits
  <2>4. Calling /\ m.id = sent => m = cmd.m
    BY <2>3 DEF OnceInv, Queues, Flying
  <2>5. Done(slot)' => Executed' /\ o.body.status = "OK"
    BY <2>1 DEF Done
  <2>6. Calling => CallOK(call)
    BY <1>0 DEF ClientOK
  <2>7. CASE m.cmd \in Before
    <3>1. /\ m.cmd \in {"READ", "WRITE"} /\ (call.at = "seek" \/ (~Calling /\ ~f.pos_valid))
      BY <2>7 DEF Before
    <3>2. call.at \in {"seek", "idle"}
      BY <3>1 DEF Calling
    <3>3. HasFile(slot, f.fd)
      BY <2>2, <3>2 DEF Placed, IoSteps
    <3>4. HasFile(slot, f.fd)' /\ f' = f
      BY <1>0, <3>1, <3>3, FileStays
    <3>5. Calling => ~Done(slot)'
      BY <2>1, <2>3, <2>4, <2>5, <2>7
    <3>6. Placed(slot)'
      BY <3>1, <3>2, <3>4, <3>5 DEF Placed, Calling
    <3>7. call.at \notin {"read", "write"} /\ (~Calling => ~f.pos_valid)
      BY <3>1, <3>2 DEF Calling
    <3>8. QED
      BY <2>1, <3>6, <3>7
  <2>8. CASE m.cmd \notin Before
    <3>1. Calling /\ m = cmd.m /\ m.id = sent /\ Executed'
      BY <2>1, <2>3, <2>8
    <3>2. CallOK(call) /\ call.at # "idle"
      BY <2>6, <3>1 DEF Calling
    <3>3. CASE call.at = "open"
      <4>1. m.cmd = "OPEN" /\ m.path = Remote /\ "append" \notin m.flags
        BY <1>0, <3>1, <3>3, RequestFields
      <4>2. o \in h_open(sess[slot], m) /\ sess[slot].root = <<>> /\ ServerReady
        BY <1>0, <2>1, <4>1, RunsHandler, Ready DEF Sessions, Mine
      <4>3. /\ fs' = o.fs /\ sess'[slot].files = o.s.files /\ \A x \in Fds : vfs'[x] = o.vfs[x]
            /\ sess'[slot].reply.body = o.body
        BY <2>1, <4>1 DEF Runs, Finished
      <4>4. ASSUME Done(slot)' PROVE HasFile(slot, sess[slot].reply.body.fd)'
        <5>1. o.body.status = "OK"
          BY <2>5, <4>4
        <5>2. /\ o.body.fd \in FileSlots /\ o.s.files[o.body.fd] \in Fds
              /\ o.vfs[o.s.files[o.body.fd]].path = Remote /\ o.vfs[o.s.files[o.body.fd]].append = FALSE
              /\ o.fs[Remote].kind = "file"
          BY <4>1, <4>2, <5>1, OpenGives
        <5>3. QED
          BY <4>3, <5>2 DEF HasFile
      <4>5. Placed(slot)'
        BY <3>1, <3>3, <4>4 DEF Placed, IoSteps, Calling
      <4>6. QED
        BY <2>1, <3>1, <3>3, <4>5
    <3>4. CASE call.at = "size"
      <4>1. m.cmd = "LSEEK"
        BY <1>0, <3>1, <3>4, RequestFields
      <4>2. HasFile(slot, f.fd)
        BY <2>2, <3>4 DEF Placed
      <4>3. HasFile(slot, f.fd)' /\ f' = f
        BY <1>0, <4>1, <4>2, FileStays
      <4>4. Placed(slot)'
        BY <3>1, <3>4, <4>3 DEF Placed, Calling
      <4>5. QED
        BY <2>1, <3>1, <3>4, <4>4
    <3>5. CASE call.at = "seek"
      <4>1. m.cmd = "LSEEK" /\ m.fd = f.fd /\ m.whence = "SET" /\ m.off = call.off
        BY <1>0, <3>1, <3>5, RequestFields
      <4>2. HasFile(slot, f.fd) /\ call.off \in Nat
        BY <2>2, <3>2, <3>5 DEF Placed, IoSteps, CallOK, ListSteps
      <4>3. HasFile(slot, f.fd)' /\ f' = f
        BY <1>0, <4>1, <4>2, FileStays
      <4>4. Done(slot)' => Pos(slot)' = call.off
        BY <1>0, <2>5, <4>1, <4>2, RunsSeek
      <4>5. Placed(slot)'
        BY <3>1, <3>5, <4>3, <4>4 DEF Placed, Calling
      <4>6. QED
        BY <2>1, <3>1, <3>5, <4>5
    <3>6. CASE call.at \in {"read", "write"}
      <4>1. /\ m.cmd = (IF call.at = "read" THEN "READ" ELSE "WRITE") /\ m.fd = f.fd
            /\ call.at = "write" => m.data = Head(call.left)
        BY <1>0, <3>1, <3>6, RequestFields
      <4>2. m.cmd \in {"READ", "WRITE", "LSEEK"}
        BY <4>1
      <4>3. HasFile(slot, f.fd) /\ call.off \in Nat /\ Pos(slot) = call.off
        BY <1>1, <2>2, <3>2, <3>6 DEF Placed, IoSteps, CallOK, ListSteps
      <4>4. HasFile(slot, f.fd)' /\ f' = f
        BY <1>0, <4>2, <4>3, FileStays
      <4>5. /\ o.body.status = "OK" =>
                  /\ Pos(slot)' = call.off + 1 /\ call.off < Len(Data')
                  /\ call.at = "read" => o.body.data[1] = Data'[call.off + 1]
                  /\ call.at = "write" => Head(call.left) = Data'[call.off + 1]
            /\ \A j \in 1 .. Len(Data) : j <= Len(Data') /\ (j <= call.off => Data'[j] = Data[j])
        BY <1>0, <3>6, <4>1, <4>3, RunsCell
      <4>6. sess'[slot].reply.body = o.body /\ call' = call /\ call.at # "mount" /\ call.at # "seek"
        BY <2>1, <3>6
      <4>7. Placed(slot)'
        BY <2>5, <3>1, <3>6, <4>4, <4>5, <4>6 DEF Placed, Calling
      <4>8. QED
        BY <2>1, <3>1, <4>5, <4>7
    <3>7. CASE call.at \notin {"mount", "open", "size", "idle"} \union IoSteps
      <4>1. Placed(slot)'
        BY <3>1, <3>2, <3>7 DEF Placed, IoSteps, Calling
      <4>2. call.at \notin {"read", "write"}
        BY <3>7 DEF IoSteps
      <4>3. QED
        BY <2>1, <3>1, <4>1, <4>2
    <3>8. QED
      BY <1>3, <3>2, <3>3, <3>4, <3>5, <3>6, <3>7 DEF IoSteps
  <2>9. QED
    BY <2>7, <2>8
<1>4. QED
  BY <1>2, <1>3

(* A step that leaves the client's sessions, their files and the card alone. *)
LEMMA QuietData ==
  ASSUME FileInv, TransferInv, UNCHANGED <<f, call, sent, clean, last, fs, done>>,
         \A s \in Slots : Mine(s)' => /\ Mine(s) /\ sess'[s] = sess[s]
                                      /\ \A i \in FileSlots : sess[s].files[i] \in Fds =>
                                            vfs'[sess[s].files[i]] = vfs[sess[s].files[i]]
  PROVE  FileInv' /\ TransferInv'
<1>1. Live' = Live /\ Calling' = Calling /\ Open' = Open /\ Data' = Data /\ Executed' = Executed
  BY DEF Live, Calling, Open, Data, Executed
<1>2. ASSUME Live, NEW s \in Slots, Mine(s)' PROVE Placed(s)'
  <2>1. Placed(s) /\ sess'[s] = sess[s]
    BY <1>2 DEF FileInv
  <2>2. \A i \in FileSlots : sess[s].files[i] \in Fds => vfs'[sess[s].files[i]] = vfs[sess[s].files[i]]
    BY <1>2
  <2>3. \A n : HasFile(s, n) => HasFile(s, n)'
    BY <2>1, <2>2 DEF HasFile
  <2>4. HasFile(s, f.fd) => Pos(s)' = Pos(s)
    BY <2>1, <2>2 DEF HasFile, Pos
  <2>5. Done(s)' = Done(s)
    BY <1>1, <2>1 DEF Done
  <2>6. Calling => call.at # "idle"
    BY DEF Calling
  <2>7. /\ call.at = "open" /\ Done(s) => HasFile(s, sess[s].reply.body.fd)'
        /\ call.at \in {"idle", "size"} \union IoSteps => HasFile(s, f.fd)' /\ Pos(s)' = Pos(s)
    BY <2>1, <2>3, <2>4 DEF Placed
  <2>8. ~Calling => call.at = "idle"
    BY DEF Calling
  <2>9. QED
    BY <1>1, <2>1, <2>5, <2>7, <2>8 DEF Placed, IoSteps
<1>3. FileInv'
  BY <1>1, <1>2 DEF FileInv
<1>4. TransferInv'
  BY <1>1 DEF TransferInv, Transferred, Returned, Holding
<1>5. QED
  BY <1>3, <1>4

LEMMA RunsTransfer ==
  ASSUME TransferInv, Live, OnceInv, UNCHANGED <<f, call, sent, clean, last>>,
         ~Calling => ~f.pos_valid,
         call.at \in {"read", "write"} =>
            \A j \in 1 .. Len(Data) : j <= Len(Data') /\ (j <= call.off => Data'[j] = Data[j])
  PROVE  TransferInv'
<1>1. Live' = Live /\ Calling' = Calling /\ Open' = Open
  BY DEF Live, Calling, Open
<1>2. Transferred /\ Returned
  BY DEF TransferInv
<1>3. Returned'
  BY <1>1, <1>2 DEF Returned
<1>4. Transferred'
  <2>1. CASE call.at \in {"read", "write"}
    <3>1. CallOK(call) /\ ServerReady
      <4>1. Calling /\ Sessions /\ ClientOK
        BY <2>1 DEF Calling, OnceInv
      <4>2. QED
        BY <4>1, Ready DEF ClientOK
    <3>2. call.arg \in ReadArgs \union WriteArgs
      BY <2>1, <3>1 DEF CallOK, ListSteps
    <3>3. call.arg.off \in Nat
      BY <3>2, DeviceAssumption
    <3>4. call.got \in Seq(Nat) /\ call.off = call.arg.off + Len(call.got) /\ Holding(call.got, call.arg.off)
      BY <1>2, <2>1 DEF Transferred, IoSteps
    <3>5. Data \in Seq(Nat) /\ Len(Data) \in Nat /\ Len(call.got) \in Nat
      BY <3>1, <3>4, FileData, DeviceAssumption DEF ServerReady, Data
    <3>6. PICK off \in Nat, len \in Nat, n \in Nat : off = call.arg.off /\ len = Len(call.got) /\ n = Len(Data)
      BY <3>3, <3>5
    <3>7. ASSUME NEW i \in 1 .. len PROVE off + i <= Len(Data') /\ call.got[i] = Data'[off + i]
      <4>1. off + i <= n /\ call.got[i] = Data[off + i]
        BY <3>4, <3>6 DEF Holding
      <4>2. off + i \in 1 .. n /\ off + i <= off + len
        <5>1. off + i <= n
          BY <4>1
        <5>2. QED
          BY <5>1
      <4>3. PICK j \in 1 .. n : j = off + i /\ j <= call.off
        BY <3>4, <3>6, <4>2
      <4>4. j <= Len(Data') /\ Data'[j] = Data[j]
        BY <2>1, <3>6, <4>3
      <4>5. QED
        BY <4>1, <4>3, <4>4
    <3>8. Holding(call.got, call.arg.off)'
      BY <3>6, <3>7 DEF Holding
    <3>9. QED
      BY <1>1, <1>2, <3>8 DEF Transferred
  <2>2. CASE call.at = "seek"
    <3>1. call.got = <<>>
      BY <1>2, <2>2 DEF Transferred, IoSteps
    <3>2. Holding(call.got, call.arg.off)'
      BY <3>1 DEF Holding
    <3>3. QED
      BY <1>1, <1>2, <3>2 DEF Transferred
  <2>3. QED
    BY <2>1, <2>2 DEF Transferred, IoSteps
<1>5. QED
  BY <1>1, <1>3, <1>4 DEF TransferInv

LEMMA ServerData ==
  ASSUME OnceInv, FreshInv, FileInv, TransferInv, Server
  PROVE  FileInv' /\ TransferInv'
<1>1. PICK m : m = Head(inbox)
  OBVIOUS
<1>2. inbox # <<>> /\ UNCHANGED <<f, call, cmd, last, sent, clean>>
  BY DEF Server, clientVars
<1>3. m \in Range(inbox)
  BY <1>1, <1>2, NextRequest
<1>4. Live' = Live /\ Calling' = Calling /\ Open' = Open
  BY <1>2 DEF Live, Calling, Open
<1>5. CASE ~Live
  BY <1>2, <1>4, <1>5 DEF FileInv, TransferInv
<1>6. CASE Live
  <2>1. Going /\ Transferred
    BY <1>6 DEF FreshInv, TransferInv
  <2>2. CASE Repeats(m) \/ Ignores \/ Refused(m)
    <3>1. UNCHANGED <<sess, vfs, fs, done>>
      BY <2>2 DEF Repeats, Ignores, Refused
    <3>2. \A s \in Slots : Mine(s)' => Mine(s)
      BY <1>2, <3>1 DEF Mine
    <3>3. QED
      BY <1>2, <3>1, <3>2, QuietData
  <2>3. CASE \E slot \in FreeSlots : \E s : MountsIn(m, slot, s)
    <3>1. m.cmd = "MOUNT" /\ m.id > done.id /\ fs' = fs
      BY <2>3 DEF MountsIn
    <3>2. call.at = "mount"
      BY <1>3, <2>1, <3>1, RequestGoes
    <3>3. FileInv'
      BY <1>2, <3>2 DEF FileInv, Placed, IoSteps, Calling
    <3>4. Data' = Data
      BY <3>1 DEF Data
    <3>5. TransferInv'
      BY <1>2, <1>4, <3>4 DEF TransferInv, Transferred, Returned, Holding
    <3>6. QED
      BY <3>3, <3>5
  <2>4. CASE \E slot \in Slots : \E o : Runs(m, slot, o)
    <3>1. /\ \A t \in Slots : Mine(t)' => Placed(t)'
          /\ ~Calling => ~f.pos_valid
          /\ call.at \in {"read", "write"} =>
                \A j \in 1 .. Len(Data) : j <= Len(Data') /\ (j <= call.off => Data'[j] = Data[j])
      BY <1>2, <1>3, <1>6, <2>1, <2>4, RunsPlaced
    <3>2. TransferInv'
      BY <1>2, <1>6, <3>1, RunsTransfer
    <3>3. QED
      BY <3>1, <3>2 DEF FileInv
  <2>5. QED
    BY <1>1, <2>2, <2>3, <2>4, ServerKinds
<1>7. QED
  BY <1>5, <1>6

LEMMA ReapData ==
  ASSUME OnceInv, FreshInv, FileInv, TransferInv, Reap
  PROVE  FileInv' /\ TransferInv'
<1>1. /\ vfs' = CloseAll(vfs, UNION {HeldBy(sess[s]) : s \in reap_idle})
      /\ sess' = free_sessions(sess, reap_idle) /\ reap_idle \subseteq Slots
      /\ UNCHANGED <<f, call, sent, clean, last, fs, done>>
  BY DEF Reap, ReapIdle, clientVars, reap_idle
<1>2. Owned(sess, vfs)
  BY Ready DEF OnceInv, ServerReady
<1>3. ASSUME NEW s \in Slots, Mine(s)'
      PROVE  /\ Mine(s) /\ sess'[s] = sess[s]
             /\ \A i \in FileSlots : sess[s].files[i] \in Fds => vfs'[sess[s].files[i]] = vfs[sess[s].files[i]]
  <2>1. Mine(s) /\ sess'[s] = sess[s]
    BY <1>3, ReapFresh
  <2>2. s \notin reap_idle
    BY <1>1, <1>3, BlankOK DEF Mine, free_sessions
  <2>3. ASSUME NEW i \in FileSlots, sess[s].files[i] \in Fds
        PROVE  vfs'[sess[s].files[i]] = vfs[sess[s].files[i]]
    <3>1. \A r \in reap_idle : sess[s].files[i] \notin HeldBy(sess[r])
      BY <1>1, <1>2, <2>2, <2>3 DEF HeldBy, Owned, Holds
    <3>2. QED
      BY <1>1, <2>3, <3>1 DEF CloseAll
  <2>4. QED
    BY <2>1, <2>3
<1>4. QED
  BY <1>1, <1>3, QuietData

LEMMA SameData ==
  ASSUME FileInv, TransferInv, UNCHANGED <<f, call, sent, clean, last, fs, done, sess, vfs>>
  PROVE  FileInv' /\ TransferInv'
<1>1. \A s \in Slots : Mine(s)' => Mine(s)
  BY DEF Mine
<1>2. QED
  BY <1>1, QuietData

LEMMA DataInit == Init => FileInv /\ TransferInv
<1> SUFFICES ASSUME Init PROVE FileInv /\ TransferInv
  OBVIOUS
<1>1. call = NoCall /\ last = NoResult
  BY DEF Init, ClientInit
<1>2. call.at = "idle" /\ ~Calling /\ last.op = "none"
  BY <1>1 DEF Calling, NoCall, NoResult
<1>3. TransferInv
  BY <1>2 DEF TransferInv, Transferred, Returned, IoSteps
<1>4. CASE Idle
  BY <1>2, <1>3, <1>4 DEF FileInv, Live, Idle, NoFile, Open
<1>5. CASE FileOpen
  <2>1. /\ f.pos_valid = FALSE /\ f.fd = 0 /\ sess[1].files[0] = 0
        /\ \A s \in Slots : sess[s].in_use => s = 1
        /\ vfs[0].path = Remote /\ vfs[0].append = FALSE /\ fs[Remote].kind = "file"
    BY <1>5, OpenInit
  <2>2. HasFile(1, f.fd)
    BY <2>1, DeviceAssumption, ServerAssumption DEF HasFile
  <2>3. \A s \in Slots : Mine(s) => Placed(s)
    BY <1>2, <2>1, <2>2 DEF Mine, Placed
  <2>4. QED
    BY <1>3, <2>3 DEF FileInv
<1>6. QED
  BY <1>4, <1>5 DEF Init

-----------------------------------------------------------------------------
(* What a call reports is its own.                                         *)
Says(c, o) == o.ask # <<>> \/ o.ret[1].op = c.op

LEMMA AskSays ==
  ASSUME NEW file, NEW c, NEW d, NEW at, NEW request
  PROVE  Says(c, Ask(file, d, at, request))
BY DEF Says, Ask

LEMMA ReturnSays ==
  ASSUME NEW file, NEW c, NEW err
  PROVE  Says(c, Return(file, c, err))
BY DEF Says, Return

LEMMA EndSays ==
  ASSUME NEW file, NEW c, NEW d, NEW err
  PROVE  Says(c, Umount(file, d, err)) /\ Says(c, Closedir(file, d, err))
BY AskSays DEF Umount, Closedir

(* A step of a listing is followed by a command. *)
LEMMA ListAsks ==
  ASSUME NEW file, NEW c, CallOK(c), c.at \in ListSteps, NEW r
  PROVE  After(file, c, r).ask # <<>> /\ After(file, c, r).call.at \in ListSteps \union {"closedir"}
<1> DEFINE o == After(file, c, r)
           next == o.ask # <<>> /\ o.call.at \in ListSteps \union {"closedir"}
<1>1. DOMAIN c = {"op", "at", "arg", "got", "err", "off", "left", "dh"}
  BY DEF CallOK
<1>2. ASSUME NEW d, DOMAIN d = DOMAIN c, NEW at \in ListSteps \union {"closedir"}, NEW request,
             o = Ask(file, d, at, request)
      PROVE  next
  BY <1>1, <1>2 DEF Ask
<1>3. ASSUME NEW d, DOMAIN d = DOMAIN c, NEW err, o = Closedir(file, d, err)
      PROVE  next
  <2>1. DOMAIN [d EXCEPT !.err = err] = DOMAIN c
    BY <1>3
  <2> HIDE DEF o
  <2>2. QED
    BY <1>2, <1>3, <2>1 DEF Closedir, o
<1>4. ASSUME NEW d, DOMAIN d = DOMAIN c, o = ReadDirx(file, d) \/ o = ReadDir(file, d)
      PROVE  next
  BY <1>2, <1>4 DEF ReadDirx, ReadDir, ListSteps
<1>5. ASSUME c.at = "opendirx" PROVE next
  <2>1. o = tnfs_listx(file, c, r)
    BY <1>5 DEF After
  <2>2. \/ o = ReadDirx(file, [c EXCEPT !.dh = r.dh])
        \/ o = Closedir(file, c, status_err(r))
        \/ o = Ask(file, c, "opendir", OpenDir(c, "OPENDIR"))
    BY <2>1 DEF tnfs_listx
  <2>3. DOMAIN [c EXCEPT !.dh = r.dh] = DOMAIN c /\ "opendir" \in ListSteps
    BY DEF ListSteps
  <2> HIDE DEF o, next
  <2>4. QED
    BY <1>2, <1>3, <1>4, <2>2, <2>3
<1>6. ASSUME c.at = "readdirx" PROVE next
  <2> DEFINE more == [c EXCEPT !.got = @ \o r.names]
  <2>1. o = AfterReadDirx(file, c, r)
    BY <1>6 DEF After
  <2>2. \/ \E err : o = Closedir(file, c, err)
        \/ o = Closedir(file, more, "ESP_OK")
        \/ o = ReadDirx(file, more)
    BY <2>1 DEF AfterReadDirx
  <2>3. DOMAIN more = DOMAIN c
    OBVIOUS
  <2> HIDE DEF o, next, more
  <2>4. QED
    BY <1>3, <1>4, <2>2, <2>3
<1>7. ASSUME c.at = "opendir" PROVE next
  <2>1. o = tnfs_list_basic(file, c, r)
    BY <1>7 DEF After
  <2>2. o = ReadDir(file, [c EXCEPT !.dh = r.dh]) \/ o = Closedir(file, c, status_err(r))
    BY <2>1 DEF tnfs_list_basic
  <2>3. DOMAIN [c EXCEPT !.dh = r.dh] = DOMAIN c
    OBVIOUS
  <2> HIDE DEF o, next
  <2>4. QED
    BY <1>3, <1>4, <2>2, <2>3
<1>8. ASSUME c.at = "readdir" PROVE next
  <2> DEFINE more == [c EXCEPT !.got = @ \o [i \in DOMAIN r.names |-> [r.names[i] EXCEPT !.dir = FALSE]]]
  <2>1. o = AfterReadDir(file, c, r)
    BY <1>8 DEF After
  <2>2. (\E err : o = Closedir(file, c, err)) \/ o = ReadDir(file, more)
    BY <2>1 DEF AfterReadDir
  <2>3. DOMAIN more = DOMAIN c
    OBVIOUS
  <2> HIDE DEF o, next, more
  <2>4. QED
    BY <1>3, <1>4, <2>2, <2>3
<1>9. QED
  BY <1>5, <1>6, <1>7, <1>8 DEF ListSteps

LEMMA AfterSays ==
  ASSUME NEW file, NEW c, CallOK(c), c.at \notin IoSteps, NEW r
  PROVE  Says(c, After(file, c, r))
<1> DEFINE o == After(file, c, r)
<1>1. CASE c.at = "mount"
  <2> DEFINE mounted == [file EXCEPT !.conn = Reply.sid]
  <2>1. o = AfterMount(file, c, r)
    BY <1>1 DEF After
  <2>2. \/ o = tnfs_open(mounted, c)
        \/ o = tnfs_list_dir(mounted, c)
        \/ o = tnfs_try(file, c, TRUE)
        \/ o = Return([NoFile EXCEPT !.sock = file.sock], c, "ESP_ERR_TIMEOUT")
    BY <2>1 DEF AfterMount
  <2>3. Says(c, tnfs_open(mounted, c)) /\ Says(c, tnfs_list_dir(mounted, c)) /\ Says(c, tnfs_try(file, c, TRUE))
    BY AskSays DEF tnfs_open, tnfs_list_dir, tnfs_try, tnfs_mount_root
  <2> HIDE DEF o, mounted
  <2>4. QED
    BY <2>2, <2>3, ReturnSays DEF o
<1>2. CASE c.at = "umount"
  <2>1. o = Return([NoFile EXCEPT !.sock = file.sock], c, c.err)
    BY <1>2 DEF After, Umounted
  <2> HIDE DEF o
  <2>2. QED
    BY <2>1, ReturnSays DEF o
<1>3. CASE c.at = "open"
  <2> DEFINE opened == [file EXCEPT !.fd = r.fd, !.size = 0, !.pos_valid = FALSE]
  <2>1. o = AfterOpen(file, c, r)
    BY <1>3 DEF After
  <2>2. \/ o = Umount(file, c, status_err(r))
        \/ o = Return(opened, c, "ESP_OK")
        \/ o = tnfs_query_size(opened, c)
    BY <2>1 DEF AfterOpen
  <2>3. Says(c, tnfs_query_size(opened, c))
    BY AskSays DEF tnfs_query_size
  <2> HIDE DEF o, opened
  <2>4. QED
    BY <2>2, <2>3, EndSays, ReturnSays DEF o
<1>4. CASE c.at = "size"
  <2>1. o = AfterSize(file, c, r)
    BY <1>4 DEF After
  <2>2. \E g : o = Return(g, c, "ESP_OK")
    BY <2>1 DEF AfterSize
  <2> HIDE DEF o
  <2>3. QED
    BY <2>2, ReturnSays DEF o
<1>5. CASE c.at \in {"close", "closedir"}
  <2>1. \E err : o = Umount(file, c, err)
    BY <1>5 DEF After
  <2> HIDE DEF o
  <2>2. QED
    BY <2>1, EndSays DEF o
<1>6. CASE c.at \in ListSteps
  BY <1>6, ListAsks DEF Says
<1>7. QED
  BY <1>1, <1>2, <1>3, <1>4, <1>5, <1>6 DEF CallOK, ListSteps, IoSteps

LEMMA CallAsks ==
  ASSUME Call
  PROVE  Calling'
<1>1. \A c : "at" \in DOMAIN c /\ Proceed(tnfs_try(f, c, FALSE)) => Calling'
  BY DEF Proceed, tnfs_try, tnfs_mount_root, Ask, Calling
<1>2. ASSUME NEW c, "at" \in DOMAIN c, Proceed(tnfs_seek(f, c))
      PROVE  Calling'
  <2>1. tnfs_seek(f, c).call.at # "idle"
    BY <1>2 DEF tnfs_seek, Transfer, Ask
  <2>2. QED
    BY <1>2, <2>1 DEF Proceed, Calling
<1>3. ASSUME NEW op, NEW a
      PROVE  "at" \in DOMAIN Begin(op, a) /\ "at" \in DOMAIN [Begin(op, a) EXCEPT !.off = a.off, !.left = a.cells]
  BY DEF Begin
<1>4. Proceed(Ask(f, Begin("close", 0), "close", [cmd |-> "CLOSE", fd |-> f.fd])) => Calling'
  BY DEF Proceed, Ask, Begin, Calling
<1>5. \/ \E a : Proceed(tnfs_try(f, Begin("open", a), FALSE))
      \/ \E p : Proceed(tnfs_try(f, Begin("list_dir", p), FALSE))
      \/ \E op, a : Proceed(tnfs_seek(f, [Begin(op, a) EXCEPT !.off = a.off, !.left = a.cells]))
      \/ Proceed(Ask(f, Begin("close", 0), "close", [cmd |-> "CLOSE", fd |-> f.fd]))
  BY Zenon DEF Call
<1>6. QED
  BY <1>1, <1>2, <1>3, <1>4, <1>5, Zenon

(* A transfer that is reported done leaves the file open. *)
Reported == ~Calling /\ last.err = "ESP_OK" /\ last.op \in {"read_at", "write_at"}

LEMMA AnswerReports ==
  ASSUME ClientOK, Calling, TransferInv, clean, NEW file, FileReady(file),
         file.conn = f.conn, file.pos = f.pos, file.pos_valid = f.pos_valid,
         NEW r, Proceed(After(file, call, r)), Reported'
  PROVE  Open'
<1> DEFINE o == After(file, call, r)
<1>1. CallOK(call) /\ server \in Servers
  BY DEF ClientOK
<1>2. CASE call.at \notin IoSteps
  <2>1. OutcomeOK(o, file.sock)
    <3>1. call.at \notin {"read", "write"}
      BY <1>2 DEF IoSteps
    <3>2. QED
      BY <1>1, <3>1, AfterOK
  <2>2. Says(call, o)
    BY <1>1, <1>2, AfterSays
  <2> HIDE DEF o
  <2>3. o.ask = <<>> /\ last' = o.ret[1]
    BY <2>1, ProceedIs DEF Asks, Reported, o
  <2>4. call.op \in {"read_at", "write_at"}
    BY <2>2, <2>3 DEF Says, Reported
  <2>5. QED
    BY <1>1, <1>2, <2>4 DEF CallOK, IoSteps
<1>3. CASE call.at \in IoSteps
  <2>1. Live
    BY <1>3 DEF Live, IoSteps
  <2>2. Open /\ (call.at # "seek" => file.pos_valid /\ file.pos = call.off)
    BY <1>3, <2>1 DEF TransferInv, Transferred
  <2>3. Further(file, call, o)
    <3>1. CASE call.at = "seek"
      <4>1. o = AfterSeek(file, call, r)
        BY <3>1 DEF After
      <4>2. Further(file, call, AfterSeek(file, call, r))
        BY <1>1, <3>1, AfterSeekGoes, Zenon
      <4> HIDE DEF o
      <4>3. QED
        BY <4>1, <4>2
    <3>2. CASE call.at \in {"read", "write"}
      <4>1. file.pos_valid /\ file.pos = call.off
        BY <2>2, <3>2
      <4>2. QED
        BY <1>1, <3>2, <4>1, AfterCellGoes
    <3>3. QED
      BY <1>3, <3>1, <3>2 DEF IoSteps
  <2>4. f' = o.f
    BY DEF Proceed
  <2> HIDE DEF o
  <2>5. call.at # "mount"
    BY <1>3 DEF IoSteps
  <2>6. QED
    BY <2>2, <2>3, <2>4, <2>5 DEF Further, Open
<1>4. QED
  BY <1>2, <1>3

LEMMA ClientReports ==
  ASSUME ClientOK, TransferInv, ClientNext, clean', Reported'
  PROVE  Open'
<1>1. ASSUME UNCHANGED <<f, call, last, clean>> PROVE Open'
  BY <1>1 DEF TransferInv, Reported, Calling, Open
<1>2. ASSUME Calling, GiveUp PROVE Open'
  <2>1. clean /\ Proceed(After(f, call, Timeout)) /\ FileReady(f)
    BY <1>2 DEF GiveUp, ClientOK, FileReady
  <2>2. QED
    BY <1>2, <2>1, AnswerReports
<1>3. CASE TimesOut
  BY <1>1, <1>2, <1>3 DEF TimesOut, Retransmit
<1>4. CASE Backoff
  BY <1>1, <1>2, <1>4 DEF Backoff, Retransmit
<1>5. CASE Discard
  BY <1>1, <1>5 DEF Discard, clientVars
<1>6. CASE Responds
  <2>1. Calling /\ clean
    BY <1>6 DEF Responds
  <2>2. FileReady(f) /\ cmd.m.seq \in Nat
    BY <2>1, CommandIs, SeqNumbers DEF MessageOf, FileReady, FileOK
  <2> DEFINE file == [f EXCEPT !.seq = (cmd.m.seq + 1) % SeqLimit]
  <2>3. FileReady(file)
    BY <2>2, AdvancedFile
  <2>4. file.conn = f.conn /\ file.pos = f.pos /\ file.pos_valid = f.pos_valid
    BY <2>2 DEF FileReady, FileOK
  <2>5. Proceed(After(file, call, Reply.body))
    BY <1>6 DEF Responds
  <2> HIDE DEF file
  <2>6. QED
    BY <2>1, <2>3, <2>4, <2>5, AnswerReports
<1>7. CASE Call
  BY <1>7, CallAsks DEF Reported
<1>8. QED
  BY <1>3, <1>4, <1>5, <1>6, <1>7 DEF ClientNext

-----------------------------------------------------------------------------
(* The steps of the client that go on with the session.                    *)
LEMMA GivesUpData ==
  ASSUME OnceInv, Live, FileInv, GivesUp, UNCHANGED <<sess, vfs, fs>>
  PROVE  (\A s \in Slots : Mine(s)' => Placed(s)') /\ Transferred' /\ Returned'
<1>1. /\ call.at \in {"read", "write"} /\ ~Calling' /\ call'.at = "idle" /\ last'.err # "ESP_OK"
      /\ f'.sock = f.sock /\ f'.conn = f.conn /\ f'.fd = f.fd /\ ~f'.pos_valid
  BY DEF GivesUp, Stops, OnceInv, ClientOK, FileOK, Calling
<1>2. call.at # "mount"
  BY <1>1
<1>3. ASSUME NEW s \in Slots, Mine(s)' PROVE Placed(s)'
  <2>1. Mine(s)
    BY <1>1, <1>2, <1>3 DEF Mine
  <2>2. HasFile(s, f.fd)
    BY <1>1, <2>1 DEF FileInv, Placed, IoSteps
  <2>3. HasFile(s, f.fd)'
    BY <1>1, <2>2 DEF HasFile
  <2>4. QED
    BY <1>1, <2>3 DEF Placed, IoSteps
<1>4. Transferred' /\ Returned'
  BY <1>1 DEF Transferred, Returned, IoSteps
<1>5. QED
  BY <1>3, <1>4

LEMMA NotYet ==
  ASSUME OnceInv, sent' = sent + 1, done' = done
  PROVE  ~Executed'
BY DEF OnceInv, Once, ClientOK, Executed

LEMMA StartsData ==
  ASSUME OnceInv, Live, FileInv, NEW op \in {"read_at", "write_at"}, NEW a, Starts(op, a),
         UNCHANGED <<sess, vfs, fs, done>>
  PROVE  (\A s \in Slots : Mine(s)' => Placed(s)') /\ Transferred'
<1>1. ~Calling /\ call.at = "idle" /\ Open /\ f' = f /\ Calling' /\ sent' = sent + 1
  BY DEF Starts, Asks, Calling
<1>2. a \in ReadArgs \union WriteArgs
  BY DEF Starts
<1>3. a.off \in Nat /\ a.cells \in Seq(Nat)
  BY <1>2, DeviceAssumption
<1>4. /\ call'.at \in IoSteps /\ call'.arg = a /\ call'.got = <<>> /\ call'.off = a.off /\ call'.left = a.cells
      /\ call'.at # "seek" => f.pos_valid /\ f.pos = a.off
  BY DEF Starts, Begin, IoSteps
<1>5. ~Executed'
  BY <1>1, NotYet
<1>6. call'.at \notin {"idle", "open", "mount"}
  BY <1>4 DEF IoSteps
<1>7. ASSUME NEW s \in Slots, Mine(s)' PROVE Placed(s)'
  <2>1. Mine(s)
    BY <1>1, <1>6, <1>7 DEF Mine
  <2>2. HasFile(s, f.fd) /\ (f.pos_valid => Pos(s) = f.pos)
    BY <1>1, <2>1 DEF FileInv, Placed
  <2>3. HasFile(s, f.fd)' /\ Pos(s)' = Pos(s)
    BY <1>1, <2>2 DEF HasFile, Pos
  <2>4. ~Done(s)'
    BY <1>5 DEF Done
  <2>5. call'.at \in {"read", "write"} => Pos(s)' = call'.off
    BY <1>4, <2>2, <2>3
  <2>6. QED
    BY <1>1, <1>6, <2>3, <2>4, <2>5 DEF Placed
<1>8. Transferred'
  <2>1. Open' /\ call'.got \in Seq(Nat) /\ Len(call'.got) = 0
    BY <1>1, <1>4 DEF Open
  <2>2. call'.off = call'.arg.off + 0 /\ 0 + Len(call'.left) = Len(call'.arg.cells)
    <3>1. Len(a.cells) \in Nat
      BY <1>3, LenProperties
    <3>2. QED
      BY <1>3, <1>4, <3>1
  <2>3. Holding(call.got, call.arg.off)'
    BY <1>4 DEF Holding
  <2>4. call'.at # "seek" => f'.pos_valid /\ f'.pos = call'.off
    BY <1>1, <1>4
  <2>5. QED
    BY <1>4, <2>1, <2>2, <2>3, <2>4 DEF Transferred
<1>9. QED
  BY <1>7, <1>8

(* An answer, as the session s gave it. *)
AnswerFrom(s, o) ==
    /\ Calling /\ CallOK(call) /\ Answers(o) /\ Executed /\ Mine(s) /\ Placed(s)
    /\ Reply.body = sess[s].reply.body /\ Transferred /\ (call.at = "size" => ~f.pos_valid)
    /\ FileReady(Advanced) /\ Advanced.fd = f.fd /\ Advanced.pos = f.pos /\ Advanced.pos_valid = f.pos_valid
    /\ UNCHANGED <<sess, vfs, fs, done>> /\ (Calling' => ~Executed')
Settles(s) == Placed(s) /\ Transferred /\ Returned /\ (call.at = "size" => ~f.pos_valid)

LEMMA AnswerFacts ==
  ASSUME OnceInv, OnceInv', FreshInv, FileInv, TransferInv, Live, NEW o, Answers(o),
         UNCHANGED <<sess, vfs, fs, done, server>>
  PROVE  \E s \in Slots : AnswerFrom(s, o) /\ \A t \in Slots : Mine(t)' => t = s
<1>1. PICK s \in Slots : Mine(s) /\ Reply = Datagram(sess[s]) /\ \A t \in Slots : Mine(t)' => t = s
  BY AnswersGoes
<1>2. Executed /\ Calling
  BY AnswerIs DEF Current
<1>3. CallOK(call) /\ FileReady(f) /\ f.seq \in Nat
  BY <1>2, SeqNumbers DEF OnceInv, ClientOK, FileReady, FileOK
<1>4. FileReady(Advanced)
  BY <1>3, AdvancedFile DEF Advanced
<1>5. Advanced.fd = f.fd /\ Advanced.pos = f.pos /\ Advanced.pos_valid = f.pos_valid
  BY <1>3 DEF Advanced, FileReady, FileOK
<1>6. Reply.body = sess[s].reply.body
  BY <1>1 DEF Datagram
<1>7. Calling' => ~Executed'
  <2>1. Calling' => sent' = sent + 1
    BY DEF Answers, Asks, Stops
  <2>2. QED
    BY <2>1, NotYet
<1>8. Placed(s) /\ Transferred /\ (call.at = "size" => ~f.pos_valid)
  BY <1>1 DEF FileInv, TransferInv
<1>9. QED
  BY <1>1, <1>2, <1>3, <1>4, <1>5, <1>6, <1>7, <1>8 DEF AnswerFrom

LEMMA FileKept ==
  ASSUME NEW s, NEW n, HasFile(s, n), UNCHANGED <<sess, vfs, fs>>, f'.fd = n
  PROVE  HasFile(s, f.fd)' /\ Pos(s)' = vfs[sess[s].files[n]].pos
BY DEF HasFile, Pos

(* The transfer failed: where the server's file stands is not known. *)
LEMMA FailedData ==
  ASSUME NEW s, NEW o, AnswerFrom(s, o), Failed(Advanced, o), HasFile(s, f.fd)
  PROVE  Settles(s)'
<1>1. o.ask = <<>> /\ f' = o.f /\ call' = NoCall /\ last' = o.ret[1]
  BY DEF Failed, AnswerFrom, Answers
<1>2. f'.fd = f.fd /\ f'.pos_valid = FALSE
  BY <1>1 DEF Failed, AnswerFrom, FileReady, FileOK
<1>3. call'.at = "idle" /\ ~Calling' /\ last'.err # "ESP_OK"
  BY <1>1 DEF NoCall, Calling, Failed
<1>4. HasFile(s, f.fd)'
  BY <1>2, FileKept DEF AnswerFrom
<1>5. Placed(s)'
  BY <1>2, <1>3, <1>4 DEF Placed, IoSteps
<1>6. QED
  BY <1>3, <1>5 DEF Settles, Transferred, Returned, IoSteps

LEMMA MountData ==
  ASSUME NEW s, NEW o, AnswerFrom(s, o), call.at = "mount"
  PROVE  Settles(s)'
<1>1. Reply.body.status = "OK" /\ o = AfterMount(Advanced, call, Reply.body) /\ call' = o.call /\ f' = o.f
  BY DEF AnswerFrom, Answers, After
<1>2. call'.at \in {"open", "opendirx"}
  <2>1. \E g : o = tnfs_open(g, call) \/ o = tnfs_list_dir(g, call)
    BY <1>1 DEF AfterMount
  <2>2. "at" \in DOMAIN call
    BY DEF AnswerFrom, CallOK
  <2>3. QED
    BY <1>1, <2>1, <2>2 DEF tnfs_open, tnfs_list_dir, Ask
<1>3. Calling' /\ ~Executed'
  BY <1>2 DEF Calling, AnswerFrom
<1>4. QED
  BY <1>2, <1>3 DEF Settles, Placed, Done, Transferred, Returned, IoSteps

LEMMA OpenData ==
  ASSUME NEW s, NEW o, AnswerFrom(s, o), call.at = "open", Live'
  PROVE  Settles(s)'
<1> DEFINE opened == [Advanced EXCEPT !.fd = Reply.body.fd, !.size = 0, !.pos_valid = FALSE]
<1>1. o = AfterOpen(Advanced, call, Reply.body) /\ call' = o.call /\ f' = o.f
      /\ "at" \in DOMAIN call /\ call.op = "open"
  BY DEF AnswerFrom, Answers, After, CallOK, ListSteps
<1>2. /\ Reply.body.status = "OK"
      /\ o = Return(opened, call, "ESP_OK") \/ o = tnfs_query_size(opened, call)
  <2>1. \/ o = Umount(Advanced, call, status_err(Reply.body))
        \/ /\ Reply.body.status = "OK"
           /\ o = Return(opened, call, "ESP_OK") \/ o = tnfs_query_size(opened, call)
    BY <1>1 DEF AfterOpen
  <2>2. ASSUME o = Umount(Advanced, call, status_err(Reply.body)) PROVE FALSE
    <3>1. PICK err : o = Umount(Advanced, call, err)
      BY <2>2
    <3>2. call' = [[call EXCEPT !.err = err] EXCEPT !.at = "umount"]
      BY <1>1, <3>1 DEF Umount, Ask
    <3>3. call'.at = "umount"
      BY <1>1, <3>2
    <3>4. QED
      BY <3>3 DEF Live
  <2> HIDE DEF opened
  <2>3. QED
    BY <2>1, <2>2
<1>3. opened.fd = Reply.body.fd /\ opened.pos_valid = FALSE
  BY DEF AnswerFrom, FileReady, FileOK
<1> HIDE DEF opened
<1>4. f' = opened
  BY <1>1, <1>2 DEF Return, tnfs_query_size, Ask
<1>5. HasFile(s, f.fd)'
  <2>1. PICK n : n = sess[s].reply.body.fd
    OBVIOUS
  <2>2. Done(s) /\ f'.fd = n
    BY <1>2, <1>3, <1>4, <2>1 DEF AnswerFrom, Done
  <2>3. HasFile(s, n)
    BY <2>1, <2>2 DEF AnswerFrom, Placed
  <2>4. QED
    BY <2>2, <2>3, FileKept DEF AnswerFrom
<1>6. CASE o = Return(opened, call, "ESP_OK")
  <2>1. call' = NoCall /\ last'.op = call.op
    BY <1>1, <1>6 DEF Return, AnswerFrom, Answers
  <2>2. call'.at = "idle" /\ ~Calling' /\ last'.op = "open"
    BY <1>1, <2>1 DEF NoCall, Calling
  <2>3. QED
    BY <1>3, <1>4, <1>5, <2>2 DEF Settles, Placed, Transferred, Returned, IoSteps
<1>7. CASE o = tnfs_query_size(opened, call)
  <2>1. call'.at = "size"
    BY <1>1, <1>7 DEF tnfs_query_size, Ask
  <2>2. QED
    BY <1>3, <1>4, <1>5, <2>1 DEF Settles, Placed, Transferred, Returned, IoSteps, Calling
<1>8. QED
  BY <1>2, <1>6, <1>7

LEMMA SizeData ==
  ASSUME NEW s, NEW o, AnswerFrom(s, o), call.at = "size"
  PROVE  Settles(s)'
<1> DEFINE sized == IF Reply.body.status = "OK" THEN [Advanced EXCEPT !.size = Reply.body.pos] ELSE Advanced
<1>1. o = Return(sized, call, "ESP_OK") /\ call' = o.call /\ f' = o.f /\ call.op = "open"
  BY DEF AnswerFrom, Answers, After, AfterSize, CallOK, ListSteps
<1>2. sized.fd = f.fd /\ sized.pos_valid = FALSE
  BY DEF AnswerFrom, FileReady, FileOK
<1> HIDE DEF sized
<1>3. f' = sized /\ call' = NoCall /\ last'.op = call.op
  BY <1>1 DEF Return, AnswerFrom, Answers
<1>4. call'.at = "idle" /\ ~Calling' /\ last'.op = "open"
  BY <1>1, <1>3 DEF NoCall, Calling
<1>5. HasFile(s, f.fd)
  BY DEF AnswerFrom, Placed
<1>6. HasFile(s, f.fd)'
  BY <1>2, <1>3, <1>5, FileKept DEF AnswerFrom
<1>7. QED
  BY <1>2, <1>3, <1>4, <1>6 DEF Settles, Placed, Transferred, Returned, IoSteps

LEMMA ListData ==
  ASSUME NEW s, NEW o, AnswerFrom(s, o), call.at \in ListSteps
  PROVE  Settles(s)'
<1>1. o = After(Advanced, call, Reply.body) /\ call' = o.call /\ CallOK(call)
  BY DEF AnswerFrom, Answers
<1>2. call'.at \in ListSteps \union {"closedir"}
  BY <1>1, ListAsks
<1>3. call'.at \notin {"idle", "open", "size", "seek", "read", "write"}
  BY <1>2 DEF ListSteps
<1>4. QED
  BY <1>3 DEF Settles, Placed, Transferred, Returned, IoSteps, Calling

(* The seek is done: the cell is asked for where the server's file is. *)
LEMMA TransferPlaced ==
  ASSUME NEW s, NEW n, HasFile(s, n), UNCHANGED <<sess, vfs, fs>>, f'.fd = n,
         call'.at \in {"read", "write"}, ~Executed',
         vfs[sess[s].files[n]].pos = call'.off
  PROVE  Placed(s)'
<1>1. HasFile(s, f.fd)' /\ Pos(s)' = call'.off
  BY FileKept
<1>2. ~Done(s)' /\ Calling'
  BY DEF Done, Calling
<1>3. QED
  BY <1>1, <1>2 DEF Placed

LEMMA SeekData ==
  ASSUME NEW s, NEW o, AnswerFrom(s, o), call.at = "seek"
  PROVE  Settles(s)'
<1> DEFINE there == [Advanced EXCEPT !.pos = call.off, !.pos_valid = TRUE]
<1>1. /\ o = AfterSeek(Advanced, call, Reply.body) /\ call' = o.call /\ f' = o.f
      /\ CallOK(call) /\ FileReady(Advanced) /\ Placed(s) /\ Transferred /\ HasFile(s, f.fd)
  BY DEF AnswerFrom, Answers, After, Placed, IoSteps
<1>2. Failed(Advanced, o) \/ (Reply.body.status = "OK" /\ Transfers(there, call, o))
  BY <1>1, AfterSeekGoes, Zenon
<1>3. CASE Failed(Advanced, o)
  BY <1>1, <1>3, FailedData
<1>4. CASE Reply.body.status = "OK" /\ Transfers(there, call, o)
  <2>1. there.fd = f.fd /\ there.pos = call.off /\ there.pos_valid = TRUE /\ there.conn = f.conn
    BY DEF AnswerFrom, FileReady, FileOK, Advanced
  <2> HIDE DEF there
  <2>2. f' = there
    BY <1>1, <1>4 DEF Transfers
  <2>3. PICK at \in {"read", "write"} : call' = [call EXCEPT !.at = at]
    BY <1>1, <1>4 DEF Transfers
  <2>4. /\ call'.at = at /\ call'.off = call.off /\ call'.got = call.got /\ call'.arg = call.arg
        /\ call'.left = call.left
    BY <1>1, <2>3 DEF CallOK
  <2>5. Calling' /\ ~Executed' /\ UNCHANGED <<sess, vfs, fs>>
    BY <2>4 DEF Calling, AnswerFrom
  <2>6. Pos(s) = call.off
    BY <1>1, <1>4 DEF AnswerFrom, Placed, Done
  <2>7. Placed(s)'
    <3>1. vfs[sess[s].files[f.fd]].pos = call'.off /\ f'.fd = f.fd
      BY <2>1, <2>2, <2>4, <2>6 DEF Pos
    <3>2. QED
      BY <1>1, <2>4, <2>5, <3>1, TransferPlaced
  <2>8. Transferred'
    <3>1. f'.conn = f.conn /\ f'.pos_valid /\ f'.pos = call'.off
      BY <2>1, <2>2, <2>4
    <3>2. Open' /\ Data' = Data
      <4>1. Open /\ f'.conn = f.conn
        BY <1>1, <3>1 DEF Transferred, IoSteps
      <4>2. QED
        BY <2>5, <4>1 DEF Open, Data
    <3>3. Holding(call.got, call.arg.off) /\ call.got \in Seq(Nat) /\ call.off = call.arg.off + Len(call.got)
          /\ Len(call.got) + Len(call.left) = Len(call.arg.cells)
      BY <1>1 DEF Transferred, IoSteps
    <3>4. Holding(call.got, call.arg.off)'
      BY <2>4, <3>2, <3>3 DEF Holding
    <3>5. QED
      BY <2>4, <3>1, <3>2, <3>3, <3>4 DEF Transferred
  <2>9. QED
    BY <2>4, <2>5, <2>7, <2>8 DEF Settles, Returned
<1>5. QED
  BY <1>2, <1>3, <1>4

LEMMA HoldingAppend ==
  ASSUME NEW got \in Seq(Nat), NEW off \in Nat, Data \in Seq(Nat), NEW x,
         Holding(got, off), off + Len(got) < Len(Data), x = Data[off + Len(got) + 1]
  PROVE  /\ Append(got, x) \in Seq(Nat) /\ Len(Append(got, x)) = Len(got) + 1
         /\ Holding(Append(got, x), off)
<1>1. Len(got) \in Nat /\ Len(Data) \in Nat /\ DOMAIN Data = 1 .. Len(Data)
  BY LenProperties
<1>2. off + Len(got) + 1 \in 1 .. Len(Data)
  BY <1>1
<1>3. x \in Nat
  BY <1>1, <1>2, ElementOfSeq
<1>4. /\ Append(got, x) \in Seq(Nat) /\ Len(Append(got, x)) = Len(got) + 1
      /\ \A i \in 1 .. Len(got) : Append(got, x)[i] = got[i]
      /\ Append(got, x)[Len(got) + 1] = x
  BY <1>3, AppendProperties
<1>5. PICK more : more = Append(got, x)
  OBVIOUS
<1>6. ASSUME NEW i \in 1 .. Len(more)
      PROVE  off + i <= Len(Data) /\ more[i] = Data[off + i]
  <2>1. CASE i = Len(got) + 1
    <3>1. off + i = off + Len(got) + 1
      BY <1>1, <2>1
    <3>2. QED
      BY <1>1, <1>2, <1>4, <1>5, <2>1, <3>1
  <2>2. CASE i # Len(got) + 1
    <3>1. i \in 1 .. Len(got)
      BY <1>1, <1>4, <1>5, <2>2
    <3>2. QED
      BY <1>4, <1>5, <3>1 DEF Holding
  <2>3. QED
    BY <2>1, <2>2
<1>7. QED
  BY <1>4, <1>5, <1>6 DEF Holding

(* The file after a cell. *)
LEMMA CellMoves ==
  ASSUME NEW g, Grown(Advanced, g), FileReady(Advanced)
  PROVE  /\ [g EXCEPT !.pos = @ + 1].fd = Advanced.fd
         /\ [g EXCEPT !.pos = @ + 1].conn = Advanced.conn
         /\ [g EXCEPT !.pos = @ + 1].pos_valid = Advanced.pos_valid
         /\ [g EXCEPT !.pos = @ + 1].pos = Advanced.pos + 1
BY DEF Grown, FileReady, FileOK

LEMMA CellData ==
  ASSUME NEW s \in Slots, NEW o, AnswerFrom(s, o), call.at \in {"read", "write"}, Sessions
  PROVE  Settles(s)'
<1> DEFINE x == IF call.at = "read" THEN Reply.body.data[1] ELSE Head(call.left)
<1>1. /\ o = After(Advanced, call, Reply.body) /\ call' = o.call /\ f' = o.f
      /\ CallOK(call) /\ FileReady(Advanced) /\ Placed(s) /\ Transferred /\ HasFile(s, f.fd)
  BY DEF AnswerFrom, Answers, Placed, IoSteps
<1>2. /\ Open /\ call.got \in Seq(Nat) /\ call.off = call.arg.off + Len(call.got)
      /\ Len(call.got) + Len(call.left) = Len(call.arg.cells) /\ Holding(call.got, call.arg.off)
      /\ f.pos_valid /\ f.pos = call.off
  BY <1>1 DEF Transferred, IoSteps
<1>3. Advanced.fd = f.fd /\ Advanced.pos = call.off /\ Advanced.pos_valid /\ Advanced.conn = f.conn
  <2>1. Advanced.fd = f.fd /\ Advanced.pos = f.pos /\ Advanced.pos_valid = f.pos_valid
    BY DEF AnswerFrom
  <2>2. Advanced.conn = f.conn
    BY <1>1 DEF FileReady, FileOK, Advanced
  <2>3. QED
    BY <1>2, <2>1, <2>2
<1>4. Failed(Advanced, o) \/ (Reply.body.status = "OK" /\ \E g : Grown(Advanced, g) /\ Cell(g, call, x, o))
  BY <1>1, <1>3, AfterCellGoes, Zenon
<1>5. CASE Failed(Advanced, o)
  BY <1>1, <1>5, FailedData
<1>6. ASSUME Reply.body.status = "OK", NEW g, Grown(Advanced, g), Cell(g, call, x, o)
      PROVE  Settles(s)'
  <2>1. Pos(s) = call.off + 1 /\ call.off < Len(Data) /\ x = Data[call.off + 1]
    BY <1>1, <1>6 DEF AnswerFrom, Placed, Done
  <2>2. Data \in Seq(Nat) /\ Data' = Data /\ UNCHANGED <<sess, vfs, fs>>
    BY Ready, FileData, DeviceAssumption DEF ServerReady, Data, CardOK, AnswerFrom
  <2>3. call.arg \in ReadArgs \union WriteArgs /\ call.op \in {"read_at", "write_at"} /\ call.arg.off \in Nat
        /\ call.off \in Nat /\ call.left \in Seq(Nat) \ {<<>>}
    BY <1>1, DeviceAssumption DEF CallOK, ListSteps
  <2>4. PICK more : more = Append(call.got, x)
    OBVIOUS
  <2>5. more \in Seq(Nat) /\ Len(more) = Len(call.got) + 1 /\ Holding(more, call.arg.off)
    <3>1. call.arg.off + Len(call.got) < Len(Data) /\ x = Data[call.arg.off + Len(call.got) + 1]
      BY <1>2, <2>1
    <3> HIDE DEF x
    <3>2. QED
      BY <1>2, <2>2, <2>3, <2>4, <3>1, HoldingAppend
  <2> DEFINE moved == [g EXCEPT !.pos = @ + 1]
             rest == [call EXCEPT !.off = @ + 1, !.left = Tail(@), !.got = Append(@, x)]
  <2>6. \/ /\ rest.left = <<>> /\ o.f = moved /\ o.call = NoCall /\ o.ask = <<>>
           /\ o.ret = <<[op |-> call.op, err |-> "ESP_OK", arg |-> call.arg, got |-> rest.got]>>
        \/ rest.left # <<>> /\ Transfers(moved, rest, o)
    BY <1>6 DEF Cell
  <2>7. moved.fd = f.fd /\ moved.conn = f.conn /\ moved.pos_valid /\ moved.pos = call.off + 1
    BY <1>1, <1>3, <1>6, CellMoves
  <2>8. /\ rest.off = call.off + 1 /\ rest.left = Tail(call.left) /\ rest.got = more
        /\ rest.arg = call.arg /\ rest.op = call.op /\ DOMAIN rest = DOMAIN call
    BY <1>1, <2>4 DEF CallOK
  <2>9. /\ Len(call.left) \in Nat \ {0} /\ Len(Tail(call.left)) = Len(call.left) - 1
        /\ Tail(call.left) \in Seq(Nat)
    BY <2>3, HeadTailProperties, EmptySeq

  <2>10. \A i \in 1 .. Len(more) : call.arg.off + i <= Len(Data') /\ more[i] = Data'[call.arg.off + i]
    BY <2>2, <2>5 DEF Holding
  <2>16. PICK k \in Nat, n \in Nat : k = Len(call.got) /\ n = Len(call.left)
    BY <1>2, <2>3, LenProperties
  <2>17. /\ Len(more) = k + 1 /\ Len(Tail(call.left)) = n - 1
         /\ call.off = call.arg.off + k /\ Len(call.arg.cells) = k + n
    BY <1>2, <2>5, <2>9, <2>16
  <2> HIDE DEF moved, rest, x
  <2>11. f' = moved
    BY <1>1, <2>6 DEF Transfers
  <2>12. /\ f'.fd = f.fd /\ f'.conn = f.conn /\ f'.pos_valid /\ f'.pos = call.off + 1
         /\ HasFile(s, f.fd)' /\ Pos(s)' = call.off + 1
    <3>1. vfs[sess[s].files[f.fd]].pos = call.off + 1
      BY <2>1 DEF Pos
    <3>2. QED
      BY <1>1, <2>2, <2>7, <2>11, <3>1, FileKept
  <2>13. CASE rest.left = <<>> /\ o.call = NoCall /\ o.ask = <<>>
              /\ o.ret = <<[op |-> call.op, err |-> "ESP_OK", arg |-> call.arg, got |-> rest.got]>>
    <3>1. call'.at = "idle" /\ ~Calling'
      BY <1>1, <2>13 DEF NoCall, Calling
    <3>2. last' = o.ret[1]
      BY <2>13 DEF AnswerFrom, Answers
    <3>3. last'.got = more /\ last'.arg = call.arg
      BY <2>8, <2>13, <3>2
    <3>4. Len(more) = Len(call.arg.cells)
      <4>1. n - 1 = 0
        BY <2>8, <2>13, <2>17, EmptySeq
      <4>2. k + 1 = k + n
        BY <4>1
      <4>3. QED
        BY <2>17, <4>2
    <3>5. Holding(last.got, last.arg.off)'
      BY <2>10, <3>3 DEF Holding
    <3>6. Returned'
      BY <2>3, <2>5, <2>12, <3>3, <3>4, <3>5 DEF Returned
    <3>7. Placed(s)'
      BY <2>12, <3>1 DEF Placed, IoSteps
    <3>8. QED
      BY <3>1, <3>6, <3>7 DEF Settles, Transferred, IoSteps
  <2>14. CASE rest.left # <<>> /\ Transfers(moved, rest, o)
    <3>1. PICK at \in {"read", "write"} : call' = [rest EXCEPT !.at = at]
      BY <1>1, <2>14 DEF Transfers
    <3>2. /\ call'.at = at /\ call'.off = call.off + 1 /\ call'.got = more /\ call'.arg = call.arg
          /\ call'.left = Tail(call.left)
      BY <1>1, <2>8, <3>1 DEF CallOK
    <3>3. Calling' /\ ~Executed'
      BY <3>2 DEF Calling, AnswerFrom
    <3>4. Placed(s)'
      BY <2>12, <3>2, <3>3 DEF Placed, Done
    <3>5. Transferred'
      <4>1. Open' /\ call'.got \in Seq(Nat)
        BY <1>2, <2>5, <2>12, <3>2 DEF Open
      <4>2. call'.off = call'.arg.off + Len(call'.got)
        <5>1. PICK b \in Nat : b = call.arg.off
          BY <2>3
        <5>2. call.off = b + k
          BY <2>17, <5>1
        <5>3. call.off + 1 = b + (k + 1)
          BY <5>2
        <5>4. QED
          BY <2>17, <3>2, <5>1, <5>3
      <4>3. Len(call'.got) + Len(call'.left) = Len(call'.arg.cells)
        <5>1. (k + 1) + (n - 1) = k + n
          OBVIOUS
        <5>2. QED
          BY <2>17, <3>2, <5>1
      <4>4. Holding(call.got, call.arg.off)'
        BY <2>10, <3>2 DEF Holding
      <4>5. QED
        BY <2>12, <3>2, <4>1, <4>2, <4>3, <4>4 DEF Transferred
    <3>6. QED
      BY <3>2, <3>3, <3>4, <3>5 DEF Settles, Returned
  <2>15. QED
    BY <2>6, <2>13, <2>14
<1>7. QED
  BY <1>4, <1>5, <1>6

LEMMA AnswersData ==
  ASSUME OnceInv, OnceInv', FreshInv, FileInv, TransferInv, Live, Live', NEW o, Answers(o),
         UNCHANGED <<sess, vfs, fs, done, server>>
  PROVE  /\ \A s \in Slots : Mine(s)' => Placed(s)'
         /\ Transferred' /\ Returned' /\ (call'.at = "size" => ~f'.pos_valid)
<1>1. PICK s \in Slots : AnswerFrom(s, o) /\ \A t \in Slots : Mine(t)' => t = s
  BY AnswerFacts
<1>2. Settles(s)'
  <2>1. CallOK(call) /\ Sessions /\ call.at \notin {"close", "umount", "closedir"}
    BY <1>1 DEF AnswerFrom, OnceInv, Live
  <2>2. call.at \in {"mount", "open", "size", "seek", "read", "write"} \union ListSteps
    BY <2>1 DEF CallOK
  <2>3. QED
    BY <1>1, <2>1, <2>2, MountData, OpenData, SizeData, SeekData, CellData, ListData
<1>3. QED
  BY <1>1, <1>2 DEF Settles

LEMMA PlacingIs ==
  ASSUME TransferInv, Live
  PROVE  Placing
BY DEF TransferInv, Transferred, Placing, IoSteps

LEMMA ClientData ==
  ASSUME OnceInv, OnceInv', FreshInv, FileInv, TransferInv, Client
  PROVE  FileInv' /\ TransferInv'
<1>1. ClientNext /\ UNCHANGED <<sess, vfs, fs, done>>
  BY DEF Client, serverVars
<1>2. ClientOK /\ (Live => Placing)
  BY PlacingIs DEF OnceInv
<1>3. server' = server
  BY ClientSteps DEF OnceInv, Client
<1>4. clean' /\ Reported' => Open'
  BY <1>1, <1>2, ClientReports
<1>5. CASE ~Live'
  BY <1>4, <1>5 DEF FileInv, TransferInv, Reported
<1>6. ASSUME Live',
             (\A s \in Slots : Mine(s)' => Placed(s)') /\ Transferred' /\ Returned',
             call'.at = "size" => ~f'.pos_valid
      PROVE  FileInv' /\ TransferInv'
  BY <1>4, <1>6 DEF FileInv, TransferInv, Reported
<1>7. ASSUME Live' PROVE FileInv' /\ TransferInv'
  <2>1. \/ SameCommand \/ Renewed
        \/ Live /\ GivesUp
        \/ Live /\ \E o : Answers(o)
        \/ Live /\ \E op \in {"read_at", "write_at"} : \E a : Starts(op, a)
    BY <1>1, <1>2, <1>7, ClientKinds
  <2>2. CASE SameCommand
    BY <1>1, <2>2, SameData DEF SameCommand
  <2>3. CASE Renewed
    <3>1. call'.at = "mount" /\ ~Executed' /\ Calling'
      BY <1>1, <2>3, NotYet DEF Renewed, Asks
    <3>2. \A s \in Slots : Placed(s)'
      BY <3>1 DEF Placed, IoSteps
    <3>3. Transferred' /\ Returned' /\ (call'.at = "size" => ~f'.pos_valid)
      BY <3>1 DEF Transferred, Returned, IoSteps
    <3>4. QED
      BY <1>6, <1>7, <3>2, <3>3
  <2>4. CASE Live /\ GivesUp
    <3>1. (\A s \in Slots : Mine(s)' => Placed(s)') /\ Transferred' /\ Returned'
      BY <1>1, <2>4, GivesUpData
    <3>2. call'.at # "size"
      BY <2>4 DEF GivesUp, Stops, Calling
    <3>3. QED
      BY <1>6, <1>7, <3>1, <3>2
  <2>5. ASSUME Live, NEW o, Answers(o) PROVE FileInv' /\ TransferInv'
    BY <1>1, <1>3, <1>6, <1>7, <2>5, AnswersData
  <2>6. ASSUME Live, NEW op \in {"read_at", "write_at"}, NEW a, Starts(op, a)
        PROVE  FileInv' /\ TransferInv'
    <3>1. (\A s \in Slots : Mine(s)' => Placed(s)') /\ Transferred'
      BY <1>1, <2>6, StartsData
    <3>2. call'.at # "size" /\ Returned'
      BY <2>6 DEF Starts, Begin, Asks, Returned
    <3>3. QED
      BY <1>6, <1>7, <3>1, <3>2
  <2>7. QED
    BY <2>1, <2>2, <2>3, <2>4, <2>5, <2>6
<1>8. QED
  BY <1>5, <1>7


LEMMA DataNext ==
  ASSUME DataInv, [Next]_vars
  PROVE  DataInv'
<1>1. OnceInv /\ OnceInv' /\ FreshInv /\ FileInv /\ TransferInv
  BY OnceNext DEF DataInv
<1>2. CASE Client
  <2>1. FreshInv'
    BY <1>1, <1>2, PlacingIs, ClientFresh
  <2>2. QED
    BY <1>1, <1>2, <2>1, ClientData DEF DataInv
<1>3. CASE Server
  BY <1>1, <1>3, ServerFresh, ServerData DEF DataInv
<1>4. CASE Reap
  BY <1>1, <1>4, ReapFresh, ReapData DEF DataInv
<1>5. CASE Idles \/ Network \/ UNCHANGED vars
  <2>1. UNCHANGED <<f, call, cmd, last, sent, server, done, clean, sess, vfs, fs>>
    BY <1>5 DEF Idles, Network, Expire, vars, clientVars, serverVars
  <2>2. Network \/ UNCHANGED <<inbox, outbox>>
    BY <1>5 DEF Idles, Expire, vars, netVars
  <2>3. QED
    BY <1>1, <2>1, <2>2, QuietFresh, SameData DEF DataInv
<1>6. QED
  BY <1>2, <1>3, <1>4, <1>5 DEF Next

LEMMA DataInvariance == Spec => []DataInv
<1>1. Init => DataInv
  BY OnceInit, FreshInit, DataInit DEF DataInv
<1>2. QED
  BY <1>1, DataNext, PTL DEF Spec

LEMMA HoldingIs ==
  ASSUME NEW cells \in Seq(Nat), NEW off \in Nat, Data \in Seq(Nat), Holding(cells, off)
  PROVE  cells = SubSeq(Data, off + 1, off + Len(cells))
<1>1. PICK n \in Nat : n = Len(cells)
  BY LenProperties
<1>2. \A i \in off + 1 .. off + n : Data[i] \in Nat
  <2>1. n = 0 \/ off + n <= Len(Data)
    <3>1. \A i \in 1 .. n : off + i <= Len(Data)
      BY <1>1 DEF Holding
    <3>2. n = 0 \/ n \in 1 .. n
      OBVIOUS
    <3>3. QED
      BY <3>1, <3>2
  <2>2. \A i \in 1 .. Len(Data) : Data[i] \in Nat
    BY ElementOfSeq
  <2>3. Len(Data) \in Nat
    BY LenProperties
  <2>4. QED
    BY <2>1, <2>2, <2>3
<1>3. PICK a \in Int, b \in Int : a = off + 1 /\ b = off + n
  OBVIOUS
<1>4. PICK q : q = SubSeq(Data, a, b)
  OBVIOUS
<1>5. /\ q \in Seq(Nat) /\ Len(q) = IF a <= b THEN b - a + 1 ELSE 0
      /\ \A i \in 1 .. b - a + 1 : q[i] = Data[a + i - 1]
  <2>1. \A i \in a .. b : Data[i] \in Nat
    BY <1>2, <1>3
  <2>2. QED
    BY <2>1, <1>4, SubSeqProperties
<1>6. Len(q) = n /\ \A i \in 1 .. n : q[i] = Data[off + i]
  <2>1. b - a + 1 = n
    BY <1>3
  <2>2. \A i \in 1 .. n : a + i - 1 = off + i
    BY <1>3
  <2>3. a <= b \/ n = 0
    BY <1>3
  <2>4. \A i \in 1 .. n : q[i] = Data[off + i]
    BY <1>5, <2>1, <2>2
  <2>5. QED
    BY <1>5, <2>1, <2>3, <2>4
<1>7. \A i \in 1 .. n : cells[i] = q[i]
  BY <1>1, <1>6 DEF Holding
<1>8. QED
  BY <1>1, <1>3, <1>4, <1>5, <1>6, <1>7, SeqEqual

(* What tnfs_read_at returned and what tnfs_write_at reported as written   *)
(* is in the server's file where it should be, whichever datagrams are     *)
(* lost, repeated or late and whichever sessions end, unless an LSEEK of   *)
(* the session ran out of attempts.                                        *)
THEOREM TransfersAreTrue == Spec => []DataTrue
<1>1. ASSUME DataInv PROVE DataTrue
  <2>1. SUFFICES ASSUME ~Calling, clean, last.err = "ESP_OK", last.op \in {"read_at", "write_at"}
                 PROVE  last.got = SubSeq(Data, last.arg.off + 1, last.arg.off + Len(last.arg.cells))
    BY DEF DataTrue
  <2>2. Live
    BY <1>1, <2>1 DEF DataInv, TransferInv, Live, Calling
  <2>3. /\ last.arg \in ReadArgs \union WriteArgs
        /\ last.got \in Seq(Nat) /\ Len(last.got) = Len(last.arg.cells)
        /\ Holding(last.got, last.arg.off)
    BY <1>1, <2>1, <2>2 DEF DataInv, TransferInv, Returned
  <2>4. Data \in Seq(Nat)
    BY <1>1, Ready, FileData, DeviceAssumption DEF DataInv, OnceInv, ServerReady, CardOK, Data
  <2>5. QED
    BY <2>3, <2>4, HoldingIs, DeviceAssumption
<1>2. QED
  BY <1>1, DataInvariance, PTL

-----------------------------------------------------------------------------
(* The listings. What is under way to the server changes nothing there.    *)
Harmless == {"OPENDIRX", "READDIRX", "OPENDIR", "READDIR", "CLOSEDIR", "UMOUNT"}
Listing == Calling /\ call.op = "list_dir" /\ call.at # "mount"
Listed == last.op = "list_dir" /\ last.err = "ESP_OK"
Still == \A x \in Range(inbox) : x.id > done.id => x.cmd \in Harmless

(* The kinds of listing that the server can have given, and why it was not *)
(* the extended one.                                                       *)
Kinds == {server.dirx} \union (IF IoFaults THEN {FALSE} ELSE {})
NoExtended(p) == ~server.dirx \/ IoFaults \/ BadPath(p) \/ DirSlots = {}

Items == [name : Names, dir : BOOLEAN]

(* Of the entries all, got was listed and rest is left. *)
Split(all, got, rest, x) ==
    /\ got \in Seq(Items) /\ rest \in Seq(Items)
    /\ Len(got) + Len(rest) = Len(all)
    /\ \A i \in 1 .. Len(got) : got[i] = Shown(all, x)[i]
    /\ \A i \in 1 .. Len(rest) : rest[i] = all[Len(got) + i]

(* The server's directory number h holds what is left. *)
DirOK(d) ==
    /\ DOMAIN d = {"in_use", "left", "pending", "pos"} /\ d.in_use
    /\ d.pending \in Seq(Items) /\ d.left \in Seq(Items)
Wanted == Visible(call.arg, Names)
Leaves(s, h, got, x) ==
    /\ DOMAIN sess[s].dirs = DirSlots /\ h \in DirSlots /\ DirOK(sess[s].dirs[h])
    /\ Split(Wanted, got, Stream(sess[s].dirs[h]), x)

Show(e, x) == [e EXCEPT !.dir = @ /\ x]
ReadPlaced(s, x) ==
    LET body == sess[s].reply.body
    IN  /\ call.got \in Seq(Items)
        /\ ~Executed => Leaves(s, call.dh, call.got, x)
        /\ Done(s) => \E e \in Items :
              /\ body.names = <<e>> /\ (x => ~body.eof)
              /\ Leaves(s, call.dh, Append(call.got, Show(e, x)), x)
        /\ Executed /\ body.status = "EOF" => call.got = Shown(Wanted, x)

DirPlaced(s) ==
    LET body == sess[s].reply.body
    IN  /\ call.at = "opendirx" =>
              /\ ~Executed => sess[s].dirs = Blank.dirs
              /\ Done(s) => server.dirx /\ Leaves(s, body.dh, <<>>, TRUE)
              /\ Executed /\ body.status \notin {"OK", "ENOENT"} => NoExtended(call.arg)
        /\ call.at \in {"opendirx", "opendir"} => DOMAIN sess[s].dirs = DirSlots
        /\ call.at = "opendir" /\ Done(s) =>
              /\ ~BadPath(call.arg) /\ DirSlots # {} /\ Leaves(s, body.dh, <<>>, FALSE)
        /\ call.at = "readdirx" => ReadPlaced(s, TRUE)
        /\ call.at = "readdir" => ReadPlaced(s, FALSE)

Exact(p, got) == \E x \in Kinds : got = Shown(Visible(p, Names), x)

Gathered ==
    /\ clean
    /\ call.at \in {"mount", "opendirx", "opendir"} => call.got = <<>>
    /\ call.at = "opendir" => NoExtended(call.arg)
    /\ call.at = "readdirx" => TRUE \in Kinds
    /\ call.at = "readdir" => FALSE \in Kinds
    /\ call.at \in {"closedir", "umount"} /\ call.err = "ESP_OK" => Exact(call.arg, call.got)

Told ==
    /\ call.op = "list_dir" => Gathered
    /\ Listing \/ Listed => Still
    /\ Listed => Exact(last.arg, last.got)
    /\ Calling => last.op = "none"

ListInv ==
    /\ Told
    /\ Live /\ call.op = "list_dir" => \A s \in Slots : Mine(s) => DirPlaced(s)

(* A directory, entry by entry.                                            *)
LEMMA VisibleIs ==
  ASSUME NEW p
  PROVE  Visible(p, Names) \in Seq(Items)
<1>1. PICK S : S = (Entries(p) \cap Names) \ Dotfiles
  BY Zenon
<1>2. S \subseteq Names /\ IsFiniteSet(S)
  BY <1>1, FS_Subset, DeviceAssumption
<1>3. Cardinality(S) \in Nat /\ ExistsBijection(1 .. Cardinality(S), S)
  BY <1>2, FS_CardinalityType
<1>4. PICK n \in Nat : n = Cardinality(S)
  BY <1>3
<1>5. \E g \in [1 .. n -> S] : IsInjective(g)
  BY <1>3, <1>4 DEF ExistsBijection, Bijection, Injection, IsInjective
<1>6. PICK order : order = SetToSeq(S)
  OBVIOUS
<1>7. order \in [1 .. n -> S]
  BY <1>4, <1>5, <1>6 DEF SetToSeq
<1>8. Visible(p, Names) = [i \in 1 .. n |-> [name |-> order[i], dir |-> Kind(Append(p, order[i])) = "dir"]]
  BY <1>1, <1>6, <1>7 DEF Visible
<1>9. \A i \in 1 .. n : [name |-> order[i], dir |-> Kind(Append(p, order[i])) = "dir"] \in Items
  BY <1>2, <1>7 DEF Items
<1>10. QED
  BY <1>8, <1>9

LEMMA VisibleSame ==
  ASSUME fs' = fs, NEW p
  PROVE  Visible(p, Names)' = Visible(p, Names)
BY DEF Visible, Entries, Kind

LEMMA ShownIs ==
  ASSUME NEW all \in Seq(Items), NEW x \in BOOLEAN
  PROVE  /\ Shown(all, x) \in Seq(Items) /\ Len(Shown(all, x)) = Len(all)
         /\ \A i \in 1 .. Len(all) : Shown(all, x)[i] = Show(all[i], x)
<1>1. DOMAIN all = 1 .. Len(all) /\ Len(all) \in Nat /\ \A i \in 1 .. Len(all) : all[i] \in Items
  BY LenProperties, ElementOfSeq
<1>2. \A e \in Items : Show(e, x) \in Items
  BY DEF Items, Show
<1>3. Shown(all, x) = [i \in 1 .. Len(all) |-> Show(all[i], x)]
  BY <1>1 DEF Shown, Show
<1>4. QED
  BY <1>1, <1>2, <1>3

(* A listing begins with nothing, goes on with the next entry, and ends    *)
(* when nothing is left.                                                   *)
LEMMA SplitBegin ==
  ASSUME NEW all \in Seq(Items), NEW x
  PROVE  Split(all, <<>>, all, x)
<1>1. <<>> \in Seq(Items) /\ Len(<<>>) = 0 /\ Len(all) \in Nat
  BY LenProperties
<1>2. QED
  BY <1>1 DEF Split

LEMMA SplitEnd ==
  ASSUME NEW all \in Seq(Items), NEW x \in BOOLEAN, NEW got, Split(all, got, <<>>, x)
  PROVE  got = Shown(all, x)
<1>1. got \in Seq(Items) /\ Len(got) = Len(all) /\ \A i \in 1 .. Len(got) : got[i] = Shown(all, x)[i]
  BY LenProperties DEF Split
<1>2. QED
  BY <1>1, ShownIs, SeqEqual

LEMMA SplitNext ==
  ASSUME NEW all \in Seq(Items), NEW x \in BOOLEAN, NEW got, NEW rest, Split(all, got, rest, x), rest # <<>>
  PROVE  /\ Head(rest) \in Items
         /\ Split(all, Append(got, Show(Head(rest), x)), Tail(rest), x)
<1>1. got \in Seq(Items) /\ rest \in Seq(Items) /\ Len(got) + Len(rest) = Len(all)
  BY DEF Split
<1>2. PICK n \in Nat, k \in Nat, l \in Nat : n = Len(got) /\ k = Len(rest) /\ l = Len(all)
  BY <1>1, LenProperties
<1>3. k >= 1 /\ n + k = l
  BY <1>1, <1>2, EmptySeq
<1>4. Head(rest) \in Items /\ Head(rest) = all[n + 1]
  <2>1. Head(rest) = rest[1] /\ 1 \in 1 .. k
    BY <1>1, <1>2, <1>3
  <2>2. QED
    BY <1>1, <1>2, <2>1, ElementOfSeq DEF Split
<1>5. PICK e : e = Show(Head(rest), x)
  OBVIOUS
<1>6. e \in Items /\ e = Shown(all, x)[n + 1]
  <2>1. n + 1 \in 1 .. l
    BY <1>3
  <2>2. Shown(all, x)[n + 1] = Show(all[n + 1], x)
    BY <1>2, <2>1, ShownIs
  <2>3. \A d \in Items : Show(d, x) \in Items
    BY DEF Items, Show
  <2>4. QED
    BY <1>4, <1>5, <2>2, <2>3
<1>7. /\ Append(got, e) \in Seq(Items) /\ Len(Append(got, e)) = n + 1 /\ Append(got, e)[n + 1] = e
      /\ \A i \in 1 .. n : Append(got, e)[i] = got[i]
  BY <1>1, <1>2, <1>6, AppendProperties
<1>8. /\ Tail(rest) \in Seq(Items) /\ Len(Tail(rest)) = k - 1
      /\ \A i \in 1 .. k - 1 : Tail(rest)[i] = rest[i + 1]
  BY <1>1, <1>2, <1>3
<1>9. \A i \in 1 .. n + 1 : Append(got, e)[i] = Shown(all, x)[i]
  <2>1. \A i \in 1 .. n : got[i] = Shown(all, x)[i]
    BY <1>2 DEF Split
  <2>2. \A i \in 1 .. n + 1 : i \in 1 .. n \/ i = n + 1
    OBVIOUS
  <2>3. QED
    BY <1>6, <1>7, <2>1, <2>2
<1>10. \A i \in 1 .. k - 1 : Tail(rest)[i] = all[(n + 1) + i]
  <2>1. \A i \in 1 .. k : rest[i] = all[n + i]
    BY <1>2 DEF Split
  <2>2. \A i \in 1 .. k - 1 : i + 1 \in 1 .. k /\ n + (i + 1) = (n + 1) + i
    OBVIOUS
  <2>3. QED
    BY <1>8, <2>1, <2>2
<1>11. (n + 1) + (k - 1) = l
  BY <1>3
<1>12. QED
  BY <1>2, <1>4, <1>5, <1>7, <1>8, <1>9, <1>10, <1>11 DEF Split

(* The bytes of no entry and of one.                                       *)
LEMMA BytesOf ==
  ASSUME NEW q, DOMAIN q \in {{}, {1}}, DOMAIN q = {1} => EntrySize[q[1].name] \in Nat
  PROVE  Bytes(q) = IF DOMAIN q = {} THEN 0 ELSE EntrySize[q[1].name]
<1>1. PICK S : S = DOMAIN q
  OBVIOUS
<1>2. S \in {{}, {1}}
  BY <1>1
<1>3. Max({1}) = 1
  BY DEF Max
<1>4. DEFINE step(s) == IF s = {} THEN 0 ELSE EntrySize[q[1].name]
             w == [s \in SUBSET S |-> step(s)]
<1>5. \A s \in SUBSET S : s = {} \/ s = {1}
  BY <1>2
<1>6. w = [s \in SUBSET S |-> IF s = {} THEN 0
                              ELSE w[s \ {Max(s)}] + EntrySize[q[Max(s)].name]]
  <2>1. ASSUME NEW s \in SUBSET S, s # {}
        PROVE  step(s) = w[s \ {Max(s)}] + EntrySize[q[Max(s)].name]
    <3>1. s = {1} /\ Max(s) = 1 /\ DOMAIN q = {1}
      BY <1>1, <1>2, <1>3, <1>5, <2>1
    <3>2. s \ {Max(s)} = {} /\ {} \in SUBSET S
      BY <3>1
    <3>3. w[{}] = 0
      BY <3>2
    <3>4. QED
      BY <2>1, <3>1, <3>2, <3>3
  <2>2. QED
    BY <2>1
<1>7. PICK iter : /\ iter = [s \in SUBSET S |-> IF s = {} THEN 0
                                            ELSE iter[s \ {Max(s)}] + EntrySize[q[Max(s)].name]]
                  /\ Bytes(q) = iter[S]
  <2>1. \E u : u = [s \in SUBSET S |-> IF s = {} THEN 0 ELSE u[s \ {Max(s)}] + EntrySize[q[Max(s)].name]]
    BY <1>6
  <2>2. QED
    BY <1>1, <2>1 DEF Bytes, FoldLeft, MapThenFoldSet
<1>8. iter[{}] = 0
  BY <1>7
<1>9. ASSUME S = {1} PROVE Bytes(q) = EntrySize[q[1].name]
  <2>1. iter[{1}] = iter[{1} \ {1}] + EntrySize[q[1].name]
    BY <1>3, <1>7, <1>9
  <2>2. {1} \ {1} = {}
    OBVIOUS
  <2>3. QED
    BY <1>1, <1>7, <1>8, <1>9, <2>1, <2>2
<1>10. QED
  BY <1>1, <1>2, <1>7, <1>8, <1>9

(* What the requests of a listing do to the directories of the session.    *)
LEMMA StreamOf ==
  ASSUME NEW d, DirOK(d)
  PROVE  Stream(d) \in Seq(Items)
BY ConcatProperties DEF DirOK, Stream

LEMMA OpensDir ==
  ASSUME NEW s, SessionOK(s), DOMAIN s.dirs = DirSlots, s.root = <<>>,
         NEW m, m.wf = TRUE, m.path \in Paths, m.pattern = Names, NEW o \in h_opendir(s, m)
  PROVE  /\ DOMAIN o.s.dirs = DirSlots
         /\ o.body.status = "OK" =>
               /\ ~BadPath(m.path) /\ o.body.dh \in DirSlots /\ DirOK(o.s.dirs[o.body.dh])
               /\ Stream(o.s.dirs[o.body.dh]) = Visible(m.path, Names)
         /\ o.body.status \notin {"OK", "ENOENT"} => IoFaults \/ BadPath(m.path) \/ FreeDirSlots(s) = {}
<1> DEFINE p == m.path
           h == Lowest(FreeDirSlots(s))
           left == Visible(p, Names)
           d == [in_use |-> TRUE, left |-> left, pending |-> <<>>, pos |-> 0]
           opened(body) == Outcome([s EXCEPT !.dirs[h] = d], vfs, fs, body)
           full == [status |-> "OK", dh |-> h, count |-> Len(left)]
           plain == [status |-> "OK", dh |-> h]
<1>1. resolve_path(s, m.path) = p
  BY ConcatEmptySeq DEF resolve_path, Paths
<1>2. \/ BadPath(p) /\ o \in Fails(s, "EINVAL")
      \/ FreeDirSlots(s) = {} /\ o \in Fails(s, "EMFILE")
      \/ o \in Fails(s, "ENOENT") \/ o \in Faults(s)
      \/ ~BadPath(p) /\ FreeDirSlots(s) # {} /\ (o = opened(full) \/ o = opened(plain))
  <2>1. m.wf
    OBVIOUS
  <2>2. QED
    BY <1>1, <2>1, Zenon DEF h_opendir
<1>3. ASSUME NEW st, o \in Fails(s, st)
      PROVE  DOMAIN o.s.dirs = DirSlots /\ o.body.status = st
  BY <1>3 DEF Fails, Outcome, Status
<1>4. ASSUME o \in Faults(s)
      PROVE  DOMAIN o.s.dirs = DirSlots /\ o.body.status = "EIO" /\ IoFaults
  BY <1>3, <1>4 DEF Faults
<1>5. ASSUME ~BadPath(p), FreeDirSlots(s) # {}, NEW body, body.status = "OK", body.dh = h, o = opened(body)
      PROVE  /\ DOMAIN o.s.dirs = DirSlots /\ o.body.status = "OK" /\ o.body.dh \in DirSlots
             /\ DirOK(o.s.dirs[o.body.dh]) /\ Stream(o.s.dirs[o.body.dh]) = left
  <2>1. h \in DirSlots
    <3>1. FreeDirSlots(s) \in SUBSET Nat /\ FreeDirSlots(s) \subseteq DirSlots
      BY ServerAssumption DEF FreeDirSlots
    <3>2. QED
      BY <1>5, <3>1, LowestIn
  <2>2. left \in Seq(Items)
    BY VisibleIs
  <2> HIDE DEF h, left
  <2>3. DirOK(d) /\ Stream(d) = left
    BY <2>2, EmptySeq, ConcatEmptySeq DEF DirOK, Stream
  <2> HIDE DEF d
  <2>4. o.s = [s EXCEPT !.dirs[h] = d] /\ o.body = body
    BY <1>5 DEF Outcome
  <2>5. o.s.dirs = [s.dirs EXCEPT ![h] = d]
    BY <2>4 DEF SessionOK
  <2>6. DOMAIN o.s.dirs = DirSlots /\ o.s.dirs[h] = d
    BY <2>1, <2>5
  <2>7. QED
    BY <1>5, <2>1, <2>3, <2>4, <2>6
<1>6. full.status = "OK" /\ full.dh = h /\ plain.status = "OK" /\ plain.dh = h
  OBVIOUS
<1> HIDE DEF full, plain, opened
<1>7. CASE ~BadPath(p) /\ FreeDirSlots(s) # {} /\ (o = opened(full) \/ o = opened(plain))
  BY <1>5, <1>6, <1>7
<1>8. QED
  BY <1>2, <1>3, <1>4, <1>7

(* The next entry, or none is left. *)
Reads(s, h, o) ==
    LET st == Stream(s.dirs[h])
    IN  /\ st = <<>> => o.body.status = "EOF"
        /\ st # <<>> => /\ o.body.status = "OK" /\ o.body.names = <<Head(st)>>
                        /\ DOMAIN o.s.dirs = DirSlots /\ DirOK(o.s.dirs[h])
                        /\ Stream(o.s.dirs[h]) = Tail(st)

(* The directory with its next entry taken. *)
LEMMA Advances ==
  ASSUME NEW s, SessionOK(s), DOMAIN s.dirs = DirSlots, NEW h \in DirSlots, NEW d, DOMAIN s.dirs[h] = DOMAIN d,
         DirOK(s.dirs[h]), d.in_use = TRUE, d.pending = <<>>, Stream(s.dirs[h]) # <<>>,
         d.left = Tail(Stream(s.dirs[h])), NEW t, t = [s EXCEPT !.dirs[h] = d]
  PROVE  DOMAIN t.dirs = DirSlots /\ DirOK(t.dirs[h]) /\ Stream(t.dirs[h]) = Tail(Stream(s.dirs[h]))
<1>1. PICK q : q = Tail(Stream(s.dirs[h]))
  OBVIOUS
<1>2. q \in Seq(Items)
  BY <1>1, StreamOf, HeadTailProperties
<1>3. t.dirs = [s.dirs EXCEPT ![h] = d]
  BY DEF SessionOK
<1>4. t.dirs[h] = d /\ DOMAIN t.dirs = DirSlots
  BY <1>3
<1>5. DirOK(d) /\ Stream(d) = q
  BY <1>1, <1>2, EmptySeq, ConcatEmptySeq DEF DirOK, Stream
<1>6. QED
  BY <1>1, <1>4, <1>5

LEMMA ReadsPlain ==
  ASSUME NEW s, SessionOK(s), DOMAIN s.dirs = DirSlots, NEW h \in DirSlots, DirOK(s.dirs[h]),
         NEW m, m.wf = TRUE, m.dh = h, NEW o \in h_readdir(s, m)
  PROVE  Reads(s, h, o)
<1> DEFINE st == Stream(s.dirs[h])
           after == [s EXCEPT !.dirs[h].pending = <<>>, !.dirs[h].left = Tail(st)]
<1>1. \/ st = <<>> /\ o \in Fails(s, "EOF")
      \/ st # <<>> /\ o = Outcome(after, vfs, fs, [status |-> "OK", names |-> <<Head(st)>>])
  <2>1. DirOpen(s, h) /\ m.wf
    BY DEF DirOpen, DirOK
  <2>2. QED
    BY <2>1, Zenon DEF h_readdir
<1> DEFINE d == [s.dirs[h] EXCEPT !.pending = <<>>, !.left = Tail(st)]
<1>2. after = [s EXCEPT !.dirs[h] = d]
  BY DEF SessionOK
<1>3. d.in_use = TRUE /\ d.pending = <<>> /\ d.left = Tail(st) /\ DOMAIN s.dirs[h] = DOMAIN d
  BY DEF DirOK
<1> HIDE DEF after, d
<1>4. CASE st = <<>> /\ o \in Fails(s, "EOF")
  BY <1>4 DEF Fails, Outcome, Status, Reads
<1>5. CASE st # <<>> /\ o = Outcome(after, vfs, fs, [status |-> "OK", names |-> <<Head(st)>>])
  <2>1. DOMAIN after.dirs = DirSlots /\ DirOK(after.dirs[h]) /\ Stream(after.dirs[h]) = Tail(st)
    BY <1>2, <1>3, <1>5, Advances
  <2>2. o.s = after /\ o.body.status = "OK" /\ o.body.names = <<Head(st)>>
    BY <1>5 DEF Outcome
  <2>3. QED
    BY <1>5, <2>1, <2>2 DEF Reads
<1>6. QED
  BY <1>1, <1>4, <1>5

(* One entry fits a reply. *)
LEMMA FirstEntry ==
  ASSUME NEW st \in Seq(Items), st # <<>>
  PROVE  /\ Len(st) >= 1 /\ SubSeq(st, 1, 1) = <<Head(st)>> /\ SubSeq(st, 2, Len(st)) = Tail(st)
         /\ Bytes(<<Head(st)>>) <= BodyCap
<1>1. Len(st) \in Nat /\ Len(st) >= 1
  BY EmptySeq
<1>2. PICK e : e = st[1]
  OBVIOUS
<1>3. e \in Items /\ e = Head(st)
  <2>1. 1 \in 1 .. Len(st)
    BY <1>1
  <2>2. e \in Items
    BY <1>2, <2>1, ElementOfSeq
  <2>3. QED
    BY <1>2, <2>2
<1>4. SubSeq(st, 1, 1) = <<e>>
  <2>1. \A i \in 1 .. 1 : st[i] \in Items
    BY <1>2, <1>3
  <2>2. PICK q : q = SubSeq(st, 1, 1)
    OBVIOUS
  <2>3. q \in Seq(Items) /\ Len(q) = 1 /\ \A i \in 1 .. 1 - 1 + 1 : q[i] = st[1 + i - 1]
    BY <2>1, <2>2, SubSeqProperties
  <2>4. q[1] = e
    BY <1>2, <2>3
  <2>5. <<e>> \in Seq(Items) /\ Len(<<e>>) = 1 /\ <<e>>[1] = e
    BY <1>3
  <2>6. \A i \in 1 .. Len(q) : q[i] = <<e>>[i]
    BY <2>3, <2>4, <2>5
  <2>7. QED
    BY <2>2, <2>3, <2>5, <2>6, SeqEqual
<1>5. EntrySize[e.name] \in Nat /\ EntrySize[e.name] <= BodyCap
  BY <1>3, DeviceAssumption DEF Items
<1>6. Bytes(<<e>>) = EntrySize[e.name]
  <2>1. DOMAIN <<e>> = {1} /\ <<e>>[1] = e
    OBVIOUS
  <2>2. QED
    BY <1>5, <2>1, BytesOf
<1>7. QED
  BY <1>1, <1>3, <1>4, <1>5, <1>6, TailIsSubSeq

LEMMA Fitting ==
  ASSUME NEW st \in Seq(Items), NEW fits,
         fits = {k \in 0 .. Len(st) : k <= 1 /\ Bytes(SubSeq(st, 1, k)) <= BodyCap},
         NEW n, n = CHOOSE k \in fits : \A j \in fits : j <= k
  PROVE  n = IF st = <<>> THEN 0 ELSE 1
<1>1. Len(st) \in Nat /\ BodyCap \in Nat /\ (st = <<>> => Len(st) = 0)
  BY LenProperties, EmptySeq, DeviceAssumption
<1>2. SubSeq(st, 1, 0) = <<>> /\ Bytes(<<>>) = 0
  BY SubSeqEmpty, BytesOf
<1>3. 0 \in fits /\ \A j \in fits : j \in 0 .. Len(st) /\ j <= 1
  <2>1. 0 \in 0 .. Len(st) /\ 0 <= 1 /\ 0 <= BodyCap
    BY <1>1
  <2>2. QED
    BY <1>2, <2>1
<1>4. CASE st = <<>>
  <2>1. fits = {0}
    BY <1>1, <1>3, <1>4
  <2>2. QED
    BY <1>4, <2>1
<1>5. CASE st # <<>>
  <2>1. 1 \in 0 .. Len(st) /\ Bytes(SubSeq(st, 1, 1)) <= BodyCap
    <3>1. Len(st) >= 1 /\ SubSeq(st, 1, 1) = <<Head(st)>> /\ Bytes(<<Head(st)>>) <= BodyCap
      BY <1>5, FirstEntry
    <3>2. Bytes(SubSeq(st, 1, 1)) <= BodyCap
      BY <3>1, Zenon
    <3>3. QED
      BY <1>1, <3>1, <3>2
  <2>2. 1 \in fits
    BY <2>1
  <2>3. fits = {0, 1}
    BY <1>1, <1>3, <2>2
  <2>4. n \in fits /\ \A j \in fits : j <= n
    BY <2>3
  <2>5. QED
    BY <1>5, <2>3, <2>4
<1>6. QED
  BY <1>4, <1>5

LEMMA ReadsExtended ==
  ASSUME NEW s, SessionOK(s), DOMAIN s.dirs = DirSlots, NEW m, m.dh \in DirSlots, DirOK(s.dirs[m.dh]),
         m.wf = TRUE, m.n = 1, NEW o \in h_readdirx(s, m)
  PROVE  Reads(s, m.dh, o) /\ (o.body.status = "OK" => o.body.eof = FALSE)
<1> DEFINE st == Stream(s.dirs[m.dh])
           want == IF m.n = 0 THEN 1 ELSE m.n
           fits == {k \in 0 .. Len(st) : k <= want /\ Bytes(SubSeq(st, 1, k)) <= BodyCap}
           n == CHOOSE k \in fits : \A j \in fits : j <= k
           after == [s EXCEPT !.dirs[m.dh] = dir_stash(s.dirs[m.dh], n, want)]
           body == [status |-> "OK", names |-> SubSeq(st, 1, n), eof |-> n < want /\ n = Len(st),
                    pos |-> s.dirs[m.dh].pos]
<1>1. \/ n = 0 /\ o \in {Outcome(after, vfs, fs, Status("EOF"))}
      \/ n # 0 /\ o \in {Outcome(after, vfs, fs, body)}
  <2>1. DirOpen(s, m.dh) /\ m.wf
    BY DEF DirOpen, DirOK
  <2>2. QED
    BY <2>1, Zenon DEF h_readdirx
<1>2. want = 1 /\ st \in Seq(Items) /\ Len(st) \in Nat
  BY StreamOf, LenProperties
<1>3. n = IF st = <<>> THEN 0 ELSE 1
  <2>1. fits = {k \in 0 .. Len(st) : k <= 1 /\ Bytes(SubSeq(st, 1, k)) <= BodyCap}
    BY <1>2
  <2> HIDE DEF fits, st
  <2>2. QED
    BY <1>2, <2>1, Fitting
<1> HIDE DEF n, fits, want
<1>4. CASE st = <<>>
  <2>1. o = Outcome(after, vfs, fs, Status("EOF"))
    BY <1>1, <1>3, <1>4
  <2> HIDE DEF after
  <2>2. QED
    BY <1>4, <2>1 DEF Outcome, Status, Reads
<1>5. CASE st # <<>>
  <2>1. n = 1 /\ o = Outcome(after, vfs, fs, body)
    BY <1>1, <1>3, <1>5
  <2>2. Len(st) >= 1 /\ SubSeq(st, 1, 1) = <<Head(st)>> /\ SubSeq(st, 2, Len(st)) = Tail(st)
    BY <1>2, <1>5, FirstEntry
  <2>3. o.s = after /\ o.body.status = "OK" /\ o.body.names = <<Head(st)>> /\ o.body.eof = FALSE
    <3> HIDE DEF after
    <3>1. body.status = "OK" /\ body.names = <<Head(st)>> /\ body.eof = FALSE
      <4>1. ~(n < want)
        BY <1>2, <2>1
      <4>2. QED
        BY <2>1, <2>2, <4>1
    <3> HIDE DEF body
    <3>2. QED
      BY <2>1, <3>1 DEF Outcome
  <2> DEFINE d == dir_stash(s.dirs[m.dh], n, want)
  <2>4. d.in_use = TRUE /\ d.pending = <<>> /\ d.left = Tail(st) /\ DOMAIN s.dirs[m.dh] = DOMAIN d
    <3>1. ~(n < want) /\ n + 1 = 2
      BY <1>2, <2>1
    <3>2. SubSeq(st, n + 1, Len(st)) = Tail(st)
      BY <2>2, <3>1
    <3>3. QED
      BY <3>1, <3>2 DEF dir_stash, DirOK
  <2>5. after = [s EXCEPT !.dirs[m.dh] = d]
    OBVIOUS
  <2> HIDE DEF d, after
  <2>6. DOMAIN after.dirs = DirSlots /\ DirOK(after.dirs[m.dh]) /\ Stream(after.dirs[m.dh]) = Tail(st)
    <3>1. PICK h \in DirSlots : h = m.dh
      OBVIOUS
    <3>2. /\ after = [s EXCEPT !.dirs[h] = d] /\ DOMAIN s.dirs[h] = DOMAIN d /\ DirOK(s.dirs[h])
          /\ Stream(s.dirs[h]) # <<>> /\ d.left = Tail(Stream(s.dirs[h]))
      BY <1>5, <2>4, <2>5, <3>1
    <3> HIDE DEF st
    <3>3. DOMAIN after.dirs = DirSlots /\ DirOK(after.dirs[h]) /\ Stream(after.dirs[h]) = Tail(Stream(s.dirs[h]))
      BY <2>4, <3>2, Advances
    <3>4. QED
      BY <3>1, <3>3 DEF st
  <2>7. QED
    BY <1>5, <2>3, <2>6 DEF Reads
<1>6. QED
  BY <1>4, <1>5

(* What the client asks for in the steps of a listing. *)
LEMMA ListFields ==
  ASSUME ClientOK, Calling
  PROVE  /\ call.at = "opendirx" => cmd.m.cmd = "OPENDIRX" /\ cmd.m.path = call.arg /\ cmd.m.pattern = Names
         /\ call.at = "opendir" => cmd.m.cmd = "OPENDIR" /\ cmd.m.path = call.arg /\ cmd.m.pattern = Names
         /\ call.at = "readdirx" => cmd.m.cmd = "READDIRX" /\ cmd.m.dh = call.dh /\ cmd.m.n = 1
         /\ call.at = "readdir" => cmd.m.cmd = "READDIR" /\ cmd.m.dh = call.dh
         /\ cmd.m.wf = TRUE
<1>1. CallOK(call) /\ cmd.m = Message(f, call, sent)
  BY DEF ClientOK
<1> DEFINE r == Asked(f, call)
           header == [peer |-> f.sock, tcp |-> f.tcp, sid |-> f.conn, seq |-> f.seq,
                      id |-> sent, wf |-> TRUE]
<1>2. cmd.m = WithHeader(header, r)
  BY <1>1 DEF Message
<1>3. DOMAIN header = {"peer", "tcp", "sid", "seq", "id", "wf"}
  OBVIOUS
<1> HIDE DEF header, r
<1>4. \A x \in {"cmd", "path", "pattern", "dh", "n"} : x \in DOMAIN r => cmd.m[x] = r[x]
  BY <1>2, <1>3 DEF WithHeader
<1>5. ASSUME call.at \in {"opendirx", "opendir"}
      PROVE  /\ cmd.m.cmd = IF call.at = "opendirx" THEN "OPENDIRX" ELSE "OPENDIR"
             /\ cmd.m.path = call.arg /\ cmd.m.pattern = Names
  <2> DEFINE k == IF call.at = "opendirx" THEN "OPENDIRX" ELSE "OPENDIR"
  <2>1. r = [cmd |-> k, path |-> call.arg, pattern |-> Names]
    BY <1>5, AskedIs DEF r, OpenDir
  <2>2. cmd.m.cmd = r.cmd /\ cmd.m.path = r.path /\ cmd.m.pattern = r.pattern
    BY <1>4, <2>1
  <2>3. QED
    BY <2>1, <2>2
<1>6. ASSUME call.at = "readdirx" PROVE cmd.m.cmd = "READDIRX" /\ cmd.m.dh = call.dh /\ cmd.m.n = 1
  <2>1. r = [cmd |-> "READDIRX", dh |-> call.dh, n |-> 1]
    BY <1>6, AskedIs DEF r
  <2>2. cmd.m.cmd = r.cmd /\ cmd.m.dh = r.dh /\ cmd.m.n = r.n
    BY <1>4, <2>1
  <2>3. QED
    BY <2>1, <2>2
<1>7. ASSUME call.at = "readdir" PROVE cmd.m.cmd = "READDIR" /\ cmd.m.dh = call.dh
  <2>1. r = [cmd |-> "READDIR", dh |-> call.dh]
    BY <1>7, AskedIs DEF r
  <2>2. cmd.m.cmd = r.cmd /\ cmd.m.dh = r.dh
    BY <1>4, <2>1
  <2>3. QED
    BY <2>1, <2>2
<1>8. cmd.m.wf = TRUE
  BY CommandIs DEF MessageOf
<1>9. call.at = "opendirx" => cmd.m.cmd = "OPENDIRX" /\ cmd.m.path = call.arg /\ cmd.m.pattern = Names
  BY <1>5
<1>10. call.at = "opendir" => cmd.m.cmd = "OPENDIR" /\ cmd.m.path = call.arg /\ cmd.m.pattern = Names
  BY <1>5
<1>11. QED
  BY <1>6, <1>7, <1>8, <1>9, <1>10

LEMMA RunsDirHandler ==
  ASSUME NEW slot, NEW m, NEW o, Runs(m, slot, o)
  PROVE  /\ m.cmd = "OPENDIRX" => \/ ~server.dirx /\ o \in Fails(sess[slot], "ENOSYS")
                                  \/ server.dirx /\ o \in h_opendir(sess[slot], m)
         /\ m.cmd = "OPENDIR" => o \in h_opendir(sess[slot], m)
         /\ m.cmd = "READDIRX" => o \in h_readdirx(sess[slot], m)
         /\ m.cmd = "READDIR" => o \in h_readdir(sess[slot], m)
<1>1. IF m.cmd = "OPENDIRX" /\ ~server.dirx
      THEN o \in Fails(sess[slot], "ENOSYS") ELSE o \in Handle(sess[slot], m)
  BY DEF Runs, Refuses
<1>2. /\ m.cmd \in {"OPENDIR", "OPENDIRX"} => Handle(sess[slot], m) = h_opendir(sess[slot], m)
      /\ m.cmd = "READDIRX" => Handle(sess[slot], m) = h_readdirx(sess[slot], m)
      /\ m.cmd = "READDIR" => Handle(sess[slot], m) = h_readdir(sess[slot], m)
  BY DEF Handle
<1>3. QED
  BY <1>1, <1>2

(* What a listing sends leaves the card alone. *)
LEMMA HarmlessRuns ==
  ASSUME Sessions, NEW slot \in Slots, NEW m, NEW o, Runs(m, slot, o), m.cmd \in Harmless
  PROVE  fs' = fs
<1>1. fs' = o.fs
  BY DEF Runs, Finished
<1>2. SessionOK(sess[slot]) /\ VfsOK(vfs)
  BY Ready DEF ServerReady, TableOK
<1>3. CASE Refuses(m)
  BY <1>1, <1>3 DEF Runs, Fails, Outcome
<1>4. CASE ~Refuses(m)
  <2>1. o \in Handle(sess[slot], m)
    BY <1>4 DEF Runs
  <2>2. CASE m.cmd = "UMOUNT"
    BY <1>1, <2>1, <2>2 DEF Handle, Outcome
  <2>3. CASE m.cmd # "UMOUNT"
    <3>1. \/ m.cmd \in {"OPENDIR", "OPENDIRX"} /\ Handle(sess[slot], m) = h_opendir(sess[slot], m)
          \/ Handle(sess[slot], m) = h_readdir(sess[slot], m)
          \/ Handle(sess[slot], m) = h_readdirx(sess[slot], m)
          \/ Handle(sess[slot], m) = h_closedir(sess[slot], m)
      BY <2>3 DEF Handle, Harmless
    <3>2. o \in h_opendir(sess[slot], m) \union h_readdir(sess[slot], m) \union h_readdirx(sess[slot], m)
                \union h_closedir(sess[slot], m)
      BY <2>1, <3>1
    <3>3. QED
      BY <1>1, <1>2, <3>2, DirStep
  <2>4. QED
    BY <2>2, <2>3
<1>5. QED
  BY <1>3, <1>4

LEMMA WantedSame ==
  ASSUME fs' = fs, call'.arg = call.arg
  PROVE  Wanted' = Wanted
<1>1. PICK p : p = call.arg
  OBVIOUS
<1>2. Visible(p, Names)' = Visible(p, Names)
  BY VisibleSame
<1>3. Wanted = Visible(p, Names)
  BY <1>1 DEF Wanted
<1>4. Wanted' = Visible(p, Names)'
  BY <1>1 DEF Wanted
<1>5. QED
  BY <1>2, <1>3, <1>4

(* An entry is read: it is in the reply, and the rest is left. *)
LEMMA LeavesNext ==
  ASSUME NEW slot, SessionOK(sess[slot]), NEW h, NEW got, NEW x \in BOOLEAN, Leaves(slot, h, got, x), NEW o, Reads(sess[slot], h, o),
         sess'[slot].dirs = o.s.dirs, fs' = fs, call' = call
  PROVE  /\ o.body.status = "EOF" => got = Shown(Wanted, x)
         /\ o.body.status = "OK" => \E e \in Items :
               o.body.names = <<e>> /\ Leaves(slot, h, Append(got, Show(e, x)), x)'
<1>1. PICK st : st = Stream(sess[slot].dirs[h])
  OBVIOUS
<1>2. PICK all : all = Wanted
  OBVIOUS
<1>3. all \in Seq(Items) /\ Wanted' = all
  <2>1. PICK p : p = call.arg
    OBVIOUS
  <2>2. all = Visible(p, Names)
    BY <1>2, <2>1 DEF Wanted
  <2>3. QED
    BY <1>2, <2>2, VisibleIs, WantedSame
<1>4. Split(all, got, st, x) /\ h \in DirSlots
  BY <1>1, <1>2 DEF Leaves
<1>5. CASE st = <<>>
  <2>1. got = Shown(all, x)
    BY <1>3, <1>4, <1>5, SplitEnd
  <2>2. o.body.status = "EOF"
    BY <1>1, <1>5 DEF Reads
  <2>3. QED
    BY <1>2, <2>1, <2>2
<1>6. CASE st # <<>>
  <2>1. /\ o.body.status = "OK" /\ o.body.names = <<Head(st)>>
        /\ DOMAIN sess'[slot].dirs = DirSlots /\ DirOK(sess'[slot].dirs[h])
        /\ Stream(sess'[slot].dirs[h]) = Tail(st)
    BY <1>1, <1>6 DEF Reads
  <2>2. Head(st) \in Items /\ Split(all, Append(got, Show(Head(st), x)), Tail(st), x)
    BY <1>3, <1>4, <1>6, SplitNext
  <2>3. PICK e \in Items : e = Head(st)
    BY <2>2
  <2>4. PICK more : more = Append(got, Show(e, x))
    OBVIOUS
  <2>5. Leaves(slot, h, more, x)'
    BY <1>3, <1>4, <2>1, <2>2, <2>3, <2>4 DEF Leaves
  <2>6. QED
    BY <2>1, <2>3, <2>4, <2>5
<1>7. QED
  BY <1>5, <1>6

(* The directories of the client's session while a request is carried out. *)
LEMMA RunsListed ==
  ASSUME OnceInv, Going, Live, call.op = "list_dir", call.at # "mount", Gathered,
         UNCHANGED <<f, call, cmd, sent, clean, server>>, fs' = fs,
         NEW m \in Range(inbox), NEW slot \in Slots, NEW o, Runs(m, slot, o),
         \A s \in Slots : Mine(s) => DirPlaced(s)
  PROVE  \A s \in Slots : Mine(s)' => DirPlaced(s)'
<1>1. Sessions /\ ClientOK /\ Calling
  <2>1. call # NoCall
    BY DEF NoCall
  <2>2. QED
    BY <2>1 DEF OnceInv, ClientOK
<1>2. CallOK(call) /\ call.at \in ListSteps
  BY <1>1 DEF ClientOK, CallOK, Live
<1>3. /\ m = cmd.m /\ m.cmd # "UMOUNT" /\ Mine(slot)
      /\ \A t \in Slots : Mine(t)' => t = slot
      /\ sess'[slot].reply.body = o.body /\ ~Executed /\ Executed'
  <2>1. /\ ~Executed /\ (m = cmd.m \/ m.cmd \in Before) /\ m.cmd # "UMOUNT" /\ Mine(slot)
        /\ \A t \in Slots : Mine(t)' => t = slot
        /\ sess'[slot].reply = [seq |-> m.seq, cmd |-> m.cmd, body |-> o.body]
        /\ Executed' <=> m.id = sent
    BY <1>1, RunsMine DEF Live
  <2>2. Before = {}
    BY <1>1, <1>2 DEF Before, ListSteps
  <2>3. cmd.m.id = sent
    BY <1>1, CommandFits
  <2>4. QED
    BY <2>1, <2>2, <2>3
<1>4. DirPlaced(slot) /\ sess'[slot].dirs = o.s.dirs
  BY <1>3 DEF Runs, Finished
<1>5. /\ call' = call /\ server' = server /\ f' = f
      /\ \A x : NoExtended(x)' <=> NoExtended(x)
  BY DEF NoExtended
<1>6. SessionOK(sess[slot]) /\ sess[slot].root = <<>>
  BY <1>1, <1>3, Ready DEF ServerReady, TableOK, Sessions, Mine
<1>7. call.arg \in Paths
  BY <1>2, DeviceAssumption DEF CallOK, ListSteps
<1>8. ASSUME call.at \in {"opendirx", "opendir"}, o \in h_opendir(sess[slot], m), m.path = call.arg, m.pattern = Names,
             m.wf = TRUE
      PROVE  /\ DOMAIN sess'[slot].dirs = DirSlots
             /\ o.body.status = "OK" => ~BadPath(call.arg) /\ o.body.dh \in DirSlots
                                        /\ \A x \in BOOLEAN : Leaves(slot, sess[slot].reply.body.dh, <<>>, x)'
             /\ o.body.status \notin {"OK", "ENOENT"} =>
                   IoFaults \/ BadPath(call.arg) \/ FreeDirSlots(sess[slot]) = {}
  <2>1. DOMAIN sess[slot].dirs = DirSlots
    BY <1>4, <1>8 DEF DirPlaced
  <2>2. PICK all : all = Visible(m.path, Names)
    OBVIOUS
  <2>3. all \in Seq(Items) /\ Wanted' = all
    BY <1>5, <1>8, <2>2, VisibleIs, WantedSame DEF Wanted
  <2>4. /\ DOMAIN o.s.dirs = DirSlots
        /\ o.body.status = "OK" =>
              /\ ~BadPath(m.path) /\ o.body.dh \in DirSlots /\ DirOK(o.s.dirs[o.body.dh])
              /\ Stream(o.s.dirs[o.body.dh]) = all
        /\ o.body.status \notin {"OK", "ENOENT"} =>
              IoFaults \/ BadPath(m.path) \/ FreeDirSlots(sess[slot]) = {}
    BY <1>6, <1>7, <1>8, <2>1, <2>2, OpensDir
  <2>5. \A x \in BOOLEAN : Split(all, <<>>, all, x)
    BY <2>3, SplitBegin
  <2>6. o.body.status = "OK" => \A x \in BOOLEAN : Leaves(slot, sess[slot].reply.body.dh, <<>>, x)'
    BY <1>3, <1>4, <2>3, <2>4, <2>5 DEF Leaves
  <2>7. QED
    BY <1>4, <1>8, <2>4, <2>6
<1>9. CASE call.at = "opendirx"
  <2>1. m.cmd = "OPENDIRX" /\ m.path = call.arg /\ m.pattern = Names /\ m.wf = TRUE
    BY <1>1, <1>3, <1>9, ListFields
  <2>2. sess[slot].dirs = Blank.dirs
    BY <1>3, <1>4, <1>9 DEF DirPlaced
  <2>3. FreeDirSlots(sess[slot]) = DirSlots /\ DOMAIN sess[slot].dirs = DirSlots
    BY <2>2 DEF FreeDirSlots, Blank, FreeDir
  <2>4. CASE ~server.dirx /\ o \in Fails(sess[slot], "ENOSYS")
    <3>1. o.s = sess[slot] /\ o.body.status = "ENOSYS"
      BY <2>4 DEF Fails, Outcome, Status
    <3>2. NoExtended(call.arg)
      BY <2>4 DEF NoExtended
    <3>3. QED
      BY <1>3, <1>4, <1>5, <1>9, <2>3, <3>1, <3>2 DEF DirPlaced, Done
  <2>5. CASE server.dirx /\ o \in h_opendir(sess[slot], m)
    <3>1. /\ DOMAIN sess'[slot].dirs = DirSlots
          /\ o.body.status = "OK" => Leaves(slot, sess[slot].reply.body.dh, <<>>, TRUE)'
          /\ o.body.status \notin {"OK", "ENOENT"} => NoExtended(call.arg)
      BY <1>8, <1>9, <2>1, <2>3, <2>5 DEF NoExtended
    <3>2. QED
      BY <1>3, <1>4, <1>5, <1>9, <2>5, <3>1 DEF DirPlaced, Done
  <2>6. QED
    BY <2>1, <2>4, <2>5, RunsDirHandler
<1>10. CASE call.at = "opendir"
  <2>1. m.cmd = "OPENDIR" /\ m.path = call.arg /\ m.pattern = Names /\ m.wf = TRUE
    BY <1>1, <1>3, <1>10, ListFields
  <2>2. o \in h_opendir(sess[slot], m)
    BY <2>1, RunsDirHandler
  <2>3. /\ DOMAIN sess'[slot].dirs = DirSlots
        /\ o.body.status = "OK" => ~BadPath(call.arg) /\ DirSlots # {}
                                   /\ Leaves(slot, sess[slot].reply.body.dh, <<>>, FALSE)'
    BY <1>8, <1>10, <2>1, <2>2
  <2>4. QED
    BY <1>3, <1>5, <1>10, <2>3 DEF DirPlaced, Done
<1>11. ASSUME NEW x \in BOOLEAN, call.at = IF x THEN "readdirx" ELSE "readdir"
       PROVE  ReadPlaced(slot, x)'
  <2>1. Leaves(slot, call.dh, call.got, x)
    BY <1>3, <1>4, <1>11 DEF DirPlaced, ReadPlaced
  <2>2. DOMAIN sess[slot].dirs = DirSlots /\ call.dh \in DirSlots /\ DirOK(sess[slot].dirs[call.dh])
    BY <2>1 DEF Leaves
  <2>3. m.dh = call.dh /\ m.wf = TRUE /\ (x => m.cmd = "READDIRX" /\ m.n = 1) /\ (~x => m.cmd = "READDIR")
    BY <1>1, <1>3, <1>11, ListFields
  <2>4. Reads(sess[slot], m.dh, o) /\ (x => (o.body.status = "OK" => o.body.eof = FALSE))
    <3>1. CASE x
      <4>1. o \in h_readdirx(sess[slot], m)
        BY <2>3, <3>1, RunsDirHandler
      <4>2. QED
        BY <1>6, <2>2, <2>3, <3>1, <4>1, ReadsExtended
    <3>2. CASE ~x
      <4>1. o \in h_readdir(sess[slot], m)
        BY <2>3, <3>2, RunsDirHandler
      <4>2. PICK h \in DirSlots : h = m.dh
        BY <2>2, <2>3
      <4>3. Reads(sess[slot], h, o)
        BY <1>6, <2>2, <2>3, <4>1, <4>2, ReadsPlain
      <4>4. QED
        BY <3>2, <4>2, <4>3
    <3>3. QED
      BY <3>1, <3>2
  <2>5. PICK h, got : h = call.dh /\ got = call.got
    OBVIOUS
  <2>6. /\ o.body.status = "EOF" => got = Shown(Wanted, x)
        /\ o.body.status = "OK" => \E e \in Items :
              o.body.names = <<e>> /\ Leaves(slot, h, Append(got, Show(e, x)), x)'
    BY <1>4, <1>5, <1>6, <2>1, <2>3, <2>4, <2>5, LeavesNext
  <2>7. Wanted' = Wanted
    BY <1>5, WantedSame
  <2>8. Done(slot)' => \E e \in Items :
              /\ o.body.names = <<e>> /\ (x => ~o.body.eof)
              /\ Leaves(slot, call.dh, Append(call.got, Show(e, x)), x)'
    <3>1. ASSUME Done(slot)'
          PROVE  \E e \in Items : /\ o.body.names = <<e>> /\ (x => ~o.body.eof)
                                  /\ Leaves(slot, call.dh, Append(call.got, Show(e, x)), x)'
      <4>1. o.body.status = "OK"
        BY <1>3, <3>1 DEF Done
      <4>2. PICK e \in Items : o.body.names = <<e>> /\ Leaves(slot, h, Append(got, Show(e, x)), x)'
        BY <2>6, <4>1
      <4>3. Leaves(slot, call.dh, Append(call.got, Show(e, x)), x)'
        BY <1>5, <2>5, <4>2 DEF Leaves
      <4>4. QED
        BY <2>4, <4>1, <4>2, <4>3
    <3>2. QED
      BY <3>1
  <2>9. call'.got \in Seq(Items)
    BY <1>5, <2>1 DEF Leaves, Split
  <2>10. QED
    BY <1>3, <1>5, <2>5, <2>6, <2>7, <2>8, <2>9 DEF ReadPlaced
<1>12. CASE call.at \in {"readdirx", "readdir"}
  <2>1. call'.at \notin {"opendirx", "opendir"} /\ call'.at = call.at
    BY <1>5, <1>12
  <2>2. CASE call.at = "readdirx"
    <3>1. ReadPlaced(slot, TRUE)'
      BY <1>11, <2>2
    <3>2. DirPlaced(slot)'
      BY <2>1, <2>2, <3>1 DEF DirPlaced
    <3>3. QED
      BY <1>3, <3>2
  <2>3. CASE call.at = "readdir"
    <3>1. ReadPlaced(slot, FALSE)'
      BY <1>11, <2>3
    <3>2. DirPlaced(slot)'
      BY <2>1, <2>3, <3>1 DEF DirPlaced
    <3>3. QED
      BY <1>3, <3>2
  <2>4. QED
    BY <1>12, <2>2, <2>3
<1>13. QED
  BY <1>2, <1>3, <1>9, <1>10, <1>12 DEF ListSteps

(* How a listing comes to its next step, or to its result.                 *)
Plain(names) == [i \in DOMAIN names |-> [names[i] EXCEPT !.dir = FALSE]]
Continues(c, r, o) ==
    LET d == o.call
    IN  /\ o.ask = <<>> =>
              /\ o.ret[1].op = "list_dir" /\ o.ret[1].arg = c.arg
              /\ o.ret[1].err = "ESP_OK" => c.at = "umount" /\ c.err = "ESP_OK" /\ o.ret[1].got = c.got
        /\ o.ask # <<>> =>
              /\ d.op = "list_dir" /\ d.arg = c.arg
              /\ d.at = "mount" => c.at = "mount" /\ d.got = c.got
              /\ c.at = "mount" /\ d.at # "mount" => r.status = "OK"
              /\ d.at = "opendirx" => c.at = "mount" /\ d.got = c.got /\ r.status = "OK"
              /\ d.at = "opendir" =>
                    c.at = "opendirx" /\ d.got = c.got /\ r.status \notin {"OK", "ENOENT", "timeout"}
              /\ d.at = "readdirx" => r.status = "OK" /\
                    \/ c.at = "opendirx" /\ d.dh = r.dh /\ d.got = c.got
                    \/ c.at = "readdirx" /\ d.dh = c.dh /\ d.got = c.got \o r.names
              /\ d.at = "readdir" => r.status = "OK" /\
                    \/ c.at = "opendir" /\ d.dh = r.dh /\ d.got = c.got
                    \/ c.at = "readdir" /\ d.dh = c.dh /\ d.got = c.got \o Plain(r.names)
              /\ d.at = "closedir" /\ d.err = "ESP_OK" =>
                    \/ c.at \in {"readdirx", "readdir"} /\ r.status = "EOF" /\ d.got = c.got
                    \/ c.at = "readdirx" /\ r.status = "OK" /\ r.eof
              /\ d.at = "umount" /\ d.err = "ESP_OK" => c.at = "closedir" /\ c.err = "ESP_OK" /\ d.got = c.got

LEMMA StatusFails ==
  ASSUME NEW r, r.status # "OK"
  PROVE  status_err(r) # "ESP_OK"
BY DEF status_err

LEMMA ListContinues ==
  ASSUME NEW file, NEW c, CallOK(c), c.op = "list_dir", NEW r
  PROVE  Continues(c, r, After(file, c, r))
<1> DEFINE o == After(file, c, r)
           wide == {"op", "at", "arg", "got", "err", "off", "left", "dh"}
<1>1. DOMAIN c = wide /\ c.at \in {"mount", "closedir", "umount"} \union ListSteps
  BY DEF CallOK
<1>2. ASSUME NEW g, NEW d, NEW at, NEW request, DOMAIN d = wide, o = Ask(g, d, at, request)
      PROVE  /\ o.ask # <<>> /\ o.call.at = at /\ o.call.op = d.op /\ o.call.arg = d.arg
             /\ o.call.got = d.got /\ o.call.err = d.err /\ o.call.dh = d.dh
  BY <1>2 DEF Ask
<1>3. ASSUME NEW g, NEW err, o = Return(g, c, err)
      PROVE  /\ o.ask = <<>> /\ o.ret[1].op = c.op /\ o.ret[1].arg = c.arg
             /\ o.ret[1].got = c.got /\ o.ret[1].err = err
  BY <1>3 DEF Return
<1>4. ASSUME NEW d, DOMAIN d = wide, NEW err, o = Closedir(file, d, err)
      PROVE  /\ o.ask # <<>> /\ o.call.at = "closedir" /\ o.call.op = d.op /\ o.call.arg = d.arg
             /\ o.call.got = d.got /\ o.call.err = err
  <2>1. PICK b : b = [d EXCEPT !.err = err]
    OBVIOUS
  <2>2. DOMAIN b = wide /\ b.op = d.op /\ b.arg = d.arg /\ b.got = d.got /\ b.err = err
    BY <1>4, <2>1
  <2>3. \E request : o = Ask(file, b, "closedir", request)
    BY <1>4, <2>1 DEF Closedir
  <2> HIDE DEF o
  <2>4. QED
    BY <1>2, <2>2, <2>3
<1>5. ASSUME c.at = "mount" PROVE Continues(c, r, o)
  <2> DEFINE mounted == [file EXCEPT !.conn = Reply.sid]
             again == [file EXCEPT !.sock = @ + 1, !.tcp = TRUE]
  <2>1. o = AfterMount(file, c, r)
    BY <1>5 DEF After
  <2>2. \/ r.status = "OK" /\ o = tnfs_list_dir(mounted, c)
        \/ o = tnfs_try(file, c, TRUE)
        \/ o = Return([NoFile EXCEPT !.sock = file.sock], c, "ESP_ERR_TIMEOUT")
    BY <2>1 DEF AfterMount
  <2>3. CASE r.status = "OK" /\ o = tnfs_list_dir(mounted, c)
    <3>1. o = Ask(mounted, c, "opendirx", OpenDir(c, "OPENDIRX"))
      BY <2>3 DEF tnfs_list_dir
    <3> HIDE DEF o, mounted
    <3>2. o.ask # <<>> /\ o.call.at = "opendirx" /\ o.call.op = c.op /\ o.call.arg = c.arg /\ o.call.got = c.got
      BY <1>1, <1>2, <3>1
    <3>3. QED
      BY <1>5, <2>3, <3>2 DEF Continues
  <2>4. CASE o = tnfs_try(file, c, TRUE)
    <3>1. \E g : o = Ask(g, c, "mount", [cmd |-> "MOUNT", path |-> <<>>])
      BY <2>4 DEF tnfs_try, tnfs_mount_root
    <3> HIDE DEF o, mounted, again
    <3>2. o.ask # <<>> /\ o.call.at = "mount" /\ o.call.op = c.op /\ o.call.arg = c.arg /\ o.call.got = c.got
      BY <1>1, <1>2, <3>1
    <3>3. QED
      BY <1>5, <3>2 DEF Continues
  <2>5. CASE o = Return([NoFile EXCEPT !.sock = file.sock], c, "ESP_ERR_TIMEOUT")
    <3> HIDE DEF o, mounted, again
    <3>1. o.ask = <<>> /\ o.ret[1].op = c.op /\ o.ret[1].arg = c.arg /\ o.ret[1].err = "ESP_ERR_TIMEOUT"
      BY <1>3, <2>5
    <3>2. QED
      BY <3>1 DEF Continues
  <2>6. QED
    BY <2>2, <2>3, <2>4, <2>5
<1>6. ASSUME c.at = "opendirx" PROVE Continues(c, r, o)
  <2> DEFINE d == [c EXCEPT !.dh = r.dh]
  <2>1. o = tnfs_listx(file, c, r)
    BY <1>6 DEF After
  <2>2. \/ r.status = "OK" /\ o = ReadDirx(file, d)
        \/ r.status # "OK" /\ o = Closedir(file, c, status_err(r))
        \/ r.status \notin {"OK", "ENOENT", "timeout"} /\ o = Ask(file, c, "opendir", OpenDir(c, "OPENDIR"))
    BY <2>1 DEF tnfs_listx
  <2>3. DOMAIN d = wide /\ d.op = c.op /\ d.arg = c.arg /\ d.got = c.got /\ d.dh = r.dh
    BY <1>1
  <2> HIDE DEF d
  <2>4. CASE r.status = "OK" /\ o = ReadDirx(file, d)
    <3>1. \E request : o = Ask(file, d, "readdirx", request)
      BY <2>4 DEF ReadDirx
    <3> HIDE DEF o
    <3>2. o.ask # <<>> /\ o.call.at = "readdirx" /\ o.call.op = d.op /\ o.call.arg = d.arg
          /\ o.call.got = d.got /\ o.call.dh = d.dh
      BY <1>2, <2>3, <3>1
    <3>3. QED
      BY <1>6, <2>3, <2>4, <3>2 DEF Continues
  <2>5. CASE r.status # "OK" /\ o = Closedir(file, c, status_err(r))
    <3>1. PICK err : err = status_err(r) /\ err # "ESP_OK"
      BY <2>5, StatusFails
    <3> HIDE DEF o
    <3>2. o.ask # <<>> /\ o.call.at = "closedir" /\ o.call.op = c.op /\ o.call.arg = c.arg /\ o.call.err = err
      BY <1>1, <1>4, <2>5, <3>1
    <3>3. QED
      BY <1>6, <3>1, <3>2 DEF Continues
  <2>6. CASE r.status \notin {"OK", "ENOENT", "timeout"} /\ o = Ask(file, c, "opendir", OpenDir(c, "OPENDIR"))
    <3> HIDE DEF o
    <3>1. o.ask # <<>> /\ o.call.at = "opendir" /\ o.call.op = c.op /\ o.call.arg = c.arg /\ o.call.got = c.got
      BY <1>1, <1>2, <2>6
    <3>2. QED
      BY <1>6, <2>6, <3>1 DEF Continues
  <2>7. QED
    BY <2>2, <2>4, <2>5, <2>6
<1>7. ASSUME c.at = "readdirx" PROVE Continues(c, r, o)
  <2> DEFINE d == [c EXCEPT !.got = @ \o r.names]
  <2>1. o = AfterReadDirx(file, c, r)
    BY <1>7 DEF After
  <2>2. \/ r.status = "EOF" /\ o = Closedir(file, c, "ESP_OK")
        \/ r.status # "OK" /\ o = Closedir(file, c, status_err(r))
        \/ r.status = "OK" /\ r.eof /\ o = Closedir(file, d, "ESP_OK")
        \/ r.status = "OK" /\ o = ReadDirx(file, d)
    BY <2>1 DEF AfterReadDirx
  <2>3. DOMAIN d = wide /\ d.op = c.op /\ d.arg = c.arg /\ d.got = c.got \o r.names /\ d.dh = c.dh
    BY <1>1
  <2> HIDE DEF d
  <2>4. CASE r.status = "OK" /\ o = ReadDirx(file, d)
    <3>0. DOMAIN d = wide
      BY <2>3
    <3>1. \E request : o = Ask(file, d, "readdirx", request)
      BY <2>4 DEF ReadDirx
    <3> HIDE DEF o
    <3>2. o.ask # <<>> /\ o.call.at = "readdirx" /\ o.call.op = d.op /\ o.call.arg = d.arg
          /\ o.call.got = d.got /\ o.call.dh = d.dh
      BY <1>2, <3>0, <3>1
    <3>3. QED
      BY <1>7, <2>3, <2>4, <3>2 DEF Continues
  <2>5. CASE r.status # "OK" /\ o = Closedir(file, c, status_err(r))
    <3>1. PICK err : err = status_err(r) /\ err # "ESP_OK"
      BY <2>5, StatusFails
    <3> HIDE DEF o
    <3>2. o.ask # <<>> /\ o.call.at = "closedir" /\ o.call.op = c.op /\ o.call.arg = c.arg /\ o.call.err = err
      BY <1>1, <1>4, <2>5, <3>1
    <3>3. QED
      BY <1>7, <3>1, <3>2 DEF Continues
  <2>6. CASE r.status = "EOF" /\ o = Closedir(file, c, "ESP_OK")
    <3> HIDE DEF o
    <3>1. o.ask # <<>> /\ o.call.at = "closedir" /\ o.call.op = c.op /\ o.call.arg = c.arg /\ o.call.got = c.got
      BY <1>1, <1>4, <2>6
    <3>2. QED
      BY <1>7, <2>6, <3>1 DEF Continues
  <2>7. CASE r.status = "OK" /\ r.eof /\ o = Closedir(file, d, "ESP_OK")
    <3> HIDE DEF o
    <3>1. o.ask # <<>> /\ o.call.at = "closedir" /\ o.call.op = d.op /\ o.call.arg = d.arg
      BY <1>4, <2>3, <2>7
    <3>2. QED
      BY <1>7, <2>3, <2>7, <3>1 DEF Continues
  <2>8. QED
    BY <2>2, <2>4, <2>5, <2>6, <2>7
<1>8. ASSUME c.at = "opendir" PROVE Continues(c, r, o)
  <2> DEFINE d == [c EXCEPT !.dh = r.dh]
  <2>1. o = tnfs_list_basic(file, c, r)
    BY <1>8 DEF After
  <2>2. \/ r.status = "OK" /\ o = ReadDir(file, d)
        \/ r.status # "OK" /\ o = Closedir(file, c, status_err(r))
    BY <2>1 DEF tnfs_list_basic
  <2>3. DOMAIN d = wide /\ d.op = c.op /\ d.arg = c.arg /\ d.got = c.got /\ d.dh = r.dh
    BY <1>1
  <2> HIDE DEF d
  <2>4. CASE r.status = "OK" /\ o = ReadDir(file, d)
    <3>1. \E request : o = Ask(file, d, "readdir", request)
      BY <2>4 DEF ReadDir
    <3> HIDE DEF o
    <3>2. o.ask # <<>> /\ o.call.at = "readdir" /\ o.call.op = d.op /\ o.call.arg = d.arg
          /\ o.call.got = d.got /\ o.call.dh = d.dh
      BY <1>2, <2>3, <3>1
    <3>3. QED
      BY <1>8, <2>3, <2>4, <3>2 DEF Continues
  <2>5. CASE r.status # "OK" /\ o = Closedir(file, c, status_err(r))
    <3>1. PICK err : err = status_err(r) /\ err # "ESP_OK"
      BY <2>5, StatusFails
    <3> HIDE DEF o
    <3>2. o.ask # <<>> /\ o.call.at = "closedir" /\ o.call.op = c.op /\ o.call.arg = c.arg /\ o.call.err = err
      BY <1>1, <1>4, <2>5, <3>1
    <3>3. QED
      BY <1>8, <3>1, <3>2 DEF Continues
  <2>6. QED
    BY <2>2, <2>4, <2>5
<1>9. ASSUME c.at = "readdir" PROVE Continues(c, r, o)
  <2> DEFINE d == [c EXCEPT !.got = @ \o Plain(r.names)]
  <2>1. o = AfterReadDir(file, c, r)
    BY <1>9 DEF After
  <2>2. \/ r.status = "EOF" /\ o = Closedir(file, c, "ESP_OK")
        \/ r.status # "OK" /\ o = Closedir(file, c, status_err(r))
        \/ r.status = "OK" /\ o = ReadDir(file, d)
    BY <2>1 DEF AfterReadDir, Plain
  <2>3. DOMAIN d = wide /\ d.op = c.op /\ d.arg = c.arg /\ d.got = c.got \o Plain(r.names) /\ d.dh = c.dh
    BY <1>1
  <2> HIDE DEF d
  <2>4. CASE r.status = "OK" /\ o = ReadDir(file, d)
    <3>0. DOMAIN d = wide
      BY <2>3
    <3>1. \E request : o = Ask(file, d, "readdir", request)
      BY <2>4 DEF ReadDir
    <3> HIDE DEF o
    <3>2. o.ask # <<>> /\ o.call.at = "readdir" /\ o.call.op = d.op /\ o.call.arg = d.arg
          /\ o.call.got = d.got /\ o.call.dh = d.dh
      BY <1>2, <3>0, <3>1
    <3>3. QED
      BY <1>9, <2>3, <2>4, <3>2 DEF Continues
  <2>5. CASE r.status # "OK" /\ o = Closedir(file, c, status_err(r))
    <3>1. PICK err : err = status_err(r) /\ err # "ESP_OK"
      BY <2>5, StatusFails
    <3> HIDE DEF o
    <3>2. o.ask # <<>> /\ o.call.at = "closedir" /\ o.call.op = c.op /\ o.call.arg = c.arg /\ o.call.err = err
      BY <1>1, <1>4, <2>5, <3>1
    <3>3. QED
      BY <1>9, <3>1, <3>2 DEF Continues
  <2>6. CASE r.status = "EOF" /\ o = Closedir(file, c, "ESP_OK")
    <3> HIDE DEF o
    <3>1. o.ask # <<>> /\ o.call.at = "closedir" /\ o.call.op = c.op /\ o.call.arg = c.arg /\ o.call.got = c.got
      BY <1>1, <1>4, <2>6
    <3>2. QED
      BY <1>9, <2>6, <3>1 DEF Continues
  <2>7. QED
    BY <2>2, <2>4, <2>5, <2>6
<1>10. ASSUME c.at = "closedir" PROVE Continues(c, r, o)
  <2>1. PICK d : d = [c EXCEPT !.err = c.err]
    OBVIOUS
  <2>2. DOMAIN d = wide /\ d.op = c.op /\ d.arg = c.arg /\ d.got = c.got /\ d.err = c.err
    BY <1>1, <2>1
  <2>3. o = Ask(file, d, "umount", [cmd |-> "UMOUNT"])
    BY <1>10, <2>1 DEF After, Umount
  <2> HIDE DEF o
  <2>4. o.ask # <<>> /\ o.call.at = "umount" /\ o.call.op = d.op /\ o.call.arg = d.arg
        /\ o.call.got = d.got /\ o.call.err = d.err
    BY <1>2, <2>2, <2>3
  <2>5. QED
    BY <1>10, <2>2, <2>4 DEF Continues
<1>11. ASSUME c.at = "umount" PROVE Continues(c, r, o)
  <2>1. \E g : o = Return(g, c, c.err)
    BY <1>11 DEF After, Umounted
  <2> HIDE DEF o
  <2>2. o.ask = <<>> /\ o.ret[1].op = c.op /\ o.ret[1].arg = c.arg /\ o.ret[1].got = c.got /\ o.ret[1].err = c.err
    BY <1>3, <2>1
  <2>3. QED
    BY <1>11, <2>2 DEF Continues
<1>12. QED
  BY <1>1, <1>5, <1>6, <1>7, <1>8, <1>9, <1>10, <1>11 DEF ListSteps

(* Another call goes on as what it is, and says what it is.                *)
Keeps(c, o) == IF o.ask = <<>> THEN o.ret[1].op = c.op ELSE o.call.op = c.op

LEMMA AfterKeeps ==
  ASSUME NEW file, NEW c, CallOK(c), NEW r
  PROVE  Keeps(c, After(file, c, r))
<1> DEFINE o == After(file, c, r)
           wide == {"op", "at", "arg", "got", "err", "off", "left", "dh"}
<1>1. DOMAIN c = wide
  BY DEF CallOK
<1>2. ASSUME NEW g, NEW d, NEW at, NEW request, DOMAIN d = wide, d.op = c.op, o = Ask(g, d, at, request)
      PROVE  Keeps(c, o)
  BY <1>2 DEF Ask, Keeps
<1>3. ASSUME NEW g, NEW d, d.op = c.op, NEW err, o = Return(g, d, err)
      PROVE  Keeps(c, o)
  BY <1>3 DEF Return, Keeps
<1>4. ASSUME NEW g, NEW d, DOMAIN d = wide, d.op = c.op,
             o = tnfs_seek(g, d) \/ o = Transfer(g, d) \/ o = tnfs_open(g, d) \/ o = tnfs_query_size(g, d)
      PROVE  Keeps(c, o)
  <2>1. \E at, request : o = Ask(g, d, at, request)
    BY <1>4 DEF tnfs_seek, Transfer, tnfs_open, tnfs_query_size
  <2> HIDE DEF o
  <2>2. QED
    BY <1>2, <1>4, <2>1
<1>5. ASSUME NEW g, NEW err, o = Umount(g, c, err)
      PROVE  Keeps(c, o)
  <2>1. PICK d : d = [c EXCEPT !.err = err]
    OBVIOUS
  <2>2. DOMAIN d = wide /\ d.op = c.op
    BY <1>1, <2>1
  <2>3. o = Ask(g, d, "umount", [cmd |-> "UMOUNT"])
    BY <1>5, <2>1 DEF Umount
  <2> HIDE DEF o
  <2>4. QED
    BY <1>2, <2>2, <2>3
<1>6. ASSUME NEW x, NEW g, o = NextChunk(g, c, x)
      PROVE  Keeps(c, o)
  <2> DEFINE rest == [c EXCEPT !.off = @ + 1, !.left = Tail(@), !.got = Append(@, x)]
             moved == [g EXCEPT !.pos = @ + 1]
  <2>1. o = Return(moved, rest, "ESP_OK") \/ o = tnfs_seek(moved, rest)
    BY <1>6 DEF NextChunk
  <2>2. DOMAIN rest = wide /\ rest.op = c.op
    BY <1>1
  <2> HIDE DEF o, rest, moved
  <2>3. QED
    BY <1>3, <1>4, <2>1, <2>2
<1>7. CASE c.op = "list_dir"
  <2>1. Continues(c, r, o)
    BY <1>7, ListContinues
  <2> HIDE DEF o
  <2>2. QED
    BY <1>7, <2>1 DEF Continues, Keeps, o
<1>8. ASSUME c.op # "list_dir", c.at = "mount" PROVE Keeps(c, o)
  <2> DEFINE mounted == [file EXCEPT !.conn = Reply.sid]
             again == [file EXCEPT !.sock = @ + 1, !.tcp = TRUE]
  <2>1. o = AfterMount(file, c, r) /\ c.op = "open"
    BY <1>8 DEF After, CallOK, ListSteps
  <2>2. \/ o = tnfs_open(mounted, c)
        \/ o = tnfs_try(file, c, TRUE)
        \/ o = Return([NoFile EXCEPT !.sock = file.sock], c, "ESP_ERR_TIMEOUT")
    BY <2>1 DEF AfterMount
  <2>3. o = tnfs_try(file, c, TRUE) => \E g : o = Ask(g, c, "mount", [cmd |-> "MOUNT", path |-> <<>>])
    BY DEF tnfs_try, tnfs_mount_root
  <2> HIDE DEF o, mounted
  <2>4. QED
    BY <1>1, <1>2, <1>3, <1>4, <2>2, <2>3
<1>9. ASSUME c.at = "umount" PROVE Keeps(c, o)
  <2>1. \E g : o = Return(g, c, c.err)
    BY <1>9 DEF After, Umounted
  <2> HIDE DEF o
  <2>2. QED
    BY <1>3, <2>1
<1>10. ASSUME c.at = "open" PROVE Keeps(c, o)
  <2> DEFINE opened == [file EXCEPT !.fd = r.fd, !.size = 0, !.pos_valid = FALSE]
  <2>1. o = AfterOpen(file, c, r)
    BY <1>10 DEF After
  <2>2. \/ o = Umount(file, c, status_err(r))
        \/ o = Return(opened, c, "ESP_OK")
        \/ o = tnfs_query_size(opened, c)
    BY <2>1 DEF AfterOpen
  <2> HIDE DEF o, opened
  <2>3. QED
    BY <1>1, <1>3, <1>4, <1>5, <2>2
<1>11. ASSUME c.at = "size" PROVE Keeps(c, o)
  <2>1. o = AfterSize(file, c, r)
    BY <1>11 DEF After
  <2>2. \E g : o = Return(g, c, "ESP_OK")
    BY <2>1 DEF AfterSize
  <2> HIDE DEF o
  <2>3. QED
    BY <1>3, <2>2
<1>12. ASSUME c.at \in IoSteps PROVE Keeps(c, o)
  <2> DEFINE broken == [file EXCEPT !.pos_valid = FALSE]
             sought == [file EXCEPT !.pos = c.off, !.pos_valid = TRUE]
             grown == [file EXCEPT !.size = IF c.off + 1 > @ THEN c.off + 1 ELSE @]
  <2>1. \/ o = AfterSeek(file, c, r) \/ o = tnfs_read_at(file, c, r) \/ o = tnfs_write_at(file, c, r)
    <3>1. c.at = "seek" => o = AfterSeek(file, c, r)
      BY DEF After
    <3>2. c.at = "read" => o = tnfs_read_at(file, c, r)
      BY DEF After
    <3>3. c.at = "write" => o = tnfs_write_at(file, c, r)
      BY DEF After
    <3> HIDE DEF o
    <3>4. QED
      BY <1>12, <3>1, <3>2, <3>3 DEF IoSteps
  <2>2. \/ o = Broken(file, c, r) \/ o = Transfer(sought, c)
        \/ o = NextChunk(file, c, r.data[1]) \/ o = NextChunk(grown, c, Head(c.left))
    BY <2>1 DEF AfterSeek, tnfs_read_at, tnfs_write_at
  <2>3. o = Broken(file, c, r) => \E err : o = Return(broken, c, err)
    BY DEF Broken
  <2> HIDE DEF o, broken, sought, grown
  <2>4. QED
    BY <1>1, <1>3, <1>4, <1>6, <2>2, <2>3
<1>13. ASSUME c.at = "close" PROVE Keeps(c, o)
  <2>1. o = Umount(file, c, "ESP_OK")
    BY <1>13 DEF After
  <2> HIDE DEF o
  <2>2. QED
    BY <1>5, <2>1
<1>14. QED
  BY <1>7, <1>8, <1>9, <1>10, <1>11, <1>12, <1>13 DEF CallOK, IoSteps

(* What the answer to a command of a listing says.                         *)
Said(r) ==
    /\ call.at = "mount" /\ r.status = "OK" => Executed
    /\ call.at = "opendirx" /\ r.status = "OK" => server.dirx
    /\ call.at = "opendirx" /\ r.status \notin {"OK", "ENOENT", "timeout"} => NoExtended(call.arg)
    /\ call.at = "opendir" /\ r.status = "OK" => ~BadPath(call.arg) /\ DirSlots # {}
    /\ call.at \in {"readdirx", "readdir"} /\ r.status = "EOF" => Exact(call.arg, call.got)
    /\ call.at = "readdirx" /\ r.status = "OK" => ~r.eof

LEMMA ListReply ==
  ASSUME OnceInv, FreshInv, Live, Calling, outbox # <<>>, Accepts, Reply.body.status # "EAGAIN"
  PROVE  Executed /\ \E s \in Slots : Mine(s) /\ Reply.body = sess[s].reply.body
<1>1. Current(Reply) /\ Reply \in Range(outbox)
  BY AcceptsCurrent DEF OnceInv, FreshInv, Queues
<1>2. Executed /\ \E s \in Slots : Mine(s) /\ Reply = Datagram(sess[s])
  BY <1>1 DEF FreshInv, Going, Replies
<1>3. QED
  BY <1>2 DEF Datagram

LEMMA SaidTimeout == Said(Timeout)
BY DEF Said, Timeout

LEMMA SaidReply ==
  ASSUME OnceInv, FreshInv, ListInv, Calling, call.op = "list_dir", outbox # <<>>, Accepts,
         Reply.body.status # "EAGAIN"
  PROVE  Said(Reply.body)
<1>1. Gathered
  BY DEF ListInv, Told
<1>2. CASE call.at \in {"closedir", "umount"}
  BY <1>2 DEF Said
<1>3. CASE call.at \notin {"closedir", "umount"}
  <2>1. call.at # "close"
    BY DEF OnceInv, ClientOK, CallOK, ListSteps
  <2>2. Live
    BY <1>1, <1>3, <2>1 DEF Live, Gathered
  <2>3. PICK s \in Slots : Executed /\ Mine(s) /\ Reply.body = sess[s].reply.body
    BY <2>2, ListReply
  <2>4. DirPlaced(s)
    BY <2>2, <2>3 DEF ListInv
  <2>5. PICK r : r = Reply.body
    OBVIOUS
  <2>6. r = sess[s].reply.body
    BY <2>3, <2>5
  <2>7. call.at = "readdirx" =>
           (r.status = "EOF" => Exact(call.arg, call.got)) /\ (r.status = "OK" => ~r.eof)
    <3>1. ASSUME call.at = "readdirx" PROVE ReadPlaced(s, TRUE) /\ TRUE \in Kinds
      BY <1>1, <2>4, <3>1 DEF DirPlaced, Gathered
    <3>2. QED
      BY <2>3, <2>6, <3>1 DEF ReadPlaced, Exact, Wanted, Done
  <2>8. call.at = "readdir" /\ r.status = "EOF" => Exact(call.arg, call.got)
    <3>1. ASSUME call.at = "readdir" PROVE ReadPlaced(s, FALSE) /\ FALSE \in Kinds
      BY <1>1, <2>4, <3>1 DEF DirPlaced, Gathered
    <3>2. QED
      BY <2>3, <2>6, <3>1 DEF ReadPlaced, Exact, Wanted
  <2>9. /\ call.at = "opendirx" /\ r.status = "OK" => server.dirx
        /\ call.at = "opendirx" /\ r.status \notin {"OK", "ENOENT", "timeout"} => NoExtended(call.arg)
        /\ call.at = "opendir" /\ r.status = "OK" => ~BadPath(call.arg) /\ DirSlots # {}
    BY <2>3, <2>4, <2>6 DEF DirPlaced, Done
  <2>10. Said(r)
    BY <2>3, <2>7, <2>8, <2>9 DEF Said
  <2>11. QED
    BY <2>5, <2>10
<1>4. QED
  BY <1>2, <1>3

LEMMA ExactSame ==
  ASSUME UNCHANGED <<server, fs>>, NEW p, NEW got, Exact(p, got)
  PROVE  Exact(p, got)'
<1>1. Visible(p, Names)' = Visible(p, Names)
  BY VisibleSame
<1>2. Kinds' = Kinds
  BY DEF Kinds
<1>3. QED
  BY <1>1, <1>2 DEF Exact

(* A listing goes on with what it has.                                     *)
LEMMA GatheredNext ==
  ASSUME server \in Servers, Gathered, NEW r, Said(r), NEW o, Continues(call, r, o), o.ask # <<>>, call' = o.call,
         clean', UNCHANGED <<server, fs>>
  PROVE  Gathered'
<1>1. server.dirx \in BOOLEAN
  BY DeviceAssumption
<1>2. Kinds' = Kinds /\ \A p : NoExtended(p)' <=> NoExtended(p)
  BY DEF Kinds, NoExtended
<1>3. call'.arg = call.arg
  BY DEF Continues
<1>4. call'.at \in {"mount", "opendirx", "opendir"} => call'.got = <<>>
  BY DEF Continues, Gathered
<1>5. call'.at = "opendir" => NoExtended(call.arg)
  BY DEF Continues, Said
<1>6. call'.at = "readdirx" => TRUE \in Kinds
  <2>1. server.dirx => TRUE \in Kinds
    BY <1>1 DEF Kinds
  <2>2. QED
    BY <2>1 DEF Continues, Said, Gathered
<1>7. call'.at = "readdir" => FALSE \in Kinds
  <2>1. NoExtended(call.arg) /\ ~BadPath(call.arg) /\ DirSlots # {} => FALSE \in Kinds
    BY <1>1 DEF Kinds, NoExtended
  <2>2. QED
    BY <2>1 DEF Continues, Said, Gathered
<1>8. call'.at \in {"closedir", "umount"} /\ call'.err = "ESP_OK" => Exact(call.arg, call'.got)
  BY DEF Continues, Said, Gathered
<1>9. ASSUME call'.at \in {"closedir", "umount"}, call'.err = "ESP_OK"
      PROVE  Exact(call.arg, call.got)'
  <2>1. PICK p, got : p = call.arg /\ got = call'.got
    OBVIOUS
  <2>2. Exact(p, got)'
    BY <1>8, <1>9, <2>1, ExactSame
  <2>3. QED
    BY <1>3, <2>1, <2>2 DEF Exact
<1>10. QED
  BY <1>2, <1>3, <1>4, <1>5, <1>6, <1>7, <1>9 DEF Gathered

(* What the client goes on with: an answer, or none.                       *)
GoesOn(r, o) ==
    /\ Calling
    /\ r = Timeout \/ (outbox # <<>> /\ Accepts /\ Reply.body.status # "EAGAIN" /\ r = Reply.body)
    /\ \E file : o = After(file, call, r) /\ OutcomeOK(o, file.sock)
    /\ Proceed(o)
    /\ clean => clean' \/ cmd.m.cmd = "LSEEK"

LEMMA CallGoesOn ==
  ASSUME ClientOK, ClientNext
  PROVE  SameCommand \/ Call \/ \E r, o : GoesOn(r, o)
<1>1. Calling => FileReady(f) /\ CallOK(call) /\ server \in Servers /\ cmd.m.seq \in Nat
  <2>1. Calling => MessageOf(cmd.m, f, call, sent) /\ CallOK(call) /\ FileReady(f)
    BY CommandIs
  <2>2. QED
    BY <2>1, SeqNumbers DEF ClientOK, MessageOf, FileReady, FileOK
<1>2. Calling /\ Retransmit => SameCommand
  BY DEF Retransmit, SameCommand, ClientOK
<1>3. ASSUME Calling, GiveUp PROVE \E r, o : GoesOn(r, o)
  <2>1. PICK o : o = After(f, call, Timeout)
    OBVIOUS
  <2>2. OutcomeOK(o, f.sock)
    BY <1>1, <1>3, <2>1, AfterOK
  <2>3. Proceed(o) /\ (clean => clean' \/ cmd.m.cmd = "LSEEK")
    BY <1>3, <2>1 DEF GiveUp, ClientOK
  <2>4. GoesOn(Timeout, o)
    BY <1>3, <2>1, <2>2, <2>3 DEF GoesOn
  <2>5. QED
    BY <2>4
<1>4. CASE TimesOut
  BY <1>2, <1>3, <1>4 DEF TimesOut
<1>5. CASE Backoff
  BY <1>2, <1>3, <1>5 DEF Backoff
<1>6. CASE Discard
  BY <1>6 DEF Discard, SameCommand, clientVars, ClientOK
<1>7. CASE Responds
  <2>1. Calling /\ outbox # <<>> /\ Accepts /\ Reply.body.status # "EAGAIN" /\ clean' = clean
    BY <1>7 DEF Responds
  <2>2. PICK file : file = [f EXCEPT !.seq = (cmd.m.seq + 1) % SeqLimit]
    OBVIOUS
  <2>3. FileReady(file)
    BY <1>1, <2>1, <2>2, AdvancedFile
  <2>4. PICK r, o : r = Reply.body /\ o = After(file, call, r)
    OBVIOUS
  <2>5. OutcomeOK(o, file.sock)
    BY <1>1, <2>1, <2>3, <2>4, AfterOK
  <2>6. Proceed(o)
    BY <1>7, <2>2, <2>4 DEF Responds
  <2>7. GoesOn(r, o)
    BY <2>1, <2>4, <2>5, <2>6 DEF GoesOn
  <2>8. QED
    BY <2>7
<1>8. QED
  BY <1>4, <1>5, <1>6, <1>7 DEF ClientNext

(* The commands of a listing. *)
LEMMA ListNames ==
  ASSUME NEW file, NEW c, c.at \in {"closedir", "umount"} \union ListSteps
  PROVE  Asked(file, c).cmd \in Harmless
<1>1. c.at = "closedir" => Asked(file, c).cmd = "CLOSEDIR"
  BY AskedIs
<1>2. c.at = "umount" => Asked(file, c).cmd = "UMOUNT"
  BY AskedIs
<1>3. c.at \in ListSteps => Asked(file, c).cmd \in Harmless
  BY CommandNames DEF ListSteps, Harmless
<1>4. QED
  BY <1>1, <1>2, <1>3 DEF Harmless

LEMMA ListCommand ==
  ASSUME ClientOK, Calling, call.op = "list_dir"
  PROVE  cmd.m.cmd # "LSEEK" /\ (call.at # "mount" => cmd.m.cmd \in Harmless)
<1>1. MessageOf(cmd.m, f, call, sent) /\ CallOK(call)
  BY CommandIs
<1>2. call.at \in {"mount", "closedir", "umount"} \union ListSteps
  BY <1>1 DEF CallOK
<1>3. cmd.m.cmd = Asked(f, call).cmd
  BY <1>1 DEF MessageOf
<1>4. call.at = "mount" => Asked(f, call).cmd = "MOUNT"
  BY CommandNames
<1>5. call.at # "mount" => Asked(f, call).cmd \in Harmless
  BY <1>2, ListNames
<1>6. QED
  BY <1>3, <1>4, <1>5 DEF Harmless

LEMMA NextListCommand ==
  ASSUME ClientOK', Calling', server' = server, call'.op = "list_dir", call'.at # "mount"
  PROVE  cmd'.m.cmd \in Harmless
<1>1. MessageOf(cmd'.m, f', call', sent') /\ CallOK(call')
  BY NextCommandIs
<1>2. PICK m, file, c, id : m = cmd'.m /\ file = f' /\ c = call' /\ id = sent'
  OBVIOUS
<1>3. c.at \in {"closedir", "umount"} \union ListSteps
  BY <1>1, <1>2 DEF CallOK
<1>4. Asked(file, c).cmd \in Harmless
  BY <1>3, ListNames
<1>5. m.cmd = Asked(file, c).cmd
  BY <1>1, <1>2 DEF MessageOf
<1>6. QED
  BY <1>2, <1>4, <1>5

LEMMA GoesOnTold ==
  ASSUME OnceInv, OnceInv', FreshInv, ListInv, NEW r, NEW o, GoesOn(r, o), UNCHANGED <<done, fs, server>>
  PROVE  Told'
<1>1. Calling /\ CallOK(call) /\ server \in Servers
  BY DEF GoesOn, OnceInv, ClientOK
<1>2. PICK file : o = After(file, call, r) /\ OutcomeOK(o, file.sock) /\ Proceed(o)
  BY DEF GoesOn
<1>3. /\ call' = o.call
      /\ (o.ask # <<>> /\ Asks) \/ (o.ask = <<>> /\ Stops /\ last' = o.ret[1])
  BY <1>2, ProceedIs
<1>4. Stops => call'.op = "none" /\ call'.at = "idle"
  BY DEF Stops, OnceInv, ClientOK, NoCall
<1>5. Asks => Calling' /\ last'.op = "none"
  BY DEF Asks, NoResult
<1>6. CASE call.op # "list_dir"
  <2>1. Keeps(call, o)
    BY <1>1, <1>2, AfterKeeps
  <2>2. call'.op # "list_dir" /\ last'.op # "list_dir"
    BY <1>3, <1>4, <1>5, <1>6, <2>1 DEF Keeps
  <2>3. Calling' => last'.op = "none"
    BY <1>3, <1>5 DEF Stops
  <2>4. QED
    BY <2>2, <2>3 DEF Told, Listing, Listed
<1>7. CASE call.op = "list_dir"
  <2>1. Continues(call, r, o)
    BY <1>1, <1>2, <1>7, ListContinues
  <2>2. Gathered
    BY <1>7 DEF ListInv, Told
  <2>3. Said(r)
    <3>1. r = Timeout => Said(r)
      BY SaidTimeout
    <3>2. r # Timeout => Said(r)
      BY <1>1, <1>7, SaidReply DEF GoesOn
    <3>3. QED
      BY <3>1, <3>2
  <2>4. clean'
    BY <1>1, <1>7, <2>2, ListCommand DEF GoesOn, Gathered, OnceInv
  <2>5. call.at # "mount" => Still
    BY <1>1, <1>7 DEF ListInv, Told, Listing
  <2>6. inbox \in Seq(Range(inbox)) /\ \A x \in Range(inbox) : x.id \in done.id .. sent
    BY DEF OnceInv, Queues, Flying
  <2>7. CASE o.ask # <<>> /\ Asks
    <3>1. Gathered'
      BY <1>1, <1>3, <2>1, <2>2, <2>3, <2>4, <2>7, GatheredNext
    <3>2. ASSUME call'.at # "mount", NEW x \in Range(inbox'), x.id > done.id
          PROVE  x.cmd \in Harmless
      <4>1. CASE x \in Range(inbox)
        <5>1. call.at = "mount" => Executed
          BY <1>3, <2>1, <2>3, <2>7, <3>2 DEF Continues, Said
        <5>2. ~Executed
          BY <2>6, <3>2, <4>1 DEF Executed, OnceInv, ClientOK
        <5>3. QED
          BY <2>5, <3>2, <4>1, <5>1, <5>2 DEF Still
      <4>2. CASE x = cmd'.m
        <5>1. call'.op = "list_dir"
          BY <1>3, <2>1, <2>7 DEF Continues
        <5>2. QED
          BY <1>5, <2>7, <3>2, <4>2, <5>1, NextListCommand DEF OnceInv
      <4>3. Range(inbox') \subseteq Range(inbox) \union {cmd'.m}
        BY <2>6, <2>7, Sent DEF Asks, Send
      <4>4. QED
        BY <3>2, <4>1, <4>2, <4>3
    <3>3. call'.at # "mount" => Still'
      BY <3>2 DEF Still
    <3>4. QED
      BY <1>5, <2>7, <3>1, <3>3 DEF Told, Listing, Listed
  <2>8. CASE o.ask = <<>> /\ Stops /\ last' = o.ret[1]
    <3>1. ~Calling' /\ inbox' = inbox
      BY <2>8 DEF Stops
    <3>2. ASSUME Listed' PROVE Still' /\ Exact(last.arg, last.got)'
      <4>1. call.at = "umount" /\ call.err = "ESP_OK" /\ last'.got = call.got /\ last'.arg = call.arg
        BY <2>1, <2>8, <3>2 DEF Continues, Listed
      <4>2. Exact(call.arg, call.got)
        BY <2>2, <4>1 DEF Gathered
      <4>3. PICK p, got : p = call.arg /\ got = call.got
        OBVIOUS
      <4>4. Exact(p, got)'
        BY <4>2, <4>3, ExactSame
      <4>5. Still'
        BY <2>5, <3>1, <4>1 DEF Still
      <4>6. QED
        BY <4>1, <4>3, <4>4, <4>5 DEF Exact
    <3>3. QED
      BY <1>4, <2>8, <3>1, <3>2 DEF Told, Listing
  <2>9. QED
    BY <1>3, <2>7, <2>8
<1>8. QED
  BY <1>6, <1>7

(* A listing begins with nothing. *)
LEMMA CallTold ==
  ASSUME OnceInv', Call
  PROVE  Told'
<1>1. Calling'
  BY CallAsks
<1>2. ASSUME NEW o, Proceed(o), NEW g, NEW c, NEW at, NEW request, o = Ask(g, c, at, request)
      PROVE  last'.op = "none" /\ call' = [c EXCEPT !.at = at]
  <2>1. o.ask # <<>> /\ o.call = [c EXCEPT !.at = at]
    BY <1>2 DEF Ask
  <2>2. QED
    BY <1>2, <2>1 DEF Proceed, NoResult
<1>3. ASSUME last'.op = "none", call'.op # "list_dir"
      PROVE  Told'
  BY <1>3 DEF Told, Listing, Listed
<1>4. ASSUME clean', NEW p, Proceed(tnfs_try(f, Begin("list_dir", p), FALSE))
      PROVE  Told'
  <2>0. PICK o : o = tnfs_try(f, Begin("list_dir", p), FALSE)
    BY Zenon
  <2>1. Proceed(o) /\ \E g : o = Ask(g, Begin("list_dir", p), "mount", [cmd |-> "MOUNT", path |-> <<>>])
    BY <1>4, <2>0, Zenon DEF tnfs_try, tnfs_mount_root
  <2>2. last'.op = "none" /\ call' = [Begin("list_dir", p) EXCEPT !.at = "mount"]
    BY <1>2, <2>1
  <2>3. call'.at = "mount" /\ call'.got = <<>>
    BY <2>2 DEF Begin
  <2>4. QED
    BY <1>4, <2>2, <2>3 DEF Told, Gathered, Listing, Listed
<1>5. ASSUME NEW a, Proceed(tnfs_try(f, Begin("open", a), FALSE))
      PROVE  Told'
  <2>0. PICK o : o = tnfs_try(f, Begin("open", a), FALSE)
    BY Zenon
  <2>1. Proceed(o) /\ \E g : o = Ask(g, Begin("open", a), "mount", [cmd |-> "MOUNT", path |-> <<>>])
    BY <1>5, <2>0, Zenon DEF tnfs_try, tnfs_mount_root
  <2>2. last'.op = "none" /\ call' = [Begin("open", a) EXCEPT !.at = "mount"]
    BY <1>2, <2>1
  <2>3. call'.op = "open"
    BY <2>2 DEF Begin
  <2>4. QED
    BY <1>3, <2>2, <2>3
<1>6. ASSUME NEW op \in {"read_at", "write_at"}, NEW a,
             Proceed(tnfs_seek(f, [Begin(op, a) EXCEPT !.off = a.off, !.left = a.cells]))
      PROVE  Told'
  <2>1. PICK c : c = [Begin(op, a) EXCEPT !.off = a.off, !.left = a.cells]
    OBVIOUS
  <2>0. PICK o : o = tnfs_seek(f, c)
    OBVIOUS
  <2>2. Proceed(o) /\ \E at, request : o = Ask(f, c, at, request)
    <3>1. Proceed(o)
      BY <1>6, <2>0, <2>1, Zenon
    <3>2. \E at, request : o = Ask(f, c, at, request)
      BY <2>0 DEF tnfs_seek, Transfer
    <3>3. QED
      BY <3>1, <3>2
  <2>3. last'.op = "none" /\ \E at : call' = [c EXCEPT !.at = at]
    BY <1>2, <2>2
  <2>4. call'.op = op
    BY <2>1, <2>3 DEF Begin
  <2>5. op # "list_dir"
    OBVIOUS
  <2>6. QED
    BY <1>3, <2>3, <2>4, <2>5
<1>7. ASSUME Proceed(Ask(f, Begin("close", 0), "close", [cmd |-> "CLOSE", fd |-> f.fd]))
      PROVE  Told'
  <2>1. last'.op = "none" /\ call' = [Begin("close", 0) EXCEPT !.at = "close"]
    BY <1>2, <1>7
  <2>2. call'.op = "close"
    BY <2>1 DEF Begin
  <2>3. QED
    BY <1>3, <2>1, <2>2
<1>8. \/ \E a : Proceed(tnfs_try(f, Begin("open", a), FALSE))
      \/ clean' /\ \E p : Proceed(tnfs_try(f, Begin("list_dir", p), FALSE))
      \/ \E op \in {"read_at", "write_at"} : \E a :
            Proceed(tnfs_seek(f, [Begin(op, a) EXCEPT !.off = a.off, !.left = a.cells]))
      \/ Proceed(Ask(f, Begin("close", 0), "close", [cmd |-> "CLOSE", fd |-> f.fd]))
  BY Zenon DEF Call
<1>9. QED
  BY <1>4, <1>5, <1>6, <1>7, <1>8, Zenon

(* Nothing changes but what is under way. *)
LEMMA QuietTold ==
  ASSUME Told, UNCHANGED <<call, last, clean, server, fs>>,
         (Listing \/ Listed) /\ Still => Still'
  PROVE  Told'
<1>1. Calling' = Calling /\ Listing' = Listing /\ Listed' = Listed
  BY DEF Calling, Listing, Listed
<1>2. Kinds' = Kinds /\ \A p : NoExtended(p)' <=> NoExtended(p)
  BY DEF Kinds, NoExtended
<1>3. ASSUME NEW p, NEW got, Exact(p, got) PROVE Exact(p, got)'
  BY <1>3, ExactSame
<1>4. PICK p, got, q, has : p = call.arg /\ got = call.got /\ q = last.arg /\ has = last.got
  OBVIOUS
<1>5. Exact(call.arg, call.got) => Exact(call.arg, call.got)'
  <2>1. Exact(p, got) => Exact(p, got)'
    BY <1>3
  <2>2. QED
    BY <1>4, <2>1 DEF Exact
<1>6. Exact(last.arg, last.got) => Exact(last.arg, last.got)'
  <2>1. Exact(q, has) => Exact(q, has)'
    BY <1>3
  <2>2. QED
    BY <1>4, <2>1 DEF Exact
<1>7. Gathered => Gathered'
  BY <1>2, <1>5 DEF Gathered
<1>8. QED
  BY <1>1, <1>6, <1>7 DEF Told

LEMMA SameTold ==
  ASSUME OnceInv, Told, SameCommand, UNCHANGED <<server, fs, done>>
  PROVE  Told'
<1>1. UNCHANGED <<call, last, clean>> /\ inbox \in Seq(Range(inbox))
      /\ (inbox' = inbox \/ (Calling /\ inbox' = Send(inbox, cmd.m)))
  BY DEF SameCommand, OnceInv, Queues
<1>2. Range(inbox') \subseteq Range(inbox) \union (IF Calling THEN {cmd.m} ELSE {})
  BY <1>1, Sent DEF Send
<1>3. ASSUME Still, Listing \/ Listed PROVE Still'
  <2>1. Calling => Listing
    BY <1>3 DEF Told, Listed
  <2>2. Calling => cmd.m.cmd \in Harmless
    BY <2>1, ListCommand DEF Listing, OnceInv
  <2>3. QED
    BY <1>2, <1>3, <2>2 DEF Still
<1>4. QED
  BY <1>1, <1>3, QuietTold

(* The entries of a reply join those that are listed.                      *)
LEMMA PlainJoins ==
  ASSUME NEW got \in Seq(Items), NEW e \in Items
  PROVE  got \o <<e>> = Append(got, Show(e, TRUE)) /\ got \o Plain(<<e>>) = Append(got, Show(e, FALSE))
<1>1. Show(e, TRUE) = e
  BY DEF Items, Show
<1>2. PICK d : d = Show(e, FALSE)
  OBVIOUS
<1>3. d = [e EXCEPT !.dir = FALSE]
  BY <1>2 DEF Items, Show
<1>4. Plain(<<e>>) = <<d>>
  <2>1. DOMAIN <<e>> = {1} /\ <<e>>[1] = e
    OBVIOUS
  <2>2. Plain(<<e>>) = [i \in {1} |-> d]
    BY <1>3, <2>1 DEF Plain
  <2>3. <<d>> = [i \in {1} |-> d]
    OBVIOUS
  <2>4. QED
    BY <2>2, <2>3
<1>5. d \in Items
  BY <1>3 DEF Items
<1>6. got \o <<e>> = Append(got, e) /\ got \o <<d>> = Append(got, d)
  BY <1>5, AppendIsConcat
<1>7. QED
  BY <1>1, <1>2, <1>4, <1>6

LEMMA AnswersListed ==
  ASSUME OnceInv, OnceInv', FreshInv, ListInv, Live, NEW o, Answers(o), call'.op = "list_dir",
         UNCHANGED <<sess, fs, done, server>>
  PROVE  \A s \in Slots : Mine(s)' => DirPlaced(s)'
<1>1. PICK s \in Slots : Mine(s) /\ Reply = Datagram(sess[s]) /\ \A t \in Slots : Mine(t)' => t = s
  BY AnswersGoes
<1>2. Executed /\ Calling /\ CallOK(call)
  BY AnswerIs DEF Current, OnceInv, ClientOK
<1>3. PICK r : r = Reply.body
  OBVIOUS
<1>4. r = sess[s].reply.body
  BY <1>1, <1>3 DEF Datagram
<1>5. o = After(Advanced, call, r) /\ call' = o.call
  BY <1>3 DEF Answers
<1>6. o.ask # <<>> /\ Asks
  <2>1. Stops => call'.op = "none"
    BY DEF Stops, OnceInv, ClientOK, NoCall
  <2>2. QED
    BY <2>1 DEF Answers
<1>7. ~Executed'
  BY <1>6, NotYet DEF Asks
<1>8. call.op = "list_dir"
  BY <1>2, <1>5, <1>6, AfterKeeps DEF Keeps
<1>9. Continues(call, r, o)
  BY <1>2, <1>5, <1>8, ListContinues
<1>10. Gathered /\ DirPlaced(s) /\ Going
  BY <1>1, <1>8 DEF ListInv, Told, FreshInv
<1>11. Wanted' = Wanted
  BY <1>5, <1>6, <1>9, WantedSame DEF Continues
<1>12. \A h, got : \A x \in BOOLEAN : Leaves(s, h, got, x) =>
          Leaves(s, h, got, x)' /\ got \in Seq(Items)
  BY <1>11 DEF Leaves, Split
<1>13. r.status = "OK" => Done(s)
  BY <1>2, <1>4 DEF Done
<1>14. CASE call'.at = "opendirx"
  <2>1. call.at = "mount"
    BY <1>5, <1>6, <1>9, <1>14 DEF Continues
  <2>2. sess[s].dirs = Blank.dirs /\ DOMAIN Blank.dirs = DirSlots
    BY <1>1, <1>10, <2>1 DEF Going, Mounting, Blank
  <2>3. DirPlaced(s)'
    BY <1>7, <1>14, <2>2 DEF DirPlaced, Done
  <2>4. QED
    BY <1>1, <2>3
<1>15. CASE call'.at = "opendir"
  <2>1. call.at = "opendirx"
    BY <1>5, <1>6, <1>9, <1>15 DEF Continues
  <2>2. DOMAIN sess[s].dirs = DirSlots
    BY <1>10, <2>1 DEF DirPlaced
  <2>3. DirPlaced(s)'
    BY <1>7, <1>15, <2>2 DEF DirPlaced, Done
  <2>4. QED
    BY <1>1, <2>3
<1>16. ASSUME NEW x \in BOOLEAN, call'.at = IF x THEN "readdirx" ELSE "readdir"
       PROVE  ReadPlaced(s, x)'
  <2>1. /\ Done(s)
        /\ \/ call.at = (IF x THEN "opendirx" ELSE "opendir") /\ call'.dh = r.dh /\ call'.got = call.got
           \/ /\ call.at = (IF x THEN "readdirx" ELSE "readdir") /\ call'.dh = call.dh
              /\ call'.got = call.got \o IF x THEN r.names ELSE Plain(r.names)
    BY <1>5, <1>6, <1>9, <1>13, <1>16 DEF Continues
  <2>2. CASE call.at = (IF x THEN "opendirx" ELSE "opendir") /\ call'.dh = r.dh /\ call'.got = call.got
    <3>1. call'.got = <<>>
      BY <1>10, <2>2 DEF Gathered
    <3>2. Leaves(s, call'.dh, call'.got, x)
      BY <1>4, <1>10, <2>1, <2>2, <3>1 DEF DirPlaced
    <3>3. PICK h, got : h = call'.dh /\ got = call'.got
      OBVIOUS
    <3>4. Leaves(s, h, got, x)' /\ got \in Seq(Items)
      BY <1>12, <3>2, <3>3
    <3>5. QED
      BY <1>7, <3>3, <3>4 DEF ReadPlaced, Done
  <2>3. CASE /\ call.at = (IF x THEN "readdirx" ELSE "readdir") /\ call'.dh = call.dh
             /\ call'.got = call.got \o IF x THEN r.names ELSE Plain(r.names)
    <3>1. ReadPlaced(s, x)
      BY <1>10, <2>3 DEF DirPlaced
    <3>2. PICK e \in Items : r.names = <<e>> /\ Leaves(s, call.dh, Append(call.got, Show(e, x)), x)
      BY <1>4, <2>1, <3>1 DEF ReadPlaced
    <3>3. PICK h, got : h = call.dh /\ got = Append(call.got, Show(e, x))
      OBVIOUS
    <3>4. call'.got = got
      <4>1. call.got \in Seq(Items)
        BY <3>1 DEF ReadPlaced
      <4>2. call.got \o <<e>> = Append(call.got, Show(e, TRUE))
            /\ call.got \o Plain(<<e>>) = Append(call.got, Show(e, FALSE))
        BY <4>1, PlainJoins
      <4>3. QED
        BY <2>3, <3>2, <3>3, <4>2
    <3>5. Leaves(s, h, got, x)' /\ got \in Seq(Items)
      BY <1>12, <3>2, <3>3
    <3>6. QED
      BY <1>7, <2>3, <3>3, <3>4, <3>5 DEF ReadPlaced, Done
  <2>4. QED
    BY <2>1, <2>2, <2>3
<1>17. CASE call'.at \notin {"opendirx", "opendir"}
  <2>1. call'.at = "readdirx" => ReadPlaced(s, TRUE)'
    BY <1>16
  <2>2. call'.at = "readdir" => ReadPlaced(s, FALSE)'
    BY <1>16
  <2>3. DirPlaced(s)'
    BY <1>17, <2>1, <2>2 DEF DirPlaced
  <2>4. QED
    BY <1>1, <2>3
<1>18. QED
  BY <1>14, <1>15, <1>17

LEMMA QuietListed ==
  ASSUME ListInv, UNCHANGED <<f, call, sent, clean, server, fs, done>>, Told',
         \A s \in Slots : Mine(s)' => Mine(s) /\ sess'[s] = sess[s]
  PROVE  ListInv'
<1>1. SUFFICES ASSUME Live', call'.op = "list_dir", NEW s \in Slots, Mine(s)'
               PROVE  DirPlaced(s)'
  BY DEF ListInv
<1>2. Live /\ Mine(s) /\ sess'[s] = sess[s]
  BY <1>1 DEF Live, Calling, Open
<1>3. DirPlaced(s)
  BY <1>1, <1>2 DEF ListInv
<1>4. Wanted' = Wanted /\ Executed' = Executed /\ \A x : NoExtended(x)' <=> NoExtended(x)
  BY WantedSame DEF Executed, NoExtended
<1>5. Done(s)' = Done(s) /\ \A h, got, x : Leaves(s, h, got, x)' <=> Leaves(s, h, got, x)
  BY <1>2, <1>4 DEF Done, Leaves
<1>6. PICK h, got, p, body : h = call.dh /\ got = call.got /\ p = call.arg /\ body = sess[s].reply.body
  OBVIOUS
<1>7. \A x : ReadPlaced(s, x) => ReadPlaced(s, x)'
  <2>1. ASSUME NEW x, ReadPlaced(s, x) PROVE ReadPlaced(s, x)'
    <3>1. \A e : Leaves(s, h, Append(got, Show(e, x)), x)' <=> Leaves(s, h, Append(got, Show(e, x)), x)
      BY <1>5
    <3>2. Leaves(s, h, got, x)' <=> Leaves(s, h, got, x)
      BY <1>5
    <3>3. QED
      BY <1>2, <1>4, <1>5, <1>6, <2>1, <3>1, <3>2 DEF ReadPlaced
  <2>2. QED
    BY <2>1
<1>8. QED
  <2>1. /\ Leaves(s, body.dh, <<>>, TRUE)' <=> Leaves(s, body.dh, <<>>, TRUE)
        /\ Leaves(s, body.dh, <<>>, FALSE)' <=> Leaves(s, body.dh, <<>>, FALSE)
        /\ NoExtended(p)' <=> NoExtended(p)
    BY <1>4, <1>5
  <2>2. QED
    BY <1>2, <1>3, <1>4, <1>5, <1>6, <1>7, <2>1 DEF DirPlaced

LEMMA ClientListed ==
  ASSUME DataInv, DataInv', ListInv, Client
  PROVE  ListInv'
<1>1. ClientNext /\ UNCHANGED <<sess, fs, done>>
  BY DEF Client, serverVars
<1>2. OnceInv /\ OnceInv' /\ FreshInv /\ ClientOK /\ (Live => Placing)
  BY PlacingIs DEF DataInv, OnceInv
<1>3. server' = server
  BY <1>1, <1>2, ClientSteps
<1>4. Told'
  BY <1>1, <1>2, <1>3, CallGoesOn, GoesOnTold, CallTold, SameTold DEF ListInv
<1>5. CASE SameCommand
  <2>1. \A s \in Slots : Mine(s)' => Mine(s) /\ sess'[s] = sess[s]
    BY <1>1, <1>5 DEF SameCommand, Mine
  <2>2. QED
    BY <1>1, <1>3, <1>4, <1>5, <2>1, QuietListed DEF SameCommand
<1>6. CASE ~SameCommand
  <2>1. SUFFICES ASSUME Live', call'.op = "list_dir"
                 PROVE  \A s \in Slots : Mine(s)' => DirPlaced(s)'
    BY <1>4 DEF ListInv
  <2>2. \/ Renewed
        \/ Live /\ GivesUp
        \/ Live /\ \E o : Answers(o)
        \/ Live /\ \E op \in {"read_at", "write_at"} : \E a : Starts(op, a)
    BY <1>1, <1>2, <1>6, <2>1, ClientKinds
  <2>3. CASE Renewed
    BY <2>3 DEF Renewed, DirPlaced
  <2>4. CASE Live /\ GivesUp
    BY <1>2, <2>1, <2>4 DEF GivesUp, Stops, OnceInv, ClientOK, NoCall
  <2>5. CASE Live /\ \E o : Answers(o)
    BY <1>1, <1>2, <1>3, <2>1, <2>5, AnswersListed
  <2>6. ASSUME NEW op \in {"read_at", "write_at"}, NEW a, Starts(op, a) PROVE FALSE
    <3>1. call'.op = op
      BY <2>6 DEF Starts, Begin
    <3>2. op # "list_dir"
      OBVIOUS
    <3>3. QED
      BY <2>1, <3>1, <3>2
  <2>7. QED
    BY <2>2, <2>3, <2>4, <2>5, <2>6
<1>7. QED
  BY <1>5, <1>6

LEMMA ServerListed ==
  ASSUME DataInv, DataInv', ListInv, Server
  PROVE  ListInv'
<1>1. PICK m : m = Head(inbox)
  OBVIOUS
<1>2. inbox # <<>> /\ inbox' = Tail(inbox) /\ UNCHANGED <<f, call, cmd, last, sent, clean, server>>
  BY DEF Server, clientVars
<1>3. m \in Range(inbox) /\ OnceInv /\ FreshInv /\ Sessions
  BY <1>1, <1>2, NextRequest DEF DataInv, OnceInv
<1>4. Range(inbox') \subseteq Range(inbox)
  <2>1. inbox \in Seq(Range(inbox))
    BY <1>3 DEF OnceInv, Queues
  <2>2. Thinned(Tail(inbox), inbox)
    BY <1>2, <2>1, ThinTail
  <2>3. QED
    BY <1>2, <2>2, ThinElements
<1>5. Told /\ Calling' = Calling /\ Live' = Live
  BY <1>2 DEF ListInv, Calling, Live, Open
<1>6. CASE Repeats(m) \/ Ignores \/ Refused(m)
  <2>1. UNCHANGED <<sess, fs, done>>
    BY <1>6 DEF Repeats, Ignores, Refused
  <2>2. Told'
    BY <1>2, <1>4, <1>5, <2>1, QuietTold DEF Still
  <2>3. QED
    BY <1>2, <2>1, <2>2, QuietListed DEF Mine
<1>7. CASE \E slot \in FreeSlots : \E s : MountsIn(m, slot, s)
  <2>1. m.cmd = "MOUNT" /\ m.id > done.id /\ done'.id = m.id /\ fs' = fs
    BY <1>7 DEF MountsIn
  <2>2. m.id \in Nat /\ done.id \in Nat /\ \A x \in Range(inbox) : x.id \in Nat
    BY <1>3 DEF OnceInv, Queues, Flying, MessageOK, Once, ClientOK
  <2>3. Still => Still'
    BY <1>4, <2>1, <2>2 DEF Still
  <2>4. Told'
    BY <1>2, <1>5, <2>1, <2>3, QuietTold
  <2>5. Live /\ call.op = "list_dir" => call.at = "mount"
    BY <1>3, <2>1, RequestGoes DEF FreshInv
  <2>6. QED
    BY <1>2, <1>5, <2>4, <2>5 DEF ListInv, DirPlaced
<1>8. ASSUME NEW slot \in Slots, NEW o, Runs(m, slot, o) PROVE ListInv'
  <2>1. m.id > done.id /\ done'.id = m.id
    BY <1>8 DEF Runs
  <2>2. m.id \in Nat /\ done.id \in Nat /\ \A x \in Range(inbox) : x.id \in Nat
    BY <1>3 DEF OnceInv, Queues, Flying, MessageOK, Once, ClientOK
  <2>3. Still => Still'
    BY <1>4, <2>1, <2>2 DEF Still
  <2>4. Still => fs' = fs
    BY <1>3, <1>8, <2>1, HarmlessRuns DEF Still
  <2>5. CASE ~(Listing \/ Listed)
    <3>1. ~(Listing \/ Listed)' /\ (call.op = "list_dir" => Gathered /\ call.at \notin {"closedir", "umount"})
      BY <1>2, <1>3, <1>5, <2>5 DEF Listing, Listed, Told, OnceInv, ClientOK, NoCall
    <3>2. call.op = "list_dir" => call.at = "mount"
      BY <1>3, <2>5 DEF Listing, OnceInv, ClientOK, NoCall
    <3>3. call.op = "list_dir" => Gathered'
      BY <1>2, <3>1, <3>2 DEF Gathered
    <3>4. Told'
      BY <1>2, <1>5, <3>1, <3>3 DEF Told
    <3>5. QED
      BY <1>2, <3>2, <3>4 DEF ListInv, DirPlaced
  <2>6. CASE Listing \/ Listed
    <3>1. fs' = fs /\ Still'
      BY <1>5, <2>3, <2>4, <2>6 DEF Told
    <3>2. Told'
      BY <1>2, <1>5, <3>1, QuietTold
    <3>3. ASSUME Live, call.op = "list_dir", call.at # "mount"
          PROVE  \A s \in Slots : Mine(s)' => DirPlaced(s)'
      <4>1. Going /\ Gathered /\ \A s \in Slots : Mine(s) => DirPlaced(s)
        BY <1>3, <1>5, <3>3 DEF FreshInv, Told, ListInv
      <4>2. QED
        BY <1>2, <1>3, <1>8, <3>1, <3>3, <4>1, RunsListed
    <3>4. call.at = "mount" => \A s \in Slots : DirPlaced(s)'
      BY <1>2 DEF DirPlaced
    <3>5. QED
      BY <1>2, <1>5, <3>2, <3>3, <3>4 DEF ListInv
  <2>7. QED
    BY <2>5, <2>6
<1>9. QED
  BY <1>1, <1>3, <1>6, <1>7, <1>8, ServerKinds DEF DataInv

LEMMA ListNext ==
  ASSUME DataInv, ListInv, [Next]_vars
  PROVE  ListInv'
<1>1. DataInv' /\ Told /\ inbox \in Seq(Range(inbox))
  BY DataNext DEF DataInv, OnceInv, Queues, ListInv
<1>2. CASE Client
  BY <1>1, <1>2, ClientListed
<1>3. CASE Server
  BY <1>1, <1>3, ServerListed
<1>4. CASE Reap
  <2>1. UNCHANGED <<f, call, last, sent, clean, server, fs, done, inbox>>
    BY <1>4 DEF Reap, ReapIdle, netVars, clientVars
  <2>2. \A s \in Slots : Mine(s)' => Mine(s) /\ sess'[s] = sess[s]
    BY <1>4, ReapFresh DEF DataInv
  <2>3. Told'
    BY <1>1, <2>1, QuietTold DEF Still
  <2>4. QED
    BY <2>1, <2>2, <2>3, QuietListed
<1>5. CASE Idles \/ Network \/ UNCHANGED vars
  <2>1. UNCHANGED <<f, call, last, sent, clean, server, fs, done, sess>>
    BY <1>5 DEF Idles, Network, Expire, vars, clientVars, serverVars
  <2>2. Range(inbox') \subseteq Range(inbox)
    <3>1. CASE Network
      <4>1. Thinned(inbox', inbox)
        BY <3>1, NetworkThins DEF DataInv, OnceInv
      <4>2. QED
        BY <4>1, ThinElements
    <3>2. CASE Idles \/ UNCHANGED vars
      BY <3>2 DEF Idles, Expire, vars, netVars
    <3>3. QED
      BY <1>5, <3>1, <3>2
  <2>3. Told'
    BY <1>1, <2>1, <2>2, QuietTold DEF Still
  <2>4. QED
    BY <2>1, <2>3, QuietListed DEF Mine
<1>6. QED
  BY <1>2, <1>3, <1>4, <1>5 DEF Next

(* Whichever requests and replies of a listing are lost, repeated or late:  *)
(* a tnfs_list_dir() that succeeds gives the entries of the directory, each *)
(* once and in order, in a kind of listing that the server can give.        *)
THEOREM ListingsExact == Spec => []ListingExact
<1>1. Init => DataInv /\ ListInv
  <2>1. Init => DataInv
    BY OnceInit, FreshInit, DataInit DEF DataInv
  <2>2. ASSUME Init PROVE ListInv
    <3>1. call = NoCall /\ last = NoResult
      BY <2>2 DEF Init, ClientInit
    <3>2. QED
      BY <3>1 DEF ListInv, Told, Listing, Listed, Calling, NoCall, NoResult
  <2>3. QED
    BY <2>1, <2>2
<1>2. DataInv /\ ListInv /\ [Next]_vars => (DataInv /\ ListInv)'
  BY DataNext, ListNext
<1>3. ListInv => ListingExact
  BY DEF ListInv, Told, Listed, Exact, Kinds, ListingExact
<1>4. QED
  BY <1>1, <1>2, <1>3, PTL DEF Spec

=============================================================================
