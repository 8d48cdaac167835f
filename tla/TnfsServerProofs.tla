-------------------------- MODULE TnfsServerProofs --------------------------
(***************************************************************************)
(* The safety of the TNFS server for any clients, sessions, descriptors,   *)
(* card and requests: who holds a descriptor, which ids sessions have, and *)
(* what clients cannot do to an image that is mounted on a drive.          *)
(***************************************************************************)
EXTENDS TnfsServer, TLAPS, FiniteSetTheorems, SequenceTheorems, WellFoundedInduction

(* Shapes of sessions, of open descriptors and of the card. *)
SessionOK(s) ==
    /\ DOMAIN s = {"in_use", "sid", "peer", "root", "files", "dirs", "reply"}
    /\ s.in_use \in BOOLEAN /\ s.sid \in 0 .. SidLimit - 1
    /\ s.root \in Paths
    /\ s.files \in [FileSlots -> Fds \union {NoFd}]
TableOK(table) == DOMAIN table = Slots /\ \A s \in Slots : SessionOK(table[s])

DescriptorOK(d) ==
    /\ DOMAIN d = {"path", "pos", "mode", "append"}
    /\ d.path \in CardPaths /\ d.pos \in Nat /\ d.mode \in {"rd", "wr", "rw"}
VfsOK(v) == DOMAIN v = Fds /\ \A fd \in Fds : IsOpen(v, fd) => DescriptorOK(v[fd])

CardOK(card) == card \in [CardPaths -> Nodes] /\ IsTree(card)

(* An open descriptor is held by one file slot, and a freed slot holds none. *)
Holds(table, s, i, fd) == table[s].files[i] = fd
Owned(table, v) ==
    /\ \A fd \in Fds : IsOpen(v, fd) <=> \E s \in Slots, i \in FileSlots : Holds(table, s, i, fd)
    /\ \A fd \in Fds : \A s, t \in Slots, i, j \in FileSlots :
           Holds(table, s, i, fd) /\ Holds(table, t, j, fd) => s = t /\ i = j
Freed(table) == \A s \in Slots : ~table[s].in_use => table[s] = Blank

Distinct(table) ==
    \A s, t \in Slots :
        table[s].in_use => table[s].sid # 0 /\ (s # t /\ table[t].in_use => table[s].sid # table[t].sid)

(* Before its task runs, the server holds what its memory is at the start: *)
(* zeros, and 0 is a descriptor.                                           *)
AtBoot == sess = [s \in Slots |-> [Blank EXCEPT !.files = [i \in FileSlots |-> 0]]]
          /\ vfs = [fd \in Fds |-> IF fd = 0 THEN Stdin ELSE Unused]

Shapes ==
    /\ up \in BOOLEAN /\ serving \in {"boot", "waiting", "serving"}
    /\ expired \subseteq Slots /\ next_sid \in 0 .. SidLimit - 1
    /\ TableOK(sess) /\ CardOK(fs)
MountedKnown == images \subseteq Images

ServerInv ==
    /\ Shapes /\ MountedKnown /\ Distinct(sess)
    /\ serving = "boot" => AtBoot
    /\ serving # "boot" => VfsOK(vfs) /\ Owned(sess, vfs) /\ Freed(sess)

-----------------------------------------------------------------------------
(* Every set of slots or descriptors has a lowest one.                     *)

LEMMA Least ==
  ASSUME NEW S \in SUBSET Nat, S # {}
  PROVE  \E i \in S : \A j \in S : i <= j
<1> DEFINE T == {0 .. n : n \in S}
<1>1. IsWellFoundedOn(StrictSubsetOrdering(Nat), FiniteSubsetsOf(Nat))
  BY FS_StrictSubsetOrderingWellFounded
<1>2. T \subseteq FiniteSubsetsOf(Nat) /\ T # {}
  <2>1. \A n \in S : 0 .. n \in FiniteSubsetsOf(Nat)
    BY FS_Interval DEF FiniteSubsetsOf
  <2>2. QED
    BY <2>1
<1> HIDE DEF T
<1>3. PICK x \in T : \A y \in T : <<y, x>> \notin StrictSubsetOrdering(Nat)
  BY <1>1, <1>2, WFMin
<1> USE DEF T
<1>4. PICK i \in S : x = 0 .. i
  OBVIOUS
<1>5. ASSUME NEW j \in S, ~(i <= j) PROVE FALSE
  <2>1. 0 .. j \subseteq 0 .. i /\ 0 .. j # 0 .. i
    <3>1. i \in 0 .. i /\ i \notin 0 .. j
      BY <1>5
    <3>2. QED
      BY <1>5, <3>1
  <2>2. <<0 .. j, 0 .. i>> \in StrictSubsetOrdering(Nat)
    <3> DEFINE a == 0 .. j
               b == 0 .. i
    <3>1. a \in SUBSET Nat /\ b \in SUBSET Nat /\ a \subseteq b /\ a # b
      BY <2>1
    <3> HIDE DEF a, b
    <3>2. <<a, b>> \in StrictSubsetOrdering(Nat)
      BY <3>1 DEF StrictSubsetOrdering
    <3>3. QED
      BY <3>2 DEF a, b
  <2>3. QED
    BY <1>3, <1>4, <2>2
<1>6. QED
  BY <1>5
LEMMA LowestIn ==
  ASSUME NEW S \in SUBSET Nat, S # {}
  PROVE  Lowest(S) \in S
BY Least DEF Lowest

(* There are more ids than sessions, so next_sid() finds one.              *)
LEMMA FreeSid ==
  ASSUME NEW table, NEW slot \in Slots, ~table[slot].in_use
  PROVE  \E n \in 1 .. SidLimit - 1 : \A s \in Slots : table[s].in_use => table[s].sid # n
<1> SUFFICES ASSUME \A n \in 1 .. SidLimit - 1 :
                       \E s \in Slots : table[s].in_use /\ table[s].sid = n
             PROVE  FALSE
  OBVIOUS
<1> DEFINE used == Slots \ {slot}
           ids == 1 .. SidLimit - 1
           user == [n \in ids |-> CHOOSE s \in used : table[s].sid = n]
<1>1. IsFiniteSet(used) /\ Cardinality(used) = Cardinality(Slots) - 1 /\ Cardinality(Slots) \in Nat
  BY FS_RemoveElement, FS_CardinalityType, ServerAssumption
<1>2. IsFiniteSet(ids) /\ Cardinality(ids) = SidLimit - 1
  <2>1. SidLimit \in Nat \ {0} /\ SidLimit - 1 \in Int
    BY <1>1, ServerAssumption
  <2>2. IsFiniteSet(ids) /\ Cardinality(ids) = IF 1 > SidLimit - 1 THEN 0 ELSE (SidLimit - 1) - 1 + 1
    BY <2>1, FS_Interval
  <2>3. QED
    BY <2>1, <2>2
<1>3. \A n \in ids : user[n] \in used /\ table[user[n]].sid = n
  OBVIOUS
<1>4. user \in [ids -> used]
  BY <1>3
<1> HIDE DEF used, ids, user
<1>5. PICK x, y \in ids : x # y /\ user[x] = user[y]
  BY <1>1, <1>2, <1>4, FS_PigeonHole, ServerAssumption
<1>6. QED
  BY <1>3, <1>5

LEMMA Remainder ==
  ASSUME NEW n \in Nat \ {0}, NEW a \in 0 .. n - 1
  PROVE  a % n = a /\ (a + n) % n = a
OBVIOUS

LEMMA Wrapped ==
  ASSUME NEW n \in Nat \ {0}, NEW a \in Nat
  PROVE  a % n \in 0 .. n - 1
OBVIOUS

LEMMA NextSidFree ==
  ASSUME NEW table, NEW slot \in Slots, ~table[slot].in_use,
         next_sid \in 0 .. SidLimit - 1
  PROVE  /\ NextSid(table) \in 1 .. SidLimit - 1
         /\ \A s \in Slots : table[s].in_use => table[s].sid # NextSid(table)
<1> DEFINE free(n) == n # 0 /\ \A s \in Slots : table[s].in_use => table[s].sid # n
           after(k) == (next_sid + k) % SidLimit
           K == {k \in 0 .. SidLimit - 1 : free(after(k))}
           k == CHOOSE k \in 0 .. SidLimit - 1 :
                    free(after(k)) /\ \A j \in 0 .. k - 1 : ~free(after(j))
<1>1. SidLimit \in Nat \ {0}
  BY ServerAssumption, FS_CardinalityType
<1>2. PICK n \in 1 .. SidLimit - 1 : \A s \in Slots : table[s].in_use => table[s].sid # n
  BY FreeSid
<1>3. K # {}
  <2> DEFINE d == IF n >= next_sid THEN n - next_sid ELSE n - next_sid + SidLimit
  <2>1. d \in 0 .. SidLimit - 1 /\ (next_sid + d = n \/ next_sid + d = n + SidLimit)
    BY <1>1
  <2>2. after(d) = n
    BY <1>1, <2>1, Remainder
  <2>3. QED
    BY <1>2, <2>1, <2>2
<1>4. \A i \in 0 .. SidLimit - 1 : after(i) \in 0 .. SidLimit - 1
  BY <1>1, Wrapped
<1>5. NextSid(table) = after(k)
  BY DEF NextSid
<1>6. \A m : free(m) => m # 0 /\ \A s \in Slots : table[s].in_use => table[s].sid # m
  OBVIOUS
<1> HIDE DEF free, after
<1>7. \E i \in K : \A j \in K : i <= j
  <2>1. K \in SUBSET Nat
    BY <1>1
  <2> HIDE DEF K
  <2>2. QED
    BY <1>3, <2>1, Least
<1>8. \E i \in 0 .. SidLimit - 1 : free(after(i)) /\ \A j \in 0 .. i - 1 : ~free(after(j))
  BY <1>1, <1>7
<1>9. free(after(k)) /\ k \in 0 .. SidLimit - 1
  BY <1>8
<1>10. after(k) \in 1 .. SidLimit - 1
  BY <1>1, <1>4, <1>6, <1>9
<1>11. QED
  BY <1>5, <1>6, <1>9, <1>10

-----------------------------------------------------------------------------
(* What a handler does to the session and its descriptors.                 *)

RequestOK(m) ==
    /\ m.cmd \in {"MOUNT", "OPEN", "MKDIR", "RMDIR", "UNLINK", "RENAME"} => m.path \in Paths
    /\ m.cmd = "RENAME" => m.path2 \in Paths
    /\ m.cmd = "WRITE" => m.data \in Nat
    /\ m.cmd = "LSEEK" => m.off \in Int

SameFiles(s, o) ==
    /\ o.s.files = s.files
    /\ \A fd \in Fds : IsOpen(o.vfs, fd) <=> IsOpen(vfs, fd)
OpensFile(s, o) ==
    \E i \in FileSlots, fd \in Fds :
        /\ s.files[i] = NoFd /\ ~IsOpen(vfs, fd)
        /\ o.s.files = [s.files EXCEPT ![i] = fd]
        /\ \A x \in Fds : IsOpen(o.vfs, x) <=> x = fd \/ IsOpen(vfs, x)
ClosesFile(s, o) ==
    \E i \in FileSlots :
        /\ s.files[i] \in Fds
        /\ o.s.files = [s.files EXCEPT ![i] = NoFd]
        /\ \A x \in Fds : IsOpen(o.vfs, x) <=> x # s.files[i] /\ IsOpen(vfs, x)

(* The outcome o for session s. *)
SessionStep(s, o) ==
    /\ SessionOK(o.s) /\ VfsOK(o.vfs)
    /\ o.s.in_use = s.in_use /\ o.s.sid = s.sid /\ o.s.peer = s.peer /\ o.s.root = s.root
    /\ SameFiles(s, o) \/ OpensFile(s, o) \/ ClosesFile(s, o)

(* A handler that leaves the descriptors alone. *)
LEMMA NoFileStep ==
  ASSUME NEW s, NEW o, SessionOK(s), VfsOK(vfs), o.vfs = vfs,
         DOMAIN o.s = DOMAIN s, o.s.in_use = s.in_use, o.s.sid = s.sid, o.s.peer = s.peer,
         o.s.root = s.root, o.s.files = s.files
  PROVE  SessionStep(s, o)
BY DEF SessionStep, SessionOK, SameFiles

LEMMA FailsStep ==
  ASSUME NEW s, NEW st, NEW o \in Fails(s, st), SessionOK(s), VfsOK(vfs)
  PROVE  SessionStep(s, o) /\ o.fs = fs
<1>1. o.s = s /\ o.vfs = vfs /\ o.fs = fs
  BY DEF Fails, Outcome
<1>2. QED
  BY <1>1, NoFileStep

LEMMA FaultsStep ==
  ASSUME NEW s, NEW o \in Faults(s), SessionOK(s), VfsOK(vfs)
  PROVE  SessionStep(s, o) /\ o.fs = fs
BY FailsStep DEF Faults

(* A descriptor is not the mark of an unused one.                          *)
LEMMA UsedDescriptor ==
  ASSUME NEW d, DescriptorOK(d)
  PROVE  d # Unused
BY DEF DescriptorOK, Unused

LEMMA KindOnCard ==
  ASSUME NEW p, Kind(p) = "file" \/ ParentIsDir(p)
  PROVE  p \in CardPaths
BY DEF Kind, ParentIsDir

(* Moving the position of an open descriptor.                              *)
LEMMA MovePosition ==
  ASSUME NEW s, NEW o, NEW fd \in Fds, NEW pos \in Nat,
         SessionOK(s), VfsOK(vfs), DescriptorOK(vfs[fd]),
         o.s = s, o.vfs = [vfs EXCEPT ![fd].pos = pos]
  PROVE  SessionStep(s, o)
<1>1. DescriptorOK(o.vfs[fd]) /\ DOMAIN o.vfs = Fds /\ \A x \in Fds \ {fd} : o.vfs[x] = vfs[x]
  BY DEF DescriptorOK, VfsOK
<1>2. \A x \in Fds : IsOpen(o.vfs, x) <=> IsOpen(vfs, x)
  BY <1>1, UsedDescriptor DEF IsOpen
<1>3. VfsOK(o.vfs)
  BY <1>1, <1>2 DEF VfsOK
<1>4. QED
  BY <1>2, <1>3 DEF SessionStep, SameFiles

(* The descriptor behind a file number is open.                            *)
LEMMA HeldDescriptor ==
  ASSUME NEW slot \in Slots, TableOK(sess), VfsOK(vfs), Owned(sess, vfs), NEW n, FdOf(sess[slot], n) # NoFd
  PROVE  /\ n \in FileSlots /\ FdOf(sess[slot], n) = sess[slot].files[n]
         /\ FdOf(sess[slot], n) \in Fds /\ DescriptorOK(vfs[FdOf(sess[slot], n)])
<1>1. n \in FileSlots /\ FdOf(sess[slot], n) = sess[slot].files[n]
  BY DEF FdOf
<1>2. sess[slot].files[n] \in Fds
  BY <1>1 DEF TableOK, SessionOK
<1>3. QED
  BY <1>1, <1>2 DEF Owned, Holds, VfsOK

LEMMA OpenStep ==
  ASSUME NEW slot \in Slots, TableOK(sess), VfsOK(vfs), NEW m, NEW o \in h_open(sess[slot], m)
  PROVE  SessionStep(sess[slot], o)
<1> DEFINE s == sess[slot]
           p == resolve_path(s, m.path)
           i == Lowest(FreeFileSlots(s))
           free == {x \in Fds : ~IsOpen(vfs, x)}
           fd == Lowest(free)
<1>0. SessionOK(s)
  BY DEF TableOK
<1>1. \/ \E st : o \in Fails(s, st)
      \/ o \in Faults(s)
      \/ /\ FreeFileSlots(s) # {} /\ CanOpen(p, m.flags) /\ free # {}
         /\ o.s = [s EXCEPT !.files[i] = fd]
         /\ o.vfs = [vfs EXCEPT ![fd] = Descriptor(p, m.flags)]
  <2> DEFINE done == Outcome([s EXCEPT !.files[i] = fd], [vfs EXCEPT ![fd] = Descriptor(p, m.flags)],
                             Opened(p, m.flags), [status |-> "OK", fd |-> i])
  <2>1. \/ \E st : o \in Fails(s, st)
        \/ o \in Faults(s)
        \/ /\ FreeFileSlots(s) # {} /\ CanOpen(p, m.flags) /\ ~(\A f \in Fds : IsOpen(vfs, f))
           /\ o = done
    BY DEF h_open
  <2>2. /\ done.s = [s EXCEPT !.files[i] = fd]
        /\ done.vfs = [vfs EXCEPT ![fd] = Descriptor(p, m.flags)]
    BY DEF Outcome
  <2> HIDE DEF done
  <2>3. QED
    BY <2>1, <2>2
<1>2. CASE ~((\E st : o \in Fails(s, st)) \/ o \in Faults(s))
  <2>1. i \in FileSlots /\ s.files[i] = NoFd
    BY <1>1, <1>2, LowestIn, ServerAssumption DEF FreeFileSlots
  <2>2. fd \in Fds /\ ~IsOpen(vfs, fd)
    BY <1>1, <1>2, LowestIn, ServerAssumption
  <2>3. DescriptorOK(Descriptor(p, m.flags))
    BY <1>1, <1>2, KindOnCard DEF CanOpen, Descriptor, DescriptorOK
  <2> HIDE DEF i, fd, free
  <2>4. /\ DOMAIN o.vfs = Fds /\ o.vfs[fd] = Descriptor(p, m.flags)
        /\ \A x \in Fds \ {fd} : o.vfs[x] = vfs[x]
    BY <1>1, <1>2, <2>2 DEF VfsOK
  <2>5. \A x \in Fds : IsOpen(o.vfs, x) <=> x = fd \/ IsOpen(vfs, x)
    BY <2>3, <2>4, UsedDescriptor DEF IsOpen
  <2>6. VfsOK(o.vfs)
    BY <2>3, <2>4, <2>5 DEF VfsOK
  <2>7. /\ o.s.files = [s.files EXCEPT ![i] = fd] /\ SessionOK(o.s)
        /\ o.s.in_use = s.in_use /\ o.s.sid = s.sid /\ o.s.peer = s.peer /\ o.s.root = s.root
    BY <1>0, <1>1, <1>2, <2>1, <2>2 DEF SessionOK
  <2>8. QED
    BY <2>1, <2>2, <2>5, <2>6, <2>7 DEF SessionStep, OpensFile
<1>3. QED
  BY <1>0, <1>2, FailsStep, FaultsStep

LEMMA CloseStep ==
  ASSUME NEW slot \in Slots, TableOK(sess), VfsOK(vfs), Owned(sess, vfs), NEW m,
         NEW o \in h_close(sess[slot], m)
  PROVE  SessionStep(sess[slot], o)
<1> DEFINE s == sess[slot]
           fd == FdOf(s, m.fd)
<1>0. SessionOK(s)
  BY DEF TableOK
<1>1. \/ \E st : o \in Fails(s, st)
      \/ /\ fd # NoFd /\ o.s = [s EXCEPT !.files[m.fd] = NoFd]
         /\ o.vfs = CloseAll(vfs, {fd})
  BY DEF h_close, Outcome
<1>2. CASE ~(\E st : o \in Fails(s, st))
  <2>1. m.fd \in FileSlots /\ fd = s.files[m.fd] /\ fd \in Fds
    BY <1>1, <1>2, HeldDescriptor
  <2> HIDE DEF fd
  <2>2. DOMAIN o.vfs = Fds /\ \A x \in Fds : o.vfs[x] = IF x = fd THEN Unused ELSE vfs[x]
    BY <1>1, <1>2 DEF CloseAll
  <2>3. \A x \in Fds : IsOpen(o.vfs, x) <=> x # fd /\ IsOpen(vfs, x)
    BY <2>2 DEF IsOpen
  <2>4. VfsOK(o.vfs)
    BY <2>2, <2>3 DEF VfsOK
  <2>5. /\ o.s.files = [s.files EXCEPT ![m.fd] = NoFd] /\ SessionOK(o.s)
        /\ o.s.in_use = s.in_use /\ o.s.sid = s.sid /\ o.s.peer = s.peer /\ o.s.root = s.root
    BY <1>0, <1>1, <1>2, <2>1 DEF SessionOK
  <2>6. QED
    BY <2>1, <2>3, <2>4, <2>5 DEF SessionStep, ClosesFile
<1>3. QED
  BY <1>0, <1>2, FailsStep

LEMMA Slice ==
  ASSUME NEW S, NEW q \in Seq(S), NEW a \in Nat \ {0}, NEW b \in Nat, b <= Len(q)
  PROVE  SubSeq(q, a, b) \in Seq(S) /\ Len(SubSeq(q, a, b)) \in Nat
<1>1. CASE a <= b + 1
  BY <1>1, SubSeqProperties, LenProperties
<1>2. CASE a > b + 1
  <2>1. SubSeq(q, a, b) = <<>>
    BY <1>2
  <2>2. QED
    BY <2>1
<1>3. QED
  BY <1>1, <1>2

LEMMA ChunkRead ==
  ASSUME NEW q \in Seq(Nat), NEW pos \in Nat
  PROVE  Len(SubSeq(q, pos + 1, IF pos + Chunk < Len(q) THEN pos + Chunk ELSE Len(q))) \in Nat
<1> DEFINE end == IF pos + Chunk < Len(q) THEN pos + Chunk ELSE Len(q)
<1>1. Len(q) \in Nat
  BY LenProperties
<1>2. end \in Nat /\ end <= Len(q)
  BY <1>1 DEF Chunk
<1> HIDE DEF end
<1>3. Len(SubSeq(q, pos + 1, end)) \in Nat
  BY <1>2, Slice
<1>4. QED
  BY <1>3 DEF end

(* The data of a file.                                                     *)
LEMMA FileData ==
  ASSUME CardOK(fs), NEW p \in CardPaths
  PROVE  fs[p].data \in Seq(Nat) /\ Len(fs[p].data) \in Nat /\ fs[p].kind \in {"absent", "dir", "file"}
<1>1. fs[p] \in Nodes
  BY DEF CardOK
<1>2. QED
  BY <1>1 DEF Nodes

LEMMA ReadStep ==
  ASSUME NEW slot \in Slots, TableOK(sess), VfsOK(vfs), Owned(sess, vfs), CardOK(fs), NEW m,
         NEW o \in h_read(sess[slot], m)
  PROVE  SessionStep(sess[slot], o) /\ o.fs = fs
<1> DEFINE s == sess[slot]
           fd == FdOf(s, m.fd)
           d == vfs[fd]
           size == Len(fs[d.path].data)
           end == IF d.pos + Chunk < size THEN d.pos + Chunk ELSE size
           data == SubSeq(fs[d.path].data, d.pos + 1, end)
           read == Outcome(s, [vfs EXCEPT ![fd].pos = @ + Len(data)], fs,
                           [status |-> "OK", data |-> data])
<1>0. SessionOK(s)
  BY DEF TableOK
<1>1. \/ \E st : o \in Fails(s, st)
      \/ o \in Faults(s)
      \/ fd # NoFd /\ o = read
  BY Zenon DEF h_read
<1>2. CASE ~((\E st : o \in Fails(s, st)) \/ o \in Faults(s))
  <2>1. fd \in Fds /\ DescriptorOK(d)
    BY <1>1, <1>2, HeldDescriptor
  <2>2. d.pos \in Nat /\ d.path \in CardPaths
    BY <2>1 DEF DescriptorOK
  <2>3. fs[d.path].data \in Seq(Nat) /\ size \in Nat
    BY <2>2, FileData
  <2>4. d.pos + Len(data) \in Nat
    <3>1. Len(data) \in Nat
      BY <2>2, <2>3, ChunkRead
    <3> HIDE DEF data
    <3>2. QED
      BY <2>2, <3>1
  <2> DEFINE pos == d.pos + Len(data)
  <2> HIDE DEF data
  <2>5. o.s = s /\ o.vfs = [vfs EXCEPT ![fd].pos = pos] /\ o.fs = fs
    BY <1>1, <1>2 DEF Outcome
  <2> HIDE DEF fd, pos
  <2>6. QED
    BY <1>0, <2>1, <2>4, <2>5, MovePosition DEF pos
<1>3. QED
  BY <1>0, <1>2, FailsStep, FaultsStep

LEMMA LseekStep ==
  ASSUME NEW slot \in Slots, TableOK(sess), VfsOK(vfs), Owned(sess, vfs), CardOK(fs), NEW m, m.off \in Int,
         NEW o \in h_lseek(sess[slot], m)
  PROVE  SessionStep(sess[slot], o) /\ o.fs = fs
<1> DEFINE s == sess[slot]
           fd == FdOf(s, m.fd)
           d == vfs[fd]
           base == [SET |-> 0, CUR |-> d.pos, END |-> Len(fs[d.path].data)]
           pos == base[m.whence] + m.off
           moved == Outcome(s, [vfs EXCEPT ![fd].pos = pos], fs, [status |-> "OK", pos |-> pos])
<1>0. SessionOK(s)
  BY DEF TableOK
<1>1. \/ \E st : o \in Fails(s, st)
      \/ fd # NoFd /\ m.whence \in DOMAIN base /\ ~(pos < 0) /\ o = moved
  BY Zenon DEF h_lseek
<1>2. CASE ~(\E st : o \in Fails(s, st))
  <2>1. fd \in Fds /\ DescriptorOK(d)
    BY <1>1, <1>2, HeldDescriptor
  <2>2. d.pos \in Nat /\ Len(fs[d.path].data) \in Nat
    BY <2>1, FileData DEF DescriptorOK
  <2> HIDE DEF d
  <2>3. pos \in Nat
    <3>1. base[m.whence] \in Nat
      BY <1>1, <1>2, <2>2
    <3> HIDE DEF base
    <3>2. QED
      BY <1>1, <1>2, <3>1
  <2> HIDE DEF base, pos
  <2>4. o.s = s /\ o.vfs = [vfs EXCEPT ![fd].pos = pos] /\ o.fs = fs
    BY <1>1, <1>2 DEF Outcome
  <2> HIDE DEF fd
  <2>5. QED
    BY <1>0, <2>1, <2>3, <2>4, MovePosition DEF d
<1>3. QED
  BY <1>0, <1>2, FailsStep

LEMMA WriteStep ==
  ASSUME NEW slot \in Slots, TableOK(sess), VfsOK(vfs), Owned(sess, vfs), CardOK(fs), NEW m,
         NEW o \in h_write(sess[slot], m)
  PROVE  SessionStep(sess[slot], o)
<1> DEFINE s == sess[slot]
           fd == FdOf(s, m.fd)
           d == vfs[fd]
           pos == IF d.append THEN Len(fs[d.path].data) ELSE d.pos
<1>0. SessionOK(s)
  BY DEF TableOK
<1>1. \/ \E st : o \in Fails(s, st)
      \/ o \in Faults(s)
      \/ fd # NoFd /\ o.s = s /\ o.vfs = [vfs EXCEPT ![fd].pos = pos + 1]
  BY DEF h_write, Outcome
<1>2. CASE ~((\E st : o \in Fails(s, st)) \/ o \in Faults(s))
  <2>1. fd \in Fds /\ DescriptorOK(d)
    BY <1>1, <1>2, HeldDescriptor
  <2>2. pos + 1 \in Nat
    BY <2>1, FileData DEF DescriptorOK
  <2> HIDE DEF fd, pos
  <2>3. QED
    BY <1>0, <1>1, <1>2, <2>1, <2>2, MovePosition
<1>3. QED
  BY <1>0, <1>2, FailsStep, FaultsStep

(* The handlers that only change the card, and those of directories.       *)
LEMMA PathStep ==
  ASSUME NEW s, SessionOK(s), VfsOK(vfs), NEW m,
         NEW o \in h_pathop(s, m) \union h_rename(s, m) \union h_stat(s, m)
  PROVE  SessionStep(s, o)
<1>1. \/ \E st : o \in Fails(s, st)
      \/ o \in Faults(s)
      \/ o.s = s /\ o.vfs = vfs
  <2>1. CASE o \in h_pathop(s, m)
    BY <2>1 DEF h_pathop, Outcome
  <2>2. CASE o \in h_rename(s, m)
    BY <2>2 DEF h_rename, Outcome
  <2>3. CASE o \in h_stat(s, m)
    BY <2>3 DEF h_stat, Outcome
  <2>4. QED
    BY <2>1, <2>2, <2>3
<1>2. QED
  BY <1>1, FailsStep, FaultsStep, NoFileStep

LEMMA DirStep ==
  ASSUME NEW s, SessionOK(s), VfsOK(vfs), NEW m,
         NEW o \in h_opendir(s, m) \union h_readdir(s, m) \union h_readdirx(s, m) \union h_closedir(s, m)
  PROVE  SessionStep(s, o) /\ o.fs = fs
<1> DEFINE Dirs(o_s) ==
              /\ DOMAIN o_s = DOMAIN s /\ o_s.in_use = s.in_use /\ o_s.sid = s.sid /\ o_s.peer = s.peer
              /\ o_s.root = s.root /\ o_s.files = s.files
<1>1. \/ \E st : o \in Fails(s, st)
      \/ o \in Faults(s)
      \/ Dirs(o.s) /\ o.vfs = vfs /\ o.fs = fs
  <2>1. CASE o \in h_opendir(s, m)
    BY <2>1 DEF h_opendir, Outcome, SessionOK
  <2>2. CASE o \in h_readdir(s, m)
    <3> DEFINE d == s.dirs[m.dh]
               after == [s EXCEPT !.dirs[m.dh].pending = <<>>, !.dirs[m.dh].left = Tail(Stream(d))]
    <3>1. \/ \E st : o \in Fails(s, st)
          \/ \E body : o = Outcome(after, vfs, fs, body)
      BY <2>2, Zenon DEF h_readdir
    <3>2. Dirs(after)
      BY DEF SessionOK
    <3> HIDE DEF after
    <3>3. QED
      BY <3>1, <3>2 DEF Outcome
  <2>3. CASE o \in h_readdirx(s, m)
    <3> DEFINE d == s.dirs[m.dh]
               want == IF m.n = 0 THEN 1 ELSE m.n
               fits == {k \in 0 .. Len(Stream(d)) :
                           k <= want /\ Bytes(SubSeq(Stream(d), 1, k)) <= BodyCap}
               n == CHOOSE k \in fits : \A j \in fits : j <= k
               after == [s EXCEPT !.dirs[m.dh] = dir_stash(d, n, want)]
    <3>1. \/ \E st : o \in Fails(s, st)
          \/ \E body : o = Outcome(after, vfs, fs, body)
      BY <2>3, Zenon DEF h_readdirx
    <3>2. \A x : Dirs([s EXCEPT !.dirs[m.dh] = x])
      BY DEF SessionOK
    <3>3. Dirs(after)
      BY <3>2
    <3> HIDE DEF after
    <3>4. QED
      BY <3>1, <3>3 DEF Outcome
  <2>4. CASE o \in h_closedir(s, m)
    BY <2>4 DEF h_closedir, Outcome, SessionOK
  <2>5. QED
    BY <2>1, <2>2, <2>3, <2>4
<1>2. QED
  BY <1>1, FailsStep, FaultsStep, NoFileStep

-----------------------------------------------------------------------------
(* Paths.                                                                  *)

LEMMA PartOfPath ==
  ASSUME NEW q \in Paths, NEW n \in 1 .. Len(q)
  PROVE  /\ SubSeq(q, 1, n) \in Paths /\ Len(SubSeq(q, 1, n)) = n
         /\ \A k \in 1 .. n : SubSeq(SubSeq(q, 1, n), 1, k) = SubSeq(q, 1, k)
         /\ SubSeq(q, 1, Len(q)) = q
<1>1. Len(q) \in Nat /\ \A i \in 1 .. Len(q) : q[i] \in STRING
  BY LenProperties DEF Paths
<1>2. \A k \in 1 .. Len(q) :
         /\ SubSeq(q, 1, k) \in Paths /\ Len(SubSeq(q, 1, k)) = k
         /\ \A i \in 1 .. k : SubSeq(q, 1, k)[i] = q[i]
  <2> SUFFICES ASSUME NEW k \in 1 .. Len(q)
               PROVE  /\ SubSeq(q, 1, k) \in Paths /\ Len(SubSeq(q, 1, k)) = k
                      /\ \A i \in 1 .. k : SubSeq(q, 1, k)[i] = q[i]
    OBVIOUS
  <2>1. \A i \in 1 .. k : q[i] \in STRING
    BY <1>1
  <2>2. QED
    BY <1>1, <2>1, SubSeqProperties DEF Paths
<1>3. ASSUME NEW k \in 1 .. n
      PROVE  SubSeq(SubSeq(q, 1, n), 1, k) = SubSeq(q, 1, k)
  <2> DEFINE p == SubSeq(q, 1, n)
  <2>1. p \in Paths /\ Len(p) = n /\ \A i \in 1 .. n : p[i] = q[i]
    BY <1>2
  <2> HIDE DEF p
  <2>2. \A i \in 1 .. k : p[i] \in STRING
    BY <1>1, <2>1
  <2>3. /\ SubSeq(p, 1, k) \in Paths /\ Len(SubSeq(p, 1, k)) = k
        /\ \A i \in 1 .. k : SubSeq(p, 1, k)[i] = p[i]
    BY <2>2, SubSeqProperties DEF Paths
  <2>4. /\ SubSeq(q, 1, k) \in Paths /\ Len(SubSeq(q, 1, k)) = k
        /\ \A i \in 1 .. k : SubSeq(q, 1, k)[i] = q[i]
    BY <1>1, <1>2
  <2>5. SubSeq(p, 1, k) = SubSeq(q, 1, k)
    BY <2>1, <2>3, <2>4, SeqEqual DEF Paths
  <2>6. QED
    BY <2>5 DEF p
<1>4. SubSeq(q, 1, Len(q)) = q
  BY <1>1, <1>2, SeqEqual DEF Paths
<1>5. QED
  BY <1>1, <1>2, <1>3, <1>4

(* q lies below p. *)
Below(p, q) == Len(p) < Len(q) /\ SubSeq(q, 1, Len(p)) = p

LEMMA PrefixCases ==
  ASSUME NEW p \in Paths \ {<<>>}, NEW q \in Paths
  PROVE  /\ Len(p) \in Nat \ {0} /\ Len(q) \in Nat
         /\ IsPrefix(p, q) <=> p = q \/ Below(p, q)
<1>1. Len(p) \in Nat \ {0} /\ Len(q) \in Nat
  BY LenProperties, EmptySeq DEF Paths
<1>2. SubSeq(p, 1, Len(p)) = p
  BY <1>1, PartOfPath
<1>3. q # <<>> => SubSeq(q, 1, Len(q)) = q
  BY <1>1, PartOfPath, EmptySeq, LenProperties DEF Paths
<1>4. QED
  BY <1>1, <1>2, <1>3 DEF IsPrefix, Below

LEMMA FolderOf ==
  ASSUME NEW p \in Paths, Len(p) > 1
  PROVE  Front(p) = SubSeq(p, 1, Len(p) - 1) /\ Len(p) - 1 \in 1 .. Len(p)
BY LenProperties DEF Front, Paths

-----------------------------------------------------------------------------
(* The card is a tree.                                                     *)

LEMMA CardPath ==
  ASSUME NEW p \in CardPaths
  PROVE  /\ p \in Paths \ {<<>>} /\ Len(p) \in Nat \ {0}
         /\ \A n \in 1 .. Len(p) : SubSeq(p, 1, n) \in CardPaths
BY PrefixCases, CardAssumption

(* What lies below a path exists only if the path is a folder. *)
LEMMA Inside ==
  ASSUME CardOK(fs), NEW p \in CardPaths, NEW q \in CardPaths, Below(p, q), fs[q].kind # "absent"
  PROVE  fs[p].kind = "dir"
<1>1. Len(p) \in 1 .. Len(q) - 1 /\ SubSeq(q, 1, Len(p)) = p
  BY CardPath DEF Below
<1>2. QED
  BY <1>1 DEF CardOK, IsTree

(* A folder without entries has nothing below it. *)
LEMMA EmptyFolder ==
  ASSUME CardOK(fs), NEW p \in CardPaths, NEW q \in CardPaths, Below(p, q), fs[q].kind # "absent"
  PROVE  Entries(p) # {}
<1> DEFINE n == Len(p) + 1
           c == SubSeq(q, 1, n)
<1>1. q \in Paths /\ n \in 1 .. Len(q) /\ Len(p) \in 1 .. n /\ Len(p) \in Nat \ {0} /\ Len(q) \in Nat
  BY CardPath DEF Below
<1>2. c \in CardPaths /\ Len(c) = n /\ SubSeq(c, 1, Len(p)) = SubSeq(q, 1, Len(p))
  BY <1>1, CardPath, PartOfPath
<1>3. fs[c].kind # "absent"
  <2>1. CASE n = Len(q)
    BY <1>1, <2>1, PartOfPath
  <2>2. CASE n # Len(q)
    <3>1. n \in 1 .. Len(q) - 1
      BY <1>1, <2>2
    <3>2. QED
      BY <3>1 DEF CardOK, IsTree
  <2>3. QED
    BY <2>1, <2>2
<1> HIDE DEF c
<1>4. Front(c) = p
  BY <1>1, <1>2 DEF Front, Below
<1>5. Last(c) \in Entries(p)
  BY <1>2, <1>3, <1>4 DEF Entries
<1>6. QED
  BY <1>5

(* A path whose folder exists has folders all the way up. *)
LEMMA Above ==
  ASSUME CardOK(fs), NEW p \in CardPaths, ParentIsDir(p), NEW n \in 1 .. Len(p) - 1
  PROVE  fs[SubSeq(p, 1, n)].kind = "dir"
<1> DEFINE parent == SubSeq(p, 1, Len(p) - 1)
<1>1. p \in Paths /\ Len(p) \in Nat /\ Len(p) > 1 /\ Len(p) - 1 \in 1 .. Len(p)
  BY CardPath
<1>2. parent \in CardPaths /\ parent # <<>> /\ Len(parent) = Len(p) - 1
  <2>1. Len(p) - 1 \in 1 .. Len(p) /\ Len(p) - 1 \in 0 .. Len(p)
    BY <1>1
  <2>2. parent \in CardPaths
    BY <2>1, CardPath
  <2>3. Len(parent) = Len(p) - 1
    BY <1>1, <2>1, PartOfPath
  <2>4. parent # <<>>
    BY <2>2, CardAssumption
  <2>5. QED
    BY <2>2, <2>3, <2>4
<1>3. fs[parent].kind = "dir"
  BY <1>1, <1>2, FolderOf DEF ParentIsDir, Kind
<1>4. CASE n = Len(p) - 1
  BY <1>3, <1>4
<1> HIDE DEF parent
<1>5. CASE n # Len(p) - 1
  <2>1. n \in 1 .. Len(parent) - 1 /\ n \in 1 .. Len(p) - 1
    BY <1>1, <1>2, <1>5
  <2>2. SubSeq(parent, 1, n) = SubSeq(p, 1, n)
    BY <1>1, <2>1, PartOfPath DEF parent
  <2>3. fs[SubSeq(parent, 1, n)].kind = "dir"
    BY <1>2, <1>3, <2>1 DEF CardOK, IsTree
  <2>4. QED
    BY <2>2, <2>3
<1>6. QED
  BY <1>4, <1>5

(* Changing one path p: what lies above exists, and nothing below is left. *)
LEMMA ChangeNode ==
  ASSUME CardOK(fs), NEW p \in CardPaths, NEW x \in Nodes,
         x.kind # "absent" => \A n \in 1 .. Len(p) - 1 : fs[SubSeq(p, 1, n)].kind = "dir",
         x.kind # "dir" => \A q \in CardPaths : Below(p, q) => fs[q].kind = "absent"
  PROVE  CardOK([fs EXCEPT ![p] = x])
<1> DEFINE card == [fs EXCEPT ![p] = x]
<1>1. card \in [CardPaths -> Nodes]
  BY DEF CardOK
<1>2. card[p] = x /\ \A q \in CardPaths \ {p} : card[q] = fs[q]
  BY DEF CardOK
<1> HIDE DEF card
<1>3. ASSUME NEW q \in CardPaths, card[q].kind # "absent", NEW n \in 1 .. Len(q) - 1
      PROVE  card[SubSeq(q, 1, n)].kind = "dir"
  <2> DEFINE a == SubSeq(q, 1, n)
  <2>1. q \in Paths /\ Len(q) \in Nat /\ n \in 1 .. Len(q)
    BY <1>3, CardPath
  <2>2. a \in CardPaths /\ Len(a) = n
    BY <2>1, CardPath, PartOfPath
  <2>3. CASE a # p
    <3>1. fs[a].kind = "dir"
      <4>1. CASE q = p
        BY <1>2, <1>3, <4>1
      <4>2. CASE q # p
        BY <1>2, <1>3, <4>2 DEF CardOK, IsTree
      <4>3. QED
        BY <4>1, <4>2
    <3>2. QED
      BY <1>2, <2>2, <2>3, <3>1
  <2>4. CASE a = p
    <3>1. Below(p, q) /\ q # p
      BY <1>3, <2>1, <2>2, <2>4 DEF Below
    <3>2. QED
      BY <1>2, <1>3, <2>4, <3>1
  <2>5. QED
    BY <2>3, <2>4
<1>4. QED
  BY <1>1, <1>3 DEF CardOK, IsTree, card

-----------------------------------------------------------------------------
(* What a handler does to the card, and to mounted images.                 *)

(* An image is still there and no shorter, or a RMDIR took it and nothing else. *)
Stays(i, card) == card[i].kind = "file" /\ Len(card[i].data) >= Len(fs[i].data)
Kept(card, cmd) ==
    \A i \in images : fs[i].kind = "file" =>
        Stays(i, card) \/ (cmd = "RMDIR" /\ card = [fs EXCEPT ![i] = Absent])
CardStep(card, cmd) == CardOK(card) /\ Kept(card, cmd)

LEMMA SameCard ==
  ASSUME CardOK(fs), MountedKnown, NEW cmd
  PROVE  CardStep(fs, cmd)
<1>1. \A i \in images : i \in CardPaths
  BY CardAssumption DEF MountedKnown
<1>2. QED
  BY <1>1, FileData DEF CardStep, Kept, Stays, MountedKnown

(* What is not a mounted image, nor above one, can change.                 *)
LEMMA OtherNode ==
  ASSUME CardOK(fs), MountedKnown, NEW p \in CardPaths, p \notin images \/ fs[p].kind # "file",
         NEW x, NEW cmd
  PROVE  Kept([fs EXCEPT ![p] = x], cmd)
<1>1. ASSUME NEW i \in images, fs[i].kind = "file"
      PROVE  i \in CardPaths /\ [fs EXCEPT ![p] = x][i] = fs[i]
  BY <1>1, CardAssumption DEF MountedKnown, CardOK
<1>2. \A i \in images : Len(fs[i].data) \in Nat
  BY CardAssumption, FileData DEF MountedKnown
<1>3. QED
  BY <1>1, <1>2 DEF Kept, Stays

(* The change guard refuses mounted images and the folders above them.     *)
LEMMA Guarded ==
  ASSUME MountedKnown, NEW p \in Paths \ {<<>>}, ~disk_change_begin(p), Kind(p) # "absent",
         NEW i \in images
  PROVE  p # i /\ ~Below(p, i)
<1>1. i \in Paths
  BY CardAssumption DEF MountedKnown
<1>2. ~IsPrefix(p, i)
  BY DEF disk_change_begin
<1>3. QED
  BY <1>1, <1>2, PrefixCases

LEMMA EmptyFile == File(<<>>) \in Nodes /\ Dir \in Nodes /\ Absent \in Nodes
BY DEF File, Dir, Absent, Nodes

LEMMA Resolved ==
  ASSUME NEW s, SessionOK(s), NEW path \in Paths
  PROVE  resolve_path(s, path) \in Paths
BY ConcatProperties DEF resolve_path, SessionOK, Paths

LEMMA OpenCard ==
  ASSUME CardOK(fs), MountedKnown, NEW s, SessionOK(s), NEW m, m.path \in Paths, NEW o \in h_open(s, m)
  PROVE  CardStep(o.fs, m.cmd)
<1> DEFINE p == resolve_path(s, m.path)
<1>1. \/ o.fs = fs
      \/ /\ ~(Writes(m.flags) /\ disk_change_begin(p)) /\ CanOpen(p, m.flags)
         /\ o.fs = Opened(p, m.flags)
  BY DEF h_open, Outcome, Fails, Faults
<1>2. CASE o.fs # fs
  <2>1. p \in CardPaths /\ o.fs = [fs EXCEPT ![p] = File(<<>>)]
    BY <1>1, <1>2, KindOnCard DEF CanOpen, Opened
  <2>2. Kind(p) = fs[p].kind
    BY <2>1, CardPath DEF Kind
  <2>3. \A q \in CardPaths : Below(p, q) => fs[q].kind = "absent"
    BY <1>1, <1>2, <2>1, <2>2, Inside DEF CanOpen
  <2>4. \A n \in 1 .. Len(p) - 1 : fs[SubSeq(p, 1, n)].kind = "dir"
    <3>1. CASE fs[p].kind # "absent"
      BY <2>1, <3>1 DEF CardOK, IsTree
    <3>2. CASE fs[p].kind = "absent"
      BY <1>1, <1>2, <2>1, <2>2, <3>2, Above DEF CanOpen
    <3>3. QED
      BY <3>1, <3>2
  <2>5. CardOK(o.fs)
    BY <2>1, <2>3, <2>4, EmptyFile, ChangeNode
  <2>6. p \notin images \/ fs[p].kind # "file"
    <3> SUFFICES ASSUME fs[p].kind = "file" PROVE p \notin images
      OBVIOUS
    <3>1. "trunc" \in m.flags
      BY <1>1, <1>2, <2>2 DEF Opened
    <3>2. ~disk_change_begin(p)
      BY <1>1, <1>2, <3>1 DEF Writes
    <3>3. p \in Paths \ {<<>>}
      BY <2>1, CardPath
    <3>4. QED
      BY <2>2, <3>2, <3>3, Guarded
  <2>7. QED
    BY <2>1, <2>5, <2>6, OtherNode DEF CardStep
<1>3. QED
  BY <1>2, SameCard

(* A cell is put into the data, which never gets shorter. *)
LEMMA PutData ==
  ASSUME NEW q \in Seq(Nat), NEW i \in Nat, NEW x \in Nat
  PROVE  Put(q, i, x) \in Seq(Nat) /\ Len(Put(q, i, x)) >= Len(q)
<1> DEFINE n == IF i + 1 > Len(q) THEN i + 1 ELSE Len(q)
<1>1. Len(q) \in Nat /\ \A j \in 1 .. Len(q) : q[j] \in Nat
  BY LenProperties
<1>2. n \in Nat /\ n >= Len(q)
  BY <1>1
<1> HIDE DEF n
<1>3. Put(q, i, x) = [j \in 1 .. n |-> IF j = i + 1 THEN x ELSE IF j <= Len(q) THEN q[j] ELSE 0]
  BY DEF Put, n
<1>4. Put(q, i, x) \in [1 .. n -> Nat]
  BY <1>1, <1>3
<1>5. QED
  BY <1>2, <1>4, SeqDef, LenProperties

LEMMA WriteCard ==
  ASSUME CardOK(fs), MountedKnown, NEW slot \in Slots, TableOK(sess), VfsOK(vfs), Owned(sess, vfs),
         NEW m, m.data \in Nat, NEW o \in h_write(sess[slot], m)
  PROVE  CardStep(o.fs, m.cmd)
<1> DEFINE fd == FdOf(sess[slot], m.fd)
           d == vfs[fd]
           pos == IF d.append THEN Len(fs[d.path].data) ELSE d.pos
<1>1. \/ o.fs = fs
      \/ fd # NoFd /\ fs[d.path].kind = "file" /\ o.fs = [fs EXCEPT ![d.path].data = Put(@, pos, m.data)]
  BY DEF h_write, Outcome, Fails, Faults
<1>2. CASE o.fs # fs
  <2>1. fd \in Fds /\ DescriptorOK(d)
    BY <1>1, <1>2, HeldDescriptor
  <2>2. PICK p : p = d.path
    OBVIOUS
  <2>3. p \in CardPaths /\ pos \in Nat
    BY <2>1, <2>2, FileData DEF DescriptorOK
  <2>4. PICK i : i = pos
    OBVIOUS
  <2>5. i \in Nat /\ fs[p].kind = "file" /\ o.fs = [fs EXCEPT ![p].data = Put(@, i, m.data)]
    BY <1>1, <1>2, <2>2, <2>3, <2>4
  <2> DEFINE data == Put(fs[p].data, i, m.data)
             x == [kind |-> "file", data |-> data]
  <2>6. data \in Seq(Nat) /\ Len(data) >= Len(fs[p].data)
    BY <2>3, <2>5, FileData, PutData
  <2> HIDE DEF data
  <2>7. fs[p] = [kind |-> fs[p].kind, data |-> fs[p].data]
    BY <2>3 DEF CardOK, Nodes
  <2>8. x \in Nodes /\ o.fs = [fs EXCEPT ![p] = x]
    BY <2>3, <2>5, <2>6, <2>7 DEF Nodes, CardOK, data
  <2>9. \A q \in CardPaths : Below(p, q) => fs[q].kind = "absent"
    BY <2>3, <2>5, Inside
  <2>10. \A n \in 1 .. Len(p) - 1 : fs[SubSeq(p, 1, n)].kind = "dir"
    BY <2>3, <2>5 DEF CardOK, IsTree
  <2>11. CardOK(o.fs)
    BY <2>3, <2>8, <2>9, <2>10, ChangeNode
  <2>12. Kept(o.fs, m.cmd)
    <3>1. \A q \in CardPaths : o.fs[q] = IF q = p THEN x ELSE fs[q]
      BY <2>8 DEF CardOK
    <3>2. \A img \in images : img \in CardPaths /\ Len(fs[img].data) \in Nat
      BY FileData, CardAssumption DEF MountedKnown
    <3>3. QED
      BY <2>6, <3>1, <3>2 DEF Kept, Stays
  <2>13. QED
    BY <2>11, <2>12 DEF CardStep
<1>3. QED
  BY <1>2, SameCard

LEMMA PathOpCard ==
  ASSUME CardOK(fs), MountedKnown, NEW s, SessionOK(s), NEW m, m.cmd \in {"MKDIR", "RMDIR", "UNLINK"},
         m.path \in Paths, NEW o \in h_pathop(s, m)
  PROVE  CardStep(o.fs, m.cmd)
<1> DEFINE p == resolve_path(s, m.path)
           x == IF m.cmd = "MKDIR" THEN Dir ELSE Absent
<1>1. \/ o.fs = fs
      \/ PathOp(m.cmd, p) = "OK" /\ o.fs = [fs EXCEPT ![p] = x]
  BY DEF h_pathop, Outcome, Fails, Faults
<1>2. CASE o.fs # fs
  <2>1. \/ m.cmd = "MKDIR" /\ Kind(p) = "absent" /\ ParentIsDir(p)
        \/ m.cmd = "RMDIR" /\ Kind(p) # "absent" /\ p # <<>> /\ Entries(p) = {}
        \/ m.cmd = "UNLINK" /\ Kind(p) # "absent" /\ p # <<>> /\ Entries(p) = {} /\ ~disk_change_begin(p)
    BY <1>1, <1>2 DEF PathOp, FatUnlink
  <2>2. p \in CardPaths /\ Kind(p) = fs[p].kind
    <3>1. p \in CardPaths
      BY <2>1, KindOnCard DEF Kind
    <3>2. QED
      BY <3>1, CardPath DEF Kind
  <2>3. x.kind # "absent" => \A n \in 1 .. Len(p) - 1 : fs[SubSeq(p, 1, n)].kind = "dir"
    BY <2>1, <2>2, Above DEF Absent
  <2>4. x.kind # "dir" => \A q \in CardPaths : Below(p, q) => fs[q].kind = "absent"
    <3>1. CASE fs[p].kind = "dir"
      BY <2>1, <2>2, <3>1, EmptyFolder DEF Dir
    <3>2. CASE fs[p].kind # "dir"
      BY <2>2, <3>2, Inside
    <3>3. QED
      BY <3>1, <3>2
  <2>5. CardOK(o.fs)
    BY <1>1, <1>2, <2>2, <2>3, <2>4, EmptyFile, ChangeNode
  <2>6. CASE p \notin images \/ fs[p].kind # "file"
    BY <1>1, <1>2, <2>2, <2>5, <2>6, OtherNode DEF CardStep
  <2>7. CASE p \in images /\ fs[p].kind = "file"
    <3>1. m.cmd = "RMDIR"
      <4>1. p \in Paths \ {<<>>}
        BY <2>2, CardPath
      <4>2. QED
        BY <2>1, <2>2, <2>7, <4>1, Guarded
    <3>2. o.fs = [fs EXCEPT ![p] = Absent]
      BY <1>1, <1>2, <3>1
    <3>3. \A i \in images : i \in CardPaths /\ Len(fs[i].data) \in Nat
      BY CardAssumption, FileData DEF MountedKnown
    <3>4. \A i \in images \ {p} : o.fs[i] = fs[i]
      BY <3>2, <3>3 DEF CardOK
    <3>5. QED
      BY <2>5, <3>1, <3>2, <3>3, <3>4 DEF CardStep, Kept, Stays
  <2>8. QED
    BY <2>6, <2>7
<1>3. QED
  BY <1>2, SameCard

(* What is below a part of a path, or that part, is below the path. *)
LEMMA BelowPart ==
  ASSUME NEW q \in Paths, NEW k \in 1 .. Len(q) - 1, NEW p \in Paths \ {<<>>},
         IsPrefix(p, SubSeq(q, 1, k))
  PROVE  Below(p, q) /\ IsPrefix(p, q)
<1>0. Len(q) \in Nat /\ k \in 1 .. Len(q)
  BY LenProperties DEF Paths
<1> DEFINE a == SubSeq(q, 1, k)
<1>1. a \in Paths /\ Len(a) = k /\ \A i \in 1 .. k : SubSeq(a, 1, i) = SubSeq(q, 1, i)
  BY <1>0, PartOfPath
<1> HIDE DEF a
<1>2. Len(p) \in Nat \ {0} /\ (p = a \/ Below(p, a))
  BY <1>1, PrefixCases DEF a
<1>3. Len(p) \in 1 .. k /\ SubSeq(a, 1, Len(p)) = p
  BY <1>1, <1>2, PartOfPath DEF Below
<1>4. Below(p, q)
  BY <1>0, <1>1, <1>3 DEF Below
<1>5. QED
  BY <1>4, PrefixCases

(* A part of a moved path comes from the same part of where it was. *)
From(o, n, q) == o \o SubSeq(q, Len(n) + 1, Len(q))

LEMMA FromPart ==
  ASSUME NEW o \in Paths \ {<<>>}, NEW n \in Paths \ {<<>>}, NEW q \in Paths,
         NEW k \in Len(n) .. Len(q)
  PROVE  /\ From(o, n, q) \in Paths /\ Len(From(o, n, q)) = Len(o) + Len(q) - Len(n)
         /\ From(o, n, SubSeq(q, 1, k)) = SubSeq(From(o, n, q), 1, Len(o) + k - Len(n))
<1>1. Len(o) \in Nat \ {0} /\ Len(n) \in Nat \ {0} /\ Len(q) \in Nat /\ k \in 1 .. Len(q)
  BY PrefixCases
<1>2. \A r \in Paths : Len(n) <= Len(r) =>
         /\ From(o, n, r) \in Paths /\ Len(From(o, n, r)) = Len(o) + Len(r) - Len(n)
         /\ \A i \in 1 .. Len(o) + Len(r) - Len(n) :
               From(o, n, r)[i] = IF i <= Len(o) THEN o[i] ELSE r[Len(n) + i - Len(o)]
  <2> SUFFICES ASSUME NEW r \in Paths, Len(n) <= Len(r)
               PROVE  /\ From(o, n, r) \in Paths /\ Len(From(o, n, r)) = Len(o) + Len(r) - Len(n)
                      /\ \A i \in 1 .. Len(o) + Len(r) - Len(n) :
                            From(o, n, r)[i] = IF i <= Len(o) THEN o[i] ELSE r[Len(n) + i - Len(o)]
    OBVIOUS
  <2> DEFINE t == SubSeq(r, Len(n) + 1, Len(r))
  <2>1. Len(r) \in Nat /\ \A i \in 1 .. Len(r) : r[i] \in STRING
    BY LenProperties DEF Paths
  <2>2. \A i \in Len(n) + 1 .. Len(r) : r[i] \in STRING
    BY <1>1, <2>1
  <2>3. /\ t \in Paths /\ Len(t) = Len(r) - Len(n)
        /\ \A i \in 1 .. Len(r) - Len(n) : t[i] = r[Len(n) + i]
    BY <1>1, <2>1, <2>2, SubSeqProperties DEF Paths
  <2> HIDE DEF t
  <2>4. /\ o \o t \in Paths /\ Len(o \o t) = Len(o) + Len(t)
        /\ \A i \in 1 .. Len(o) + Len(t) : (o \o t)[i] = IF i <= Len(o) THEN o[i] ELSE t[i - Len(o)]
    BY <2>3, ConcatProperties DEF Paths
  <2>5. From(o, n, r) = o \o t
    BY DEF From, t
  <2>6. \A i \in 1 .. Len(o) + Len(r) - Len(n) : i > Len(o) => t[i - Len(o)] = r[Len(n) + i - Len(o)]
    <3> SUFFICES ASSUME NEW i \in 1 .. Len(o) + Len(r) - Len(n), i > Len(o)
                 PROVE  t[i - Len(o)] = r[Len(n) + i - Len(o)]
      OBVIOUS
    <3>1. PICK j \in 1 .. Len(r) - Len(n) : j = i - Len(o)
      <4>1. i - Len(o) \in 1 .. Len(r) - Len(n)
        BY <1>1, <2>1
      <4>2. QED
        BY <4>1
    <3>2. Len(n) + i - Len(o) = Len(n) + j
      BY <1>1, <3>1
    <3>3. QED
      BY <2>3, <3>1, <3>2
  <2>7. QED
    BY <1>1, <2>1, <2>3, <2>4, <2>5, <2>6
<1> DEFINE a == SubSeq(q, 1, k)
           f == From(o, n, q)
           l == Len(o) + k - Len(n)
<1>3. a \in Paths /\ Len(a) = k /\ \A i \in 1 .. k : a[i] = q[i]
  <2>1. \A i \in 1 .. k : q[i] \in STRING
    BY <1>1, LenProperties DEF Paths
  <2>2. QED
    BY <1>1, <2>1, SubSeqProperties DEF Paths
<1>4. f \in Paths /\ Len(f) = Len(o) + Len(q) - Len(n) /\ l \in 1 .. Len(f)
  BY <1>1, <1>2
<1>5. SubSeq(f, 1, l) \in Paths /\ Len(SubSeq(f, 1, l)) = l /\ \A i \in 1 .. l : SubSeq(f, 1, l)[i] = f[i]
  <2>1. \A i \in 1 .. l : f[i] \in STRING
    BY <1>4, LenProperties DEF Paths
  <2>2. l \in Nat
    BY <1>1
  <2> HIDE DEF f, l
  <2>3. QED
    BY <2>1, <2>2, SubSeqProperties DEF Paths
<1>6. l = Len(o) + k - Len(n) /\ k \in Nat /\ Len(n) <= k /\ k <= Len(q)
  BY <1>1
<1> HIDE DEF a, l
<1>7. /\ From(o, n, a) \in Paths /\ Len(From(o, n, a)) = l
      /\ \A i \in 1 .. l : From(o, n, a)[i] = IF i <= Len(o) THEN o[i] ELSE a[Len(n) + i - Len(o)]
  BY <1>1, <1>2, <1>3, <1>6
<1>8. \A i \in 1 .. l : From(o, n, a)[i] = f[i]
  <2> SUFFICES ASSUME NEW i \in 1 .. l PROVE From(o, n, a)[i] = f[i]
    OBVIOUS
  <2>1. f[i] = IF i <= Len(o) THEN o[i] ELSE q[Len(n) + i - Len(o)]
    <3>1. \A j \in 1 .. Len(o) + Len(q) - Len(n) :
             f[j] = IF j <= Len(o) THEN o[j] ELSE q[Len(n) + j - Len(o)]
      BY <1>1, <1>2, <1>6
    <3>2. i \in 1 .. Len(o) + Len(q) - Len(n)
      BY <1>1, <1>6
    <3> HIDE DEF f
    <3>3. QED
      BY <3>1, <3>2
  <2>2. i > Len(o) => Len(n) + i - Len(o) \in 1 .. k
    BY <1>1, <1>6
  <2>3. i > Len(o) => a[Len(n) + i - Len(o)] = q[Len(n) + i - Len(o)]
    BY <1>3, <2>2
  <2>4. QED
    BY <1>1, <1>6, <1>7, <2>1, <2>3
<1> HIDE DEF f
<1>9. From(o, n, a) = SubSeq(f, 1, l)
  BY <1>5, <1>7, <1>8, SeqEqual DEF Paths
<1>10. QED
  BY <1>4, <1>9 DEF a, f, l

(* rename() moves a folder with all below it, and nothing else. *)
LEMMA MovedTree ==
  ASSUME CardOK(fs), NEW o \in CardPaths, NEW n \in CardPaths, fs[o].kind # "absent",
         fs[n].kind = "absent", ParentIsDir(n), ~IsPrefix(o, n)
  PROVE  CardOK(Moved(o, n))
<1> DEFINE card == Moved(o, n)
           comes(q) == IsPrefix(n, q) /\ From(o, n, q) \in CardPaths
<1>1. card = [q \in CardPaths |-> IF comes(q) THEN fs[From(o, n, q)]
                                 ELSE IF IsPrefix(o, q) THEN Absent ELSE fs[q]]
  BY DEF Moved, From
<1>2. card \in [CardPaths -> Nodes]
  BY <1>1, EmptyFile DEF CardOK
<1> HIDE DEF card
<1>3. o \in Paths \ {<<>>} /\ n \in Paths \ {<<>>} /\ Len(o) \in Nat \ {0} /\ Len(n) \in Nat \ {0}
  BY CardPath
<1>4. \A q \in CardPaths : IsPrefix(n, q) => fs[q].kind = "absent"
  BY <1>3, CardPath, PrefixCases, Inside
<1>5. ASSUME NEW q \in CardPaths, card[q].kind # "absent", NEW k \in 1 .. Len(q) - 1
      PROVE  card[SubSeq(q, 1, k)].kind = "dir"
  <2> DEFINE p == SubSeq(q, 1, k)
  <2>1. q \in Paths \ {<<>>} /\ Len(q) \in Nat /\ k \in 1 .. Len(q)
    BY <1>5, CardPath
  <2>2. p \in CardPaths /\ p \in Paths \ {<<>>} /\ Len(p) = k
    BY <2>1, CardPath, PartOfPath
  <2>3. CASE ~comes(q)
    <3>1. card[q] = fs[q] /\ ~IsPrefix(o, q) /\ fs[q].kind # "absent"
      BY <1>1, <1>5, <2>3 DEF Absent
    <3>2. fs[p].kind = "dir"
      BY <1>5, <3>1 DEF CardOK, IsTree
    <3>3. ~IsPrefix(o, p)
      BY <1>3, <1>5, <2>1, <3>1, BelowPart
    <3>4. ~IsPrefix(n, p)
      BY <1>4, <2>2, <3>2
    <3>5. QED
      BY <1>1, <2>2, <3>2, <3>3, <3>4
  <2>4. CASE comes(q) /\ k < Len(n)
    <3>1. n = q \/ Below(n, q)
      BY <1>3, <2>1, <2>4, PrefixCases
    <3>2. SubSeq(n, 1, k) = p
      <4>1. CASE n = q
        BY <4>1
      <4>2. CASE Below(n, q)
        <5>1. Len(n) \in 1 .. Len(q) /\ SubSeq(q, 1, Len(n)) = n /\ k \in 1 .. Len(n)
          BY <1>3, <2>1, <2>4, <4>2 DEF Below
        <5>2. SubSeq(SubSeq(q, 1, Len(n)), 1, k) = SubSeq(q, 1, k)
          BY <2>1, <5>1, PartOfPath
        <5>3. QED
          BY <5>1, <5>2
      <4>3. QED
        BY <3>1, <4>1, <4>2
    <3> HIDE DEF p
    <3>3. k \in 1 .. Len(n) - 1
      BY <1>3, <2>1, <2>4
    <3>4. fs[p].kind = "dir"
      BY <3>2, <3>3, Above
    <3>5. ~IsPrefix(o, p)
      BY <1>3, <3>2, <3>3, BelowPart
    <3>6. ~IsPrefix(n, p)
      BY <1>4, <2>2, <3>4
    <3>7. QED
      BY <1>1, <2>2, <3>4, <3>5, <3>6 DEF p
  <2>5. CASE comes(q) /\ k >= Len(n)
    <3> DEFINE f == From(o, n, q)
               l == Len(o) + k - Len(n)
    <3>1. card[q] = fs[f] /\ f \in CardPaths /\ fs[f].kind # "absent"
      BY <1>1, <1>5, <2>5
    <3>2. k \in Len(n) .. Len(q)
      BY <1>3, <2>1, <2>5
    <3>3. Len(f) = Len(o) + Len(q) - Len(n) /\ From(o, n, p) = SubSeq(f, 1, l)
      BY <1>3, <2>1, <3>2, FromPart
    <3>4. l \in 1 .. Len(f) - 1 /\ l \in 1 .. Len(f)
      BY <1>3, <1>5, <2>1, <3>2, <3>3
    <3> HIDE DEF f, l
    <3>5. SubSeq(f, 1, l) \in CardPaths /\ fs[SubSeq(f, 1, l)].kind = "dir"
      BY <3>1, <3>4, CardPath DEF CardOK, IsTree
    <3>6. IsPrefix(n, p)
      <4>1. n = q \/ Below(n, q)
        BY <1>3, <2>1, <2>5, PrefixCases
      <4>2. Len(n) \in 1 .. k /\ SubSeq(q, 1, Len(n)) = n
        BY <1>3, <2>1, <2>5, <4>1, PartOfPath DEF Below
      <4>3. SubSeq(p, 1, Len(n)) = n
        BY <2>1, <4>2, PartOfPath
      <4>4. Len(n) <= Len(p) /\ SubSeq(n, 1, Len(n)) = n
        BY <1>3, <2>2, <4>2, PartOfPath
      <4>5. QED
        BY <4>3, <4>4 DEF IsPrefix
    <3>7. comes(p)
      BY <3>3, <3>5, <3>6
    <3>8. card[p] = fs[SubSeq(f, 1, l)]
      BY <1>1, <2>2, <3>3, <3>7
    <3>9. QED
      BY <3>5, <3>8
  <2>6. QED
    BY <1>3, <2>1, <2>3, <2>4, <2>5
<1>6. QED
  BY <1>2, <1>5 DEF CardOK, IsTree, card

LEMMA RenameCard ==
  ASSUME CardOK(fs), MountedKnown, NEW s, SessionOK(s), NEW m, m.path \in Paths, m.path2 \in Paths,
         NEW out \in h_rename(s, m)
  PROVE  CardStep(out.fs, m.cmd)
<1> DEFINE o == resolve_path(s, m.path)
           n == resolve_path(s, m.path2)
<1>1. \/ out.fs = fs
      \/ /\ ~disk_change_begin(o) /\ Kind(o) # "absent" /\ o # <<>> /\ Kind(n) = "absent"
         /\ ParentIsDir(n) /\ ~IsPrefix(o, n) /\ out.fs = Moved(o, n)
  BY DEF h_rename, Outcome, Fails, Faults
<1>2. CASE out.fs # fs
  <2>1. o \in CardPaths /\ fs[o].kind # "absent" /\ n \in CardPaths
    BY <1>1, <1>2 DEF Kind, ParentIsDir
  <2>2. fs[n].kind = "absent" /\ o \in Paths \ {<<>>} /\ n \in Paths \ {<<>>}
    BY <1>1, <1>2, <2>1, CardPath DEF Kind
  <2>3. CardOK(out.fs)
    BY <1>1, <1>2, <2>1, <2>2, MovedTree
  <2> HIDE DEF o, n
  <2>4. ASSUME NEW i \in images, fs[i].kind = "file" PROVE out.fs[i] = fs[i]
    <3>1. i \in CardPaths /\ i \in Paths /\ fs[i].kind = "file"
      BY <2>4, CardAssumption, CardPath DEF MountedKnown
    <3>2. ~IsPrefix(o, i)
      BY <1>1, <1>2, <2>2, <3>1, Guarded, PrefixCases
    <3>3. ~IsPrefix(n, i)
      BY <2>1, <2>2, <3>1, Inside, PrefixCases
    <3>4. QED
      BY <1>1, <1>2, <3>1, <3>2, <3>3 DEF Moved
  <2>5. Kept(out.fs, m.cmd)
    <3>1. \A i \in images : Len(fs[i].data) \in Nat
      BY CardAssumption, FileData DEF MountedKnown
    <3>2. QED
      BY <2>4, <3>1 DEF Kept, Stays
  <2>6. QED
    BY <2>3, <2>5 DEF CardStep
<1>3. QED
  BY <1>2, SameCard

-----------------------------------------------------------------------------
(* The switch of process().                                                *)

LEMMA HandleStep ==
  ASSUME NEW slot \in Slots, TableOK(sess), VfsOK(vfs), Owned(sess, vfs), CardOK(fs), MountedKnown,
         NEW m, RequestOK(m), NEW o \in Handle(sess[slot], m)
  PROVE  SessionStep(sess[slot], o) /\ CardStep(o.fs, m.cmd)
<1> DEFINE s == sess[slot]
<1>0. SessionOK(s)
  BY DEF TableOK
<1>1. \/ \E st : o \in Fails(s, st)
      \/ o.s = s /\ o.vfs = vfs /\ o.fs = fs
      \/ m.cmd = "OPEN" /\ o \in h_open(s, m)
      \/ o \in h_read(s, m)
      \/ m.cmd = "WRITE" /\ o \in h_write(s, m)
      \/ o \in h_close(s, m)
      \/ m.cmd = "LSEEK" /\ o \in h_lseek(s, m)
      \/ o \in h_stat(s, m)
      \/ m.cmd \in {"MKDIR", "RMDIR", "UNLINK"} /\ o \in h_pathop(s, m)
      \/ m.cmd = "RENAME" /\ o \in h_rename(s, m)
      \/ o \in h_opendir(s, m) \union h_readdir(s, m) \union h_readdirx(s, m) \union h_closedir(s, m)
  BY DEF Handle, Outcome
<1> HIDE DEF s
<1>2. CASE \E st : o \in Fails(s, st)
  BY <1>0, <1>2, FailsStep, SameCard DEF s
<1>3. CASE o.s = s /\ o.vfs = vfs /\ o.fs = fs
  BY <1>0, <1>3, NoFileStep, SameCard DEF s
<1>4. CASE m.cmd = "OPEN" /\ o \in h_open(s, m)
  BY <1>0, <1>4, OpenStep, OpenCard DEF RequestOK, s
<1>5. CASE o \in h_read(s, m)
  BY <1>5, ReadStep, SameCard DEF s
<1>6. CASE m.cmd = "WRITE" /\ o \in h_write(s, m)
  BY <1>6, WriteStep, WriteCard DEF RequestOK, s
<1>7. CASE o \in h_close(s, m)
  <2>1. o.fs = fs
    BY <1>7 DEF h_close, Fails, Outcome
  <2>2. QED
    BY <1>7, <2>1, CloseStep, SameCard DEF s
<1>8. CASE m.cmd = "LSEEK" /\ o \in h_lseek(s, m)
  BY <1>8, LseekStep, SameCard DEF RequestOK, s
<1>9. CASE o \in h_stat(s, m)
  <2>1. o.fs = fs
    BY <1>9 DEF h_stat, Fails, Outcome
  <2>2. QED
    BY <1>0, <1>9, <2>1, PathStep, SameCard DEF s
<1>10. CASE m.cmd \in {"MKDIR", "RMDIR", "UNLINK"} /\ o \in h_pathop(s, m)
  BY <1>0, <1>10, PathStep, PathOpCard DEF RequestOK, s
<1>11. CASE m.cmd = "RENAME" /\ o \in h_rename(s, m)
  BY <1>0, <1>11, PathStep, RenameCard DEF RequestOK, s
<1>12. CASE o \in h_opendir(s, m) \union h_readdir(s, m) \union h_readdirx(s, m) \union h_closedir(s, m)
  BY <1>0, <1>12, DirStep, SameCard DEF s
<1>13. QED
  BY <1>1, <1>2, <1>3, <1>4, <1>5, <1>6, <1>7, <1>8, <1>9, <1>10, <1>11, <1>12

-----------------------------------------------------------------------------
(* Sessions that are freed, and the session of a request.                  *)

LEMMA BlankOK == SessionOK(Blank) /\ ~Blank.in_use /\ \A i \in FileSlots : Blank.files[i] = NoFd
<1>1. 0 \in 0 .. SidLimit - 1 /\ <<>> \in Paths
  BY ServerAssumption, FS_CardinalityType DEF Paths
<1>2. [i \in FileSlots |-> NoFd] \in [FileSlots -> Fds \union {NoFd}]
  OBVIOUS
<1>3. QED
  BY <1>1, <1>2 DEF SessionOK, Blank

LEMMA FreeSessions ==
  ASSUME NEW table, TableOK(table), NEW v, VfsOK(v), Owned(table, v), NEW gone \in SUBSET Slots,
         \A s \in Slots : ~table[s].in_use => table[s] = Blank \/ s \in gone,
         Distinct(table)
  PROVE  LET t == free_sessions(table, gone)
             w == CloseAll(v, UNION {HeldBy(table[g]) : g \in gone})
         IN  TableOK(t) /\ VfsOK(w) /\ Owned(t, w) /\ Freed(t) /\ Distinct(t)
<1> DEFINE t == free_sessions(table, gone)
           fds == UNION {HeldBy(table[g]) : g \in gone}
           w == CloseAll(v, fds)
<1>1. DOMAIN t = Slots /\ \A s \in Slots : t[s] = IF s \in gone THEN Blank ELSE table[s]
  BY DEF free_sessions
<1>2. DOMAIN w = Fds /\ \A fd \in Fds : w[fd] = IF fd \in fds THEN Unused ELSE v[fd]
  BY DEF CloseAll
<1>3. \A fd \in Fds : fd \in fds <=> \E s \in gone, i \in FileSlots : Holds(table, s, i, fd)
  <2>1. NoFd \notin Fds
    BY ServerAssumption DEF NoFd
  <2>2. QED
    BY <2>1 DEF HeldBy, Holds
<1> HIDE DEF t, w, fds
<1>4. TableOK(t) /\ Freed(t) /\ Distinct(t)
  BY <1>1, BlankOK DEF TableOK, Freed, Distinct
<1>5. \A fd \in Fds : IsOpen(w, fd) <=> fd \notin fds /\ IsOpen(v, fd)
  BY <1>2 DEF IsOpen
<1>6. VfsOK(w)
  BY <1>2, <1>5 DEF VfsOK
<1>7. \A fd \in Fds, s \in Slots, i \in FileSlots :
         Holds(t, s, i, fd) <=> s \notin gone /\ Holds(table, s, i, fd)
  <2>1. NoFd \notin Fds
    BY ServerAssumption DEF NoFd
  <2>2. QED
    BY <1>1, <2>1, BlankOK DEF Holds
<1>8. Owned(t, w)
  <2>1. ASSUME NEW fd \in Fds
        PROVE  IsOpen(w, fd) <=> \E s \in Slots, i \in FileSlots : Holds(t, s, i, fd)
    BY <1>3, <1>5, <1>7 DEF Owned
  <2>2. \A fd \in Fds : \A s, x \in Slots, i, j \in FileSlots :
           Holds(t, s, i, fd) /\ Holds(t, x, j, fd) => s = x /\ i = j
    BY <1>7 DEF Owned
  <2>3. QED
    BY <2>1, <2>2 DEF Owned
<1>9. QED
  BY <1>4, <1>6, <1>8 DEF t, w, fds

(* The outcome of a handler, as the session of the slot. *)
LEMMA SlotStep ==
  ASSUME TableOK(sess), VfsOK(vfs), Owned(sess, vfs), NEW slot \in Slots,
         NEW o, SessionStep(sess[slot], o), NEW table, NEW s, table = [sess EXCEPT ![slot] = s],
         SessionOK(s), s.files = o.s.files
  PROVE  TableOK(table) /\ Owned(table, o.vfs)
<1>1. DOMAIN table = Slots /\ table[slot] = s /\ \A x \in Slots \ {slot} : table[x] = sess[x]
  BY DEF TableOK
<1>2. TableOK(table)
  BY <1>1 DEF TableOK
<1>3. \A x \in Slots \ {slot}, i \in FileSlots, fd \in Fds : Holds(table, x, i, fd) <=> Holds(sess, x, i, fd)
  BY <1>1 DEF Holds
<1>4. NoFd \notin Fds
  BY ServerAssumption DEF NoFd
<1>5. sess[slot].files \in [FileSlots -> Fds \union {NoFd}]
  BY DEF TableOK, SessionOK
<1>6. CASE SameFiles(sess[slot], o)
  <2>1. \A x \in Slots, i \in FileSlots, fd \in Fds : Holds(table, x, i, fd) <=> Holds(sess, x, i, fd)
    BY <1>1, <1>6 DEF SameFiles, Holds
  <2>2. \A fd \in Fds : IsOpen(o.vfs, fd) <=> \E x \in Slots, i \in FileSlots : Holds(table, x, i, fd)
    BY <1>6, <2>1 DEF SameFiles, Owned
  <2>3. \A d \in Fds : \A x, y \in Slots, j, k \in FileSlots :
           Holds(table, x, j, d) /\ Holds(table, y, k, d) => x = y /\ j = k
    BY <2>1 DEF Owned
  <2>4. QED
    BY <1>2, <2>2, <2>3 DEF Owned
<1>7. CASE OpensFile(sess[slot], o)
  <2>1. PICK i \in FileSlots, fd \in Fds :
          /\ sess[slot].files[i] = NoFd /\ ~IsOpen(vfs, fd)
          /\ o.s.files = [sess[slot].files EXCEPT ![i] = fd]
          /\ \A x \in Fds : IsOpen(o.vfs, x) <=> x = fd \/ IsOpen(vfs, x)
    BY <1>7 DEF OpensFile
  <2>2. \A x \in Slots, j \in FileSlots, d \in Fds :
           Holds(table, x, j, d) <=> (x = slot /\ j = i /\ d = fd) \/ Holds(sess, x, j, d)
    <3>1. \A j \in FileSlots : s.files[j] = IF j = i THEN fd ELSE sess[slot].files[j]
      BY <1>5, <2>1
    <3>2. \A j \in FileSlots, d \in Fds : Holds(table, slot, j, d) <=> (j = i /\ d = fd) \/ Holds(sess, slot, j, d)
      BY <1>1, <1>4, <2>1, <3>1 DEF Holds
    <3>3. QED
      BY <1>3, <3>2
  <2>3. \A x \in Slots, j \in FileSlots : ~Holds(sess, x, j, fd)
    BY <2>1 DEF Owned
  <2>4. \A d \in Fds : IsOpen(o.vfs, d) <=> \E x \in Slots, j \in FileSlots : Holds(table, x, j, d)
    BY <2>1, <2>2 DEF Owned
  <2>5. \A d \in Fds : \A x, y \in Slots, j, k \in FileSlots :
           Holds(table, x, j, d) /\ Holds(table, y, k, d) => x = y /\ j = k
    BY <2>2, <2>3 DEF Owned
  <2>6. QED
    BY <1>2, <2>4, <2>5 DEF Owned
<1>8. CASE ClosesFile(sess[slot], o)
  <2>1. PICK i \in FileSlots :
          /\ sess[slot].files[i] \in Fds
          /\ o.s.files = [sess[slot].files EXCEPT ![i] = NoFd]
          /\ \A x \in Fds : IsOpen(o.vfs, x) <=> x # sess[slot].files[i] /\ IsOpen(vfs, x)
    BY <1>8 DEF ClosesFile
  <2>2. PICK fd \in Fds : fd = sess[slot].files[i]
    BY <2>1
  <2>3. Holds(sess, slot, i, fd)
    BY <2>2 DEF Holds
  <2>4. \A x \in Slots, j \in FileSlots, d \in Fds :
           Holds(table, x, j, d) <=> ~(x = slot /\ j = i) /\ Holds(sess, x, j, d)
    <3>1. \A j \in FileSlots : s.files[j] = IF j = i THEN NoFd ELSE sess[slot].files[j]
      BY <1>5, <2>1
    <3>2. QED
      BY <1>1, <1>3, <1>4, <3>1 DEF Holds
  <2>5. \A x \in Slots, j \in FileSlots, d \in Fds : Holds(table, x, j, d) <=> d # fd /\ Holds(sess, x, j, d)
    BY <2>3, <2>4 DEF Owned, Holds
  <2>6. \A d \in Fds : IsOpen(o.vfs, d) <=> \E x \in Slots, j \in FileSlots : Holds(table, x, j, d)
    BY <2>1, <2>2, <2>5 DEF Owned
  <2>7. \A d \in Fds : \A x, y \in Slots, j, k \in FileSlots :
           Holds(table, x, j, d) /\ Holds(table, y, k, d) => x = y /\ j = k
    BY <2>5 DEF Owned
  <2>8. QED
    BY <1>2, <2>6, <2>7 DEF Owned
<1>9. QED
  BY <1>6, <1>7, <1>8 DEF SessionStep

-----------------------------------------------------------------------------
(* The actions.                                                            *)

(* Nothing that the invariant speaks of changes but the link and expiry.   *)
LEMMA Unmoved ==
  ASSUME ServerInv, UNCHANGED <<sess, vfs, fs, images, next_sid>>,
         up' \in BOOLEAN, expired' \subseteq Slots,
         serving' = serving \/ (serving' = "serving" /\ serving # "boot")
  PROVE  ServerInv'
BY DEF ServerInv, Shapes, MountedKnown, AtBoot, VfsOK, DescriptorOK, IsOpen, Owned, Holds, Freed,
       Distinct, TableOK, SessionOK, CardOK, IsTree

(* Sessions end; the card stays.                                           *)
LEMMA SessionsEnd ==
  ASSUME ServerInv, serving # "boot", NEW gone \in SUBSET Slots,
         serving' \in {"waiting", "serving"}, up' \in BOOLEAN, expired' \subseteq Slots,
         vfs' = CloseAll(vfs, UNION {HeldBy(sess[s]) : s \in gone}),
         sess' = free_sessions(sess, gone), UNCHANGED <<fs, images, next_sid>>
  PROVE  ServerInv'
<1>1. TableOK(sess) /\ VfsOK(vfs) /\ Owned(sess, vfs) /\ Freed(sess) /\ Distinct(sess)
  BY DEF ServerInv, Shapes
<1>2. TableOK(sess') /\ VfsOK(vfs') /\ Owned(sess', vfs') /\ Freed(sess') /\ Distinct(sess')
  BY <1>1, FreeSessions DEF Freed
<1>3. Shapes' /\ MountedKnown'
  BY <1>2 DEF ServerInv, Shapes, MountedKnown, TableOK, SessionOK, CardOK, IsTree
<1>4. QED
  BY <1>2, <1>3 DEF ServerInv, TableOK, SessionOK, VfsOK, DescriptorOK, IsOpen, Owned, Holds, Freed, Distinct

LEMMA InitInv == ServerInit => ServerInv
<1> SUFFICES ASSUME ServerInit PROVE ServerInv
  OBVIOUS
<1>1. Cardinality(Slots) \in Nat /\ Cardinality(Slots) # 0
  BY ServerAssumption, FS_CardinalityType, FS_EmptySet
<1>2. 1 \in 0 .. SidLimit - 1
  BY <1>1, ServerAssumption
<1>3. \A s \in Slots : SessionOK(sess[s]) /\ ~sess[s].in_use
  <2> DEFINE zeros == [i \in FileSlots |-> 0]
  <2>1. zeros \in [FileSlots -> Fds \union {NoFd}]
    BY ServerAssumption
  <2> HIDE DEF zeros
  <2>2. SessionOK([Blank EXCEPT !.files = zeros]) /\ ~[Blank EXCEPT !.files = zeros].in_use
    BY <2>1, BlankOK DEF SessionOK
  <2>3. QED
    BY <2>2 DEF ServerInit, zeros
<1>4. TableOK(sess)
  BY <1>3 DEF ServerInit, TableOK
<1>5. Shapes /\ MountedKnown
  BY <1>2, <1>4, CardAssumption DEF ServerInit, Shapes, MountedKnown, CardOK
<1>6. QED
  BY <1>3, <1>5 DEF ServerInv, AtBoot, Distinct, ServerInit

(* Closing what zeroed slots seem to hold closes the console's descriptor. *)
LEMMA TaskStarts == ASSUME ServerInv, tnfsd_task PROVE ServerInv'
<1>1. AtBoot /\ Shapes /\ MountedKnown /\ serving' = "waiting"
  BY DEF ServerInv, tnfsd_task
<1>2. \A s \in Slots : HeldBy(sess[s]) = {0}
  <2>1. \A s \in Slots, i \in FileSlots : sess[s].files[i] = 0
    BY <1>1 DEF AtBoot, Blank
  <2>2. 0 # NoFd /\ FileSlots # {}
    BY ServerAssumption DEF NoFd
  <2>3. ASSUME NEW s \in Slots PROVE HeldBy(sess[s]) = {0}
    <3>1. {sess[s].files[i] : i \in FileSlots} = {0}
      BY <2>1, <2>2
    <3>2. QED
      BY <2>2, <3>1 DEF HeldBy
  <2>4. QED
    BY <2>3
<1>3. UNION {HeldBy(sess[s]) : s \in Slots} = {0}
  BY <1>2, ServerAssumption
<1>4. DOMAIN vfs' = Fds /\ \A fd \in Fds : ~IsOpen(vfs', fd)
  BY <1>1, <1>3 DEF tnfsd_task, CloseAll, AtBoot, IsOpen
<1>5. DOMAIN sess' = Slots /\ \A s \in Slots : sess'[s] = Blank
  BY DEF tnfsd_task, free_sessions
<1>6. NoFd \notin Fds
  BY ServerAssumption DEF NoFd
<1>7. TableOK(sess') /\ Freed(sess') /\ Distinct(sess')
  BY <1>5, BlankOK DEF TableOK, Freed, Distinct
<1>8. \A s \in Slots, i \in FileSlots, fd \in Fds : ~Holds(sess', s, i, fd)
  BY <1>5, <1>6, BlankOK DEF Holds
<1>9. VfsOK(vfs') /\ Owned(sess', vfs')
  BY <1>4, <1>8 DEF VfsOK, Owned
<1>10. Shapes' /\ MountedKnown'
  BY <1>1, <1>7 DEF tnfsd_task, Shapes, MountedKnown, TableOK, SessionOK, CardOK, IsTree
<1>11. QED
  BY <1>1, <1>7, <1>9, <1>10 DEF ServerInv, TableOK, SessionOK, VfsOK, DescriptorOK, IsOpen, Owned,
     Holds, Freed, Distinct

(* A session has its slot, and the handler did what a handler may do. *)
LEMMA FinishStep ==
  ASSUME ServerInv, NEW m, NEW slot \in Fresh(m), NEW o,
         SessionStep(sess[slot], o), CardStep(o.fs, m.cmd), Finish(slot, m, o)
  PROVE  ServerInv' /\ Kept(fs', m.cmd) /\ (m.cmd # "UMOUNT" => Replied(m.cmd))
<1>1. slot \in Slots /\ sess[slot].in_use /\ serving = "serving"
  BY DEF Fresh, Target, find_session, Receives
<1>2. /\ TableOK(sess) /\ VfsOK(vfs) /\ Owned(sess, vfs) /\ Freed(sess) /\ Distinct(sess)
      /\ CardOK(fs) /\ MountedKnown /\ Shapes
  BY <1>1 DEF ServerInv, Shapes
<1> DEFINE s == reply_and_cache(o.s, m, o.body)
           table == [sess EXCEPT ![slot] = s]
           gone == IF m.cmd = "UMOUNT" THEN {slot} ELSE {}
<1>3. /\ SessionOK(s) /\ s.files = o.s.files /\ s.in_use /\ s.sid = sess[slot].sid
      /\ s.reply.seq = m.seq /\ s.reply.cmd = m.cmd
  BY <1>1 DEF SessionStep, SessionOK, reply_and_cache
<1> HIDE DEF s
<1>4. TableOK(table) /\ Owned(table, o.vfs)
  BY <1>1, <1>2, <1>3, SlotStep
<1>5. \A x \in Slots : table[x] = IF x = slot THEN s ELSE sess[x]
  BY <1>2 DEF TableOK
<1>6. gone \in SUBSET Slots /\ \A x \in Slots : ~table[x].in_use => table[x] = Blank
  BY <1>1, <1>2, <1>3, <1>5 DEF Freed
<1>7. Distinct(table)
  BY <1>1, <1>2, <1>3, <1>5 DEF Distinct
<1>8. VfsOK(o.vfs)
  BY DEF SessionStep
<1>9. /\ sess' = free_sessions(table, gone)
       /\ vfs' = CloseAll(o.vfs, UNION {HeldBy(table[g]) : g \in gone})
       /\ fs' = o.fs /\ expired' = expired \ {slot}
       /\ UNCHANGED <<up, serving, next_sid, images>>
  BY DEF Finish, s
<1> HIDE DEF table, gone
<1>10. TableOK(sess') /\ VfsOK(vfs') /\ Owned(sess', vfs') /\ Freed(sess') /\ Distinct(sess')
  BY <1>4, <1>6, <1>7, <1>8, <1>9, FreeSessions
<1>11. CardOK(fs') /\ Kept(fs', m.cmd)
  BY <1>9 DEF CardStep
<1>12. Shapes' /\ MountedKnown'
  BY <1>2, <1>9, <1>10, <1>11 DEF Shapes, MountedKnown, Kept, TableOK, SessionOK, CardOK, IsTree
<1>13. ServerInv'
  BY <1>1, <1>9, <1>10, <1>11, <1>12 DEF ServerInv, TableOK, SessionOK, VfsOK, DescriptorOK, IsOpen, Owned,
     Holds, Freed, Distinct
<1>14. m.cmd # "UMOUNT" => Replied(m.cmd)
  <2>1. m.cmd # "UMOUNT" => sess'[slot] = s
    BY <1>1, <1>5, <1>9 DEF free_sessions, gone
  <2>2. sess[slot].reply # s.reply
    BY <1>3 DEF Fresh, Answered
  <2>3. QED
    BY <1>1, <1>3, <2>1, <2>2 DEF Replied
<1>15. QED
  BY <1>11, <1>13, <1>14

(* A mounted image stays, or the step answers the RMDIR that took it. *)
ImagesKept ==
    \A i \in images : fs[i].kind = "file" =>
        Stays(i, fs') \/ (Replied("RMDIR") /\ fs' = [fs EXCEPT ![i] = Absent])

(* A request of a session. *)
LEMMA ProcessStep == ASSUME ServerInv, NEW m, RequestOK(m), process(m) PROVE ServerInv' /\ ImagesKept
<1>1. PICK slot \in Fresh(m) : \E o \in Handle(sess[slot], m) : Finish(slot, m, o)
  BY DEF process
<1>2. PICK o \in Handle(sess[slot], m) : Finish(slot, m, o)
  BY <1>1
<1>3. slot \in Slots /\ serving = "serving"
  BY <1>1 DEF Fresh, Target, find_session, Receives
<1>4. TableOK(sess) /\ VfsOK(vfs) /\ Owned(sess, vfs) /\ CardOK(fs) /\ MountedKnown
  BY <1>3 DEF ServerInv, Shapes
<1>5. SessionStep(sess[slot], o) /\ CardStep(o.fs, m.cmd)
  BY <1>3, <1>4, HandleStep
<1>6. ServerInv' /\ Kept(fs', m.cmd) /\ (m.cmd # "UMOUNT" => Replied(m.cmd))
  BY <1>2, <1>5, FinishStep
<1>7. QED
  BY <1>6 DEF Kept, ImagesKept

(* What arrives from a desktop client. *)
LEMMA DesktopRequest ==
  ASSUME NEW p \in Peers, NEW q, NEW sid, NEW r \in Requests
  PROVE  /\ RequestOK(WithHeader([peer |-> p, seq |-> q, sid |-> sid], r))
         /\ WithHeader([peer |-> p, seq |-> q, sid |-> sid], r).peer = p
<1> DEFINE h == [peer |-> p, seq |-> q, sid |-> sid]
           m == WithHeader(h, r)
<1>1. \A x \in DOMAIN r \ {"peer", "seq", "sid"} : m[x] = r[x]
  BY DEF WithHeader
<1>2. m.peer = p
  BY DEF WithHeader
<1>3. m.cmd = r.cmd
  BY <1>1, RequestsAssumption
<1> HIDE DEF m
<1>4. QED
  BY <1>1, <1>2, <1>3, RequestsAssumption DEF RequestOK, m

(* A new session: the blank slot takes an id that no session has. *)
LEMMA MountStep ==
  ASSUME ServerInv, NEW m, RequestOK(m), handle_mount(m)
  PROVE  ServerInv'
<1> DEFINE slot == Lowest(FreeSlots)
           sid == NextSid(sess)
           new == [Blank EXCEPT !.in_use = TRUE, !.sid = sid, !.peer = m.peer, !.root = m.path]
           s == reply_and_cache(new, m, Status("OK"))
<1>1. /\ serving = "serving" /\ m.cmd = "MOUNT" /\ m.path \in Paths
      /\ UNCHANGED <<up, serving, expired, vfs, fs, images>>
  BY DEF handle_mount, Receives, RequestOK
<1>2. /\ TableOK(sess) /\ VfsOK(vfs) /\ Owned(sess, vfs) /\ Freed(sess) /\ Distinct(sess)
      /\ MountedKnown /\ Shapes
  BY <1>1 DEF ServerInv, Shapes
<1>3. CASE UNCHANGED <<sess, next_sid>>
  BY <1>1, <1>2, <1>3, Unmoved DEF Shapes
<1>4. CASE FreeSlots # {} /\ next_sid' = SidAfter(sid)
           /\ (sess' = sess \/ sess' = [sess EXCEPT ![slot] = s])
  <2>1. slot \in Slots /\ ~sess[slot].in_use
    <3>1. FreeSlots \in SUBSET Nat
      BY ServerAssumption DEF FreeSlots
    <3>2. slot \in FreeSlots
      BY <1>4, <3>1, LowestIn
    <3>3. QED
      BY <3>2 DEF FreeSlots
  <2>2. sid \in 1 .. SidLimit - 1 /\ \A x \in Slots : sess[x].in_use => sess[x].sid # sid
    BY <1>2, <2>1, NextSidFree DEF Shapes
  <2> HIDE DEF slot, sid
  <2>3. next_sid' \in 0 .. SidLimit - 1
    <3>1. SidLimit \in Nat \ {0}
      BY ServerAssumption, FS_CardinalityType
    <3>2. sid + 1 \in Nat
      BY <2>2
    <3>3. QED
      BY <1>4, <3>1, <3>2, Wrapped DEF SidAfter
  <2>4. SessionOK(s) /\ s.in_use /\ s.sid = sid /\ \A i \in FileSlots : s.files[i] = NoFd
    <3>1. SidLimit \in Nat /\ sid \in 0 .. SidLimit - 1
      BY <2>2, ServerAssumption
    <3>2. SessionOK(new) /\ new.in_use /\ new.sid = sid /\ new.files = Blank.files
      BY <1>1, <3>1, BlankOK DEF SessionOK, Blank
    <3> HIDE DEF new
    <3>3. QED
      BY <3>2, BlankOK DEF SessionOK, reply_and_cache
  <2> HIDE DEF s
  <2>5. CASE sess' = [sess EXCEPT ![slot] = s]
    <3>1. DOMAIN sess' = Slots /\ \A x \in Slots : sess'[x] = IF x = slot THEN s ELSE sess[x]
      BY <1>2, <2>1, <2>5 DEF TableOK
    <3>2. TableOK(sess') /\ Freed(sess') /\ Distinct(sess')
      BY <1>2, <2>2, <2>4, <3>1 DEF TableOK, Freed, Distinct
    <3>3. \A x \in Slots, i \in FileSlots, fd \in Fds : Holds(sess', x, i, fd) <=> Holds(sess, x, i, fd)
      <4>1. NoFd \notin Fds
        BY ServerAssumption DEF NoFd
      <4>2. sess[slot] = Blank
        BY <1>2, <2>1 DEF Freed
      <4>3. QED
        BY <2>4, <3>1, <4>1, <4>2, BlankOK DEF Holds
    <3>4. Owned(sess', vfs)
      BY <1>2, <3>3 DEF Owned
    <3>5. QED
      BY <1>1, <1>2, <2>3, <3>2, <3>4 DEF ServerInv, Shapes, MountedKnown, TableOK, SessionOK, VfsOK,
         DescriptorOK, IsOpen, Owned, Holds, Freed, Distinct, CardOK, IsTree
  <2>6. CASE sess' = sess
    BY <1>1, <1>2, <2>3, <2>6 DEF ServerInv, Shapes, MountedKnown, TableOK, SessionOK, VfsOK,
         DescriptorOK, IsOpen, Owned, Holds, Freed, Distinct, CardOK, IsTree
  <2>7. QED
    BY <1>4, <2>5, <2>6
<1>5. QED
  BY <1>3, <1>4 DEF handle_mount

(* Whatever a datagram asks for. *)
LEMMA AnswerStep ==
  ASSUME ServerInv, NEW m, RequestOK(m), Answer(m)
  PROVE  /\ ServerInv'
         /\ UNCHANGED fs \/ (UNCHANGED images /\ ImagesKept)
<1>1. CASE Duplicated(m) \/ Ignore(m)
  <2>1. UNCHANGED <<up, serving, sess, next_sid, vfs, fs, images>> /\ expired' \subseteq expired
    BY <1>1 DEF Duplicated, Ignore, serverVars
  <2>2. up' \in BOOLEAN /\ expired' \subseteq Slots
    BY <2>1 DEF ServerInv, Shapes
  <2>3. QED
    BY <2>1, <2>2, Unmoved
<1>2. CASE process(m)
  <2>1. UNCHANGED images
    BY <1>2 DEF process, Finish
  <2>2. QED
    BY <1>2, <2>1, ProcessStep
<1>3. CASE handle_mount(m)
  <2>1. UNCHANGED fs
    BY <1>3 DEF handle_mount
  <2>2. ServerInv'
    BY <1>3, MountStep
  <2>3. QED
    BY <2>1, <2>2
<1>4. QED
  BY <1>1, <1>2, <1>3 DEF Answer

LEMMA NextInv ==
  ASSUME ServerInv, [ServerNext]_svars
  PROVE  ServerInv' /\ (UNCHANGED fs \/ ImagesKept)
<1>0. /\ up \in BOOLEAN /\ serving \in {"boot", "waiting", "serving"} /\ expired \subseteq Slots
      /\ CardOK(fs) /\ MountedKnown
  BY DEF ServerInv, Shapes
<1>1. CASE tnfsd_task
  BY <1>1, TaskStarts DEF tnfsd_task
<1>2. CASE drop_all_sessions
  BY <1>0, <1>2, SessionsEnd DEF drop_all_sessions
<1>3. CASE ReapIdle
  <2>1. reap_idle \in SUBSET Slots
    BY DEF reap_idle
  <2>2. QED
    BY <1>0, <1>3, <2>1, SessionsEnd DEF ReapIdle
<1>4. CASE serve \/ Link \/ Expire \/ UNCHANGED svars
  <2>1. UNCHANGED <<sess, next_sid, vfs, fs, images>>
    BY <1>4 DEF serve, Link, Expire, svars, serverVars
  <2>2. /\ up' \in BOOLEAN /\ expired' \subseteq Slots
        /\ serving' = serving \/ (serving' = "serving" /\ serving # "boot")
    BY <1>0, <1>4 DEF serve, Link, Expire, svars, serverVars
  <2>3. QED
    BY <2>1, <2>2, Unmoved
<1>5. CASE Console
  <2>1. UNCHANGED <<up, serving, sess, expired, next_sid, vfs, fs>>
    BY <1>5 DEF Console
  <2>2. MountedKnown'
    BY <1>0, <1>5 DEF Console, MountedKnown
  <2>3. Shapes'
    BY <2>1 DEF ServerInv, Shapes, TableOK, SessionOK, CardOK, IsTree
  <2>4. QED
    BY <2>1, <2>2, <2>3 DEF ServerInv, AtBoot, VfsOK, DescriptorOK, IsOpen, Owned, Holds, Freed, Distinct
<1>6. CASE Desktop
  BY <1>6, DesktopRequest, AnswerStep DEF Desktop
<1>7. QED
  BY <1>1, <1>2, <1>3, <1>4, <1>5, <1>6 DEF ServerNext, Task

(* Sessions belong to clients. *)
PeersKnown == \A s \in Slots : sess[s].peer \in Peers \union {NoPeer}

LEMMA PeersNext == ASSUME ServerInv, PeersKnown, [ServerNext]_svars PROVE PeersKnown'
<1>1. DOMAIN sess = Slots /\ Blank.peer = NoPeer
  BY DEF ServerInv, Shapes, TableOK, Blank
<1>2. CASE sess' = sess
  BY <1>2 DEF PeersKnown
<1>3. CASE \E gone \in SUBSET Slots : sess' = free_sessions(sess, gone)
  BY <1>1, <1>3 DEF PeersKnown, free_sessions
<1>4. ASSUME NEW m, RequestOK(m), m.peer \in Peers, process(m) PROVE PeersKnown'
  <2>1. PICK slot \in Fresh(m) : \E o \in Handle(sess[slot], m) : Finish(slot, m, o)
    BY <1>4 DEF process
  <2>2. PICK o \in Handle(sess[slot], m) : Finish(slot, m, o)
    BY <2>1
  <2>3. slot \in Slots /\ serving = "serving"
    BY <2>1 DEF Fresh, Target, find_session, Receives
  <2>4. TableOK(sess) /\ VfsOK(vfs) /\ Owned(sess, vfs) /\ CardOK(fs) /\ MountedKnown
    BY <2>3 DEF ServerInv, Shapes
  <2>5. SessionStep(sess[slot], o)
    BY <1>4, <2>3, <2>4, HandleStep
  <2> DEFINE s == reply_and_cache(o.s, m, o.body)
             table == [sess EXCEPT ![slot] = s]
             gone == IF m.cmd = "UMOUNT" THEN {slot} ELSE {}
  <2>6. s.peer = sess[slot].peer /\ sess' = free_sessions(table, gone)
    BY <2>2, <2>5 DEF Finish, SessionStep, SessionOK, reply_and_cache
  <2> HIDE DEF s, gone
  <2>7. \A x \in Slots : table[x].peer = sess[x].peer
    BY <1>1, <2>6
  <2> HIDE DEF table
  <2>8. QED
    BY <1>1, <2>6, <2>7 DEF PeersKnown, free_sessions
<1>5. ASSUME NEW m, m.peer \in Peers, handle_mount(m) PROVE PeersKnown'
  <2> DEFINE slot == Lowest(FreeSlots)
             new == [Blank EXCEPT !.in_use = TRUE, !.sid = NextSid(sess), !.peer = m.peer, !.root = m.path]
             s == reply_and_cache(new, m, Status("OK"))
  <2>1. sess' = sess \/ sess' = [sess EXCEPT ![slot] = s]
    BY <1>5 DEF handle_mount
  <2>2. s.peer = m.peer
    BY DEF reply_and_cache, Blank
  <2> HIDE DEF slot, s
  <2>3. QED
    BY <1>1, <1>5, <2>1, <2>2 DEF PeersKnown
<1>6. CASE Desktop
  <2>1. PICK m : RequestOK(m) /\ m.peer \in Peers /\ Answer(m)
    BY <1>6, DesktopRequest DEF Desktop
  <2>2. CASE Duplicated(m) \/ Ignore(m)
    BY <1>2, <2>2 DEF Duplicated, Ignore, serverVars
  <2>3. QED
    BY <1>4, <1>5, <2>1, <2>2 DEF Answer
<1>7. CASE tnfsd_task \/ drop_all_sessions
  BY <1>3, <1>7 DEF tnfsd_task, drop_all_sessions
<1>8. CASE ReapIdle
  BY <1>3, <1>8 DEF ReapIdle, reap_idle
<1>9. CASE serve \/ Link \/ Expire \/ Console \/ UNCHANGED svars
  BY <1>2, <1>9 DEF serve, Link, Expire, Console, svars, serverVars
<1>10. QED
  BY <1>6, <1>7, <1>8, <1>9 DEF ServerNext, Task

LEMMA Invariance == ServerSpec => []ServerInv
<1>1. ServerInv /\ [ServerNext]_svars => ServerInv'
  BY NextInv
<1>2. QED
  BY <1>1, InitInv, PTL DEF ServerSpec

-----------------------------------------------------------------------------
(* The theorems.                                                           *)

(* What the server keeps has its shape: ids below SidLimit, descriptors of  *)
(* the VFS in the file slots, a card with the paths it was given.          *)
THEOREM ServerTypes == ServerSpec => []ServerTypeOK
<1>1. ServerInv /\ PeersKnown => ServerTypeOK
  <2> SUFFICES ASSUME ServerInv, PeersKnown PROVE ServerTypeOK
    OBVIOUS
  <2>1. DOMAIN vfs = Fds
    BY DEF ServerInv, AtBoot, VfsOK, Shapes
  <2>2. QED
    BY <2>1 DEF ServerInv, Shapes, MountedKnown, TableOK, SessionOK, CardOK, PeersKnown, ServerTypeOK
<1>2. ServerInit => PeersKnown
  BY DEF ServerInit, PeersKnown, Blank
<1>3. ServerInv /\ PeersKnown /\ [ServerNext]_svars => PeersKnown'
  BY PeersNext
<1>4. QED
  BY <1>1, <1>2, <1>3, Invariance, PTL DEF ServerSpec

(* h_open, h_close and free_session, whoever calls it, never lose an open   *)
(* descriptor and never leave a closed one in a slot: an open descriptor is *)
(* held by exactly one file slot, and a freed session is blank.             *)
THEOREM DescriptorsHeldOnce == ServerSpec => []DescriptorsOwned
<1>1. ServerInv => DescriptorsOwned
  <2> SUFFICES ASSUME ServerInv, serving # "boot"
               PROVE  /\ \A fd \in Fds :
                           LET held == {x \in Slots \X FileSlots : sess[x[1]].files[x[2]] = fd}
                           IN  Cardinality(held) = IF IsOpen(vfs, fd) THEN 1 ELSE 0
                      /\ \A s \in Slots : ~sess[s].in_use => sess[s] = Blank
    BY DEF DescriptorsOwned
  <2>1. Owned(sess, vfs) /\ Freed(sess)
    BY DEF ServerInv
  <2>2. ASSUME NEW fd \in Fds
        PROVE  LET held == {x \in Slots \X FileSlots : sess[x[1]].files[x[2]] = fd}
               IN  Cardinality(held) = IF IsOpen(vfs, fd) THEN 1 ELSE 0
    <3> DEFINE held == {x \in Slots \X FileSlots : sess[x[1]].files[x[2]] = fd}
    <3>1. CASE IsOpen(vfs, fd)
      <4>1. PICK s \in Slots, i \in FileSlots : Holds(sess, s, i, fd)
        BY <2>1, <3>1 DEF Owned
      <4>2. \A t \in Slots, j \in FileSlots : Holds(sess, t, j, fd) => t = s /\ j = i
        BY <2>1, <4>1 DEF Owned
      <4>3. held = {<<s, i>>}
        BY <4>1, <4>2 DEF Holds
      <4>4. QED
        BY <3>1, <4>3, FS_Singleton
    <3>2. CASE ~IsOpen(vfs, fd)
      <4>1. held = {}
        BY <2>1, <3>2 DEF Owned, Holds
      <4>2. QED
        BY <3>2, <4>1, FS_EmptySet
    <3>3. QED
      BY <3>1, <3>2
  <2>3. QED
    BY <2>1, <2>2 DEF Freed
<1>2. QED
  BY <1>1, Invariance, PTL

(* next_sid skips 0 and every id in use, also after it has wrapped around. *)
THEOREM SidsUnique == ServerSpec => []SidsDistinct
<1>1. ServerInv => SidsDistinct
  BY DEF ServerInv, Distinct, SidsDistinct
<1>2. QED
  BY <1>1, Invariance, PTL

(* Whatever requests clients send: no request but one takes a mounted image *)
(* away, moves it or cuts it off, for h_open, unlink_op and h_rename ask    *)
(* disk_change_begin. RMDIR does not ask, and takes the image it names, but *)
(* nothing else.                                                            *)
THEOREM MountedImagesSafe == ServerSpec => OnlyRmdirTakesImage
<1> DEFINE A == \A i \in images \cap images' :
                   fs[i].kind = "file" =>
                       \/ fs'[i].kind = "file" /\ Len(fs'[i].data) >= Len(fs[i].data)
                       \/ Replied("RMDIR") /\ fs' = [fs EXCEPT ![i] = Absent]
<1>1. ASSUME ServerInv, [ServerNext]_svars PROVE A
  <2>1. \A i \in images : Len(fs[i].data) \in Nat
    BY <1>1, CardAssumption, FileData DEF ServerInv, Shapes, MountedKnown
  <2>2. UNCHANGED fs \/ ImagesKept
    BY <1>1, NextInv
  <2>3. QED
    BY <2>1, <2>2 DEF ImagesKept, Stays
<1>2. ServerInv /\ [ServerNext]_svars => [A]_svars
  BY <1>1
<1>3. QED
  BY <1>2, Invariance, PTL DEF ServerSpec, OnlyRmdirTakesImage

=============================================================================
