---------------------------- MODULE FdcLinkProofs ----------------------------
(***************************************************************************)
(* The invariant LinkInv of FdcLink is inductive.  From it: sockets are    *)
(* owned once, `stats` names the client that is served, and no client is   *)
(* dropped for another's sake.  One lemma per action that moves a socket   *)
(* or a flag of the hand-over; the other actions of a task share one.      *)
(***************************************************************************)
EXTENDS FdcLink, TLAPS

\* The steps of the listener that move no socket and no flag.
LEMMA ListenerQuietStep ==
    ASSUME LinkInv,
           \/ SetOff \/ OpenListener \/ SetListening \/ CheckLink
           \/ AcceptTimeout \/ fdc_tcp_detach
    PROVE  LinkInv'
  <1>1. UNCHANGED <<open, cfd, pending, ppeer, active, kick, fpc, tfd, transport,
                    peer, stale>>
    BY DEF SetOff, OpenListener, SetListening, CheckLink, AcceptTimeout, fdc_tcp_detach,
       ListenerOnly, handoff, loopback, bauds
  <1>2. FlagsOK'
    BY DEF LinkInv, TypeOK, FlagsOK, SetOff, OpenListener, SetListening, CheckLink,
       AcceptTimeout, fdc_tcp_detach, ListenerOnly, handoff, loopback
  <1>3. ValuesOK'
    BY DEF LinkInv, TypeOK, ValuesOK, SetOff, OpenListener, SetListening, CheckLink,
       AcceptTimeout, fdc_tcp_detach, ListenerOnly, handoff, loopback, bauds, ListenerPC
  <1>4. SocketOwnedOnce' /\ PeerInv' /\ KickInv'
    BY <1>1 DEF LinkInv, SocketOwnedOnce, Held, PeerInv, KickInv
  <1>5. ActiveInv' /\ StatsInv'
    BY <1>1 DEF LinkInv, ActiveInv, StatsInv
  <1>6. AcceptInv'
    BY <1>1 DEF LinkInv, AcceptInv, SetOff, OpenListener, SetListening, CheckLink,
       AcceptTimeout, fdc_tcp_detach
  <1>7. QED
    BY <1>2, <1>3, <1>4, <1>5, <1>6 DEF LinkInv, TypeOK

\* A new client: its socket is nobody else's.
LEMMA AcceptStep ==
    ASSUME LinkInv, Accept
    PROVE  LinkInv'
  <1>1. FlagsOK'
    BY DEF LinkInv, TypeOK, FlagsOK, Accept, ListenerOnly, handoff, loopback
  <1>2. ValuesOK'
    BY DEF LinkInv, TypeOK, ValuesOK, Accept, ListenerOnly, handoff, loopback, bauds,
       ListenerPC
  <1>3. SocketOwnedOnce'
    BY LinkAssumption DEF LinkInv, SocketOwnedOnce, Held, AcceptInv, TypeOK, ValuesOK,
       Accept, ListenerOnly, handoff
  <1>4. AcceptInv'
    BY LinkAssumption DEF LinkInv, AcceptInv, TypeOK, ValuesOK, Accept
  <1>5. ActiveInv'
    BY DEF LinkInv, ActiveInv, Accept, ListenerOnly, handoff
  <1>6. PeerInv'
    BY DEF LinkInv, PeerInv, Accept, ListenerOnly, handoff
  <1>7. StatsInv'
    BY DEF LinkInv, StatsInv, Accept, ListenerOnly
  <1>8. KickInv'
    BY DEF LinkInv, KickInv, Accept, ListenerOnly
  <1>9. QED
    BY <1>1, <1>2, <1>3, <1>4, <1>5, <1>6, <1>7, <1>8 DEF LinkInv, TypeOK

\* The hand-over: s_tcp_active shows that nothing of an earlier client is left.
LEMMA AttachStep ==
    ASSUME LinkInv, fdc_tcp_attach
    PROVE  LinkInv'
  <1>1. FlagsOK'
    BY DEF LinkInv, TypeOK, FlagsOK, fdc_tcp_attach, ListenerOnly, handoff, loopback
  <1>2. ValuesOK'
    BY DEF LinkInv, TypeOK, ValuesOK, fdc_tcp_attach, ListenerOnly, handoff, loopback,
       bauds, ListenerPC
  <1>3. SocketOwnedOnce'
    BY DEF LinkInv, SocketOwnedOnce, Held, ActiveInv, AcceptInv, fdc_tcp_attach,
       ListenerOnly, handoff
  <1>4. AcceptInv'
    BY DEF LinkInv, AcceptInv, fdc_tcp_attach
  <1>5. ActiveInv'
    BY DEF LinkInv, ActiveInv, fdc_tcp_attach, ListenerOnly, handoff
  <1>6. PeerInv'
    BY DEF LinkInv, PeerInv, ActiveInv, SocketOwnedOnce, fdc_tcp_attach, ListenerOnly,
       handoff
  <1>7. StatsInv'
    BY DEF LinkInv, StatsInv, fdc_tcp_attach, ListenerOnly
  <1>8. KickInv'
    BY DEF LinkInv, KickInv, fdc_tcp_attach, ListenerOnly
  <1>9. QED
    BY <1>1, <1>2, <1>3, <1>4, <1>5, <1>6, <1>7, <1>8 DEF LinkInv, TypeOK

\* A second client is closed by the listener; the first is another socket.
LEMMA RefuseStep ==
    ASSUME LinkInv, Refuse
    PROVE  LinkInv'
  <1>1. FlagsOK'
    BY DEF LinkInv, TypeOK, FlagsOK, Refuse, ListenerOnly, handoff, loopback
  <1>2. ValuesOK'
    BY DEF LinkInv, TypeOK, ValuesOK, Refuse, ListenerOnly, handoff, loopback, bauds,
       ListenerPC
  <1>3. SocketOwnedOnce'
    BY DEF LinkInv, SocketOwnedOnce, Held, Refuse, ListenerOnly, handoff
  <1>4. AcceptInv'
    BY DEF LinkInv, AcceptInv, Refuse
  <1>5. ActiveInv'
    BY DEF LinkInv, ActiveInv, Refuse, ListenerOnly, handoff
  <1>6. PeerInv'
    BY DEF LinkInv, PeerInv, Refuse, ListenerOnly, handoff
  <1>7. StatsInv'
    BY DEF LinkInv, StatsInv, Refuse, ListenerOnly
  <1>8. KickInv'
    BY DEF LinkInv, KickInv, SocketOwnedOnce, AcceptInv, Refuse, ListenerOnly
  <1>9. QED
    BY <1>1, <1>2, <1>3, <1>4, <1>5, <1>6, <1>7, <1>8 DEF LinkInv, TypeOK

\* The request to drop the client; the client's socket is among the open ones.
LEMMA KickStep ==
    ASSUME LinkInv, Kick
    PROVE  LinkInv'
  <1>1. FlagsOK'
    BY DEF LinkInv, TypeOK, FlagsOK, Kick, ListenerOnly, handoff, loopback
  <1>2. ValuesOK'
    BY DEF LinkInv, TypeOK, ValuesOK, Kick, ListenerOnly, handoff, loopback, bauds,
       ListenerPC
  <1>3. SocketOwnedOnce'
    BY DEF LinkInv, SocketOwnedOnce, Held, Kick, ListenerOnly, handoff
  <1>4. AcceptInv'
    BY DEF LinkInv, AcceptInv, Kick
  <1>5. ActiveInv'
    BY DEF LinkInv, ActiveInv, Kick, ListenerOnly, handoff
  <1>6. PeerInv'
    BY DEF LinkInv, PeerInv, Kick, ListenerOnly, handoff
  <1>7. StatsInv'
    BY DEF LinkInv, StatsInv, Kick, ListenerOnly
  <1>8. KickInv'
    BY DEF LinkInv, KickInv, SocketOwnedOnce, Held, Kick, ListenerOnly
  <1>9. QED
    BY <1>1, <1>2, <1>3, <1>4, <1>5, <1>6, <1>7, <1>8 DEF LinkInv, TypeOK

\* The steps of the fdc task that move no socket.
LEMMA FdcQuietStep ==
    ASSUME LinkInv,
           \/ ReadBaud \/ ApplyBaud \/ KeepClient \/ NoPending
           \/ LbCheck \/ LbRan \/ LbGive \/ Serve
    PROVE  LinkInv'
  <1>1. UNCHANGED <<open, lpc, cfd, pending, ppeer, active, kick, tfd, transport,
                    peer, stale>>
    BY DEF ReadBaud, ApplyBaud, KeepClient, NoPending, LbCheck, LbRan, LbGive, Serve,
       FdcOnly, listener, handoff, stats, bauds
  <1>2. FlagsOK'
    BY DEF LinkInv, TypeOK, FlagsOK, ReadBaud, ApplyBaud, KeepClient, NoPending,
       LbCheck, LbRan, LbGive, Serve, FdcOnly, handoff
  <1>3. ValuesOK'
    BY DEF LinkInv, TypeOK, ValuesOK, ReadBaud, ApplyBaud, KeepClient, NoPending,
       LbCheck, LbRan, LbGive, Serve, FdcOnly, listener, handoff, stats, bauds, FdcPC
  <1>4. SocketOwnedOnce' /\ AcceptInv'
    BY <1>1 DEF LinkInv, SocketOwnedOnce, Held, AcceptInv
  <1>5. ActiveInv' /\ PeerInv' /\ KickInv'
    BY <1>1 DEF LinkInv, ActiveInv, PeerInv, KickInv, ReadBaud, ApplyBaud, KeepClient,
       NoPending, LbCheck, LbRan, LbGive, Serve
  <1>6. StatsInv'
    BY <1>1 DEF LinkInv, ActiveInv, StatsInv, FdcPC, ReadBaud, ApplyBaud, KeepClient,
       NoPending, LbCheck, LbRan, LbGive, Serve
  <1>7. QED
    BY <1>2, <1>3, <1>4, <1>5, <1>6 DEF LinkInv, TypeOK

\* The client is closed; nothing is pending beside it.
LEMMA DropStep ==
    ASSUME LinkInv, tcp_drop
    PROVE  LinkInv'
  <1>1. FlagsOK'
    BY DEF LinkInv, TypeOK, FlagsOK, tcp_drop, FdcOnly, handoff
  <1>2. ValuesOK'
    BY DEF LinkInv, TypeOK, ValuesOK, tcp_drop, FdcOnly, listener, handoff, stats,
       bauds, FdcPC
  <1>3. SocketOwnedOnce'
    BY DEF LinkInv, SocketOwnedOnce, Held, tcp_drop, FdcOnly, listener, handoff
  <1>4. AcceptInv'
    BY DEF LinkInv, AcceptInv, tcp_drop, FdcOnly, listener
  <1>5. ActiveInv'
    BY DEF LinkInv, ActiveInv, SocketOwnedOnce, tcp_drop, handoff
  <1>6. PeerInv'
    BY DEF LinkInv, PeerInv, tcp_drop, handoff
  <1>7. StatsInv'
    BY DEF LinkInv, StatsInv, tcp_drop, stats
  <1>8. KickInv'
    BY DEF LinkInv, KickInv, tcp_drop
  <1>9. QED
    BY <1>1, <1>2, <1>3, <1>4, <1>5, <1>6, <1>7, <1>8 DEF LinkInv, TypeOK

\* The stats follow the closed socket.
LEMMA DropStatsStep ==
    ASSUME LinkInv, DropStats
    PROVE  LinkInv'
  <1>1. FlagsOK'
    BY DEF LinkInv, TypeOK, FlagsOK, DropStats, FdcOnly, handoff
  <1>2. ValuesOK'
    BY DEF LinkInv, TypeOK, ValuesOK, DropStats, FdcOnly, listener, handoff, stats,
       bauds, FdcPC
  <1>3. SocketOwnedOnce'
    BY DEF LinkInv, SocketOwnedOnce, Held, DropStats, FdcOnly, listener, handoff
  <1>4. AcceptInv'
    BY DEF LinkInv, AcceptInv, DropStats, FdcOnly, listener
  <1>5. ActiveInv'
    BY DEF LinkInv, ActiveInv, DropStats, handoff
  <1>6. PeerInv'
    BY DEF LinkInv, PeerInv, DropStats, handoff
  <1>7. StatsInv'
    BY DEF LinkInv, StatsInv, DropStats, stats
  <1>8. KickInv'
    BY DEF LinkInv, KickInv, DropStats
  <1>9. QED
    BY <1>1, <1>2, <1>3, <1>4, <1>5, <1>6, <1>7, <1>8 DEF LinkInv, TypeOK

\* The listener may hand over the next client; nothing is left of this one.
LEMMA ReleaseStep ==
    ASSUME LinkInv, Release
    PROVE  LinkInv'
  <1>1. FlagsOK'
    BY DEF LinkInv, TypeOK, FlagsOK, Release, FdcOnly, handoff
  <1>2. ValuesOK'
    BY DEF LinkInv, TypeOK, ValuesOK, Release, FdcOnly, listener, handoff, stats, bauds,
       FdcPC
  <1>3. SocketOwnedOnce'
    BY DEF LinkInv, SocketOwnedOnce, Held, Release, FdcOnly, listener, handoff
  <1>4. AcceptInv'
    BY DEF LinkInv, AcceptInv, Release, FdcOnly, listener
  <1>5. ActiveInv'
    BY DEF LinkInv, ActiveInv, Release, handoff
  <1>6. PeerInv'
    BY DEF LinkInv, PeerInv, Release, handoff
  <1>7. StatsInv'
    BY DEF LinkInv, StatsInv, Release, stats
  <1>8. KickInv'
    BY DEF LinkInv, KickInv, Release
  <1>9. QED
    BY <1>1, <1>2, <1>3, <1>4, <1>5, <1>6, <1>7, <1>8 DEF LinkInv, TypeOK

\* The pending socket becomes the client.
LEMMA AdoptStep ==
    ASSUME LinkInv, Adopt
    PROVE  LinkInv'
  <1>1. FlagsOK'
    BY DEF LinkInv, TypeOK, FlagsOK, Adopt, FdcOnly, handoff
  <1>2. ValuesOK'
    BY DEF LinkInv, TypeOK, ValuesOK, Adopt, FdcOnly, listener, handoff, stats, bauds,
       FdcPC
  <1>3. SocketOwnedOnce'
    BY DEF LinkInv, SocketOwnedOnce, Held, Adopt, FdcOnly, listener, handoff
  <1>4. AcceptInv'
    BY DEF LinkInv, AcceptInv, Adopt, FdcOnly, listener
  <1>5. ActiveInv'
    BY DEF LinkInv, ActiveInv, Adopt, handoff
  <1>6. PeerInv'
    BY DEF LinkInv, PeerInv, Adopt, handoff
  <1>7. StatsInv'
    BY DEF LinkInv, StatsInv, Adopt, stats
  <1>8. KickInv'
    BY DEF LinkInv, KickInv, Adopt
  <1>9. QED
    BY <1>1, <1>2, <1>3, <1>4, <1>5, <1>6, <1>7, <1>8 DEF LinkInv, TypeOK

\* A request to drop a client is forgotten.
LEMMA UnkickStep ==
    ASSUME LinkInv, Unkick
    PROVE  LinkInv'
  <1>1. FlagsOK'
    BY DEF LinkInv, TypeOK, FlagsOK, Unkick, FdcOnly, handoff
  <1>2. ValuesOK'
    BY DEF LinkInv, TypeOK, ValuesOK, Unkick, FdcOnly, listener, handoff, stats, bauds,
       FdcPC
  <1>3. SocketOwnedOnce'
    BY DEF LinkInv, SocketOwnedOnce, Held, Unkick, FdcOnly, listener, handoff
  <1>4. AcceptInv'
    BY DEF LinkInv, AcceptInv, Unkick, FdcOnly, listener
  <1>5. ActiveInv'
    BY DEF LinkInv, ActiveInv, Unkick, handoff
  <1>6. PeerInv'
    BY DEF LinkInv, PeerInv, Unkick, handoff
  <1>7. StatsInv'
    BY DEF LinkInv, StatsInv, Unkick, stats
  <1>8. KickInv'
    BY DEF LinkInv, KickInv, Unkick
  <1>9. QED
    BY <1>1, <1>2, <1>3, <1>4, <1>5, <1>6, <1>7, <1>8 DEF LinkInv, TypeOK

\* The stats name the new client.
LEMMA ConnectStatsStep ==
    ASSUME LinkInv, ConnectStats
    PROVE  LinkInv'
  <1>1. FlagsOK'
    BY DEF LinkInv, TypeOK, FlagsOK, ConnectStats, FdcOnly, handoff
  <1>2. ValuesOK'
    BY DEF LinkInv, TypeOK, ValuesOK, ConnectStats, FdcOnly, listener, handoff, stats,
       bauds, FdcPC
  <1>3. SocketOwnedOnce'
    BY DEF LinkInv, SocketOwnedOnce, Held, ConnectStats, FdcOnly, listener, handoff
  <1>4. AcceptInv'
    BY DEF LinkInv, AcceptInv, ConnectStats, FdcOnly, listener
  <1>5. ActiveInv'
    BY DEF LinkInv, ActiveInv, ConnectStats, handoff
  <1>6. PeerInv'
    BY DEF LinkInv, PeerInv, ConnectStats, handoff
  <1>7. StatsInv'
    BY DEF LinkInv, StatsInv, ActiveInv, PeerInv, ConnectStats, stats
  <1>8. KickInv'
    BY DEF LinkInv, KickInv, ConnectStats
  <1>9. QED
    BY <1>1, <1>2, <1>3, <1>4, <1>5, <1>6, <1>7, <1>8 DEF LinkInv, TypeOK

\* A console, or the link, changes none of the variables that LinkInv relates.
LEMMA OthersStep ==
    ASSUME LinkInv, Console \/ LinkChange
    PROVE  LinkInv'
  <1>1. UNCHANGED <<open, lpc, cfd, pending, ppeer, active, kick, fpc, tfd, transport, peer,
                    stale>>
    BY DEF Console, fdc_loopback, LbTake, LbReturn, LbTimeout, fdc_set_baud, ConsoleOnly,
       LinkChange, listener, handoff, stats
  <1>2. FlagsOK'
    BY DEF LinkInv, TypeOK, FlagsOK, Console, fdc_loopback, LbTake, LbReturn, LbTimeout,
       fdc_set_baud, ConsoleOnly, LinkChange, listener, handoff, stats, loopback
  <1>3. ValuesOK'
    BY DEF LinkInv, TypeOK, ValuesOK, Console, fdc_loopback, LbTake, LbReturn, LbTimeout,
       fdc_set_baud, ConsoleOnly, LinkChange, listener, handoff, stats, loopback, bauds
  <1>4. SocketOwnedOnce' /\ AcceptInv' /\ ActiveInv'
    BY <1>1 DEF LinkInv, SocketOwnedOnce, Held, AcceptInv, ActiveInv
  <1>5. PeerInv' /\ StatsInv' /\ KickInv'
    BY <1>1 DEF LinkInv, PeerInv, StatsInv, KickInv
  <1>6. QED
    BY <1>2, <1>3, <1>4, <1>5 DEF LinkInv, TypeOK

-----------------------------------------------------------------------------
(* The theorems. *)

\* No socket is open at boot.
LEMMA InitLinkInv == Init => LinkInv
  <1>1. SUFFICES ASSUME Init PROVE LinkInv
    OBVIOUS
  <1>2. TypeOK
    BY <1>1 DEF Init, TypeOK, FlagsOK, ValuesOK, ListenerPC, FdcPC
  <1>3. SocketOwnedOnce
    BY <1>1 DEF Init, SocketOwnedOnce, Held
  <1>4. AcceptInv /\ ActiveInv /\ PeerInv /\ StatsInv /\ KickInv
    BY <1>1 DEF Init, AcceptInv, ActiveInv, PeerInv, StatsInv, KickInv
  <1>5. QED
    BY <1>2, <1>3, <1>4 DEF LinkInv

\* LinkInv does not depend on anything but the variables.
LEMMA StutterStep ==
    ASSUME LinkInv, UNCHANGED vars
    PROVE  LinkInv'
  BY DEF vars, LinkInv, TypeOK, FlagsOK, ValuesOK, SocketOwnedOnce, Held, AcceptInv,
         ActiveInv, PeerInv, StatsInv, KickInv

\* Every step of every task preserves LinkInv.
LEMMA NextLinkInv == LinkInv /\ [Next]_vars => LinkInv'
  <1>1. SUFFICES ASSUME LinkInv, [Next]_vars PROVE LinkInv'
    OBVIOUS
  <1>2. CASE Listener
    BY <1>1, <1>2, ListenerQuietStep, AcceptStep, AttachStep, RefuseStep, KickStep
       DEF Listener
  <1>3. CASE Fdc
    BY <1>1, <1>3, FdcQuietStep, DropStep, DropStatsStep, ReleaseStep, AdoptStep,
       UnkickStep, ConnectStatsStep
       DEF Fdc
  <1>4. CASE Console \/ LinkChange
    BY <1>1, <1>4, OthersStep
  <1>5. CASE UNCHANGED vars
    BY <1>1, <1>5, StutterStep
  <1>6. QED
    BY <1>1, <1>2, <1>3, <1>4, <1>5 DEF Next

\* The inductive invariant holds throughout.
THEOREM LinkInvariance == Spec => []LinkInv
  BY InitLinkInv, NextLinkInv, PTL DEF Spec

\* The listener, the fdc task and the consoles stay at the positions of their code, and
\* every shared variable of fdc_tcp.c and fdc.c keeps its type.
THEOREM LinkTypes == Spec => []TypeOK
  <1>1. LinkInv => TypeOK
    BY DEF LinkInv
  <1>2. QED
    BY <1>1, LinkInvariance, PTL

\* Each client socket that fdc_tcp.c accepts has one owner until it is closed, once.
THEOREM SocketsOwned == Spec => []SocketOwnedOnce
  <1>1. LinkInv => SocketOwnedOnce
    BY DEF LinkInv
  <1>2. QED
    BY <1>1, LinkInvariance, PTL

\* While the fdc task serves, `stats` shows the transport and the peer it serves.
THEOREM PeerNamed == Spec => []PeerIsClient
  <1>1. LinkInv => PeerIsClient
    BY DEF LinkInv, StatsInv, PeerIsClient, FdcPC
  <1>2. QED
    BY <1>1, LinkInvariance, PTL

\* The fdc task drops a live client only if WiFi was lost while its socket was open.
THEOREM DropsJustified == Spec => NoSpuriousDrop
  <1>1. LinkInv /\ [Next]_vars =>
          [(tfd # NoSocket /\ tfd' = NoSocket /\ ~dead) => tfd \in stale]_vars
    <2>1. SUFFICES ASSUME LinkInv, Next, tfd # NoSocket, tfd' = NoSocket, ~dead
                   PROVE  tfd \in stale
      OBVIOUS
    <2>2. tcp_drop
      <3>1. CASE Listener
        BY <2>1, <3>1 DEF Listener, SetOff, OpenListener, SetListening,
           CheckLink, AcceptTimeout, Accept, fdc_tcp_attach, Refuse, fdc_tcp_detach, Kick,
           ListenerOnly
      <3>2. CASE Fdc
        BY <2>1, <3>2 DEF Fdc, ReadBaud, ApplyBaud, KeepClient, DropStats, Release,
           NoPending, Adopt, Unkick, ConnectStats, LbCheck, LbRan, LbGive, Serve
      <3>3. CASE Console \/ LinkChange
        BY <2>1, <3>3 DEF Console, fdc_loopback, LbTake, LbReturn, LbTimeout, fdc_set_baud,
           ConsoleOnly, LinkChange
      <3>4. QED
        BY <2>1, <3>1, <3>2, <3>3 DEF Next
    <2>3. QED
      BY <2>1, <2>2 DEF tcp_drop, LinkInv, KickInv
  <1>2. QED
    BY <1>1, LinkInvariance, PTL DEF Spec, NoSpuriousDrop

=============================================================================
