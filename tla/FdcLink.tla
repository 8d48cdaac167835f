------------------------------- MODULE FdcLink -------------------------------
(***************************************************************************)
(* The loop of the fdc task (src/fdc/fdc.c) and the tasks that ask it for  *)
(* something between two commands:                                         *)
(*   - the listener of FDC over TCP (src/net/fdc_tcp.c), which hands it a  *)
(*     connected socket and asks it to drop the client when WiFi is lost;  *)
(*   - the consoles, which ask for a loopback test or a new baud rate.     *)
(* The requests are shared variables (s_tcp_pending, s_tcp_active,         *)
(* s_tcp_kick, s_lb_req, s_pending_baud), and only s_tcp_pending is        *)
(* changed in a critical section, so every access is a step of its own.    *)
(* A command that the fdc task serves is one step here: it is served from  *)
(* one transport, and on TCP it may find the client gone.                  *)
(***************************************************************************)
EXTENDS Integers, FiniteSets

CONSTANTS
    Sockets,    \* client sockets; a closed one can be accepted again
    Consoles,   \* the tasks that run `loopback` and `baud`
    Bauds,      \* baud rates
    NoSocket    \* -1

ASSUME LinkAssumption ==
    /\ NoSocket \notin Sockets
    /\ "none" \notin Consoles
    /\ 0 \notin Bauds /\ Bauds # {}

VARIABLES
    open,      \* the open client sockets
    link,      \* net_is_connected()
    lpc,       \* the position of fdc_tcp_task
    cfd,       \* the socket it has accepted
    pending,   \* s_tcp_pending
    ppeer,     \* s_tcp_pending_peer, as the socket whose peer it names
    active,    \* s_tcp_active
    kick,      \* s_tcp_kick
    fpc,       \* the position of fdc_task
    tfd,       \* s_tcp_fd
    dead,      \* s_tcp_dead
    transport, \* s_stats.transport
    peer,      \* s_stats.tcp_peer
    tcpState   \* s_stats.tcp_state

(* The loopback test and the baud rate. *)
VARIABLES
    req,       \* s_lb_req
    token,     \* s_lb_done
    lbOwner,   \* the holder of s_lb_lock
    lbpc,      \* its position in fdc_loopback
    pendBaud,  \* s_pending_baud
    pb,        \* apply_pending_baud's copy of it
    baud       \* s_baud

(* History variables. *)
VARIABLES
    stale,     \* the sockets that were open when the listener last lost the link
    fresh      \* whether a test was started since the last request for one

listener == <<lpc, cfd>>
handoff == <<pending, ppeer, active>>
stats == <<transport, peer, tcpState>>
loopback == <<req, token, lbOwner, lbpc, fresh>>
bauds == <<pendBaud, pb, baud>>
vars == <<open, link, lpc, cfd, pending, ppeer, active, kick, fpc, tfd, dead,
          transport, peer, tcpState, req, token, lbOwner, lbpc, pendBaud, pb, baud,
          stale, fresh>>

ListenerPC == {"off", "wait", "bound", "loop", "accept", "attach", "refuse", "detach", "kick"}
FdcPC == {"top", "baud", "service", "dropStats", "release", "pending", "unkick",
          "connectStats", "lb", "lbRun", "lbGive", "serve"}

Init ==
    /\ open = {} /\ link = FALSE
    /\ lpc = "off" /\ cfd = NoSocket
    /\ pending = NoSocket /\ ppeer = NoSocket /\ active = FALSE /\ kick = FALSE
    /\ fpc = "top" /\ tfd = NoSocket /\ dead = FALSE
    /\ transport = "UART" /\ peer = NoSocket /\ tcpState = "OFF"
    /\ req = FALSE /\ token = FALSE /\ lbOwner = "none" /\ lbpc = "idle"
    /\ pendBaud = 0 /\ pb = 0 /\ baud \in Bauds
    /\ stale = {} /\ fresh = FALSE

-----------------------------------------------------------------------------
(* The listener (fdc_tcp_task). *)

ListenerOnly == UNCHANGED <<fpc, tfd, dead, transport, peer, loopback, bauds, link>>

\* The top of the loop: the state is OFF until the link is up.
SetOff ==
    /\ lpc = "off"
    /\ tcpState' = "OFF"
    /\ lpc' = "wait"
    /\ UNCHANGED <<open, cfd, handoff, kick, stale>> /\ ListenerOnly

\* net_wait_connected, then socket, bind and listen; after a failure the loop starts
\* again.
OpenListener ==
    /\ lpc = "wait" /\ link
    /\ lpc' \in {"bound", "off"}
    /\ UNCHANGED <<open, cfd, handoff, kick, tcpState, stale>> /\ ListenerOnly

SetListening ==
    /\ lpc = "bound"
    /\ tcpState' = "LISTENING"
    /\ lpc' = "loop"
    /\ UNCHANGED <<open, cfd, handoff, kick, stale>> /\ ListenerOnly

\* while (net_is_connected())
CheckLink ==
    /\ lpc = "loop"
    /\ lpc' = IF link THEN "accept" ELSE "detach"
    /\ UNCHANGED <<open, cfd, handoff, kick, tcpState, stale>> /\ ListenerOnly

\* accept times out after a second ...
AcceptTimeout ==
    /\ lpc = "accept"
    /\ lpc' = "loop"
    /\ UNCHANGED <<open, cfd, handoff, kick, tcpState, stale>> /\ ListenerOnly

\* ... or returns a client, which may have connected before the link went away.
Accept ==
    /\ lpc = "accept"
    /\ \E s \in Sockets \ open :
        /\ cfd' = s
        /\ open' = open \cup {s}
    /\ lpc' = "attach"
    /\ UNCHANGED <<handoff, kick, tcpState, stale>> /\ ListenerOnly

\* Seeded bug of fdc_tcp_attach: only a pending client is in the way.
AttachIfNonePending ==
    /\ lpc = "attach"
    /\ IF pending = NoSocket
       THEN /\ pending' = cfd /\ ppeer' = cfd /\ active' = TRUE
            /\ cfd' = NoSocket
            /\ lpc' = "loop"
       ELSE /\ lpc' = "refuse"
            /\ UNCHANGED <<handoff, cfd>>
    /\ UNCHANGED <<open, kick, tcpState, stale>> /\ ListenerOnly

\* Hand the socket over, unless a client is attached or pending.
fdc_tcp_attach ==
    /\ lpc = "attach"
    /\ IF ~active /\ pending = NoSocket
       THEN /\ pending' = cfd /\ ppeer' = cfd /\ active' = TRUE
            /\ cfd' = NoSocket
            /\ lpc' = "loop"
       ELSE /\ lpc' = "refuse"
            /\ UNCHANGED <<handoff, cfd>>
    /\ UNCHANGED <<open, kick, tcpState, stale>> /\ ListenerOnly

\* Seeded bug of Refuse: the socket is not closed.
RefuseUnclosed ==
    /\ lpc = "refuse"
    /\ cfd' = NoSocket
    /\ lpc' = "loop"
    /\ UNCHANGED <<open, handoff, kick, tcpState, stale>> /\ ListenerOnly

Refuse ==
    /\ lpc = "refuse"
    /\ open' = open \ {cfd}
    /\ cfd' = NoSocket
    /\ lpc' = "loop"
    /\ stale' = stale \ {cfd}
    /\ UNCHANGED <<handoff, kick, tcpState>> /\ ListenerOnly

\* fdc_tcp_detach looks whether a client is there ...
fdc_tcp_detach ==
    /\ lpc = "detach"
    /\ lpc' = IF active THEN "kick" ELSE "off"
    /\ UNCHANGED <<open, cfd, handoff, kick, tcpState, stale>> /\ ListenerOnly

\* ... and asks for it to be dropped; it may be gone by now.  The listening
\* socket is closed and the loop starts again.
Kick ==
    /\ lpc = "kick"
    /\ kick' = TRUE
    /\ stale' = open
    /\ lpc' = "off"
    /\ UNCHANGED <<open, cfd, handoff, tcpState>> /\ ListenerOnly

Listener ==
    \/ SetOff \/ OpenListener \/ SetListening \/ CheckLink
    \/ AcceptTimeout \/ Accept \/ fdc_tcp_attach \/ Refuse
    \/ fdc_tcp_detach \/ Kick

-----------------------------------------------------------------------------
(* The fdc task (fdc_task): apply_pending_baud, tcp_service, a loopback test if *)
(* one is asked for, and otherwise one poll of the line.                       *)

FdcOnly == UNCHANGED <<listener, link, lbOwner, lbpc>>

\* Seeded bug of ReadBaud: zero is taken for a request.
ReadBaudAlways ==
    /\ fpc = "top"
    /\ pb' = pendBaud
    /\ fpc' = "baud"
    /\ UNCHANGED <<open, handoff, kick, tfd, dead, stats, req, token, pendBaud, baud,
                   stale, fresh>> /\ FdcOnly

\* apply_pending_baud reads the request ...
ReadBaud ==
    /\ fpc = "top"
    /\ pb' = pendBaud
    /\ fpc' = IF pendBaud = 0 THEN "service" ELSE "baud"
    /\ UNCHANGED <<open, handoff, kick, tfd, dead, stats, req, token, pendBaud, baud,
                   stale, fresh>> /\ FdcOnly

\* ... then clears it and programs the UART, which may refuse.
ApplyBaud ==
    /\ fpc = "baud"
    /\ pendBaud' = 0
    /\ baud' \in {pb, baud}
    /\ fpc' = "service"
    /\ UNCHANGED <<open, handoff, kick, tfd, dead, stats, req, token, pb, stale, fresh>>
    /\ FdcOnly

\* tcp_service: nothing to drop.
KeepClient ==
    /\ fpc = "service"
    /\ tfd = NoSocket \/ ~(dead \/ kick)
    /\ fpc' = IF tfd = NoSocket THEN "pending" ELSE "lb"
    /\ UNCHANGED <<open, handoff, kick, tfd, dead, stats, req, token, bauds, stale,
                   fresh>> /\ FdcOnly

\* tcp_drop closes the client that is dead or was kicked, ...
tcp_drop ==
    /\ fpc = "service"
    /\ tfd # NoSocket /\ (dead \/ kick)
    /\ open' = open \ {tfd}
    /\ stale' = stale \ {tfd}
    /\ tfd' = NoSocket
    /\ dead' = FALSE /\ kick' = FALSE
    /\ fpc' = "dropStats"
    /\ UNCHANGED <<handoff, stats, req, token, bauds, fresh>> /\ FdcOnly

DropStats ==
    /\ fpc = "dropStats"
    /\ transport' = "UART" /\ peer' = NoSocket
    /\ tcpState' = IF tcpState = "CONNECTED" THEN "LISTENING" ELSE tcpState
    /\ fpc' = "release"
    /\ UNCHANGED <<open, handoff, kick, tfd, dead, req, token, bauds, stale, fresh>>
    /\ FdcOnly

\* Seeded bug of Release: the listener is not told.
ReleaseNever ==
    /\ fpc = "release"
    /\ fpc' = "pending"
    /\ UNCHANGED <<open, handoff, kick, tfd, dead, stats, req, token, bauds,
                   stale, fresh>> /\ FdcOnly

\* ... and last of all lets the listener accept the next one.
Release ==
    /\ fpc = "release"
    /\ active' = FALSE
    /\ fpc' = "pending"
    /\ UNCHANGED <<open, pending, ppeer, kick, tfd, dead, stats, req, token, bauds,
                   stale, fresh>> /\ FdcOnly

NoPending ==
    /\ fpc = "pending" /\ pending = NoSocket
    /\ fpc' = "lb"
    /\ UNCHANGED <<open, handoff, kick, tfd, dead, stats, req, token, bauds, stale,
                   fresh>> /\ FdcOnly

\* Seeded bug of Adopt: a client is not adopted while a request to drop one is left.
AdoptUnlessKicked ==
    /\ fpc = "pending" /\ pending # NoSocket /\ ~kick
    /\ tfd' = pending
    /\ pending' = NoSocket
    /\ fpc' = "unkick"
    /\ UNCHANGED <<open, ppeer, active, kick, dead, stats, req, token, bauds, stale,
                   fresh>> /\ FdcOnly

\* Adopt the pending client; the critical section is this step.
Adopt ==
    /\ fpc = "pending" /\ pending # NoSocket
    /\ tfd' = pending
    /\ pending' = NoSocket
    /\ fpc' = "unkick"
    /\ UNCHANGED <<open, ppeer, active, kick, dead, stats, req, token, bauds, stale,
                   fresh>> /\ FdcOnly

\* Seeded bug of Unkick: a request meant for an earlier client stays.
UnkickNot ==
    /\ fpc = "unkick"
    /\ dead' = FALSE
    /\ fpc' = "connectStats"
    /\ UNCHANGED <<open, handoff, kick, tfd, stats, req, token, bauds, stale, fresh>>
    /\ FdcOnly

\* A request to drop a client that is left over, or meant for this one while it was
\* pending, is forgotten.
Unkick ==
    /\ fpc = "unkick"
    /\ dead' = FALSE /\ kick' = FALSE
    /\ fpc' = "connectStats"
    /\ UNCHANGED <<open, handoff, tfd, stats, req, token, bauds, stale, fresh>>
    /\ FdcOnly

ConnectStats ==
    /\ fpc = "connectStats"
    /\ transport' = "TCP" /\ tcpState' = "CONNECTED" /\ peer' = ppeer
    /\ fpc' = "lb"
    /\ UNCHANGED <<open, handoff, kick, tfd, dead, req, token, bauds, stale, fresh>>
    /\ FdcOnly

\* Is a loopback test asked for?  run_loopback starts.
LbCheck ==
    /\ fpc = "lb"
    /\ fpc' = IF req THEN "lbRun" ELSE "serve"
    /\ fresh' = (req \/ fresh)
    /\ UNCHANGED <<open, handoff, kick, tfd, dead, stats, req, token, bauds, stale>>
    /\ FdcOnly

\* The result is in s_lb_result: the request is cleared ...
LbRan ==
    /\ fpc = "lbRun"
    /\ req' = FALSE
    /\ fpc' = "lbGive"
    /\ UNCHANGED <<open, handoff, kick, tfd, dead, stats, token, bauds, stale, fresh>>
    /\ FdcOnly

\* ... and the caller is woken, whether it still waits or not.
LbGive ==
    /\ fpc = "lbGive"
    /\ token' = TRUE
    /\ fpc' = "top"
    /\ UNCHANGED <<open, handoff, kick, tfd, dead, stats, req, bauds, stale, fresh>>
    /\ FdcOnly

\* One poll of the line: nothing came, or a command was served.  On TCP the client
\* may turn out to be gone.
Serve ==
    /\ fpc = "serve"
    /\ \/ UNCHANGED dead
       \/ tfd # NoSocket /\ dead' = TRUE
    /\ fpc' = "top"
    /\ UNCHANGED <<open, handoff, kick, tfd, stats, req, token, bauds, stale, fresh>>
    /\ FdcOnly

Fdc ==
    \/ ReadBaud \/ ApplyBaud \/ KeepClient \/ tcp_drop \/ DropStats \/ Release
    \/ NoPending \/ Adopt \/ Unkick \/ ConnectStats \/ LbCheck \/ LbRan \/ LbGive \/ Serve

-----------------------------------------------------------------------------
(* The consoles. *)

ConsoleOnly ==
    UNCHANGED <<open, link, listener, handoff, kick, fpc, tfd, dead, stats, pb, baud,
                stale>>

\* fdc_loopback: take s_lb_lock and ask for a test.
fdc_loopback(c) ==
    /\ lbOwner = "none"
    /\ lbOwner' = c
    /\ req' = TRUE
    /\ lbpc' = "wait"
    /\ fresh' = FALSE
    /\ UNCHANGED <<token, pendBaud>> /\ ConsoleOnly

\* The task is done: the result is copied out ...
LbTake ==
    /\ lbpc = "wait" /\ token
    /\ token' = FALSE
    /\ lbpc' = "copy"
    /\ UNCHANGED <<req, lbOwner, fresh, pendBaud>> /\ ConsoleOnly

LbReturn ==
    /\ lbpc = "copy"
    /\ lbpc' = "idle"
    /\ lbOwner' = "none"
    /\ UNCHANGED <<req, token, fresh, pendBaud>> /\ ConsoleOnly

\* ... or three seconds are over.
LbTimeout ==
    /\ lbpc = "wait" /\ ~token
    /\ req' = FALSE
    /\ lbpc' = "idle"
    /\ lbOwner' = "none"
    /\ UNCHANGED <<token, fresh, pendBaud>> /\ ConsoleOnly

fdc_set_baud(b) ==
    /\ pendBaud' = b
    /\ UNCHANGED <<req, token, lbOwner, lbpc, fresh>> /\ ConsoleOnly

Console ==
    \/ \E c \in Consoles : fdc_loopback(c)
    \/ LbTake \/ LbReturn \/ LbTimeout
    \/ \E b \in Bauds : fdc_set_baud(b)

\* WiFi comes and goes.
LinkChange ==
    /\ link' = ~link
    /\ UNCHANGED <<open, listener, handoff, kick, fpc, tfd, dead, stats, loopback, bauds,
                   stale>>

Next == Listener \/ Fdc \/ Console \/ LinkChange

Spec == Init /\ [][Next]_vars

-----------------------------------------------------------------------------
(* Properties. *)

FlagsOK ==
    /\ link \in BOOLEAN /\ active \in BOOLEAN /\ kick \in BOOLEAN /\ dead \in BOOLEAN
    /\ req \in BOOLEAN /\ token \in BOOLEAN /\ fresh \in BOOLEAN

ValuesOK ==
    /\ open \subseteq Sockets /\ stale \subseteq Sockets
    /\ lpc \in ListenerPC /\ fpc \in FdcPC /\ lbpc \in {"idle", "wait", "copy"}
    /\ cfd \in Sockets \cup {NoSocket} /\ pending \in Sockets \cup {NoSocket}
    /\ ppeer \in Sockets \cup {NoSocket} /\ tfd \in Sockets \cup {NoSocket}
    /\ peer \in Sockets \cup {NoSocket}
    /\ transport \in {"UART", "TCP"} /\ tcpState \in {"OFF", "LISTENING", "CONNECTED"}
    /\ lbOwner \in Consoles \cup {"none"}
    /\ pendBaud \in Bauds \cup {0} /\ pb \in Bauds \cup {0} /\ baud \in Bauds
    /\ fpc = "baud" => pb # 0

\* Flags, positions and sockets have their types, and the UART is never programmed
\* with the 0 that means "no request".
TypeOK == FlagsOK /\ ValuesOK

\* The sockets the listener and the fdc task hold.
Held == {cfd, pending, tfd} \ {NoSocket}

\* A client socket is open exactly while one of the two tasks holds it, and never
\* both do: it is neither closed twice nor used after it was closed nor lost,
\* although the number of a closed socket is used again by the next client.
SocketOwnedOnce ==
    /\ open = Held
    /\ cfd # NoSocket => cfd # pending /\ cfd # tfd
    /\ pending = NoSocket \/ tfd = NoSocket

\* The task serves one client at a time, and `stats` names the one it serves: the
\* peer's address travels beside the socket and is copied outside the critical
\* section.
PeerIsClient ==
    fpc = "serve" => /\ transport = (IF tfd = NoSocket THEN "UART" ELSE "TCP")
                     /\ peer = tfd

\* A client that is alive is dropped only because WiFi was lost after it connected:
\* a request to drop an earlier client that nobody took does not hit the next one.
NoSpuriousDrop ==
    [][(tfd # NoSocket /\ tfd' = NoSocket /\ ~dead) => tfd \in stale]_vars

-----------------------------------------------------------------------------
(* The inductive invariant. *)

\* The listener holds a socket only between accept and the hand-over.
AcceptInv == cfd # NoSocket <=> lpc \in {"attach", "refuse"}

\* s_tcp_active stays set from the hand-over until the client's last trace is gone.
ActiveInv ==
    /\ pending # NoSocket \/ tfd # NoSocket => active
    /\ fpc \in {"dropStats", "release"} => active /\ pending = NoSocket
    /\ fpc \in {"dropStats", "release", "pending"} => tfd = NoSocket
    /\ fpc \in {"unkick", "connectStats"} => tfd # NoSocket

\* The pending peer belongs to the pending socket until its stats are written.
PeerInv ==
    /\ pending # NoSocket => ppeer = pending
    /\ fpc \in {"unkick", "connectStats"} => ppeer = tfd

\* The stats lag behind the socket only while the client is exchanged.
StatsInv ==
    /\ fpc \in {"release", "pending", "unkick", "connectStats"} =>
          transport = "UART" /\ peer = NoSocket
    /\ fpc \in FdcPC \ {"dropStats", "release", "pending", "unkick", "connectStats"} =>
          transport = (IF tfd = NoSocket THEN "UART" ELSE "TCP") /\ peer = tfd

\* A request to drop the client is meant for it, or about to be forgotten.
KickInv == kick /\ tfd # NoSocket /\ fpc # "unkick" => tfd \in stale

\* The inductive invariant that the theorems of FdcLinkProofs use.
LinkInv ==
    TypeOK /\ SocketOwnedOnce /\ AcceptInv /\ ActiveInv /\ PeerInv /\ StatsInv /\ KickInv

-----------------------------------------------------------------------------
(* Liveness. *)

\* The fdc task never blocks: every wait of its loop has a timeout.
LiveSpec == Spec /\ WF_vars(Fdc)

\* A client that was accepted is served: it does not stay pending, whatever becomes
\* of the link and of the client before it.
PendingServed == (pending # NoSocket) ~> (pending = NoSocket)

\* After a client that is gone, the next one can be accepted.
DeadClientReleased == (tfd # NoSocket /\ dead) ~> ~active

\* "transmit a 256-byte incrementing pattern and read it back, filling *out" (fdc.h,
\* fdc_loopback): the result that is returned is of a test that began after the
\* request.
LoopbackFresh == lbpc = "copy" => fresh

=============================================================================
