------------------------------ MODULE TnfsNet ------------------------------
(***************************************************************************)
(* The datagrams between TNFS clients and the TNFS server. A socket of a   *)
(* client is a peer; each direction keeps the order of what it delivers,   *)
(* and loses or duplicates datagrams when Unreliable is set.               *)
(***************************************************************************)
EXTENDS Naturals, Sequences, SequencesExt

CONSTANTS
    Unreliable, \* whether datagrams are lost and duplicated
    Capacity    \* bound on the datagrams under way in one direction

ASSUME NetAssumption == Unreliable \in BOOLEAN /\ Capacity \in Nat

VARIABLES
    inbox,  \* requests on their way to the server, [peer, sid, seq, cmd, ...]
    outbox  \* replies on their way back, [peer, sid, seq, cmd, body]

netVars == <<inbox, outbox>>

NetInit == inbox = <<>> /\ outbox = <<>>

(* A request r with its header. *)
WithHeader(header, r) ==
    [x \in DOMAIN header \union DOMAIN r |-> IF x \in DOMAIN header THEN header[x] ELSE r[x]]

(* sendto(): the datagram joins the others, or is dropped at a full queue. *)
SendTo(queue, m) == IF Len(queue) < Capacity THEN Append(queue, m) ELSE queue

(* A datagram of either direction is lost. *)
Lose ==
    /\ Unreliable
    /\ \/ \E i \in DOMAIN inbox : inbox' = RemoveAt(inbox, i) /\ UNCHANGED outbox
       \/ \E i \in DOMAIN outbox : outbox' = RemoveAt(outbox, i) /\ UNCHANGED inbox

(* A datagram arrives twice. *)
Duplicate ==
    /\ Unreliable
    /\ \E i \in DOMAIN inbox :
           /\ Len(inbox) < Capacity
           /\ inbox' = InsertAt(inbox, i, inbox[i])
    /\ UNCHANGED outbox
=============================================================================
