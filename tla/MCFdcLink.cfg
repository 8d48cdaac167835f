CONSTANTS
    Sockets = {s1, s2, s3}
    Consoles = {cli}
    Bauds = {9600}
    NoSocket = NoSocket
SPECIFICATION LiveSpec
INVARIANTS TypeOK SocketOwnedOnce PeerIsClient
PROPERTIES NoSpuriousDrop PendingServed DeadClientReleased
