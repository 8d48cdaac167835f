CONSTANTS
    Sockets = {s1}
    Consoles = {cli, telnet}
    Bauds = {9600}
    NoSocket = NoSocket
SPECIFICATION Spec
SYMMETRY Symmetry
INVARIANTS LoopbackFresh
