--------------------------- MODULE MCRemoteJobs ---------------------------
(* A small instance of RemoteJobs: two callers, three blocks and a queue    *)
(* that is shorter than the blocks.                                         *)
EXTENDS RemoteJobs

=============================================================================
