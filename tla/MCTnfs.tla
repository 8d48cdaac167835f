------------------------------- MODULE MCTnfs -------------------------------
(* A file of four cells next to a folder, and calls on them. *)
EXTENDS Tnfs

MCPaths == {<<"f">>, <<"g">>, <<".h">>}
MCNames == {"f", "g", ".h"}
MCCard == [p \in MCPaths |-> IF p = <<"g">> THEN Dir ELSE File(<<1, 2, 3, 4>>)]
MCSize == [n \in MCNames |-> 1]
MCRemote == <<"f">>
MCOpens == {[path |-> MCRemote, writable |-> TRUE, create |-> FALSE]}
MCReads == {[off |-> 1, cells |-> <<0, 0>>]}
MCWrites == {[off |-> 1, cells |-> <<9>>]}
(* The device's own server, and a foreign one behind TCP. *)
MCServers == {[tcp |-> FALSE, dirx |-> TRUE], [tcp |-> TRUE, dirx |-> FALSE]}
MCLists == {<<>>}
=============================================================================
