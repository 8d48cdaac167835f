---------------------------- MODULE MCTnfsServer ----------------------------
(* A small card, a client with two sessions, and the requests that they send. *)
EXTENDS TnfsServer

img == <<"dir", "img">>
MCPaths == {<<"dir">>, img, <<"new">>, <<"new", "img">>}
MCCard == [p \in MCPaths |-> CASE p = <<"dir">> -> Dir
                               [] p = img -> File(<<1>>)
                               [] OTHER -> Absent]
MCImages == {img}
MCSize == [n \in {"dir", "img", "new"} |-> 1]

Req(cmd) == [cmd |-> cmd, wf |-> TRUE]
MCRequests ==
    {Req("MOUNT") @@ [path |-> p] : p \in {<<>>, <<"..">>}}
    \union {Req("UMOUNT")}
    \union {Req("OPEN") @@ [path |-> img, flags |-> {"wr", "trunc"}]}
    \union {Req("CLOSE") @@ [fd |-> 0], Req("WRITE") @@ [fd |-> 0, data |-> 1]}
    \union {Req(cmd) @@ [path |-> img] : cmd \in {"UNLINK", "RMDIR"}}
    \union {Req("RENAME") @@ [path |-> <<"dir">>, path2 |-> <<"new">>]}
=============================================================================
