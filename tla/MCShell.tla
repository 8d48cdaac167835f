------------------------------- MODULE MCShell -------------------------------
(* A small instance of Shell. *)
EXTENDS Shell, TLC

MCWords == STRING
MCKeyOrder == <<"name", "drive0">>
MCDefault == [name |-> <<"n0">>, drive0 |-> NoName]

MCFiles == {<<"a">>, <<"b">>, <<"autoexec">>, <<"d", "a">>, <<"d", "b">>}
MCAutoexec == <<"autoexec">>

Exec(name) == [op |-> "exec", name |-> name]
Mount(name) == [op |-> "mount", drive |-> "drive0", name |-> name]
Unmount == [op |-> "unmount", drive |-> "drive0"]
Set(v) == [op |-> "set", key |-> "name", val |-> <<v>>]
Delete(name) == [op |-> "delete", name |-> name]
Rename(name, to) == [op |-> "rename", name |-> name, to |-> to]
Copy(name, to) == [op |-> "copy", name |-> name, to |-> to]
Update(src) == [op |-> "update", src |-> src]
Plain(op) == [op |-> op]

\* d/b mounts the image beside it and runs itself; b and autoexec run d/b.
MCBatches ==
    << "b" >> :> << Exec(<<"d", "b">>) >>
    @@ << "autoexec" >> :> << Exec(<<"d", "b">>) >>
    @@ << "d", "b" >> :> << Mount(<<"a">>), Exec(<<"b">>) >>

\* One behaviour is about the configuration, batch files, the card, or updates.
MCMenus == {
    [cli |-> {Set("x"), Plain("save"), Plain("wipe")},
     telnet |-> {Set("y"), Set("n0"), Plain("save"), Plain("wipe"), Plain("reboot")}],
    [cli |-> {Exec(<<"d", "b">>), Exec(<<"b">>), Exec(<<"a">>)},
     telnet |-> {Exec(<<"d", "b">>), Unmount, Plain("logout")}],
    [cli |-> {Mount(<<"a">>), Mount(<<"tnfs:", "u">>), Unmount, Delete(<<"a">>)},
     telnet |-> {Mount(<<"d", "a">>), Rename(<<"d">>, <<"e">>), Rename(<<"d", "a">>, <<"a">>),
                 Copy(<<"b">>, <<"a">>), Delete(<<"d", "a">>)}],
    [cli |-> {Mount(<<"a">>), Unmount, Delete(<<"a">>)},
     telnet |-> {Mount(<<"tnfs:", "u">>), Plain("save")}],
    [cli |-> {Update("sd"), Update("status")},
     telnet |-> {Update("sd"), Update("https"), Plain("reboot")}] }
=============================================================================
