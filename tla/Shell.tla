-------------------------------- MODULE Shell --------------------------------
(***************************************************************************)
(* The consoles (src/src/cli/, src/src/net/console.c): a serial and a      *)
(* network console run the same commands, each on a task of its own, over  *)
(* one configuration, one mount table, one card and one batch folder.      *)
(*                                                                         *)
(* A name is a sequence of path components: <<"d", "a">> is "d/a". A name  *)
(* that begins with Url is a URL. The mount table is that of the module    *)
(* Disk, reduced to which name is where; its lock makes a mount and a      *)
(* guarded change of the card one step each. A folder is there while it    *)
(* holds a file.                                                           *)
(***************************************************************************)
EXTENDS Config, Ota

CONSTANTS
    Network,         \* the consoles that are network consoles
    Drives,          \* the drives; a drive is its key of the configuration
    Batches,         \* the commands of each batch file: its lines but blank lines, comments,
                     \* lines that are too long, and a last line without a newline
    Files,           \* the files on the card at first
    Menus,           \* what the operators type, one choice per behaviour
    Url, Autoexec,
    BATCH_MAX_DEPTH,
    MaxRestarts      \* bound on the restarts

(* What a line can say. *)
Commands ==
    [op : {"set"}, key : Keys, val : Names]
    \union [op : {"mount"}, drive : Drives, name : Names] \union [op : {"unmount"}, drive : Drives]
    \union [op : {"delete", "exec"}, name : Names]
    \union [op : {"rename", "copy"}, name : Names, to : Names]
    \union [op : {"update"}, src : {"status", "sd", "https"}]
    \union [op : {"save", "wipe", "logout", "reboot"}]

(* There is one serial console, and autoexec.bat is at the root of the card. *)
ASSUME ShellAssumption ==
    /\ Network \subseteq Consoles /\ Drives \subseteq Keys
    /\ \A c, o \in Consoles \ Network : c = o
    /\ \A m \in Menus : m \in [Consoles -> SUBSET Commands]
    /\ \A f \in DOMAIN Batches : Batches[f] \in Seq(Commands)
    /\ Autoexec \in DOMAIN Batches /\ Autoexec \in Names /\ Len(Autoexec) = 1
    /\ BATCH_MAX_DEPTH \in Nat \ {0} /\ MaxRestarts \in Nat

VARIABLES
    con,         \* each console: its command, where that is, and its batch files
    s_batch_cwd, \* the folder of the batch that runs
    table,       \* the name in each slot of the mount table
    up,          \* the drives that are mounted
    files,       \* the files on the card
    menu,        \* what is typed in this behaviour
    restarts,
    overlap      \* whether two consoles were busy at once since the start

shellVars == <<con, s_batch_cwd, table, up, files, menu, restarts, overlap>>
vars == <<configVars, otaVars, shellVars>>

Root == <<>>
NoName == <<>>
NoCmd == [op |-> "none"]
IsUrl(name) == name # NoName /\ Head(name) = Url

Prompt == [cmd |-> NoCmd, at |-> "start", key |-> 1, val |-> NoName, frames |-> <<>>, bye |-> FALSE,
           stalled |-> FALSE]
Idle(c) == con[c].cmd = NoCmd /\ con[c].frames = <<>>

card == <<table, up, files>>

(***************************************************************************)
(* The start of the device (app_main).                                     *)
(***************************************************************************)
(* disk_automount: a remote drive is configured and comes up later. *)
disk_automount(cfg) ==
    /\ table' = [d \in Drives |-> IF IsUrl(cfg[d]) \/ cfg[d] \in files THEN cfg[d] ELSE NoName]
    /\ up' = {d \in Drives : cfg[d] \in files}

(* The serial console runs autoexec.bat before its first prompt. *)
cli_run_autoexec ==
    [c \in Consoles |->
        IF c \notin Network /\ Autoexec \in files
        THEN [Prompt EXCEPT !.frames = <<[path |-> Autoexec, line |-> 1, saved |-> Root]>>]
        ELSE Prompt]

app_main ==
    /\ restarts' = restarts + 1
    /\ config_init /\ disk_automount(s_cfg') /\ OtaBoot
    /\ con' = cli_run_autoexec /\ s_batch_cwd' = Root /\ overlap' = FALSE
    /\ UNCHANGED <<files, menu>>

PowerLoss == restarts < MaxRestarts /\ app_main

Init ==
    /\ nvs = Empty /\ s_cfg = Default /\ s_dirty = FALSE /\ OtaInit
    /\ con = [c \in Consoles |-> Prompt] /\ s_batch_cwd = Root
    /\ table = [d \in Drives |-> NoName] /\ up = {} /\ files = Files
    /\ menu \in Menus /\ restarts = 0 /\ overlap = FALSE
    /\ (\A c \in Consoles : \A m \in menu[c] : m.op # "update") => fw = NoFile

(***************************************************************************)
(* Lines: typed, or read from a batch file (run_batch_file).               *)
(***************************************************************************)
Line(c, m) == con' = [con EXCEPT ![c].cmd = m]
Finish(c) ==
    con' = [con EXCEPT ![c] = [@ EXCEPT !.cmd = NoCmd, !.at = "start", !.key = 1, !.val = NoName]]
Goto(c, at) == con' = [con EXCEPT ![c].at = at]

(* Busy at once, after a step that starts a line. *)
Overlaps(c) == overlap' = (overlap \/ \E o \in Consoles \ {c} : ~Idle(o))

cli_feed(c) ==
    /\ Idle(c) /\ ~con[c].bye
    /\ \E m \in menu[c] :
         /\ m.op \in {"reboot", "update"} => restarts < MaxRestarts
         /\ Line(c, m)
    /\ Overlaps(c)
    /\ UNCHANGED <<configVars, otaVars, card, s_batch_cwd, menu, restarts>>

Top(c) == Last(con[c].frames)
Lines(c) == Batches[Top(c).path]

run_batch_file(c) ==
    /\ con[c].cmd = NoCmd /\ con[c].frames # <<>> /\ Top(c).line <= Len(Lines(c))
    /\ con' = [con EXCEPT ![c].cmd = Lines(c)[Top(c).line],
                          ![c].frames[Len(con[c].frames)].line = @ + 1]
    /\ Overlaps(c)
    /\ UNCHANGED <<configVars, otaVars, card, s_batch_cwd, menu, restarts>>

(* Seeded bug: the prompt's folder, not the caller's. *)
RestoreRoot(c) == s_batch_cwd' = Root
(* The end of batch_exec_path: the folder that was saved is put back. *)
Restore(c) == s_batch_cwd' = Top(c).saved
EndOfBatch(c) ==
    /\ con[c].cmd = NoCmd /\ con[c].frames # <<>> /\ Top(c).line > Len(Lines(c))
    /\ Restore(c)
    /\ con' = [con EXCEPT ![c].frames = Front(@)]
    /\ UNCHANGED <<configVars, otaVars, card, menu, restarts, overlap>>

(* The network loop closes the connection once the line is done; the next  *)
(* client gets a new console.                                              *)
Reconnect(c) ==
    /\ Idle(c) /\ con[c].bye
    /\ con' = [con EXCEPT ![c] = Prompt]
    /\ UNCHANGED <<configVars, otaVars, card, s_batch_cwd, menu, restarts, overlap>>

(***************************************************************************)
(* Commands.                                                               *)
(***************************************************************************)
Runs(c, op, at) == con[c].cmd.op = op /\ con[c].at = at
Arg(c) == con[c].cmd
Same == UNCHANGED <<s_batch_cwd, menu, restarts, overlap>>

(* A name is below the folder of the batch; a URL is taken as it is. *)
qualify(name) == IF IsUrl(name) THEN name ELSE s_batch_cwd \o name

(* A config_set_... call: the command ends with the flag. *)
config_set(c, k, v) ==
    \/ Assign(k, v) /\ Goto(c, "dirty")
    \/ s_cfg[k] = v /\ Finish(c) /\ UNCHANGED configVars

(* hostname, baud, log, wifi, ssid, pass, ftpuser, ftppass, telnetd, ftpd, *)
(* tnfsd, fdctcp and tz set one key.                                       *)
cmd_set(c) ==
    /\ Runs(c, "set", "start")
    /\ config_set(c, Arg(c).key, Arg(c).val)
    /\ UNCHANGED <<otaVars, card>> /\ Same

Flag(c) ==
    /\ con[c].at = "dirty"
    /\ MarkDirty /\ Finish(c)
    /\ UNCHANGED <<otaVars, card>> /\ Same

(* Seeded bug: the flag is cleared although a key was not written. *)
SaveFailsClean(c) == Finish(c) /\ MarkClean
(* A write to flash can fail. *)
SaveFails(c) == Finish(c) /\ UNCHANGED configVars
(* config_save. *)
cmd_save(c) ==
    /\ Arg(c).op = "save"
    /\ \/ /\ con[c].key <= Len(KeyOrder)
          /\ SaveKey(KeyOrder[con[c].key])
          /\ con' = [con EXCEPT ![c].at = "put", ![c].key = @ + 1]
       \/ con[c].key > Len(KeyOrder) /\ MarkClean /\ Finish(c)
       \/ SaveFails(c)
    /\ UNCHANGED <<otaVars, card>> /\ Same

(* config_wipe; the mounted drives stay. *)
cmd_wipe(c) ==
    /\ \/ Runs(c, "wipe", "start") /\ EraseAll /\ Goto(c, "defaults")
       \/ Runs(c, "wipe", "start") /\ Finish(c) /\ UNCHANGED configVars
       \/ Runs(c, "wipe", "defaults") /\ set_defaults /\ Goto(c, "clean")
       \/ Runs(c, "wipe", "clean") /\ MarkClean /\ Finish(c)
    /\ UNCHANGED <<otaVars, card>> /\ Same

(* disk_mount: a local image that cannot be opened leaves the slot empty;  *)
(* a remote drive is configured whether or not it comes up.                *)
disk_mount(d, name) ==
    /\ UNCHANGED files
    /\ \/ IsUrl(name) /\ table' = [table EXCEPT ![d] = name] /\ up' \in {up \ {d}, up \union {d}}
       \/ name \in files /\ table' = [table EXCEPT ![d] = name] /\ up' = up \union {d}
       \/ ~IsUrl(name) /\ table' = [table EXCEPT ![d] = NoName] /\ up' = up \ {d}

(* The drive, and then the configuration. *)
cmd_mount(c) ==
    /\ Runs(c, "mount", "start")
    /\ disk_mount(Arg(c).drive, qualify(Arg(c).name))
    /\ con' = [con EXCEPT ![c].at = "persist", ![c].val = table'[Arg(c).drive]]
    /\ UNCHANGED <<configVars, otaVars>> /\ Same

(* A drive that is not mounted, be it configured, is left alone. *)
cmd_unmount(c) ==
    /\ Runs(c, "unmount", "start")
    /\ \/ Arg(c).drive \notin up /\ Finish(c) /\ UNCHANGED card
       \/ /\ Arg(c).drive \in up
          /\ table' = [table EXCEPT ![Arg(c).drive] = NoName] /\ up' = up \ {Arg(c).drive}
          /\ Goto(c, "persist") /\ UNCHANGED files
    /\ UNCHANGED <<configVars, otaVars>> /\ Same

config_set_drive(c) ==
    /\ con[c].at = "persist"
    /\ config_set(c, Arg(c).drive, con[c].val)
    /\ UNCHANGED <<otaVars, card>> /\ Same

(* Seeded bug: a folder that holds a mounted image is not protected. *)
ChangeBeginExact(path) == \A d \in up : table[d] # path
(* disk_change_begin: neither the image of a mounted drive, nor a folder   *)
(* that holds one.                                                         *)
disk_change_begin(path) == \A d \in up : IsUrl(table[d]) \/ ~IsPrefix(path, table[d])

(* The change is refused, or FatFs fails. *)
Unchanged(c) == Finish(c) /\ UNCHANGED files

cmd_delete(c) ==
    /\ Runs(c, "delete", "start")
    /\ LET path == qualify(Arg(c).name)
       IN  \/ disk_change_begin(path) /\ files' = files \ {path} /\ Finish(c)
           \/ Unchanged(c)
    /\ UNCHANGED <<configVars, otaVars, table, up>> /\ Same

(* A file, or a folder with what is in it. Only the old name is checked:   *)
(* FatFs refuses a new name that exists.                                   *)
Under(path) == {f \in files : IsPrefix(path, f)}
cmd_rename(c) ==
    /\ Runs(c, "rename", "start")
    /\ LET from == qualify(Arg(c).name)
           to == qualify(Arg(c).to)
           Moved(f) == to \o SubSeq(f, Len(from) + 1, Len(f))
       IN  \/ /\ disk_change_begin(from) /\ Under(from) # {} /\ Under(to) = {}
              /\ files' = (files \ Under(from)) \union {Moved(f) : f \in Under(from)}
              /\ Finish(c)
           \/ Unchanged(c)
    /\ UNCHANGED <<configVars, otaVars, table, up>> /\ Same

(* Source and destination are opened, then the data is copied without the  *)
(* lock. Either may be a URL; a local destination is created.              *)
cmd_copy(c) ==
    /\ Arg(c).op = "copy"
    /\ LET src == qualify(Arg(c).name)
           dst == qualify(Arg(c).to)
       IN  \/ /\ con[c].at = "start" /\ (IsUrl(src) \/ src \in files)
              /\ IF IsUrl(dst) THEN UNCHANGED files
                 ELSE disk_change_begin(dst) /\ files' = files \union {dst}
              /\ Goto(c, "stream")
           \/ Unchanged(c)
    /\ UNCHANGED <<configVars, otaVars, table, up>> /\ Same

(* exec, and an unknown word that names a batch file: batch_path finds it, *)
(* batch_exec_path saves the folder and sets that of the file. A file that *)
(* cannot be opened changes nothing.                                       *)
cmd_exec(c) ==
    /\ Runs(c, "exec", "start")
    /\ LET path == qualify(Arg(c).name)
           found == path \in files \intersect DOMAIN Batches
                    /\ Len(con[c].frames) < BATCH_MAX_DEPTH
       IN  \/ /\ found
              /\ con' = [con EXCEPT ![c].cmd = NoCmd,
                    ![c].frames = Append(@, [path |-> path, line |-> 1, saved |-> s_batch_cwd])]
              /\ s_batch_cwd' = Front(path)
           \/ Finish(c) /\ UNCHANGED s_batch_cwd
    /\ UNCHANGED <<configVars, otaVars, card, menu, restarts, overlap>>

cmd_logout(c) ==
    /\ Runs(c, "logout", "start")
    /\ con' = [con EXCEPT ![c].cmd = NoCmd, ![c].bye = @ \/ c \in Network]
    /\ UNCHANGED <<configVars, otaVars, card>> /\ Same

(* The drives are unmounted before the restart. *)
Unmounted(c) ==
    /\ table' = [d \in Drives |-> NoName] /\ up' = {}
    /\ Goto(c, "restart")
    /\ UNCHANGED <<configVars, otaVars, files>> /\ Same

cmd_reboot(c) == Runs(c, "reboot", "start") /\ Unmounted(c)

esp_restart(c) == con[c].at = "restart" /\ app_main

(* The console waits until the update fails, or restarts the device. *)
cmd_update(c) ==
    /\ \/ Runs(c, "update", "start") /\ ota_run(c, Arg(c).src) /\ Goto(c, "wait")
       \/ Runs(c, "update", "start") /\ ota_refused /\ Finish(c)
       \/ Runs(c, "update", "wait") /\ CreateTask(c) /\ UNCHANGED con
       \/ Runs(c, "update", "wait") /\ (NoMemory(c) \/ Returned(c)) /\ Finish(c)
    /\ UNCHANGED <<configVars, card>> /\ Same

(* An update that worked. *)
UpdateDone(c) == Runs(c, "update", "wait") /\ At(c, {"sd", "https"}, "reboot") /\ Unmounted(c)

(* The update's task prints its progress on the console that asked for it. *)
OtaTask(c) == ~con[c].stalled /\ ota_task(c) /\ UNCHANGED <<configVars, shellVars>>

(* The client of a network console stops reading, or reads again (or its   *)
(* connection breaks). send() of sock_write has no time-out: meanwhile the *)
(* line that prints, or the update that it waits for, stands still.        *)
Stall(c) ==
    /\ c \in Network /\ ~Idle(c)
    /\ con' = [con EXCEPT ![c].stalled = ~@]
    /\ UNCHANGED <<configVars, otaVars, card>> /\ Same

(* WiFi, and the worker, change which remote drives are up. *)
Wifi ==
    /\ \E d \in Drives : IsUrl(table[d]) /\ up' = (IF d \in up THEN up \ {d} ELSE up \union {d})
    /\ UNCHANGED <<configVars, otaVars, con, table, files>> /\ Same

UploadFirmware == Upload /\ UNCHANGED <<configVars, shellVars>>

Command(c) ==
    \/ cmd_set(c) \/ Flag(c) \/ cmd_save(c) \/ cmd_wipe(c)
    \/ cmd_mount(c) \/ cmd_unmount(c) \/ config_set_drive(c)
    \/ cmd_delete(c) \/ cmd_rename(c) \/ cmd_copy(c)
    \/ cmd_exec(c) \/ cmd_logout(c)
    \/ cmd_reboot(c) \/ esp_restart(c) \/ cmd_update(c) \/ UpdateDone(c)

Console(c) == ~con[c].stalled /\ (run_batch_file(c) \/ EndOfBatch(c) \/ Command(c))

Next ==
    \/ \E c \in Consoles : cli_feed(c) \/ Reconnect(c) \/ Console(c) \/ OtaTask(c) \/ Stall(c)
    \/ PowerLoss \/ Wifi \/ UploadFirmware

(* The console tasks and the update task run on where nothing holds them   *)
(* up; a client may stop reading for good.                                 *)
Spec == Init /\ [][Next]_vars /\ \A c \in Consoles : WF_vars(Console(c)) /\ WF_vars(OtaTask(c))

-----------------------------------------------------------------------------
(* While one console is used at a time, a batch runs in its own folder,    *)
(* through nested files, failed commands and the depth limit, and the      *)
(* prompt is at the root.                                                  *)
OwnFolder ==
    ~overlap =>
        \/ \E c \in Consoles : con[c].frames # <<>> /\ s_batch_cwd = Front(Top(c).path)
        \/ (\A c \in Consoles : con[c].frames = <<>>) /\ s_batch_cwd = Root

(* While one console is used at a time, a prompt without the mark means    *)
(* that a restart gives the same configuration: failed saves, a wipe and   *)
(* a loss of power in the middle of either included.                       *)
CleanIsSaved ==
    (~overlap /\ ~s_dirty /\ \A c \in Consoles : con[c].cmd = NoCmd)
        => load_from_nvs(nvs) = s_cfg

(* The image of a mounted drive is on the card, whatever the consoles      *)
(* delete, rename or copy over (the change guard).                         *)
MountedOnCard == \A d \in up : IsUrl(table[d]) \/ table[d] \in files

(* Every line ends, a batch file that runs itself and an update included,  *)
(* unless its own client stops reading: a network console that stands      *)
(* still in sock_write holds up no line of the serial console, not even    *)
(* with an update under way, which is refused then and not waited for.     *)
LineEnds == \A c \in Consoles : ~Idle(c) ~> Idle(c) \/ con[c].stalled
=============================================================================
