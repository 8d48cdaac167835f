----------------------------- MODULE ShellProofs -----------------------------
(***************************************************************************)
(* The safety of the consoles, of the configuration and of updates, for    *)
(* any consoles, drives, keys, images, batch files and operators.          *)
(***************************************************************************)
EXTENDS Shell, TLAPS, SequenceTheorems

(***************************************************************************)
(* Updates.                                                                *)
(***************************************************************************)
OtaTypes ==
    /\ s_busy \in BOOLEAN /\ job \in [Consoles -> Jobs \union {NoFile}]
    /\ slots \in [Slots -> Images \union {Torn}]
    /\ boot \in Slots /\ running \in Slots /\ fw \in Images \union {NoFile}

(* The single flight: there is at most one update. *)
OneJob == \A c, o \in Consoles : job[c] # NoFile /\ job[o] # NoFile => c = o

(* The slot that does not run boots next only after an update set it, and  *)
(* what was verified stays in the slot until then.                         *)
BootIsRunning == boot # running => \E c \in Consoles : job[c] # NoFile /\ job[c].at \in {"unlink", "reboot"}
VerifiedStays ==
    \A c \in Consoles : job[c] # NoFile /\ job[c].at = "set_boot" => slots[Target] \in Valid

OtaInv == OtaTypes /\ OneJob /\ BusyExact /\ BootIsRunning /\ VerifiedStays /\ BootValid

(***************************************************************************)
(* The consoles.                                                           *)
(***************************************************************************)
(* Where a command can be. *)
Places(op) ==
    CASE op = "set" -> {"start", "dirty"}
      [] op \in {"mount", "unmount"} -> {"start", "persist", "dirty"}
      [] op = "save" -> {"start", "put"}
      [] op = "wipe" -> {"start", "defaults", "clean"}
      [] op = "copy" -> {"start", "stream"}
      [] op = "reboot" -> {"start", "restart"}
      [] op = "update" -> {"start", "wait", "restart"}
      [] OTHER -> {"start"}

AllPlaces == {"start", "dirty", "persist", "put", "defaults", "clean", "stream", "restart", "wait"}

Frames == [path : Names \intersect DOMAIN Batches, line : Nat \ {0}, saved : Names]
ConsoleStates ==
    [cmd : Commands \union {NoCmd}, at : AllPlaces,
     key : Nat \ {0}, val : Names, frames : Seq(Frames), bye : BOOLEAN,
     stalled : BOOLEAN]

ConsoleTypes ==
    /\ con \in [Consoles -> ConsoleStates] /\ s_batch_cwd \in Names
    /\ menu \in Menus /\ overlap \in BOOLEAN

(* A command is where its code can be, and only a save counts keys. *)
InPlace ==
    \A c \in Consoles : con[c].at \in Places(con[c].cmd.op) /\ (con[c].at # "put" => con[c].key = 1)

(* Without overlap one console is busy. *)
OneBusy == ~overlap => \A c, o \in Consoles : c = o \/ Idle(c) \/ Idle(o)

(* Each batch file saved the folder of its caller. *)
Caller(c, i) == IF i = 1 THEN Root ELSE Front(con[c].frames[i - 1].path)
FoldersSaved ==
    ~overlap => \A c \in Consoles : \A i \in 1 .. Len(con[c].frames) :
        con[c].frames[i].saved = Caller(c, i)

ConsoleInv == ConsoleTypes /\ InPlace /\ OneBusy /\ FoldersSaved /\ OwnFolder

(***************************************************************************)
(* The configuration and the card.                                         *)
(***************************************************************************)
ConfigTypes ==
    s_cfg \in [Keys -> Names] /\ nvs \in [Keys -> Names \union {Absent}] /\ s_dirty \in BOOLEAN

(* What a save has written so far, a wipe has erased, and a setter not yet *)
(* flagged; otherwise clean means saved.                                   *)
Saved == load_from_nvs(nvs) = s_cfg
Unflagged(c) == con[c].at \in {"dirty", "defaults", "clean"}
SaveProgress ==
    ~overlap =>
        /\ \A c \in Consoles :
             /\ con[c].cmd.op = "save" =>
                  \A i \in 1 .. con[c].key - 1 : i <= Len(KeyOrder) => nvs[KeyOrder[i]] = s_cfg[KeyOrder[i]]
             /\ con[c].at \in {"defaults", "clean"} => nvs = Empty
             /\ con[c].at = "clean" => s_cfg = Default
        /\ ~s_dirty => Saved \/ \E c \in Consoles : Unflagged(c)

ConfigInv == ConfigTypes /\ SaveProgress

CardTypes == table \in [Drives -> Names] /\ up \subseteq Drives
CardInv == CardTypes /\ MountedOnCard

ShellInv == OtaInv /\ ConsoleInv /\ ConfigInv /\ CardInv

-----------------------------------------------------------------------------
(* The start of the device forgets every update and runs what boots.       *)
LEMMA OtaBootStep == ASSUME OtaInv, OtaBoot PROVE OtaInv'
BY OtaAssumption
   DEF OtaInv, OtaBoot, OtaTypes, OneJob, BusyExact, BootIsRunning, VerifiedStays, BootValid

LEMMA InitOtaInv == ASSUME OtaInit PROVE OtaInv
BY OtaAssumption
   DEF OtaInv, OtaInit, OtaTypes, OneJob, BusyExact, BootIsRunning, VerifiedStays, BootValid, Slots

(* A step of the update of one console: the others have none, so that the  *)
(* invariant is about this update alone.                                   *)
LEMMA UpdateStep ==
  ASSUME OtaInv, NEW c \in Consoles, job[c] # NoFile,
         NEW j \in Jobs, job' = [job EXCEPT ![c] = j], UNCHANGED <<s_busy, running>>,
         slots' \in [Slots -> Images \union {Torn}], boot' \in Slots, fw' \in Images \union {NoFile},
         slots'[boot'] \in Valid,
         boot' # running => j.at \in {"unlink", "reboot"},
         j.at = "set_boot" => slots'[Target] \in Valid
  PROVE  OtaInv'
<1> USE OtaAssumption DEF OtaInv, OtaTypes
<1>1. job' \in [Consoles -> Jobs \union {NoFile}] /\ job'[c] = j /\ j # NoFile
  OBVIOUS
<1>2. \A o \in Consoles : o # c => job'[o] = NoFile
  BY DEF OneJob
<1>3. OneJob' /\ s_busy'
  BY <1>1, <1>2 DEF OneJob, BusyExact
<1>4. BusyExact' /\ BootIsRunning' /\ VerifiedStays' /\ BootValid'
  BY <1>1, <1>2, <1>3 DEF BusyExact, BootIsRunning, VerifiedStays, BootValid, Target
<1>5. QED
  BY <1>1, <1>3, <1>4

LEMMA OtaTaskStep == ASSUME OtaInv, NEW c \in Consoles, ota_task(c) PROVE OtaInv'
<1>1. /\ OtaTypes /\ BootValid /\ job[c] # NoFile /\ job[c] \in Jobs
      /\ boot # running => job[c].at \in {"unlink", "reboot"}
      /\ job[c].at = "set_boot" => slots[Target] \in Valid
      /\ Target \in Slots /\ (boot = running => boot # Target) /\ job[c].at # "done"
  <2>1. job[c] # NoFile /\ job[c].at # "done"
    BY DEF ota_task, do_status, do_sd, do_https, Stream, Verify, SetBoot, Unlink, At
  <2>2. QED
    BY <2>1 DEF OtaInv, OtaTypes, OneJob, BootIsRunning, VerifiedStays, Target, Slots
<1>2. ASSUME NEW at \in {"end", "set_boot", "unlink", "reboot", "done"}, Step(c, at)
      PROVE  \E j \in Jobs : j.at = at /\ job' = [job EXCEPT ![c] = j]
  <2> DEFINE j == [job[c] EXCEPT !.at = at]
  <2>1. j \in Jobs /\ j.at = at
    BY <1>1 DEF Jobs
  <2>2. job' = [job EXCEPT ![c] = j]
    BY <1>2 DEF Step
  <2>3. QED
    BY <2>1, <2>2
<1>3. ASSUME NEW img \in Images \union {Torn}, Begin(c, img), job[c].at = "start" PROVE OtaInv'
  <2> DEFINE j == [job[c] EXCEPT !.at = "write", !.img = img]
  <2>1. j \in Jobs /\ j.at = "write"
    BY <1>1 DEF Jobs
  <2>2. job' = [job EXCEPT ![c] = j]
    BY <1>3 DEF Begin
  <2>3. slots' \in [Slots -> Images \union {Torn}] /\ slots'[boot] = slots[boot]
    BY <1>1, <1>3 DEF Begin, OtaTypes
  <2>4. QED
    BY <1>1, <1>3, <2>1, <2>2, <2>3, UpdateStep DEF Begin, OtaTypes, BootValid
<1>4. ASSUME Fails(c), job[c].at \in {"start", "write", "end", "set_boot"} PROVE OtaInv'
  <2>1. PICK j \in Jobs : j.at = "done" /\ job' = [job EXCEPT ![c] = j]
    BY <1>2, <1>4 DEF Fails
  <2>2. QED
    BY <1>1, <1>4, <2>1, UpdateStep DEF Fails, OtaTypes, BootValid
<1>5. CASE do_status(c)
  BY <1>4, <1>5 DEF do_status, At
<1>6. CASE do_sd(c)
  BY <1>1, <1>3, <1>4, <1>6 DEF do_sd, At, OtaTypes
<1>7. CASE do_https(c)
  BY <1>3, <1>4, <1>7 DEF do_https, At
<1>8. CASE Stream(c)
  <2>1. CASE slots' = [slots EXCEPT ![Target] = job[c].img] /\ Step(c, "end")
             /\ UNCHANGED <<s_busy, boot, running, fw>>
    <3>1. PICK j \in Jobs : j.at = "end" /\ job' = [job EXCEPT ![c] = j]
      BY <1>2, <2>1
    <3>2. job[c].img \in Images \union {Torn}
      BY <1>1 DEF Jobs
    <3>3. boot = running
      BY <1>1, <1>8 DEF Stream, At
    <3>4. slots' \in [Slots -> Images \union {Torn}] /\ slots'[boot] = slots[boot]
      BY <1>1, <2>1, <3>2, <3>3 DEF OtaTypes
    <3>5. QED
      BY <1>1, <2>1, <3>1, <3>3, <3>4, UpdateStep DEF OtaTypes, BootValid
  <2>2. QED
    BY <1>4, <1>8, <2>1 DEF Stream, At
<1>9. CASE Verify(c)
  <2>1. CASE slots[Target] \in Valid /\ Step(c, "set_boot") /\ UNCHANGED <<s_busy, slots, boot, running, fw>>
    <3>1. PICK j \in Jobs : j.at = "set_boot" /\ job' = [job EXCEPT ![c] = j]
      BY <1>2, <2>1
    <3>2. boot = running
      BY <1>1, <1>9 DEF Verify, At
    <3>3. QED
      BY <1>1, <2>1, <3>1, <3>2, UpdateStep DEF OtaTypes, BootValid
  <2>2. QED
    BY <1>4, <1>9, <2>1 DEF Verify, At
<1>10. CASE SetBoot(c)
  <2>1. CASE /\ boot' = Target /\ Step(c, IF job[c].src = "sd" THEN "unlink" ELSE "reboot")
             /\ UNCHANGED <<s_busy, slots, running, fw>>
    <3>1. PICK j \in Jobs : j.at \in {"unlink", "reboot"} /\ job' = [job EXCEPT ![c] = j]
      BY <1>2, <2>1
    <3>2. QED
      BY <1>1, <1>10, <2>1, <3>1, UpdateStep DEF SetBoot, At, OtaTypes, BootValid
  <2>2. QED
    BY <1>4, <1>10, <2>1 DEF SetBoot, At
<1>11. CASE Unlink(c)
  <2>1. PICK j \in Jobs : j.at = "reboot" /\ job' = [job EXCEPT ![c] = j]
    BY <1>2, <1>11 DEF Unlink
  <2>2. QED
    BY <1>1, <1>11, <2>1, UpdateStep DEF Unlink, OtaTypes, BootValid
<1>12. QED
  BY <1>5, <1>6, <1>7, <1>8, <1>9, <1>10, <1>11 DEF ota_task

(* An update that starts is the only one, and one that is over was.        *)
LEMMA OtaRunStep ==
  ASSUME OtaInv, NEW c \in Consoles, NEW src \in {"status", "sd", "https"}, ota_run(c, src)
  PROVE  OtaInv'
<1> DEFINE j == [src |-> src, at |-> "create", img |-> Torn]
<1>1. j \in Jobs /\ j.at = "create"
  BY DEF Jobs
<1>2. \A o \in Consoles : job[o] = NoFile
  BY DEF OtaInv, ota_run, BusyExact
<1>3. job' = [job EXCEPT ![c] = j] /\ s_busy' /\ UNCHANGED <<slots, boot, running, fw>>
  BY DEF ota_run
<1> HIDE DEF j
<1>4. /\ OtaTypes' /\ job'[c] = j /\ j # NoFile
      /\ \A o \in Consoles : o # c => job'[o] = NoFile
  BY <1>1, <1>2, <1>3, OtaAssumption DEF OtaInv, OtaTypes, ota_run
<1>5. boot = running /\ slots[boot] \in Valid
  BY <1>2 DEF OtaInv, BootIsRunning, BootValid
<1>6. QED
  BY <1>1, <1>3, <1>4, <1>5 DEF OtaInv, OneJob, BusyExact, BootIsRunning, VerifiedStays, BootValid

(* Its task is created.                                                    *)
LEMMA CreateTaskStep == ASSUME OtaInv, NEW c \in Consoles, CreateTask(c) PROVE OtaInv'
<1> DEFINE j == [job[c] EXCEPT !.at = "start"]
<1>1. job[c] # NoFile /\ job[c].at = "create" /\ OtaTypes /\ BootValid
  BY DEF CreateTask, At, OtaInv
<1>2. j \in Jobs /\ j.at = "start" /\ job' = [job EXCEPT ![c] = j]
  BY <1>1 DEF CreateTask, Step, Jobs, OtaTypes
<1>3. boot = running
  BY <1>1 DEF OtaInv, OneJob, BootIsRunning
<1> HIDE DEF j
<1>4. QED
  BY <1>1, <1>2, <1>3, UpdateStep DEF CreateTask, OtaTypes, BootValid

(* It is over, or there was no memory for it.                              *)
LEMMA ReturnedStep == ASSUME OtaInv, NEW c \in Consoles, Returned(c) \/ NoMemory(c) PROVE OtaInv'
<1>1. job[c] # NoFile /\ job[c].at \in {"done", "create"} /\ OtaTypes /\ BootValid
  BY DEF Returned, NoMemory, At, OtaInv
<1>2. \A o \in Consoles : o # c => job[o] = NoFile
  BY <1>1 DEF OtaInv, OneJob
<1>3. boot = running
  BY <1>1, <1>2 DEF OtaInv, BootIsRunning
<1>4. OtaTypes' /\ \A o \in Consoles : job'[o] = NoFile
  BY <1>1, <1>2 DEF Returned, NoMemory, OtaTypes
<1>5. QED
  BY <1>1, <1>3, <1>4 DEF Returned, NoMemory, OtaInv, OneJob, BusyExact, BootIsRunning, VerifiedStays, BootValid

(* A write to /firmware.bin reaches only what an update reads.             *)
LEMMA UploadStep == ASSUME OtaInv, Upload PROVE OtaInv'
<1>1. \A c \in Consoles :
        /\ job'[c] \in Jobs \union {NoFile} /\ (job'[c] = NoFile <=> job[c] = NoFile)
        /\ job[c] # NoFile => job'[c].at = job[c].at
  <2>1. TAKE c \in Consoles
  <2>2. CASE At(c, {"sd"}, "write")
    <3>1. job'[c] = [job[c] EXCEPT !.img = Torn] /\ job[c] \in Jobs
      BY <2>2 DEF Upload, At, OtaInv, OtaTypes
    <3>2. job'[c] \in Jobs /\ job'[c].at = job[c].at
      BY <3>1 DEF Jobs
    <3>3. QED
      BY <3>1, <3>2, OtaAssumption
  <2>3. CASE ~At(c, {"sd"}, "write")
    BY <2>3 DEF Upload, OtaInv, OtaTypes
  <2>4. QED
    BY <2>2, <2>3
<1>2. job' \in [Consoles -> Jobs \union {NoFile}]
  BY <1>1 DEF Upload
<1>3. UNCHANGED <<s_busy, slots, boot, running>> /\ fw' \in Images
  BY DEF Upload
<1>4. QED
  BY <1>1, <1>2, <1>3
     DEF OtaInv, OtaTypes, OneJob, BusyExact, BootIsRunning, VerifiedStays, BootValid, Target

-----------------------------------------------------------------------------
(* What the fields of a line are.                                          *)
LEMMA CommandFields ==
  ASSUME NEW m \in Commands \union {NoCmd}
  PROVE  /\ m = NoCmd <=> m.op = "none"
         /\ m.op = "set" => m.key \in Keys /\ m.val \in Names
         /\ m.op \in {"mount", "unmount"} => m.drive \in Drives
         /\ m.op \in {"mount", "delete", "exec", "rename", "copy"} => m.name \in Names
         /\ m.op \in {"rename", "copy"} => m.to \in Names
         /\ m.op = "update" => m.src \in {"status", "sd", "https"}
BY DEF Commands, NoCmd

(* The empty name.                                                         *)
LEMMA EmptyName == Root \in Names /\ NoName \in Names
BY EmptySeq DEF Root, NoName, Names

(* A console that is not idle is the only busy one, unless two overlapped. *)
LEMMA BusyAlone ==
  ASSUME ConsoleInv, NEW c \in Consoles, ~Idle(c), ~overlap
  PROVE  \A o \in Consoles : o # c => Idle(o)
BY DEF ConsoleInv, OneBusy

(* A step of a console that neither enters nor leaves a batch file.        *)
LEMMA ConsoleMoves ==
  ASSUME ConsoleInv, NEW c \in Consoles, NEW t \in ConsoleStates, con' = [con EXCEPT ![c] = t],
         Len(t.frames) = Len(con[c].frames),
         \A i \in 1 .. Len(con[c].frames) : /\ t.frames[i].path = con[c].frames[i].path
                                            /\ t.frames[i].saved = con[c].frames[i].saved,
         t.at \in Places(t.cmd.op), t.at # "put" => t.key = 1,
         overlap' \in BOOLEAN, ~overlap' => ~overlap /\ \A o \in Consoles : o # c => Idle(o),
         UNCHANGED <<s_batch_cwd, menu>>
  PROVE  ConsoleInv'
<1>1. ConsoleTypes' /\ con'[c] = t /\ \A o \in Consoles : o # c => con'[o] = con[o]
  BY DEF ConsoleInv, ConsoleTypes
<1>2. InPlace'
  BY <1>1 DEF ConsoleInv, InPlace
<1>3. OneBusy'
  BY <1>1 DEF OneBusy, Idle
<1>4. \A o \in Consoles :
        /\ con[o].frames \in Seq(Frames) /\ con'[o].frames \in Seq(Frames)
        /\ Len(con[o].frames) \in Nat /\ Len(con'[o].frames) = Len(con[o].frames)
        /\ \A i \in 1 .. Len(con[o].frames) : /\ con'[o].frames[i].path = con[o].frames[i].path
                                             /\ con'[o].frames[i].saved = con[o].frames[i].saved
  BY <1>1, LenProperties DEF ConsoleInv, ConsoleTypes, ConsoleStates
<1>5. FoldersSaved'
  <2>1. \A o \in Consoles : \A i \in 1 .. Len(con[o].frames) : Caller(o, i)' = Caller(o, i)
    <3> TAKE o \in Consoles
    <3> TAKE i \in 1 .. Len(con[o].frames)
    <3>2. i # 1 => i - 1 \in 1 .. Len(con[o].frames)
      BY <1>4
    <3>3. QED
      BY <1>4, <3>2 DEF Caller
  <2>2. QED
    BY <1>4, <2>1 DEF ConsoleInv, FoldersSaved
<1>6. OwnFolder'
  <2>1. \A o \in Consoles : con'[o].frames = <<>> <=> con[o].frames = <<>>
    BY <1>4, EmptySeq
  <2>2. \A o \in Consoles : con[o].frames # <<>> => Top(o)'.path = Top(o).path
    BY <1>4, EmptySeq DEF Top, Last
  <2>3. QED
    BY <2>1, <2>2 DEF ConsoleInv, OwnFolder
<1>7. QED
  BY <1>1, <1>2, <1>3, <1>5, <1>6 DEF ConsoleInv

(* A step of a command that runs no batch file.                            *)
LEMMA CommandMoves ==
  ASSUME ConsoleInv, NEW c \in Consoles, ~Idle(c), NEW t \in ConsoleStates,
         con' = [con EXCEPT ![c] = t], t.frames = con[c].frames,
         t.at \in Places(t.cmd.op), t.at # "put" => t.key = 1,
         UNCHANGED <<s_batch_cwd, menu, overlap>>
  PROVE  ConsoleInv'
BY ConsoleMoves, BusyAlone DEF ConsoleInv, ConsoleTypes

LEMMA FinishMoves ==
  ASSUME ConsoleInv, NEW c \in Consoles, ~Idle(c), Finish(c), UNCHANGED <<s_batch_cwd, menu, overlap>>
  PROVE  ConsoleInv'
<1> DEFINE t == [con[c] EXCEPT !.cmd = NoCmd, !.at = "start", !.key = 1, !.val = NoName]
<1>0. con[c] \in ConsoleStates
  BY DEF ConsoleInv, ConsoleTypes
<1>1. t \in ConsoleStates /\ t.frames = con[c].frames /\ t.at = "start" /\ t.cmd = NoCmd /\ t.key = 1
  <2>1. NoCmd \in Commands \union {NoCmd} /\ "start" \in AllPlaces /\ 1 \in Nat \ {0}
    BY DEF AllPlaces
  <2>2. QED
    BY <1>0, <2>1, EmptyName DEF ConsoleStates
<1>2. con' = [con EXCEPT ![c] = t]
  BY DEF Finish
<1>3. t.at \in Places(t.cmd.op)
  BY <1>1 DEF Places, NoCmd
<1> HIDE DEF t
<1>4. QED
  BY <1>1, <1>2, <1>3, CommandMoves

LEMMA GotoMoves ==
  ASSUME ConsoleInv, NEW c \in Consoles, ~Idle(c), NEW at \in Places(con[c].cmd.op), Goto(c, at),
         con[c].at # "put", UNCHANGED <<s_batch_cwd, menu, overlap>>
  PROVE  ConsoleInv'
<1> DEFINE t == [con[c] EXCEPT !.at = at]
<1>1. at \in AllPlaces
  BY DEF Places, AllPlaces
<1>2. t \in ConsoleStates /\ t.frames = con[c].frames /\ t.at = at /\ t.cmd = con[c].cmd /\ t.key = 1
  BY <1>1 DEF ConsoleInv, ConsoleTypes, InPlace, ConsoleStates
<1>3. con' = [con EXCEPT ![c] = t]
  BY DEF Goto
<1>4. QED
  BY <1>2, <1>3, CommandMoves

(* A command that is not at its prompt.                                    *)
LEMMA CommandBusy ==
  ASSUME ConsoleInv, NEW c \in Consoles, con[c].cmd.op # "none" \/ con[c].at # "start"
  PROVE  ~Idle(c) /\ con[c].cmd \in Commands
<1>1. con[c].cmd = NoCmd => con[c].at = "start"
  BY DEF ConsoleInv, InPlace, NoCmd, Places
<1>2. con[c].cmd \in Commands \union {NoCmd}
  BY DEF ConsoleInv, ConsoleTypes, ConsoleStates
<1>3. QED
  BY <1>1, <1>2 DEF Idle, NoCmd

(* The commands, but exec and the restart, stay in their batch file.       *)
LEMMA CommandConsole ==
  ASSUME ConsoleInv, CardTypes', NEW c \in Consoles, Command(c), ~cmd_exec(c), ~esp_restart(c)
  PROVE  ConsoleInv'
<1>1. ASSUME ~Idle(c), Finish(c), Same PROVE ConsoleInv'
  BY <1>1, FinishMoves DEF Same
<1>2. ASSUME ~Idle(c), Same, con[c].at # "put", NEW at \in Places(con[c].cmd.op), Goto(c, at)
      PROVE  ConsoleInv'
  BY <1>2, GotoMoves DEF Same
<1>3. /\ Places("set") = {"start", "dirty"}
      /\ \A op \in {"mount", "unmount"} : Places(op) = {"start", "persist", "dirty"}
      /\ Places("save") = {"start", "put"} /\ Places("wipe") = {"start", "defaults", "clean"}
      /\ Places("copy") = {"start", "stream"} /\ Places("reboot") = {"start", "restart"}
      /\ Places("update") = {"start", "wait", "restart"}
  BY DEF Places
<1>4. con[c] \in ConsoleStates /\ con[c].at \in Places(con[c].cmd.op)
      /\ con[c].cmd \in Commands \union {NoCmd}
  BY DEF ConsoleInv, ConsoleTypes, InPlace, ConsoleStates
<1>5. CASE cmd_set(c)
  <2>1. ~Idle(c) /\ con[c].cmd.op = "set" /\ con[c].at = "start" /\ Same
    BY <1>5, CommandBusy DEF cmd_set, Runs
  <2>2. Goto(c, "dirty") \/ Finish(c)
    BY <1>5 DEF cmd_set, config_set
  <2>3. QED
    BY <1>1, <1>2, <1>3, <2>1, <2>2
<1>6. CASE Flag(c)
  BY <1>1, <1>6, CommandBusy DEF Flag
<1>7. CASE cmd_save(c)
  <2>1. ~Idle(c) /\ con[c].cmd.op = "save" /\ Same
    BY <1>7, CommandBusy DEF cmd_save, Arg
  <2>2. CASE con' = [con EXCEPT ![c].at = "put", ![c].key = @ + 1]
    <3> DEFINE t == [con[c] EXCEPT !.at = "put", !.key = @ + 1]
    <3>1. t \in ConsoleStates /\ t.frames = con[c].frames /\ t.at = "put" /\ t.cmd = con[c].cmd
      <4>1. con[c].key + 1 \in Nat \ {0} /\ "put" \in AllPlaces
        BY <1>4 DEF ConsoleStates, AllPlaces
      <4>2. QED
        BY <1>4, <4>1 DEF ConsoleStates
    <3>2. con' = [con EXCEPT ![c] = t]
      BY <2>2
    <3> HIDE DEF t
    <3>3. QED
      BY <1>3, <2>1, <3>1, <3>2, CommandMoves DEF Same
  <2>3. QED
    BY <1>1, <1>7, <2>1, <2>2 DEF cmd_save, SaveFails
<1>8. CASE cmd_wipe(c)
  <2>1. ~Idle(c) /\ con[c].cmd.op = "wipe" /\ con[c].at # "put" /\ Same
    BY <1>8, CommandBusy DEF cmd_wipe, Runs
  <2>2. Goto(c, "defaults") \/ Goto(c, "clean") \/ Finish(c)
    BY <1>8 DEF cmd_wipe
  <2>3. QED
    BY <1>1, <1>2, <1>3, <2>1, <2>2
<1>9. CASE cmd_mount(c)
  <2>1. ~Idle(c) /\ con[c].cmd.op = "mount" /\ con[c].cmd.drive \in Drives /\ con[c].at = "start" /\ Same
    BY <1>4, <1>9, CommandBusy, CommandFields DEF cmd_mount, Runs
  <2> DEFINE t == [con[c] EXCEPT !.at = "persist", !.val = table'[Arg(c).drive]]
  <2>2. table'[Arg(c).drive] \in Names
    BY <2>1 DEF CardTypes, Arg
  <2>3. t \in ConsoleStates /\ t.frames = con[c].frames /\ t.at = "persist" /\ t.cmd = con[c].cmd
        /\ t.key = con[c].key
    BY <1>4, <2>2 DEF ConsoleStates, AllPlaces
  <2>4. con' = [con EXCEPT ![c] = t]
    BY <1>9 DEF cmd_mount
  <2>5. con[c].key = 1
    BY <2>1 DEF ConsoleInv, InPlace
  <2> HIDE DEF t
  <2>6. QED
    BY <1>3, <2>1, <2>3, <2>4, <2>5, CommandMoves DEF Same
<1>10. CASE cmd_unmount(c)
  <2>1. ~Idle(c) /\ con[c].cmd.op = "unmount" /\ con[c].at = "start" /\ Same
    BY <1>10, CommandBusy DEF cmd_unmount, Runs
  <2>2. Goto(c, "persist") \/ Finish(c)
    BY <1>10 DEF cmd_unmount
  <2>3. QED
    BY <1>1, <1>2, <1>3, <2>1, <2>2
<1>11. CASE config_set_drive(c)
  <2>1. ~Idle(c) /\ con[c].at = "persist" /\ con[c].cmd.op \in {"mount", "unmount"} /\ Same
    BY <1>4, <1>11, CommandBusy DEF config_set_drive, Places
  <2>2. Goto(c, "dirty") \/ Finish(c)
    BY <1>11 DEF config_set_drive, config_set
  <2>3. QED
    BY <1>1, <1>2, <1>3, <2>1, <2>2
<1>12. CASE cmd_delete(c) \/ cmd_rename(c)
  BY <1>1, <1>12, CommandBusy DEF cmd_delete, cmd_rename, Runs, Unchanged
<1>13. CASE cmd_copy(c)
  <2>1. ~Idle(c) /\ con[c].cmd.op = "copy" /\ Same
    BY <1>13, CommandBusy DEF cmd_copy, Arg
  <2>2. Goto(c, "stream") \/ Finish(c)
    BY <1>13 DEF cmd_copy, Unchanged
  <2>3. QED
    BY <1>1, <1>2, <1>3, <1>4, <2>1, <2>2
<1>14. CASE cmd_logout(c)
  <2> DEFINE t == [con[c] EXCEPT !.cmd = NoCmd, !.bye = @ \/ c \in Network]
  <2>1. ~Idle(c) /\ con[c].cmd.op = "logout" /\ con[c].at = "start" /\ Same
    BY <1>14, CommandBusy DEF cmd_logout, Runs
  <2>2. t \in ConsoleStates
    <3>1. (con[c].bye \/ c \in Network) \in BOOLEAN
      OBVIOUS
    <3>2. QED
      BY <1>4, <3>1 DEF ConsoleStates
  <2>3. t.frames = con[c].frames /\ t.at = "start" /\ t.cmd = NoCmd /\ t.key = con[c].key
    BY <1>4, <2>1 DEF ConsoleStates
  <2>4. con' = [con EXCEPT ![c] = t]
    BY <1>14 DEF cmd_logout
  <2>5. con[c].key = 1 /\ "start" \in Places(NoCmd.op)
    BY <2>1 DEF ConsoleInv, InPlace, Places, NoCmd
  <2> HIDE DEF t
  <2>6. QED
    BY <2>1, <2>2, <2>3, <2>4, <2>5, CommandMoves DEF Same
<1>15. CASE cmd_reboot(c) \/ UpdateDone(c)
  <2>1. ~Idle(c) /\ con[c].cmd.op \in {"reboot", "update"} /\ con[c].at # "put" /\ Same /\ Goto(c, "restart")
    BY <1>15, CommandBusy DEF cmd_reboot, UpdateDone, Unmounted, Runs
  <2>2. QED
    BY <1>2, <1>3, <2>1
<1>16. CASE cmd_update(c)
  <2>1. ~Idle(c) /\ con[c].cmd.op = "update" /\ con[c].at # "put" /\ Same
    BY <1>16, CommandBusy DEF cmd_update, Runs
  <2>2. Goto(c, "wait") \/ Finish(c) \/ UNCHANGED con
    BY <1>16 DEF cmd_update
  <2>3. CASE UNCHANGED con
    BY <2>1, <2>3 DEF Same, ConsoleInv, ConsoleTypes, InPlace, OneBusy, FoldersSaved, OwnFolder,
                      Idle, Caller, Top
  <2>4. QED
    BY <1>1, <1>2, <1>3, <2>1, <2>2, <2>3
<1>17. QED
  BY <1>5, <1>6, <1>7, <1>8, <1>9, <1>10, <1>11, <1>12, <1>13, <1>14, <1>15, <1>16 DEF Command

(* A line that starts: typed, or read from a batch file.                   *)
LEMMA FeedConsole ==
  ASSUME ConsoleInv, NEW c \in Consoles, cli_feed(c)
  PROVE  ConsoleInv'
<1>1. PICK m \in menu[c] : con' = [con EXCEPT ![c].cmd = m]
  BY DEF cli_feed, Line
<1>2. con[c] \in ConsoleStates /\ con[c].cmd = NoCmd /\ con[c].at = "start" /\ con[c].key = 1
  BY DEF cli_feed, Idle, ConsoleInv, ConsoleTypes, InPlace, Places, NoCmd
<1>3. m \in Commands
  BY <1>1, ShellAssumption DEF ConsoleInv, ConsoleTypes
<1> DEFINE t == [con[c] EXCEPT !.cmd = m]
<1>4. t \in ConsoleStates /\ t.frames = con[c].frames /\ t.at = "start" /\ t.key = 1
  BY <1>2, <1>3 DEF ConsoleStates
<1>5. con' = [con EXCEPT ![c] = t] /\ "start" \in Places(t.cmd.op)
  BY <1>1 DEF Places
<1>6. UNCHANGED <<s_batch_cwd, menu>> /\ overlap' = (overlap \/ \E o \in Consoles \ {c} : ~Idle(o))
  BY DEF cli_feed, Overlaps
<1>7. overlap' \in BOOLEAN /\ (~overlap' => ~overlap /\ \A o \in Consoles : o # c => Idle(o))
  BY <1>6
<1> HIDE DEF t
<1>8. QED
  BY <1>4, <1>5, <1>6, <1>7, ConsoleMoves

LEMMA BatchConsole ==
  ASSUME ConsoleInv, NEW c \in Consoles, run_batch_file(c)
  PROVE  ConsoleInv'
<1> DEFINE f == con[c].frames
           n == Len(f)
           g == [f EXCEPT ![n].line = @ + 1]
           t == [con[c] EXCEPT !.cmd = Lines(c)[Top(c).line], !.frames = g]
<1>1. con[c] \in ConsoleStates /\ con[c].cmd = NoCmd /\ con[c].at = "start" /\ con[c].key = 1
  BY DEF run_batch_file, ConsoleInv, ConsoleTypes, InPlace, Places, NoCmd
<1>2. /\ f \in Seq(Frames) /\ n \in Nat \ {0} /\ n \in 1 .. Len(f) /\ f[n] \in Frames
      /\ Top(c) = f[n]
  <2>1. f \in Seq(Frames) /\ f # <<>>
    BY <1>1 DEF run_batch_file, ConsoleStates
  <2>2. n \in Nat \ {0}
    BY <2>1, EmptySeq
  <2>3. QED
    BY <2>1, <2>2, ElementOfSeq DEF Top, Last
<1>3. Lines(c)[Top(c).line] \in Commands
  <2>1. Lines(c) \in Seq(Commands)
    BY <1>2, ShellAssumption DEF Lines, Frames
  <2>2. Top(c).line \in Nat \ {0} /\ Top(c).line <= Len(Lines(c))
    BY <1>2 DEF Frames, run_batch_file
  <2>3. QED
    BY <2>1, <2>2, LenProperties, ElementOfSeq
<1> DEFINE h == [f[n] EXCEPT !.line = @ + 1]
<1>4. h \in Frames /\ h.path = f[n].path /\ h.saved = f[n].saved
  BY <1>2 DEF Frames
<1>5. g = [f EXCEPT ![n] = h]
  OBVIOUS
<1>6. /\ g \in Seq(Frames) /\ Len(g) = n
      /\ \A i \in 1 .. n : g[i].path = f[i].path /\ g[i].saved = f[i].saved
  <2> HIDE DEF h
  <2>1. /\ g \in Seq(Frames) /\ Len(g) = n
        /\ \A i \in 1 .. n : g[i] = IF i = n THEN h ELSE f[i]
    BY <1>2, <1>4, <1>5, ExceptSeq
  <2>2. QED
    BY <1>4, <2>1
<1>7. t \in ConsoleStates /\ t.frames = g /\ t.at = "start" /\ t.key = 1
  <2> HIDE DEF g
  <2>1. QED
    BY <1>1, <1>3, <1>6 DEF ConsoleStates
<1>8. con' = [con EXCEPT ![c] = t]
  BY DEF run_batch_file
<1>9. "start" \in Places(t.cmd.op)
  BY DEF Places
<1>10. UNCHANGED <<s_batch_cwd, menu>> /\ overlap' = (overlap \/ \E o \in Consoles \ {c} : ~Idle(o))
  BY DEF run_batch_file, Overlaps
<1>11. overlap' \in BOOLEAN /\ (~overlap' => ~overlap /\ \A o \in Consoles : o # c => Idle(o))
  BY <1>10
<1> HIDE DEF t, g
<1>12. QED
  BY <1>6, <1>7, <1>8, <1>9, <1>10, <1>11, ConsoleMoves

(* Front leaves the earlier elements alone.                                *)
LEMMA FrontProperties ==
  ASSUME NEW S, NEW s \in Seq(S), s # <<>>
  PROVE  /\ Front(s) \in Seq(S) /\ Len(Front(s)) = Len(s) - 1
         /\ \A i \in 1 .. Len(s) - 1 : Front(s)[i] = s[i]
<1>1. Len(s) \in Nat \ {0} /\ \A i \in 1 .. Len(s) - 1 : s[i] \in S
  BY EmptySeq, ElementOfSeq
<1> DEFINE f == SubSeq(s, 1, Len(s) - 1)
<1>2. /\ f \in Seq(S)
      /\ Len(f) = IF 1 <= Len(s) - 1 THEN Len(s) - 1 - 1 + 1 ELSE 0
      /\ \A i \in 1 .. Len(s) - 1 - 1 + 1 : f[i] = s[1 + i - 1]
  BY <1>1, SubSeqProperties
<1>3. Front(s) = f
  BY DEF Front
<1> HIDE DEF f
<1>4. \A i \in 1 .. Len(s) - 1 : 1 + i - 1 = i /\ i \in 1 .. Len(s) - 1 - 1 + 1
  BY <1>1
<1>5. QED
  BY <1>1, <1>2, <1>3, <1>4

(* The folder of a name, that of the empty name included.                  *)
LEMMA FrontName == ASSUME NEW s \in Names PROVE Front(s) \in Names
<1>1. Len(s) \in Nat /\ \A i \in 1 .. Len(s) - 1 : s[i] \in Words
  BY LenProperties, ElementOfSeq DEF Names
<1>2. QED
  BY <1>1, SubSeqProperties DEF Front, Names

(* A step that enters or leaves a batch file: the other consoles have      *)
(* none, so that the folder is that of this console.                       *)
LEMMA FolderMoves ==
  ASSUME ConsoleInv, NEW c \in Consoles, ~Idle(c), NEW t \in ConsoleStates,
         con' = [con EXCEPT ![c] = t], t.cmd = NoCmd, t.at = "start", t.key = 1,
         s_batch_cwd' \in Names, UNCHANGED <<menu, overlap>>,
         ~overlap =>
            /\ \A i \in 1 .. Len(t.frames) :
                 t.frames[i].saved = IF i = 1 THEN Root ELSE Front(t.frames[i - 1].path)
            /\ s_batch_cwd' = IF t.frames = <<>> THEN Root ELSE Front(t.frames[Len(t.frames)].path)
  PROVE  ConsoleInv'
<1>1. ConsoleTypes' /\ con'[c] = t /\ \A o \in Consoles : o # c => con'[o] = con[o]
  BY DEF ConsoleInv, ConsoleTypes
<1>2. InPlace'
  BY <1>1 DEF ConsoleInv, InPlace, Places, NoCmd
<1>3. OneBusy'
  BY <1>1, BusyAlone DEF OneBusy, Idle
<1>4. ASSUME ~overlap PROVE \A o \in Consoles : o # c => con'[o].frames = <<>>
  BY <1>1, <1>4, BusyAlone DEF Idle
<1>5. FoldersSaved'
  <2> SUFFICES ASSUME ~overlap, NEW o \in Consoles, NEW i \in 1 .. Len(con'[o].frames)
               PROVE  con'[o].frames[i].saved = Caller(o, i)'
    BY DEF FoldersSaved
  <2>1. CASE o = c
    BY <1>1, <2>1 DEF Caller
  <2>2. CASE o # c
    BY <1>4, <2>2
  <2>3. QED
    BY <2>1, <2>2
<1>6. OwnFolder'
  BY <1>1, <1>4 DEF OwnFolder, Top, Last
<1>7. QED
  BY <1>1, <1>2, <1>3, <1>5, <1>6 DEF ConsoleInv

LEMMA EndOfBatchConsole == ASSUME ConsoleInv, NEW c \in Consoles, EndOfBatch(c) PROVE ConsoleInv'
<1> DEFINE f == con[c].frames
           n == Len(f)
           t == [con[c] EXCEPT !.frames = Front(f)]
<1>1. con[c] \in ConsoleStates /\ con[c].cmd = NoCmd /\ con[c].at = "start" /\ con[c].key = 1
  BY DEF EndOfBatch, ConsoleInv, ConsoleTypes, InPlace, Places, NoCmd
<1>2. f \in Seq(Frames) /\ f # <<>> /\ n \in Nat \ {0} /\ Top(c) = f[n] /\ f[n] \in Frames
  <2>1. f \in Seq(Frames) /\ f # <<>>
    BY <1>1 DEF EndOfBatch, ConsoleStates
  <2>2. QED
    BY <2>1, EmptySeq, ElementOfSeq DEF Top, Last
<1>3. /\ Front(f) \in Seq(Frames) /\ Len(Front(f)) = n - 1
      /\ \A i \in 1 .. n - 1 : Front(f)[i] = f[i]
  BY <1>2, FrontProperties
<1>4. t \in ConsoleStates /\ t.cmd = NoCmd /\ t.at = "start" /\ t.key = 1 /\ t.frames = Front(f)
  BY <1>1, <1>3 DEF ConsoleStates
<1>5. con' = [con EXCEPT ![c] = t] /\ s_batch_cwd' = f[n].saved /\ UNCHANGED <<menu, overlap>>
  BY <1>2 DEF EndOfBatch, Restore
<1>6. s_batch_cwd' \in Names /\ ~Idle(c)
  BY <1>2, <1>5 DEF Frames, Idle
<1>7. ASSUME ~overlap
      PROVE  /\ \A i \in 1 .. n : f[i].saved = IF i = 1 THEN Root ELSE Front(f[i - 1].path)
             /\ \A i \in 1 .. n - 1 : Front(f)[i].saved = IF i = 1 THEN Root ELSE Front(Front(f)[i - 1].path)
             /\ s_batch_cwd' = IF Front(f) = <<>> THEN Root ELSE Front(Front(f)[n - 1].path)
  <2>1. \A i \in 1 .. n : f[i].saved = IF i = 1 THEN Root ELSE Front(f[i - 1].path)
    BY <1>7 DEF ConsoleInv, FoldersSaved, Caller
  <2> HIDE DEF f, n
  <2>2. \A i \in 1 .. n - 1 : i # 1 => i - 1 \in 1 .. n - 1
    BY <1>2
  <2>3. s_batch_cwd' = IF n = 1 THEN Root ELSE Front(f[n - 1].path)
    BY <1>2, <1>5, <2>1
  <2>4. Front(f) = <<>> <=> n = 1
    BY <1>2, <1>3, EmptySeq
  <2>5. n # 1 => Front(f)[n - 1] = f[n - 1]
    BY <1>2, <1>3
  <2>6. QED
    BY <1>2, <1>3, <2>1, <2>2, <2>3, <2>4, <2>5
<1> HIDE DEF t, f, n
<1>8. ASSUME ~overlap
      PROVE  /\ \A i \in 1 .. Len(t.frames) :
                   t.frames[i].saved = IF i = 1 THEN Root ELSE Front(t.frames[i - 1].path)
             /\ s_batch_cwd' = IF t.frames = <<>> THEN Root ELSE Front(t.frames[Len(t.frames)].path)
  BY <1>3, <1>4, <1>7, <1>8
<1>9. QED
  BY <1>4, <1>5, <1>6, <1>8, FolderMoves

LEMMA ExecConsole == ASSUME ConsoleInv, NEW c \in Consoles, cmd_exec(c) PROVE ConsoleInv'
<1> DEFINE f == con[c].frames
           n == Len(f)
           path == qualify(Arg(c).name)
           r == [path |-> path, line |-> 1, saved |-> s_batch_cwd]
           t == [con[c] EXCEPT !.cmd = NoCmd, !.frames = Append(f, r)]
<1>1. /\ con[c] \in ConsoleStates /\ con[c].cmd.op = "exec" /\ con[c].at = "start" /\ con[c].key = 1
      /\ ~Idle(c) /\ UNCHANGED <<menu, overlap>> /\ f \in Seq(Frames) /\ n \in Nat
  BY CommandBusy, LenProperties DEF cmd_exec, Runs, ConsoleInv, ConsoleTypes, ConsoleStates, InPlace
<1>2. CASE Finish(c) /\ UNCHANGED s_batch_cwd
  BY <1>1, <1>2, FinishMoves
<1>3. CASE /\ path \in files \intersect DOMAIN Batches
           /\ con' = [con EXCEPT ![c].cmd = NoCmd, ![c].frames = Append(@, r)]
           /\ s_batch_cwd' = Front(path)
  <2>1. path \in Names
    <3>1. Arg(c).name \in Names /\ s_batch_cwd \in Names
      BY <1>1, CommandFields DEF ConsoleStates, Arg, ConsoleInv, ConsoleTypes
    <3>2. QED
      BY <3>1, ConcatProperties DEF qualify, Names
  <2>2. r \in Frames
    BY <1>3, <2>1 DEF ConsoleInv, ConsoleTypes, Frames
  <2>3. /\ Append(f, r) \in Seq(Frames) /\ Len(Append(f, r)) = n + 1 /\ Append(f, r) # <<>>
        /\ Append(f, r)[n + 1] = r /\ \A i \in 1 .. n : Append(f, r)[i] = f[i]
    BY <1>1, <2>2, AppendProperties
  <2>4. t \in ConsoleStates /\ t.cmd = NoCmd /\ t.at = "start" /\ t.key = 1 /\ t.frames = Append(f, r)
    <3> HIDE DEF r
    <3>1. QED
      BY <1>1, <2>3 DEF ConsoleStates
  <2>5. con' = [con EXCEPT ![c] = t] /\ s_batch_cwd' \in Names
    BY <1>3, <2>1, FrontName
  <2>6. ASSUME ~overlap
        PROVE  /\ \A i \in 1 .. n + 1 :
                    Append(f, r)[i].saved = IF i = 1 THEN Root ELSE Front(Append(f, r)[i - 1].path)
               /\ s_batch_cwd' = Front(Append(f, r)[n + 1].path)
    <3>1. \A i \in 1 .. n : f[i].saved = IF i = 1 THEN Root ELSE Front(f[i - 1].path)
      BY <2>6 DEF ConsoleInv, FoldersSaved, Caller
    <3>2. s_batch_cwd = IF n = 0 THEN Root ELSE Front(f[n].path)
      <4>1. \A o \in Consoles : o # c => con[o].frames = <<>>
        BY <1>1, <2>6, BusyAlone DEF Idle
      <4>2. f = <<>> <=> n = 0
        BY <1>1, EmptySeq
      <4>3. QED
        BY <2>6, <4>1, <4>2 DEF ConsoleInv, OwnFolder, Top, Last
    <3>3. r.saved = s_batch_cwd /\ r.path = path
      OBVIOUS
    <3> HIDE DEF r
    <3>4. \A i \in 1 .. n : i # 1 => i - 1 \in 1 .. n
      BY <1>1
    <3>5. \A i \in 1 .. n :
            Append(f, r)[i].saved = IF i = 1 THEN Root ELSE Front(Append(f, r)[i - 1].path)
      BY <2>3, <3>1, <3>4
    <3>6. Append(f, r)[n + 1].saved = IF n + 1 = 1 THEN Root ELSE Front(Append(f, r)[n + 1 - 1].path)
      BY <1>1, <2>3, <3>2, <3>3
    <3>7. QED
      BY <1>1, <1>3, <2>3, <3>3, <3>5, <3>6
  <2> HIDE DEF t, r
  <2>7. QED
    BY <1>1, <2>3, <2>4, <2>5, <2>6, FolderMoves
<1>4. QED
  BY <1>2, <1>3 DEF cmd_exec

(* The next client gets a prompt like the one that was closed.             *)
LEMMA ReconnectConsole == ASSUME ConsoleInv, NEW c \in Consoles, Reconnect(c) PROVE ConsoleInv'
<1>1. con[c] \in ConsoleStates /\ con[c].frames = <<>> /\ Idle(c)
  BY DEF Reconnect, Idle, ConsoleInv, ConsoleTypes
<1>2. Prompt \in ConsoleStates
  BY EmptyName, EmptySeq DEF Prompt, ConsoleStates, AllPlaces
<1>3. /\ con' = [con EXCEPT ![c] = Prompt] /\ UNCHANGED <<s_batch_cwd, menu, overlap>>
      /\ Prompt.frames = <<>> /\ Prompt.cmd = NoCmd /\ Prompt.at = "start" /\ Prompt.key = 1
  BY DEF Reconnect, Prompt
<1>4. ConsoleTypes' /\ con'[c] = Prompt /\ \A o \in Consoles : o # c => con'[o] = con[o]
  BY <1>2, <1>3 DEF ConsoleInv, ConsoleTypes
<1>5. InPlace' /\ OneBusy'
  BY <1>1, <1>3, <1>4 DEF ConsoleInv, InPlace, OneBusy, Idle, Places, NoCmd
<1>6. \A o \in Consoles : con'[o].frames = con[o].frames
  BY <1>1, <1>3, <1>4
<1>7. FoldersSaved' /\ OwnFolder'
  BY <1>3, <1>6 DEF ConsoleInv, FoldersSaved, Caller, OwnFolder, Top
<1>8. QED
  BY <1>4, <1>5, <1>7 DEF ConsoleInv

(* After a start only the serial console can be in a batch file.           *)
LEMMA BootConsole ==
  ASSUME menu' \in Menus, con' = cli_run_autoexec, s_batch_cwd' = Root, overlap' = FALSE
  PROVE  ConsoleInv'
<1> DEFINE r == [path |-> Autoexec, line |-> 1, saved |-> Root]
           a == [Prompt EXCEPT !.frames = <<r>>]
<1>1. r \in Frames
  BY ShellAssumption, EmptyName DEF Frames
<1>2. <<r>> \in Seq(Frames) /\ Len(<<r>>) = 1 /\ <<r>>[1] = r /\ <<r>> # <<>>
  BY <1>1
<1>3. Prompt \in ConsoleStates /\ a \in ConsoleStates
  <2> HIDE DEF r
  <2>1. QED
    BY <1>2, EmptyName, EmptySeq DEF Prompt, ConsoleStates, AllPlaces
<1>4. /\ Prompt.frames = <<>> /\ Prompt.cmd = NoCmd /\ Prompt.at = "start" /\ Prompt.key = 1
      /\ a.frames = <<r>> /\ a.cmd = NoCmd /\ a.at = "start" /\ a.key = 1
  BY DEF Prompt
<1>5. \A c \in Consoles : con'[c] = IF c \notin Network /\ Autoexec \in files THEN a ELSE Prompt
  BY DEF cli_run_autoexec
<1>6. r.saved = Root /\ Front(r.path) = Root
  <2>1. Front(Autoexec) = Root
    BY ShellAssumption, SubSeqEmpty DEF Front, Root
  <2>2. QED
    BY <2>1
<1> HIDE DEF a, r
<1>7. ConsoleTypes'
  BY <1>3, EmptyName DEF ConsoleTypes, cli_run_autoexec, a, r
<1>8. InPlace'
  BY <1>4, <1>5 DEF InPlace, Places, NoCmd
<1>9. OneBusy'
  BY <1>4, <1>5, ShellAssumption DEF OneBusy, Idle
<1>10. FoldersSaved'
  BY <1>2, <1>4, <1>5, <1>6 DEF FoldersSaved, Caller
<1>11. OwnFolder'
  BY <1>2, <1>4, <1>5, <1>6 DEF OwnFolder, Top, Last
<1>12. QED
  BY <1>7, <1>8, <1>9, <1>10, <1>11 DEF ConsoleInv

-----------------------------------------------------------------------------
(* The names of the commands.                                              *)
LEMMA QualifiedName == ASSUME ConsoleTypes, NEW name \in Names PROVE qualify(name) \in Names
BY ConcatProperties DEF ConsoleTypes, qualify, Names

(* A name is its own prefix: what the guard lets be deleted is no image.   *)
LEMMA OwnPrefix == ASSUME NEW name \in Names PROVE IsPrefix(name, name)
BY LenProperties DEF IsPrefix, Names

LEMMA MountCard ==
  ASSUME CardInv, NEW d \in Drives, NEW name \in Names, disk_mount(d, name)
  PROVE  CardInv'
<1>1. /\ table' \in [Drives -> Names] /\ up' \subseteq Drives /\ files' = files
      /\ \A e \in Drives : e # d => table'[e] = table[e] /\ (e \in up' <=> e \in up)
      /\ d \in up' => IsUrl(table'[d]) \/ table'[d] \in files
  BY EmptyName DEF CardInv, CardTypes, disk_mount
<1>2. QED
  BY <1>1 DEF CardInv, CardTypes, MountedOnCard

(* The drives that are up have their image, so that only removing a file   *)
(* matters; the change guard names what may be removed.                    *)
LEMMA FilesCard ==
  ASSUME CardInv, UNCHANGED <<table, up>>,
         \A d \in up : IsUrl(table[d]) \/ (table[d] \in files => table[d] \in files')
  PROVE  CardInv'
BY DEF CardInv, CardTypes, MountedOnCard

(* A client that stops reading, or reads again, moves nothing.             *)
LEMMA StallConsole == ASSUME ConsoleInv, NEW c \in Consoles, Stall(c) PROVE ConsoleInv'
<1> DEFINE t == [con[c] EXCEPT !.stalled = ~@]
<1>1. ~Idle(c) /\ UNCHANGED <<s_batch_cwd, menu, overlap>> /\ con' = [con EXCEPT ![c] = t]
  BY DEF Stall, Same
<1>2. /\ t \in ConsoleStates /\ t.frames = con[c].frames /\ t.at = con[c].at
      /\ t.cmd = con[c].cmd /\ t.key = con[c].key
  BY DEF ConsoleInv, ConsoleTypes, ConsoleStates
<1> HIDE DEF t
<1>3. QED
  BY <1>1, <1>2, CommandMoves DEF ConsoleInv, InPlace

LEMMA CommandCard ==
  ASSUME ConsoleInv, CardInv, NEW c \in Consoles, Command(c), ~esp_restart(c)
  PROVE  CardInv'
<1>1. con[c].cmd \in Commands \union {NoCmd} /\ ConsoleTypes
  BY DEF ConsoleInv, ConsoleTypes, ConsoleStates
<1>2. CASE UNCHANGED card
  BY <1>2, FilesCard DEF card
<1>3. CASE cmd_mount(c)
  BY <1>1, <1>3, MountCard, QualifiedName, CommandFields DEF cmd_mount, Runs, Arg
<1>4. CASE cmd_unmount(c)
  <2>1. CASE table' = [table EXCEPT ![Arg(c).drive] = NoName] /\ up' = up \ {Arg(c).drive} /\ UNCHANGED files
    <3>1. Arg(c).drive \in Drives
      BY <1>1, <1>4, CommandFields DEF cmd_unmount, Runs, Arg
    <3>2. QED
      BY <2>1, <3>1, EmptyName DEF CardInv, CardTypes, MountedOnCard
  <2>2. QED
    BY <1>2, <1>4, <2>1 DEF cmd_unmount
<1>5. CASE cmd_delete(c)
  <2> DEFINE path == qualify(Arg(c).name)
  <2>1. path \in Names
    BY <1>1, <1>5, QualifiedName, CommandFields DEF cmd_delete, Runs, Arg
  <2>2. CASE disk_change_begin(path) /\ files' = files \ {path}
    <3>1. \A d \in up : IsUrl(table[d]) \/ table[d] # path
      BY <2>1, <2>2, OwnPrefix DEF disk_change_begin
    <3>2. QED
      BY <1>5, <2>2, <3>1, FilesCard DEF cmd_delete
  <2>3. QED
    BY <1>2, <1>5, <2>2 DEF cmd_delete, Unchanged, card
<1>6. CASE cmd_rename(c)
  <2> DEFINE from == qualify(Arg(c).name)
  <2>1. CASE disk_change_begin(from) /\ files \ Under(from) \subseteq files'
    <3>1. \A d \in up : IsUrl(table[d]) \/ table[d] \notin Under(from)
      BY <2>1 DEF disk_change_begin, Under
    <3>2. QED
      BY <1>6, <2>1, <3>1, FilesCard DEF cmd_rename
  <2>2. QED
    BY <1>2, <1>6, <2>1 DEF cmd_rename, Unchanged, card
<1>7. CASE cmd_copy(c)
  <2>1. files \subseteq files' /\ UNCHANGED <<table, up>>
    BY <1>7 DEF cmd_copy, Unchanged
  <2>2. QED
    BY <2>1, FilesCard
<1>8. CASE cmd_reboot(c) \/ UpdateDone(c)
  BY <1>8, EmptyName DEF cmd_reboot, UpdateDone, Unmounted, CardInv, CardTypes, MountedOnCard
<1>9. QED
  BY <1>2, <1>3, <1>4, <1>5, <1>6, <1>7, <1>8
     DEF Command, cmd_set, Flag, cmd_save, cmd_wipe, config_set_drive, cmd_exec, cmd_logout, cmd_update

LEMMA BootCard ==
  ASSUME ConfigTypes', disk_automount(s_cfg'), UNCHANGED files
  PROVE  CardInv'
<1>1. \A d \in Drives : s_cfg'[d] \in Names
  BY ShellAssumption DEF ConfigTypes
<1>2. QED
  BY <1>1, EmptyName DEF disk_automount, CardInv, CardTypes, MountedOnCard

(* A remote drive that comes or goes has no image on the card.             *)
LEMMA WifiCard == ASSUME CardInv, Wifi PROVE CardInv'
BY DEF Wifi, CardInv, CardTypes, MountedOnCard

-----------------------------------------------------------------------------
(* A value that is set is what the flash would give back.                  *)
LEMMA LoadTypes == ASSUME NEW stored \in [Keys -> Names \union {Absent}]
                   PROVE  load_from_nvs(stored) \in [Keys -> Names]
BY ConfigAssumption DEF load_from_nvs

LEMMA EmptyFlash == Empty \in [Keys -> Names \union {Absent}] /\ load_from_nvs(Empty) = Default
BY ConfigAssumption DEF Empty, load_from_nvs

(* A step that leaves the configuration alone, of a console that is not in *)
(* the middle of changing it.                                              *)
LEMMA QuietConfig ==
  ASSUME ConfigInv, NEW c \in Consoles, UNCHANGED configVars, ~overlap' => ~overlap,
         \A o \in Consoles : o # c => con'[o] = con[o],
         ~Unflagged(c), ~Unflagged(c)', con'[c].cmd.op = "save" => con'[c].key = 1
  PROVE  ConfigInv'
<1>1. ConfigTypes' /\ (Saved' <=> Saved)
  BY DEF ConfigInv, ConfigTypes, configVars, Saved
<1>2. SaveProgress'
  <2> SUFFICES ASSUME ~overlap' PROVE SaveProgress'
    BY DEF SaveProgress
  <2>1. \A o \in Consoles :
          /\ con'[o].cmd.op = "save" =>
               \A i \in 1 .. con'[o].key - 1 : i <= Len(KeyOrder) => nvs[KeyOrder[i]] = s_cfg[KeyOrder[i]]
          /\ con'[o].at \in {"defaults", "clean"} => nvs = Empty
          /\ con'[o].at = "clean" => s_cfg = Default
    BY DEF ConfigInv, SaveProgress, Unflagged
  <2>2. ~s_dirty => Saved \/ \E o \in Consoles : Unflagged(o)'
    BY DEF ConfigInv, SaveProgress, Unflagged
  <2>3. QED
    BY <1>1, <2>1, <2>2 DEF SaveProgress, configVars
<1>3. QED
  BY <1>1, <1>2 DEF ConfigInv

(* What a console is after a step.                                         *)
LEMMA ConAfter ==
  ASSUME ConsoleInv, NEW c \in Consoles
  PROVE  /\ Finish(c) => /\ con'[c].cmd = NoCmd /\ con'[c].at = "start"
                         /\ \A o \in Consoles : o # c => con'[o] = con[o]
         /\ \A at \in AllPlaces : Goto(c, at) =>
              /\ con'[c].cmd = con[c].cmd /\ con'[c].at = at /\ con'[c].key = con[c].key
              /\ \A o \in Consoles : o # c => con'[o] = con[o]
<1>1. con \in [Consoles -> ConsoleStates] /\ con[c] \in ConsoleStates
  BY DEF ConsoleInv, ConsoleTypes
<1>2. ASSUME Finish(c) PROVE /\ con'[c].cmd = NoCmd /\ con'[c].at = "start"
                             /\ \A o \in Consoles : o # c => con'[o] = con[o]
  <2> DEFINE t == [con[c] EXCEPT !.cmd = NoCmd, !.at = "start", !.key = 1, !.val = NoName]
  <2>1. t.cmd = NoCmd /\ t.at = "start"
    BY <1>1 DEF ConsoleStates
  <2>2. con' = [con EXCEPT ![c] = t]
    BY <1>2 DEF Finish
  <2> HIDE DEF t
  <2>3. QED
    BY <1>1, <2>1, <2>2
<1>3. ASSUME NEW at \in AllPlaces, Goto(c, at)
      PROVE  /\ con'[c].cmd = con[c].cmd /\ con'[c].at = at /\ con'[c].key = con[c].key
             /\ \A o \in Consoles : o # c => con'[o] = con[o]
  <2> DEFINE t == [con[c] EXCEPT !.at = at]
  <2>1. t.cmd = con[c].cmd /\ t.at = at /\ t.key = con[c].key
    BY <1>1 DEF ConsoleStates
  <2>2. con' = [con EXCEPT ![c] = t]
    BY <1>3 DEF Goto
  <2> HIDE DEF t
  <2>3. QED
    BY <1>1, <2>1, <2>2
<1>4. QED
  BY <1>2, <1>3

(* A command that only one console runs: the steps that change the         *)
(* configuration, and the others.                                          *)
LEMMA CommandConfig ==
  ASSUME ConsoleInv, ConfigInv, CardTypes', ConsoleInv', NEW c \in Consoles, Command(c),
         ~esp_restart(c)
  PROVE  ConfigInv'
<1> USE DEF ConfigInv
<1>1. /\ con[c].cmd \in Commands \union {NoCmd} /\ con[c].at \in Places(con[c].cmd.op)
      /\ con[c].val \in Names /\ con[c].key \in Nat \ {0}
  BY DEF ConsoleInv, ConsoleTypes, ConsoleStates, InPlace
<1>2. Finish(c) => con'[c].cmd.op = "none" /\ ~Unflagged(c)'
  BY ConAfter DEF NoCmd, Unflagged
<1>3. UNCHANGED overlap
  BY DEF Command, cmd_set, Flag, cmd_save, cmd_wipe, cmd_mount, cmd_unmount, config_set_drive,
         cmd_delete, cmd_rename, cmd_copy, cmd_exec, cmd_logout, cmd_reboot, cmd_update,
         UpdateDone, Unmounted, Same
<1>4. ASSUME ~overlap, ~Idle(c)
      PROVE  \A o \in Consoles : o # c => con[o].cmd.op = "none" /\ con[o].at = "start"
  <2>1. \A o \in Consoles : o # c => con[o].cmd = NoCmd
    BY <1>4, BusyAlone DEF Idle
  <2>2. QED
    BY <2>1 DEF ConsoleInv, InPlace, Places, NoCmd
\* A setter: the value, after which the command is about to set the flag.
<1>5. ASSUME NEW k \in Keys, NEW v \in Names, config_set(c, k, v), ~Idle(c), ~Unflagged(c),
             con[c].cmd.op # "save"
      PROVE  ConfigInv'
  <2>1. CASE Finish(c) /\ UNCHANGED configVars
    BY <1>2, <1>3, <1>5, <2>1, ConAfter, QuietConfig
  <2>2. CASE Assign(k, v) /\ Goto(c, "dirty")
    <3>1. /\ con'[c].cmd = con[c].cmd /\ con'[c].at = "dirty"
          /\ \A o \in Consoles : o # c => con'[o] = con[o]
      BY <2>2, ConAfter DEF AllPlaces
    <3>2. ConfigTypes'
      BY <1>5, <2>2 DEF Assign, ConfigTypes
    <3>3. SaveProgress'
      BY <1>3, <1>4, <1>5, <3>1 DEF SaveProgress, Unflagged
    <3>4. QED
      BY <3>2, <3>3
  <2>3. QED
    BY <1>5, <2>1, <2>2 DEF config_set
<1>6. CASE cmd_set(c)
  <2>1. /\ con[c].cmd.key \in Keys /\ con[c].cmd.val \in Names /\ ~Idle(c) /\ ~Unflagged(c)
        /\ con[c].cmd.op # "save"
    BY <1>1, <1>6, CommandFields, CommandBusy DEF cmd_set, Runs, Unflagged
  <2>2. QED
    BY <1>5, <1>6, <2>1 DEF cmd_set, Arg
<1>7. CASE config_set_drive(c)
  <2>1. con[c].cmd.op \in {"mount", "unmount"} /\ ~Idle(c) /\ ~Unflagged(c) /\ con[c].cmd.op # "save"
    BY <1>1, <1>7, CommandBusy DEF config_set_drive, Places, Unflagged
  <2>2. con[c].cmd.drive \in Keys
    BY <1>1, <2>1, CommandFields, ShellAssumption
  <2>3. config_set(c, con[c].cmd.drive, con[c].val)
    BY <1>7 DEF config_set_drive, Arg
  <2>4. QED
    BY <1>1, <1>5, <2>1, <2>2, <2>3
<1>8. CASE Flag(c)
  <2>1. ~Idle(c) /\ MarkDirty /\ Finish(c)
    BY <1>8, CommandBusy DEF Flag
  <2>2. con'[c].cmd.op = "none" /\ con'[c].at = "start" /\ \A o \in Consoles : o # c => con'[o] = con[o]
    BY <1>2, <2>1, ConAfter
  <2>3. ConfigTypes' /\ SaveProgress'
    BY <1>3, <1>4, <2>1, <2>2 DEF MarkDirty, ConfigTypes, SaveProgress
  <2>4. QED
    BY <2>3
<1>9. CASE cmd_save(c)
  <2>1. ~Idle(c) /\ con[c].cmd.op = "save" /\ ~Unflagged(c)
    BY <1>1, <1>9, CommandBusy DEF cmd_save, Arg, Places, Unflagged
  <2>2. ASSUME ~overlap PROVE \A o \in Consoles : ~Unflagged(o)
    BY <1>4, <2>1, <2>2 DEF Unflagged
  <2>3. CASE Finish(c) /\ UNCHANGED configVars
    BY <1>2, <1>3, <2>1, <2>3, ConAfter, QuietConfig
  <2>4. CASE /\ con[c].key <= Len(KeyOrder) /\ SaveKey(KeyOrder[con[c].key])
             /\ con' = [con EXCEPT ![c].at = "put", ![c].key = @ + 1]
    <3> DEFINE n == con[c].key
               k == KeyOrder[n]
    <3>1. n \in Nat /\ n \in 1 .. Len(KeyOrder) /\ k \in Keys
      <4>1. n \in Nat \ {0} /\ n <= Len(KeyOrder) /\ Len(KeyOrder) \in Nat
        BY <1>1, <2>4, ConfigAssumption, LenProperties
      <4> HIDE DEF n
      <4>2. n \in 1 .. Len(KeyOrder)
        BY <4>1
      <4>3. QED
        BY <4>1, <4>2, ConfigAssumption, ElementOfSeq
    <3>2. /\ nvs \in [Keys -> Names \union {Absent}] /\ s_cfg \in [Keys -> Names]
          /\ nvs' = [nvs EXCEPT ![k] = s_cfg[k]] /\ s_cfg' = s_cfg /\ s_dirty' = s_dirty
      BY <2>4 DEF SaveKey, ConfigTypes
    <3>3. ConfigTypes'
      BY <3>1, <3>2 DEF ConfigTypes
    <3>4. con'[c].cmd = con[c].cmd /\ con'[c].at = "put" /\ con'[c].key = n + 1
          /\ \A o \in Consoles : o # c => con'[o] = con[o]
      BY <2>4 DEF ConsoleInv, ConsoleTypes, ConsoleStates
    <3> HIDE DEF k, n
    <3>5. ASSUME ~overlap, NEW i \in 1 .. n + 1 - 1, i <= Len(KeyOrder)
          PROVE  nvs'[KeyOrder[i]] = s_cfg[KeyOrder[i]]
      <4>1. i \in 1 .. Len(KeyOrder) /\ KeyOrder[i] \in Keys
        BY <3>1, <3>5, ConfigAssumption, LenProperties, ElementOfSeq
      <4>2. i # n => i \in 1 .. n - 1
        BY <3>1, <3>5
      <4>3. i # n => nvs[KeyOrder[i]] = s_cfg[KeyOrder[i]]
        BY <2>1, <3>5, <4>2 DEF SaveProgress, n
      <4>4. QED
        BY <3>1, <3>2, <4>1, <4>3 DEF k
    <3>6. Saved => Saved'
      <4>1. s_cfg[k] # Absent /\ load_from_nvs(nvs) \in [Keys -> Names] /\ load_from_nvs(nvs') \in [Keys -> Names]
        BY <3>1, <3>2, <3>3, LoadTypes, ConfigAssumption DEF ConfigTypes
      <4>2. ASSUME Saved PROVE load_from_nvs(nvs') = s_cfg
        <5>1. \A x \in Keys : load_from_nvs(nvs')[x] = s_cfg[x]
          BY <3>1, <3>2, <4>1, <4>2 DEF Saved, load_from_nvs
        <5> DEFINE l == load_from_nvs(nvs')
        <5>2. l \in [Keys -> Names] /\ \A x \in Keys : l[x] = s_cfg[x]
          BY <4>1, <5>1
        <5> HIDE DEF l
        <5>3. s_cfg \in [Keys -> Names]
          BY <3>2
        <5>4. l = s_cfg
          BY <5>2, <5>3
        <5>5. QED
          BY <5>4 DEF l
      <4>3. QED
        BY <3>2, <4>2 DEF Saved
    <3>7. SaveProgress'
      <4> SUFFICES ASSUME ~overlap PROVE SaveProgress'
        BY <1>3 DEF SaveProgress
      <4>1. \A o \in Consoles : con'[o].cmd.op = "save" =>
              \A i \in 1 .. con'[o].key - 1 : i <= Len(KeyOrder) => nvs'[KeyOrder[i]] = s_cfg'[KeyOrder[i]]
        <5>1. \A o \in Consoles : con'[o].cmd.op = "save" => o = c
          BY <1>4, <2>1, <3>4
        <5>2. \A i \in 1 .. con'[c].key - 1 : i <= Len(KeyOrder) => nvs'[KeyOrder[i]] = s_cfg'[KeyOrder[i]]
          <6>1. \A i \in 1 .. n + 1 - 1 : i <= Len(KeyOrder) => nvs'[KeyOrder[i]] = s_cfg[KeyOrder[i]]
            BY <3>5
          <6>2. s_cfg' = s_cfg /\ con'[c].key = n + 1
            BY <3>2, <3>4
          <6>3. con'[c].key - 1 = n + 1 - 1
            BY <3>1, <6>2
          <6>4. QED
            BY <6>1, <6>2, <6>3
        <5>3. QED
          BY <5>1, <5>2
      <4>2. \A o \in Consoles : con'[o].at \notin {"defaults", "clean"}
        BY <1>4, <2>1, <3>4
      <4>3. ~s_dirty => Saved
        BY <2>2 DEF SaveProgress
      <4>4. QED
        BY <3>2, <3>6, <4>1, <4>2, <4>3 DEF SaveProgress
    <3>8. QED
      BY <3>3, <3>7
  <2>5. CASE con[c].key > Len(KeyOrder) /\ MarkClean /\ Finish(c)
    <3>1. ASSUME ~overlap PROVE Saved
      <4>1. \A i \in 1 .. Len(KeyOrder) : nvs[KeyOrder[i]] = s_cfg[KeyOrder[i]]
        <5>1. Len(KeyOrder) \in Nat
          BY ConfigAssumption, LenProperties
        <5>2. \A i \in 1 .. Len(KeyOrder) : i \in 1 .. con[c].key - 1 /\ i <= Len(KeyOrder)
          <6> DEFINE n == con[c].key
          <6>1. n \in Nat /\ n > Len(KeyOrder)
            BY <1>1, <2>5
          <6> HIDE DEF n
          <6>2. \A i \in 1 .. Len(KeyOrder) : i \in 1 .. n - 1 /\ i <= Len(KeyOrder)
            BY <5>1, <6>1
          <6>3. QED
            BY <6>2 DEF n
        <5>3. QED
          BY <2>1, <3>1, <5>2 DEF SaveProgress
      <4>2. \A k \in Keys : nvs[k] = s_cfg[k]
        BY <4>1, ConfigAssumption, LenProperties DEF Keys, ToSet
      <4>3. \A k \in Keys : s_cfg[k] # Absent
        BY ConfigAssumption DEF ConfigTypes
      <4>4. QED
        BY <4>2, <4>3 DEF Saved, load_from_nvs, ConfigTypes
    <3>2. ConfigTypes' /\ (Saved' <=> Saved)
      BY <2>5 DEF MarkClean, ConfigTypes, Saved
    <3>3. con'[c].cmd.op = "none" /\ con'[c].at = "start" /\ \A o \in Consoles : o # c => con'[o] = con[o]
      BY <1>2, <2>5, ConAfter
    <3>4. SaveProgress'
      BY <1>3, <1>4, <2>1, <3>1, <3>2, <3>3 DEF SaveProgress
    <3>5. QED
      BY <3>2, <3>4
  <2>6. QED
    BY <1>9, <2>3, <2>4, <2>5 DEF cmd_save, SaveFails
<1>10. CASE cmd_wipe(c)
  <2>1. ~Idle(c) /\ con[c].cmd.op = "wipe"
    BY <1>10, CommandBusy DEF cmd_wipe, Runs
  <2>2. CASE con[c].at = "start" /\ EraseAll /\ Goto(c, "defaults")
    <3>1. con'[c].cmd.op = "wipe" /\ con'[c].at = "defaults" /\ \A o \in Consoles : o # c => con'[o] = con[o]
      BY <2>1, <2>2, ConAfter DEF AllPlaces
    <3>2. ConfigTypes' /\ nvs' = Empty
      BY <2>2, EmptyFlash DEF EraseAll, ConfigTypes
    <3>3. SaveProgress'
      BY <1>3, <1>4, <2>1, <3>1, <3>2 DEF SaveProgress, Unflagged
    <3>4. QED
      BY <3>2, <3>3
  <2>3. CASE con[c].at = "start" /\ Finish(c) /\ UNCHANGED configVars
    BY <1>2, <1>3, <2>3, ConAfter, QuietConfig DEF Unflagged
  <2>4. CASE con[c].at = "defaults" /\ set_defaults /\ Goto(c, "clean")
    <3>1. con'[c].cmd.op = "wipe" /\ con'[c].at = "clean" /\ \A o \in Consoles : o # c => con'[o] = con[o]
      BY <2>1, <2>4, ConAfter DEF AllPlaces
    <3>2. ConfigTypes' /\ s_cfg' = Default /\ nvs' = nvs
      BY <2>4, ConfigAssumption DEF set_defaults, ConfigTypes
    <3>3. ~overlap => nvs = Empty
      BY <2>4 DEF SaveProgress
    <3>4. SaveProgress'
      BY <1>3, <1>4, <2>1, <3>1, <3>2, <3>3 DEF SaveProgress, Unflagged
    <3>5. QED
      BY <3>2, <3>4
  <2>5. CASE con[c].at = "clean" /\ MarkClean /\ Finish(c)
    <3>1. con'[c].cmd.op = "none" /\ con'[c].at = "start" /\ \A o \in Consoles : o # c => con'[o] = con[o]
      BY <1>2, <2>5, ConAfter
    <3>2. ConfigTypes' /\ (Saved' <=> Saved)
      BY <2>5 DEF MarkClean, ConfigTypes, Saved
    <3>3. ~overlap => Saved
      BY <2>5, EmptyFlash DEF SaveProgress, Saved
    <3>4. SaveProgress'
      BY <1>3, <1>4, <2>1, <3>1, <3>2, <3>3 DEF SaveProgress
    <3>5. QED
      BY <3>2, <3>4
  <2>6. QED
    BY <1>10, <2>2, <2>3, <2>4, <2>5 DEF cmd_wipe, Runs
\* The others leave the configuration alone.
<1>11. CASE cmd_mount(c) \/ cmd_unmount(c) \/ cmd_delete(c) \/ cmd_rename(c) \/ cmd_copy(c) \/ cmd_exec(c)
            \/ cmd_logout(c) \/ cmd_reboot(c) \/ cmd_update(c) \/ UpdateDone(c)
  <2>1. UNCHANGED configVars
    BY <1>11 DEF cmd_mount, cmd_unmount, cmd_delete, cmd_rename, cmd_copy, cmd_exec, cmd_logout,
                 cmd_reboot, cmd_update, UpdateDone, Unmounted
  <2>2. /\ con[c].cmd.op \in {"mount", "unmount", "delete", "rename", "copy", "exec", "logout", "reboot", "update"}
        /\ ~Unflagged(c)
    <3>1. con[c].cmd.op \in {"mount", "unmount", "delete", "rename", "copy", "exec", "logout", "reboot", "update"}
      BY <1>11 DEF cmd_mount, cmd_unmount, cmd_delete, cmd_rename, cmd_copy, cmd_exec, cmd_logout,
                   cmd_reboot, cmd_update, UpdateDone, Runs, Arg
    <3>2. con[c].at \notin {"dirty", "defaults", "clean"}
      BY <1>1, <1>11
         DEF cmd_mount, cmd_unmount, cmd_delete, cmd_rename, cmd_copy, cmd_exec, cmd_logout,
             cmd_reboot, cmd_update, UpdateDone, Runs, Arg, Places
    <3>3. QED
      BY <3>1, <3>2 DEF Unflagged
  <2>3. /\ \A o \in Consoles : o # c => con'[o] = con[o]
        /\ con'[c].cmd = con[c].cmd \/ con'[c].cmd = NoCmd
        /\ con'[c].at \in {"start", "persist", "stream", "restart", "wait"}
    <3>1. CASE Finish(c)
      BY <3>1, ConAfter
    <3>2. CASE \E at \in {"persist", "stream", "restart", "wait"} : Goto(c, at)
      BY <3>2, ConAfter DEF AllPlaces
    <3>3. CASE cmd_mount(c)
      BY <3>3 DEF cmd_mount, ConsoleInv, ConsoleTypes, ConsoleStates
    <3>4. CASE cmd_exec(c) /\ ~Finish(c)
      <4>1. PICK fr : con' = [con EXCEPT ![c].cmd = NoCmd, ![c].frames = fr]
        BY <3>4 DEF cmd_exec
      <4>2. QED
        BY <3>4, <4>1 DEF cmd_exec, Runs, ConsoleInv, ConsoleTypes, ConsoleStates
    <3>5. CASE cmd_logout(c)
      <4>1. PICK b : con' = [con EXCEPT ![c].cmd = NoCmd, ![c].bye = b]
        BY <3>5 DEF cmd_logout
      <4>2. QED
        BY <3>5, <4>1 DEF cmd_logout, Runs, ConsoleInv, ConsoleTypes, ConsoleStates
    <3>6. CASE UNCHANGED con /\ cmd_update(c)
      BY <2>2, <3>6, CommandBusy DEF cmd_update, Runs
    <3>7. QED
      BY <1>11, <3>1, <3>2, <3>3, <3>4, <3>5, <3>6
         DEF cmd_unmount, cmd_delete, cmd_rename, cmd_copy, cmd_reboot, cmd_update, UpdateDone,
             Unmounted, Unchanged
  <2>4. ~Unflagged(c)' /\ con'[c].cmd.op # "save"
    BY <2>2, <2>3 DEF Unflagged, NoCmd
  <2>5. QED
    BY <1>3, <2>1, <2>2, <2>3, <2>4, QuietConfig
<1>12. QED
  BY <1>6, <1>7, <1>8, <1>9, <1>10, <1>11 DEF Command

(* Lines that start or end, and the next client, change nothing.           *)
LEMMA LineConfig ==
  ASSUME ConsoleInv, ConfigInv, NEW c \in Consoles,
         cli_feed(c) \/ run_batch_file(c) \/ EndOfBatch(c) \/ Reconnect(c)
  PROVE  ConfigInv'
<1>1. con \in [Consoles -> ConsoleStates] /\ con[c] \in ConsoleStates
  BY DEF ConsoleInv, ConsoleTypes
<1>2. con[c].cmd = NoCmd /\ con[c].at = "start" /\ con[c].key = 1
  BY DEF cli_feed, run_batch_file, EndOfBatch, Reconnect, Idle, ConsoleInv, InPlace, Places, NoCmd
<1>3. UNCHANGED configVars /\ (~overlap' => ~overlap) /\ \A o \in Consoles : o # c => con'[o] = con[o]
  <2>1. UNCHANGED configVars
    BY DEF cli_feed, run_batch_file, EndOfBatch, Reconnect
  <2>2. ~overlap' => ~overlap
    BY DEF cli_feed, run_batch_file, EndOfBatch, Reconnect, Overlaps
  <2>3. CASE run_batch_file(c)
    <3>1. PICK m, fr : con' = [con EXCEPT ![c].cmd = m, ![c].frames = fr]
      BY <2>3 DEF run_batch_file
    <3>2. QED
      BY <1>1, <2>1, <2>2, <3>1
  <2>4. CASE EndOfBatch(c)
    <3>1. PICK fr : con' = [con EXCEPT ![c].frames = fr]
      BY <2>4 DEF EndOfBatch
    <3>2. QED
      BY <1>1, <2>1, <2>2, <3>1
  <2>5. CASE cli_feed(c) \/ Reconnect(c)
    BY <1>1, <2>1, <2>2, <2>5 DEF cli_feed, Reconnect, Line
  <2>6. QED
    BY <2>3, <2>4, <2>5
<1>4. con'[c].at = "start" /\ con'[c].key = 1
  <2>1. CASE cli_feed(c)
    BY <1>1, <1>2, <2>1 DEF cli_feed, Line, ConsoleStates
  <2>2. CASE run_batch_file(c)
    <3>1. PICK m, fr : con' = [con EXCEPT ![c].cmd = m, ![c].frames = fr]
      BY <2>2 DEF run_batch_file
    <3>2. QED
      BY <1>1, <1>2, <3>1 DEF ConsoleStates
  <2>3. CASE EndOfBatch(c)
    BY <1>1, <1>2, <2>3 DEF EndOfBatch, ConsoleStates
  <2>4. CASE Reconnect(c)
    BY <1>1, <2>4 DEF Reconnect, Prompt
  <2>5. QED
    BY <2>1, <2>2, <2>3, <2>4
<1>5. QED
  BY <1>2, <1>3, <1>4, QuietConfig DEF Unflagged

LEMMA StallConfig == ASSUME ConsoleInv, ConfigInv, NEW c \in Consoles, Stall(c) PROVE ConfigInv'
<1>1. con \in [Consoles -> ConsoleStates] /\ UNCHANGED configVars /\ UNCHANGED overlap
  BY DEF Stall, Same, ConsoleInv, ConsoleTypes
<1>2. \A o \in Consoles : con'[o].cmd = con[o].cmd /\ con'[o].at = con[o].at /\ con'[o].key = con[o].key
  BY <1>1 DEF Stall, ConsoleStates
<1>3. QED
  BY <1>1, <1>2 DEF ConfigInv, ConfigTypes, SaveProgress, Saved, Unflagged, configVars

(* A start reads the flash: nothing is unsaved.                            *)
LEMMA BootConfig ==
  ASSUME ConfigTypes, config_init, con' = cli_run_autoexec
  PROVE  ConfigInv'
<1>1. ConfigTypes' /\ Saved' /\ s_dirty' = FALSE
  BY EmptyFlash, LoadTypes DEF config_init, ConfigTypes, Saved
<1>2. \A c \in Consoles : con'[c].cmd.op = "none" /\ con'[c].at = "start"
  BY DEF cli_run_autoexec, Prompt, NoCmd
<1>3. QED
  BY <1>1, <1>2 DEF ConfigInv, SaveProgress

-----------------------------------------------------------------------------
LEMMA InitShellInv == Init => ShellInv
<1> SUFFICES ASSUME Init PROVE ShellInv
  OBVIOUS
<1>1. OtaInv
  BY InitOtaInv DEF Init
<1>2. \A c \in Consoles : con[c] = Prompt
  BY DEF Init
<1>3. Prompt \in ConsoleStates /\ Prompt.cmd = NoCmd /\ Prompt.at = "start" /\ Prompt.key = 1
      /\ Prompt.frames = <<>>
  BY EmptyName, EmptySeq DEF Prompt, ConsoleStates, AllPlaces
<1>4. ConsoleInv
  <2>1. ConsoleTypes
    BY <1>3, EmptyName DEF Init, ConsoleTypes
  <2>2. InPlace /\ OneBusy /\ FoldersSaved /\ OwnFolder
    BY <1>2, <1>3 DEF Init, InPlace, OneBusy, FoldersSaved, OwnFolder, Idle, Places, NoCmd
  <2>3. QED
    BY <2>1, <2>2 DEF ConsoleInv
<1>5. ConfigInv
  <2>1. ConfigTypes
    BY ConfigAssumption, EmptyFlash DEF Init, ConfigTypes
  <2>2. Saved
    BY EmptyFlash DEF Init, Saved
  <2>3. SaveProgress
    BY <1>2, <1>3, <2>2 DEF SaveProgress, NoCmd
  <2>4. QED
    BY <2>1, <2>3 DEF ConfigInv
<1>6. CardInv
  BY EmptyName DEF Init, CardInv, CardTypes, MountedOnCard
<1>7. QED
  BY <1>1, <1>4, <1>5, <1>6 DEF ShellInv

LEMMA BootShellInv == ASSUME ShellInv, app_main PROVE ShellInv'
<1>1. OtaInv'
  BY OtaBootStep DEF ShellInv, app_main
<1>2. ConsoleInv'
  BY BootConsole DEF ShellInv, ConsoleInv, ConsoleTypes, app_main
<1>3. ConfigInv'
  BY BootConfig DEF ShellInv, ConfigInv, app_main
<1>4. CardInv'
  BY <1>3, BootCard DEF ConfigInv, app_main
<1>5. QED
  BY <1>1, <1>2, <1>3, <1>4 DEF ShellInv

(* A command, with its effect on an update.                                *)
LEMMA CommandShellInv == ASSUME ShellInv, NEW c \in Consoles, Command(c) PROVE ShellInv'
<1>1. CASE esp_restart(c)
  BY <1>1, BootShellInv DEF esp_restart
<1>2. CASE ~esp_restart(c)
  <2>1. CardInv'
    BY <1>2, CommandCard DEF ShellInv
  <2>2. ConsoleInv'
    BY <1>2, <2>1, CommandConsole, ExecConsole DEF ShellInv, CardInv
  <2>3. ConfigInv'
    BY <1>2, <2>1, <2>2, CommandConfig DEF ShellInv, CardInv
  <2>4. OtaInv'
    <3>1. CASE UNCHANGED otaVars
      BY <3>1 DEF ShellInv, otaVars, OtaInv, OtaTypes, OneJob, BusyExact, BootIsRunning,
                  VerifiedStays, BootValid, Target
    <3>2. CASE Runs(c, "update", "start") /\ ota_run(c, Arg(c).src)
      <4>1. Arg(c).src \in {"status", "sd", "https"}
        BY <3>2, CommandFields DEF Runs, Arg, ShellInv, ConsoleInv, ConsoleTypes, ConsoleStates
      <4>2. QED
        BY <3>2, <4>1, OtaRunStep DEF ShellInv
    <3>3. CASE Returned(c) \/ NoMemory(c)
      BY <3>3, ReturnedStep DEF ShellInv
    <3>4. CASE CreateTask(c)
      BY <3>4, CreateTaskStep DEF ShellInv
    <3>5. QED
      BY <1>2, <3>1, <3>2, <3>3, <3>4
         DEF Command, cmd_set, Flag, cmd_save, cmd_wipe, cmd_mount, cmd_unmount, config_set_drive,
             cmd_delete, cmd_rename, cmd_copy, cmd_exec, cmd_logout, cmd_reboot, cmd_update,
             UpdateDone, Unmounted, ota_refused
  <2>5. QED
    BY <2>1, <2>2, <2>3, <2>4 DEF ShellInv
<1>3. QED
  BY <1>1, <1>2

(* The invariant of the consoles, the configuration, the card and the      *)
(* updates: every step of every console, the network and power keeps it.   *)
THEOREM ShellInvariant == Spec => []ShellInv
<1>1. ShellInv /\ [Next]_vars => ShellInv'
  <2> SUFFICES ASSUME ShellInv, [Next]_vars PROVE ShellInv'
    OBVIOUS
  <2>1. ASSUME UNCHANGED otaVars PROVE OtaInv'
    BY <2>1 DEF ShellInv, otaVars, OtaInv, OtaTypes, OneJob, BusyExact, BootIsRunning,
                VerifiedStays, BootValid, Target
  <2>2. ASSUME UNCHANGED <<con, s_batch_cwd, menu, overlap>> PROVE ConsoleInv'
    BY <2>2 DEF ShellInv, ConsoleInv, ConsoleTypes, InPlace, OneBusy, FoldersSaved, OwnFolder,
                Idle, Caller, Top
  <2>3. ASSUME UNCHANGED <<con, overlap>>, UNCHANGED configVars PROVE ConfigInv'
    BY <2>3 DEF ShellInv, ConfigInv, ConfigTypes, SaveProgress, Saved, Unflagged, configVars
  <2>4. ASSUME UNCHANGED card PROVE CardInv'
    BY <2>4, FilesCard DEF ShellInv, card
  <2>5. ASSUME NEW c \in Consoles,
               cli_feed(c) \/ run_batch_file(c) \/ EndOfBatch(c) \/ Reconnect(c)
        PROVE  ShellInv'
    <3>1. UNCHANGED otaVars /\ UNCHANGED card
      BY <2>5 DEF cli_feed, run_batch_file, EndOfBatch, Reconnect
    <3>2. QED
      BY <2>1, <2>4, <2>5, <3>1, FeedConsole, BatchConsole, EndOfBatchConsole, ReconnectConsole,
         LineConfig DEF ShellInv
  <2>6. ASSUME NEW c \in Consoles, OtaTask(c) PROVE ShellInv'
    <3>1. UNCHANGED configVars /\ UNCHANGED <<con, s_batch_cwd, menu, overlap>> /\ UNCHANGED card
      BY <2>6 DEF OtaTask, shellVars, card
    <3>2. QED
      BY <2>2, <2>3, <2>4, <2>6, <3>1, OtaTaskStep DEF OtaTask, ShellInv
  <2>7. CASE PowerLoss
    BY <2>7, BootShellInv DEF PowerLoss
  <2>8. CASE Wifi
    <3>1. UNCHANGED configVars /\ UNCHANGED otaVars /\ UNCHANGED <<con, s_batch_cwd, menu, overlap>>
      BY <2>8 DEF Wifi, Same
    <3>2. QED
      BY <2>1, <2>2, <2>3, <2>8, <3>1, WifiCard DEF ShellInv
  <2>9. CASE UploadFirmware
    <3>1. UNCHANGED configVars /\ UNCHANGED <<con, s_batch_cwd, menu, overlap>> /\ UNCHANGED card
      BY <2>9 DEF UploadFirmware, shellVars, card
    <3>2. QED
      BY <2>2, <2>3, <2>4, <2>9, <3>1, UploadStep DEF UploadFirmware, ShellInv
  <2>10. CASE UNCHANGED vars
    <3>1. UNCHANGED configVars /\ UNCHANGED otaVars /\ UNCHANGED <<con, s_batch_cwd, menu, overlap>>
          /\ UNCHANGED card
      BY <2>10 DEF vars, shellVars, card
    <3>2. QED
      BY <2>1, <2>2, <2>3, <2>4, <3>1 DEF ShellInv
  <2>11. ASSUME NEW c \in Consoles, Stall(c) PROVE ShellInv'
    <3>1. UNCHANGED otaVars /\ UNCHANGED card /\ UNCHANGED configVars
      BY <2>11 DEF Stall
    <3>2. QED
      BY <2>1, <2>4, <2>11, <3>1, StallConsole, StallConfig DEF ShellInv
  <2>12. QED
    BY <2>5, <2>6, <2>7, <2>8, <2>9, <2>10, <2>11, CommandShellInv DEF Next, Console
<1>2. QED
  BY <1>1, InitShellInv, PTL DEF Spec

(* The device always has a valid image to boot: power may be lost at any   *)
(* step of ota.c, by any number of consoles that ask for updates.          *)
THEOREM AlwaysBootable == Spec => []BootValid
<1>1. ShellInv => BootValid
  BY DEF ShellInv, OtaInv
<1>2. QED
  BY <1>1, ShellInvariant, PTL

(* Updates are refused exactly while one is under way (s_busy of ota.c).   *)
THEOREM SingleFlight == Spec => []BusyExact
<1>1. ShellInv => BusyExact
  BY DEF ShellInv, OtaInv
<1>2. QED
  BY <1>1, ShellInvariant, PTL

(* delete, rename and copy never take a mounted image off the card.        *)
THEOREM MountsStayOnCard == Spec => []MountedOnCard
<1>1. ShellInv => MountedOnCard
  BY DEF ShellInv, CardInv
<1>2. QED
  BY <1>1, ShellInvariant, PTL

(* With one console at a time a batch file runs in its own folder, at any  *)
(* depth, and the folder of the caller comes back.                         *)
THEOREM BatchInOwnFolder == Spec => []OwnFolder
<1>1. ShellInv => OwnFolder
  BY DEF ShellInv, ConsoleInv
<1>2. QED
  BY <1>1, ShellInvariant, PTL

(* With one console at a time a clean prompt means a saved configuration,  *)
(* whatever save, wipe, failed write or restart came before.               *)
THEOREM CleanMeansSaved == Spec => []CleanIsSaved
<1>1. ShellInv => CleanIsSaved
  <2> SUFFICES ASSUME ShellInv, ~overlap, ~s_dirty, \A c \in Consoles : con[c].cmd = NoCmd
               PROVE  load_from_nvs(nvs) = s_cfg
    BY DEF CleanIsSaved
  <2>1. \A c \in Consoles : con[c].at = "start"
    BY DEF ShellInv, ConsoleInv, InPlace, Places, NoCmd
  <2>2. QED
    BY <2>1 DEF ShellInv, ConfigInv, SaveProgress, Saved, Unflagged
<1>2. QED
  BY <1>1, ShellInvariant, PTL
=============================================================================
