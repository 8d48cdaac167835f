--------------------------------- MODULE Ota ---------------------------------
(***************************************************************************)
(* Firmware updates (src/src/net/ota.c): `update` runs on a task of its    *)
(* own, one at a time, while the console that asked for it waits. The      *)
(* image goes to the slot that is not running; power may be lost at any    *)
(* step. The writer, its checks and the boot choice are those of ESP-IDF   *)
(* (external).                                                             *)
(***************************************************************************)
EXTENDS Naturals

CONSTANTS
    Consoles,   \* the serial console and the network console
    Images,     \* firmware images; the valid ones are
    Valid,
    Torn,       \* what a slot or a download holds that is no image
    NoFile      \* no /firmware.bin, or no update

(* An update: its source, its step and the image it got. *)
Jobs == [src : {"status", "sd", "https"},
         at : {"create", "start", "write", "end", "set_boot", "unlink", "reboot", "done"},
         img : Images \union {Torn}]

ASSUME OtaAssumption ==
    /\ Valid \subseteq Images /\ Torn \notin Images /\ NoFile \notin Images
    /\ NoFile \notin Jobs

VARIABLES
    s_busy,  \* the single-flight flag
    job,     \* the update of each console: its source, step, image and result
    slots,   \* the contents of the two slots
    boot,    \* the slot that boots next
    running, \* the slot that runs
    fw       \* the contents of /firmware.bin

otaVars == <<s_busy, job, slots, boot, running, fw>>

Slots == {0, 1}
Target == 1 - running

OtaInit ==
    /\ s_busy = FALSE /\ job = [c \in Consoles |-> NoFile]
    /\ slots \in [Slots -> {Torn} \union Valid] /\ slots[0] \in Valid /\ slots[1] = Torn
    /\ boot = 0 /\ running = 0 /\ fw \in Images \union {NoFile}

Step(c, at) == job' = [job EXCEPT ![c].at = at]
At(c, srcs, at) == job[c] # NoFile /\ job[c].src \in srcs /\ job[c].at = at

(* The task gives the semaphore and ends. *)
Fails(c) == Step(c, "done") /\ UNCHANGED <<s_busy, slots, boot, running, fw>>

(* Seeded bug: a second update is let in. *)
RunAnyway(c, src) ==
    /\ s_busy' = TRUE
    /\ job' = [job EXCEPT ![c] = [src |-> src, at |-> "create", img |-> Torn]]
    /\ UNCHANGED <<slots, boot, running, fw>>
(* ota_run takes the flag. *)
ota_run(c, src) ==
    /\ ~s_busy
    /\ s_busy' = TRUE
    /\ job' = [job EXCEPT ![c] = [src |-> src, at |-> "create", img |-> Torn]]
    /\ UNCHANGED <<slots, boot, running, fw>>
(* Seeded bug: the second update waits until the first one is over. *)
WaitsItsTurn == FALSE
(* A second update is refused at once. *)
ota_refused == s_busy /\ UNCHANGED otaVars

(* The semaphore and the task are created; for want of memory for either   *)
(* the update is over, and the flag is given back.                         *)
CreateTask(c) ==
    /\ At(c, {"status", "sd", "https"}, "create")
    /\ Step(c, "start") /\ UNCHANGED <<s_busy, slots, boot, running, fw>>
(* Seeded bug: the flag stays. *)
NoMemoryBusy(c) ==
    /\ At(c, {"status", "sd", "https"}, "create")
    /\ job' = [job EXCEPT ![c] = NoFile] /\ UNCHANGED <<s_busy, slots, boot, running, fw>>
NoMemory(c) ==
    /\ At(c, {"status", "sd", "https"}, "create")
    /\ s_busy' = FALSE /\ job' = [job EXCEPT ![c] = NoFile]
    /\ UNCHANGED <<slots, boot, running, fw>>

(* do_status installs nothing. *)
do_status(c) == At(c, {"status"}, "start") /\ Fails(c)

(* do_sd, and do_https for `update ota` and `update <url>`: checks, then   *)
(* esp_ota_begin erases the slot.                                          *)
Begin(c, img) ==
    /\ job' = [job EXCEPT ![c].at = "write", ![c].img = img]
    /\ slots' = [slots EXCEPT ![Target] = Torn]
    /\ UNCHANGED <<s_busy, boot, running, fw>>
do_sd(c) ==
    /\ At(c, {"sd"}, "start")
    /\ \/ fw # NoFile /\ Begin(c, fw)
       \/ Fails(c)
do_https(c) ==
    /\ At(c, {"https"}, "start")
    /\ \/ \E img \in Images \union {Torn} : Begin(c, img)
       \/ Fails(c)

(* The loop that streams the image. *)
Stream(c) ==
    /\ At(c, {"sd", "https"}, "write")
    /\ \/ /\ slots' = [slots EXCEPT ![Target] = job[c].img]
          /\ Step(c, "end")
          /\ UNCHANGED <<s_busy, boot, running, fw>>
       \/ Fails(c)

(* esp_ota_end validates what the slot holds; then do_sd sets the boot     *)
(* partition, and removes the file. esp_https_ota_finish does both.        *)
Verify(c) ==
    /\ At(c, {"sd", "https"}, "end")
    /\ \/ slots[Target] \in Valid /\ Step(c, "set_boot") /\ UNCHANGED <<s_busy, slots, boot, running, fw>>
       \/ Fails(c)
SetBoot(c) ==
    /\ At(c, {"sd", "https"}, "set_boot")
    /\ \/ /\ boot' = Target
          /\ Step(c, IF job[c].src = "sd" THEN "unlink" ELSE "reboot")
          /\ UNCHANGED <<s_busy, slots, running, fw>>
       \/ Fails(c)
Unlink(c) ==
    /\ At(c, {"sd"}, "unlink")
    /\ fw' \in {fw, NoFile}
    /\ Step(c, "reboot")
    /\ UNCHANGED <<s_busy, slots, boot, running>>

(* The end of ota_run: the console has its semaphore. *)
Returned(c) ==
    /\ At(c, {"status", "sd", "https"}, "done")
    /\ s_busy' = FALSE /\ job' = [job EXCEPT ![c] = NoFile]
    /\ UNCHANGED <<slots, boot, running, fw>>

ota_task(c) == do_status(c) \/ do_sd(c) \/ do_https(c) \/ Stream(c) \/ Verify(c) \/ SetBoot(c) \/ Unlink(c)

(* During an update /firmware.bin is written over, by FTP or by TNFS; an   *)
(* update that reads it gets a mixture.                                    *)
Upload ==
    /\ s_busy
    /\ fw' \in Images
    /\ job' = [c \in Consoles |-> IF At(c, {"sd"}, "write") THEN [job[c] EXCEPT !.img = Torn] ELSE job[c]]
    /\ UNCHANGED <<s_busy, slots, boot, running>>

(* A start of the device. *)
OtaBoot ==
    /\ s_busy' = FALSE /\ job' = [c \in Consoles |-> NoFile]
    /\ running' = boot
    /\ UNCHANGED <<slots, boot, fw>>

-----------------------------------------------------------------------------
(* The slot that boots next holds a valid image, whenever power is lost:   *)
(* an image is chosen only after it was verified, and no second update     *)
(* erases the slot in between (the single-flight flag).                    *)
BootValid == slots[boot] \in Valid

(* The flag is up exactly while some console has an update: no way out of  *)
(* ota_run leaves updates refused until the next reboot.                   *)
BusyExact == s_busy <=> \E c \in Consoles : job[c] # NoFile
=============================================================================
