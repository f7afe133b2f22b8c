----------------------------- MODULE ProgramRun -----------------------------
(***************************************************************************)
(* One run of the program, from main's first line to its last: the file    *)
(* system client (ios_fs.c), the volume and its device (extusb_devoptab.c, *)
(* f_mount of ff.c), the listing of the drive, the way back out, and the   *)
(* messages of the system that end the application (state.cpp).            *)
(*                                                                         *)
(* Every allocation and every call of a library may fail, and the drive    *)
(* answers every question of its state anew: it may have been pulled.      *)
(***************************************************************************)
EXTENDS UsbVolume

CONSTANT MaxEntries    \* a bound on the entries of the listed directory

ASSUME EntriesAssumption == MaxEntries \in Nat

VARIABLES
    pc,            \* main's next step
    registered,    \* fsClient: how often it was added,
    initialized,   \* and whether initFs has unlocked it
    listed,        \* is "fat" in the device table
    extusb_fs_initialised,
    left,          \* the entries of the directory not yet read
    app            \* of state.cpp

client == <<registered, initialized>>
volume == <<FatFs, fs_type, listed, extusb_fs_initialised, touched>>
vars == <<pc, client, volume, drive, left, app>>

Init ==
    /\ pc = "start"
    /\ registered = 0 /\ initialized = 0
    /\ Shut /\ listed = 0 /\ extusb_fs_initialised = 0
    /\ left = 0 /\ app = "RUNNING"

Goto(label) == pc' = label

(***************************************************************************)
(* initFs, called from main and again by unmountWiiUDisk.                   *)
(***************************************************************************)
InitFs(ok) ==
    IF initialized = 1 THEN ok = 1 /\ UNCHANGED client
    ELSE \/ ok = 0 /\ UNCHANGED client                                 \* FSAddClient fails
         \/ registered' = registered + 1 /\ initialized' = ok       \* Mocha_UnlockFSClient may

Start ==
    /\ pc = "start"
    /\ \/ Goto("initFs")
       \/ Goto("fini")       \* "Memory allocation failed!"
    /\ UNCHANGED <<client, volume, drive, left, app>>

\* The result is not looked at.
CallInitFs ==
    /\ pc = "initFs" /\ \E ok \in Bit : InitFs(ok)
    /\ Goto("devoptab")
    /\ UNCHANGED <<volume, drive, left, app>>

(***************************************************************************)
(* init_extusb_devoptab and fini_extusb_devoptab.                           *)
(***************************************************************************)
\* memalign or AddDevice fails, the second with an unmount of what is not mounted.
NoDevice ==
    /\ pc = "devoptab" /\ extusb_fs_initialised = 0
    /\ \/ UNCHANGED volume
       \/ f_unmount /\ UNCHANGED <<listed, extusb_fs_initialised>>
    /\ Goto("fini")
    /\ UNCHANGED <<client, drive, left, app>>

\* f_mount.  When it fails the volume is freed; FatFs[] still points to it and
\* the device stays in the table.
Mount ==
    /\ pc = "devoptab" /\ extusb_fs_initialised = 0
    /\ listed' = 1 /\ Touched
    /\ \E ok \in Bit :
         /\ Attach(ok) /\ fs_type' = ok
         /\ FatFs' = IF ok = 1 THEN "live" ELSE "freed"
         /\ extusb_fs_initialised' = ok
         /\ Goto(IF ok = 1 THEN "chdir" ELSE "fini")
    /\ UNCHANGED <<client, left, app>>

\* chdir("sd:/"), whose result is not looked at either.
Chdir ==
    /\ pc = "chdir" /\ \E ok \in Bit : mount_volume(ok)
    /\ Touched /\ Goto("opendir")
    /\ UNCHANGED <<client, FatFs, listed, extusb_fs_initialised, left, app>>

\* Mutant: without the test for a device that is set up.
Finished_Never == FALSE
Finished == extusb_fs_initialised = 0

Fini ==
    /\ pc = "fini"
    /\ \/ UNCHANGED volume       \* nothing to do, or RemoveDevice fails
       \/ /\ ~Finished
          /\ f_unmount /\ listed' = 0 /\ extusb_fs_initialised' = 0
    /\ Goto("unmount")
    /\ UNCHANGED <<client, drive, left, app>>

(***************************************************************************)
(* enumerateFatFsDirectory("sd:/")                                         *)
(***************************************************************************)
OpenDir ==
    /\ pc = "opendir"
    /\ \E ok \in Bit :
         /\ mount_volume(ok)
         /\ \/ ok = 1 /\ Goto("readdir") /\ left' \in 0..MaxEntries
            \/ Goto("fini") /\ UNCHANGED left
    /\ Touched
    /\ UNCHANGED <<client, FatFs, listed, extusb_fs_initialised, app>>

\* f_readdir asks validate, which does not mount again.  The directory is not
\* closed.
ReadDir ==
    /\ pc = "readdir"
    /\ \/ StillMounted /\ left > 0 /\ left' = left - 1 /\ UNCHANGED pc
       \/ Goto("fini") /\ UNCHANGED left    \* its end, an error or a strange entry
    /\ Touched
    /\ UNCHANGED <<client, FatFs, fs_type, listed, extusb_fs_initialised, drive, app>>

(***************************************************************************)
(* The rest of cleanup.                                                     *)
(***************************************************************************)
\* unmountWiiUDisk: FSAEx_Unmount looks into the client it is given, NULL included.
Unmount ==
    /\ pc = "unmount"
    /\ \E ok \in Bit : InitFs(ok) /\ Goto(IF ok = 1 THEN "cleanupFs" ELSE "crashed")
    /\ UNCHANGED <<volume, drive, left, app>>

CleanupFs ==
    /\ pc = "cleanupFs"
    /\ registered' = registered - 1
    /\ Goto("waitForKey")
    /\ UNCHANGED <<initialized, volume, drive, left, app>>

\* "Press any key to exit", then shutdownState, which loops on Aroma only.
WaitForKey ==
    /\ pc = "waitForKey"
    /\ Goto("shutdown") \/ Goto("end")
    /\ UNCHANGED <<client, volume, drive, left, app>>

(***************************************************************************)
(* AppRunning.  ProcUIProcessMessages may first call homeButtonCallback.   *)
(***************************************************************************)
Messages == {"EXITING", "RELEASE_FOREGROUND", "IN_FOREGROUND", "IN_BACKGROUND"}

\* Mutant: a state that is STOPPING is kept whatever comes.
After_Stopping(a, message) ==
    IF a = "STOPPING" THEN a
    ELSE IF message = "EXITING" THEN "STOPPED"
    ELSE IF message # "IN_FOREGROUND" THEN "BACKGROUND"
    ELSE IF a = "BACKGROUND" THEN "RETURNING" ELSE "RUNNING"

After(a, message) ==
    IF message = "EXITING" THEN "STOPPED"
    ELSE IF a = "STOPPING" THEN a
    ELSE IF message # "IN_FOREGROUND" THEN "BACKGROUND"
    ELSE IF a = "BACKGROUND" THEN "RETURNING" ELSE "RUNNING"

AppRunning(message) ==
    /\ pc = "shutdown" /\ app # "STOPPED"
    /\ \E home \in BOOLEAN : app' = After(IF home THEN "STOPPING" ELSE app, message)
    /\ UNCHANGED <<pc, client, volume, drive, left>>

Stopped ==
    /\ pc = "shutdown" /\ app = "STOPPED"
    /\ Goto("end")
    /\ UNCHANGED <<client, volume, drive, left, app>>

Main ==
    \/ Start \/ CallInitFs \/ NoDevice \/ Mount \/ Chdir \/ OpenDir \/ ReadDir
    \/ Fini \/ Unmount \/ CleanupFs \/ WaitForKey \/ Stopped

Next == Main \/ \E message \in Messages : AppRunning(message)

\* Main runs on, the key is pressed, and the menu that was launched has the
\* application end.
Spec ==
    /\ Init /\ [][Next]_vars
    /\ WF_vars(Main) /\ SF_vars(AppRunning("EXITING"))

(***************************************************************************)
(* Properties                                                              *)
(***************************************************************************)
TypeOK ==
    /\ pc \in {"start", "initFs", "devoptab", "chdir", "opendir", "readdir", "fini", "unmount",
               "cleanupFs", "waitForKey", "shutdown", "end", "crashed"}
    /\ registered \in 0..2 /\ initialized \in Bit
    /\ VolumeTypes /\ listed \in Bit /\ extusb_fs_initialised \in Bit
    /\ left \in 0..MaxEntries
    /\ app \in {"STOPPING", "STOPPED", "RUNNING", "BACKGROUND", "RETURNING"}

\* Whatever fails, main comes to its end, or crashes on the client it has not got.
MainEnds == <>(pc \in {"end", "crashed"})

\* The drive main opened is closed when it ends: "The cleanup is done by fat32.cpp".
DriveIsClosed == pc = "end" => handles = 0
=============================================================================
