------------------------------ MODULE UsbVolume ------------------------------
(***************************************************************************)
(* The volume on the drive: FatFs's pointer to it and whether it is        *)
(* mounted (f_mount, mount_volume of ff.c), above the raw drive and its    *)
(* sector cache (diskio.c).  ProgramRun says when main does what to them.  *)
(* What is a bool in the code, or is zero or not, is 0 or 1 here.          *)
(***************************************************************************)
EXTENDS Integers

VARIABLES
    FatFs,         \* FatFs[DEV_SD]: what it points to
    fs_type,       \* that volume's: is it mounted
    fatMounted,    \* of diskio.c,
    handles,       \* the raw handles open,
    cached,        \* and whether the drive's sector cache is set up
    touched        \* history: was a freed volume read or written

drive == <<fatMounted, handles, cached>>

Bit == {0, 1}

Shut ==
    /\ FatFs = "none" /\ fs_type = 0 /\ touched = 0
    /\ fatMounted = 0 /\ handles = 0 /\ cached = 0

\* What a drive without a medium answers to the read of sector 0 is STA_NODISK or,
\* for any other error, STA_NOINIT; only that bit is looked at.
Statuses == {"ok", "STA_PROTECT", "STA_NODISK", "STA_NOINIT"}
disk_status(answer) == IF fatMounted = 1 THEN answer ELSE "STA_NOINIT"

\* disk_initialize refuses a drive that is open, else opens it.
\* Mutant: it opens it in any case.
Refused_Never == FALSE
Refused == fatMounted = 1

Touched == touched' = IF FatFs = "freed" THEN 1 ELSE touched

\* "The filesystem object is already valid".
StillMounted == fs_type = 1 /\ \E answer \in Statuses : disk_status(answer) # "STA_NOINIT"
Gone == fs_type = 0 \/ \E answer \in Statuses : disk_status(answer) = "STA_NOINIT"

\* disk_initialize and find_volume.  A drive that does not open is no disk, not an
\* uninitialized one, so the search goes on and fails at the first read.
Attach(ok) ==
    IF Refused THEN ok = 0 /\ UNCHANGED drive
    ELSE /\ cached' = 1
         /\ \/ handles' = handles + 1 /\ fatMounted' = 1
            \/ ok = 0 /\ UNCHANGED <<handles, fatMounted>>

mount_volume(ok) ==
    \/ StillMounted /\ ok = 1 /\ UNCHANGED <<fs_type, drive>>
    \/ Gone /\ Attach(ok) /\ fs_type' = ok

f_unmount == FatFs' = "none" /\ fs_type' = 0 /\ Touched

-----------------------------------------------------------------------------
VolumeTypes ==
    /\ FatFs \in {"none", "live", "freed"}
    /\ fs_type \in Bit /\ touched \in Bit
    /\ fatMounted \in Bit /\ cached \in Bit /\ handles \in Nat

\* A volume that is mounted has its memory, its drive open with one handle, and its
\* sector cache; a drive is never opened a second time, however often the volume
\* is lost and asked for again (diskio.c:109).
VolumeIsBacked ==
    /\ fs_type = 1 => FatFs = "live" /\ fatMounted = 1
    /\ handles = fatMounted
    /\ fatMounted = 1 => cached = 1

\* No step reads or writes the volume after init_extusb_devoptab has freed it,
\* though FatFs[] and the default device still lead to it (extusb_devoptab.c:67).
FreedIsLeftAlone == touched = 0
=============================================================================
