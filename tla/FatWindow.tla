----------------------------- MODULE FatWindow -----------------------------
(***************************************************************************)
(* The sector window of a mounted FAT volume and the table of links seen   *)
(* through it (ff.c): fs->win is the one buffer for the table, for the     *)
(* directories and for FSInfo, so each access may first have to write back *)
(* what an earlier one has changed.                                        *)
(*                                                                         *)
(* A byte is two hexadecimal digits, the lower one first, a sector its     *)
(* digits in a row.  A DWORD is eight digits: the shifts and masks of      *)
(* get_fat and put_fat, which all move by whole digits, choose among them. *)
(* disk_read and disk_write may fail at each call.                         *)
(***************************************************************************)
EXTENDS Integers, FiniteSets

CONSTANTS SS,          \* bytes in a sector
          fatbase,     \* first sector of the first FAT; FSInfo is sector 1
          fsize,       \* sectors in a FAT
          n_fats,      \* copies of it
          csize,       \* sectors in a cluster
          n_fatent,    \* for each type of volume, the number of links
          LastSector,
          Digit,       \* what a half byte can be
          Clusters,    \* the numbers get_fat and put_fat are called with
          Values,      \* the DWORDs put into links
          Contents,    \* the sectors directories and FSInfo are made of
          Formatted,   \* the volume as it is mounted first
          Types,       \* the types of volume
          DiskFaults   \* may the drive refuse?

FSInfo    == 1                             \* fs->volbase + 1
FirstFAT  == fatbase..(fatbase + fsize - 1)
SecondFAT == IF n_fats = 2 THEN (fatbase + fsize)..(fatbase + 2 * fsize - 1) ELSE {}
Sectors   == 0..LastSector
Volume    == Sectors \ SecondFAT
Table     == (fatbase + n_fats * fsize)..LastSector   \* where directories are
Positions == 0..(2 * SS - 1)
DWORD     == [0..7 -> Digit]
Sector    == [Positions -> Digit]
Nowhere   == LastSector + 1                \* (LBA_t)0 - 1

Zero  == [k \in 0..7 |-> 0]
Blank == [p \in Positions |-> 0]

ASSUME FatWindowAssumption ==
  /\ SS \in Nat \ {0} /\ SS % 4 = 0
  /\ fatbase \in Nat /\ fatbase > FSInfo /\ fsize \in Nat \ {0}
  /\ n_fats \in {1, 2} /\ csize \in Nat \ {0}
  /\ LastSector \in Nat /\ fatbase + n_fats * fsize <= LastSector
  /\ 0 \in Digit
  /\ Clusters \subseteq Nat /\ Values \subseteq DWORD /\ Contents \subseteq Sector
  /\ Formatted \in [Sectors -> Sector]
  /\ n_fats = 2 => \A s \in FirstFAT : Formatted[s + fsize] = Formatted[s]
  /\ Types \subseteq {"FAT12", "FAT16", "FAT32"}
  /\ n_fatent \in [Types -> Nat]
  /\ DiskFaults \in BOOLEAN

\* mount_volume has checked that the table has room for the links (ff.c:3703).
ASSUME LinksFit ==
  /\ "FAT12" \in Types => 3 * n_fatent["FAT12"] <= 2 * SS * fsize
  /\ "FAT16" \in Types => 4 * n_fatent["FAT16"] <= 2 * SS * fsize
  /\ "FAT32" \in Types => 8 * n_fatent["FAT32"] <= 2 * SS * fsize

VARIABLES
  disk,                 \* what disk_read returns
  win, winsect, wflag,  \* the window, the sector it is of, is it dirty?
  fs_type, fsi_flag,
  unsure,               \* history: sectors in which a write failed for good
  answer                \* of the last call: what it was about, its FRESULT, the link

vars == <<disk, win, winsect, wflag, fs_type, fsi_flag, unsure, answer>>

Links == 2..(n_fatent[fs_type] - 1)

-----------------------------------------------------------------------------
(* The functions below return what may come of a call: a set of states of    *)
(* the window and the disk, each with the result.                            *)

Window == [disk |-> disk, win |-> win, winsect |-> winsect, wflag |-> wflag,
           unsure |-> unsure, ok |-> TRUE]

Becomes(w) ==
  /\ disk' = w.disk /\ win' = w.win /\ winsect' = w.winsect /\ wflag' = w.wflag
  /\ unsure' = w.unsure

Answer(call, at, res, val) == answer' = [call |-> call, at |-> at, res |-> res, val |-> val]
Result(w) == IF w.ok THEN "FR_OK" ELSE "FR_DISK_ERR"

Faulty(w) == IF DiskFaults THEN {w} ELSE {}

Failed(w) == [w EXCEPT !.ok = FALSE]

\* disk_write of a sector that works, and of one that fails and is not tried again.
Put(w, sect, content) ==
  [w EXCEPT !.disk = [w.disk EXCEPT ![sect] = content], !.unsure = w.unsure \ {sect}]
Lost(w, sect) == [w EXCEPT !.unsure = w.unsure \cup {sect}]

InFirstFAT(sect) == fatbase <= sect /\ sect - fatbase < fsize

Reflected(w) ==
  IF InFirstFAT(w.winsect) /\ n_fats = 2
  THEN {Put(w, w.winsect + fsize, w.win)} \cup Faulty(Lost(w, w.winsect + fsize))
  ELSE {w}

sync_window(w) ==
  IF w.wflag
  THEN Reflected([Put(w, w.winsect, w.win) EXCEPT !.wflag = FALSE]) \cup Faulty(Failed(w))
  ELSE {w}

\* Mutant: a read that fails leaves the window with the new sector's number.
Loaded_Kept(w, sect) ==
  {[w EXCEPT !.win = w.disk[sect], !.winsect = sect]}
    \cup Faulty([w EXCEPT !.winsect = sect, !.ok = FALSE])

Loaded(w, sect) ==
  {[w EXCEPT !.win = w.disk[sect], !.winsect = sect]}
    \cup Faulty([w EXCEPT !.winsect = Nowhere, !.ok = FALSE])

move_window(w, sect) ==
  IF sect = w.winsect THEN {w}
  ELSE UNION {IF v.ok THEN Loaded(v, sect) ELSE {v} : v \in sync_window(w)}

\* Some digits of the window are stored, from a position on.
Stored(w, pos, digits) ==
  [w EXCEPT !.win = [p \in Positions |-> IF p - pos \in DOMAIN digits THEN digits[p - pos]
                                         ELSE w.win[p]],
            !.wflag = TRUE]

\* The digits first to last of a DWORD.
Part(val, first, last) == [k \in 0..(last - first) |-> val[first + k]]

-----------------------------------------------------------------------------
(* Links.                                                                    *)

\* An entry of three digits starts in the middle of a byte if its number is odd,
\* and its two bytes may be in two sectors.
FirstByte(w, clst, val) ==
  Stored(w, 2 * ((clst + clst \div 2) % SS) + (clst % 2), Part(val, 0, 1 - (clst % 2)))

\* Mutant: the second byte of an even entry is put whole.
SecondByte_Whole(w, clst, val) ==
  Stored(w, 2 * ((clst + clst \div 2 + 1) % SS), Part(val, 2 - (clst % 2), 3 - (clst % 2)))

SecondByte(w, clst, val) ==
  Stored(w, 2 * ((clst + clst \div 2 + 1) % SS), Part(val, 2 - (clst % 2), 2))

Put12(clst, val) ==
  LET bc == clst + clst \div 2
      Second(v) == {IF u.ok THEN SecondByte(u, clst, val) ELSE u :
                      u \in move_window(FirstByte(v, clst, val), fatbase + (bc + 1) \div SS)}
  IN  UNION {IF v.ok THEN Second(v) ELSE {v} : v \in move_window(Window, fatbase + bc \div SS)}

Put16(clst, val) ==
  {IF v.ok THEN Stored(v, 2 * ((clst * 2) % SS), Part(val, 0, 3)) ELSE v :
     v \in move_window(Window, fatbase + clst \div (SS \div 2))}

Put32(clst, val) ==
  {IF v.ok THEN Stored(v, 2 * ((clst * 4) % SS), Part(val, 0, 6)) ELSE v :
     v \in move_window(Window, fatbase + clst \div (SS \div 4))}

put_fat ==
  \E clst \in Clusters, val \in Values :
    /\ IF clst \in Links
       THEN \E w \in CASE fs_type = "FAT12" -> Put12(clst, val)
                       [] fs_type = "FAT16" -> Put16(clst, val)
                       [] fs_type = "FAT32" -> Put32(clst, val) :
              Becomes(w) /\ Answer("put_fat", clst, Result(w), val)
       ELSE Becomes(Window) /\ Answer("put_fat", clst, "FR_INT_ERR", val)
    /\ UNCHANGED <<fs_type, fsi_flag>>

\* A link read: the value, and the window afterwards.
Read(w, val) == [w |-> w, val |-> val]

\* A DWORD of some digits of a sector, from a position on.
Fetched(sector, pos, n) == [k \in 0..7 |-> IF k < n THEN sector[pos + k] ELSE 0]

Get12(clst) ==
  LET bc  == clst + clst \div 2
      odd == clst % 2
      Merged(first, second) ==
        [k \in 0..7 |-> IF k <= 1 - odd THEN first[2 * (bc % SS) + odd + k]
                        ELSE IF k <= 2 THEN second[2 * ((bc + 1) % SS) + k - 2 + odd]
                        ELSE 0]
      Second(v) == {Read(u, IF u.ok THEN Merged(v.win, u.win) ELSE Zero) :
                      u \in move_window(v, fatbase + (bc + 1) \div SS)}
  IN  UNION {IF v.ok THEN Second(v) ELSE {Read(v, Zero)} :
               v \in move_window(Window, fatbase + bc \div SS)}

Get16(clst) ==
  {Read(v, IF v.ok THEN Fetched(v.win, 2 * ((clst * 2) % SS), 4) ELSE Zero) :
     v \in move_window(Window, fatbase + clst \div (SS \div 2))}

Get32(clst) ==
  {Read(v, IF v.ok THEN Fetched(v.win, 2 * ((clst * 4) % SS), 7) ELSE Zero) :
     v \in move_window(Window, fatbase + clst \div (SS \div 4))}

get_fat ==
  \E clst \in Clusters :
    /\ IF clst \in Links
       THEN \E r \in CASE fs_type = "FAT12" -> Get12(clst)
                       [] fs_type = "FAT16" -> Get16(clst)
                       [] fs_type = "FAT32" -> Get32(clst) :
              Becomes(r.w) /\ Answer("get_fat", clst, Result(r.w), r.val)
       ELSE Becomes(Window) /\ Answer("get_fat", clst, "FR_INT_ERR", Zero)
    /\ UNCHANGED <<fs_type, fsi_flag>>

-----------------------------------------------------------------------------
(* What else uses the window.                                                *)

\* create_chain and remove_chain have changed the number of free clusters.
Counted ==
  /\ fsi_flag' = IF fsi_flag \in {128, 129} THEN 129 ELSE 1
  /\ UNCHANGED <<disk, win, winsect, wflag, fs_type, unsure, answer>>

\* An entry of a directory is changed: dir_register, dir_remove, f_sync.
ChangeEntry ==
  \E sect \in Table : \E v \in move_window(Window, sect), content \in Contents :
    /\ Becomes(IF v.ok THEN [v EXCEPT !.win = content, !.wflag = TRUE] ELSE v)
    /\ Answer("change", sect, Result(v), Zero)
    /\ UNCHANGED <<fs_type, fsi_flag>>

\* An entry is read.
LookAtEntry ==
  \E sect \in Table : \E v \in move_window(Window, sect) :
    /\ Becomes(v)
    /\ Answer("look", sect, Result(v), Zero)
    /\ UNCHANGED <<fs_type, fsi_flag>>

\* The window is taken for the first sector of a new table; the sectors are
\* written one by one until one fails.
Cleared(w, sect, n) ==
  [w EXCEPT !.win = Blank, !.winsect = sect, !.ok = (n = csize),
            !.disk = [s \in Sectors |-> IF s \in sect..(sect + n - 1) THEN Blank ELSE w.disk[s]],
            !.unsure = IF n = csize THEN w.unsure \ (sect..(sect + csize - 1))
                       ELSE w.unsure \cup (sect..(sect + csize - 1))]

dir_clear ==
  \E sect \in Table, n \in (IF DiskFaults THEN 0..csize ELSE {csize}) :
    \E v \in sync_window(Window) :
      LET w == IF v.ok THEN Cleared(v, sect, n) ELSE v IN
        /\ sect + csize - 1 <= LastSector
        /\ Becomes(w) /\ Answer("dir_clear", sect, Result(w), Zero)
        /\ UNCHANGED <<fs_type, fsi_flag>>

\* FSInfo is made in the window; whether its write works is not asked.
WithInfo(w) ==
  IF fs_type = "FAT32" /\ fsi_flag = 1
  THEN UNION {LET v == [w EXCEPT !.win = info, !.winsect = FSInfo] IN
                {Put(v, FSInfo, info)} \cup Faulty(Lost(v, FSInfo)) : info \in Contents}
  ELSE {w}

sync_fs ==
  \E v \in sync_window(Window) :
    IF v.ok
    THEN \E u \in WithInfo(v) :
           /\ Becomes(u)
           /\ fsi_flag' = IF fs_type = "FAT32" /\ fsi_flag = 1 THEN 0 ELSE fsi_flag
           /\ \/ Answer("sync_fs", 0, "FR_OK", Zero)
              \/ DiskFaults /\ Answer("sync_fs", 0, "FR_DISK_ERR", Zero)
           /\ UNCHANGED fs_type
    ELSE Becomes(v) /\ Answer("sync_fs", 0, "FR_DISK_ERR", Zero) /\ UNCHANGED <<fs_type, fsi_flag>>

\* What the window shows at the end of mount_volume, and fsi_flag: the boot sector,
\* or FSInfo, which a volume may not have and which may not be readable.
Mounted ==
  {<<0, 128>>} \cup (IF fs_type = "FAT32" THEN {<<FSInfo, 0>>} \cup Faulty(<<Nowhere, 128>>) ELSE {})

\* The volume is mounted again: check_fs forgets what the window holds.
mount_volume ==
  \E m \in Mounted :
    /\ winsect' = m[1] /\ fsi_flag' = m[2] /\ wflag' = FALSE
    /\ win' = disk[IF m[1] = Nowhere THEN 0 ELSE m[1]]
    /\ Answer("mount_volume", 0, "FR_OK", Zero)
    /\ UNCHANGED <<disk, fs_type, unsure>>

-----------------------------------------------------------------------------
Init ==
  /\ disk = Formatted /\ fs_type \in Types /\ wflag = FALSE
  /\ \E m \in Mounted :
       winsect = m[1] /\ fsi_flag = m[2] /\ win = Formatted[IF m[1] = Nowhere THEN 0 ELSE m[1]]
  /\ unsure = {}
  /\ answer = [call |-> "mount_volume", at |-> 0, res |-> "FR_OK", val |-> Zero]

Next ==
  \/ put_fat \/ get_fat \/ Counted \/ ChangeEntry \/ LookAtEntry \/ dir_clear
  \/ sync_fs \/ mount_volume

Spec == Init /\ [][Next]_vars

-----------------------------------------------------------------------------
TypeOK ==
  /\ disk \in [Sectors -> Sector] /\ win \in Sector
  /\ winsect \in Volume \cup {Nowhere} /\ wflag \in BOOLEAN
  /\ fs_type \in Types /\ fsi_flag \in {0, 1, 128, 129}
  /\ unsure \subseteq Sectors
  /\ answer.res \in {"FR_OK", "FR_DISK_ERR", "FR_INT_ERR"} /\ answer.val \in DWORD

\* The second FAT is the first one, but where a write to it has failed, which the
\* code does not ask (ff.c:1038): the first's last change may be in the window alone,
\* never on the medium alone.
CopiesAgree ==
  n_fats = 2 => \A s \in FirstFAT : s + fsize \in unsure \/ disk[s + fsize] = disk[s]

\* A window that is not dirty, and is left without a write, shows what the disk has.
CleanWindow == wflag \/ winsect \in unsure \cup {Nowhere} \/ win = disk[winsect]

\* The window, the disk and the two tables agree after whatever was refused.
WindowIsConsistent ==
  TypeOK /\ CopiesAgree /\ CleanWindow /\ (wflag => winsect # Nowhere) /\ unsure \cap FirstFAT = {}

Image == [s \in Volume |-> IF s = winsect THEN win ELSE disk[s]]

VI == INSTANCE VolumeImage WITH
        FAT <- FirstFAT, image <- Image, stored <- [s \in Volume |-> disk[s]],
        unsure <- unsure \ SecondFAT

\* The volume looks as if each call had changed it in place (ff.c:1212): a link is
\* put whole and alone wherever its digits lie, and nothing a call has changed is
\* lost when the window moves, when the drive refuses, or by the next one's change;
\* after a sync_fs answered FR_OK it is not lost by a new mount either.
IsVolumeImage == VI!Spec
=============================================================================
