----------------------------- MODULE VolumeImage -----------------------------
(***************************************************************************)
(* What FatFs relies on when it reads and writes the sectors of a volume   *)
(* one at a time: the volume looks as if each change had been made in      *)
(* place, to the digits it is about and to no other.  The table of links   *)
(* is a row of numbers of three, four or eight hexadecimal digits.         *)
(*                                                                         *)
(* What the medium has may be older, until a sync is answered FR_OK; a new *)
(* mount finds that.  A failed call changes nothing, but a link it was     *)
(* about to put may have some of its digits.  Of a sector outside the      *)
(* table in which a write failed nothing is promised before the next one.  *)
(***************************************************************************)
EXTENDS Integers

CONSTANTS SS,         \* bytes in a sector
          fatbase,    \* the first sector of the table
          FAT, FSInfo, Volume,   \* its sectors, the sector of the counts, all sectors
          Positions,  \* of the digits in a sector
          csize,      \* sectors in a cluster
          n_fatent    \* the number of links for each type of volume

VARIABLES fs_type,
          image,      \* sector -> position -> digit, as a reader finds it
          stored,     \* the same, as the next mount finds it
          unsure,     \* sectors in which a write failed
          answer      \* of the last call: its name, what it was about, result and link

vars == <<fs_type, image, stored, unsure, answer>>

Width == CASE fs_type = "FAT12" -> 3 [] fs_type = "FAT16" -> 4 [] fs_type = "FAT32" -> 8

\* The upper four bits of a FAT32 link are reserved.
Digits == CASE fs_type = "FAT12" -> 0..2 [] fs_type = "FAT16" -> 0..3 [] fs_type = "FAT32" -> 0..6

\* Where the digit k of the link of clst is; the lower one of a byte comes first.
Place(clst, k) ==
  LET digit == Width * clst + k
      byte  == digit \div 2
  IN  <<fatbase + byte \div SS, 2 * (byte % SS) + (digit % 2)>>

Links == 2..(n_fatent[fs_type] - 1)

At(place) == image[place[1]][place[2]]

LinkOf(clst) ==
  [k \in 0..7 |-> IF k \in Digits THEN At(Place(clst, k)) ELSE 0]

-----------------------------------------------------------------------------
Known == Volume \ (unsure \cup unsure')

Same(s) == image'[s] = image[s]

\* Any of the sectors may reach the medium meanwhile.
Settles == \A s \in Known : stored'[s] \in {stored[s], image[s], image'[s]}

Call(name, results) == answer'.call = name /\ answer'.res \in results

\* A link is put, and nothing else: all of it, or, in a call that fails, some digits.
Put ==
  \E clst \in Links :
    LET places == {Place(clst, k) : k \in Digits} IN
      /\ Call("put_fat", {"FR_OK", "FR_DISK_ERR"}) /\ answer'.at = clst
      /\ \A k \in Digits :
           \/ At(Place(clst, k))' = answer'.val[k]
           \/ answer'.res # "FR_OK" /\ At(Place(clst, k))' = At(Place(clst, k))
      /\ \A s \in Known :
           Same(s) \/ \A p \in Positions : <<s, p>> \in places \/ image'[s][p] = image[s][p]

Get ==
  /\ Call("get_fat", {"FR_OK"}) /\ answer'.at \in Links
  /\ answer'.val = LinkOf(answer'.at)
  /\ \A s \in Known : Same(s)

\* A sector of a directory is read, or changed, or those of a whole cluster are
\* cleared.
Look == Call("look", {"FR_OK"}) /\ \A s \in Known : Same(s)

Change ==
  /\ Call("change", {"FR_OK"}) /\ answer'.at \in Volume \ FAT
  /\ \A s \in Known \ {answer'.at} : Same(s)

Clear ==
  LET cluster == answer'.at..(answer'.at + csize - 1) IN
    /\ Call("dir_clear", {"FR_OK"}) /\ cluster \cap FAT = {}
    /\ \A s \in Known : IF s \in cluster THEN \A p \in Positions : image'[s][p] = 0
                        ELSE Same(s)

\* What FSInfo counts is brought up to date on the way.
Sync ==
  /\ Call("sync_fs", {"FR_OK"})
  /\ \A s \in Known : stored'[s] = image'[s] /\ (s = FSInfo \/ Same(s))

Refuse ==
  /\ answer'.res # "FR_OK"
  /\ \A s \in Known : Same(s) \/ (answer'.call = "sync_fs" /\ s = FSInfo)

Mount ==
  /\ Call("mount_volume", {"FR_OK"})
  /\ \A s \in Known : image'[s] = stored[s] /\ stored'[s] = stored[s]

Init ==
  /\ fs_type \in {"FAT12", "FAT16", "FAT32"}
  /\ stored = image
  /\ unsure = {}

Next ==
  /\ UNCHANGED fs_type
  /\ unsure' \cap FAT = {}
  /\ \/ Mount
     \/ Settles /\ (Refuse \/ Get \/ Put \/ Look \/ Change \/ Clear \/ Sync)

Spec == Init /\ [][Next]_vars
==============================================================================
