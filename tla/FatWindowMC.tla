---------------------------- MODULE FatWindowMC ----------------------------
(***************************************************************************)
(* FatWindow for TLC: sectors of four bytes, so that the links 2 and 5 of  *)
(* a FAT12 volume lie in two sectors each, an even one and an odd one.     *)
(***************************************************************************)
EXTENDS FatWindow

LinkCounts == [FAT12 |-> 6, FAT16 |-> 6, FAT32 |-> 3]

\* The links that are put are free at first; their neighbours end chains.
Digits12 == {6, 7, 8, 15, 16, 17}
SomeFiles ==
  [s \in Sectors |->
     LET t == IF s \in FirstFAT THEN s - fatbase ELSE s - fatbase - fsize IN
     IF s \in FirstFAT \cup SecondFAT
     THEN [p \in Positions |-> IF t * 2 * SS + p \in Digits12 THEN 0 ELSE 15] ELSE Blank]

OneTwoThree == [k \in 0..7 |-> IF k % 3 = 0 THEN 1 ELSE IF k % 3 = 1 THEN 2 ELSE 3]
TwoValues   == {Zero, OneTwoThree}

Full        == [p \in Positions |-> 1]
TwoContents == {Full}

\* No step reads the answer, a window without a sector, or the second FAT: what it
\* has where a write to it failed is in no property either.
Disk == [s \in Sectors |-> IF s \in SecondFAT \cap unsure THEN Blank ELSE disk[s]]

Relevant == <<Disk, IF winsect = Nowhere THEN Blank ELSE win, winsect, wflag, fs_type, fsi_flag,
              unsure>>
=============================================================================
