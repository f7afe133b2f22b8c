---------------------------- MODULE SectorStore ----------------------------
(***************************************************************************)
(* What the block device below FatFs promises it (diskio.h), request by    *)
(* request for one sector: a sector holds what was last written to it, and *)
(* a read returns what the sector holds.                                   *)
(***************************************************************************)
EXTENDS Integers

CONSTANTS NumSectors,   \* a natural number: sectors are 0 .. NumSectors-1
          Values        \* what a sector can hold

VARIABLES contents,     \* sector -> value
          answer,       \* the last sector read, and the value returned
          failed        \* a transfer has failed, and nothing is promised any more

vars == <<contents, answer, failed>>

LBAs == 0..(NumSectors - 1)

Init ==
  /\ contents \in [LBAs -> Values]
  /\ answer = <<>>
  /\ failed = FALSE

Write ==
  /\ \E lba \in LBAs, v \in Values : contents' = [contents EXCEPT ![lba] = v]
  /\ UNCHANGED <<answer, failed>>

Read ==
  /\ \E lba \in LBAs : answer' = <<lba, contents[lba]>>
  /\ UNCHANGED <<contents, failed>>

Fail == failed'

Next == Write \/ Read \/ Fail

Spec == Init /\ [][Next]_vars
=============================================================================
