---------------------------- MODULE ExtUsbFileMC ----------------------------
(* ExtUsbFile for TLC: the distances to seek by.                             *)
EXTENDS ExtUsbFile

\* Backwards, nowhere, and forwards.
SmallSeeks == {-1, 0, 2}
=============================================================================
