----------------------------- MODULE FatFilesMC -----------------------------
(* A small volume: one file that everything is done to, and one that breaks it up. *)
EXTENDS FatFiles, TLC

CONSTANTS f1, f2, Longest

MCMaxSize == f1 :> Longest @@ f2 :> 2
MCUses == f1 :> Calls @@ f2 :> {"write"}
=============================================================================
