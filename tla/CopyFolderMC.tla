---------------------------- MODULE CopyFolderMC ----------------------------
(***************************************************************************)
(* CopyFolder for TLC: a folder with two files and a folder with a third.  *)
(***************************************************************************)
EXTENDS CopyFolder

CONSTANTS tmd, app, cert, code, title   \* model values

TitleDir  == [f \in {tmd, app, cert} |-> IF f = cert THEN code ELSE title]
TitleUp   == [d \in {code} |-> title]
TitleSize == [f \in {tmd, app, cert} |-> IF f = app THEN 2 ELSE 1]
=============================================================================
