----------------------------- MODULE CopyFolder -----------------------------
(***************************************************************************)
(* copyFolder, enumerateFatFsDirectory and copyFile (fs.cpp): a folder is  *)
(* copied file by file, then folder by folder, into a destination that may *)
(* hold what an earlier call, or another title, has left there.            *)
(*                                                                         *)
(* Every call of the file system is an action and may fail.  The copy of   *)
(* an open stream into another, by one thread or by two, is one action     *)
(* with the outcomes StreamCopy allows; the two threads may also hang.     *)
(* A file's content is abstracted to how much of it there is, and to       *)
(* whether it comes from this source.                                      *)
(***************************************************************************)
EXTENDS Integers, Sequences, FiniteSets

CONSTANTS Files, Folders,  \* of the source, entries that are skipped left out
          Root,            \* the folder copyFolder is called for
          Dir,             \* file -> its folder
          Up,              \* folder but the root -> its folder
          Size,            \* file -> its size
          Large,           \* the files copied by two threads
          MaxDirs,         \* how many directories can be open at once
          MaxCalls,        \* bound: how often copyFolder is called
          Leftovers,       \* the sizes files of other titles may have in the destination
          Faults           \* may calls of the file system fail?

\* Every folder is somewhere below Root: what holds of Root, and of the folders in
\* a folder it holds of, holds of all of them.
AllBelowRoot ==
  \A D \in SUBSET Folders :
    (Root \in D /\ \A d \in Folders \ {Root} : Up[d] \in D => d \in D) => D = Folders

ASSUME CopyFolderAssumption ==
  /\ Files # {} /\ Root \in Folders
  /\ Dir \in [Files -> Folders]
  /\ Up \in [Folders \ {Root} -> Folders]
  /\ AllBelowRoot
  /\ Size \in [Files -> Nat]
  /\ Large \subseteq Files
  /\ MaxDirs \in Nat /\ MaxCalls \in Nat /\ Leftovers \subseteq Nat
  /\ Faults \in BOOLEAN

VARIABLES
  dst,          \* file -> [size, ours]: what the destination has of it
  made,         \* the folders the destination has
  stack,        \* the frames of copyFolder: [dir, files, folders], top first
  pc, file,     \* copyFolder's and copyFile's place; copyFile's file
  pending, ret, \* what dstFile was given so far; copyFile's ret
  open,         \* the FILEs that are open: "src", "dst"
  openDirs,     \* the DIRs that are open
  calls, result,\* how often copyFolder was called; what it returned
  fault,        \* auxiliary: a call has failed during this copyFolder
  dropped       \* auxiliary: files copyFile gave up and reported as copied

place   == <<stack, pc, file>>
streams == <<pending, ret, open>>
ghosts  == <<fault, dropped>>
vars == <<dst, made, place, streams, openDirs, calls, result, ghosts>>

Absent == -1

FilesIn(d)   == {f \in Files : Dir[f] = d}
FoldersIn(d) == {d2 \in Folders \ {Root} : Up[d2] = d}

Frame(d) == [dir |-> d, files |-> {}, folders |-> {}]
Top      == stack[1]

May == Faults /\ fault' = TRUE

-----------------------------------------------------------------------------
(* copyFolder.                                                               *)

Call ==
  /\ pc = "idle" /\ calls < MaxCalls
  /\ calls' = calls + 1
  /\ stack' = <<Frame(Root)>>
  /\ pc' = "opendir"
  /\ fault' = FALSE /\ dropped' = {}
  /\ UNCHANGED <<dst, made, file, streams, openDirs, result>>

\* One frame after the other returns false.
ReturnFalse ==
  /\ stack' = <<>>
  /\ result' = FALSE
  /\ pc' = "idle"

\* The directory is opened, never to be read or closed.
Opendir ==
  /\ pc = "opendir"
  /\ \/ /\ openDirs < MaxDirs
        /\ openDirs' = openDirs + 1
        /\ pc' = "mkdir"
        /\ UNCHANGED <<stack, result, fault>>
     \/ /\ openDirs = MaxDirs /\ UNCHANGED fault
        /\ ReturnFalse /\ UNCHANGED openDirs
     \/ May /\ ReturnFalse /\ UNCHANGED openDirs
  /\ UNCHANGED <<dst, made, file, streams, calls, dropped>>

\* Mutant: a folder that exists is an error.
Mkdir_Strict ==
  /\ pc = "mkdir"
  /\ IF Top.dir \in made
     THEN ReturnFalse /\ UNCHANGED made
     ELSE made' = made \cup {Top.dir} /\ pc' = "enumerate" /\ UNCHANGED <<stack, result>>
  /\ UNCHANGED <<dst, file, streams, openDirs, calls, ghosts>>

\* A folder that exists already will do.
Mkdir ==
  /\ pc = "mkdir"
  /\ \/ /\ made' = made \cup {Top.dir}
        /\ pc' = "enumerate"
        /\ UNCHANGED <<stack, result, fault>>
     \/ May /\ ReturnFalse /\ UNCHANGED made
  /\ UNCHANGED <<dst, file, streams, openDirs, calls, dropped>>

\* enumerateFatFsDirectory opens it once more, reads it and does not close it.
Enumerate ==
  /\ pc = "enumerate"
  /\ \/ /\ openDirs < MaxDirs
        /\ openDirs' = openDirs + 1
        /\ stack' = <<[Top EXCEPT !.files = FilesIn(Top.dir),
                                  !.folders = FoldersIn(Top.dir)]>> \o Tail(stack)
        /\ pc' = "next"
        /\ UNCHANGED <<result, fault>>
     \/ /\ openDirs = MaxDirs /\ UNCHANGED <<openDirs, fault>>
        /\ ReturnFalse
     \/ /\ May
        /\ openDirs' \in openDirs..MaxDirs /\ openDirs' <= openDirs + 1
        /\ ReturnFalse
  /\ UNCHANGED <<dst, made, file, streams, calls, dropped>>

\* Mutant: a file is copied again and again.
NextFile_Keeps ==
  /\ pc = "next"
  /\ file' \in Top.files
  /\ ret' = TRUE
  /\ pc' = "stat_src"
  /\ UNCHANGED <<dst, made, stack, pending, open, openDirs, calls, result, ghosts>>

NextFile ==
  /\ pc = "next"
  /\ \E f \in Top.files :
       /\ file' = f
       /\ stack' = <<[Top EXCEPT !.files = @ \ {f}]>> \o Tail(stack)
  /\ ret' = TRUE
  /\ pc' = "stat_src"
  /\ UNCHANGED <<dst, made, pending, open, openDirs, calls, result, ghosts>>

NextFolder ==
  /\ pc = "next" /\ Top.files = {}
  /\ \E d \in Top.folders :
       stack' = <<Frame(d), [Top EXCEPT !.folders = @ \ {d}]>> \o Tail(stack)
  /\ pc' = "opendir"
  /\ UNCHANGED <<dst, made, file, streams, openDirs, calls, result, ghosts>>

ReturnTrue ==
  /\ pc = "next" /\ Top.files = {} /\ Top.folders = {}
  /\ stack' = Tail(stack)
  /\ IF Len(stack) = 1
     THEN pc' = "idle" /\ result' = TRUE
     ELSE UNCHANGED <<pc, result>>
  /\ UNCHANGED <<dst, made, file, streams, openDirs, calls, ghosts>>

-----------------------------------------------------------------------------
(* copyFile.                                                                 *)

\* goto cleanup with ret still true: the file counts as copied.
Drop(next) ==
  /\ May
  /\ dropped' = dropped \cup {file}
  /\ pc' = next

StatSrc ==
  /\ pc = "stat_src"
  /\ \/ pc' = "stat_dst" /\ UNCHANGED ghosts
     \/ Drop("next")
  /\ UNCHANGED <<dst, made, stack, file, streams, openDirs, calls, result>>

\* Mutant: any file that exists is skipped.
SameSize_Exists == dst[file].size # Absent

SameSize == dst[file].size = Size[file]

\* "If already exists, skip copying"
StatDst ==
  /\ pc = "stat_dst"
  /\ \/ pc' = (IF SameSize THEN "next" ELSE "fopen_src") /\ UNCHANGED ghosts
     \/ Drop("next")
  /\ UNCHANGED <<dst, made, stack, file, streams, openDirs, calls, result>>

FopenSrc ==
  /\ pc = "fopen_src"
  /\ \/ open' = {"src"} /\ pc' = "fopen_dst" /\ UNCHANGED ghosts
     \/ Drop("next") /\ UNCHANGED open
  /\ UNCHANGED <<dst, made, stack, file, pending, ret, openDirs, calls, result>>

\* It empties the file.
FopenDst ==
  /\ pc = "fopen_dst"
  /\ \/ /\ open' = open \cup {"dst"}
        /\ dst' = [dst EXCEPT ![file] = [size |-> 0, ours |-> TRUE]]
        /\ pc' = "copy"
        /\ UNCHANGED ghosts
     \/ Drop("fclose") /\ UNCHANGED <<dst, open>>
  /\ pending' = 0
  /\ UNCHANGED <<made, stack, file, ret, openDirs, calls, result>>

\* What has reached the file, of the n units dstFile was given.
Reached(n) ==
  \E k \in dst[file].size..n : dst' = [dst EXCEPT ![file].size = k]

\* copyFileSinglethreaded or copyFileThreaded, as StreamCopy promises it: all of
\* the file and true, or some of it and false.
Copy ==
  /\ pc = "copy"
  /\ \/ /\ pending' = Size[file]
        /\ UNCHANGED <<ret, fault>>
     \/ /\ May
        /\ pending' \in 0..Size[file]
        /\ ret' = FALSE
  /\ Reached(pending')
  /\ pc' = "fclose"
  /\ UNCHANGED <<made, stack, file, open, openDirs, calls, result, dropped>>

\* CopyPipeline: with a failed write the two threads may never come to an end.
CopyHangs ==
  /\ pc = "copy" /\ file \in Large
  /\ May
  /\ \E n \in 0..Size[file] : Reached(n)
  /\ pc' = "hung"
  /\ UNCHANGED <<made, stack, file, streams, openDirs, calls, result, dropped>>

\* Mutant: the streams are closed only if the copy has worked.
Fclose_OnSuccess ==
  /\ pc = "fclose"
  /\ open' = IF ret THEN {} ELSE open
  /\ dst' = IF "dst" \in open THEN [dst EXCEPT ![file].size = pending] ELSE dst
  /\ IF ret THEN pc' = "next" /\ UNCHANGED <<stack, result>> ELSE ReturnFalse
  /\ UNCHANGED <<made, file, pending, ret, openDirs, calls, ghosts>>

\* What dstFile still holds is written now, and nobody asks whether it was.
Fclose ==
  /\ pc = "fclose"
  /\ open' = {}
  /\ \/ /\ dst' = IF "dst" \in open THEN [dst EXCEPT ![file].size = pending] ELSE dst
        /\ UNCHANGED ghosts
     \/ /\ "dst" \in open /\ dst[file].size < pending
        /\ Reached(pending - 1)
        /\ May
        /\ dropped' = dropped \cup {file}
  /\ IF ret THEN pc' = "next" /\ UNCHANGED <<stack, result>> ELSE ReturnFalse
  /\ UNCHANGED <<made, file, pending, ret, openDirs, calls>>

-----------------------------------------------------------------------------
Init ==
  /\ dst \in [Files -> [size : {Absent} \cup Leftovers, ours : {FALSE}]]
  /\ made = {}
  /\ stack = <<>> /\ pc = "idle"
  /\ file = CHOOSE f \in Files : TRUE
  /\ pending = 0 /\ ret = TRUE /\ open = {} /\ openDirs = 0
  /\ calls = 0 /\ result = TRUE
  /\ fault = FALSE /\ dropped = {}

Next ==
  \/ Call \/ Opendir \/ Mkdir \/ Enumerate \/ NextFile \/ NextFolder \/ ReturnTrue
  \/ StatSrc \/ StatDst \/ FopenSrc \/ FopenDst \/ Copy \/ CopyHangs \/ Fclose

Spec == Init /\ [][Next]_vars

\* The thread that copies is scheduled; nobody needs to call again.
FairSpec == Spec /\ WF_vars(Next /\ pc # "idle")

-----------------------------------------------------------------------------
Whole(f) == dst[f].size = Size[f] /\ (dst[f].ours \/ Size[f] = 0)

TypeOK ==
  /\ \A f \in Files : /\ dst[f].size \in {Absent} \cup Leftovers \cup 0..Size[f]
                       /\ dst[f].ours \in BOOLEAN
  /\ made \subseteq Folders
  /\ Len(stack) <= Cardinality(Folders)
  /\ \A k \in 1..Len(stack) :
       stack[k] \in [dir : Folders, files : SUBSET Files, folders : SUBSET Folders]
  /\ pc \in {"idle", "opendir", "mkdir", "enumerate", "next", "stat_src", "stat_dst",
             "fopen_src", "fopen_dst", "copy", "fclose", "hung"}
  /\ file \in Files /\ pending \in Nat /\ ret \in BOOLEAN
  /\ open \subseteq {"src", "dst"} /\ openDirs \in 0..MaxDirs
  /\ calls \in 0..MaxCalls /\ result \in BOOLEAN
  /\ fault \in BOOLEAN /\ dropped \subseteq Files

Returned == pc = "idle" /\ calls > 0

\* When copyFolder returns true the destination has all of the source, except
\* for the files copyFile dropped; a call after one that failed half way repairs
\* what that one left.  The size is all that is compared, so a file of another
\* title may stand for one of the same size.
TrueMeansCopied ==
  Returned /\ result => \A f \in Files : dst[f].size = Size[f] \/ f \in dropped

\* copyFile closes what it has opened, on each of its ways out.
FilesClosed == pc \notin {"fopen_dst", "copy", "fclose", "hung"} => open = {}

\* If no call of the file system has failed, copyFolder returns false only when
\* no directory can be opened any more: two handles are lost for each folder.
FailsForCause == Returned /\ ~result => fault \/ openDirs = MaxDirs

\* copyFolder returns, or hangs with the two threads of copyFileThreaded.
ReturnsOrHangs == pc # "idle" ~> pc \in {"idle", "hung"}

\* copyFolder returns true only of a folder that has been copied: its callers
\* have a message for the other case, "Copy operation failed".
TrueMeansWhole == Returned /\ result => \A f \in Files : Whole(f)
=============================================================================
