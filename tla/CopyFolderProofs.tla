-------------------------- MODULE CopyFolderProofs --------------------------
(***************************************************************************)
(* Proofs about CopyFolder, for every tree of folders and files, and every *)
(* way its calls may fail: what copyFolder's answer means, and that        *)
(* copyFile closes what it opens.                                          *)
(*                                                                         *)
(* copyFolder's answer is about all folders, and its frames only know      *)
(* their own: the invariant Progress says which folders are behind it (D), *)
(* and that all that the frames have still to do is listed in them.  A     *)
(* file, once copied or given up, stays so (GoodStays), though copyFile    *)
(* empties what it is about to write.                                      *)
(***************************************************************************)
EXTENDS CopyFolder, TLAPS, SequenceTheorems

FrameSet == [dir : Folders, files : SUBSET Files, folders : SUBSET Folders]

InCopyFile == {"stat_src", "stat_dst", "fopen_src", "fopen_dst", "copy", "fclose"}
Entering   == {"opendir", "mkdir", "enumerate"}

Typed ==
  /\ dst \in [Files -> [size : Int, ours : BOOLEAN]]
  /\ stack \in Seq(FrameSet)
  /\ pc \in {"idle", "next", "hung"} \cup InCopyFile \cup Entering
  /\ file \in Files /\ pending \in Nat
  /\ openDirs \in 0..MaxDirs /\ dropped \subseteq Files

\* The frames: a folder's caller is the folder it is in, up to Root.
Frames ==
  /\ pc # "idle" => stack # <<>>
  /\ stack # <<>> => stack[Len(stack)].dir = Root
  /\ \A k \in 1..Len(stack) : \A d \in stack[k].folders :
       d # Root /\ Up[d] = stack[k].dir

\* Where copyFile is with its file.
Streams ==
  /\ pc \in {"fopen_src", "fopen_dst"} => dst[file].size # Size[file]
  /\ pc = "copy" => dst[file].size = 0
  /\ pc = "fclose" /\ "dst" \in open => dst[file].size <= pending /\ pending <= Size[file]
  /\ pc = "fclose" /\ ret => \/ file \in dropped
                            \/ ("dst" \in open /\ pending = Size[file])
  /\ FilesClosed
  /\ pc = "copy" => "dst" \in open
  /\ pc = "fopen_dst" => "dst" \notin open

\* An answer of false has its cause.
Causes ==
  /\ pc \in InCopyFile \ {"fclose"} => ret
  /\ pc = "fclose" /\ ~ret => fault
  /\ pc = "idle" /\ ~result => fault \/ openDirs = MaxDirs

\* A file needs no more work.
Good(x) == dst[x].size = Size[x] \/ x \in dropped

\* All of D has been copied, and the rest of the folders being copied is listed.
Progress(D) ==
  /\ \A x \in Files : Dir[x] \in D => Good(x)
  /\ \A d \in Folders \ {Root} : Up[d] \in D => d \in D
  /\ \A k \in 1..Len(stack) : (k > 1 \/ pc \notin Entering) =>
       /\ \A x \in Files : Dir[x] = stack[k].dir =>
            \/ Good(x) \/ x \in stack[k].files
            \/ (k = 1 /\ x = file /\ pc \in InCopyFile)
       /\ \A d \in Folders \ {Root} : Up[d] = stack[k].dir =>
            \/ d \in D \/ d \in stack[k].folders
            \/ (k > 1 /\ d = stack[k - 1].dir)

UnderWay == pc \notin {"idle", "hung"} => \E D \in SUBSET Folders : Progress(D)

IInv == Typed /\ Frames /\ Streams /\ Causes /\ UnderWay /\ TrueMeansCopied

-----------------------------------------------------------------------------
(* The stack of frames.                                                      *)

\* The frame on top is replaced.
LEMMA ReplaceTop ==
  ASSUME NEW S, NEW q \in Seq(S), q # <<>>, NEW b \in S
  PROVE  LET r == <<b>> \o Tail(q) IN
         /\ r \in Seq(S) /\ Len(r) = Len(q) /\ Len(q) \in Nat \ {0}
         /\ r[1] = b /\ \A k \in 2..Len(q) : r[k] = q[k]
<1> DEFINE t == Tail(q)
<1>1. /\ Len(q) \in Nat \ {0} /\ t \in Seq(S) /\ Len(t) = Len(q) - 1
      /\ \A k \in 1..(Len(q) - 1) : t[k] = q[k + 1]
  BY EmptySeq, HeadTailProperties
<1>2. <<b>> \in Seq(S) /\ Len(<<b>>) = 1 /\ <<b>>[1] = b
  OBVIOUS
<1> HIDE DEF t
<1> DEFINE r == <<b>> \o t
<1>3. /\ r \in Seq(S) /\ Len(r) = 1 + Len(t)
      /\ \A k \in 1..(1 + Len(t)) : r[k] = IF k <= 1 THEN <<b>>[k] ELSE t[k - 1]
  BY <1>1, <1>2, ConcatProperties
<1> HIDE DEF r
<1>4. r[1] = b
  BY <1>1, <1>2, <1>3
<1>5. ASSUME NEW k \in 2..Len(q) PROVE r[k] = q[k]
  <2>1. k \in 1..(1 + Len(t)) /\ ~(k <= 1) /\ k - 1 \in 1..(Len(q) - 1) /\ (k - 1) + 1 = k
    BY <1>1
  <2>2. r[k] = t[k - 1] /\ t[k - 1] = q[(k - 1) + 1]
    BY <1>1, <1>3, <2>1
  <2> QED BY <2>1, <2>2
<1> QED BY <1>1, <1>3, <1>4, <1>5 DEF r, t

\* It is replaced and gets another one on top.
LEMMA PushOver ==
  ASSUME NEW S, NEW q \in Seq(S), q # <<>>, NEW a \in S, NEW b \in S
  PROVE  LET r == <<a, b>> \o Tail(q) IN
         /\ r \in Seq(S) /\ Len(r) = Len(q) + 1 /\ Len(q) \in Nat \ {0}
         /\ r[1] = a /\ r[2] = b /\ \A k \in 3..(Len(q) + 1) : r[k] = q[k - 1]
<1> DEFINE t == Tail(q)
<1>1. /\ Len(q) \in Nat \ {0} /\ t \in Seq(S) /\ Len(t) = Len(q) - 1
      /\ \A k \in 1..(Len(q) - 1) : t[k] = q[k + 1]
  BY EmptySeq, HeadTailProperties
<1>2. <<a, b>> \in Seq(S) /\ Len(<<a, b>>) = 2 /\ <<a, b>>[1] = a /\ <<a, b>>[2] = b
  OBVIOUS
<1> HIDE DEF t
<1> DEFINE r == <<a, b>> \o t
<1>3. /\ r \in Seq(S) /\ Len(r) = 2 + Len(t)
      /\ \A k \in 1..(2 + Len(t)) : r[k] = IF k <= 2 THEN <<a, b>>[k] ELSE t[k - 2]
  BY <1>1, <1>2, ConcatProperties
<1> HIDE DEF r
<1>4. r[1] = a /\ r[2] = b
  BY <1>1, <1>2, <1>3
<1>5. ASSUME NEW k \in 3..(Len(q) + 1) PROVE r[k] = q[k - 1]
  <2>1. k \in 1..(2 + Len(t)) /\ ~(k <= 2) /\ k - 2 \in 1..(Len(q) - 1) /\ (k - 2) + 1 = k - 1
    BY <1>1
  <2>2. r[k] = t[k - 2] /\ t[k - 2] = q[(k - 2) + 1]
    BY <1>1, <1>3, <2>1
  <2> QED BY <2>1, <2>2
<1> QED BY <1>1, <1>3, <1>4, <1>5 DEF r, t

\* It is taken off.
LEMMA Pop ==
  ASSUME NEW S, NEW q \in Seq(S), q # <<>>
  PROVE  /\ Tail(q) \in Seq(S) /\ Len(Tail(q)) = Len(q) - 1 /\ Len(q) \in Nat \ {0}
         /\ \A k \in 1..(Len(q) - 1) : Tail(q)[k] = q[k + 1]
         /\ Len(q) # 1 => Tail(q) # <<>>
         /\ Len(q) = 1 => Tail(q) = <<>>
<1>1. /\ Len(q) \in Nat \ {0} /\ Tail(q) \in Seq(S) /\ Len(Tail(q)) = Len(q) - 1
      /\ \A k \in 1..(Len(q) - 1) : Tail(q)[k] = q[k + 1]
  BY EmptySeq, HeadTailProperties
<1>2. Len(q) # 1 => Tail(q) # <<>>
  BY <1>1, EmptySeq
<1>3. ASSUME Len(q) = 1 PROVE Tail(q) = <<>>
  <2> DEFINE t == Tail(q)
  <2>1. t \in Seq(S) /\ Len(t) = 0
    BY <1>1, <1>3
  <2> HIDE DEF t
  <2>2. t = <<>>
    BY <2>1, EmptySeq
  <2> QED BY <2>2 DEF t
<1> QED BY <1>1, <1>2, <1>3

-----------------------------------------------------------------------------
(* copyFile.                                                                 *)

\* copyFile goes on with its file, or leaves it behind in order.
LEMMA SameFrames ==
  ASSUME IInv, UNCHANGED <<stack, file>>, pc \in InCopyFile,
         pc' \in InCopyFile \cup {"next"}, pc' = "next" => Good(file)',
         \A x \in Files : Good(x) => Good(x)'
  PROVE  Frames' /\ UnderWay' /\ TrueMeansCopied'
<1>1. pc # "idle" /\ pc' # "idle" /\ pc \notin Entering /\ pc' \notin Entering /\ pc # "hung"
  BY DEF InCopyFile, Entering
<1>2. Frames'
  BY <1>1 DEF IInv, Frames
<1>3. TrueMeansCopied'
  BY <1>1 DEF TrueMeansCopied, Returned
<1>4. PICK D \in SUBSET Folders : Progress(D)
  BY <1>1 DEF IInv, UnderWay
<1>5. Progress(D)'
  <2>1. \A x \in Files : Dir[x] \in D => Good(x)'
    BY <1>4 DEF Progress
  <2>2. ASSUME NEW k \in 1..Len(stack), NEW x \in Files, Dir[x] = stack[k].dir
        PROVE  \/ Good(x)' \/ x \in stack[k].files
               \/ (k = 1 /\ x = file /\ pc' \in InCopyFile)
    BY <1>1, <1>4, <2>2 DEF Progress
  <2>3. \A k \in 1..Len(stack) : \A d \in Folders \ {Root} : Up[d] = stack[k].dir =>
          d \in D \/ d \in stack[k].folders \/ (k > 1 /\ d = stack[k - 1].dir)
    BY <1>1, <1>4 DEF Progress
  <2> QED BY <1>4, <2>1, <2>2, <2>3 DEF Progress
<1> QED BY <1>2, <1>3, <1>5 DEF UnderWay

\* stat of the source and of the destination.
LEMMA StatKeeps == IInv /\ (StatSrc \/ StatDst) => IInv'
<1> SUFFICES ASSUME IInv, StatSrc \/ StatDst PROVE IInv'
  OBVIOUS
<1>1. /\ pc \in InCopyFile \ {"fclose"} /\ pc' \in InCopyFile \cup {"next"}
      /\ pc' \in {"stat_dst", "next", "fopen_src"}
      /\ UNCHANGED <<dst, stack, file, pending, ret, open, openDirs, calls, result>>
      /\ dropped' \in {dropped, dropped \cup {file}}
      /\ pc' = "next" => file \in dropped' \/ dst[file].size = Size[file]
      /\ pc' = "fopen_src" => dst[file].size # Size[file]
      /\ open = {}
  BY DEF IInv, Streams, FilesClosed, StatSrc, StatDst, Drop, SameSize, InCopyFile, streams, ghosts
<1>2. \A x \in Files : Good(x) => Good(x)'
  BY <1>1 DEF Good
<1>3. Typed'
  BY <1>1 DEF IInv, Typed
<1>4. pc' = "next" => Good(file)'
  BY <1>1 DEF Good
<1>5. Streams'
  BY <1>1 DEF Streams, FilesClosed
<1>6. Causes'
  BY <1>1 DEF IInv, Causes
<1>7. Frames' /\ UnderWay' /\ TrueMeansCopied'
  BY <1>1, <1>2, <1>4, SameFrames
<1> QED BY <1>3, <1>5, <1>6, <1>7 DEF IInv

\* fopen of the source, and of the destination, which it empties.
LEMMA FopenKeeps == IInv /\ (FopenSrc \/ FopenDst) => IInv'
<1> SUFFICES ASSUME IInv, FopenSrc \/ FopenDst PROVE IInv'
  OBVIOUS
<1>0. /\ file \in Files /\ Size[file] \in Nat /\ dst[file].size # Size[file]
      /\ dst \in [Files -> [size : Int, ours : BOOLEAN]] /\ dropped \subseteq Files /\ ret
  BY CopyFolderAssumption DEF IInv, Typed, Streams, Causes, FopenSrc, FopenDst, InCopyFile
<1>1. CASE FopenSrc
  <2>1. /\ pc = "fopen_src" /\ pc' \in {"fopen_dst", "next"}
        /\ UNCHANGED <<dst, stack, file, pending, ret, openDirs, calls, result>>
        /\ dropped' \in {dropped, dropped \cup {file}}
        /\ pc' = "next" => file \in dropped' /\ open' = open
        /\ pc' = "fopen_dst" => open' = {"src"}
        /\ open = {}
    BY <1>1 DEF IInv, Streams, FilesClosed, FopenSrc, Drop, ghosts
  <2>2. (\A x \in Files : Good(x) => Good(x)') /\ (pc' = "next" => Good(file)')
    BY <2>1 DEF Good
  <2>3. Typed'
    BY <2>1 DEF IInv, Typed, InCopyFile
  <2>4. Streams' /\ Causes'
    BY <1>0, <2>1 DEF Streams, FilesClosed, Causes, InCopyFile
  <2>5. Frames' /\ UnderWay' /\ TrueMeansCopied'
    BY <2>1, <2>2, SameFrames DEF InCopyFile
  <2> QED BY <2>3, <2>4, <2>5 DEF IInv
<1>2. CASE FopenDst
  <2>1. /\ pc = "fopen_dst" /\ pc' \in {"copy", "fclose"} /\ pending' = 0
        /\ UNCHANGED <<stack, file, ret, openDirs, calls, result>>
        /\ dropped' \in {dropped, dropped \cup {file}}
        /\ pc' = "copy" => /\ dst' = [dst EXCEPT ![file] = [size |-> 0, ours |-> TRUE]]
                           /\ "dst" \in open'
        /\ pc' = "fclose" => file \in dropped' /\ dst' = dst /\ open' = open
        /\ "dst" \notin open
    BY <1>2 DEF IInv, Streams, FopenDst, Drop, ghosts
  <2>2. dst' \in [Files -> [size : Int, ours : BOOLEAN]]
    <3>1. [size |-> 0, ours |-> TRUE] \in [size : Int, ours : BOOLEAN]
      OBVIOUS
    <3>2. CASE pc' = "copy"
      BY <1>0, <2>1, <3>1, <3>2
    <3>3. CASE pc' = "fclose"
      BY <1>0, <2>1, <3>3
    <3> QED BY <2>1, <3>2, <3>3
  <2>3. \A x \in Files : Good(x) => Good(x)'
    BY <1>0, <2>1 DEF Good
  <2>4. Typed'
    BY <2>1, <2>2 DEF IInv, Typed, InCopyFile
  <2>5. pc' = "copy" => dst'[file].size = 0
    BY <1>0, <2>1
  <2>6. Streams' /\ Causes'
    BY <1>0, <2>1, <2>5 DEF Streams, FilesClosed, Causes, InCopyFile
  <2>7. Frames' /\ UnderWay' /\ TrueMeansCopied'
    BY <2>1, <2>3, SameFrames DEF InCopyFile
  <2> QED BY <2>4, <2>6, <2>7 DEF IInv
<1> QED BY <1>1, <1>2

\* The streams are copied, or the two threads hang.
LEMMA CopyKeeps == IInv /\ (Copy \/ CopyHangs) => IInv'
<1> SUFFICES ASSUME IInv, Copy \/ CopyHangs PROVE IInv'
  OBVIOUS
<1>0. /\ file \in Files /\ Size[file] \in Nat /\ dst[file].size = 0 /\ "dst" \in open
      /\ dst \in [Files -> [size : Int, ours : BOOLEAN]] /\ dropped \subseteq Files
      /\ pc = "copy" /\ ret
  BY CopyFolderAssumption DEF IInv, Typed, Streams, Causes, Copy, CopyHangs, InCopyFile
<1>1. CASE Copy
  <2>1. /\ pc' = "fclose" /\ pending' \in 0..Size[file]
        /\ UNCHANGED <<stack, file, open, openDirs, calls, result, dropped>>
        /\ \/ pending' = Size[file] /\ ret' = ret
           \/ ret' = FALSE /\ fault' = TRUE
    <3>1. /\ pc' = "fclose"
          /\ UNCHANGED <<stack, file, open, openDirs, calls, result, dropped>>
      BY <1>1 DEF Copy
    <3>2. \/ pending' = Size[file] /\ ret' = ret
          \/ pending' \in 0..Size[file] /\ ret' = FALSE /\ fault' = TRUE
      BY <1>1, Zenon DEF Copy, May
    <3>3. pending' \in 0..Size[file]
      <4>1. pending' = Size[file] \/ pending' \in 0..Size[file]
        BY <3>2, Zenon
      <4>2. Size[file] \in Nat
        BY <1>0
      <4> QED BY <4>1, <4>2
    <3> QED BY <3>1, <3>2, <3>3
  <2>2. PICK k \in 0..pending' : dst' = [dst EXCEPT ![file].size = k]
    BY <1>0, <1>1 DEF Copy, Reached
  <2>3. dst' \in [Files -> [size : Int, ours : BOOLEAN]]
    BY <1>0, <2>1, <2>2
  <2>4. dst'[file].size = k /\ \A x \in Files \ {file} : dst'[x] = dst[x]
    BY <1>0, <2>2
  <2>5. \A x \in Files : Good(x) => Good(x)'
    BY <1>0, <2>1, <2>4 DEF Good
  <2>6. Typed'
    BY <1>0, <2>1, <2>3 DEF IInv, Typed, InCopyFile
  <2>7. Streams'
    <3>1. dst'[file].size <= pending' /\ pending' <= Size[file]
      BY <1>0, <2>1, <2>4
    <3>2. ret' => pending' = Size[file]
      BY <2>1
    <3> QED BY <1>0, <2>1, <3>1, <3>2 DEF Streams, FilesClosed
  <2>9. Causes'
    BY <1>0, <2>1 DEF Causes
  <2>8. Frames' /\ UnderWay' /\ TrueMeansCopied'
    BY <1>0, <2>1, <2>5, SameFrames DEF InCopyFile
  <2> QED BY <2>6, <2>7, <2>8, <2>9 DEF IInv
<1>2. CASE CopyHangs
  <2>1. /\ pc' = "hung"
        /\ UNCHANGED <<stack, file, pending, ret, open, openDirs, calls, result, dropped>>
        /\ \E k \in Int : dst' = [dst EXCEPT ![file].size = k]
    <3>1. PICK n \in 0..Size[file] : Reached(n)
      BY <1>2 DEF CopyHangs
    <3>2. PICK k \in 0..n : dst' = [dst EXCEPT ![file].size = k]
      BY <1>0, <3>1 DEF Reached
    <3>3. k \in Int
      <4>1. Size[file] \in Nat
        BY <1>0
      <4> QED BY <4>1
    <3>4. /\ pc' = "hung"
          /\ UNCHANGED <<stack, file, pending, ret, open, openDirs, calls, result, dropped>>
      BY <1>2 DEF CopyHangs, streams
    <3> QED BY <3>2, <3>3, <3>4
  <2>2. dst' \in [Files -> [size : Int, ours : BOOLEAN]]
    BY <1>0, <2>1
  <2>3. Typed'
    BY <2>1, <2>2 DEF IInv, Typed
  <2>4. Frames'
    BY <1>0, <2>1 DEF IInv, Frames
  <2>5. Streams' /\ Causes' /\ UnderWay' /\ TrueMeansCopied'
    BY <2>1 DEF Streams, FilesClosed, Causes, InCopyFile, UnderWay, TrueMeansCopied, Returned
  <2> QED BY <2>3, <2>4, <2>5 DEF IInv
<1> QED BY <1>1, <1>2

\* One frame after the other returns false.
LEMMA FalseKeeps ==
  ASSUME IInv, ReturnFalse, Typed', open' = {}, fault' \/ openDirs' = MaxDirs
  PROVE  IInv'
<1>1. stack' = <<>> /\ pc' = "idle" /\ result' = FALSE
  BY DEF ReturnFalse
<1>2. Frames'
  BY <1>1 DEF Frames
<1>3. Streams' /\ Causes' /\ UnderWay' /\ TrueMeansCopied'
  BY <1>1 DEF Streams, FilesClosed, Causes, InCopyFile, UnderWay, TrueMeansCopied, Returned
<1> QED BY <1>2, <1>3 DEF IInv

\* The streams are closed, and what is left is written or lost.
LEMMA FcloseKeeps == IInv /\ Fclose => IInv'
<1> SUFFICES ASSUME IInv, Fclose PROVE IInv'
  OBVIOUS
<1>0. /\ file \in Files /\ Size[file] \in Nat /\ pc = "fclose" /\ pending \in Nat
      /\ dst \in [Files -> [size : Int, ours : BOOLEAN]] /\ dropped \subseteq Files
      /\ dst[file].size \in Int
      /\ "dst" \in open => dst[file].size <= pending /\ pending <= Size[file]
      /\ ret => file \in dropped \/ ("dst" \in open /\ pending = Size[file])
      /\ ~ret => fault
  BY CopyFolderAssumption DEF IInv, Typed, Streams, Causes, Fclose
<1>1. /\ open' = {}
      /\ UNCHANGED <<file, pending, ret, openDirs, calls>>
      /\ dropped' \in {dropped, dropped \cup {file}}
      /\ \/ dropped' = dropped /\ fault' = fault
         \/ file \in dropped' /\ fault' = TRUE
  BY DEF Fclose, ghosts, May
<1>2. /\ dst' \in [Files -> [size : Int, ours : BOOLEAN]]
      /\ \A x \in Files \ {file} : dst'[x] = dst[x]
      /\ \/ "dst" \notin open /\ dst' = dst
         \/ "dst" \in open /\ dst'[file].size = pending
         \/ "dst" \in open /\ dst[file].size < pending /\ file \in dropped'
  <2>1. CASE dst' = IF "dst" \in open THEN [dst EXCEPT ![file].size = pending] ELSE dst
    BY <1>0, <2>1
  <2>2. CASE "dst" \in open /\ dst[file].size < pending /\ Reached(pending - 1)
             /\ file \in dropped'
    <3>1. PICK k \in dst[file].size..(pending - 1) : dst' = [dst EXCEPT ![file].size = k]
      BY <2>2 DEF Reached
    <3>2. k \in Int
      BY <1>0
    <3> QED BY <1>0, <2>2, <3>1, <3>2
  <2> QED BY <2>1, <2>2 DEF Fclose
<1>3. \A x \in Files : Good(x) => Good(x)'
  BY <1>0, <1>1, <1>2 DEF Good
<1>4. ret => Good(file)'
  BY <1>0, <1>1, <1>2 DEF Good
<1>5. CASE ret
  <2>1. pc' = "next" /\ UNCHANGED <<stack, result>>
    BY <1>5 DEF Fclose
  <2>2. Typed'
    BY <1>1, <1>2, <2>1 DEF IInv, Typed
  <2>3. Streams' /\ Causes'
    BY <1>1, <2>1 DEF Streams, FilesClosed, Causes, InCopyFile
  <2>4. Frames' /\ UnderWay' /\ TrueMeansCopied'
    BY <1>0, <1>1, <1>3, <1>4, <1>5, <2>1, SameFrames DEF InCopyFile
  <2> QED BY <2>2, <2>3, <2>4 DEF IInv
<1>6. CASE ~ret
  <2>1. ReturnFalse /\ fault'
    <3>1. ReturnFalse
      BY <1>6 DEF Fclose
    <3>2. fault' = fault \/ fault' = TRUE
      BY <1>1
    <3> QED BY <1>0, <1>6, <3>1, <3>2, Zenon
  <2>2. stack' \in Seq(FrameSet)
    BY <2>1, EmptySeq DEF ReturnFalse
  <2>3. Typed'
    BY <1>1, <1>2, <2>1, <2>2 DEF IInv, Typed, ReturnFalse
  <2> QED BY <1>1, <2>1, <2>3, FalseKeeps
<1> QED BY <1>5, <1>6

-----------------------------------------------------------------------------
(* copyFolder.                                                               *)

\* Nothing has been called yet.
LEMMA InitHolds == Init => IInv
<1> SUFFICES ASSUME Init PROVE IInv
  OBVIOUS
<1>1. /\ pc = "idle" /\ stack = <<>> /\ open = {} /\ openDirs = 0 /\ dropped = {}
      /\ result = TRUE /\ calls = 0 /\ pending = 0
  BY DEF Init
<1>2. dst \in [Files -> [size : Int, ours : BOOLEAN]]
  <2>1. {Absent} \cup Leftovers \subseteq Int
    BY CopyFolderAssumption DEF Absent
  <2>2. ASSUME NEW e \in [size : {Absent} \cup Leftovers, ours : {FALSE}]
        PROVE  e \in [size : Int, ours : BOOLEAN]
    BY <2>1
  <2> QED BY <2>2 DEF Init
<1>3. file \in Files
  BY CopyFolderAssumption DEF Init
<1>4. stack \in Seq(FrameSet)
  BY <1>1, EmptySeq
<1>5. Typed
  BY <1>1, <1>2, <1>3, <1>4, CopyFolderAssumption DEF Typed
<1>6. Frames
  BY <1>1 DEF Frames
<1>7. Streams /\ Causes /\ UnderWay /\ TrueMeansCopied
  BY <1>1 DEF Streams, FilesClosed, Causes, InCopyFile, UnderWay, TrueMeansCopied, Returned
<1> QED BY <1>5, <1>6, <1>7 DEF IInv

\* A call starts with one frame, and nothing behind it.
LEMMA CallKeeps == IInv /\ Call => IInv'
<1> SUFFICES ASSUME IInv, Call PROVE IInv'
  OBVIOUS
<1>1. /\ pc = "idle" /\ pc' = "opendir" /\ stack' = <<Frame(Root)>> /\ dropped' = {}
      /\ UNCHANGED <<dst, file, pending, open, openDirs>>
      /\ open = {}
  BY DEF Call, streams, IInv, Streams, FilesClosed
<1>2. Frame(Root) \in FrameSet /\ Frame(Root).dir = Root /\ Frame(Root).folders = {}
  BY CopyFolderAssumption DEF Frame, FrameSet
<1>3. /\ stack' \in Seq(FrameSet) /\ Len(stack') = 1 /\ stack'[1] = Frame(Root)
      /\ stack' # <<>>
  BY <1>1, <1>2
<1>4. Typed'
  BY <1>1, <1>3 DEF IInv, Typed, Entering
<1>5. Frames'
  BY <1>1, <1>2, <1>3 DEF Frames
<1>6. Progress({})'
  BY <1>1, <1>3 DEF Progress, Entering
<1>7. UnderWay'
  BY <1>6 DEF UnderWay
<1>8. Streams' /\ Causes' /\ TrueMeansCopied'
  BY <1>1 DEF Streams, FilesClosed, Causes, InCopyFile, TrueMeansCopied, Returned
<1> QED BY <1>4, <1>5, <1>7, <1>8 DEF IInv

\* The directory is opened, and made.
LEMMA EnterKeeps == IInv /\ (Opendir \/ Mkdir) => IInv'
<1> SUFFICES ASSUME IInv, Opendir \/ Mkdir PROVE IInv'
  OBVIOUS
<1>1. /\ pc \in {"opendir", "mkdir"} /\ open = {}
      /\ UNCHANGED <<dst, file, pending, ret, open, calls, dropped>>
      /\ openDirs' \in 0..MaxDirs
  BY CopyFolderAssumption
  DEF Opendir, Mkdir, streams, May, IInv, Typed, Streams, FilesClosed, ReturnFalse
<1>2. CASE ReturnFalse /\ (fault' \/ openDirs' = MaxDirs)
  <2>1. stack' \in Seq(FrameSet)
    BY <1>2, EmptySeq DEF ReturnFalse
  <2>2. Typed'
    BY <1>1, <1>2, <2>1 DEF IInv, Typed, ReturnFalse
  <2> QED BY <1>1, <1>2, <2>2, FalseKeeps
<1>3. CASE pc' \in {"mkdir", "enumerate"} /\ UNCHANGED <<stack, result, fault>>
  <2>1. Typed'
    BY <1>1, <1>3 DEF IInv, Typed, Entering
  <2>2. Frames'
    BY <1>1, <1>3 DEF IInv, Frames
  <2>3. Streams' /\ Causes' /\ TrueMeansCopied'
    BY <1>1, <1>3 DEF Streams, FilesClosed, Causes, InCopyFile, TrueMeansCopied, Returned
  <2>4. PICK D \in SUBSET Folders : Progress(D)
    BY <1>1 DEF IInv, UnderWay
  <2>5. Progress(D)'
    BY <1>1, <1>3, <2>4 DEF Progress, Entering, InCopyFile, Good
  <2>6. UnderWay'
    BY <2>5 DEF UnderWay
  <2> QED BY <2>1, <2>2, <2>3, <2>6 DEF IInv
<1>4. \/ ReturnFalse /\ (fault' \/ openDirs' = MaxDirs)
      \/ pc' \in {"mkdir", "enumerate"} /\ UNCHANGED <<stack, result, fault>>
  <2>1. CASE Opendir
    BY <2>1, Zenon DEF Opendir, May
  <2>2. CASE Mkdir
    BY <2>2, Zenon DEF Mkdir, May
  <2> QED BY <2>1, <2>2
<1> QED BY <1>2, <1>3, <1>4

\* Another frame on top for the same folder, with no more to do than is listed.
LEMMA NewTop ==
  ASSUME IInv, NEW b \in FrameSet, stack' = <<b>> \o Tail(stack), stack # <<>>,
         b.dir = Top.dir, \A d \in b.folders : d # Root /\ Up[d] = b.dir,
         pc \notin {"idle", "hung"}, pc' # "idle", pc' \notin Entering,
         UNCHANGED <<dst, dropped>>,
         \A D \in SUBSET Folders : Progress(D) =>
           /\ \A x \in Files : Dir[x] = b.dir =>
                \/ Good(x) \/ x \in b.files
                \/ (x = file' /\ pc' \in InCopyFile)
           /\ \A d \in Folders \ {Root} : Up[d] = b.dir => d \in D \/ d \in b.folders
  PROVE  stack' \in Seq(FrameSet) /\ Frames' /\ UnderWay'
<1>1. /\ stack' \in Seq(FrameSet) /\ Len(stack') = Len(stack) /\ Len(stack) \in Nat \ {0}
      /\ stack'[1] = b /\ \A k \in 2..Len(stack) : stack'[k] = stack[k]
  BY ReplaceTop DEF IInv, Typed
<1>2. \A k \in 1..Len(stack) : k = 1 \/ k \in 2..Len(stack)
  BY <1>1
<1>3. \A k \in 1..Len(stack) : stack'[k].dir = stack[k].dir
  BY <1>1, <1>2 DEF Top
<1>4. Frames'
  <2>1. stack' # <<>>
    BY <1>1, EmptySeq
  <2>2. stack'[Len(stack')].dir = Root
    BY <1>1, <1>3 DEF IInv, Frames
  <2>3. ASSUME NEW k \in 1..Len(stack), NEW d \in stack'[k].folders
        PROVE  d # Root /\ Up[d] = stack'[k].dir
    BY <1>1, <1>2, <2>3 DEF IInv, Frames
  <2> QED BY <1>1, <2>1, <2>2, <2>3 DEF Frames
<1>5. PICK D \in SUBSET Folders : Progress(D)
  BY DEF IInv, UnderWay
<1>6. Progress(D)'
  <2>1. \A x \in Files : Dir[x] \in D => Good(x)'
    BY <1>5 DEF Progress, Good
  <2>2. ASSUME NEW k \in 1..Len(stack), NEW x \in Files, Dir[x] = stack'[k].dir
        PROVE  \/ Good(x)' \/ x \in stack'[k].files
               \/ (k = 1 /\ x = file' /\ pc' \in InCopyFile)
    <3>1. CASE k = 1
      BY <1>1, <1>5, <2>2, <3>1 DEF Good
    <3>2. CASE k \in 2..Len(stack)
      <4>1. k > 1 /\ k # 1 /\ stack'[k] = stack[k]
        BY <1>1, <3>2
      <4> QED BY <1>5, <2>2, <4>1 DEF Progress, Good
    <3> QED BY <1>2, <3>1, <3>2
  <2>3. ASSUME NEW k \in 1..Len(stack), NEW d \in Folders \ {Root}, Up[d] = stack'[k].dir
        PROVE  \/ d \in D \/ d \in stack'[k].folders
               \/ (k > 1 /\ d = stack'[k - 1].dir)
    <3>1. CASE k = 1
      BY <1>1, <1>5, <2>3, <3>1
    <3>2. CASE k \in 2..Len(stack)
      <4>1. k > 1 /\ stack'[k] = stack[k] /\ k - 1 \in 1..Len(stack)
        BY <1>1, <3>2
      <4>2. stack'[k - 1].dir = stack[k - 1].dir
        BY <1>3, <4>1
      <4>3. d \in D \/ d \in stack[k].folders \/ d = stack[k - 1].dir
        BY <1>5, <2>3, <4>1 DEF Progress
      <4> QED BY <4>1, <4>2, <4>3
    <3> QED BY <1>2, <3>1, <3>2
  <2> QED BY <1>1, <1>5, <2>1, <2>2, <2>3 DEF Progress
<1> QED BY <1>1, <1>4, <1>6 DEF UnderWay

\* What is in the folder is listed.
LEMMA EnumerateKeeps == IInv /\ Enumerate => IInv'
<1> SUFFICES ASSUME IInv, Enumerate PROVE IInv'
  OBVIOUS
<1>1. /\ pc = "enumerate" /\ open = {}
      /\ UNCHANGED <<dst, file, pending, ret, open, calls, dropped>>
      /\ openDirs' \in 0..MaxDirs
  BY CopyFolderAssumption DEF Enumerate, streams, May, IInv, Typed, Streams, FilesClosed
<1>2. CASE ReturnFalse /\ (fault' \/ openDirs' = MaxDirs)
  <2>1. stack' \in Seq(FrameSet)
    BY <1>2, EmptySeq DEF ReturnFalse
  <2>2. Typed'
    BY <1>1, <1>2, <2>1 DEF IInv, Typed, ReturnFalse
  <2> QED BY <1>1, <1>2, <2>2, FalseKeeps
<1> DEFINE b == [Top EXCEPT !.files = FilesIn(Top.dir), !.folders = FoldersIn(Top.dir)]
<1>3. CASE stack' = <<b>> \o Tail(stack) /\ pc' = "next" /\ UNCHANGED <<result, fault>>
  <2>1. stack # <<>> /\ Top \in FrameSet
    BY <1>1, EmptySeq, ElementOfSeq DEF IInv, Typed, Frames, Top
  <2>2. /\ b \in FrameSet /\ b.dir = Top.dir
        /\ b.files = FilesIn(Top.dir) /\ b.folders = FoldersIn(Top.dir)
    BY <2>1 DEF FrameSet, FilesIn, FoldersIn
  <2> HIDE DEF b
  <2>3. stack' \in Seq(FrameSet) /\ Frames' /\ UnderWay'
    BY <1>1, <1>3, <2>1, <2>2, NewTop DEF FilesIn, FoldersIn, Entering
  <2>4. Typed'
    BY <1>1, <1>3, <2>3 DEF IInv, Typed
  <2>5. Streams' /\ Causes' /\ TrueMeansCopied'
    BY <1>1, <1>3 DEF Streams, FilesClosed, Causes, InCopyFile, TrueMeansCopied, Returned
  <2> QED BY <2>3, <2>4, <2>5 DEF IInv
<1>4. \/ ReturnFalse /\ (fault' \/ openDirs' = MaxDirs)
      \/ stack' = <<b>> \o Tail(stack) /\ pc' = "next" /\ UNCHANGED <<result, fault>>
  BY Zenon DEF Enumerate, May
<1> QED BY <1>2, <1>3, <1>4

\* The next file is taken from the list.
LEMMA NextFileKeeps == IInv /\ NextFile => IInv'
<1> SUFFICES ASSUME IInv, NextFile PROVE IInv'
  OBVIOUS
<1>1. PICK x \in Top.files :
        /\ file' = x /\ stack' = <<[Top EXCEPT !.files = @ \ {x}]>> \o Tail(stack)
  BY DEF NextFile
<1>2. /\ pc = "next" /\ pc' = "stat_src" /\ ret' = TRUE /\ open = {}
      /\ UNCHANGED <<dst, pending, open, openDirs, dropped>>
  BY DEF NextFile, ghosts, IInv, Streams, FilesClosed
<1> DEFINE b == [Top EXCEPT !.files = @ \ {x}]
<1>3. stack # <<>> /\ Top \in FrameSet /\ 1 \in 1..Len(stack) /\ Top = stack[1]
  BY <1>2, EmptySeq, ElementOfSeq DEF IInv, Typed, Frames, Top
<1>4. /\ b \in FrameSet /\ b.dir = Top.dir
      /\ b.files = Top.files \ {x} /\ b.folders = Top.folders /\ x \in Files
  BY <1>3 DEF FrameSet
<1>5. stack' = <<b>> \o Tail(stack)
  BY <1>1
<1> HIDE DEF b
<1>6. \A d \in b.folders : d # Root /\ Up[d] = b.dir
  BY <1>3, <1>4 DEF IInv, Frames
<1>7. ASSUME NEW D \in SUBSET Folders, Progress(D)
      PROVE  /\ \A y \in Files : Dir[y] = b.dir =>
                  Good(y) \/ y \in b.files \/ (y = file' /\ pc' \in InCopyFile)
             /\ \A d \in Folders \ {Root} : Up[d] = b.dir => d \in D \/ d \in b.folders
  <2>1. pc \notin Entering /\ pc \notin InCopyFile /\ pc' \in InCopyFile /\ ~(1 > 1)
    BY <1>2 DEF Entering, InCopyFile
  <2> QED BY <1>1, <1>3, <1>4, <1>7, <2>1 DEF Progress
<1>8. stack' \in Seq(FrameSet) /\ Frames' /\ UnderWay'
  BY <1>2, <1>3, <1>4, <1>5, <1>6, <1>7, NewTop DEF Entering
<1>9. Typed'
  BY <1>1, <1>2, <1>4, <1>8 DEF IInv, Typed, InCopyFile
<1>10. Streams' /\ Causes' /\ TrueMeansCopied'
  BY <1>2 DEF Streams, FilesClosed, Causes, InCopyFile, TrueMeansCopied, Returned
<1> QED BY <1>8, <1>9, <1>10 DEF IInv
\* The next folder is taken from the list, and gets a frame.
LEMMA NextFolderKeeps == IInv /\ NextFolder => IInv'
<1> SUFFICES ASSUME IInv, NextFolder PROVE IInv'
  OBVIOUS
<1>1. PICK c \in Top.folders :
        stack' = <<Frame(c), [Top EXCEPT !.folders = @ \ {c}]>> \o Tail(stack)
  BY DEF NextFolder
<1>2. /\ pc = "next" /\ pc' = "opendir" /\ Top.files = {} /\ open = {}
      /\ UNCHANGED <<dst, file, pending, ret, open, openDirs, dropped>>
  BY DEF NextFolder, streams, ghosts, IInv, Streams, FilesClosed
<1> DEFINE a == Frame(c)
           b == [Top EXCEPT !.folders = @ \ {c}]
<1>3. stack # <<>> /\ Top \in FrameSet /\ 1 \in 1..Len(stack) /\ Top = stack[1]
  BY <1>2, EmptySeq, ElementOfSeq DEF IInv, Typed, Frames, Top
<1>4. c # Root /\ Up[c] = Top.dir /\ c \in Folders
  BY <1>3 DEF IInv, Frames, FrameSet
<1>5. /\ a \in FrameSet /\ a.dir = c /\ a.folders = {}
      /\ b \in FrameSet /\ b.dir = Top.dir /\ b.files = {} /\ b.folders = Top.folders \ {c}
  BY <1>2, <1>3, <1>4 DEF FrameSet, Frame
<1>6. stack' = <<a, b>> \o Tail(stack)
  BY <1>1
<1> HIDE DEF a, b
<1>7. /\ stack' \in Seq(FrameSet) /\ Len(stack') = Len(stack) + 1 /\ Len(stack) \in Nat \ {0}
      /\ stack'[1] = a /\ stack'[2] = b
      /\ \A k \in 3..(Len(stack) + 1) : stack'[k] = stack[k - 1]
  BY <1>3, <1>5, <1>6, PushOver DEF IInv, Typed
<1>8. ASSUME NEW k \in 1..Len(stack')
      PROVE  \/ k = 1
             \/ k = 2
             \/ k \in 3..(Len(stack) + 1) /\ k - 1 \in 2..Len(stack) /\ k - 1 \in 1..Len(stack)
  BY <1>7
<1>9. Frames'
  <2>1. stack' # <<>>
    BY <1>7, EmptySeq
  <2>2. stack'[Len(stack')].dir = Root
    <3>1. stack[Len(stack)].dir = Root
      BY <1>3 DEF IInv, Frames
    <3>2. CASE Len(stack) = 1
      BY <1>3, <1>5, <1>7, <3>1, <3>2
    <3>3. CASE Len(stack) # 1
      <4>0. \A n \in Nat \ {0} : n # 1 => n + 1 \in 3..(n + 1) /\ (n + 1) - 1 = n
        OBVIOUS
      <4>1. Len(stack) + 1 \in 3..(Len(stack) + 1) /\ (Len(stack) + 1) - 1 = Len(stack)
        BY <1>7, <3>3, <4>0, Zenon
      <4>2. stack'[Len(stack) + 1] = stack[(Len(stack) + 1) - 1]
        BY <1>7, <4>1
      <4> QED BY <1>7, <3>1, <4>1, <4>2
    <3> QED BY <3>2, <3>3
  <2>3. ASSUME NEW k \in 1..Len(stack'), NEW d \in stack'[k].folders
        PROVE  d # Root /\ Up[d] = stack'[k].dir
    <3>1. CASE k = 1
      BY <1>5, <1>7, <2>3, <3>1
    <3>2. CASE k = 2
      BY <1>3, <1>5, <1>7, <2>3, <3>2 DEF IInv, Frames
    <3>3. CASE k \in 3..(Len(stack) + 1) /\ k - 1 \in 1..Len(stack)
      <4>1. stack'[k] = stack[k - 1]
        BY <1>7, <3>3
      <4> QED BY <2>3, <3>3, <4>1 DEF IInv, Frames
    <3> QED BY <1>8, <3>1, <3>2, <3>3
  <2> QED BY <2>1, <2>2, <2>3 DEF Frames
<1>10. PICK D \in SUBSET Folders : Progress(D)
  BY <1>2 DEF IInv, UnderWay
<1>11. pc \notin Entering /\ pc \notin InCopyFile /\ pc' \in Entering /\ ~(1 > 1)
  BY <1>2 DEF Entering, InCopyFile
<1>12. Progress(D)'
  <2>1. \A x \in Files : Dir[x] \in D => Good(x)'
    BY <1>2, <1>10 DEF Progress, Good
  <2>2. ASSUME NEW k \in 1..Len(stack'), k > 1, NEW x \in Files, Dir[x] = stack'[k].dir
        PROVE  Good(x)' \/ x \in stack'[k].files
    <3>1. CASE k = 2
      <4>1. Dir[x] = stack[1].dir
        BY <1>3, <1>5, <1>7, <2>2, <3>1
      <4>2. Good(x) \/ x \in stack[1].files
        BY <1>3, <1>10, <1>11, <4>1 DEF Progress
      <4> QED BY <1>2, <1>3, <4>2 DEF Good
    <3>2. CASE k \in 3..(Len(stack) + 1) /\ k - 1 \in 2..Len(stack) /\ k - 1 \in 1..Len(stack)
      <4>1. stack'[k] = stack[k - 1] /\ k - 1 > 1 /\ k - 1 # 1
        BY <1>7, <3>2
      <4>2. Good(x) \/ x \in stack[k - 1].files
        BY <1>10, <2>2, <3>2, <4>1 DEF Progress
      <4> QED BY <1>2, <4>1, <4>2 DEF Good
    <3>3. k # 1
      BY <2>2
    <3> QED BY <1>8, <3>1, <3>2, <3>3
  <2>3. ASSUME NEW k \in 1..Len(stack'), k > 1, NEW d \in Folders \ {Root},
               Up[d] = stack'[k].dir
        PROVE  d \in D \/ d \in stack'[k].folders \/ d = stack'[k - 1].dir
    <3>1. CASE k = 2
      <4>1. Up[d] = stack[1].dir
        BY <1>3, <1>5, <1>7, <2>3, <3>1
      <4>2. d \in D \/ d \in stack[1].folders
        BY <1>3, <1>10, <1>11, <4>1 DEF Progress
      <4>3. d \in stack[1].folders => d = c \/ d \in stack'[2].folders
        BY <1>3, <1>5, <1>7
      <4>4. k - 1 = 1 /\ stack'[1].dir = c
        BY <1>5, <1>7, <3>1
      <4> QED BY <3>1, <4>2, <4>3, <4>4
    <3>2. CASE k \in 3..(Len(stack) + 1) /\ k - 1 \in 2..Len(stack) /\ k - 1 \in 1..Len(stack)
      <4>1. stack'[k] = stack[k - 1] /\ k - 1 > 1
        BY <1>7, <3>2
      <4>2. d \in D \/ d \in stack[k - 1].folders \/ d = stack[(k - 1) - 1].dir
        BY <1>10, <2>3, <3>2, <4>1 DEF Progress
      <4>3. stack'[k - 1].dir = stack[(k - 1) - 1].dir
        <5>1. CASE k = 3
          BY <1>3, <1>5, <1>7, <5>1
        <5>2. CASE k # 3
          <6>1. k - 1 \in 3..(Len(stack) + 1)
            BY <1>7, <3>2, <5>2
          <6> QED BY <1>7, <6>1
        <5> QED BY <5>1, <5>2
      <4> QED BY <4>1, <4>2, <4>3
    <3>3. k # 1
      BY <2>3
    <3> QED BY <1>8, <3>1, <3>2, <3>3
  <2> QED BY <1>10, <1>11, <2>1, <2>2, <2>3 DEF Progress
<1>13. Typed' /\ UnderWay'
  BY <1>2, <1>7, <1>12 DEF IInv, Typed, UnderWay, Entering
<1>14. Streams' /\ Causes' /\ TrueMeansCopied'
  BY <1>2 DEF Streams, FilesClosed, Causes, InCopyFile, TrueMeansCopied, Returned
<1> QED BY <1>9, <1>13, <1>14 DEF IInv

\* A folder is done: it joins those behind copyFolder, and with Root they are all.
LEMMA ReturnTrueKeeps == IInv /\ ReturnTrue => IInv'
<1> SUFFICES ASSUME IInv, ReturnTrue PROVE IInv'
  OBVIOUS
<1>1. /\ pc = "next" /\ Top.files = {} /\ Top.folders = {} /\ stack' = Tail(stack)
      /\ UNCHANGED <<dst, file, pending, ret, open, openDirs, dropped>>
      /\ open = {}
  BY DEF ReturnTrue, streams, ghosts, IInv, Streams, FilesClosed
<1>2. stack # <<>> /\ Top \in FrameSet /\ 1 \in 1..Len(stack) /\ Top = stack[1]
  BY <1>1, EmptySeq, ElementOfSeq DEF IInv, Typed, Frames, Top
<1>3. /\ stack' \in Seq(FrameSet) /\ Len(stack') = Len(stack) - 1 /\ Len(stack) \in Nat \ {0}
      /\ \A k \in 1..(Len(stack) - 1) : stack'[k] = stack[k + 1]
      /\ Len(stack) # 1 => stack' # <<>>
      /\ Len(stack) = 1 => stack' = <<>>
  BY <1>1, <1>2, Pop DEF IInv, Typed
<1>4. pc' \in {"idle", "next"}
  BY <1>1 DEF ReturnTrue
<1>5. Typed'
  BY <1>1, <1>3, <1>4 DEF IInv, Typed
<1>6. PICK D \in SUBSET Folders : Progress(D)
  BY <1>1 DEF IInv, UnderWay
<1>7. pc \notin Entering /\ pc \notin InCopyFile /\ ~(1 > 1)
  BY <1>1 DEF Entering, InCopyFile
<1>0. PICK E \in SUBSET Folders : E = D \cup {Top.dir}
  BY <1>2 DEF FrameSet
<1>8. \A x \in Files : Dir[x] \in E => Good(x)
  <2>1. \A x \in Files : Dir[x] = stack[1].dir => Good(x)
    BY <1>1, <1>2, <1>6, <1>7 DEF Progress
  <2> QED BY <1>0, <1>2, <1>6, <2>1 DEF Progress
<1>9. \A d \in Folders \ {Root} : Up[d] \in E => d \in E
  <2>1. \A d \in Folders \ {Root} : Up[d] = stack[1].dir => d \in D
    BY <1>1, <1>2, <1>6, <1>7 DEF Progress
  <2> QED BY <1>0, <1>2, <1>6, <2>1 DEF Progress
<1>10. CASE Len(stack) = 1
  <2>1. pc' = "idle" /\ result' = TRUE /\ stack' = <<>>
    BY <1>3, <1>10 DEF ReturnTrue
  <2>2. Root \in E
    BY <1>0, <1>2, <1>10 DEF IInv, Frames
  <2>3. E = Folders
    BY <1>9, <2>2, CopyFolderAssumption DEF AllBelowRoot
  <2>4. \A x \in Files : Good(x)'
    BY <1>1, <1>8, <2>3, CopyFolderAssumption DEF Good
  <2>5. TrueMeansCopied'
    BY <2>4 DEF TrueMeansCopied, Good
  <2>6. Frames'
    BY <2>1 DEF Frames
  <2>7. Streams' /\ Causes' /\ UnderWay'
    BY <1>1, <2>1 DEF Streams, FilesClosed, Causes, InCopyFile, UnderWay
  <2> QED BY <1>5, <2>5, <2>6, <2>7 DEF IInv
<1>11. CASE Len(stack) # 1
  <2>1. pc' = "next" /\ UNCHANGED result /\ stack' # <<>>
    BY <1>1, <1>3, <1>11 DEF ReturnTrue
  <2>2. \A k \in 1..Len(stack') : /\ k + 1 \in 1..Len(stack) /\ k + 1 > 1 /\ k + 1 # 1
                                 /\ stack'[k] = stack[k + 1]
    BY <1>3
  <2>3. Frames'
    <3>1. stack'[Len(stack')].dir = Root
      <4>1. Len(stack') \in 1..(Len(stack) - 1) /\ Len(stack') + 1 = Len(stack)
        BY <1>3, <1>11
      <4>2. stack[Len(stack)].dir = Root
        BY <1>2 DEF IInv, Frames
      <4>3. stack'[Len(stack')] = stack[Len(stack') + 1]
        BY <1>3, <4>1
      <4> QED BY <4>1, <4>2, <4>3
    <3>2. ASSUME NEW k \in 1..Len(stack'), NEW d \in stack'[k].folders
          PROVE  d # Root /\ Up[d] = stack'[k].dir
      BY <2>2, <3>2 DEF IInv, Frames
    <3> QED BY <2>1, <3>1, <3>2 DEF Frames
  <2>4. ASSUME NEW k \in 1..Len(stack'), NEW x \in Files, Dir[x] = stack'[k].dir
        PROVE  Good(x)' \/ x \in stack'[k].files
    <3>1. Good(x) \/ x \in stack[k + 1].files
      BY <1>6, <2>2, <2>4 DEF Progress
    <3> QED BY <1>1, <2>2, <3>1 DEF Good
  <2>5. ASSUME NEW k \in 1..Len(stack'), NEW d \in Folders \ {Root}, Up[d] = stack'[k].dir
        PROVE  d \in E \/ d \in stack'[k].folders \/ (k > 1 /\ d = stack'[k - 1].dir)
    <3>1. d \in D \/ d \in stack[k + 1].folders \/ d = stack[(k + 1) - 1].dir
      BY <1>6, <2>2, <2>5 DEF Progress
    <3>2. CASE k = 1
      BY <1>0, <1>2, <2>2, <3>1, <3>2
    <3>3. CASE k # 1
      <4>1. k > 1 /\ k - 1 \in 1..Len(stack') /\ (k - 1) + 1 = (k + 1) - 1
        BY <1>3, <3>3
      <4>2. stack'[k - 1] = stack[(k - 1) + 1]
        BY <2>2, <4>1
      <4> QED BY <1>0, <2>2, <3>1, <4>1, <4>2
    <3> QED BY <3>2, <3>3
  <2>6. \A x \in Files : Dir[x] \in E => Good(x)'
    BY <1>1, <1>8 DEF Good
  <2>7. Progress(E)'
    BY <1>9, <2>4, <2>5, <2>6 DEF Progress
  <2>8. UnderWay'
    BY <2>7 DEF UnderWay
  <2>9. Streams' /\ Causes' /\ TrueMeansCopied'
    BY <1>1, <2>1 DEF Streams, FilesClosed, Causes, InCopyFile, TrueMeansCopied, Returned
  <2> QED BY <1>5, <2>3, <2>8, <2>9 DEF IInv
<1> QED BY <1>10, <1>11

-----------------------------------------------------------------------------
(* The theorems.                                                             *)

\* A step that changes nothing.
LEMMA StutterKeeps == IInv /\ UNCHANGED vars => IInv'
<1> SUFFICES ASSUME IInv, UNCHANGED vars PROVE IInv'
  OBVIOUS
<1>1. UNCHANGED <<dst, stack, pc, file, pending, ret, open, openDirs, calls, result,
                  fault, dropped>>
  BY DEF vars, place, streams, ghosts
<1>2. Typed' /\ Frames' /\ Streams' /\ Causes' /\ TrueMeansCopied'
  BY <1>1 DEF IInv, Typed, Frames, Streams, FilesClosed, Causes, TrueMeansCopied, Returned
<1>3. \A D \in SUBSET Folders : Progress(D) => Progress(D)'
  BY <1>1 DEF Progress, Good
<1>4. UnderWay'
  BY <1>1, <1>3 DEF IInv, UnderWay
<1> QED BY <1>2, <1>4 DEF IInv

\* Each step keeps the invariant.
LEMMA StepKeeps == IInv /\ [Next]_vars => IInv'
<1> QED
  BY CallKeeps, EnterKeeps, EnumerateKeeps, NextFileKeeps, NextFolderKeeps, ReturnTrueKeeps,
     StatKeeps, FopenKeeps, CopyKeeps, FcloseKeeps, StutterKeeps DEF Next

\* The invariant holds throughout.
LEMMA Invariant == Spec => []IInv
  BY InitHolds, StepKeeps, PTL DEF Spec

\* When copyFolder returns true, each file of the source is in the destination with
\* its size, unless copyFile dropped it: for every tree, everything the destination
\* may have held before, and every call of the file system that may have failed.
THEOREM TrueAnswerMeansCopied == Spec => []TrueMeansCopied
<1>1. IInv => TrueMeansCopied
  BY DEF IInv
<1> QED BY <1>1, Invariant, PTL

\* copyFile leaves none of its streams open, whichever way it goes out.
THEOREM StreamsAreClosed == Spec => []FilesClosed
<1>1. IInv => FilesClosed
  BY DEF IInv, Streams
<1> QED BY <1>1, Invariant, PTL

\* copyFolder returns false only if a call of the file system has failed, or if no
\* directory could be opened any more.
THEOREM FalseHasACause == Spec => []FailsForCause
<1>1. IInv => FailsForCause
  BY DEF IInv, Causes, FailsForCause, Returned
<1> QED BY <1>1, Invariant, PTL
=============================================================================
