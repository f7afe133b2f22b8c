----------------------------- MODULE ExtUsbFile -----------------------------
(***************************************************************************)
(* One open file of the "fat" device: the handlers newlib calls            *)
(* (extusb_fs_open, _read, _write, _seek, _truncate, _fsync, _close) over  *)
(* the FatFs functions they drive (ff.c), seen as what they do to the file *)
(* pointer, the size and the directory entry.                              *)
(*                                                                         *)
(* read and write cut a request at the cache lines of the caller's buffer: *)
(* whole lines are transferred in place, the rest through alignedBuffer.   *)
(* A byte is known by where it is: `moved` maps each place of the caller's *)
(* buffer that has been filled (or written out) to its place in the file.  *)
(*                                                                         *)
(* There are two sizes, the file object's and the directory entry's, and   *)
(* two positions, FatFs's fptr and the device's `offset`.                  *)
(***************************************************************************)
EXTENDS Integers

CONSTANTS Line,      \* bytes in a cache line (0x40)
          MaxSize,   \* the longest file of the volume
          OffsetMod, \* `offset` is a uint32_t: 2^32
          MaxLen,    \* the longest request of the caller
          Seeks      \* the distances the caller seeks by

ASSUME FileAssumption ==
  /\ Line \in Nat \ {0} /\ MaxSize \in Nat /\ MaxLen \in Nat
  /\ OffsetMod \in Nat \ {0}
  /\ Seeks \subseteq Int

VARIABLES
  opened, access,          \* is it open; "r", "w" or "rw"
  fptr, size, err,         \* FIL: file pointer, obj.objsize, the sticky error
  modified,                \* FIL: FA_MODIFIED
  entry,                   \* the size the directory entry has
  offset,                  \* __extusb_fs_file_t.offset
  pc, op,                  \* where in which call
  base, ptr, len, bytes,   \* the caller's buffer, and how far the call is
  bounced, part,           \* the next transfer: through alignedBuffer? its size
  start, moved, result     \* fptr at the call; what has moved; what it returned

fil      == <<access, fptr, size, err, modified>>
transfer == <<bounced, part>>
request  == <<op, base, len, start>>
vars == <<opened, fil, entry, offset, pc, request, ptr, bytes, transfer, moved, result>>
callVars == <<pc, request, ptr, bytes, transfer, moved, result>>

AtMost(a, b)  == IF a <= b THEN a ELSE b
AtLeast(a, b) == IF a <= b THEN b ELSE a
NoBytes == [k \in {} |-> 0]

-----------------------------------------------------------------------------
(* FatFs, on the open file.                                                  *)

\* validate() finds the drive not answering, or an earlier error has stuck:
\* the function fails and changes nothing.
Refused == UNCHANGED fil

\* f_read: up to the end of the file.
FRead(n, br) ==
  /\ ~err
  /\ br = AtMost(n, size - fptr)
  /\ fptr' = fptr + br
  /\ UNCHANGED <<access, size, err, modified>>

\* A disk error in the middle of it: what was read before counts for fptr only.
FReadAborts(n) ==
  /\ ~err
  /\ \E k \in 0..(AtMost(n, size - fptr) - 1) : fptr' = fptr + k
  /\ err' = TRUE
  /\ UNCHANGED <<access, size, modified>>

\* f_write: less than asked for on a full disk or at the limit of the volume.
FWrite(n, bw) ==
  /\ ~err
  /\ bw \in 0..AtMost(n, MaxSize - fptr)
  /\ fptr' = fptr + bw
  /\ size' = AtLeast(size, fptr + bw)
  /\ modified' = TRUE
  /\ UNCHANGED <<access, err>>

FWriteAborts(n) ==
  /\ ~err
  /\ \E k \in 0..(AtMost(n, MaxSize - fptr) - 1) :
       /\ fptr' = fptr + k
       /\ size' = AtLeast(size, fptr + k)
  /\ err' = TRUE
  /\ UNCHANGED <<access, modified>>

\* Where f_lseek can get to: the end of the file if it is open for reading
\* only, where the disk is full if the file must grow.
Reach(ofs) == IF access = "r" THEN {AtMost(ofs, size)}
              ELSE IF ofs <= size THEN {ofs}
              ELSE size..AtMost(ofs, MaxSize)

\* Mutant: f_lseek moves the pointer behind the end and leaves the size.
Stretched_SizeStays(to) ==
  /\ fptr' = to
  /\ UNCHANGED <<access, size, modified>>

\* Mutant: f_lseek stretches a file without setting FA_MODIFIED.
Stretched_Unmarked(to) ==
  /\ fptr' = to
  /\ size' = AtLeast(size, to)
  /\ UNCHANGED <<access, modified>>

\* The file grows with the pointer.
Stretched(to) ==
  /\ fptr' = to
  /\ size' = AtLeast(size, to)
  /\ modified' = (modified \/ to > size)
  /\ UNCHANGED access

FSeek(ofs) == ~err /\ (\E to \in Reach(ofs) : Stretched(to)) /\ UNCHANGED err

\* The pointer stays where the cluster chain could not be followed.
FSeekAborts(ofs) ==
  /\ ~err
  /\ \E to \in 0..AtMost(ofs, MaxSize) : Stretched(to) /\ (access = "r" => to <= size)
  /\ err' = TRUE

\* f_truncate, behind the f_lseek of ftruncate: both may fail, and the first
\* has moved the pointer by then.
FTruncate ==
  /\ ~err /\ access # "r"
  /\ size' = fptr
  /\ modified' = (modified \/ fptr < size)
  /\ err' \in BOOLEAN /\ (err' => fptr < size)
  /\ UNCHANGED <<access, fptr>>

\* f_sync writes the size to the directory entry; a disk error before that
\* leaves all as it was, one behind it is not undone.
FSync ==
  /\ modified' = FALSE
  /\ entry' = IF modified THEN size ELSE entry
  /\ UNCHANGED <<access, fptr, size, err>>

-----------------------------------------------------------------------------
(* Calls that are one step.                                                  *)

\* The six combinations of flags the device takes.
Modes == {"r", "r+", "w", "w+", "a", "a+"}
AccessOf(mode) == CASE mode = "r" -> "r"
                    [] mode \in {"w", "a"} -> "w"
                    [] OTHER -> "rw"

\* f_open: "w" empties the file, entry included; "a" starts at its end, and
\* marks the file as modified if it had to be created.
Open(mode) ==
  /\ ~opened
  /\ opened' = TRUE
  /\ access' = AccessOf(mode)
  /\ size' = IF mode \in {"w", "w+"} THEN 0 ELSE entry
  /\ entry' = size'
  /\ fptr' = IF mode \in {"a", "a+"} THEN size' ELSE 0
  /\ err' = FALSE
  /\ modified' \in BOOLEAN
  /\ mode \in {"w", "w+"} => modified'
  /\ modified' => mode \notin {"r", "r+"} /\ size' = 0
  /\ offset' = 0
  /\ UNCHANGED callVars

\* The open fails, perhaps behind the truncation of "w".
OpenFails(mode) ==
  /\ ~opened
  /\ entry' \in {entry, IF mode \in {"w", "w+"} THEN 0 ELSE entry}
  /\ UNCHANGED <<opened, fil, offset, callVars>>

\* What SEEK_SET, SEEK_CUR and SEEK_END count from: f_stat reads the directory
\* entry, not the open file.
From(whence) == CASE whence = "set" -> 0
                  [] whence = "cur" -> offset
                  [] whence = "end" -> entry

\* __extusb_fs_seek: `offset` is set before f_lseek and put back if it fails.
Seek(whence, pos) ==
  /\ opened /\ pc = "idle"
  /\ From(whence) + pos >= 0
  /\ LET to == (From(whence) + pos) % OffsetMod IN
       \/ FSeek(to) /\ offset' = to
       \/ (FSeekAborts(to) \/ Refused) /\ UNCHANGED offset
  /\ UNCHANGED <<opened, entry, callVars>>

\* __extusb_fs_ftruncate: f_lseek, then f_truncate if it went well; `offset` stays.
Truncate(to) ==
  /\ opened /\ pc = "idle"
  /\ \/ FSeek(to) /\ pc' = "truncate"
     \/ (FSeekAborts(to) \/ Refused) /\ pc' = "idle"
  /\ UNCHANGED <<opened, entry, offset, request, ptr, bytes, transfer, moved, result>>

TruncateHere ==
  /\ pc = "truncate"
  /\ FTruncate \/ Refused
  /\ pc' = "idle"
  /\ UNCHANGED <<opened, entry, offset, request, ptr, bytes, transfer, moved, result>>

Fsync ==
  /\ opened /\ pc = "idle"
  /\ FSync \/ (Refused /\ UNCHANGED entry)
  /\ UNCHANGED <<opened, offset, callVars>>

\* The descriptor is gone even if f_close fails, and what it had not synced.
Close ==
  /\ opened /\ pc = "idle"
  /\ opened' = FALSE
  /\ FSync \/ (Refused /\ UNCHANGED entry)
  /\ UNCHANGED <<offset, callVars>>

-----------------------------------------------------------------------------
(* read and write.                                                           *)

\* A descriptor without that access is refused at once (EBADF).
Allowed(call) == access = "rw" \/ access = (IF call = "read" THEN "r" ELSE "w")

Begin(call, addr, n) ==
  /\ opened /\ pc = "idle"
  /\ Allowed(call)
  /\ op' = call /\ base' = addr /\ ptr' = addr /\ len' = n
  /\ bytes' = 0 /\ moved' = NoBytes /\ start' = fptr
  /\ pc' = "loop"
  /\ UNCHANGED <<opened, fil, entry, offset, transfer, result>>

Pick(aligned, n) ==
  /\ pc = "loop" /\ bytes < len
  /\ bounced' = ~aligned
  /\ part' = n
  /\ pc' = "transfer"
  /\ UNCHANGED <<opened, fil, entry, offset, request, ptr, bytes, moved, result>>

\* Up to the end of the cache line the buffer starts in.
PickFront ==
  /\ ptr % Line # 0
  /\ Pick(FALSE, AtMost(len - bytes, Line - (ptr % Line)))

\* The last, partial line.
PickBack ==
  /\ ptr % Line = 0
  /\ len - bytes < Line
  /\ Pick(FALSE, len - bytes)

\* Mutant: the rest of the request is transferred in place, the partial line too.
PickLines_All ==
  /\ ptr % Line = 0
  /\ len - bytes >= Line
  /\ Pick(TRUE, len - bytes)

\* Mutant: whole lines even if less than one is left.
PickLines_Always ==
  /\ ptr % Line = 0
  /\ Pick(TRUE, len - bytes - ((len - bytes) % Line))

\* Whole lines, in place.
PickLines ==
  /\ ptr % Line = 0
  /\ len - bytes >= Line
  /\ Pick(TRUE, len - bytes - ((len - bytes) % Line))

\* The file bytes before fptr are the buffer bytes from ptr on.
Moves(n) == [k \in DOMAIN moved \cup (ptr - base)..(ptr - base + n - 1) |->
               IF k < ptr - base THEN moved[k] ELSE fptr + (k - (ptr - base))]

\* Mutant: a transfer through alignedBuffer does not advance ptr.
Transferred_PtrStays(n) ==
  /\ moved' = Moves(n)
  /\ bytes' = bytes + n
  /\ ptr' = IF bounced THEN ptr ELSE ptr + n
  /\ IF n # part THEN result' = bytes' /\ pc' = "return"
                 ELSE pc' = "loop" /\ UNCHANGED result

\* The transfer is counted; a short one ends the call.
Transferred(n) ==
  /\ moved' = Moves(n)
  /\ bytes' = bytes + n
  /\ ptr' = ptr + n
  /\ IF n # part THEN result' = bytes' /\ pc' = "return"
                 ELSE pc' = "loop" /\ UNCHANGED result

\* An error counts only if nothing has been transferred yet.
Failed ==
  /\ result' = IF bytes # 0 THEN bytes ELSE -1
  /\ pc' = "return"
  /\ UNCHANGED <<moved, bytes, ptr>>

Transfer ==
  /\ pc = "transfer"
  /\ \/ \E n \in 0..part : Transferred(n) /\ IF op = "read" THEN FRead(part, n)
                                                            ELSE FWrite(part, n)
     \/ Failed /\ \/ op = "read" /\ FReadAborts(part)
                  \/ op = "write" /\ FWriteAborts(part)
                  \/ Refused
  /\ UNCHANGED <<opened, entry, offset, request, transfer>>

\* The loop has transferred all of it.
All ==
  /\ pc = "loop" /\ bytes = len
  /\ result' = bytes
  /\ pc' = "return"
  /\ UNCHANGED <<opened, fil, entry, offset, request, ptr, bytes, transfer, moved>>

\* The caller has its answer; the model forgets about the call.
Return ==
  /\ pc = "return"
  /\ pc' = "idle"
  /\ op' = "none" /\ base' = 0 /\ ptr' = 0 /\ len' = 0 /\ bytes' = 0
  /\ bounced' = FALSE /\ part' = 0 /\ start' = 0 /\ moved' = NoBytes /\ result' = 0
  /\ UNCHANGED <<opened, fil, entry, offset>>

-----------------------------------------------------------------------------
Init ==
  /\ opened = FALSE /\ access = "r"
  /\ fptr = 0 /\ size = 0 /\ err = FALSE /\ modified = FALSE
  /\ entry \in 0..MaxSize
  /\ offset = 0
  /\ pc = "idle" /\ op = "none" /\ base = 0 /\ ptr = 0 /\ len = 0 /\ bytes = 0
  /\ bounced = FALSE /\ part = 0 /\ start = 0 /\ moved = NoBytes /\ result = 0

\* The calls of the program.
Call ==
  \/ \E mode \in Modes : Open(mode) \/ OpenFails(mode)
  \/ \E whence \in {"set", "cur", "end"}, pos \in Seeks : Seek(whence, pos)
  \/ \E to \in 0..MaxSize : Truncate(to)
  \/ Fsync \/ Close
  \/ \E call \in {"read", "write"}, addr \in 0..(Line - 1), n \in 0..MaxLen :
       Begin(call, addr, n)

\* The steps of a call that has begun.
Step == TruncateHere \/ PickFront \/ PickBack \/ PickLines \/ Transfer \/ All \/ Return

Next == Call \/ Step

Spec == Init /\ [][Next]_vars

\* A call that has begun runs on.
FairSpec == Spec /\ WF_vars(Step)
-----------------------------------------------------------------------------
(* Properties.                                                               *)

\* The variables keep their types and sizes.
TypeOK ==
  /\ opened \in BOOLEAN /\ access \in {"r", "w", "rw"}
  /\ fptr \in 0..MaxSize /\ size \in 0..MaxSize /\ entry \in 0..MaxSize
  /\ err \in BOOLEAN /\ modified \in BOOLEAN
  /\ offset \in 0..(OffsetMod - 1)
  /\ pc \in {"idle", "loop", "transfer", "return", "truncate"}
  /\ op \in {"none", "read", "write"}
  /\ len \in 0..MaxLen /\ bytes \in 0..len
  /\ base \in 0..(Line - 1) /\ ptr \in 0..(base + len)
  /\ bounced \in BOOLEAN /\ part \in 0..MaxLen /\ start \in 0..MaxSize
  /\ moved \in [DOMAIN moved -> 0..MaxSize] /\ DOMAIN moved \subseteq 0..(MaxLen - 1)
  /\ result \in -1..MaxLen

InCall == pc \in {"loop", "transfer", "return"}

\* However a request is cut and wherever it is interrupted, the caller's buffer
\* holds, without gap or overlap, the bytes of the file from the position of
\* the call on, as many as are counted; the answer is that count, and -1 only
\* if there are none.
AnswerCountsMoved ==
  /\ InCall => /\ moved = [k \in 0..(bytes - 1) |-> start + k]
               /\ ptr = base + bytes
               /\ ~err => fptr = start + bytes
  /\ pc = "return" => result = bytes \/ (result = -1 /\ bytes = 0)

\* What is transferred in place is whole cache lines, and what goes through
\* alignedBuffer stays within one line; neither reaches beyond the request.
TransfersAreAligned ==
  pc = "transfer" =>
    /\ part \in 1..(len - bytes)
    /\ IF bounced THEN (ptr % Line) + part <= Line
                  ELSE ptr % Line = 0 /\ part % Line = 0

\* f_read subtracts fptr from the size, unsigned: as long as the file is
\* usable, no seek, truncation or write leaves the pointer behind the end.
PointerInFile == opened /\ ~err => fptr <= size

\* fstat and SEEK_END look at the directory entry: it has the size of the open
\* file unless a change of it waits to be synced.
EntryIsSize == opened /\ ~modified /\ ~err => entry = size

\* Every read and write returns, the loop making progress each time round.
CallsReturn == pc # "idle" ~> pc = "idle"
=============================================================================
