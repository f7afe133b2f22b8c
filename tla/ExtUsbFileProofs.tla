-------------------------- MODULE ExtUsbFileProofs --------------------------
(***************************************************************************)
(* Proofs about ExtUsbFile, for every line size, longest file, request and *)
(* set of distances: the caller's answer counts what was moved, transfers  *)
(* are cut at cache lines, and the file object stays usable.               *)
(***************************************************************************)
EXTENDS ExtUsbFile, TLAPS

\* The five invariants need each other, and that a call has an open file.
FileInv ==
  /\ TypeOK
  /\ AnswerCountsMoved
  /\ TransfersAreAligned
  /\ PointerInFile
  /\ EntryIsSize
  /\ pc # "idle" => opened

-----------------------------------------------------------------------------
(* What the calls of FatFs keep of the file object.                          *)

FileOK ==
  /\ access \in {"r", "w", "rw"} /\ err \in BOOLEAN /\ modified \in BOOLEAN
  /\ fptr \in 0..MaxSize /\ size \in 0..MaxSize
  /\ ~err => fptr <= size

\* While the entry stands, a size that parts from it is marked as modified.
Marked == ~modified /\ ~err => entry = size

\* f_read moves the pointer by what it answers and leaves the size alone.
LEMMA FReadKeeps ==
  ASSUME FileOK, Marked, entry' = entry, NEW n \in Nat, NEW br \in Nat, FRead(n, br)
  PROVE  /\ FileOK' /\ Marked' /\ ~err /\ ~err' /\ br <= n /\ fptr' = fptr + br
  BY FileAssumption, SMT DEF FRead, AtMost, FileOK, Marked, FileAssumption

\* An f_read that aborts leaves a file object with the error set.
LEMMA FReadAbortsKeeps ==
  ASSUME FileOK, NEW n \in Nat, FReadAborts(n)
  PROVE  FileOK' /\ err'
  BY FileAssumption, SMT DEF FReadAborts, AtMost, FileOK, FileAssumption

\* f_write moves the pointer by what it answers, and the size with it.
LEMMA FWriteKeeps ==
  ASSUME FileOK, Marked, entry' = entry, NEW n \in Nat, NEW bw \in Nat, FWrite(n, bw)
  PROVE  /\ FileOK' /\ Marked' /\ ~err /\ ~err' /\ bw <= n /\ fptr' = fptr + bw
  BY FileAssumption, SMT DEF FWrite, AtMost, AtLeast, FileOK, Marked, FileAssumption

\* An f_write that aborts leaves a file object with the error set.
LEMMA FWriteAbortsKeeps ==
  ASSUME FileOK, NEW n \in Nat, FWriteAborts(n)
  PROVE  FileOK' /\ err'
  BY FileAssumption, SMT DEF FWriteAborts, AtMost, AtLeast, FileOK, FileAssumption

\* f_lseek, wherever it gets to and whether it fails or not, keeps the pointer
\* in the file and marks a file that has grown.
LEMMA LseekKeeps ==
  ASSUME FileOK, Marked, entry' = entry, NEW ofs \in Nat,
         FSeek(ofs) \/ FSeekAborts(ofs) \/ Refused
  PROVE  FileOK' /\ Marked'
  <1>1. ASSUME NEW to \in 0..MaxSize, Stretched(to), err' \in BOOLEAN, err => err'
        PROVE  FileOK' /\ Marked'
    <2>1. fptr' = to /\ size' = AtLeast(size, to) /\ access' = access
      BY <1>1 DEF Stretched
    <2>2. /\ size' \in 0..MaxSize /\ fptr' <= size'
          /\ to > size \/ size' = size
      BY <2>1, FileAssumption, SMT DEF AtLeast, FileOK, FileAssumption
    <2>3. CASE to > size
      <3>1. modified' = TRUE
        BY <1>1, <2>3 DEF Stretched
      <3> QED BY <1>1, <2>1, <2>2, <3>1 DEF FileOK, Marked
    <2>4. CASE ~(to > size)
      <3>1. modified' = modified
        BY <1>1, <2>4 DEF Stretched, FileOK
      <3>2. size' = size
        BY <2>2, <2>4
      <3> QED BY <1>1, <2>1, <2>2, <3>1, <3>2 DEF FileOK, Marked
    <2> QED BY <2>3, <2>4
  <1>2. CASE FSeek(ofs)
    <2>1. Reach(ofs) \subseteq 0..MaxSize
      BY FileAssumption, SMT DEF Reach, AtMost, FileOK, FileAssumption
    <2>2. PICK to \in Reach(ofs) : Stretched(to)
      BY <1>2 DEF FSeek
    <2>3. err' = err
      BY <1>2 DEF FSeek
    <2> QED BY <2>1, <2>2, <2>3, <1>1 DEF FileOK
  <1>3. CASE FSeekAborts(ofs)
    <2>1. PICK to \in 0..AtMost(ofs, MaxSize) : Stretched(to)
      BY <1>3 DEF FSeekAborts
    <2>2. to \in 0..MaxSize
      BY FileAssumption, SMT DEF AtMost, FileAssumption
    <2>3. err' = TRUE
      BY <1>3 DEF FSeekAborts
    <2> QED BY <2>1, <2>2, <2>3, <1>1
  <1>4. CASE Refused
    BY <1>4 DEF Refused, fil, FileOK, Marked
  <1> QED BY <1>2, <1>3, <1>4

\* f_truncate cuts the file at the pointer.
LEMMA TruncateKeeps ==
  ASSUME FileOK, Marked, entry' = entry, FTruncate \/ Refused
  PROVE  FileOK' /\ Marked'
  <1>1. CASE FTruncate
    <2>1. fptr <= size
      BY <1>1 DEF FTruncate, FileOK
    <2>2. fptr < size \/ fptr = size
      BY <2>1, SMT DEF FileOK
    <2>3. /\ size' = fptr /\ fptr' = fptr /\ access' = access
          /\ err' \in BOOLEAN /\ ~err
      BY <1>1 DEF FTruncate
    <2>4. fptr' <= size'
      BY <2>3, SMT DEF FileOK
    <2>5. CASE fptr < size
      <3>1. modified' = TRUE
        BY <1>1, <2>5 DEF FTruncate
      <3> QED BY <2>3, <2>4, <3>1 DEF FileOK, Marked
    <2>6. CASE fptr = size
      <3>1. ~(fptr < size)
        BY <2>6, SMT DEF FileOK
      <3>2. modified' = modified
        BY <1>1, <3>1 DEF FTruncate, FileOK
      <3>3. size' = size
        BY <2>3, <2>6
      <3>4. FileOK'
        BY <2>3, <2>4, <3>2, <3>3 DEF FileOK
      <3>5. Marked'
        BY <2>3, <3>2, <3>3 DEF Marked
      <3> QED BY <3>4, <3>5
    <2> QED BY <2>2, <2>5, <2>6
  <1>2. CASE Refused
    BY <1>2 DEF Refused, fil, FileOK, Marked
  <1> QED BY <1>1, <1>2

\* f_sync brings the entry up to the size.
LEMMA FSyncKeeps ==
  ASSUME FileOK, Marked, entry \in 0..MaxSize, FSync \/ (Refused /\ UNCHANGED entry)
  PROVE  FileOK' /\ Marked' /\ entry' \in 0..MaxSize
  <1>1. CASE FSync
    BY <1>1 DEF FSync, FileOK, Marked
  <1>2. CASE Refused /\ UNCHANGED entry
    BY <1>2 DEF Refused, fil, FileOK, Marked
  <1> QED BY <1>1, <1>2

-----------------------------------------------------------------------------
(* The invariant holds at the start and is kept by every step.               *)

\* A closed file, and no call, with any entry.
LEMMA FileStarts == Init => FileInv
  <1> SUFFICES ASSUME Init PROVE FileInv
    OBVIOUS
  <1>1. moved \in [DOMAIN moved -> 0..MaxSize] /\ DOMAIN moved \subseteq 0..(MaxLen - 1)
    BY DEF Init, NoBytes
  <1>2. TypeOK
    <2>1. /\ 0 \in 0..MaxSize /\ 0 \in 0..MaxLen /\ 0 \in -1..MaxLen /\ 0 \in 0..0
          /\ 0 \in 0..(Line - 1) /\ 0 \in 0..(OffsetMod - 1) /\ 0 + 0 = 0
      BY FileAssumption, SMT DEF FileAssumption
    <2> QED BY <1>1, <2>1 DEF Init, TypeOK
  <1>3. AnswerCountsMoved /\ TransfersAreAligned /\ PointerInFile /\ EntryIsSize
    BY DEF Init, AnswerCountsMoved, InCall, TransfersAreAligned, PointerInFile, EntryIsSize
  <1> QED BY <1>2, <1>3 DEF Init, FileInv

\* Between calls nothing is asked of the variables of a call but their types.
CallTypes ==
  /\ pc \in {"idle", "loop", "transfer", "return", "truncate"}
  /\ op \in {"none", "read", "write"}
  /\ len \in 0..MaxLen /\ bytes \in 0..len
  /\ base \in 0..(Line - 1) /\ ptr \in 0..(base + len)
  /\ bounced \in BOOLEAN /\ part \in 0..MaxLen /\ start \in 0..MaxSize
  /\ moved \in [DOMAIN moved -> 0..MaxSize] /\ DOMAIN moved \subseteq 0..(MaxLen - 1)
  /\ result \in -1..MaxLen

\* What a call keeps in its own variables.
CallOK == CallTypes /\ AnswerCountsMoved /\ TransfersAreAligned

\* A step that begins and ends between the calls of read and write.
LEMMA Elsewhere ==
  ASSUME CallOK, pc' \in {"idle", "truncate"},
         UNCHANGED <<request, ptr, bytes, transfer, moved, result>>
  PROVE  CallOK'
  <1>1. CallTypes'
    BY DEF CallOK, CallTypes, request, transfer
  <1>2. AnswerCountsMoved' /\ TransfersAreAligned'
    BY DEF AnswerCountsMoved, InCall, TransfersAreAligned
  <1> QED BY <1>1, <1>2 DEF CallOK

\* The remainder of a division by the size of a line.
LEMMA Remainder ==
  ASSUME NEW n \in Nat
  PROVE  n % Line \in 0..(Line - 1)
  BY FileAssumption, SMT DEF FileAssumption

\* Rounding down leaves whole lines, and at least one if there was one.
LEMMA WholeLines ==
  ASSUME NEW n \in Nat, n >= Line
  PROVE  /\ n - (n % Line) \in 1..n
         /\ (n - (n % Line)) % Line = 0
  <1>1. n = Line * (n \div Line) + (n % Line) /\ n \div Line \in Nat
    BY FileAssumption, SMT DEF FileAssumption
  <1>2. ASSUME NEW q \in Nat PROVE (Line * q) % Line = 0
    BY FileAssumption, SMT DEF FileAssumption
  <1>3. n % Line \in 0..(Line - 1)
    BY Remainder
  <1>4. Line * (n \div Line) \in Nat
    BY <1>1, FileAssumption, SMT DEF FileAssumption
  <1>5. n - (n % Line) = Line * (n \div Line)
    BY <1>1, <1>3, <1>4, FileAssumption, SMT DEF FileAssumption
  <1>6. n - (n % Line) \in 1..n
    BY <1>3, FileAssumption, SMT DEF FileAssumption
  <1> QED BY <1>1, <1>2, <1>5, <1>6

\* Each way to cut off the next part keeps the call in order.
LEMMA PickKeeps ==
  ASSUME CallOK, PickFront \/ PickBack \/ PickLines
  PROVE  CallOK' /\ UNCHANGED <<opened, fil, entry, offset>> /\ pc = "loop"
  <1> DEFINE rest == len - bytes
  <1>1. /\ pc = "loop" /\ pc' = "transfer" /\ bytes < len
        /\ UNCHANGED <<opened, fil, entry, offset, request, ptr, bytes, moved, result>>
    BY DEF PickFront, PickBack, PickLines, Pick
  <1>2. rest \in Nat /\ rest > 0 /\ rest <= MaxLen /\ ptr \in Nat
    BY <1>1, FileAssumption, SMT DEF CallOK, CallTypes, FileAssumption
  <1>3. ptr % Line \in 0..(Line - 1)
    BY <1>2, Remainder
  <1>4. /\ bounced' \in BOOLEAN /\ part' \in 1..rest
        /\ IF bounced' THEN (ptr % Line) + part' <= Line
                       ELSE ptr % Line = 0 /\ part' % Line = 0
    <2>1. CASE PickFront
      <3>1. /\ bounced' = TRUE /\ ptr % Line # 0
            /\ part' = AtMost(rest, Line - (ptr % Line))
        BY <2>1 DEF PickFront, Pick
      <3> HIDE DEF rest
      <3>2. part' \in 1..rest /\ (ptr % Line) + part' <= Line
        BY <3>1, <1>2, <1>3, FileAssumption, SMT DEF AtMost, FileAssumption
      <3> QED BY <3>1, <3>2
    <2>2. CASE PickBack
      <3>1. bounced' = TRUE /\ part' = rest /\ ptr % Line = 0 /\ rest < Line
        BY <2>2 DEF PickBack, Pick
      <3> HIDE DEF rest
      <3>2. part' \in 1..rest /\ (ptr % Line) + part' <= Line
        BY <3>1, <1>2, FileAssumption, SMT DEF FileAssumption
      <3> QED BY <3>1, <3>2
    <2>3. CASE PickLines
      <3>1. /\ bounced' = FALSE /\ ptr % Line = 0 /\ rest >= Line
            /\ part' = rest - (rest % Line)
        BY <2>3 DEF PickLines, Pick
      <3> HIDE DEF rest
      <3> QED BY <3>1, <1>2, WholeLines
    <2> QED BY <2>1, <2>2, <2>3
  <1>5. part' \in 0..MaxLen
    BY <1>2, <1>4, FileAssumption, SMT DEF FileAssumption
  <1>6. CallTypes'
    BY <1>1, <1>4, <1>5 DEF CallOK, CallTypes, request
  <1>7. AnswerCountsMoved'
    BY <1>1 DEF CallOK, AnswerCountsMoved, InCall, request, fil
  <1>8. TransfersAreAligned'
    BY <1>1, <1>4 DEF TransfersAreAligned, request
  <1> QED BY <1>1, <1>6, <1>7, <1>8 DEF CallOK

\* A part that has been moved is appended to what was moved before.
LEMMA TransferredKeeps ==
  ASSUME CallOK, pc = "transfer", ~err, ~err', fptr \in 0..MaxSize, fptr' \in 0..MaxSize,
         NEW n \in 0..part, Transferred(n), fptr' = fptr + n,
         UNCHANGED <<request, transfer>>
  PROVE  CallOK'
  <1>1. /\ moved = [k \in 0..(bytes - 1) |-> start + k]
        /\ ptr = base + bytes /\ fptr = start + bytes /\ part \in 1..(len - bytes)
    BY DEF CallOK, AnswerCountsMoved, InCall, TransfersAreAligned
  <1>2. /\ moved' = Moves(n) /\ bytes' = bytes + n /\ ptr' = ptr + n
        /\ pc' \in {"return", "loop"}
        /\ pc' = "return" => result' = bytes'
        /\ pc' # "return" => result' = result
        /\ op' = op /\ base' = base /\ len' = len /\ start' = start
        /\ bounced' = bounced /\ part' = part
    BY DEF Transferred, request, transfer
  <1>3. /\ len \in 0..MaxLen /\ bytes \in 0..len /\ base \in 0..(Line - 1) /\ part \in 0..MaxLen
        /\ start \in 0..MaxSize /\ result \in -1..MaxLen
    BY DEF CallOK, CallTypes
  <1>4. /\ bytes' \in 0..len' /\ ptr' \in 0..(base' + len') /\ ptr' = base' + bytes'
        /\ fptr' = start' + bytes' /\ bytes' \in -1..MaxLen
    BY <1>1, <1>2, <1>3, FileAssumption, SMT DEF FileAssumption
  <1>5. moved' = [k \in 0..(bytes' - 1) |-> start' + k]
    <2>1. ptr - base = bytes
      BY <1>1, <1>3, FileAssumption, SMT DEF FileAssumption
    <2>2. DOMAIN moved \cup bytes..(bytes + n - 1) = 0..(bytes' - 1)
      <3>1. DOMAIN moved = 0..(bytes - 1)
        BY <1>1
      <3>2. 0..(bytes - 1) \cup bytes..(bytes + n - 1) = 0..(bytes + n - 1)
        BY <1>3, FileAssumption, SMT DEF FileAssumption
      <3>3. bytes' = bytes + n
        BY DEF Transferred
      <3>4. 0..(bytes + n - 1) = 0..(bytes' - 1)
        BY <3>3, <1>3, SMT
      <3>5. DOMAIN moved \cup bytes..(bytes + n - 1) = 0..(bytes - 1) \cup bytes..(bytes + n - 1)
        BY <3>1, Zenon
      <3> QED BY <3>2, <3>4, <3>5, Zenon
    <2>3. moved' = [k \in 0..(bytes' - 1) |->
                     IF k < bytes THEN moved[k] ELSE fptr + (k - bytes)]
      BY <1>2, <2>1, <2>2 DEF Moves
    <2>4. ASSUME NEW k \in 0..(bytes' - 1)
          PROVE  (IF k < bytes THEN moved[k] ELSE fptr + (k - bytes)) = start' + k
      BY <1>1, <1>2, <1>3, FileAssumption, SMT DEF FileAssumption
    <2> QED BY <2>3, <2>4
  <1>6. moved' \in [DOMAIN moved' -> 0..MaxSize] /\ DOMAIN moved' \subseteq 0..(MaxLen - 1)
    <2>1. DOMAIN moved' = 0..(bytes' - 1)
      BY <1>5
    <2>2. ASSUME NEW k \in 0..(bytes' - 1) PROVE start' + k \in 0..MaxSize
      BY <1>2, <1>3, <1>4, FileAssumption, SMT DEF FileAssumption
    <2>3. 0..(bytes' - 1) \subseteq 0..(MaxLen - 1)
      BY <1>2, <1>3, <1>4, FileAssumption, SMT DEF FileAssumption
    <2> QED BY <1>5, <2>1, <2>2, <2>3
  <1>7. CallTypes'
    BY <1>2, <1>3, <1>4, <1>6 DEF CallOK, CallTypes
  <1>8. AnswerCountsMoved' /\ TransfersAreAligned'
    BY <1>2, <1>4, <1>5 DEF AnswerCountsMoved, InCall, TransfersAreAligned
  <1> QED BY <1>7, <1>8 DEF CallOK

\* A part that fails leaves the count, and answers with it.
LEMMA FailedKeeps ==
  ASSUME CallOK, pc = "transfer", Failed, UNCHANGED <<request, transfer>>,
         err' \/ (fptr' = fptr /\ err' = err)
  PROVE  CallOK'
  <1>1. /\ pc' = "return" /\ moved' = moved /\ bytes' = bytes /\ ptr' = ptr
        /\ result' = (IF bytes # 0 THEN bytes ELSE -1)
        /\ op' = op /\ base' = base /\ len' = len /\ start' = start
        /\ bounced' = bounced /\ part' = part
    BY DEF Failed, request, transfer
  <1>2. /\ bytes # 0 => result' = bytes
        /\ bytes = 0 => result' = -1
    BY <1>1
  <1>3. bytes \in -1..MaxLen /\ -1 \in -1..MaxLen
    BY FileAssumption, SMT DEF CallOK, CallTypes, FileAssumption
  <1>4. CallTypes'
    BY <1>1, <1>2, <1>3 DEF CallOK, CallTypes
  <1>5. AnswerCountsMoved' /\ TransfersAreAligned'
    BY <1>1, <1>2 DEF CallOK, AnswerCountsMoved, InCall, TransfersAreAligned
  <1> QED BY <1>4, <1>5 DEF CallOK

\* What the file and the descriptor keep.
DescriptorOK ==
  /\ opened \in BOOLEAN
  /\ access \in {"r", "w", "rw"} /\ err \in BOOLEAN /\ modified \in BOOLEAN
  /\ fptr \in 0..MaxSize /\ size \in 0..MaxSize /\ entry \in 0..MaxSize
  /\ offset \in 0..(OffsetMod - 1)
  /\ opened => FileOK /\ Marked
  /\ pc # "idle" => opened

\* FileInv, taken apart into the file and the call.
LEMMA InvParts ==
  /\ FileInv <=> DescriptorOK /\ CallOK
  /\ FileInv' <=> DescriptorOK' /\ CallOK'
  BY DEF FileInv, TypeOK, CallTypes, PointerInFile, EntryIsSize, FileOK, Marked,
     DescriptorOK, CallOK

\* A step on an open file that keeps the file object.
LEMMA OpenFileKeeps ==
  ASSUME DescriptorOK, opened, opened' = opened, UNCHANGED <<entry, offset>>, FileOK', Marked'
  PROVE  DescriptorOK'
  BY DEF DescriptorOK, FileOK

\* A transfer, whether it works, falls short or fails.
LEMMA TransferKeeps ==
  ASSUME FileInv, Transfer
  PROVE  FileInv'
  <1>1. DescriptorOK /\ CallOK
    BY InvParts
  <1>2. /\ pc = "transfer" /\ opened /\ FileOK /\ Marked
        /\ UNCHANGED <<opened, entry, offset, request, transfer>>
    BY <1>1 DEF Transfer, DescriptorOK
  <1>3. part \in Nat /\ fptr \in 0..MaxSize
    BY <1>1, FileAssumption, SMT DEF CallOK, CallTypes, DescriptorOK, FileAssumption
  <1>4. ASSUME NEW n \in 0..part, Transferred(n),
               IF op = "read" THEN FRead(part, n) ELSE FWrite(part, n)
        PROVE  FileInv'
    <2>1. n \in Nat /\ entry' = entry
      BY <1>2, <1>3, SMT
    <2>2. FileOK' /\ Marked' /\ ~err /\ ~err' /\ fptr' = fptr + n
      <3>1. CASE op = "read"
        BY <1>2, <1>3, <1>4, <2>1, <3>1, FReadKeeps
      <3>2. CASE op # "read"
        BY <1>2, <1>3, <1>4, <2>1, <3>2, FWriteKeeps
      <3> QED BY <3>1, <3>2
    <2>3. fptr' \in 0..MaxSize
      BY <2>2 DEF FileOK
    <2>4. CallOK'
      BY <1>1, <1>2, <1>3, <1>4, <2>2, <2>3, TransferredKeeps
    <2>5. DescriptorOK'
      BY <1>1, <1>2, <2>2, OpenFileKeeps
    <2> QED BY <2>4, <2>5, InvParts
  <1>5. ASSUME Failed, \/ op = "read" /\ FReadAborts(part)
                       \/ op = "write" /\ FWriteAborts(part)
                       \/ Refused
        PROVE  FileInv'
    <2>1. FileOK' /\ Marked' /\ (err' \/ (fptr' = fptr /\ err' = err))
      <3>1. CASE FReadAborts(part)
        BY <1>2, <1>3, <3>1, FReadAbortsKeeps DEF Marked
      <3>2. CASE FWriteAborts(part)
        BY <1>2, <1>3, <3>2, FWriteAbortsKeeps DEF Marked
      <3>3. CASE Refused
        BY <1>2, <3>3 DEF Refused, fil, FileOK, Marked
      <3> QED BY <1>5, <3>1, <3>2, <3>3
    <2>2. CallOK'
      BY <1>1, <1>2, <1>5, <2>1, FailedKeeps
    <2>3. DescriptorOK'
      BY <1>1, <1>2, <2>1, OpenFileKeeps
    <2> QED BY <2>2, <2>3, InvParts
  <1> QED BY <1>4, <1>5 DEF Transfer

\* The other steps of a read or a write: its start, its parts, its end.
LEMMA RestOfCallKeeps ==
  ASSUME FileInv,
         \/ \E call \in {"read", "write"}, addr \in 0..(Line - 1), n \in 0..MaxLen :
              Begin(call, addr, n)
         \/ PickFront \/ PickBack \/ PickLines \/ All \/ Return
  PROVE  FileInv'
  <1>1. DescriptorOK /\ CallOK
    BY InvParts
  <1>2. /\ UNCHANGED <<opened, fil, entry, offset>>
        /\ opened
        => DescriptorOK'
    BY <1>1 DEF DescriptorOK, fil, FileOK, Marked
  <1>3. ASSUME NEW call \in {"read", "write"}, NEW addr \in 0..(Line - 1), NEW n \in 0..MaxLen,
               Begin(call, addr, n)
        PROVE  FileInv'
    <2>1. /\ pc' = "loop" /\ op' = call /\ base' = addr /\ ptr' = addr /\ len' = n
          /\ bytes' = 0 /\ moved' = NoBytes /\ start' = fptr /\ fptr' = fptr
          /\ bounced' = bounced /\ part' = part /\ result' = result
          /\ opened /\ UNCHANGED <<opened, fil, entry, offset>>
      BY <1>3 DEF Begin, fil, transfer
    <2>2. moved' = [k \in 0..(bytes' - 1) |-> start' + k]
      <3>1. 0..(bytes' - 1) = {}
        BY <2>1, SMT
      <3> QED BY <2>1, <3>1 DEF NoBytes
    <2>3. moved' \in [DOMAIN moved' -> 0..MaxSize] /\ DOMAIN moved' \subseteq 0..(MaxLen - 1)
      BY <2>1 DEF NoBytes
    <2>4. /\ bytes' \in 0..len' /\ ptr' \in 0..(base' + len') /\ ptr' = base' + bytes'
          /\ fptr' = start' + bytes' /\ start' \in 0..MaxSize
      BY <1>1, <2>1, FileAssumption, SMT DEF DescriptorOK, FileAssumption
    <2>5. CallTypes'
      BY <1>1, <2>1, <2>3, <2>4 DEF CallOK, CallTypes
    <2>6. AnswerCountsMoved' /\ TransfersAreAligned'
      BY <2>1, <2>2, <2>4 DEF AnswerCountsMoved, InCall, TransfersAreAligned
    <2> QED BY <1>2, <2>1, <2>5, <2>6, InvParts DEF CallOK
  <1>4. CASE PickFront \/ PickBack \/ PickLines
    <2>1. CallOK' /\ UNCHANGED <<opened, fil, entry, offset>> /\ pc = "loop"
      BY <1>1, <1>4, PickKeeps
    <2> QED BY <1>1, <1>2, <2>1, InvParts DEF DescriptorOK
  <1>5. CASE All
    <2>1. /\ pc = "loop" /\ pc' = "return" /\ result' = bytes
          /\ UNCHANGED <<opened, fil, entry, offset, request, ptr, bytes, transfer, moved>>
      BY <1>5 DEF All
    <2>2. bytes \in -1..MaxLen
      BY <1>1, FileAssumption, SMT DEF CallOK, CallTypes, FileAssumption
    <2>3. CallTypes'
      BY <1>1, <2>1, <2>2 DEF CallOK, CallTypes, request, transfer
    <2>4. AnswerCountsMoved' /\ TransfersAreAligned'
      BY <1>1, <2>1 DEF CallOK, AnswerCountsMoved, InCall, TransfersAreAligned, request, fil
    <2> QED BY <1>1, <1>2, <2>1, <2>3, <2>4, InvParts DEF DescriptorOK, CallOK
  <1>6. CASE Return
    <2>1. /\ pc = "return" /\ pc' = "idle" /\ op' = "none" /\ base' = 0 /\ ptr' = 0 /\ len' = 0
          /\ bytes' = 0 /\ bounced' = FALSE /\ part' = 0 /\ start' = 0 /\ moved' = NoBytes
          /\ result' = 0 /\ UNCHANGED <<opened, fil, entry, offset>>
      BY <1>6 DEF Return
    <2>2. /\ 0 \in 0..MaxSize /\ 0 \in 0..MaxLen /\ 0 \in -1..MaxLen /\ 0 \in 0..0
          /\ 0 \in 0..(Line - 1) /\ 0 + 0 = 0
      BY FileAssumption, SMT DEF FileAssumption
    <2>3. moved' \in [DOMAIN moved' -> 0..MaxSize] /\ DOMAIN moved' \subseteq 0..(MaxLen - 1)
      BY <2>1 DEF NoBytes
    <2>4. CallOK'
      BY <2>1, <2>2, <2>3 DEF CallOK, CallTypes, AnswerCountsMoved, InCall, TransfersAreAligned
    <2> QED BY <1>1, <1>2, <2>1, <2>4, InvParts DEF DescriptorOK
  <1> QED BY <1>3, <1>4, <1>5, <1>6

-----------------------------------------------------------------------------
(* The calls that are one or two steps.                                      *)

\* Opening a file, or failing to, starts with a file object as f_open made it.
LEMMA OpenKeeps ==
  ASSUME FileInv, NEW mode \in Modes, Open(mode) \/ OpenFails(mode)
  PROVE  FileInv'
  <1>1. DescriptorOK /\ CallOK
    BY InvParts
  <1>2. ~opened /\ pc = "idle" /\ UNCHANGED callVars
    BY <1>1 DEF Open, OpenFails, DescriptorOK
  <1>3. CallOK'
    BY <1>1, <1>2, Elsewhere DEF callVars
  <1>4. 0 \in 0..MaxSize /\ 0 \in 0..(OffsetMod - 1) /\ pc' = "idle"
    BY <1>2, FileAssumption, SMT DEF FileAssumption, callVars
  <1>5. CASE Open(mode)
    <2>1. /\ opened' = TRUE /\ access' = AccessOf(mode) /\ entry' = size'
          /\ size' \in {0, entry} /\ fptr' \in {0, size'} /\ err' = FALSE
          /\ modified' \in BOOLEAN /\ offset' = 0
      BY <1>5 DEF Open
    <2>2. access' \in {"r", "w", "rw"}
      BY <2>1 DEF AccessOf
    <2>3. size' \in 0..MaxSize /\ fptr' \in 0..MaxSize
      BY <1>1, <1>4, <2>1 DEF DescriptorOK
    <2>4. fptr' <= size'
      BY <2>1, <2>3, FileAssumption, SMT DEF FileAssumption
    <2>5. DescriptorOK'
      BY <1>4, <2>1, <2>2, <2>3, <2>4 DEF DescriptorOK, FileOK, Marked
    <2> QED BY <1>3, <2>5, InvParts
  <1>6. CASE OpenFails(mode)
    <2>1. entry' \in {0, entry} /\ UNCHANGED <<opened, fil, offset>>
      BY <1>6 DEF OpenFails
    <2>2. entry' \in 0..MaxSize
      BY <1>1, <1>4, <2>1 DEF DescriptorOK
    <2>3. DescriptorOK'
      BY <1>1, <1>2, <1>4, <2>1, <2>2 DEF DescriptorOK, fil
    <2> QED BY <1>3, <2>3, InvParts
  <1> QED BY <1>5, <1>6

\* A seek leaves an offset that fits and a pointer that is in the file.
LEMMA SeekKeeps ==
  ASSUME FileInv, NEW whence \in {"set", "cur", "end"}, NEW pos \in Seeks, Seek(whence, pos)
  PROVE  FileInv'
  <1> DEFINE to == (From(whence) + pos) % OffsetMod
  <1>1. DescriptorOK /\ CallOK
    BY InvParts
  <1>2. /\ opened /\ pc = "idle" /\ UNCHANGED <<opened, entry, callVars>> /\ FileOK /\ Marked
    BY <1>1 DEF Seek, DescriptorOK
  <1>3. to \in 0..(OffsetMod - 1)
    <2>1. From(whence) \in Int
      BY <1>1, FileAssumption, SMT DEF From, DescriptorOK, FileAssumption
    <2>2. From(whence) + pos \in Int
      BY <2>1, FileAssumption, SMT DEF FileAssumption
    <2> QED BY <2>2, FileAssumption, SMT DEF FileAssumption
  <1>4. /\ FSeek(to) \/ FSeekAborts(to) \/ Refused
        /\ offset' = to \/ offset' = offset
    BY DEF Seek
  <1> HIDE DEF to
  <1>5. to \in Nat
    BY <1>3, FileAssumption, SMT DEF FileAssumption
  <1>6. FileOK' /\ Marked'
    BY <1>2, <1>4, <1>5, LseekKeeps
  <1>7. offset' \in 0..(OffsetMod - 1)
    BY <1>1, <1>3, <1>4 DEF DescriptorOK
  <1>8. DescriptorOK'
    BY <1>1, <1>2, <1>6, <1>7 DEF DescriptorOK, FileOK
  <1>9. CallOK'
    BY <1>1, <1>2, Elsewhere DEF callVars
  <1> QED BY <1>8, <1>9, InvParts

\* ftruncate's two steps: the seek, and the cut.
LEMMA FtruncateKeeps ==
  ASSUME FileInv, TruncateHere \/ \E to \in 0..MaxSize : Truncate(to)
  PROVE  FileInv'
  <1>1. DescriptorOK /\ CallOK
    BY InvParts
  <1>2. /\ opened /\ pc' \in {"idle", "truncate"} /\ FileOK /\ Marked
        /\ UNCHANGED <<opened, entry, offset, request, ptr, bytes, transfer, moved, result>>
    BY <1>1 DEF Truncate, TruncateHere, DescriptorOK
  <1>3. FileOK' /\ Marked'
    <2>1. ASSUME NEW to \in 0..MaxSize, Truncate(to) PROVE FileOK' /\ Marked'
      <3>1. to \in Nat
        BY FileAssumption, SMT DEF FileAssumption
      <3> QED BY <1>2, <2>1, <3>1, LseekKeeps DEF Truncate
    <2>2. CASE TruncateHere
      BY <1>2, <2>2, TruncateKeeps DEF TruncateHere
    <2> QED BY <2>1, <2>2
  <1>4. DescriptorOK'
    BY <1>1, <1>2, <1>3, OpenFileKeeps
  <1>5. CallOK'
    BY <1>1, <1>2, Elsewhere
  <1> QED BY <1>4, <1>5, InvParts

\* fsync, and close, which syncs too.
LEMMA FsyncKeeps ==
  ASSUME FileInv, Fsync \/ Close
  PROVE  FileInv'
  <1>1. DescriptorOK /\ CallOK
    BY InvParts
  <1>2. /\ pc = "idle" /\ FileOK /\ Marked /\ UNCHANGED <<offset, callVars>>
        /\ opened' \in BOOLEAN /\ entry \in 0..MaxSize
        /\ FSync \/ (Refused /\ UNCHANGED entry)
    BY <1>1 DEF Fsync, Close, DescriptorOK
  <1>3. FileOK' /\ Marked' /\ entry' \in 0..MaxSize
    BY <1>2, FSyncKeeps
  <1>4. DescriptorOK'
    BY <1>1, <1>2, <1>3 DEF DescriptorOK, FileOK, callVars
  <1>5. CallOK'
    BY <1>1, <1>2, Elsewhere DEF callVars
  <1> QED BY <1>4, <1>5, InvParts

-----------------------------------------------------------------------------
(* Every step, and the theorems.                                             *)

\* Each step has its lemma.
LEMMA NextKeeps == FileInv /\ [Next]_vars => FileInv'
  <1> SUFFICES ASSUME FileInv, [Next]_vars PROVE FileInv'
    OBVIOUS
  <1>1. CASE Call
    BY <1>1, OpenKeeps, SeekKeeps, FtruncateKeeps, FsyncKeeps, RestOfCallKeeps DEF Call
  <1>2. CASE Step
    BY <1>2, FtruncateKeeps, RestOfCallKeeps, TransferKeeps DEF Step
  <1>3. CASE UNCHANGED vars
    BY <1>3 DEF vars, fil, request, transfer, FileInv, TypeOK, AnswerCountsMoved, InCall,
       TransfersAreAligned, PointerInFile, EntryIsSize
  <1> QED BY <1>1, <1>2, <1>3 DEF Next

\* The invariant always holds.
LEMMA Invariance == Spec => []FileInv
  BY FileStarts, NextKeeps, PTL DEF Spec

\* The variables of ExtUsbFile keep their types: no position, size or count
\* leaves its range.
THEOREM FileTypes == Spec => []TypeOK
  BY Invariance, PTL DEF FileInv

\* read and write answer with the number of bytes that are in the caller's
\* buffer, or in the file, without gap or overlap.
THEOREM AnswersAreCounts == Spec => []AnswerCountsMoved
  BY Invariance, PTL DEF FileInv

\* Every transfer is of whole cache lines in place, or within one line through
\* alignedBuffer, and within the request.
THEOREM TransfersAligned == Spec => []TransfersAreAligned
  BY Invariance, PTL DEF FileInv

\* The subtraction of f_read does not wrap.
THEOREM PointerStaysInFile == Spec => []PointerInFile
  BY Invariance, PTL DEF FileInv

\* The directory entry, which fstat and SEEK_END read, has the size of the open
\* file unless a change waits to be synced.
THEOREM EntryFollowsSize == Spec => []EntryIsSize
  BY Invariance, PTL DEF FileInv
=============================================================================
