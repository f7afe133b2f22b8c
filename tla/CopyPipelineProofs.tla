------------------------- MODULE CopyPipelineProofs -------------------------
(***************************************************************************)
(* The safety of CopyPipeline for every pool, buffer size and file length. *)
(*                                                                         *)
(* The inductive invariant is TypeOK, SinglePlace, InOrder and CopyInv.    *)
(* InOrder alone is not inductive: that fwrite appends the right units     *)
(* needs the contents and the order of all the buffers on their way        *)
(* (InFlight), that fread does not change those needs SinglePlace, and     *)
(* that a result of true means a whole file needs the places the two       *)
(* threads and the end marker can be in (Control).                         *)
(***************************************************************************)
EXTENDS CopyPipeline, TLAPS, SequenceTheorems

(* Facts about the queues.                                                   *)

\* A pop takes the front and moves the others up by one place.
LEMMA PopFacts ==
  ASSUME NEW S, NEW q \in Seq(S), q # <<>>
  PROVE  /\ Head(q) \in S /\ Head(q) = q[1]
         /\ Tail(q) \in Seq(S)
         /\ Len(q) \in Nat /\ 1 \in 1..Len(q)
         /\ Len(Tail(q)) = Len(q) - 1
         /\ \A i \in 1..Len(Tail(q)) :
              i + 1 \in 1..Len(q) /\ i + 1 # 1 /\ Tail(q)[i] = q[i + 1]
  BY HeadTailProperties, LenProperties

\* A push appends: every entry is an old one, in its place, or the new one.
LEMMA PushFacts ==
  ASSUME NEW S, NEW q \in Seq(S), NEW x \in S
  PROVE  /\ Append(q, x) \in Seq(S)
         /\ Len(q) \in Nat
         /\ Len(Append(q, x)) = Len(q) + 1
         /\ \A i \in 1..Len(q) : Append(q, x)[i] = q[i]
         /\ Append(q, x)[Len(q) + 1] = x
         /\ \A i \in 1..Len(Append(q, x)) : i \in 1..Len(q) \/ i = Len(q) + 1
  BY AppendProperties, LenProperties

\* The part of a buffer that fwrite has accepted, as a sequence.
LEMMA FirstUnits ==
  ASSUME NEW S, NEW n \in Nat, NEW f, \A i \in 1..n : f[i] \in S
  PROVE  /\ [i \in 1..n |-> f[i]] \in Seq(S)
         /\ Len([i \in 1..n |-> f[i]]) = n
<1>1. [i \in 1..n |-> f[i]] \in Seq(S)
  BY IsASeq
<1>2. DOMAIN [i \in 1..n |-> f[i]] = 1..n
  OBVIOUS
<1> QED BY <1>1, <1>2, LenProperties

\* The initial state is well typed.
LEMMA InitType == Init => TypeOK
<1> SUFFICES ASSUME Init PROVE TypeOK
  OBVIOUS
<1>1. read \in Seq(file_buffer)
  <2>1. /\ NumBuffers \in Nat
        /\ \A i \in 1..NumBuffers : [buf |-> i, len |-> 0] \in file_buffer
    BY CopyAssumption DEF file_buffer, Buffers
  <2> QED BY <2>1, IsASeq DEF Init
<1>2. mem \in [Buffers -> Memory]
  BY CopyAssumption DEF Init, Memory
<1>3. /\ rbuf \in file_buffer /\ wbuf \in file_buffer
      /\ bytes_written \in 0..BufSize /\ pos \in 0..FileLen
  BY CopyAssumption DEF Init, file_buffer, Buffers
<1>4. write \in Seq(file_buffer) /\ dst \in Seq(0..FileLen)
  BY EmptySeq DEF Init
<1> QED BY <1>1, <1>2, <1>3, <1>4 DEF Init, TypeOK

\* The steps of readThread keep the types; fread does because Available bounds it.
LEMMA ReaderType == TypeOK /\ (ReaderStep \/ ReaderSpuriousWakeup) => TypeOK'
<1> USE DEF TypeOK, readerVars, writerVars, srcVars, dstVars, mainVars
<1>1. TypeOK /\ ReaderPop => TypeOK'
  <2> SUFFICES ASSUME TypeOK, ReaderPop PROVE TypeOK'
    OBVIOUS
  <2>1. CASE read = <<>>
    BY <2>1 DEF ReaderPop
  <2>2. CASE read # <<>>
    <3>1. Head(read) \in file_buffer /\ Tail(read) \in Seq(file_buffer)
      BY <2>2, PopFacts
    <3> QED BY <2>2, <3>1 DEF ReaderPop
  <2> QED BY <2>1, <2>2
<1>2. TypeOK /\ ReaderFread => TypeOK'
  <2> SUFFICES ASSUME TypeOK, ReaderFread PROVE TypeOK'
    OBVIOUS
  <2>1. PICK n \in 0..Available :
          /\ rbuf' = [rbuf EXCEPT !.len = n]
          /\ FreadInto(rbuf.buf, n)
          /\ pos' = pos + n
          /\ srcErr' \in {srcErr, TRUE}
    BY DEF ReaderFread
  <2>2. n \in 0..BufSize /\ n \in 0..(FileLen - pos)
    BY CopyAssumption DEF Available
  <2>3. rbuf' \in file_buffer
    BY <2>1, <2>2 DEF file_buffer
  <2>4. pos' \in 0..FileLen
    BY CopyAssumption, <2>1, <2>2
  <2>5. [i \in 1..BufSize |-> IF i <= n THEN pos + i ELSE mem[rbuf.buf][i]] \in Memory
    <3>1. \A i \in 1..BufSize : i <= n => pos + i \in 0..FileLen
      BY CopyAssumption, <2>2
    <3>2. \A i \in 1..BufSize : mem[rbuf.buf][i] \in 0..FileLen
      BY DEF Memory, file_buffer
    <3> QED BY <3>1, <3>2 DEF Memory
  <2>6. mem' \in [Buffers -> Memory]
    BY <2>1, <2>5 DEF FreadInto
  <2> QED BY <2>1, <2>3, <2>4, <2>6 DEF ReaderFread
<1>3. TypeOK /\ ReaderPush => TypeOK'
  BY PushFacts DEF ReaderPush
<1>4. TypeOK /\ ReaderNotify => TypeOK'
  BY DEF ReaderNotify
<1>5. TypeOK /\ ReaderSpuriousWakeup => TypeOK'
  BY DEF ReaderSpuriousWakeup
<1> QED BY <1>1, <1>2, <1>3, <1>4, <1>5 DEF ReaderStep

\* The steps of writeThread keep the types.
LEMMA WriterType == TypeOK /\ (WriterStep \/ WriterSpuriousWakeup) => TypeOK'
<1> USE DEF TypeOK, readerVars, writerVars, srcVars, dstVars, mainVars
<1>1. TypeOK /\ WriterPop => TypeOK'
  <2> SUFFICES ASSUME TypeOK, WriterPop PROVE TypeOK'
    OBVIOUS
  <2>1. CASE write = <<>>
    BY <2>1 DEF WriterPop
  <2>2. CASE write # <<>>
    <3>1. Head(write) \in file_buffer /\ Tail(write) \in Seq(file_buffer)
      BY <2>2, PopFacts
    <3> QED BY <2>2, <3>1 DEF WriterPop
  <2> QED BY <2>1, <2>2
<1>2. TypeOK /\ WriterFwrite => TypeOK'
  <2> SUFFICES ASSUME TypeOK, WriterFwrite PROVE TypeOK'
    OBVIOUS
  <2>1. CASE wbuf.len = 0
    BY <2>1 DEF WriterFwrite
  <2>2. CASE wbuf.len # 0
    <3>1. PICK n \in 0..wbuf.len :
            /\ bytes_written' = n
            /\ dstErr' \in {dstErr, TRUE}
            /\ dst' = dst \o [i \in 1..n |-> mem[wbuf.buf][i]]
      BY <2>2 DEF WriterFwrite
    <3>2. n \in Nat /\ n \in 0..BufSize
      BY CopyAssumption DEF file_buffer
    <3>3. \A i \in 1..n : mem[wbuf.buf][i] \in 0..FileLen
      BY CopyAssumption, <3>2 DEF Memory, file_buffer
    <3>4. [i \in 1..n |-> mem[wbuf.buf][i]] \in Seq(0..FileLen)
      BY <3>2, <3>3, IsASeq
    <3>5. dst' \in Seq(0..FileLen)
      BY <3>1, <3>4, ConcatProperties
    <3> QED BY <3>1, <3>2, <3>5 DEF WriterFwrite
  <2> QED BY <2>1, <2>2
<1>3. TypeOK /\ WriterPush => TypeOK'
  BY PushFacts DEF WriterPush
<1>4. TypeOK /\ WriterNotify => TypeOK'
  BY DEF WriterNotify
<1>5. TypeOK /\ WriterSpuriousWakeup => TypeOK'
  BY DEF WriterSpuriousWakeup
<1> QED BY <1>1, <1>2, <1>3, <1>4, <1>5 DEF WriterStep

\* The steps of copyFileThreaded itself keep the types.
LEMMA MainType == TypeOK /\ MainStep => TypeOK'
  BY DEF TypeOK, MainStep, LaunchReader, LaunchWriter, GetRead, GetWrite, Destroy, readerVars, writerVars, srcVars, dstVars, mainVars

\* All steps keep the types.
LEMMA TypeStep == TypeOK /\ [Next]_vars => TypeOK'
<1>1. TypeOK /\ UNCHANGED vars => TypeOK'
  BY DEF TypeOK, vars, readerVars, writerVars, srcVars, dstVars, mainVars
<1> QED BY <1>1, ReaderType, WriterType, MainType DEF Next, Returned

\* The pipeline keeps its types.
THEOREM TypeCorrect == Spec => []TypeOK
  BY InitType, TypeStep, PTL DEF Spec
-----------------------------------------------------------------------------
(* A buffer is in one place.                                                 *)

\* All buffers start in the free queue, each once.
LEMMA InitSinglePlace == Init => SinglePlace
<1> SUFFICES ASSUME Init PROVE SinglePlace
  OBVIOUS
<1>1. Len(read) = NumBuffers /\ Len(write) = 0
  BY CopyAssumption, LenProperties DEF Init
<1>2. \A i \in 1..NumBuffers : read[i].buf = i
  BY DEF Init
<1> QED BY CopyAssumption, <1>1, <1>2 DEF Init, SinglePlace, ReaderHolds, WriterHolds

\* readThread hands a buffer on, or keeps it, and never does both.
LEMMA ReaderSinglePlace ==
  TypeOK /\ SinglePlace /\ (ReaderStep \/ ReaderSpuriousWakeup) => SinglePlace'
<1> USE DEF SinglePlace, ReaderHolds, WriterHolds, readerVars, writerVars
<1> SUFFICES ASSUME TypeOK, SinglePlace, ReaderStep \/ ReaderSpuriousWakeup
             PROVE  SinglePlace'
  OBVIOUS
<1>1. CASE ReaderPop /\ read = <<>>
  BY <1>1 DEF ReaderPop
<1>2. CASE ReaderPop /\ read # <<>>
  <2>1. /\ rbuf' = read[1] /\ 1 \in 1..Len(read)
        /\ \A i \in 1..Len(read') :
             i + 1 \in 1..Len(read) /\ i + 1 # 1 /\ read'[i] = read[i + 1]
        /\ Len(read) \in Nat
        /\ \A i, j \in 1..Len(read') : i # j => i + 1 # j + 1
    <3>1. read \in Seq(file_buffer)
      BY DEF TypeOK
    <3>2. rbuf' = Head(read) /\ read' = Tail(read)
      BY <1>2 DEF ReaderPop
    <3> HIDE DEF SinglePlace
    <3> QED BY <1>2, <3>1, <3>2, PopFacts
  <2>2. ~ReaderHolds /\ UNCHANGED <<write, wpc, wbuf>>
    BY <1>2 DEF ReaderPop
  <2>3. \A i, j \in 1..Len(read') : i # j => read'[i].buf # read'[j].buf
    BY <2>1
  <2>4. \A i \in 1..Len(read') :
          /\ \A j \in 1..Len(write') : read'[i].buf # write'[j].buf
          /\ read'[i].buf # rbuf'.buf
    BY <2>1, <2>2
  <2>5. \A i \in 1..Len(write') : write'[i].buf # rbuf'.buf
    BY <2>1, <2>2
  <2>6. WriterHolds' => wbuf'.buf # rbuf'.buf /\ \A i \in 1..Len(read') : read'[i].buf # wbuf'.buf
    BY <2>1, <2>2
  <2> QED BY <2>2, <2>3, <2>4, <2>5, <2>6
<1>3. CASE ReaderFread
  <2>1. rpc' = "push" /\ UNCHANGED <<read, write, wpc, wbuf>> /\ rpc = "fread"
    BY <1>3 DEF ReaderFread
  <2>2. rbuf'.buf = rbuf.buf
    BY <1>3 DEF ReaderFread, TypeOK, file_buffer
  <2> QED BY <2>1, <2>2
<1>4. CASE ReaderPush
  <2>1. /\ \A i \in 1..Len(write) : write'[i] = write[i]
        /\ write'[Len(write) + 1] = rbuf
        /\ \A i \in 1..Len(write') : i \in 1..Len(write) \/ i = Len(write) + 1
    <3>1. write \in Seq(file_buffer) /\ rbuf \in file_buffer
      BY DEF TypeOK
    <3>2. write' = Append(write, rbuf)
      BY <1>4 DEF ReaderPush
    <3> HIDE DEF SinglePlace
    <3> QED BY <3>1, <3>2, PushFacts
  <2>2. /\ ReaderHolds /\ ~ReaderHolds'
        /\ UNCHANGED <<read, wpc, wbuf>>
    BY <1>4 DEF ReaderPush
  <2>3. \A i, j \in 1..Len(write') : i # j => write'[i].buf # write'[j].buf
    BY <2>1, <2>2
  <2>4. \A i \in 1..Len(write'), j \in 1..Len(read') : write'[i].buf # read'[j].buf
    BY <2>1, <2>2
  <2>5. WriterHolds' => \A i \in 1..Len(write') : write'[i].buf # wbuf'.buf
    BY <2>1, <2>2
  <2> QED BY <2>2, <2>3, <2>4, <2>5
<1>5. CASE ReaderNotify
  BY <1>5 DEF ReaderNotify
<1>6. CASE ReaderSpuriousWakeup
  BY <1>6 DEF ReaderSpuriousWakeup
<1> QED BY <1>1, <1>2, <1>3, <1>4, <1>5, <1>6 DEF ReaderStep

\* writeThread hands a buffer on, or keeps it, and never does both.
LEMMA WriterSinglePlace ==
  TypeOK /\ SinglePlace /\ (WriterStep \/ WriterSpuriousWakeup) => SinglePlace'
<1> USE DEF SinglePlace, ReaderHolds, WriterHolds, readerVars, writerVars
<1> SUFFICES ASSUME TypeOK, SinglePlace, WriterStep \/ WriterSpuriousWakeup
             PROVE  SinglePlace'
  OBVIOUS
<1>1. CASE WriterPop /\ write = <<>>
  BY <1>1 DEF WriterPop
<1>2. CASE WriterPop /\ write # <<>>
  <2>1. /\ wbuf' = write[1] /\ 1 \in 1..Len(write)
        /\ \A i \in 1..Len(write') :
             i + 1 \in 1..Len(write) /\ i + 1 # 1 /\ write'[i] = write[i + 1]
        /\ Len(write) \in Nat
        /\ \A i, j \in 1..Len(write') : i # j => i + 1 # j + 1
    <3>1. write \in Seq(file_buffer)
      BY DEF TypeOK
    <3>2. wbuf' = Head(write) /\ write' = Tail(write)
      BY <1>2 DEF WriterPop
    <3> HIDE DEF SinglePlace
    <3> QED BY <1>2, <3>1, <3>2, PopFacts
  <2>2. ~WriterHolds /\ UNCHANGED <<read, rpc, rbuf>>
    BY <1>2 DEF WriterPop
  <2>3. \A i, j \in 1..Len(write') : i # j => write'[i].buf # write'[j].buf
    BY <2>1
  <2>4. \A i \in 1..Len(write') :
          /\ \A j \in 1..Len(read') : write'[i].buf # read'[j].buf
          /\ write'[i].buf # wbuf'.buf
    BY <2>1, <2>2
  <2>5. \A i \in 1..Len(read') : read'[i].buf # wbuf'.buf
    BY <2>1, <2>2
  <2>6. ReaderHolds' => rbuf'.buf # wbuf'.buf /\ \A i \in 1..Len(write') : write'[i].buf # rbuf'.buf
    BY <2>1, <2>2
  <2> QED BY <2>2, <2>3, <2>4, <2>5, <2>6
<1>3. CASE WriterFwrite
  BY <1>3 DEF WriterFwrite
<1>4. CASE WriterPush
  <2>1. /\ \A i \in 1..Len(read) : read'[i] = read[i]
        /\ read'[Len(read) + 1] = wbuf
        /\ \A i \in 1..Len(read') : i \in 1..Len(read) \/ i = Len(read) + 1
    <3>1. read \in Seq(file_buffer) /\ wbuf \in file_buffer
      BY DEF TypeOK
    <3>2. read' = Append(read, wbuf)
      BY <1>4 DEF WriterPush
    <3> HIDE DEF SinglePlace
    <3> QED BY <3>1, <3>2, PushFacts
  <2>2. /\ WriterHolds /\ ~WriterHolds'
        /\ UNCHANGED <<write, rpc, rbuf>>
    BY <1>4 DEF WriterPush
  <2>3. \A i, j \in 1..Len(read') : i # j => read'[i].buf # read'[j].buf
    BY <2>1, <2>2
  <2>4. \A i \in 1..Len(read'), j \in 1..Len(write') : read'[i].buf # write'[j].buf
    BY <2>1, <2>2
  <2>5. ReaderHolds' => \A i \in 1..Len(read') : read'[i].buf # rbuf'.buf
    BY <2>1, <2>2
  <2> QED BY <2>2, <2>3, <2>4, <2>5
<1>5. CASE WriterNotify
  BY <1>5 DEF WriterNotify
<1>6. CASE WriterSpuriousWakeup
  BY <1>6 DEF WriterSpuriousWakeup
<1> QED BY <1>1, <1>2, <1>3, <1>4, <1>5, <1>6 DEF WriterStep

\* No step puts a buffer into a second place.
LEMMA SinglePlaceStep == TypeOK /\ SinglePlace /\ [Next]_vars => SinglePlace'
<1>1. SinglePlace /\ UNCHANGED vars => SinglePlace'
  BY DEF SinglePlace, ReaderHolds, WriterHolds, vars, readerVars, writerVars
<1>2. SinglePlace /\ MainStep => SinglePlace'
  BY DEF SinglePlace, ReaderHolds, WriterHolds, readerVars, writerVars,
         MainStep, LaunchReader, LaunchWriter, GetRead, GetWrite, Destroy
<1> QED BY <1>1, <1>2, ReaderSinglePlace, WriterSinglePlace DEF Next, Returned

\* No buffer is ever in two places: fread never fills what fwrite is sending.
THEOREM NoSharedBuffer == Spec => []SinglePlace
<1>1. Init => TypeOK /\ SinglePlace
  BY InitType, InitSinglePlace
<1>2. TypeOK /\ SinglePlace /\ [Next]_vars => (TypeOK /\ SinglePlace)'
  BY TypeStep, SinglePlaceStep
<1> QED BY <1>1, <1>2, PTL DEF Spec
-----------------------------------------------------------------------------
(* The control of the two threads and of the futures.                        *)

\* The control invariant is inductive, given the types.
LEMMA ControlStep == TypeOK /\ Control /\ [Next]_vars => Control'
<1> USE DEF Control, ReaderFinished, MarkerTaken, WriterGoesOn, readerVars, writerVars, srcVars, dstVars, mainVars
<1> SUFFICES ASSUME TypeOK, Control, [Next]_vars PROVE Control'
  OBVIOUS
<1>0. /\ read \in Seq(file_buffer) /\ write \in Seq(file_buffer)
      /\ rbuf \in file_buffer /\ wbuf \in file_buffer
      /\ Len(read) \in Nat /\ Len(write) \in Nat
      /\ rbuf.len \in Nat /\ wbuf.len \in Nat
  <2>1. rbuf.len \in Nat /\ wbuf.len \in Nat
    BY CopyAssumption DEF TypeOK, file_buffer
  <2> QED BY <2>1, LenProperties DEF TypeOK
<1>1. CASE ReaderPop
  <2>1. /\ rpc = "pop" /\ rpc' \in {"asleep", "fread"}
        /\ UNCHANGED <<write, writerVars, srcVars, dstVars, mainVars>>
    BY <1>1 DEF ReaderPop
  <2> QED BY <2>1
<1>2. CASE ReaderFread
  <2>1. PICK n \in 0..Available :
          /\ \/ n = Available /\ UNCHANGED srcErr
             \/ ReadFaults /\ n < BufSize /\ srcErr' = TRUE
          /\ rbuf' = [rbuf EXCEPT !.len = n]
          /\ pos' = pos + n
    BY <1>2 DEF ReaderFread
  <2>2. /\ rpc = "fread" /\ rpc' = "push"
        /\ UNCHANGED <<write, writerVars, dstVars, mainVars>>
    BY <1>2 DEF ReaderFread
  <2>3. rbuf'.len = n
    BY <1>0, <2>1 DEF file_buffer
  <2>4. n = 0 /\ n = Available => pos' = FileLen
    BY CopyAssumption, <2>1 DEF TypeOK, Available
  <2>5. n = 0 => pos' = FileLen \/ srcErr'
    BY <2>1, <2>4
  <2> QED BY <2>2, <2>3, <2>5
<1>3. CASE ReaderPush
  BY <1>3 DEF ReaderPush
<1>4. CASE ReaderNotify \/ ReaderSpuriousWakeup
  BY <1>0, <1>4 DEF ReaderNotify, ReaderSpuriousWakeup
<1>5. CASE WriterPop
  BY <1>5 DEF WriterPop
<1>6. CASE WriterFwrite
  BY <1>6 DEF WriterFwrite
<1>7. CASE WriterPush
  BY <1>7 DEF WriterPush
<1>8. CASE WriterNotify \/ WriterSpuriousWakeup
  BY <1>8 DEF WriterNotify, WriterSpuriousWakeup
<1>9. CASE MainStep
  BY <1>9 DEF TypeOK, MainStep, LaunchReader, LaunchWriter, GetRead, GetWrite, Destroy
<1>10. CASE UNCHANGED vars
  BY <1>10 DEF vars
<1> QED
  BY <1>1, <1>2, <1>3, <1>4, <1>5, <1>6, <1>7, <1>8, <1>9, <1>10
  DEF Next, ReaderStep, WriterStep, Returned

\* No thread runs yet, so the control invariant holds.
LEMMA InitControl == Init => Control
<1> SUFFICES ASSUME Init PROVE Control
  OBVIOUS
<1>1. Len(write) = 0
  BY LenProperties DEF Init
<1> QED BY <1>1 DEF Init, Control, MarkerTaken, ReaderFinished, WriterGoesOn

-----------------------------------------------------------------------------
(* The pool stays whole.                                                     *)

\* A pop and a push each move one buffer between a queue and a thread.
LEMMA PoolStep == TypeOK /\ Control /\ NoBufferLost /\ [Next]_vars => NoBufferLost'
<1> USE DEF NoBufferLost, ReaderHolds, WriterHolds, readerVars, writerVars
<1> SUFFICES ASSUME TypeOK, Control, NoBufferLost, [Next]_vars PROVE NoBufferLost'
  OBVIOUS
<1>0. /\ read \in Seq(file_buffer) /\ write \in Seq(file_buffer)
      /\ rbuf \in file_buffer /\ wbuf \in file_buffer
      /\ Len(read) \in Nat /\ Len(write) \in Nat
  BY LenProperties DEF TypeOK
<1>1. CASE ReaderPop
  <2>1. read # <<>> => Len(Tail(read)) = Len(read) - 1
    BY <1>0, PopFacts
  <2>2. CASE read = <<>>
    BY <1>1, <2>2 DEF ReaderPop
  <2>3. CASE read # <<>>
    <3>1. /\ Len(read') = Len(read) - 1 /\ ~ReaderHolds /\ ReaderHolds'
          /\ UNCHANGED <<write, wpc>>
      BY <1>1, <2>1, <2>3 DEF ReaderPop
    <3> QED BY <1>0, <3>1
  <2> QED BY <2>2, <2>3
<1>2. CASE ReaderFread
  BY <1>2 DEF ReaderFread
<1>3. CASE ReaderPush
  <2>1. Len(Append(write, rbuf)) = Len(write) + 1
    BY <1>0, PushFacts
  <2> QED BY <1>0, <1>3, <2>1 DEF ReaderPush
<1>4. CASE ReaderNotify \/ ReaderSpuriousWakeup
  BY <1>4 DEF ReaderNotify, ReaderSpuriousWakeup
<1>5. CASE WriterPop
  <2>1. write # <<>> => Len(Tail(write)) = Len(write) - 1
    BY <1>0, PopFacts
  <2>2. CASE write = <<>>
    BY <1>5, <2>2 DEF WriterPop
  <2>3. CASE write # <<>>
    <3>1. /\ Len(write') = Len(write) - 1 /\ ~WriterHolds /\ WriterHolds'
          /\ UNCHANGED <<read, rpc>>
      BY <1>5, <2>1, <2>3 DEF WriterPop
    <3> QED BY <1>0, <3>1
  <2> QED BY <2>2, <2>3
<1>6. CASE WriterFwrite
  BY <1>6 DEF WriterFwrite
<1>7. CASE WriterPush
  <2>1. Len(Append(read, wbuf)) = Len(read) + 1
    BY <1>0, PushFacts
  <2> QED BY <1>0, <1>7, <2>1 DEF WriterPush
<1>8. CASE WriterNotify \/ WriterSpuriousWakeup
  BY <1>8 DEF WriterNotify, WriterSpuriousWakeup
<1>9. CASE MainStep
  BY <1>9 DEF Control, MainStep, LaunchReader, LaunchWriter, GetRead, GetWrite, Destroy
<1>10. CASE UNCHANGED vars
  BY <1>10 DEF vars
<1> QED
  BY <1>1, <1>2, <1>3, <1>4, <1>5, <1>6, <1>7, <1>8, <1>9, <1>10
  DEF Next, ReaderStep, WriterStep, Returned

\* No path of either thread, the failing ones included, drops a buffer.
THEOREM PoolConserved == Spec => []NoBufferLost
<1>1. Init => TypeOK /\ Control /\ NoBufferLost
  <2>1. Init => Len(read) = NumBuffers /\ Len(write) = 0
    BY CopyAssumption, LenProperties DEF Init
  <2> QED BY CopyAssumption, <2>1, InitType, InitControl DEF Init, NoBufferLost, ReaderHolds, WriterHolds
<1>2. TypeOK /\ Control /\ NoBufferLost /\ [Next]_vars => (TypeOK /\ Control /\ NoBufferLost)'
  BY TypeStep, ControlStep, PoolStep
<1> QED BY <1>1, <1>2, PTL DEF Spec

\* Every buffer is in exactly one place, for any pool and on every path.
THEOREM BuffersStay == Spec => []BuffersAccounted
<1>1. SinglePlace /\ NoBufferLost => BuffersAccounted
  BY DEF BuffersAccounted
<1> QED BY <1>1, NoSharedBuffer, PoolConserved, PTL

-----------------------------------------------------------------------------
(* What is on its way is in file order.                                      *)

\* Nothing has been read, so nothing is in flight.
LEMMA InitInFlight == Init => InFlight
<1> SUFFICES ASSUME Init PROVE InFlight
  OBVIOUS
<1> DEFINE at == [j \in 1..1 |-> 0]
<1>1. Len(write) = 0 /\ Len(dst) = 0
  BY LenProperties DEF Init
<1>2. at \in [1..(Len(write) + 1) -> 0..pos]
  BY <1>1 DEF Init
<1>3. Chained(at)
  BY <1>1 DEF Init, Chained, Unsent, Unqueued
<1> QED BY <1>2, <1>3 DEF Init, InFlight

\* The numbers the step lemmas below calculate with.
LEMMA Numbers ==
  ASSUME TypeOK
  PROVE  /\ read \in Seq(file_buffer) /\ write \in Seq(file_buffer)
         /\ Len(write) \in Nat /\ Len(dst) \in Nat /\ pos \in Nat
         /\ rbuf \in file_buffer /\ wbuf \in file_buffer
         /\ rbuf.len \in Nat /\ wbuf.len \in Nat
         /\ \A j \in 1..Len(write) : write[j] \in file_buffer /\ write[j].len \in Nat
<1>1. \A x \in file_buffer : x.len \in Nat
  BY CopyAssumption DEF file_buffer
<1>2. write \in Seq(file_buffer) /\ dst \in Seq(0..FileLen)
  BY DEF TypeOK
<1>3. \A j \in 1..Len(write) : write[j] \in file_buffer
  BY <1>2, ElementOfSeq
<1>4. Len(write) \in Nat /\ Len(dst) \in Nat
  BY <1>2, LenProperties
<1> QED BY CopyAssumption, <1>1, <1>2, <1>3, <1>4 DEF TypeOK

\* Steps that touch neither the data nor what is sent and queued.
LEMMA InFlightSame ==
  ASSUME InFlight, UNCHANGED <<write, mem, pos, dst, dstErr>>,
         Unsent' = Unsent, Unqueued' = Unqueued,
         rpc' = "push" => rpc = "push" /\ rbuf' = rbuf,
         wpc' = "fwrite" => wpc = "fwrite" /\ wbuf' = wbuf
  PROVE  InFlight'
<1>1. PICK at \in [1..(Len(write) + 1) -> 0..pos] : Chained(at)
  BY DEF InFlight
<1>2. Chained(at)'
  BY <1>1 DEF Chained, Carries
<1>3. at \in [1..(Len(write') + 1) -> 0..pos']
  BY <1>1
<1> QED BY <1>2, <1>3 DEF InFlight, Carries

\* fread fills the reader's own buffer, which carries the units from pos on;
\* it is in no queue and not the writer's, so nothing in flight changes.
LEMMA FreadInFlight ==
  ASSUME TypeOK, SinglePlace, InFlight, ReaderFread
  PROVE  InFlight'
<1>1. PICK at \in [1..(Len(write) + 1) -> 0..pos] : Chained(at)
  BY DEF InFlight
<1>2. PICK n \in 0..Available :
        /\ rbuf' = [rbuf EXCEPT !.len = n]
        /\ mem' = [mem EXCEPT ![rbuf.buf] =
                     [i \in 1..BufSize |-> IF i <= n THEN pos + i ELSE @[i]]]
        /\ pos' = pos + n
  BY DEF ReaderFread, FreadInto
<1>3. /\ rpc = "fread" /\ rpc' = "push"
      /\ UNCHANGED <<write, wpc, wbuf, dst, dstErr>>
  BY DEF ReaderFread, writerVars, dstVars
<1>4. n \in Nat /\ n <= BufSize /\ BufSize \in Nat
  BY CopyAssumption DEF TypeOK, Available
<1>5. rbuf.buf \in Buffers /\ rbuf'.buf = rbuf.buf /\ rbuf'.len = n
  BY <1>2 DEF TypeOK, file_buffer
<1>6. \A b \in Buffers : b # rbuf.buf => mem'[b] = mem[b]
  BY <1>2 DEF TypeOK
<1>7. \A s : \A x \in file_buffer : x.buf # rbuf.buf => (Carries(x, s)' <=> Carries(x, s))
  BY <1>6 DEF Carries, file_buffer
<1>8. \A j \in 1..Len(write) : write[j] \in file_buffer /\ write[j].buf # rbuf.buf
  BY <1>3, Numbers DEF SinglePlace, ReaderHolds
<1>9. Chained(at)'
  <2>1. \A j \in 1..Len(write) : Carries(write[j], at[j])'
    BY <1>1, <1>3, <1>7, <1>8 DEF Chained
  <2>2. pos' - Unqueued' = pos - Unqueued
    BY <1>2, <1>3, <1>4, <1>5, Numbers DEF Unqueued
  <2>3. Unsent' = Unsent
    BY <1>3 DEF Unsent
  <2> QED BY <1>1, <1>3, <2>1, <2>2, <2>3 DEF Chained
<1>10. at \in [1..(Len(write') + 1) -> 0..pos']
  BY <1>1, <1>2, <1>3, <1>4, Numbers
<1>11. Carries(rbuf, pos - rbuf.len)'
  <2>1. \A i \in 1..n : mem'[rbuf.buf][i] = pos + i
    BY <1>2, <1>4, <1>5 DEF TypeOK
  <2>2. pos' - rbuf'.len = pos
    BY <1>2, <1>4, <1>5, Numbers
  <2> QED BY <1>5, <2>1, <2>2 DEF Carries
<1>12. wpc' = "fwrite" => Carries(wbuf, Len(dst))'
  <2>1. wpc = "fwrite" => wbuf \in file_buffer /\ wbuf.buf # rbuf.buf /\ Carries(wbuf, Len(dst))
    BY <1>3, Numbers DEF SinglePlace, ReaderHolds, WriterHolds, InFlight
  <2> QED BY <1>3, <1>7, <2>1
<1> QED BY <1>9, <1>10, <1>11, <1>12 DEF InFlight

\* A push turns the buffer the reader holds into the last one in flight.
LEMMA PushInFlight ==
  ASSUME TypeOK, InFlight, ReaderPush
  PROVE  InFlight'
<1>1. PICK at \in [1..(Len(write) + 1) -> 0..pos] : Chained(at)
  BY DEF InFlight
<1> PICK L \in Nat : L = Len(write)
  BY Numbers
<1> PICK at1 : at1 = [j \in 1..(L + 2) |-> IF j <= L + 1 THEN at[j] ELSE pos]
  OBVIOUS
<1>2. /\ Len(write') = L + 1 /\ write'[L + 1] = rbuf
      /\ \A j \in 1..L : write'[j] = write[j]
  BY Numbers, PushFacts DEF ReaderPush
<1>3. /\ rpc = "push" /\ rpc' = "notify"
      /\ UNCHANGED <<mem, wpc, wbuf, pos, dst, dstErr>>
  BY DEF ReaderPush, writerVars, srcVars, dstVars
<1>4. L \in Nat /\ pos \in Nat /\ rbuf.len \in Nat
  BY Numbers
<1>5. /\ at1[L + 1] = pos - rbuf.len /\ at1[L + 2] = pos
      /\ \A j \in 1..(L + 1) : at1[j] = at[j]
  BY <1>1, <1>3, <1>4 DEF Chained, Unqueued
<1>6. at1 \in [1..(Len(write') + 1) -> 0..pos']
  BY <1>1, <1>2, <1>3, <1>4
<1>7. Chained(at1)'
  <2>1. ASSUME NEW j \in 1..Len(write')
        PROVE  at1[j + 1] = at1[j] + write'[j].len /\ Carries(write[j], at1[j])'
    <3>1. CASE j \in 1..L
      <4>1. at[j + 1] = at[j] + write[j].len /\ Carries(write[j], at[j])
        BY <1>1, <3>1 DEF Chained
      <4>2. at1[j] = at[j] /\ at1[j + 1] = at[j + 1]
        BY <1>4, <1>5, <3>1
      <4>3. Carries(write[j], at1[j])' <=> Carries(write[j], at[j])
        BY <1>2, <1>3, <3>1, <4>2 DEF Carries
      <4>4. at1[j + 1] = at1[j] + write'[j].len
        BY <1>2, <3>1, <4>1, <4>2
      <4> QED BY <4>1, <4>3, <4>4 DEF Carries
    <3>2. CASE j = L + 1
      <4>1. Carries(rbuf, pos - rbuf.len)
        BY <1>3 DEF InFlight
      <4>2. at1[j] = pos - rbuf.len /\ at1[j + 1] = pos /\ write'[j] = rbuf
        BY <1>2, <1>4, <1>5, <3>2
      <4>3. at1[j + 1] = at1[j] + write'[j].len
        BY <1>4, <4>2
      <4>4. Carries(write[j], at1[j])'
        BY <1>3, <4>1, <4>2 DEF Carries
      <4> QED BY <4>3, <4>4
    <3> QED BY <1>2, <1>4, <3>1, <3>2
  <2>2. at1[Len(write') + 1] = pos' - Unqueued'
    BY <1>2, <1>3, <1>4, <1>5 DEF Unqueued
  <2>3. at1[1] = at[1] /\ Unsent' = Unsent
    BY <1>3, <1>4, <1>5 DEF Unsent
  <2> QED BY <1>1, <1>3, <2>1, <2>2, <2>3 DEF Chained
<1>8. Carries(wbuf, Len(dst))' <=> Carries(wbuf, Len(dst))
  BY <1>3 DEF Carries
<1> QED BY <1>3, <1>6, <1>7, <1>8 DEF InFlight

\* A pop turns the first buffer in flight into the one the writer sends.
LEMMA PopInFlight ==
  ASSUME TypeOK, InFlight, Control, WriterPop, write # <<>>
  PROVE  InFlight'
<1>1. PICK at \in [1..(Len(write) + 1) -> 0..pos] : Chained(at)
  BY DEF InFlight
<1> PICK L \in Nat : L = Len(write)
  BY Numbers
<1> PICK at1 : at1 = [j \in 1..L |-> at[j + 1]]
  OBVIOUS
<1>2. /\ L \in Nat /\ 1 \in 1..L /\ Len(write') = L - 1 /\ wbuf' = write[1]
      /\ \A j \in 1..Len(write') : write'[j] = write[j + 1] /\ j + 1 \in 1..L
  <2>1. write \in Seq(file_buffer) /\ write # <<>>
    BY Numbers
  <2>2. wbuf' = Head(write) /\ write' = Tail(write)
    BY DEF WriterPop
  <2> QED BY <2>1, <2>2, PopFacts
<1>3. /\ wpc = "pop" /\ wpc' = "fwrite"
      /\ UNCHANGED <<mem, rpc, rbuf, pos, dst, dstErr>>
  BY DEF WriterPop, readerVars, srcVars, dstVars
<1>4. \A j \in 1..L : at1[j] = at[j + 1]
  OBVIOUS
<1>5. at1 \in [1..(Len(write') + 1) -> 0..pos']
  BY <1>1, <1>2, <1>3
<1>6. at[2] = at[1] + write[1].len /\ Carries(write[1], at[1]) /\ at[1] = Len(dst)
  <2>1. ~dstErr
    BY <1>3 DEF Control
  <2>2. at[1] = Len(dst)
    BY <1>1, <1>3, <2>1, Numbers DEF Chained, Unsent
  <2> QED BY <1>1, <1>2, <2>2 DEF Chained
<1>7. Chained(at1)'
  <2>1. ASSUME NEW j \in 1..Len(write')
        PROVE  at1[j + 1] = at1[j] + write'[j].len /\ Carries(write[j], at1[j])'
    <3>1. j + 1 \in 1..L /\ write'[j] = write[j + 1]
      BY <1>2
    <3>2. at[j + 1 + 1] = at[j + 1] + write[j + 1].len /\ Carries(write[j + 1], at[j + 1])
      BY <1>1, <3>1 DEF Chained
    <3>3. at1[j] = at[j + 1] /\ at1[j + 1] = at[j + 1 + 1]
      BY <1>2, <1>4, <3>1
    <3> QED BY <1>3, <3>1, <3>2, <3>3 DEF Carries
  <2>2. at1[Len(write') + 1] = pos' - Unqueued'
    BY <1>1, <1>2, <1>3, <1>4 DEF Chained, Unqueued
  <2>3. at1[1] = Len(dst') + Unsent'
    BY <1>2, <1>3, <1>4, <1>6 DEF Unsent
  <2>4. Len(dst') + Unsent' <= at1[1]
    BY <1>5, <2>3, <1>2
  <2> QED BY <2>1, <2>2, <2>3, <2>4 DEF Chained
<1>8. Carries(wbuf, Len(dst))'
  BY <1>2, <1>3, <1>6 DEF Carries
<1>9. rpc' = "push" => Carries(rbuf, pos - rbuf.len)'
  BY <1>3 DEF InFlight, Carries
<1> QED BY <1>3, <1>5, <1>7, <1>8, <1>9 DEF InFlight

\* fwrite takes a prefix of the writer's buffer, which carries the units that
\* come next: all of it, or part of it and the error flag.
LEMMA FwriteFacts ==
  ASSUME TypeOK, InFlight, InOrder, WriterFwrite
  PROVE  /\ \E n \in 0..wbuf.len :
              /\ Len(dst') = Len(dst) + n
              /\ n = wbuf.len \/ dstErr'
              /\ \A i \in 1..Len(dst') : dst'[i] = i
         /\ dstErr => dstErr'
<1>1. CASE wbuf.len = 0
  BY <1>1, Numbers DEF WriterFwrite, dstVars, InOrder
<1>2. CASE wbuf.len # 0
  <2>1. PICK n \in 0..wbuf.len :
          /\ \/ n = wbuf.len /\ UNCHANGED dstErr
             \/ n < wbuf.len /\ dstErr' = TRUE
          /\ dst' = dst \o [i \in 1..n |-> mem[wbuf.buf][i]]
    BY <1>2 DEF WriterFwrite
  <2> DEFINE part == [i \in 1..n |-> mem[wbuf.buf][i]]
  <2>2. n \in Nat /\ n <= BufSize /\ BufSize \in Nat
    BY CopyAssumption, Numbers DEF file_buffer
  <2>3. \A i \in 1..n : mem[wbuf.buf][i] \in 0..FileLen
    <3>1. wbuf.buf \in Buffers /\ \A i \in 1..n : i \in 1..BufSize
      BY <2>2 DEF TypeOK, file_buffer
    <3>2. mem[wbuf.buf] \in [1..BufSize -> 0..FileLen]
      BY <3>1 DEF TypeOK, Memory
    <3> QED BY <3>1, <3>2
  <2>4. part \in Seq(0..FileLen) /\ Len(part) = n
    BY <2>2, <2>3, FirstUnits
  <2>5. \A i \in 1..n : part[i] = Len(dst) + i
    <3>1. Carries(wbuf, Len(dst))
      BY DEF InFlight, WriterFwrite
    <3>2. \A i \in 1..n : i \in 1..wbuf.len
      BY <2>2, Numbers
    <3> QED BY <3>1, <3>2 DEF Carries
  <2>6. dst \in Seq(0..FileLen)
    BY DEF TypeOK
  <2> HIDE DEF part
  <2>7. /\ Len(dst') = Len(dst) + n
        /\ \A i \in 1..Len(dst') :
             dst'[i] = IF i <= Len(dst) THEN dst[i] ELSE part[i - Len(dst)]
    <3>1. dst' = dst \o part
      BY <2>1 DEF part
    <3>2. /\ Len(dst \o part) = Len(dst) + Len(part)
          /\ \A i \in 1..(Len(dst) + Len(part)) :
               (dst \o part)[i] = IF i <= Len(dst) THEN dst[i] ELSE part[i - Len(dst)]
      BY <2>4, <2>6, ConcatProperties, ZenonT(30)
    <3> QED BY <2>4, <3>1, <3>2, ZenonT(30)
  <2>8. ASSUME NEW i \in 1..Len(dst') PROVE dst'[i] = i
    <3>1. CASE i <= Len(dst)
      BY <2>7, <3>1, Numbers DEF InOrder
    <3>2. CASE i > Len(dst)
      <4>1. i - Len(dst) \in 1..n
        BY <2>2, <2>7, <3>2, Numbers
      <4>2. part[i - Len(dst)] = Len(dst) + (i - Len(dst))
        BY <2>5, <4>1
      <4> QED BY <2>7, <3>2, <4>2, Numbers
    <3> QED BY <2>2, <2>7, <3>1, <3>2, Numbers
  <2> QED BY <2>1, <2>7, <2>8 DEF TypeOK
<1> QED BY <1>1, <1>2

\* What is in flight after an fwrite starts where the destination ends.
LEMMA FwriteInFlight ==
  ASSUME TypeOK, InFlight, InOrder, WriterFwrite
  PROVE  InFlight'
<1>1. PICK at \in [1..(Len(write) + 1) -> 0..pos] : Chained(at)
  BY DEF InFlight
<1>2. PICK n \in 0..wbuf.len :
        /\ Len(dst') = Len(dst) + n
        /\ n = wbuf.len \/ dstErr'
  BY FwriteFacts
<1>3. /\ wpc = "fwrite" /\ wpc' = "push"
      /\ UNCHANGED <<write, mem, wbuf, rpc, rbuf, pos>>
  BY DEF WriterFwrite, readerVars, srcVars
<1>4. Chained(at)'
  <2>1. \A j \in 1..Len(write) :
          at[j + 1] = at[j] + write[j].len /\ Carries(write[j], at[j])'
    BY <1>1, <1>3 DEF Chained, Carries
  <2>2. Len(dst') + Unsent' <= at[1] /\ (~dstErr' => at[1] = Len(dst') + Unsent')
    <3>1. Len(dst) + wbuf.len <= at[1] /\ (~dstErr => at[1] = Len(dst) + wbuf.len)
      BY <1>1, <1>3 DEF Chained, Unsent
    <3>2. at[1] \in Nat /\ Unsent' = 0 /\ n \in Nat /\ n <= wbuf.len
      BY <1>1, <1>3, Numbers DEF Unsent
    <3> QED BY <1>2, <3>1, <3>2, FwriteFacts, Numbers
  <2> QED BY <1>1, <1>3, <2>1, <2>2 DEF Chained, Unqueued
<1>5. rpc' = "push" => Carries(rbuf, pos - rbuf.len)'
  BY <1>3 DEF InFlight, Carries
<1> QED BY <1>1, <1>3, <1>4, <1>5 DEF InFlight

\* All steps keep what is in flight in file order.
LEMMA InFlightStep ==
  TypeOK /\ SinglePlace /\ Control /\ InFlight /\ InOrder /\ [Next]_vars => InFlight'
<1> SUFFICES ASSUME TypeOK, SinglePlace, Control, InFlight, InOrder, [Next]_vars
             PROVE  InFlight'
  OBVIOUS
<1> USE DEF readerVars, writerVars, srcVars, dstVars, mainVars
<1>1. CASE ReaderPop
  BY <1>1, InFlightSame DEF ReaderPop, Unsent, Unqueued
<1>2. CASE ReaderFread
  BY <1>2, FreadInFlight
<1>3. CASE ReaderPush
  BY <1>3, PushInFlight
<1>4. CASE ReaderNotify \/ ReaderSpuriousWakeup
  BY <1>4, InFlightSame DEF ReaderNotify, ReaderSpuriousWakeup, Unsent, Unqueued
<1>5. CASE WriterPop /\ write # <<>>
  BY <1>5, PopInFlight
<1>6. CASE WriterPop /\ write = <<>>
  BY <1>6, InFlightSame DEF WriterPop, Unsent, Unqueued
<1>7. CASE WriterFwrite
  BY <1>7, FwriteInFlight
<1>8. CASE WriterPush \/ WriterNotify \/ WriterSpuriousWakeup
  BY <1>8, InFlightSame
  DEF WriterPush, WriterNotify, WriterSpuriousWakeup, Unsent, Unqueued
<1>9. CASE MainStep
  BY <1>9, InFlightSame
  DEF MainStep, LaunchReader, LaunchWriter, GetRead, GetWrite, Destroy, Unsent, Unqueued, Control
<1>10. CASE UNCHANGED vars
  BY <1>10, InFlightSame DEF vars, Unsent, Unqueued
<1> QED
  BY <1>1, <1>2, <1>3, <1>4, <1>5, <1>6, <1>7, <1>8, <1>9, <1>10
  DEF Next, ReaderStep, WriterStep, Returned

\* The destination grows by what follows it in the file, so it stays a prefix.
LEMMA InOrderStep == TypeOK /\ InFlight /\ InOrder /\ [Next]_vars => InOrder'
<1> SUFFICES ASSUME TypeOK, InFlight, InOrder, [Next]_vars PROVE InOrder'
  OBVIOUS
<1>1. CASE WriterFwrite
  BY <1>1, FwriteFacts DEF InOrder
<1>2. CASE dst' = dst
  BY <1>2 DEF InOrder
<1> QED
  BY <1>1, <1>2
  DEF Next, ReaderStep, WriterStep, MainStep, Returned, vars, dstVars,
      ReaderPop, ReaderFread, ReaderPush, ReaderNotify, ReaderSpuriousWakeup,
      WriterPop, WriterPush, WriterNotify, WriterSpuriousWakeup,
      LaunchReader, LaunchWriter, GetRead, GetWrite, Destroy

Inductive == TypeOK /\ SinglePlace /\ InOrder /\ CopyInv

\* The initial state satisfies the inductive invariant.
LEMMA InductiveInit == Init => Inductive
<1>1. Init => InOrder
  BY LenProperties DEF Init, InOrder
<1> QED BY <1>1, InitType, InitSinglePlace, InitControl, InitInFlight
        DEF Inductive, CopyInv

\* All steps keep the inductive invariant.
LEMMA InductiveStep == Inductive /\ [Next]_vars => Inductive'
  BY TypeStep, SinglePlaceStep, ControlStep, InFlightStep, InOrderStep
  DEF Inductive, CopyInv

\* Everything read and not yet written is on its way in file order, for every
\* number of buffers, size of buffer and length of file.
THEOREM FlowInvariant == Spec => []CopyInv
<1>1. Inductive => CopyInv
  BY DEF Inductive
<1> QED BY <1>1, InductiveInit, InductiveStep, PTL DEF Spec

\* The destination is a prefix of the source at every moment.
THEOREM PrefixOrder == Spec => []InOrder
<1>1. Inductive => InOrder
  BY DEF Inductive
<1> QED BY <1>1, InductiveInit, InductiveStep, PTL DEF Spec

\* The reader starves only behind a failed fwrite: with the end marker popped the
\* queue of filled buffers would be empty, and it holds the whole pool.
THEOREM StarvationIsExplained == Spec => []StarvesOnlyAfterWriteError
<1>1. TypeOK /\ CopyInv /\ NoBufferLost => StarvesOnlyAfterWriteError
  <2> SUFFICES ASSUME TypeOK, Control, NoBufferLost, Starved
               PROVE  dstErr /\ Len(write) = NumBuffers
    BY DEF CopyInv, StarvesOnlyAfterWriteError
  <2>1. ~ReaderHolds /\ ~WriterHolds /\ Len(read) = 0 /\ wpc = "done"
    BY LenProperties DEF Starved, ReaderHolds, WriterHolds
  <2>2. Len(write) = NumBuffers
    BY <2>1, LenProperties DEF NoBufferLost, TypeOK
  <2>3. wbuf.len # 0
    <3>1. write # <<>>
      BY <2>2, CopyAssumption, LenProperties
    <3> QED BY <2>1, <3>1 DEF Control, MarkerTaken
  <2>4. wbuf.len > 0
    BY <2>3, CopyAssumption DEF TypeOK, file_buffer
  <2>5. bytes_written # wbuf.len
    BY <2>1, <2>4 DEF Control, WriterGoesOn
  <2>6. dstErr
    BY <2>1, <2>4, <2>5, Zenon DEF Control
  <2> QED BY <2>2, <2>6
<1> QED BY <1>1, TypeCorrect, FlowInvariant, PoolConserved, PTL

\* No consumer sleeps beside a filled queue unless its notify is on the way.
THEOREM WakeupsArrive == Spec => []NoLostWakeup
<1>1. Init => NoLostWakeup
  BY DEF Init, NoLostWakeup
<1>2. Inductive /\ NoLostWakeup /\ [Next]_vars => NoLostWakeup'
  <2> SUFFICES ASSUME Inductive, NoLostWakeup, [Next]_vars PROVE NoLostWakeup'
    OBVIOUS
  <2> USE DEF NoLostWakeup, readerVars, writerVars
  <2>1. CASE ReaderStep \/ ReaderSpuriousWakeup
    BY <2>1 DEF ReaderStep, ReaderPop, ReaderFread, ReaderPush, ReaderNotify,
                ReaderSpuriousWakeup
  <2>2. CASE WriterStep \/ WriterSpuriousWakeup
    BY <2>2 DEF WriterStep, WriterPop, WriterFwrite, WriterPush, WriterNotify,
                WriterSpuriousWakeup
  <2>3. CASE MainStep \/ UNCHANGED vars
    BY <2>3 DEF Inductive, CopyInv, Control,
                MainStep, LaunchReader, LaunchWriter, GetRead, GetWrite, Destroy, vars
  <2> QED BY <2>1, <2>2, <2>3 DEF Next, Returned
<1> QED BY <1>1, <1>2, InductiveInit, InductiveStep, PTL DEF Spec

-----------------------------------------------------------------------------
(* The pipeline keeps the promise of StreamCopy.                             *)

\* At the end the result tells whether all of the file was copied.
LEMMA CompletedCopy ==
  ASSUME Inductive, mpc = "destroy", wpc = "done"
  PROVE  IF success THEN ~(srcErr \/ dstErr) /\ Len(dst) = FileLen
                    ELSE srcErr \/ dstErr
<1> USE DEF Inductive, CopyInv
<1>1. CASE srcErr
  BY <1>1 DEF Control
<1>2. CASE ~srcErr /\ dstErr
  BY <1>2 DEF Control
<1>3. CASE ~srcErr /\ ~dstErr
  <2>1. rpc = "done" /\ rbuf.len = 0 /\ pos = FileLen /\ success
    BY <1>3 DEF Control, TypeOK
  <2>2. wbuf.len = 0
    <3>1. ~(wbuf.len > 0)
      BY <1>3 DEF Control, WriterGoesOn
    <3> QED BY <3>1, Numbers
  <2>3. write = <<>>
    BY <2>2 DEF Control, MarkerTaken
  <2>4. PICK at : Chained(at)
    BY DEF InFlight
  <2>5. at[1] = pos
    <3>1. Len(write) = 0
      BY <2>3, LenProperties
    <3> QED BY <2>1, <2>4, <3>1, Numbers DEF Chained, Unqueued
  <2>6. at[1] = Len(dst)
    BY <1>3, <2>4, Numbers DEF Chained, Unsent
  <2> QED BY <1>3, <2>1, <2>5, <2>6
<1> QED BY <1>1, <1>2, <1>3

\* A prefix of the source is the sequence StreamCopy counts to.
LEMMA PrefixIsIdentity ==
  ASSUME TypeOK, InOrder PROVE dst = SC!Identity(Len(dst))
<1>1. dst \in Seq(0..FileLen)
  BY DEF TypeOK
<1>2. DOMAIN dst = 1..Len(dst) /\ dst = [i \in 1..Len(dst) |-> dst[i]]
  BY <1>1, LenProperties
<1> QED BY <1>2 DEF InOrder, SC!Identity

\* The destination never has more than the source.
LEMMA DestinationBound == Inductive => Len(dst) \in 0..FileLen
<1> SUFFICES ASSUME Inductive PROVE Len(dst) \in 0..FileLen
  OBVIOUS
<1>1. TypeOK /\ InFlight
  BY DEF Inductive, CopyInv
<1>2. PICK at \in [1..(Len(write) + 1) -> 0..pos] : Chained(at)
  BY <1>1 DEF InFlight
<1>3. at[1] \in 0..pos /\ Unsent \in Nat /\ Len(dst) + Unsent <= at[1]
  BY <1>1, <1>2, Numbers DEF Chained, Unsent
<1> QED BY CopyAssumption, <1>1, <1>3, Numbers DEF TypeOK

\* Neither the destination nor a raised error is ever taken back.
LEMMA Monotone ==
  ASSUME Inductive, [Next]_vars
  PROVE  /\ Len(dst') \in Len(dst)..FileLen
         /\ srcErr \/ dstErr => srcErr' \/ dstErr'
<1>1. Len(dst') \in 0..FileLen
  <2>1. Inductive'
    BY InductiveStep
  <2>2. (Inductive => Len(dst) \in 0..FileLen)'
    BY DestinationBound, PTL
  <2> QED BY <2>1, <2>2
<1>2. Len(dst) <= Len(dst') /\ (dstErr => dstErr')
  <2>1. CASE WriterFwrite
    <3>1. Len(dst) \in Nat
      BY Numbers DEF Inductive
    <3>2. wbuf.len \in Nat
      BY Numbers DEF Inductive
    <3> QED BY <2>1, <3>1, <3>2, FwriteFacts DEF Inductive, CopyInv
  <2>2. CASE UNCHANGED dstVars
    BY <2>2, Numbers DEF dstVars, Inductive
  <2> QED
    BY <2>1, <2>2
    DEF Next, ReaderStep, WriterStep, MainStep, Returned, vars, dstVars,
        ReaderPop, ReaderFread, ReaderPush, ReaderNotify, ReaderSpuriousWakeup,
        WriterPop, WriterPush, WriterNotify, WriterSpuriousWakeup,
        LaunchReader, LaunchWriter, GetRead, GetWrite, Destroy
<1>3. srcErr => srcErr'
  BY DEF Next, ReaderStep, WriterStep, MainStep, Returned, vars, srcVars,
        ReaderPop, ReaderFread, ReaderPush, ReaderNotify, ReaderSpuriousWakeup,
        WriterPop, WriterFwrite, WriterPush, WriterNotify, WriterSpuriousWakeup,
        LaunchReader, LaunchWriter, GetRead, GetWrite, Destroy
<1>4. Len(dst) \in Nat
  BY Numbers DEF Inductive
<1> QED BY <1>1, <1>2, <1>3, <1>4

\* The abstract step behind a step of the code: leaving copyFileThreaded is
\* Finish, everything before it is Transfer.
LEMMA StepSimulation == Inductive /\ Inductive' /\ [Next]_vars => [SC!Next]_(SC!vars)
<1> SUFFICES ASSUME Inductive, Inductive', [Next]_vars PROVE [SC!Next]_(SC!vars)
  OBVIOUS
<1>1. CASE Destroy
  <2>1. /\ mpc = "destroy" /\ mpc' = "returned" /\ wpc = "done"
        /\ UNCHANGED <<dst, srcErr, dstErr, success>>
    BY <1>1 DEF Destroy, srcVars, dstVars
  <2>2. IF success THEN ~(srcErr \/ dstErr) /\ Len(dst) = FileLen ELSE srcErr \/ dstErr
    BY <2>1, CompletedCopy
  <2>3. SC!Finish
    BY <2>1, <2>2 DEF SC!Finish
  <2> QED BY <2>3 DEF SC!Next
<1>2. CASE mpc # "returned" /\ mpc' # "returned"
  <2>1. dst' = SC!Identity(Len(dst'))
    <3>1. (TypeOK /\ InOrder => dst = SC!Identity(Len(dst)))'
      BY PrefixIsIdentity, PTL
    <3> QED BY <3>1 DEF Inductive, SC!Identity
  <2>2. Len(dst') \in Len(dst)..FileLen
    BY Monotone
  <2>3. (srcErr' \/ dstErr') \in {srcErr \/ dstErr, TRUE}
    BY Monotone DEF Inductive, TypeOK
  <2>4. SC!Transfer
    BY <1>2, <2>1, <2>2, <2>3 DEF SC!Transfer
  <2> QED BY <2>4 DEF SC!Next
<1>3. CASE mpc = "returned"
  <2>1. rpc = "done" /\ wpc = "done"
    BY <1>3 DEF Inductive, CopyInv, Control
  <2>2. UNCHANGED <<dst, srcErr, dstErr, mpc, success>>
    BY <1>3, <2>1
    DEF Next, ReaderStep, WriterStep, MainStep, Returned, vars, srcVars, dstVars, mainVars,
        ReaderPop, ReaderFread, ReaderPush, ReaderNotify, ReaderSpuriousWakeup,
        WriterPop, WriterFwrite, WriterPush, WriterNotify, WriterSpuriousWakeup,
        LaunchReader, LaunchWriter, GetRead, GetWrite, Destroy
  <2> QED BY <2>2 DEF SC!vars
<1>4. mpc # "returned" /\ mpc' = "returned" => Destroy
  BY DEF Next, ReaderStep, WriterStep, MainStep, Returned, vars, mainVars,
         ReaderPop, ReaderFread, ReaderPush, ReaderNotify, ReaderSpuriousWakeup,
         WriterPop, WriterFwrite, WriterPush, WriterNotify, WriterSpuriousWakeup,
         LaunchReader, LaunchWriter, GetRead, GetWrite
<1> QED BY <1>1, <1>2, <1>3, <1>4

\* copyFileThreaded implements StreamCopy: the units arrive in order, "ok" is
\* returned only for a complete copy without error, and every failure is told.
THEOREM PipelineImplementsStreamCopy == Spec => CopiesStream
<1>1. Init => SC!Init
  BY DEF Init, SC!Init
<1> QED BY <1>1, InductiveInit, InductiveStep, StepSimulation, PTL
        DEF Spec, CopiesStream, SC!Spec
=============================================================================
