---------------------------- MODULE ProgramProofs ----------------------------
(***************************************************************************)
(* Proofs about main and what it calls: InstallSession, one installation   *)
(* after another, and ProgramRun, main from its start to its end.          *)
(*                                                                         *)
(* The safety of InstallSession for any number of titles, with or without  *)
(* failing requests and deferred calls: the inductive invariant is TypeOK  *)
(* and SessionInv.  MCPIsAwaited needs to know that `processing` stays set *)
(* while MCP owes its callback (Owed), and HangsOnlyOnRefusal that main    *)
(* leaves its loops, and calls again, only behind a worker that is done    *)
(* (Places).                                                               *)
(*                                                                         *)
(* Of ProgramRun, that the drive and the volume are used as they may be.   *)
(* What has to be added is where main can be when: the volume is freed     *)
(* only on the way to cleanup, where only extusb_fs_initialised keeps      *)
(* fini_extusb_devoptab from touching it.                                  *)
(***************************************************************************)
EXTENDS InstallSession, UsbVolume, TLAPS

\* The initial state is well typed.
LEMMA InitType == Init => TypeOK
<1>1. 0 \in 0..Titles
  BY InstallAssumption
<1> QED BY <1>1 DEF Init, TypeOK, Codes

\* The steps of install() keep the types.
LEMMA WorkerType == TypeOK /\ Worker => TypeOK'
<1> SUFFICES ASSUME TypeOK, Worker PROVE TypeOK'
  OBVIOUS
<1> USE DEF TypeOK, Codes, workerVars, mainVars, mcpVars, power, folders
<1>1. UNCHANGED <<initialized, mpc, lastKey, result, title>>
  BY DEF Worker
<1>2. CASE NotInitialized
  BY <1>1, <1>2 DEF NotInitialized
<1>3. CASE Lock
  BY <1>1, <1>3 DEF Lock
<1>4. CASE Prepare
  BY <1>1, <1>4 DEF Prepare, Request, Answers
<1>5. CASE Arm
  BY <1>1, <1>5 DEF Arm
<1>12. CASE Wait
  BY <1>1, <1>12 DEF Wait
<1>6. CASE Start
  BY <1>1, <1>6 DEF Start, Answers
<1>7. CASE Started
  BY <1>1, <1>7 DEF Started, Request
<1>8. CASE Poll
  BY <1>1, <1>8 DEF Poll
<1>13. CASE Store
  BY <1>1, <1>13 DEF Store
<1>9. CASE Judge
  BY <1>1, <1>9 DEF Judge
<1>15. CASE Switch
  BY <1>1, <1>15 DEF Switch
<1>16. CASE Succeed
  BY <1>1, <1>16 DEF Succeed
<1>10. CASE RemoveFolders
  <2>1. removed' \in BOOLEAN /\ cleaned' \in BOOLEAN
    BY <1>10 DEF RemoveFolders
  <2>2. /\ wpc \in {"remove", "clean"} /\ wpc' = "cleanup"
        /\ UNCHANGED <<lastErr, processing, polled, exitString, err, apdDisabled, locked,
                       mcp, outcome, abort>>
    BY <1>10 DEF RemoveFolders
  <2> QED BY <1>1, <2>1, <2>2
<1>14. CASE Cleanup
  <2>1. apdDisabled' \in BOOLEAN /\ locked' \in BOOLEAN
    BY <1>14 DEF Cleanup
  <2>2. /\ wpc = "cleanup" /\ wpc' = "return"
        /\ UNCHANGED <<lastErr, processing, polled, exitString, err, removed, cleaned,
                       mcp, outcome, abort>>
    BY <1>14 DEF Cleanup
  <2> QED BY <1>1, <2>1, <2>2
<1>11. CASE Return
  BY <1>1, <1>11 DEF Return
<1> QED BY <1>2, <1>3, <1>4, <1>5, <1>6, <1>7, <1>8, <1>9, <1>10, <1>11,
          <1>12, <1>13, <1>14, <1>15, <1>16 DEF Worker

\* MCP and its callback keep the types: a callback comes with a result.
LEMMA MCPType == TypeOK /\ SessionInv /\ MCP => TypeOK'
<1> SUFFICES ASSUME TypeOK, SessionInv, MCP PROVE TypeOK'
  OBVIOUS
<1> USE DEF TypeOK, Codes, MCP, workerVars, mainVars, power, folders
<1>1. CASE Complete
  BY <1>1 DEF Complete
<1>2. CASE CallbackErr
  <2>1. outcome # "none"
    BY <1>2 DEF CallbackErr, SessionInv, Owed
  <2> QED BY <1>2, <2>1 DEF CallbackErr
<1>3. CASE CallbackFlag
  <2>1. processing' \in BOOLEAN
    BY <1>3 DEF CallbackFlag
  <2>2. /\ mcp' = "idle"
        /\ UNCHANGED <<initialized, lastErr, outcome, abort, wpc, polled, exitString, err,
                       apdDisabled, locked, removed, cleaned, mpc, lastKey, result, title>>
    BY <1>3 DEF CallbackFlag
  <2> QED BY <2>1, <2>2
<1> QED BY <1>1, <1>2, <1>3 DEF MCP

\* The steps of copyAndInstall keep the types.
LEMMA MainType == TypeOK /\ Main => TypeOK'
<1> SUFFICES ASSUME TypeOK, Main PROVE TypeOK'
  OBVIOUS
<1> USE InstallAssumption DEF TypeOK, Codes, workerVars, mcpVars, power, folders
<1>1. UNCHANGED <<initialized, processing>>
  BY DEF Main
<1>2. CASE CopyFails
  BY <1>1, <1>2 DEF CopyFails
<1>3. CASE Launch
  <2>1. title' \in 0..Titles
    BY <1>3 DEF Launch
  <2>2. abort' \in BOOLEAN /\ removed' \in BOOLEAN /\ cleaned' \in BOOLEAN
    BY <1>3 DEF Launch
  <2>3. wpc' \in {"lock", "deferred"}
    BY <1>3 DEF Launch
  <2>4. /\ mpc' = "await_start" /\ result' = "none" /\ outcome' = "none"
        /\ err' = "ok" /\ exitString' = "none"
        /\ UNCHANGED <<lastErr, polled, apdDisabled, locked, lastKey, mcp>>
    BY <1>3 DEF Launch
  <2> QED BY <1>1, <2>1, <2>2, <2>3, <2>4
<1>4. CASE AwaitStart
  BY <1>1, <1>4 DEF AwaitStart
<1>8. CASE Check
  BY <1>1, <1>8 DEF Check
<1>5. CASE Key
  BY <1>1, <1>5 DEF Key
<1>6. CASE CancelAbort
  BY <1>1, <1>6 DEF CancelAbort
<1>9. CASE CancelMark
  BY <1>1, <1>9 DEF CancelMark
<1>7. CASE Get
  BY <1>1, <1>7 DEF Get
<1> QED BY <1>2, <1>3, <1>4, <1>5, <1>6, <1>7, <1>8, <1>9 DEF Main

\* All steps keep the types.
LEMMA TypeStep == TypeOK /\ SessionInv /\ [Next]_vars => TypeOK'
<1>1. TypeOK /\ UNCHANGED vars => TypeOK'
  BY DEF TypeOK, vars, workerVars, mainVars, mcpVars, power, folders
<1> QED BY <1>1, WorkerType, MCPType, MainType DEF Next, Finished, Spin

\* Before the first call nothing is locked, armed or installing.
LEMMA InitSession == Init => SessionInv
  BY DEF Init, SessionInv, MCPIsAwaited, PowerAndLock, Places, Owed

\* Each statement of install() keeps the invariant.
LEMMA WorkerSession == TypeOK /\ SessionInv /\ Worker => SessionInv'
<1> SUFFICES ASSUME TypeOK, SessionInv, Worker PROVE SessionInv'
  OBVIOUS
<1> USE DEF TypeOK, SessionInv, MCPIsAwaited, PowerAndLock, Places, Owed,
            workerVars, mainVars, mcpVars, power, folders
<1>1. UNCHANGED <<initialized, mpc, lastKey, result, title>>
  BY DEF Worker
<1>2. CASE NotInitialized
  BY <1>1, <1>2 DEF NotInitialized
<1>3. CASE Lock
  BY <1>1, <1>3 DEF Lock
<1>4. CASE Prepare
  BY <1>1, <1>4 DEF Prepare, Request, Answers
<1>5. CASE Arm
  BY <1>1, <1>5 DEF Arm
<1>12. CASE Wait
  BY <1>1, <1>12 DEF Wait
<1>6. CASE Start
  BY <1>1, <1>6 DEF Start, Answers
<1>7. CASE Started
  BY <1>1, <1>7 DEF Started, Request
<1>8. CASE Poll
  BY <1>1, <1>8 DEF Poll
<1>13. CASE Store
  BY <1>1, <1>13 DEF Store
<1>9. CASE Judge
  BY <1>1, <1>9 DEF Judge
<1>15. CASE Switch
  BY <1>1, <1>15 DEF Switch
<1>16. CASE Succeed
  BY <1>1, <1>16 DEF Succeed
<1>10. CASE RemoveFolders
  <2>1. removed' \in BOOLEAN /\ cleaned' \in BOOLEAN
    BY <1>10 DEF RemoveFolders
  <2>2. /\ wpc \in {"remove", "clean"} /\ wpc' = "cleanup"
        /\ UNCHANGED <<lastErr, processing, polled, exitString, err, apdDisabled, locked,
                       mcp, outcome, abort>>
    BY <1>10 DEF RemoveFolders
  <2> QED BY <1>1, <2>1, <2>2
<1>14. CASE Cleanup
  BY <1>1, <1>14 DEF Cleanup
<1>11. CASE Return
  BY <1>1, <1>11 DEF Return
<1> QED BY <1>2, <1>3, <1>4, <1>5, <1>6, <1>7, <1>8, <1>9, <1>10, <1>11,
          <1>12, <1>13, <1>14, <1>15, <1>16 DEF Worker

\* The callback finds install() waiting, and pays what MCP owes.
LEMMA MCPSession == TypeOK /\ SessionInv /\ MCP => SessionInv'
<1> SUFFICES ASSUME TypeOK, SessionInv, MCP PROVE SessionInv'
  OBVIOUS
<1> USE DEF TypeOK, SessionInv, MCPIsAwaited, PowerAndLock, Places, Owed, MCP,
            workerVars, mainVars, power, folders
<1>1. CASE Complete
  BY <1>1 DEF Complete
<1>2. CASE CallbackErr
  BY <1>2 DEF CallbackErr
<1>3. CASE CallbackFlag
  BY <1>3 DEF CallbackFlag
<1> QED BY <1>1, <1>2, <1>3 DEF MCP

\* copyAndInstall, which only starts a worker and reads its flag, keeps it too.
LEMMA MainSession == TypeOK /\ SessionInv /\ Main => SessionInv'
<1> SUFFICES ASSUME TypeOK, SessionInv, Main PROVE SessionInv'
  OBVIOUS
<1> USE DEF TypeOK, SessionInv, MCPIsAwaited, PowerAndLock, Places, Owed,
            workerVars, mcpVars, power, folders
<1>1. UNCHANGED <<initialized, processing>>
  BY DEF Main
<1>2. CASE CopyFails
  BY <1>1, <1>2 DEF CopyFails
<1>3. CASE Launch
  BY <1>1, <1>3 DEF Launch
<1>4. CASE AwaitStart
  BY <1>1, <1>4 DEF AwaitStart
<1>8. CASE Check
  BY <1>1, <1>8 DEF Check
<1>5. CASE Key
  BY <1>1, <1>5 DEF Key
<1>6. CASE CancelAbort
  BY <1>1, <1>6 DEF CancelAbort
<1>9. CASE CancelMark
  BY <1>1, <1>9 DEF CancelMark
<1>7. CASE Get
  BY <1>1, <1>7 DEF Get
<1> QED BY <1>2, <1>3, <1>4, <1>5, <1>6, <1>7, <1>8, <1>9 DEF Main

\* The invariant is inductive.
LEMMA SessionStep == TypeOK /\ SessionInv /\ [Next]_vars => SessionInv'
<1>1. SessionInv /\ UNCHANGED vars => SessionInv'
  BY DEF SessionInv, MCPIsAwaited, PowerAndLock, Places, Owed, vars, workerVars,
         mainVars, mcpVars, power, folders
<1> QED BY <1>1, WorkerSession, MCPSession, MainSession DEF Next, Finished, Spin

\* It holds of every state of every session.
LEMMA Session == Spec => [](TypeOK /\ SessionInv)
  BY InitType, TypeStep, InitSession, SessionStep, PTL DEF Spec

\* The variables keep their types; lastErr only ever holds a code of the list.
THEOREM SessionTypes == Spec => []TypeOK
  BY Session, PTL

\* No callback comes for an installation install() has given up, and no folder is
\* removed under a running one.
THEOREM CallbackIsAwaited == Spec => []MCPIsAwaited
<1>1. TypeOK /\ SessionInv => MCPIsAwaited
  BY DEF SessionInv
<1> QED BY <1>1, Session, PTL

\* installLock and auto power down are given back on every path out of install().
THEOREM LockIsReturned == Spec => []PowerAndLock
<1>1. TypeOK /\ SessionInv => PowerAndLock
  BY DEF SessionInv
<1> QED BY <1>1, Session, PTL

\* The only way for main to hang in its second loop is a request MCP refused.
THEOREM OnlyRefusalHangs == Spec => []HangsOnlyOnRefusal
<1>1. TypeOK /\ SessionInv => HangsOnlyOnRefusal
  BY DEF TypeOK, SessionInv, Owed, Stranded, HangsOnlyOnRefusal
<1> QED BY <1>1, Session, PTL

-----------------------------------------------------------------------------
(* ProgramRun, with its variables; the client's `initialized` is clientReady,  *)
(* as the Installer has one too.                                             *)

CONSTANT MaxEntries
VARIABLES pc, registered, clientReady, listed, extusb_fs_initialised, left, app

Run == INSTANCE ProgramRun WITH initialized <- clientReady

BeforeMount == {"start", "initFs", "devoptab"}
Using == {"chdir", "opendir", "readdir"}

\* The volume is there as long as the device is set up, and not before main asked.
Lifetime ==
    /\ extusb_fs_initialised = 1 <=> FatFs = "live"
    /\ pc \in BeforeMount => FatFs = "none" /\ fatMounted = 0
    /\ pc \in Using => FatFs = "live"

\* How often the client has been added by the time main is at pc.
Clients ==
    /\ (clientReady = 1 /\ pc \in BeforeMount \cup Using \cup {"fini", "unmount"}) => registered >= 1
    /\ pc \in {"start", "initFs"} => registered = 0
    /\ pc \in BeforeMount \cup Using \cup {"fini", "unmount"} => registered <= 1
    /\ pc = "cleanupFs" => registered >= 1

RunInv == Run!TypeOK /\ Run!VolumeIsBacked /\ Run!FreedIsLeftAlone /\ Lifetime /\ Clients

LEMMA RunStarts == MaxEntries \in Nat /\ Run!Init => RunInv
  BY DEF Run!Init, Run!Shut, Run!VolumeTypes, RunInv, Run!TypeOK, Run!VolumeIsBacked, Run!FreedIsLeftAlone, Lifetime, Clients, BeforeMount, Using, Run!Bit

\* mount_volume leaves a volume that is there backed, if it was so.
LEMMA MountKeeps ==
  ASSUME NEW ok \in Run!Bit, Run!mount_volume(ok), Run!TypeOK, Run!VolumeIsBacked, FatFs = "live",
         UNCHANGED FatFs
  PROVE  /\ Run!VolumeIsBacked'
         /\ fs_type' \in Run!Bit /\ fatMounted' \in Run!Bit /\ cached' \in Run!Bit /\ handles' \in Nat
  BY DEF Run!mount_volume, Run!Attach, Run!Refused, Run!StillMounted, Run!TypeOK, Run!VolumeTypes, Run!VolumeIsBacked, Run!drive, Run!Bit

\* Every step keeps the inductive invariant.
LEMMA RunStep == MaxEntries \in Nat /\ RunInv /\ [Run!Next]_(Run!vars) => RunInv'
<1> SUFFICES ASSUME MaxEntries \in Nat, RunInv, [Run!Next]_(Run!vars) PROVE RunInv'
  OBVIOUS
<1> USE DEF RunInv, Run!VolumeTypes, Run!TypeOK, Run!FreedIsLeftAlone, Lifetime, Clients, BeforeMount, Using, Run!Goto, Run!Bit
<1>1. CASE Run!Start
  BY <1>1 DEF Run!Start, Run!VolumeIsBacked, Run!client, Run!volume, Run!drive
<1>2. CASE Run!CallInitFs
  BY <1>2 DEF Run!CallInitFs, Run!InitFs, Run!VolumeIsBacked, Run!client, Run!volume, Run!drive
<1>3. CASE Run!NoDevice
  BY <1>3 DEF Run!NoDevice, Run!f_unmount, Run!Touched, Run!VolumeIsBacked, Run!client, Run!volume, Run!drive
<1>4. CASE Run!Mount
  BY <1>4 DEF Run!Mount, Run!Attach, Run!Refused, Run!Touched, Run!VolumeIsBacked, Run!client, Run!drive
<1>5. CASE Run!Chdir
  <2>1. PICK ok \in Run!Bit : Run!mount_volume(ok)
    BY <1>5 DEF Run!Chdir
  <2>2. /\ FatFs = "live" /\ pc \in Using
        /\ UNCHANGED <<registered, clientReady, FatFs, listed, extusb_fs_initialised, left, app>>
        /\ pc' = "opendir" /\ touched' = touched
    BY <1>5 DEF Run!Chdir, Run!Touched, Run!client
  <2> QED
    BY <2>1, <2>2, MountKeeps
<1>6. CASE Run!OpenDir
  <2>1. PICK ok \in Run!Bit : Run!mount_volume(ok)
    BY <1>6 DEF Run!OpenDir
  <2>2. /\ FatFs = "live" /\ pc \in Using
        /\ UNCHANGED <<registered, clientReady, FatFs, listed, extusb_fs_initialised, app>>
        /\ pc' \in {"readdir", "fini"} /\ left' \in 0..MaxEntries /\ touched' = touched
    BY <1>6 DEF Run!OpenDir, Run!Touched, Run!client
  <2> QED
    BY <2>1, <2>2, MountKeeps
<1>7. CASE Run!ReadDir
  BY <1>7 DEF Run!ReadDir, Run!Touched, Run!VolumeIsBacked, Run!client, Run!drive
<1>8. CASE Run!Fini
  BY <1>8 DEF Run!Fini, Run!Finished, Run!f_unmount, Run!Touched, Run!VolumeIsBacked, Run!client, Run!volume, Run!drive
<1>9. CASE Run!Unmount
  BY <1>9 DEF Run!Unmount, Run!InitFs, Run!VolumeIsBacked, Run!client, Run!volume, Run!drive
<1>10. CASE Run!CleanupFs
  BY <1>10 DEF Run!CleanupFs, Run!VolumeIsBacked, Run!volume, Run!drive
<1>11. CASE Run!WaitForKey
  BY <1>11 DEF Run!WaitForKey, Run!VolumeIsBacked, Run!client, Run!volume, Run!drive
<1>12. CASE Run!Stopped
  BY <1>12 DEF Run!Stopped, Run!VolumeIsBacked, Run!client, Run!volume, Run!drive
<1>13. CASE \E message \in Run!Messages : Run!AppRunning(message)
  BY <1>13 DEF Run!AppRunning, Run!After, Run!VolumeIsBacked, Run!client, Run!volume, Run!drive
<1>14. CASE UNCHANGED Run!vars
  BY <1>14 DEF Run!vars, Run!VolumeIsBacked, Run!client, Run!volume, Run!drive
<1> QED
  BY <1>1, <1>2, <1>3, <1>4, <1>5, <1>6, <1>7, <1>8, <1>9, <1>10, <1>11, <1>12, <1>13, <1>14
     DEF Run!Next, Run!Main

LEMMA RunHolds == ASSUME MaxEntries \in Nat PROVE Run!Spec => []RunInv
  BY RunStarts, RunStep, PTL DEF Run!Spec

\* The variables keep their types: fsClient is added twice at most.
THEOREM RunTypes == ASSUME MaxEntries \in Nat PROVE Run!Spec => []Run!TypeOK
  BY RunHolds, PTL DEF RunInv

\* A mounted volume has its memory, its cache and its drive, which is opened
\* once (diskio.c:109).
THEOREM DriveOpenedOnce == ASSUME MaxEntries \in Nat PROVE Run!Spec => []VolumeIsBacked
<1>1. RunInv => VolumeIsBacked
  BY DEF RunInv, Run!VolumeIsBacked, VolumeIsBacked
<1> QED BY <1>1, RunHolds, PTL

\* The volume that init_extusb_devoptab freed is not used again
\* (extusb_devoptab.c:67).
THEOREM NoUseAfterFree == ASSUME MaxEntries \in Nat PROVE Run!Spec => []FreedIsLeftAlone
<1>1. RunInv => FreedIsLeftAlone
  BY DEF RunInv, Run!FreedIsLeftAlone, FreedIsLeftAlone
<1> QED BY <1>1, RunHolds, PTL
=============================================================================
