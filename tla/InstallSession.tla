--------------------------- MODULE InstallSession ---------------------------
(***************************************************************************)
(* copyAndInstall (main.cpp) and the Installer it drives (Installer.cpp):  *)
(* the main thread, the std::async worker that runs Installer::install,    *)
(* MCP's installation, which runs on its own and ends by calling           *)
(* mcpInstallCallback, and the user at the HOME button.                    *)
(*                                                                         *)
(* lastErr is a plain integer three of them write and `processing` is the  *)
(* flag by which both waiting loops know the end, so every read or write   *)
(* of either is a step of its own.  Error codes are abstracted to          *)
(*   ok (0), cancelled (MCP_INSTALL_CANCELLED), aborted (what MCP calls    *)
(*   back with after an abort), failed (any other MCP error).              *)
(***************************************************************************)
EXTENDS Integers

CONSTANTS Titles,      \* how many titles copyAndInstall is called for
          PrepFaults,  \* may GetInfo, SetTargetDevice, InstallTitleAsync fail?
          MayDefer     \* may std::async fall back to a deferred call?

ASSUME InstallAssumption ==
  /\ Titles \in Nat \ {0}
  /\ PrepFaults \in BOOLEAN
  /\ MayDefer \in BOOLEAN

VARIABLES
  initialized,           \* Installer: its constructor got an MCP handle
  lastErr, processing,   \* Installer
  wpc, polled,           \* install(): where, MCP's last answer
  exitString, err,       \* its text, and the code it returns
  apdDisabled, locked,   \* IMDisableAPD / IMEnableAPD, installLock
  removed, cleaned,      \* removeFolder(wupPath), cleanupCancelledInstallation
  mpc, lastKey,          \* copyAndInstall: where; utils.cpp's lastKey
  result, title,         \* what copyAndInstall returned, for which call
  mcp, outcome, abort    \* MCP: its installation, how it ended, an abort arrived

power      == <<apdDisabled, locked>>
folders    == <<removed, cleaned>>
workerVars == <<wpc, polled, exitString, err, power, folders>>
mainVars   == <<mpc, lastKey, result, title>>
mcpVars    == <<mcp, outcome, abort>>
vars == <<initialized, lastErr, processing, workerVars, mainVars, mcpVars>>

\* What MCP may answer to a request; an error only where the model allows it.
Answers == IF PrepFaults THEN {"ok", "failed"} ELSE {"ok"}

-----------------------------------------------------------------------------
(* Installer::install, on the worker.                                        *)

NotInitialized ==
  /\ wpc = "lock"
  /\ ~initialized
  /\ err' = "failed" /\ exitString' = "error"
  /\ wpc' = "done"
  /\ UNCHANGED <<lastErr, processing, polled, power, folders, mcpVars>>

Lock ==
  /\ wpc = "lock"
  /\ initialized
  /\ ~locked
  /\ locked' = TRUE
  /\ apdDisabled' = TRUE
  /\ wpc' = "prepare"
  /\ UNCHANGED <<lastErr, processing, polled, exitString, err, folders, mcpVars>>

\* Mutant: an error path returns past the cleanup.
Request_NoCleanup(code, next) ==
  /\ lastErr' = code
  /\ IF code = "ok"
     THEN wpc' = next /\ UNCHANGED exitString
     ELSE wpc' = "return" /\ exitString' = "error"

\* The answer to one of the three requests: an error ends the installation.
Request(code, next) ==
  /\ lastErr' = code
  /\ IF code = "ok"
     THEN wpc' = next /\ UNCHANGED exitString
     ELSE wpc' = "cleanup" /\ exitString' = "error"

\* MCP_InstallGetInfo, then MCP_InstallSetTargetDevice.
Prepare ==
  /\ wpc = "prepare"
  /\ \E code \in Answers : Request(code, "arm")
  /\ UNCHANGED <<processing, polled, err, power, folders, mcpVars>>

Arm ==
  /\ wpc = "arm"
  /\ processing' = TRUE
  /\ wpc' = "start"
  /\ UNCHANGED <<lastErr, polled, exitString, err, power, folders, mcpVars>>

\* MCP_InstallTitleAsync is called; MCP may be done before the call returns.
Start ==
  /\ wpc = "start"
  /\ polled' \in Answers
  /\ mcp' = IF polled' = "ok" THEN "running" ELSE mcp
  /\ wpc' = "started"
  /\ UNCHANGED <<lastErr, processing, exitString, err, power, folders, outcome, abort>>

\* Its answer is stored.  An error leaves `processing` set.
Started ==
  /\ wpc = "started"
  /\ Request(polled, "wait")
  /\ UNCHANGED <<processing, polled, err, power, folders, mcpVars>>

\* Mutant: an error of GetProgress ends the loop.
Wait_StopOnError ==
  /\ wpc = "wait"
  /\ wpc' = IF processing /\ lastErr = "ok" THEN "poll" ELSE "judge"
  /\ UNCHANGED <<lastErr, processing, polled, exitString, err, power, folders, mcpVars>>

\* while (processing)
Wait ==
  /\ wpc = "wait"
  /\ wpc' = IF processing THEN "poll" ELSE "judge"
  /\ UNCHANGED <<lastErr, processing, polled, exitString, err, power, folders, mcpVars>>

\* MCP_InstallGetProgress is called ...
Poll ==
  /\ wpc = "poll"
  /\ polled' \in {"ok", "failed"}
  /\ wpc' = "store"
  /\ UNCHANGED <<lastErr, processing, exitString, err, power, folders, mcpVars>>

\* ... and its answer stored, over whatever lastErr holds by now.
Store ==
  /\ wpc = "store"
  /\ lastErr' = polled
  /\ wpc' = "wait"
  /\ UNCHANGED <<processing, polled, exitString, err, power, folders, mcpVars>>

\* Behind the loop lastErr decides how the installation went ...
Judge ==
  /\ wpc = "judge"
  /\ wpc' = IF lastErr = "ok" THEN "succeed" ELSE "switch"
  /\ UNCHANGED <<lastErr, processing, polled, exitString, err, power, folders, mcpVars>>

\* ... is read again to tell a cancellation from an error ...
Switch ==
  /\ wpc = "switch"
  /\ IF lastErr = "cancelled"
     THEN wpc' = "clean" /\ exitString' = "Cancelled"
     ELSE wpc' = "cleanup" /\ exitString' = "error"
  /\ UNCHANGED <<lastErr, processing, polled, err, power, folders, mcpVars>>

\* ... and cleared after a success, whatever cancel() has stored since.
Succeed ==
  /\ wpc = "succeed"
  /\ exitString' = "Succeeded"
  /\ lastErr' = "ok"
  /\ wpc' = "remove"
  /\ UNCHANGED <<processing, polled, err, power, folders, mcpVars>>

\* removeFolder(wupPath) or cleanupCancelledInstallation().
RemoveFolders ==
  /\ wpc \in {"remove", "clean"}
  /\ removed' = (removed \/ wpc = "remove")
  /\ cleaned' = (cleaned \/ wpc = "clean")
  /\ wpc' = "cleanup"
  /\ UNCHANGED <<lastErr, processing, polled, exitString, err, power, mcpVars>>

\* Mutant: installLock is not given back.
Cleanup_KeepsLock ==
  /\ wpc = "cleanup"
  /\ apdDisabled' = FALSE
  /\ wpc' = "return"
  /\ UNCHANGED <<lastErr, processing, polled, exitString, err, locked, folders, mcpVars>>

Cleanup ==
  /\ wpc = "cleanup"
  /\ apdDisabled' = FALSE
  /\ locked' = FALSE
  /\ wpc' = "return"
  /\ UNCHANGED <<lastErr, processing, polled, exitString, err, folders, mcpVars>>

\* return {lastErr, exitString}: lastErr is read once more.
Return ==
  /\ wpc = "return"
  /\ err' = lastErr
  /\ wpc' = "done"
  /\ UNCHANGED <<lastErr, processing, polled, exitString, power, folders, mcpVars>>

Worker ==
  /\ \/ NotInitialized \/ Lock \/ Prepare \/ Arm \/ Start \/ Started
     \/ Wait \/ Poll \/ Store \/ Judge \/ Switch \/ Succeed \/ RemoveFolders \/ Cleanup \/ Return
  /\ UNCHANGED <<initialized, mainVars>>

-----------------------------------------------------------------------------
(* MCP and mcpInstallCallback.                                               *)

\* The installation ends; after an abort it usually ends as aborted.
Complete ==
  /\ mcp = "running"
  /\ \/ outcome' \in {"ok", "failed"}
     \/ abort /\ outcome' = "aborted"
  /\ mcp' = "callback"
  /\ UNCHANGED <<lastErr, processing, abort>>

\* Mutant: mcpInstallCallback clears `processing` before it stores the error.
CallbackErr_FlagFirst ==
  /\ mcp = "callback"
  /\ processing' = FALSE
  /\ mcp' = "flag"
  /\ UNCHANGED <<lastErr, outcome, abort>>

CallbackErr ==
  /\ mcp = "callback"
  /\ lastErr' = outcome
  /\ mcp' = "flag"
  /\ UNCHANGED <<processing, outcome, abort>>

\* Mutant: mcpInstallCallback leaves `processing` alone after an error.
CallbackFlag_OnlySuccess ==
  /\ mcp = "flag"
  /\ processing' = (outcome # "ok" /\ processing)
  /\ mcp' = "idle"
  /\ UNCHANGED <<lastErr, outcome, abort>>

CallbackFlag ==
  /\ mcp = "flag"
  /\ processing' = FALSE
  /\ mcp' = "idle"
  /\ UNCHANGED <<lastErr, outcome, abort>>

MCP ==
  /\ Complete \/ CallbackErr \/ CallbackFlag
  /\ UNCHANGED <<initialized, workerVars, mainVars>>

-----------------------------------------------------------------------------
(* copyAndInstall, on the main thread.                                       *)

\* mkdir, chmod or copyFolder fails: no installation.
CopyFails ==
  /\ mpc = "call" /\ title < Titles
  /\ title' = title + 1
  /\ result' = "false"
  /\ UNCHANGED <<lastErr, workerVars, mpc, lastKey, mcpVars>>

\* std::async(&runInstall).  The default policy lets it defer the call to
\* fut.get(), which the loop of AwaitStart is in front of.
Launch ==
  /\ mpc = "call" /\ title < Titles
  /\ title' = title + 1
  /\ \/ wpc' = "lock"
     \/ MayDefer /\ wpc' = "deferred"
  /\ mpc' = "await_start"
  /\ result' = "none"
  /\ outcome' = "none" /\ abort' = FALSE /\ removed' = FALSE /\ cleaned' = FALSE
  /\ err' = "ok" /\ exitString' = "none"
  /\ UNCHANGED <<lastErr, polled, power, lastKey, mcp>>

\* while (!installer->processing) {}
AwaitStart ==
  /\ mpc = "await_start"
  /\ processing
  /\ mpc' = "check"
  /\ UNCHANGED <<lastErr, workerVars, lastKey, result, title, mcpVars>>

\* while (installer->processing)
Check ==
  /\ mpc = "check"
  /\ mpc' = IF processing THEN "key" ELSE "get"
  /\ UNCHANGED <<lastErr, workerVars, lastKey, result, title, mcpVars>>

\* getKey: a sample replaces lastKey; without one it returns lastKey again,
\* and 0 for an invalid controller or an unknown error.
Key ==
  /\ mpc = "key"
  /\ \E key \in {"home", "none"} :
       \/ /\ lastKey' = key
          /\ mpc' = IF key = "home" THEN "abort" ELSE "check"
       \/ /\ key \in {lastKey, "none"}
          /\ mpc' = IF key = "home" THEN "abort" ELSE "check"
          /\ UNCHANGED lastKey
  /\ UNCHANGED <<lastErr, workerVars, result, title, mcpVars>>

\* Installer::cancel, its two statements.
CancelAbort ==
  /\ mpc = "abort"
  /\ abort' = (abort \/ mcp = "running")
  /\ mpc' = "mark"
  /\ UNCHANGED <<lastErr, workerVars, lastKey, result, title, mcp, outcome>>

CancelMark ==
  /\ mpc = "mark"
  /\ lastErr' = "cancelled"
  /\ mpc' = "check"
  /\ UNCHANGED <<workerVars, lastKey, result, title, mcpVars>>

\* fut.get(), and return err != 0.
Get ==
  /\ mpc = "get"
  /\ wpc = "done"
  /\ result' = IF err # "ok" THEN "true" ELSE "false"
  /\ mpc' = "call"
  /\ UNCHANGED <<lastErr, workerVars, lastKey, title, mcpVars>>

Main ==
  /\ \/ CopyFails \/ Launch \/ AwaitStart \/ Check \/ Key
     \/ CancelAbort \/ CancelMark \/ Get
  /\ UNCHANGED <<initialized, processing>>

-----------------------------------------------------------------------------
\* Where MCP_Open fails the constructor returns with `initialized` unset: it
\* holds whatever the heap did, and install() may believe it has a handle.
Init ==
  /\ initialized \in BOOLEAN /\ (PrepFaults \/ initialized)
  /\ lastErr = "ok"
  /\ processing = FALSE
  /\ wpc = "done" /\ polled = "ok" /\ err = "ok" /\ exitString = "none"
  /\ apdDisabled = FALSE /\ locked = FALSE
  /\ removed = FALSE /\ cleaned = FALSE
  /\ mpc = "call" /\ lastKey = "none" /\ result = "none" /\ title = 0
  /\ mcp = "idle" /\ outcome = "none" /\ abort = FALSE

\* All titles are done.
Finished == mpc = "call" /\ title = Titles /\ UNCHANGED vars

\* main has nothing to do but wait for a flag nobody will change any more.
Stranded ==
  \/ mpc = "await_start" /\ ~processing /\ wpc \in {"done", "deferred"}
  \/ mpc \in {"check", "key", "abort", "mark"} /\ processing /\ wpc = "done"

Spin == mpc = "await_start" /\ ~processing /\ UNCHANGED vars

Next == Worker \/ MCP \/ Main \/ Finished \/ Spin

Spec == Init /\ [][Next]_vars

\* Both threads are scheduled and MCP ends what it has started.
FairSpec == Spec /\ WF_vars(Worker) /\ WF_vars(MCP) /\ WF_vars(Main)

-----------------------------------------------------------------------------
(* Properties.                                                               *)

Codes == {"ok", "cancelled", "aborted", "failed"}

\* The variables keep their types; lastErr only ever holds a code of this list.
TypeOK ==
  /\ lastErr \in Codes
  /\ processing \in BOOLEAN /\ initialized \in BOOLEAN
  /\ wpc \in {"deferred", "lock", "prepare", "arm", "start", "started", "wait",
              "poll", "store", "judge", "switch", "succeed", "remove", "clean", "cleanup",
              "return", "done"}
  /\ polled \in {"ok", "failed"}
  /\ err \in Codes /\ exitString \in {"none", "Succeeded", "Cancelled", "error"}
  /\ apdDisabled \in BOOLEAN /\ locked \in BOOLEAN
  /\ removed \in BOOLEAN /\ cleaned \in BOOLEAN
  /\ mpc \in {"call", "await_start", "check", "key", "abort", "mark", "get"}
  /\ lastKey \in {"home", "none"}
  /\ result \in {"none", "true", "false"} /\ title \in 0..Titles
  /\ mcp \in {"idle", "running", "callback", "flag"}
  /\ outcome \in {"none", "ok", "failed", "aborted"} /\ abort \in BOOLEAN

\* As long as MCP is installing or calling back, install() is in its loop: the
\* folders MCP reads from and writes to are not removed under it, and no
\* callback comes for an installation install() has given up.
MCPIsAwaited == mcp # "idle" => wpc \in {"started", "wait", "poll", "store"}

\* Auto power down is off and the lock held exactly between the two ends of
\* install(), whichever of its error paths is taken.
PowerAndLock ==
  /\ apdDisabled = locked
  /\ locked <=> wpc \notin {"deferred", "lock", "return", "done"}

\* The second loop of copyAndInstall is left hanging only by an installation
\* that MCP refused to start: Installer::install keeps `processing` set then.
HangsOnlyOnRefusal ==
  Stranded /\ mpc # "await_start" => outcome = "none" /\ exitString = "error"

\* install() returns: the loop ends when MCP's callback has run, even if each
\* GetProgress fails and whatever the HOME button does.
InstallReturns == wpc = "lock" ~> wpc = "done"

\* copyAndInstall gets through its titles, or main is Stranded.
EndsOrStrands == <>((mpc = "call" /\ title = Titles) \/ Stranded)

\* removeFolder(wupPath), the "Install succeeded" path, runs only for an
\* installation MCP has completed.
SuccessIsReal == removed => outcome = "ok"

\* copyAndInstall returns to main.
CallReturns == <>(mpc = "call" /\ title = Titles)
-----------------------------------------------------------------------------
(* The inductive invariant behind the safety properties.                     *)

\* Who can be where: main waits for `processing` until install() has set it,
\* leaves for the future only when it is cleared, and calls again only when
\* the worker is done.
Places ==
  /\ mpc = "call" => wpc = "done"
  /\ mpc \in {"call", "get"} => ~processing
  /\ wpc \in {"deferred", "lock", "prepare", "arm"} => mpc = "await_start" /\ ~processing
  /\ wpc \in {"judge", "switch", "succeed", "remove", "clean"} => ~processing

\* `processing` is set while MCP owes the callback; an installation that ends
\* with it set is one MCP has refused and never begun.
Owed ==
  /\ wpc = "start" => processing
  /\ mcp # "idle" => processing
  /\ mcp = "callback" => outcome # "none"
  /\ wpc = "started" => IF polled = "ok" THEN processing => mcp # "idle"
                                         ELSE mcp = "idle" /\ outcome = "none"
  /\ wpc \in {"deferred", "lock", "prepare", "arm", "start"} => outcome = "none"
  /\ processing /\ wpc \in {"cleanup", "return", "done"} =>
       outcome = "none" /\ exitString = "error"

SessionInv == MCPIsAwaited /\ PowerAndLock /\ Places /\ Owed
=============================================================================
