-------------------------- MODULE CatGrabberProofs --------------------------
(***************************************************************************)
(* Theorems about CatGrabber: the pid file and the RFID readers.           *)
(***************************************************************************)
EXTENDS CatGrabber, FiniteSetTheorems, TLAPS

\* The steps at which a process has the lock of its file.
HasLock(p) == pidStep[p] \in {"locked", "truncated", "held"}

\* The lock and the content of a file are those of the process that has it: the
\* lock from the moment it is taken, the content from the moment it is written.
PidOwner(p) ==
  /\ pidStep[p] = "open" \/ HasLock(p) => pidFile[p] \in File
  /\ HasLock(p) => pidLock[pidFile[p]] = p
  /\ pidStep[p] = "held" => pidContent[pidFile[p]] = p

PidInv == PidTypeOK /\ \A p \in Proc : PidOwner(p)

---------------------------------------------------------------------------
LEMMA PidInvInit == Init => PidInv
  BY PidFileAssumption DEF Init, PidInit, PidInv, PidTypeOK, PidOwner, HasLock

\* A process opens the file at the path, or a new one that nobody else has open.
LEMMA OpenKeepsPidInv ==
  ASSUME PidInv, NEW p \in Proc, OpenPidFile(p) \/ OpenFails(p)
  PROVE  PidInv'
<1>1. CASE OpenFails(p)
  BY <1>1 DEF OpenFails, PidInv, PidTypeOK, PidOwner, HasLock
<1>2. CASE pidStep[p] = "none" /\ pidPath # NoFile /\ OpenFile(p, pidPath) /\ UNCHANGED pidContent
  BY <1>2 DEF OpenFile, PidInv, PidTypeOK, PidOwner, HasLock
<1>3. CASE /\ pidStep[p] = "none"
           /\ \E f \in File : FreeFile(f)
           /\ LET new == CHOOSE f \in File : FreeFile(f)
              IN OpenFile(p, new) /\ pidContent' = [pidContent EXCEPT ![new] = NoProc]
  <2> DEFINE new == CHOOSE f \in File : FreeFile(f)
  <2>1. new \in File /\ FreeFile(new)
    BY <1>3
  <2>2. OpenFile(p, new) /\ pidContent' = [pidContent EXCEPT ![new] = NoProc]
    BY <1>3
  <2> HIDE DEF new
  <2>3. \A q \in Proc : pidFile[q] # new
    BY <2>1 DEF FreeFile
  <2>4. PidTypeOK'
    BY <2>1, <2>2 DEF OpenFile, PidInv, PidTypeOK
  <2>5. ASSUME NEW q \in Proc PROVE PidOwner(q)'
    <3>1. CASE q = p
      BY <2>1, <2>2, <3>1 DEF OpenFile, PidInv, PidTypeOK, PidOwner, HasLock
    <3>2. CASE q # p
      <4>1. pidFile'[q] = pidFile[q] /\ pidStep'[q] = pidStep[q] /\ pidLock' = pidLock
        BY <2>2, <3>2 DEF OpenFile, PidInv, PidTypeOK
      <4>2. ASSUME pidFile[q] \in File PROVE pidContent'[pidFile[q]] = pidContent[pidFile[q]]
        BY <2>2, <2>3, <4>2 DEF PidInv, PidTypeOK
      <4> QED BY <4>1, <4>2 DEF PidInv, PidOwner, HasLock
    <3> QED BY <3>1, <3>2
  <2> QED BY <2>4, <2>5 DEF PidInv
<1> QED BY <1>1, <1>2, <1>3 DEF OpenPidFile

\* Closing a file gives up the locks of one process and leaves the others alone.
LEMMA CloseKeepsPidInv ==
  ASSUME PidInv, NEW p \in Proc,
         NEW step \in {"none", "failed", "closed"},
         CloseFile(p, step), UNCHANGED pidPath, ContentLeft
  PROVE  PidInv'
<1>1. PidTypeOK'
  BY PidFileAssumption DEF CloseFile, ContentLeft, PidInv, PidTypeOK
<1>2. PidOwner(p)'
  BY DEF CloseFile, PidInv, PidTypeOK, PidOwner, HasLock
<1>3. ASSUME NEW q \in Proc \ {p} PROVE PidOwner(q)'
  <2>1. pidFile'[q] = pidFile[q] /\ pidStep'[q] = pidStep[q]
    BY DEF CloseFile, PidInv, PidTypeOK
  <2>2. ASSUME pidFile[q] \in File PROVE pidContent'[pidFile[q]] = pidContent[pidFile[q]]
    BY <2>1, <2>2 DEF ContentLeft
  <2>3. ASSUME pidFile[q] \in File, pidLock[pidFile[q]] = q PROVE pidLock'[pidFile[q]] = q
    BY <2>3 DEF CloseFile
  <2> QED BY <2>1, <2>2, <2>3 DEF PidInv, PidOwner, HasLock
<1> QED BY <1>1, <1>2, <1>3 DEF PidInv

\* Only the process with the lock changes the content, and no lock is taken from
\* the one who has it.
LEMMA LockKeepsPidInv ==
  ASSUME PidInv, NEW p \in Proc, LockPidFile(p)
  PROVE  PidInv'
<1>1. CASE LockedByOther(p)
  BY <1>1, CloseKeepsPidInv DEF LockPidFile
<1>2. CASE ~ LockedByOther(p)
  <2>1. /\ pidStep[p] = "open"
        /\ pidLock' = [pidLock EXCEPT ![pidFile[p]] = p]
        /\ pidStep' = [pidStep EXCEPT ![p] = "locked"]
        /\ UNCHANGED <<pidFile, pidPath>>
        /\ ContentLeft
    BY <1>2 DEF LockPidFile
  <2>2. pidFile[p] \in File /\ pidLock[pidFile[p]] \in {NoProc, p}
    BY <1>2, <2>1 DEF PidInv, PidOwner, LockedByOther
  <2>3. PidTypeOK'
    BY <2>1, <2>2, PidFileAssumption DEF ContentLeft, PidInv, PidTypeOK
  <2>4. ASSUME NEW q \in Proc, pidFile[q] \in File
        PROVE  pidContent'[pidFile[q]] = pidContent[pidFile[q]]
    BY <2>1, <2>4 DEF ContentLeft
  <2>5. PidOwner(p)'
    BY <2>1, <2>2 DEF PidInv, PidTypeOK, PidOwner, HasLock
  <2>6. ASSUME NEW q \in Proc \ {p} PROVE PidOwner(q)'
    <3>1. pidFile'[q] = pidFile[q] /\ pidStep'[q] = pidStep[q]
      BY <2>1 DEF PidInv, PidTypeOK
    <3>2. ASSUME pidFile[q] \in File, pidLock[pidFile[q]] = q PROVE pidLock'[pidFile[q]] = q
      BY <2>1, <2>2, <3>2, PidFileAssumption DEF PidInv, PidTypeOK
    <3> QED BY <2>4, <3>1, <3>2 DEF PidInv, PidOwner, HasLock
  <2> QED BY <2>3, <2>5, <2>6 DEF PidInv
<1> QED BY <1>1, <1>2

LEMMA WriteKeepsPidInv ==
  ASSUME PidInv, NEW p \in Proc, TruncatePidFile(p) \/ WritePidFile(p)
  PROVE  PidInv'
<1>1. pidFile[p] \in File /\ pidLock[pidFile[p]] = p
  BY DEF TruncatePidFile, WritePidFile, PidInv, PidOwner, HasLock
<1>2. /\ UNCHANGED <<pidPath, pidLock, pidFile>>
      /\ \E c \in {NoProc, p} : pidContent' = [pidContent EXCEPT ![pidFile[p]] = c]
      /\ \E s \in {"truncated", "held"} : pidStep' = [pidStep EXCEPT ![p] = s]
  BY DEF TruncatePidFile, WritePidFile
<1>3. PidTypeOK'
  BY <1>1, <1>2 DEF PidInv, PidTypeOK
<1>4. PidOwner(p)'
  BY <1>1 DEF TruncatePidFile, WritePidFile, PidInv, PidTypeOK, PidOwner, HasLock
<1>5. ASSUME NEW q \in Proc \ {p} PROVE PidOwner(q)'
  <2>1. pidStep'[q] = pidStep[q]
    BY <1>2 DEF PidInv, PidTypeOK
  <2>2. ASSUME pidFile[q] \in File, pidLock[pidFile[q]] = q
        PROVE  pidContent'[pidFile[q]] = pidContent[pidFile[q]]
    BY <1>1, <1>2, <2>2 DEF PidInv, PidTypeOK
  <2> QED BY <1>2, <2>1, <2>2 DEF PidInv, PidOwner, HasLock
<1> QED BY <1>3, <1>4, <1>5 DEF PidInv

LEMMA UnlinkKeepsPidInv ==
  ASSUME PidInv, NEW p \in Proc, UnlinkPidFile(p)
  PROVE  PidInv'
<1>1. /\ pidStep' = [pidStep EXCEPT ![p] = "unlinked"]
      /\ pidPath' = NoFile
      /\ UNCHANGED <<pidLock, pidFile>>
      /\ ContentLeft
  BY DEF UnlinkPidFile
<1>2. PidTypeOK'
  BY <1>1, PidFileAssumption DEF ContentLeft, PidInv, PidTypeOK
<1>3. ASSUME NEW q \in Proc PROVE PidOwner(q)'
  <2>1. ASSUME pidFile[q] \in File PROVE pidContent'[pidFile[q]] = pidContent[pidFile[q]]
    BY <1>1, <2>1 DEF ContentLeft
  <2>2. pidStep'[q] \in {pidStep[q], "unlinked"}
    BY <1>1 DEF PidInv, PidTypeOK
  <2> QED BY <1>1, <2>1, <2>2 DEF PidInv, PidOwner, HasLock
<1> QED BY <1>2, <1>3 DEF PidInv

---------------------------------------------------------------------------
LEMMA PidInvStep == PidInv /\ [Next]_vars => PidInv'
<1> SUFFICES ASSUME PidInv, [Next]_vars PROVE PidInv'
  OBVIOUS
<1>1. CASE UNCHANGED pidVars
  BY <1>1 DEF pidVars, PidInv, PidTypeOK, PidOwner, HasLock
<1>2. ASSUME NEW p \in Proc, PidFile(p) PROVE PidInv'
  <2>1. CASE PidFileError(p)
    BY <2>1, CloseKeepsPidInv DEF PidFileError
  <2>2. CASE LockPidFile(p)
    BY <2>2, LockKeepsPidInv
  <2> QED BY <1>2, <2>1, <2>2, OpenKeepsPidInv, WriteKeepsPidInv DEF PidFile, CreatePidFile
<1>3. ASSUME NEW p \in Proc, RemovePidFile(p) PROVE PidInv'
  BY <1>3, CloseKeepsPidInv, UnlinkKeepsPidInv DEF RemovePidFile, ClosePidFile
<1>4. ASSUME NEW p \in Proc, PidFileAtEnd(p) PROVE PidInv'
  BY <1>4, CloseKeepsPidInv DEF PidFileAtEnd
<1>5. Next \/ UNCHANGED vars
  OBVIOUS
<1>6. ASSUME NEW p \in Proc,
             Start(p) \/ SetUp(p) \/ ServiceReaders(p)
      PROVE  UNCHANGED pidVars
  BY <1>6 DEF Start, SetUp, ServiceReaders
<1>7. ASSUME NEW p \in Proc, LeaveLoop(p) PROVE UNCHANGED pidVars \/ PidFileAtEnd(p)
  BY <1>7 DEF LeaveLoop
<1>8. Devices \/ UNCHANGED vars => UNCHANGED pidVars
  BY DEF Devices, vars
<1> QED
  BY <1>1, <1>2, <1>3, <1>4, <1>5, <1>6, <1>7, <1>8 DEF Next, ProcessEnds

\* For any number of processes and files: while an instance has the pid file,
\* the file carries its lock and its pid, whatever the others do, and through
\* crashes and failing system calls (create_pid_file and the end of main).
THEOREM FileNamesHolder == Spec => []PidFileNamesHolder
<1>1. PidInv => PidFileNamesHolder
  BY DEF PidInv, PidOwner, HasLock, PidFileNamesHolder
<1> QED BY <1>1, PidInvInit, PidInvStep, PTL DEF Spec

---------------------------------------------------------------------------
\* What a step makes of the pid file of the process p that takes it.
LEMMA OthersKeepTheirStep ==
  ASSUME PidTypeOK, NEW p \in Proc, NEW q \in Proc \ {p},
         \/ CreatePidFile(p, args.io_errors) \/ ClosePidFile(p) \/ UnlinkPidFile(p)
         \/ PidFileAtEnd(p)
  PROVE  pidStep'[q] = pidStep[q]
  BY DEF CreatePidFile, OpenPidFile, OpenFails, OpenFile, LockPidFile, TruncatePidFile,
         WritePidFile, PidFileError, ClosePidFile, UnlinkPidFile, PidFileAtEnd, CloseFile,
         PidTypeOK

LEMMA ClosedByClosing ==
  ASSUME PidTypeOK, NEW p \in Proc, pidStep[p] # "closed", pidStep'[p] = "closed",
         \/ CreatePidFile(p, args.io_errors) \/ ClosePidFile(p) \/ UnlinkPidFile(p)
         \/ PidFileAtEnd(p)
  PROVE  ClosePidFile(p)
  BY DEF CreatePidFile, OpenPidFile, OpenFails, OpenFile, LockPidFile, TruncatePidFile,
         WritePidFile, PidFileError, UnlinkPidFile, PidFileAtEnd, CloseFile, PidTypeOK

\* A step of the program changes the pid file by one of these calls or not at all.
LEMMA PidStepOrStutter ==
  ASSUME [Next]_vars
  PROVE  \/ UNCHANGED pidVars
         \/ \E p \in Proc : \/ CreatePidFile(p, args.io_errors) \/ ClosePidFile(p)
                            \/ UnlinkPidFile(p) \/ PidFileAtEnd(p)
<1>1. CASE UNCHANGED vars
  BY <1>1 DEF vars
<1>2. CASE Devices
  BY <1>2 DEF Devices
<1>3. ASSUME NEW p \in Proc, Start(p) \/ SetUp(p) \/ ServiceReaders(p)
      PROVE  UNCHANGED pidVars
  BY <1>3 DEF Start, SetUp, ServiceReaders
<1>4. ASSUME NEW p \in Proc, LeaveLoop(p) PROVE UNCHANGED pidVars \/ PidFileAtEnd(p)
  BY <1>4 DEF LeaveLoop
<1>5. ASSUME NEW p \in Proc, PidFile(p) \/ RemovePidFile(p) \/ ProcessEnds(p)
      PROVE  \/ CreatePidFile(p, args.io_errors) \/ ClosePidFile(p)
             \/ UnlinkPidFile(p) \/ PidFileAtEnd(p)
  BY <1>5 DEF PidFile, RemovePidFile, ProcessEnds
<1> QED BY <1>1, <1>2, <1>3, <1>4, <1>5 DEF Next

\* For any number of processes and files: only an instance that holds the lock of
\* a pid file begins to remove the pid file (main, "pid_fd > 0"); one that was
\* refused, or failed to write it, leaves the path alone.
THEOREM RemoversHeldTheLock == Spec => OnlyHoldersRemove
<1> DEFINE A == \A p \in Proc :
                  pidStep[p] # "closed" /\ pidStep'[p] = "closed" =>
                    \E f \in File : pidLock[f] = p
<1>1. PidInv /\ [Next]_vars => [A]_vars
  <2> SUFFICES ASSUME PidInv, [Next]_vars, NEW p \in Proc,
                      pidStep[p] # "closed", pidStep'[p] = "closed"
               PROVE  \E f \in File : pidLock[f] = p
    OBVIOUS
  <2>1. PidTypeOK
    BY DEF PidInv
  <2>2. ~ UNCHANGED pidVars
    BY DEF pidVars
  <2>3. PICK q \in Proc : \/ CreatePidFile(q, args.io_errors) \/ ClosePidFile(q)
                         \/ UnlinkPidFile(q) \/ PidFileAtEnd(q)
    BY <2>2, PidStepOrStutter
  <2>4. q = p
    BY <2>1, <2>3, OthersKeepTheirStep
  <2>5. ClosePidFile(p)
    BY <2>1, <2>3, <2>4, ClosedByClosing
  <2> QED BY <2>5 DEF ClosePidFile, OwnsPidFile, PidInv, PidOwner, HasLock
<1>2. Spec => []PidInv
  BY PidInvInit, PidInvStep, PTL DEF Spec
<1> QED BY <1>1, <1>2, PTL DEF Spec, OnlyHoldersRemove

---------------------------------------------------------------------------
(* Who is refused the pid file                                             *)

\* A lock belongs to the process that has the file open and has locked it, and
\* only a process that runs has come anywhere with its pid file.
LockInv ==
  /\ \A f \in File : pidLock[f] # NoProc =>
       HasLock(pidLock[f]) /\ pidFile[pidLock[f]] = f
  /\ \A p \in Proc : pidStep[p] # "none" => phase[p] # "off"

PhaseType == phase \in [Proc -> {"off", "pid_file", "loop", "exit"}]

LEMMA PhaseTypes == Spec => []PhaseType
<1>1. Init => PhaseType
  BY DEF Init, PhaseType
<1>2. PhaseType /\ [Next]_vars => PhaseType'
  BY DEF PhaseType, Next, vars, Devices, Start, PidFile, SetUp, ServiceReaders, LeaveLoop,
         RemovePidFile, ProcessEnds, GoTo
<1> QED BY <1>1, <1>2, PTL DEF Spec

LEMMA LockInvInit == Init => LockInv
  BY PidFileAssumption DEF Init, PidInit, LockInv

\* A step of the pid file leaves the first part of LockInv as it should be.
LockNames == \A f \in File : pidLock[f] # NoProc =>
               HasLock(pidLock[f]) /\ pidFile[pidLock[f]] = f

LEMMA OpenKeepsLockNames ==
  ASSUME PidInv, LockNames, NEW p \in Proc, OpenPidFile(p) \/ OpenFails(p)
  PROVE  LockNames'
<1>1. pidStep[p] = "none" /\ pidLock' = pidLock
  BY DEF OpenPidFile, OpenFails, OpenFile
<1>2. \A q \in Proc \ {p} : pidFile'[q] = pidFile[q] /\ pidStep'[q] = pidStep[q]
  BY DEF OpenPidFile, OpenFails, OpenFile, PidInv, PidTypeOK
<1>3. \A f \in File : pidLock[f] \in Proc \cup {NoProc}
  BY DEF PidInv, PidTypeOK
<1> QED BY <1>1, <1>2, <1>3 DEF LockNames, HasLock

LEMMA CloseKeepsLockNames ==
  ASSUME PidInv, LockNames, NEW p \in Proc, NEW step, CloseFile(p, step)
  PROVE  LockNames'
<1>1. \A q \in Proc \ {p} : pidFile'[q] = pidFile[q] /\ pidStep'[q] = pidStep[q]
  BY DEF CloseFile, PidInv, PidTypeOK
<1>2. \A f \in File : /\ pidLock[f] \in Proc \cup {NoProc}
                      /\ pidLock'[f] = IF pidLock[f] = p THEN NoProc ELSE pidLock[f]
  BY DEF CloseFile, PidInv, PidTypeOK
<1> QED BY <1>1, <1>2 DEF LockNames, HasLock

LEMMA LockKeepsLockNames ==
  ASSUME PidInv, LockNames, NEW p \in Proc, LockPidFile(p)
  PROVE  LockNames'
<1>1. CASE LockedByOther(p)
  BY <1>1, CloseKeepsLockNames DEF LockPidFile
<1>2. CASE ~ LockedByOther(p)
  <2>1. /\ pidStep[p] = "open" /\ pidFile[p] \in File
        /\ pidLock' = [pidLock EXCEPT ![pidFile[p]] = p]
        /\ pidStep' = [pidStep EXCEPT ![p] = "locked"]
        /\ pidFile' = pidFile
    BY <1>2 DEF LockPidFile, PidInv, PidOwner
  <2>2. pidStep'[p] = "locked" /\ \A q \in Proc \ {p} : pidStep'[q] = pidStep[q]
    BY <2>1 DEF PidInv, PidTypeOK
  <2>3. /\ pidLock'[pidFile[p]] = p
        /\ \A f \in File \ {pidFile[p]} : pidLock'[f] = pidLock[f]
    BY <2>1 DEF PidInv, PidTypeOK
  <2>4. \A f \in File : pidLock[f] # NoProc => pidLock[f] \in Proc /\ pidLock[f] # p
    BY <2>1 DEF PidInv, PidTypeOK, LockNames, HasLock
  <2> QED BY <2>1, <2>2, <2>3, <2>4 DEF LockNames, HasLock
<1> QED BY <1>1, <1>2

LEMMA WriteKeepsLockNames ==
  ASSUME PidInv, LockNames, NEW p \in Proc,
         TruncatePidFile(p) \/ WritePidFile(p) \/ UnlinkPidFile(p)
  PROVE  LockNames'
<1>1. pidLock' = pidLock /\ pidFile' = pidFile
  BY DEF TruncatePidFile, WritePidFile, UnlinkPidFile
<1>2. \A q \in Proc : HasLock(q) => HasLock(q)'
  BY DEF TruncatePidFile, WritePidFile, UnlinkPidFile, HasLock, PidInv, PidTypeOK
<1>3. \A f \in File : pidLock[f] # NoProc => pidLock[f] \in Proc
  BY DEF PidInv, PidTypeOK
<1> QED BY <1>1, <1>2, <1>3 DEF LockNames

PidCall(p) == \/ CreatePidFile(p, args.io_errors) \/ ClosePidFile(p) \/ UnlinkPidFile(p)
              \/ PidFileAtEnd(p)

LEMMA CallKeepsLockNames ==
  ASSUME PidInv, LockNames, NEW p \in Proc, PidCall(p)
  PROVE  LockNames'
<1>1. CASE LockPidFile(p)
  BY <1>1, LockKeepsLockNames
<1>2. CASE PidFileError(p) \/ ClosePidFile(p) \/ PidFileAtEnd(p)
  BY <1>2, CloseKeepsLockNames DEF PidFileError, ClosePidFile, PidFileAtEnd
<1> QED BY <1>1, <1>2, OpenKeepsLockNames, WriteKeepsLockNames DEF PidCall, CreatePidFile

\* A process that has ended has closed its pid file, and one that has not begun
\* has none.
StepRuns == \A p \in Proc : pidStep[p] # "none" => phase[p] # "off"

LEMMA StepKeepsStepRuns ==
  ASSUME PidTypeOK, PhaseType, StepRuns, [Next]_vars
  PROVE  StepRuns'
<1>1. CASE UNCHANGED <<phase, pidVars>>
  BY <1>1 DEF StepRuns, pidVars
<1>2. ASSUME NEW p \in Proc, Start(p) \/ SetUp(p) PROVE StepRuns'
  BY <1>2 DEF Start, SetUp, GoTo, StepRuns, PhaseType, pidVars
<1>3. ASSUME NEW p \in Proc, PidFile(p) \/ RemovePidFile(p) PROVE StepRuns'
  <2>1. phase' = phase /\ phase[p] # "off"
    BY <1>3 DEF PidFile, RemovePidFile
  <2>2. \A q \in Proc \ {p} : pidStep'[q] = pidStep[q]
    BY <1>3, OthersKeepTheirStep DEF PidFile, RemovePidFile
  <2> QED BY <2>1, <2>2 DEF StepRuns
<1>4. ASSUME NEW p \in Proc, GoTo(p, "off"), PidFileAtEnd(p) PROVE StepRuns'
  BY <1>4 DEF PidFileAtEnd, CloseFile, GoTo, StepRuns, PhaseType, PidTypeOK
<1>5. ASSUME NEW p \in Proc, LeaveLoop(p) PROVE StepRuns'
  <2>1. CASE GoTo(p, "exit") /\ UNCHANGED pidVars
    BY <2>1 DEF GoTo, StepRuns, PhaseType, pidVars
  <2> QED BY <1>4, <1>5, <2>1 DEF LeaveLoop
<1>6. ASSUME NEW p \in Proc, ProcessEnds(p) PROVE StepRuns'
  BY <1>4, <1>6 DEF ProcessEnds
<1>7. ASSUME NEW p \in Proc, ServiceReaders(p) PROVE StepRuns'
  BY <1>1, <1>7 DEF ServiceReaders
<1>8. CASE Devices \/ UNCHANGED vars
  BY <1>1, <1>8 DEF Devices, vars
<1> QED BY <1>2, <1>3, <1>5, <1>6, <1>7, <1>8 DEF Next

LEMMA LockInvStep ==
  ASSUME PidInv, PhaseType, LockInv, [Next]_vars
  PROVE  LockInv'
<1>1. LockNames /\ StepRuns
  BY DEF LockInv, LockNames, StepRuns
<1>2. StepRuns'
  BY <1>1, StepKeepsStepRuns DEF PidInv
<1>3. CASE UNCHANGED pidVars
  <2>1. LockNames'
    BY <1>1, <1>3 DEF pidVars, LockNames, HasLock
  <2> QED BY <1>2, <2>1 DEF LockInv, LockNames, StepRuns
<1>4. CASE ~ UNCHANGED pidVars
  <2>1. PICK p \in Proc : PidCall(p)
    BY <1>4, PidStepOrStutter DEF PidCall
  <2>2. LockNames'
    BY <1>1, <2>1, CallKeepsLockNames
  <2> QED BY <1>2, <2>2 DEF LockInv, LockNames, StepRuns
<1> QED BY <1>3, <1>4

\* For any number of processes and files: when no system call fails, an instance
\* is refused the pid file only because another one that runs has the lock of
\* that same file; nothing that an instance leaves behind, however it ended,
\* refuses the next (create_pid_file).
THEOREM RefusedOnlyByARival == Spec => RefusedByARival
<1> DEFINE A == \A p \in Proc :
                  ~ args.io_errors /\ pidStep[p] # "failed" /\ pidStep'[p] = "failed" =>
                    \E q \in Proc \ {p} :
                      phase[q] # "off" /\ pidStep[q] \in {"locked", "truncated", "held"}
<1>1. PidInv /\ LockInv /\ [Next]_vars => [A]_vars
  <2> SUFFICES ASSUME PidInv, LockInv, [Next]_vars, NEW p \in Proc,
                      ~ args.io_errors, pidStep[p] # "failed", pidStep'[p] = "failed"
               PROVE  \E q \in Proc \ {p} :
                        phase[q] # "off" /\ pidStep[q] \in {"locked", "truncated", "held"}
    OBVIOUS
  <2>1. PidTypeOK
    BY DEF PidInv
  <2>2. ~ UNCHANGED pidVars
    BY DEF pidVars
  <2>3. PICK q \in Proc : \/ CreatePidFile(q, args.io_errors) \/ ClosePidFile(q)
                         \/ UnlinkPidFile(q) \/ PidFileAtEnd(q)
    BY <2>2, PidStepOrStutter
  <2>4. q = p
    BY <2>1, <2>3, OthersKeepTheirStep
  <2>5. LockPidFile(p) /\ LockedByOther(p)
    BY <2>1, <2>3, <2>4 DEF CreatePidFile, OpenPidFile, OpenFile, LockPidFile, TruncatePidFile,
       WritePidFile, ClosePidFile, UnlinkPidFile, PidFileAtEnd, CloseFile, PidTypeOK
  <2> DEFINE rival == pidLock[pidFile[p]]
  <2>6. pidFile[p] \in File
    BY <2>5 DEF LockPidFile, PidInv, PidOwner
  <2>7. rival \in Proc \ {p}
    BY <2>1, <2>5, <2>6 DEF LockedByOther, PidTypeOK
  <2>8. HasLock(rival) /\ phase[rival] # "off"
    BY <2>6, <2>7, <2>5 DEF LockInv, LockedByOther, HasLock
  <2> QED BY <2>7, <2>8 DEF HasLock
<1>2. Spec => [](PidInv /\ LockInv)
  <2>1. Spec => []PidInv
    BY PidInvInit, PidInvStep, PTL DEF Spec
  <2>2. PidInv /\ PhaseType /\ LockInv /\ [Next]_vars => LockInv'
    BY LockInvStep
  <2> QED BY <2>1, <2>2, LockInvInit, PhaseTypes, PTL DEF Spec
<1> QED BY <1>1, <1>2, PTL DEF Spec, RefusedByARival

---------------------------------------------------------------------------
(* The RFID readers                                                        *)

Part == [k : {"head", "tail"}, tag : Tag] \cup [k : {"error", "crlf"}]

ServiceCall == [ready : SUBSET Reader, failed : BOOLEAN,
                todo : {<<>>, <<"outer">>, <<"inner", "outer">>}]

ReaderTypeOK ==
  /\ args \in Setups
  /\ line \in [Reader -> Seq(Part)]
  /\ port \in [Reader -> Seq(Part)]
  /\ device \in [Reader -> {"ok", "hangup", "error"}]
  /\ sentAllowed \in [Reader -> BOOLEAN]
  /\ rfid \in [Proc -> [Reader -> [fd : {"none", "open", "closed"},
                                   state : {"disconnected", "connected", "awaiting_tag"}]]]
  /\ match \in [Proc -> [Reader -> [triggered : BOOLEAN, complete : BOOLEAN, data_len : Nat,
                                    data_ok : BOOLEAN, is_allowed : BOOLEAN]]]
  /\ direction \in [Proc -> {"in", "out"}]
  /\ service \in [Proc -> ServiceCall]

\* An allowed tag that waits in a port was sent, the whole of it, by the reader.
PortInv ==
  \A r \in Reader, t \in AllowedTag : \A i \in 1..Len(port[r]) :
    port[r][i] = [k |-> "tail", tag |-> t] => sentAllowed[r]

\* A text that is not empty has characters.
LEMMA TextLengthType ==
  ASSUME NEW text \in Seq(Part)
  PROVE  TextLength(text) \in Nat /\ (text # <<>> => TextLength(text) > 0)
<1>1. IsFiniteSet(TagHalves(text))
  <2>1. IsFiniteSet(1..Len(text))
    BY FS_Interval
  <2>2. TagHalves(text) \subseteq 1..Len(text)
    BY DEF TagHalves
  <2> QED BY <2>1, <2>2, FS_Subset
<1>2. Cardinality(TagHalves(text)) \in Nat
  BY <1>1, FS_CardinalityType
<1>3. Len(text) \in Nat /\ (text # <<>> => Len(text) > 0)
  OBVIOUS
<1>4. \A n, c \in Nat : 2 * n + 6 * c \in Nat /\ (n > 0 => 2 * n + 6 * c > 0)
  OBVIOUS
<1> QED BY <1>2, <1>3, <1>4 DEF TextLength

\* What is left of a text is the beginning of it.
LEMMA TrimType ==
  ASSUME NEW text \in Seq(Part)
  PROVE  /\ Trim(text) \in Seq(Part)
         /\ Len(Trim(text)) <= Len(text)
         /\ \A i \in 1..Len(Trim(text)) : Trim(text)[i] = text[i]
  BY DEF Trim

\* The match of one reader after a text.
LEMMA NewMatchType ==
  ASSUME ReaderTypeOK, NEW p \in Proc, NEW r \in Reader, NEW text \in Seq(Part), text # <<>>
  PROVE  /\ NewMatch(p, r, text) \in [triggered : BOOLEAN, complete : BOOLEAN, data_len : Nat,
                                      data_ok : BOOLEAN, is_allowed : BOOLEAN]
         /\ (match[p][r].triggered <=> match[p][r].data_len > 0) =>
              (NewMatch(p, r, text).triggered <=> NewMatch(p, r, text).data_len > 0)
         /\ NewMatch(p, r, text).is_allowed => match[p][r].is_allowed \/ MatchAllowedRfid(text)
         /\ NewMatch(p, r, text).triggered
         /\ match[p][r].triggered =>
              NewMatch(p, r, text).is_allowed = match[p][r].is_allowed
<1> DEFINE n == TextLength(text)
           m == match[p][r]
<1>1. n \in Nat /\ n > 0
  BY TextLengthType
<1>2. IsComplete(text) \in BOOLEAN /\ MatchAllowedRfid(text) \in BOOLEAN
  BY DEF IsComplete, MatchAllowedRfid
<1>3. m \in [triggered : BOOLEAN, complete : BOOLEAN, data_len : Nat,
             data_ok : BOOLEAN, is_allowed : BOOLEAN]
  BY DEF ReaderTypeOK
<1>4. NewMatch(p, r, text) \in
        {[triggered |-> TRUE, complete |-> IsComplete(text), data_len |-> n,
          data_ok |-> MatchAllowedRfid(text), is_allowed |-> MatchAllowedRfid(text)],
         [m EXCEPT !.complete = TRUE, !.data_len = n, !.data_ok = MatchAllowedRfid(text)], m}
  BY DEF NewMatch
<1>5. /\ ~ m.triggered => NewMatch(p, r, text) =
           [triggered |-> TRUE, complete |-> IsComplete(text), data_len |-> n,
            data_ok |-> MatchAllowedRfid(text), is_allowed |-> MatchAllowedRfid(text)]
      /\ m.triggered => NewMatch(p, r, text) \in
           {[m EXCEPT !.complete = TRUE, !.data_len = n, !.data_ok = MatchAllowedRfid(text)], m}
  BY DEF NewMatch
<1> HIDE DEF n, m
<1>6. NewMatch(p, r, text) \in [triggered : BOOLEAN, complete : BOOLEAN, data_len : Nat,
                                data_ok : BOOLEAN, is_allowed : BOOLEAN]
  <2> DEFINE Match == [triggered : BOOLEAN, complete : BOOLEAN, data_len : Nat,
                       data_ok : BOOLEAN, is_allowed : BOOLEAN]
             ok == MatchAllowedRfid(text)
             full == IsComplete(text)
  <2>1. ok \in BOOLEAN /\ full \in BOOLEAN /\ n \in Nat
    BY <1>1, <1>2
  <2>2. NewMatch(p, r, text) \in
          {[triggered |-> TRUE, complete |-> full, data_len |-> n, data_ok |-> ok,
            is_allowed |-> ok],
           [m EXCEPT !.complete = TRUE, !.data_len = n, !.data_ok = ok], m}
    BY <1>4
  <2> HIDE DEF ok, full
  <2>3. [triggered |-> TRUE, complete |-> full, data_len |-> n, data_ok |-> ok,
         is_allowed |-> ok] \in Match
    BY <2>1
  <2>4. [m EXCEPT !.complete = TRUE, !.data_len = n, !.data_ok = ok] \in Match
    BY <2>1, <1>3
  <2>5. m \in Match
    BY <1>3
  <2> HIDE DEF Match
  <2>6. NewMatch(p, r, text) \in Match
    BY <2>2, <2>3, <2>4, <2>5
  <2> QED BY <2>6 DEF Match
<1>7. CASE ~ m.triggered
  BY <1>1, <1>2, <1>3, <1>5, <1>6, <1>7 DEF m
<1>8. CASE m.triggered
  BY <1>1, <1>2, <1>3, <1>5, <1>6, <1>8 DEF m
<1> QED BY <1>7, <1>8

\* What a reader sends is made of whole lines.
LEMMA LinesAreTexts ==
  ASSUME NEW text, text = ErrorLine \/ (\E t \in Tag : text = TagLine(t))
  PROVE  text \in Seq(Part) /\ text # <<>>
<1>1. CASE text = ErrorLine
  <2>1. Crlf \in Part /\ [k |-> "error"] \in Part
    BY DEF Crlf, Part
  <2> HIDE DEF Part, Crlf
  <2> QED BY <1>1, <2>1 DEF ErrorLine
<1>2. ASSUME NEW t \in Tag, text = TagLine(t) PROVE text \in Seq(Part) /\ text # <<>>
  <2> DEFINE head == [k |-> "head", tag |-> t]
             tail == [k |-> "tail", tag |-> t]
  <2>1. Crlf \in Part /\ head \in Part /\ tail \in Part
    BY DEF Crlf, Part
  <2>2. text = <<head, tail, Crlf>>
    BY <1>2 DEF TagLine
  <2> HIDE DEF Part, Crlf, head, tail
  <2> QED BY <2>1, <2>2
<1> QED BY <1>1, <1>2

LEMMA SendKeeps ==
  ASSUME ReaderTypeOK, PortInv, NEW r \in args.sending, Send(r, args.tags, args.pending),
         UNCHANGED args
  PROVE  /\ ReaderTypeOK' /\ PortInv'
         /\ \A s \in Reader : port[s] # <<>> => port'[s] # <<>>
         /\ \A s \in Reader : sentAllowed[s] => sentAllowed'[s]
<1>1. r \in Reader /\ args.tags \subseteq Tag
  BY GrabberAssumption DEF ReaderTypeOK, Setup
<1>2. PICK text \in IF line[r] = <<>> THEN {TagLine(t) : t \in args.tags} \cup {ErrorLine}
                    ELSE {line[r]} :
        /\ port' = [port EXCEPT ![r] = Append(@, Head(text))]
        /\ line' = [line EXCEPT ![r] = Tail(text)]
        /\ sentAllowed' = [sentAllowed EXCEPT
                             ![r] = @ \/ (Head(text).k = "tail" /\ Head(text).tag \in AllowedTag)]
  BY DEF Send
<1>3. text \in Seq(Part) /\ text # <<>>
  BY <1>1, <1>2, LinesAreTexts DEF ReaderTypeOK
<1>4. /\ Head(text) \in Part /\ Tail(text) \in Seq(Part)
      /\ port[r] \in Seq(Part)
  BY <1>1, <1>3 DEF ReaderTypeOK
<1> DEFINE part == Head(text)
           more == Append(port[r], part)
           whole == part.k = "tail" /\ part.tag \in AllowedTag
<1>5. /\ more \in Seq(Part) /\ more # <<>> /\ Len(more) = Len(port[r]) + 1
      /\ more[Len(port[r]) + 1] = part
      /\ \A i \in 1..Len(port[r]) : more[i] = port[r][i]
  <2> HIDE DEF part, Part
  <2> QED BY <1>4 DEF part
<1>6. /\ \A s \in Reader : port'[s] = IF s = r THEN more ELSE port[s]
      /\ \A s \in Reader : sentAllowed'[s] = IF s = r THEN sentAllowed[r] \/ whole ELSE sentAllowed[s]
  BY <1>1, <1>2 DEF ReaderTypeOK
<1>7. whole \in BOOLEAN
  OBVIOUS
<1> HIDE DEF more, whole
<1>8. ReaderTypeOK'
  <2>1. port' \in [Reader -> Seq(Part)]
    BY <1>1, <1>2, <1>5 DEF ReaderTypeOK, more
  <2>2. line' \in [Reader -> Seq(Part)]
    BY <1>1, <1>2, <1>4 DEF ReaderTypeOK
  <2>3. sentAllowed' \in [Reader -> BOOLEAN]
    BY <1>1, <1>2, <1>7 DEF ReaderTypeOK, whole
  <2> QED BY <2>1, <2>2, <2>3 DEF ReaderTypeOK, Send
<1>9. PortInv'
  <2> SUFFICES ASSUME NEW s \in Reader, NEW t \in AllowedTag, NEW i \in 1..Len(port'[s]),
                      port'[s][i] = [k |-> "tail", tag |-> t]
               PROVE  sentAllowed'[s]
    BY DEF PortInv
  <2>1. CASE s # r
    BY <1>6, <2>1 DEF PortInv
  <2>2. CASE s = r
    <3>1. port'[s] = more /\ Len(port[r]) \in Nat
      BY <1>4, <1>6, <2>2
    <3>2. i \in 1..Len(port[r]) \/ i = Len(port[r]) + 1
      BY <3>1, <1>5
    <3>3. CASE i \in 1..Len(port[r])
      BY <1>1, <1>5, <1>6, <2>2, <3>1, <3>3 DEF PortInv
    <3>4. CASE i = Len(port[r]) + 1
      <4>1. part = [k |-> "tail", tag |-> t]
        BY <1>5, <3>1, <3>4
      <4>2. whole
        BY <4>1 DEF whole
      <4> QED BY <1>6, <2>2, <4>2
    <3> QED BY <3>2, <3>3, <3>4
  <2> QED BY <2>1, <2>2
<1> QED BY <1>5, <1>6, <1>8, <1>9

\* catcierge_rfid_read of a text: the port is empty afterwards, and the match and
\* the direction are as they were or set by that text.
LEMMA ReadTextEffect ==
  ASSUME ReaderTypeOK, NEW p \in Proc, NEW r \in Reader, ReadText(p, r)
  PROVE  /\ port' = [port EXCEPT ![r] = <<>>]
         /\ UNCHANGED deviceVars
         /\ ServiceNext(p)
         /\ rfid' = rfid \/ rfid' = [rfid EXCEPT ![p][r].state = "awaiting_tag"]
         /\ \/ UNCHANGED <<match, direction>>
            \/ Trim(port[r]) # <<>> /\ RfidSetDirection(p, r, Trim(port[r]))
<1>1. /\ port' = [port EXCEPT ![r] = <<>>]
      /\ UNCHANGED deviceVars
      /\ ServiceNext(p)
  BY DEF ReadText
<1>2. rfid' = rfid \/ rfid' = [rfid EXCEPT ![p][r].state = "awaiting_tag"]
  BY DEF ReadText
<1>3. \/ UNCHANGED <<match, direction>>
      \/ IsTag(Trim(port[r])) /\ RfidSetDirection(p, r, Trim(port[r]))
  BY DEF ReadText
<1> QED BY <1>1, <1>2, <1>3 DEF IsTag

---------------------------------------------------------------------------
\* Opening the ports forgets what was matched and what has arrived, no more.
LEMMA InitReadersKeeps ==
  ASSUME ReaderTypeOK, PortInv, NoFalseAccept, UNCHANGED args,
         NEW p \in Proc, InitRfidReaders(p, args.readers, args.io_errors)
  PROVE  /\ ReaderTypeOK' /\ PortInv' /\ NoFalseAccept'
         /\ UNCHANGED <<deviceVars, service>>
         /\ \A q \in Proc \ {p} : match'[q] = match[q] /\ rfid'[q] = rfid[q]
<1> DEFINE Rfid == [fd : {"none", "open", "closed"},
                    state : {"disconnected", "connected", "awaiting_tag"}]
           Match == [triggered : BOOLEAN, complete : BOOLEAN, data_len : Nat,
                     data_ok : BOOLEAN, is_allowed : BOOLEAN]
<1>1. PICK outcome \in [args.readers -> DOMAIN OpenResult] :
        /\ rfid' = [rfid EXCEPT ![p] =
                      [r \in Reader |-> IF r \in args.readers THEN OpenResult[outcome[r]]
                                        ELSE NotOpened]]
        /\ port' = [r \in Reader |-> IF r \in args.readers /\ outcome[r] \in {"ok", "no_rat"}
                                     THEN <<>> ELSE port[r]]
  BY DEF InitRfidReaders
<1>2. /\ match' = [match EXCEPT ![p] = [r \in Reader |-> NoMatch]]
      /\ UNCHANGED <<deviceVars, direction, service>>
  BY DEF InitRfidReaders
<1>3. NotOpened \in Rfid /\ \A o \in DOMAIN OpenResult : OpenResult[o] \in Rfid
  BY DEF NotOpened, OpenResult
<1>4. NoMatch \in Match /\ ~ NoMatch.triggered /\ NoMatch.data_len = 0 /\ ~ NoMatch.is_allowed
  BY DEF NoMatch
<1>5. rfid' \in [Proc -> [Reader -> Rfid]]
  <2> HIDE DEF Rfid
  <2>1. [r \in Reader |-> IF r \in args.readers THEN OpenResult[outcome[r]] ELSE NotOpened]
          \in [Reader -> Rfid]
    BY <1>1, <1>3
  <2>2. rfid \in [Proc -> [Reader -> Rfid]]
    BY DEF ReaderTypeOK, Rfid
  <2> QED BY <1>1, <2>1, <2>2
<1>6. match' \in [Proc -> [Reader -> Match]]
  <2> HIDE DEF Match
  <2>1. match \in [Proc -> [Reader -> Match]]
    BY DEF ReaderTypeOK, Match
  <2> QED BY <1>2, <1>4, <2>1
<1>7. port' \in [Reader -> Seq(Part)]
  <2> HIDE DEF Part
  <2> QED BY <1>1 DEF ReaderTypeOK
<1>8. ReaderTypeOK'
  BY <1>2, <1>5, <1>6, <1>7 DEF ReaderTypeOK, deviceVars
<1>9. PortInv'
  <2>1. \A r \in Reader : port'[r] = <<>> \/ port'[r] = port[r]
    BY <1>1
  <2>2. sentAllowed' = sentAllowed /\ Len(<<>>) = 0
    BY <1>2 DEF deviceVars
  <2> SUFFICES ASSUME NEW r \in Reader, NEW t \in AllowedTag, NEW i \in 1..Len(port'[r]),
                      port'[r][i] = [k |-> "tail", tag |-> t]
               PROVE  sentAllowed'[r]
    BY DEF PortInv
  <2>3. port'[r] # <<>>
    BY <2>2
  <2> QED BY <2>1, <2>2, <2>3 DEF PortInv
<1>10. /\ match'[p] = [r \in Reader |-> NoMatch]
       /\ \A q \in Proc \ {p} : match'[q] = match[q] /\ rfid'[q] = rfid[q]
  BY <1>1, <1>2 DEF ReaderTypeOK
<1>11. NoFalseAccept'
  BY <1>2, <1>4, <1>10 DEF NoFalseAccept, deviceVars
<1> QED BY <1>2, <1>8, <1>9, <1>10, <1>11

LEMMA TodoTails ==
  /\ Head(<<"inner", "outer">>) = "inner" /\ Tail(<<"inner", "outer">>) = <<"outer">>
  /\ Head(<<"outer">>) = "outer" /\ Tail(<<"outer">>) = <<>>
  /\ <<"outer">> # <<>> /\ <<"inner", "outer">> # <<>> /\ <<"inner", "outer">> # <<"outer">>
  OBVIOUS

\* A text that is read changes the match of one reader.
LEMMA ReadTextKeeps ==
  ASSUME ReaderTypeOK, PortInv, NoFalseAccept, UNCHANGED args,
         NEW p \in Proc, NEW r \in Reader, ReadText(p, r)
  PROVE  ReaderTypeOK' /\ PortInv' /\ NoFalseAccept'
<1> DEFINE Rfid == [fd : {"none", "open", "closed"},
                    state : {"disconnected", "connected", "awaiting_tag"}]
           Match == [triggered : BOOLEAN, complete : BOOLEAN, data_len : Nat,
                     data_ok : BOOLEAN, is_allowed : BOOLEAN]
           text == Trim(port[r])
<1>1. /\ port' = [port EXCEPT ![r] = <<>>]
      /\ UNCHANGED deviceVars
      /\ ServiceNext(p)
      /\ rfid' = rfid \/ rfid' = [rfid EXCEPT ![p][r].state = "awaiting_tag"]
      /\ \/ UNCHANGED <<match, direction>>
         \/ text # <<>> /\ RfidSetDirection(p, r, text)
  BY ReadTextEffect
<1>2. port[r] \in Seq(Part) /\ text \in Seq(Part) /\ Len(text) <= Len(port[r])
      /\ \A i \in 1..Len(text) : text[i] = port[r][i]
  <2>1. port[r] \in Seq(Part)
    BY DEF ReaderTypeOK
  <2> QED BY <2>1, TrimType
<1>3. MatchAllowedRfid(text) => sentAllowed[r]
  <2> SUFFICES ASSUME NEW t \in AllowedTag, text = SubSeq(TagLine(t), 1, 2) PROVE sentAllowed[r]
    BY DEF MatchAllowedRfid
  <2>1. Len(text) = 2 /\ text[2] = [k |-> "tail", tag |-> t]
    BY DEF TagLine, Crlf
  <2>2. 2 \in 1..Len(port[r]) /\ port[r][2] = [k |-> "tail", tag |-> t]
    <3> HIDE DEF text, Part
    <3> QED BY <1>2, <2>1
  <2> QED BY <2>2 DEF PortInv
<1>4. port' \in [Reader -> Seq(Part)]
  <2> HIDE DEF Part
  <2> QED BY <1>1 DEF ReaderTypeOK
<1>5. rfid' \in [Proc -> [Reader -> Rfid]]
  <2>1. rfid \in [Proc -> [Reader -> Rfid]]
    BY DEF ReaderTypeOK
  <2>2. [rfid[p][r] EXCEPT !.state = "awaiting_tag"] \in Rfid
    BY <2>1
  <2>3. [rfid EXCEPT ![p][r].state = "awaiting_tag"] =
          [rfid EXCEPT ![p] = [rfid[p] EXCEPT ![r] = [rfid[p][r] EXCEPT !.state = "awaiting_tag"]]]
    BY <2>1
  <2> HIDE DEF Rfid
  <2>4. [rfid EXCEPT ![p] = [rfid[p] EXCEPT ![r] = [rfid[p][r] EXCEPT !.state = "awaiting_tag"]]]
          \in [Proc -> [Reader -> Rfid]]
    BY <2>1, <2>2
  <2> QED BY <1>1, <2>1, <2>3, <2>4
<1>6. service' \in [Proc -> ServiceCall]
  <2>1. service \in [Proc -> ServiceCall]
    BY DEF ReaderTypeOK
  <2>2. service[p].todo # <<>>
    BY DEF ReadText, Reads, Serving
  <2>3. service[p].todo = <<"outer">> \/ service[p].todo = <<"inner", "outer">>
    BY <2>1, <2>2 DEF ServiceCall
  <2>4. Tail(service[p].todo) \in {<<>>, <<"outer">>}
    BY <2>3, TodoTails
  <2>5. [service[p] EXCEPT !.todo = Tail(@)] \in ServiceCall
    BY <2>1, <2>4 DEF ServiceCall
  <2> QED BY <1>1, <2>1, <2>5 DEF ServiceNext
<1>7. match' \in [Proc -> [Reader -> Match]]
  <2>1. match \in [Proc -> [Reader -> Match]]
    BY DEF ReaderTypeOK
  <2>2. CASE text # <<>> /\ RfidSetDirection(p, r, text)
    <3>1. NewMatch(p, r, text) \in Match
      BY <1>2, <2>2, NewMatchType
    <3> HIDE DEF Match, text
    <3> QED BY <2>1, <2>2, <3>1 DEF RfidSetDirection
  <2> QED BY <1>1, <2>1, <2>2
<1>8. direction' \in [Proc -> {"in", "out"}]
  BY <1>1 DEF RfidSetDirection, DirectionOf, ReaderTypeOK
<1>9. ReaderTypeOK'
  BY <1>1, <1>4, <1>5, <1>6, <1>7, <1>8 DEF ReaderTypeOK, deviceVars
<1>10. PortInv'
  <2>1. \A s \in Reader : port'[s] = IF s = r THEN <<>> ELSE port[s]
    BY <1>1 DEF ReaderTypeOK
  <2>2. sentAllowed' = sentAllowed /\ Len(<<>>) = 0
    BY <1>1 DEF deviceVars
  <2> SUFFICES ASSUME NEW s \in Reader, NEW t \in AllowedTag, NEW i \in 1..Len(port'[s]),
                      port'[s][i] = [k |-> "tail", tag |-> t]
               PROVE  sentAllowed'[s]
    BY DEF PortInv
  <2>3. s # r
    BY <2>1, <2>2
  <2> QED BY <2>1, <2>2, <2>3 DEF PortInv
<1>11. NoFalseAccept'
  <2>1. CASE UNCHANGED match
    BY <1>1, <2>1 DEF NoFalseAccept, deviceVars
  <2>2. CASE text # <<>> /\ RfidSetDirection(p, r, text)
    <3> DEFINE new == NewMatch(p, r, text)
    <3>1. /\ new.triggered <=> new.data_len > 0
          /\ new.is_allowed => sentAllowed[r]
      BY <1>2, <1>3, <2>2, NewMatchType DEF NoFalseAccept
    <3>2. \A q \in Proc, s \in Reader :
            match'[q][s] = IF q = p /\ s = r THEN new ELSE match[q][s]
      <4> HIDE DEF new
      <4>1. match \in [Proc -> [Reader -> Match]]
        BY DEF ReaderTypeOK
      <4>2. match' = [match EXCEPT ![p] = [match[p] EXCEPT ![r] = new]]
        BY <2>2, <4>1 DEF RfidSetDirection, new
      <4> HIDE DEF Match
      <4> QED BY <4>1, <4>2
    <3>3. sentAllowed' = sentAllowed
      BY <1>1 DEF deviceVars
    <3> HIDE DEF new
    <3> QED BY <3>1, <3>2, <3>3 DEF NoFalseAccept
  <2> QED BY <1>1, <2>1, <2>2
<1> QED BY <1>9, <1>10, <1>11

\* The steps of catcierge_rfid_ctx_service that read no text.
LEMMA ServiceKeeps ==
  ASSUME ReaderTypeOK, PortInv, NoFalseAccept, UNCHANGED args, NEW p \in Proc,
         \/ SelectReaders(p, args.signals)
         \/ \E r \in Reader : SkipReader(p, r) \/ ReadFails(p, r) \/ ReadNothing(p, r)
  PROVE  ReaderTypeOK' /\ PortInv' /\ NoFalseAccept'
<1>1. UNCHANGED <<port, deviceVars, rfid, match, direction>>
  BY DEF SelectReaders, SkipReader, ReadFails, ReadNothing
<1>2. service \in [Proc -> ServiceCall]
  BY DEF ReaderTypeOK
<1>3. NotServing \in ServiceCall
  BY DEF NotServing, ServiceCall
<1>4. service' \in [Proc -> ServiceCall]
  <2>1. CASE SelectReaders(p, args.signals)
    <3>1. PICK ready \in SUBSET Reader, failed \in BOOLEAN :
            service' = [service EXCEPT ![p] =
                          IF ready = {} THEN NotServing
                          ELSE [ready |-> ready, failed |-> failed,
                                todo |-> <<"inner", "outer">>]]
      <4>1. PICK interrupted \in {FALSE, args.signals} :
              LET failed == interrupted \/ \E r \in Selected(p) : rfid[p][r].fd = "closed"
                  ready == {r \in Selected(p) : failed \/ Readable(r)}
              IN service' = [service EXCEPT ![p] =
                               IF ready = {} THEN NotServing
                               ELSE [ready |-> ready, failed |-> failed,
                                     todo |-> <<"inner", "outer">>]]
        BY <2>1 DEF SelectReaders
      <4>2. args.signals \in BOOLEAN
        BY GrabberAssumption DEF ReaderTypeOK, Setup
      <4>3. (interrupted \/ \E r \in Selected(p) : rfid[p][r].fd = "closed") \in BOOLEAN
        OBVIOUS
      <4> QED BY <4>1, <4>3 DEF Selected
    <3>2. [ready |-> ready, failed |-> failed, todo |-> <<"inner", "outer">>] \in ServiceCall
      BY DEF ServiceCall
    <3> QED BY <1>2, <1>3, <3>1, <3>2
  <2>2. CASE service[p].todo # <<>> /\ ServiceNext(p)
    <3>1. service[p].todo = <<"outer">> \/ service[p].todo = <<"inner", "outer">>
      BY <1>2, <2>2 DEF ServiceCall
    <3>2. Tail(service[p].todo) \in {<<>>, <<"outer">>}
      BY <3>1, TodoTails
    <3>3. [service[p] EXCEPT !.todo = Tail(@)] \in ServiceCall
      BY <1>2, <3>2 DEF ServiceCall
    <3> QED BY <1>2, <2>2, <3>3 DEF ServiceNext
  <2>3. CASE ServiceEnds(p)
    <3> QED BY <1>2, <1>3, <2>3 DEF ServiceEnds
  <2>4. SelectReaders(p, args.signals) \/ (service[p].todo # <<>> /\ ServiceNext(p)) \/ ServiceEnds(p)
    BY DEF SkipReader, ReadFails, ReadNothing, Reads, Serving
  <2> QED BY <2>1, <2>2, <2>3, <2>4
<1>5. ReaderTypeOK'
  BY <1>1, <1>4 DEF ReaderTypeOK, deviceVars
<1> QED BY <1>1, <1>5 DEF PortInv, NoFalseAccept, deviceVars

\* The end of a process forgets its readers and matches.
LEMMA EndKeeps ==
  ASSUME ReaderTypeOK, PortInv, NoFalseAccept, UNCHANGED args, NEW p \in Proc, RfidAtEnd(p)
  PROVE  ReaderTypeOK' /\ PortInv' /\ NoFalseAccept'
<1> DEFINE Rfid == [fd : {"none", "open", "closed"},
                    state : {"disconnected", "connected", "awaiting_tag"}]
           Match == [triggered : BOOLEAN, complete : BOOLEAN, data_len : Nat,
                     data_ok : BOOLEAN, is_allowed : BOOLEAN]
<1>1. NotServing \in ServiceCall /\ NotOpened \in Rfid /\ NoMatch \in Match
  BY DEF NotServing, ServiceCall, NotOpened, NoMatch
<1>2. /\ service \in [Proc -> ServiceCall] /\ rfid \in [Proc -> [Reader -> Rfid]]
      /\ match \in [Proc -> [Reader -> Match]]
  BY DEF ReaderTypeOK
<1>3. /\ service' \in [Proc -> ServiceCall] /\ rfid' \in [Proc -> [Reader -> Rfid]]
      /\ match' \in [Proc -> [Reader -> Match]]
      /\ direction' \in [Proc -> {"in", "out"}]
      /\ UNCHANGED <<port, deviceVars>>
      /\ \A q \in Proc, r \in Reader : match'[q][r] = IF q = p THEN NoMatch ELSE match[q][r]
  <2> HIDE DEF Rfid, Match
  <2> QED BY <1>1, <1>2 DEF RfidAtEnd, ReaderTypeOK
<1>4. ReaderTypeOK'
  BY <1>3 DEF ReaderTypeOK, deviceVars
<1>5. NoFalseAccept'
  <2>1. ~ NoMatch.triggered /\ NoMatch.data_len = 0 /\ ~ NoMatch.is_allowed
    BY DEF NoMatch
  <2>2. sentAllowed' = sentAllowed
    BY <1>3 DEF deviceVars
  <2>3. \A q \in Proc, r \in Reader : match'[q][r] = IF q = p THEN NoMatch ELSE match[q][r]
    BY <1>3
  <2> QED BY <2>1, <2>2, <2>3 DEF NoFalseAccept
<1> QED BY <1>3, <1>4, <1>5 DEF PortInv, deviceVars

LEMMA ReaderInvInit == Init => ReaderTypeOK /\ PortInv /\ NoFalseAccept
<1> SUFFICES ASSUME Init PROVE ReaderTypeOK /\ PortInv /\ NoFalseAccept
  OBVIOUS
<1>1. port = [r \in Reader |-> <<>>] /\ line = [r \in Reader |-> <<>>]
  BY DEF Init, RfidInit
<1>2. port \in [Reader -> Seq(Part)] /\ line \in [Reader -> Seq(Part)]
  <2> HIDE DEF Part
  <2> QED BY <1>1
<1>3. NotServing \in ServiceCall
  BY DEF NotServing, ServiceCall
<1>4. ReaderTypeOK
  BY <1>2, <1>3, GrabberAssumption DEF Init, RfidInit, ReaderTypeOK, NotOpened, NoMatch
<1>5. PortInv
  BY <1>1 DEF PortInv
<1>6. NoFalseAccept
  BY GrabberAssumption DEF Init, RfidInit, NoFalseAccept, NoMatch
<1> QED BY <1>4, <1>5, <1>6

\* What a step of the program does to the readers.
LEMMA ReaderSteps ==
  ASSUME [Next]_vars
  PROVE  /\ UNCHANGED args
         /\ \/ UNCHANGED rfidVars
            \/ \E r \in args.sending : Send(r, args.tags, args.pending) \/ Break(r)
            \/ \E p \in Proc : \/ SetUp(p)
                               \/ ServiceReaders(p)
                               \/ GoTo(p, "off") /\ RfidAtEnd(p)
<1>1. CASE UNCHANGED vars
  BY <1>1 DEF vars
<1>2. CASE Devices
  BY <1>2 DEF Devices
<1>3. ASSUME NEW p \in Proc,
             \/ Start(p) \/ PidFile(p) \/ SetUp(p)
             \/ ServiceReaders(p) \/ LeaveLoop(p)
             \/ RemovePidFile(p) \/ ProcessEnds(p)
      PROVE  /\ UNCHANGED args
             /\ \/ UNCHANGED rfidVars
                \/ SetUp(p) \/ ServiceReaders(p) \/ (GoTo(p, "off") /\ RfidAtEnd(p))
  BY <1>3 DEF Start, PidFile, SetUp, ServiceReaders, LeaveLoop, RemovePidFile, ProcessEnds
<1> QED BY <1>1, <1>2, <1>3 DEF Next

LEMMA ReaderInvStep ==
  ASSUME ReaderTypeOK, PortInv, NoFalseAccept, [Next]_vars
  PROVE  ReaderTypeOK' /\ PortInv' /\ NoFalseAccept'
<1>1. UNCHANGED args
  BY ReaderSteps
<1>2. CASE UNCHANGED rfidVars
  BY <1>1, <1>2 DEF rfidVars, deviceVars, ReaderTypeOK, PortInv, NoFalseAccept
<1>3. ASSUME NEW r \in args.sending, Send(r, args.tags, args.pending)
      PROVE  ReaderTypeOK' /\ PortInv' /\ NoFalseAccept'
  <2>1. ReaderTypeOK' /\ PortInv' /\ \A s \in Reader : sentAllowed[s] => sentAllowed'[s]
    BY <1>1, <1>3, SendKeeps
  <2>2. UNCHANGED match
    BY <1>3 DEF Send
  <2> QED BY <2>1, <2>2 DEF NoFalseAccept
<1>4. ASSUME NEW r \in args.sending, Break(r)
      PROVE  ReaderTypeOK' /\ PortInv' /\ NoFalseAccept'
  <2>1. device' \in [Reader -> {"ok", "hangup", "error"}]
    BY <1>4 DEF Break, ReaderTypeOK
  <2>2. UNCHANGED <<port, line, sentAllowed, rfid, match, direction, service>>
    BY <1>4 DEF Break
  <2> QED BY <1>1, <2>1, <2>2 DEF ReaderTypeOK, PortInv, NoFalseAccept
<1>5. ASSUME NEW p \in Proc, SetUp(p) PROVE ReaderTypeOK' /\ PortInv' /\ NoFalseAccept'
  BY <1>1, <1>5, InitReadersKeeps DEF SetUp
<1>6. ASSUME NEW p \in Proc, ServiceReaders(p) PROVE ReaderTypeOK' /\ PortInv' /\ NoFalseAccept'
  <2>1. CASE \E r \in Reader : ReadText(p, r)
    BY <1>1, <2>1, ReadTextKeeps
  <2>2. CASE \/ SelectReaders(p, args.signals)
             \/ \E r \in Reader : SkipReader(p, r) \/ ReadFails(p, r) \/ ReadNothing(p, r)
    BY <1>1, <2>2, ServiceKeeps
  <2> QED BY <1>6, <2>1, <2>2 DEF ServiceReaders, CtxService
<1>7. ASSUME NEW p \in Proc, RfidAtEnd(p) PROVE ReaderTypeOK' /\ PortInv' /\ NoFalseAccept'
  BY <1>1, <1>7, EndKeeps
<1> QED BY <1>2, <1>3, <1>4, <1>5, <1>6, <1>7, ReaderSteps

LEMMA ReaderInvs == Spec => [](ReaderTypeOK /\ PortInv /\ NoFalseAccept)
<1>1. ReaderTypeOK /\ PortInv /\ NoFalseAccept /\ [Next]_vars
        => (ReaderTypeOK /\ PortInv /\ NoFalseAccept)'
  BY ReaderInvStep
<1> QED BY <1>1, ReaderInvInit, PTL DEF Spec

\* For any tags, allowed or not, and any lengths of the ports: however the texts
\* are cut and joined on their way, a match is triggered by a text with something
\* in it, and is allowed only when the reader sent the whole of an allowed tag
\* (catcierge_rfid_read, rfid_set_direction, match_allowed_rfid).
THEOREM NothingIsFalselyAccepted == Spec => []NoFalseAccept
  BY ReaderInvs, PTL

---------------------------------------------------------------------------
\* For any tags and any number of instances: what a text does to the match and the
\* direction of an instance is what action RfidRead of CatFsm does, and nothing
\* else changes them while the main loop runs (rfid_set_direction).
LEMMA TextsAreRfidReads ==
  ASSUME ReaderTypeOK, NEW p \in Proc, NEW r \in Reader, ReadText(p, r)
  PROVE  \/ Verdict(p)' = Verdict(p) /\ direction'[p] = direction[p]
         \/ \E s \in Reader, allowed \in BOOLEAN :
              /\ ~ match[p][s].triggered
              /\ Verdict(p)' = [Verdict(p) EXCEPT ![s] = [triggered |-> TRUE, is_allowed |-> allowed]]
              /\ direction'[p] = IF \E other \in Reader \ {s} : match[p][other].triggered
                                THEN DirectionOf(s) ELSE direction[p]
<1> DEFINE text == Trim(port[r])
           new == NewMatch(p, r, text)
           Match == [triggered : BOOLEAN, complete : BOOLEAN, data_len : Nat,
                     data_ok : BOOLEAN, is_allowed : BOOLEAN]
<1>1. CASE UNCHANGED <<match, direction>>
  BY <1>1 DEF Verdict
<1>2. CASE text # <<>> /\ RfidSetDirection(p, r, text)
  <2>1. text \in Seq(Part)
    <3>1. port[r] \in Seq(Part)
      BY DEF ReaderTypeOK
    <3> QED BY <3>1, TrimType
  <2>2. /\ new.triggered /\ new.is_allowed \in BOOLEAN /\ new.triggered \in BOOLEAN
        /\ match[p][r].triggered => new.is_allowed = match[p][r].is_allowed
    BY <1>2, <2>1, NewMatchType
  <2>3. match[p][r].triggered \in BOOLEAN
    BY DEF ReaderTypeOK
  <2>4. match' = [match EXCEPT ![p][r] = new]
    BY <1>2 DEF RfidSetDirection
  <2>5. match \in [Proc -> [Reader -> Match]]
    BY DEF ReaderTypeOK
  <2> HIDE DEF new, Match
  <2>6. \A s \in Reader : match'[p][s] = IF s = r THEN new ELSE match[p][s]
    BY <2>4, <2>5
  <2>7. direction'[p] = IF SetsDirection(p, r) THEN DirectionOf(r) ELSE direction[p]
    BY <1>2 DEF RfidSetDirection, ReaderTypeOK
  <2>8. CASE match[p][r].triggered
    <3>1. direction'[p] = direction[p]
      BY <2>7, <2>8 DEF SetsDirection
    <3>2. \A s \in Reader : /\ match'[p][s].triggered = match[p][s].triggered
                            /\ match'[p][s].is_allowed = match[p][s].is_allowed
      BY <2>2, <2>3, <2>6, <2>8
    <3> QED BY <3>1, <3>2 DEF Verdict
  <2>9. CASE ~ match[p][r].triggered
    <3>1. direction'[p] = IF \E other \in Reader \ {r} : match[p][other].triggered
                         THEN DirectionOf(r) ELSE direction[p]
      BY <2>7, <2>9 DEF SetsDirection
    <3> DEFINE allowed == new.is_allowed
    <3>2. [triggered |-> new.triggered, is_allowed |-> new.is_allowed]
            = [triggered |-> TRUE, is_allowed |-> allowed]
      BY <2>2
    <3>3. Verdict(p)' = [Verdict(p) EXCEPT ![r] = [triggered |-> TRUE, is_allowed |-> allowed]]
      BY <2>6, <3>2 DEF Verdict
    <3>4. allowed \in BOOLEAN
      BY <2>2
    <3> HIDE DEF allowed
    <3> QED BY <2>9, <3>1, <3>3, <3>4
  <2> QED BY <2>8, <2>9
<1> QED BY <1>1, <1>2, ReadTextEffect

THEOREM TextsAreReads == Spec => ReadsAreRfidReads
<1> DEFINE A ==
      \A p \in Proc :
       phase[p] = "loop" /\ phase'[p] = "loop" =>
         \/ Verdict(p)' = Verdict(p) /\ direction'[p] = direction[p]
         \/ \E r \in Reader, allowed \in BOOLEAN :
              /\ ~ match[p][r].triggered
              /\ Verdict(p)' = [Verdict(p) EXCEPT ![r] = [triggered |-> TRUE, is_allowed |-> allowed]]
              /\ direction'[p] = IF \E other \in Reader \ {r} : match[p][other].triggered
                                THEN DirectionOf(r) ELSE direction[p]
<1>1. PhaseType /\ ReaderTypeOK /\ PortInv /\ NoFalseAccept /\ [Next]_vars => [A]_vars
  <2> DEFINE Same(p) == Verdict(p)' = Verdict(p) /\ direction'[p] = direction[p]
             Read(p) ==
               \E r \in Reader, allowed \in BOOLEAN :
                 /\ ~ match[p][r].triggered
                 /\ Verdict(p)' = [Verdict(p) EXCEPT ![r] = [triggered |-> TRUE, is_allowed |-> allowed]]
                 /\ direction'[p] = IF \E other \in Reader \ {r} : match[p][other].triggered
                                   THEN DirectionOf(r) ELSE direction[p]
  <2> SUFFICES ASSUME PhaseType, ReaderTypeOK, PortInv, NoFalseAccept, [Next]_vars,
                      NEW p \in Proc, phase[p] = "loop", phase'[p] = "loop"
               PROVE  Same(p) \/ Read(p)
    OBVIOUS
  <2>1. ASSUME match'[p] = match[p], direction'[p] = direction[p] PROVE Same(p)
    BY <2>1 DEF Verdict
  <2>2. CASE UNCHANGED rfidVars
    BY <2>1, <2>2 DEF rfidVars
  <2>3. ASSUME NEW r \in args.sending, Send(r, args.tags, args.pending) \/ Break(r)
        PROVE  Same(p)
    BY <2>1, <2>3 DEF Send, Break
  <2>4. ASSUME NEW q \in Proc, SetUp(q) PROVE Same(p)
    <3>1. q # p
      BY <2>4 DEF SetUp
    <3>2. match'[p] = match[p]
      BY <2>4, <3>1, InitReadersKeeps, ReaderSteps DEF SetUp
    <3> QED BY <2>1, <2>4, <3>2 DEF SetUp, InitRfidReaders
  <2>5. ASSUME NEW q \in Proc, ServiceReaders(q) PROVE Same(p) \/ Read(p)
    <3>1. CASE \E r \in Reader : ReadText(q, r)
      <4>1. PICK r \in Reader : ReadText(q, r)
        BY <3>1
      <4>2. CASE q = p
        BY <4>1, <4>2, TextsAreRfidReads
      <4>3. CASE q # p
        <5>1. UNCHANGED <<match, direction>> \/ RfidSetDirection(q, r, Trim(port[r]))
          BY <4>1, ReadTextEffect
        <5> QED BY <2>1, <4>3, <5>1 DEF RfidSetDirection, ReaderTypeOK
      <4> QED BY <4>2, <4>3
    <3>2. CASE \/ SelectReaders(q, args.signals)
               \/ \E r \in Reader : SkipReader(q, r) \/ ReadFails(q, r) \/ ReadNothing(q, r)
      BY <2>1, <3>2 DEF SelectReaders, SkipReader, ReadFails, ReadNothing
    <3> QED BY <2>5, <3>1, <3>2 DEF ServiceReaders, CtxService
  <2>6. ASSUME NEW q \in Proc, GoTo(q, "off"), RfidAtEnd(q) PROVE Same(p)
    <3>1. q # p
      BY <2>6 DEF GoTo, PhaseType
    <3> QED BY <2>1, <2>6, <3>1 DEF RfidAtEnd, ReaderTypeOK
  <2> HIDE DEF Same, Read
  <2> QED BY <2>2, <2>3, <2>4, <2>5, <2>6, ReaderSteps
<1> QED BY <1>1, PhaseTypes, ReaderInvs, PTL DEF Spec, ReadsAreRfidReads

---------------------------------------------------------------------------
(* Reads that would wait                                                   *)

\* The readers that the call in progress has yet to come to.
ToServe(p, r) ==
  service[p].todo = <<"inner", "outer">> \/ (service[p].todo = <<"outer">> /\ r = "outer")

\* Only the main loop serves the readers, and only the processes of the setup run.
RunInv ==
  \A p \in Proc : /\ service[p].todo # <<>> => phase[p] = "loop"
                  /\ phase[p] # "off" => p \in args.procs

Alone == \A p, q \in args.procs : p = q

\* The select of the call in progress failed, and why.
SelectFailed(p) ==
  /\ service[p].failed
  /\ args.signals \/ \E o \in Reader : rfid[p][o].fd = "closed"

\* What select has found for a reader is still there when its turn comes: nobody
\* else empties the port.
FoundInv ==
  Alone =>
    \A p \in Proc, r \in Reader :
      ToServe(p, r) /\ r \in service[p].ready => Readable(r) \/ SelectFailed(p)

LEMMA RunInvStep ==
  ASSUME PhaseType, ReaderTypeOK, RunInv, [Next]_vars
  PROVE  RunInv'
<1>1. CASE UNCHANGED <<phase, args, service>>
  BY <1>1 DEF RunInv
<1>2. ASSUME NEW p \in Proc, Start(p) \/ SetUp(p) PROVE RunInv'
  BY <1>2 DEF Start, SetUp, InitRfidReaders, GoTo, RunInv, PhaseType, rfidVars
<1>3. ASSUME NEW p \in Proc, GoTo(p, "off"), RfidAtEnd(p), UNCHANGED args PROVE RunInv'
  <2>1. service'[p] = NotServing /\ \A q \in Proc \ {p} : service'[q] = service[q]
    BY <1>3 DEF RfidAtEnd, ReaderTypeOK
  <2>2. phase'[p] = "off" /\ \A q \in Proc \ {p} : phase'[q] = phase[q]
    BY <1>3 DEF GoTo, PhaseType
  <2> QED BY <1>3, <2>1, <2>2 DEF RunInv, NotServing
<1>4. ASSUME NEW p \in Proc, LeaveLoop(p) PROVE RunInv'
  <2>1. CASE service[p].todo = <<>> /\ phase[p] = "loop" /\ GoTo(p, "exit") /\ UNCHANGED rfidVars
    BY <1>4, <2>1 DEF LeaveLoop, GoTo, RunInv, PhaseType, rfidVars
  <2> QED BY <1>3, <1>4, <2>1 DEF LeaveLoop
<1>5. ASSUME NEW p \in Proc, ServiceReaders(p) PROVE RunInv'
  <2>1. phase' = phase /\ args' = args /\ phase[p] = "loop"
    BY <1>5 DEF ServiceReaders
  <2>2. \A q \in Proc \ {p} : service'[q] = service[q]
    BY <1>5 DEF ServiceReaders, CtxService, SelectReaders, SkipReader, ReadFails, ReadNothing,
                ReadText, ServiceNext, ServiceEnds, ReaderTypeOK
  <2> QED BY <2>1, <2>2 DEF RunInv
<1>6. CASE Devices \/ UNCHANGED vars
  BY <1>1, <1>6 DEF Devices, Send, Break, vars, rfidVars
<1>7. ASSUME NEW p \in Proc, PidFile(p) \/ RemovePidFile(p) PROVE RunInv'
  BY <1>1, <1>7 DEF PidFile, RemovePidFile, rfidVars
<1>8. ASSUME NEW p \in Proc, ProcessEnds(p) PROVE RunInv'
  BY <1>3, <1>8 DEF ProcessEnds
<1> QED BY <1>2, <1>4, <1>5, <1>6, <1>7, <1>8 DEF Next

\* A turn that is over leaves the others to serve.
LEMMA ServiceNextEffect ==
  ASSUME ReaderTypeOK, NEW p \in Proc, NEW r \in Reader, Serving(p, r), ServiceNext(p)
  PROVE  /\ ToServe(p, r)
         /\ service'[p].ready = service[p].ready
         /\ service'[p].failed = service[p].failed
         /\ \A s \in Reader : ToServe(p, s)' => ToServe(p, s) /\ s # r
<1>1. service'[p] = [service[p] EXCEPT !.todo = Tail(@)]
  BY DEF ServiceNext, ReaderTypeOK
<1>2. service[p] \in ServiceCall
  BY DEF ReaderTypeOK
<1>3. /\ service'[p].todo = Tail(service[p].todo)
      /\ service'[p].ready = service[p].ready /\ service'[p].failed = service[p].failed
  BY <1>1, <1>2 DEF ServiceCall
<1>4. service[p].todo = <<"outer">> \/ service[p].todo = <<"inner", "outer">>
  BY <1>2 DEF Serving, ServiceCall
<1>5. CASE service[p].todo = <<"outer">>
  <2>1. service'[p].todo = <<>> /\ r = "outer"
    BY <1>3, <1>5, TodoTails DEF Serving
  <2> QED BY <1>3, <1>5, <2>1, TodoTails DEF ToServe
<1>6. CASE service[p].todo = <<"inner", "outer">>
  <2>1. service'[p].todo = <<"outer">> /\ r = "inner"
    BY <1>3, <1>6, TodoTails DEF Serving
  <2> QED BY <1>3, <1>6, <2>1, TodoTails DEF ToServe
<1> QED BY <1>4, <1>5, <1>6

\* With one process that runs, a step of the readers' side keeps FoundInv when it
\* empties no port and leaves the open files as they are.
LEMMA FoundKept ==
  ASSUME FoundInv, UNCHANGED args,
         \A s \in Reader : Readable(s) => Readable(s)',
         \A p \in Proc, r \in Reader :
           ToServe(p, r)' /\ r \in service'[p].ready =>
             /\ ToServe(p, r) /\ r \in service[p].ready
             /\ service'[p].failed = service[p].failed
             /\ \A o \in Reader : rfid'[p][o].fd = rfid[p][o].fd
  PROVE  FoundInv'
<1> SUFFICES ASSUME Alone', NEW p \in Proc, NEW r \in Reader,
                    ToServe(p, r)', r \in service'[p].ready
             PROVE  Readable(r)' \/ SelectFailed(p)'
  BY DEF FoundInv
<1>1. Alone
  BY DEF Alone
<1>2. Readable(r) \/ SelectFailed(p)
  BY <1>1 DEF FoundInv
<1> QED BY <1>2 DEF SelectFailed

LEMMA FoundInvStep ==
  ASSUME PhaseType, ReaderTypeOK, RunInv, FoundInv, [Next]_vars
  PROVE  FoundInv'
<1>1. UNCHANGED args
  BY ReaderSteps
<1>2. CASE UNCHANGED rfidVars
  BY <1>1, <1>2 DEF rfidVars, deviceVars, FoundInv, ToServe, Readable, Alone, SelectFailed
<1>3. ASSUME NEW r \in args.sending, Send(r, args.tags, args.pending) \/ Break(r)
      PROVE  FoundInv'
  <2>1. r \in Reader
    BY GrabberAssumption DEF ReaderTypeOK, Setup
  <2>2. UNCHANGED <<rfid, service>>
    BY <1>3 DEF Send, Break
  <2>3. \A s \in Reader : Readable(s) => Readable(s)'
    <3>1. CASE Break(r)
      BY <2>1, <3>1 DEF Break, Readable, ReaderTypeOK
    <3>2. CASE Send(r, args.tags, args.pending)
      <4>1. PICK part : port' = [port EXCEPT ![r] = Append(@, part)]
        BY <3>2 DEF Send
      <4>2. \A s \in Reader : s # r => port'[s] = port[s]
        BY <4>1 DEF ReaderTypeOK
      <4>3. device' = device /\ device[r] = "ok"
        BY <3>2 DEF Send
      <4>4. port'[r] = Append(port[r], part) /\ port[r] \in Seq(Part)
        BY <2>1, <4>1 DEF ReaderTypeOK
      <4>5. port'[r] # <<>>
        <5> HIDE DEF Part
        <5>1. Append(port[r], part) # <<>>
          BY <4>4
        <5> QED BY <4>4, <5>1
      <4> QED BY <4>2, <4>3, <4>5 DEF Readable
    <3> QED BY <1>3, <3>1, <3>2
  <2> QED BY <1>1, <2>2, <2>3, FoundKept DEF ToServe
<1>4. ASSUME NEW q \in Proc, GoTo(q, "off"), RfidAtEnd(q) PROVE FoundInv'
  <2>1. /\ UNCHANGED <<port, device>>
        /\ service'[q] = NotServing
        /\ \A p \in Proc \ {q} : service'[p] = service[p] /\ rfid'[p] = rfid[p]
    BY <1>4 DEF RfidAtEnd, ReaderTypeOK, deviceVars
  <2>2. \A s \in Reader : Readable(s) => Readable(s)'
    BY <2>1 DEF Readable
  <2>3. \A r \in Reader : r \notin service'[q].ready
    BY <2>1 DEF NotServing
  <2> QED BY <1>1, <2>1, <2>2, <2>3, FoundKept DEF ToServe
<1>5. ASSUME NEW q \in Proc, SetUp(q) PROVE FoundInv'
  <2> SUFFICES ASSUME Alone', NEW p \in Proc, NEW r \in Reader, ToServe(p, r)' PROVE FALSE
    BY DEF FoundInv
  <2>1. phase[q] = "pid_file" /\ service' = service
    BY <1>5 DEF SetUp, InitRfidReaders
  <2>2. service[p].todo # <<>>
    BY <2>1, TodoTails DEF ToServe
  <2>3. phase[p] = "loop" /\ p \in args.procs /\ q \in args.procs
    BY <2>1, <2>2 DEF RunInv
  <2>4. p = q
    BY <1>1, <2>3 DEF Alone
  <2> QED BY <2>1, <2>3, <2>4
<1>6. ASSUME NEW q \in Proc, ServiceReaders(q) PROVE FoundInv'
  <2>1. phase[q] = "loop"
    BY <1>6 DEF ServiceReaders
  <2>2. \A p \in Proc \ {q} : service'[p] = service[p]
    BY <1>6 DEF ServiceReaders, CtxService, SelectReaders, SkipReader, ReadFails, ReadNothing,
                ReadText, ServiceNext, ServiceEnds, ReaderTypeOK
  <2>3. ASSUME NEW r \in Reader, ServiceNext(q), Serving(q, r), UNCHANGED <<port, device, rfid>>
        PROVE  FoundInv'
    <3>1. \A s \in Reader : /\ ToServe(q, s)' => ToServe(q, s)
                            /\ service'[q].ready = service[q].ready
                            /\ service'[q].failed = service[q].failed
      BY <2>3, ServiceNextEffect
    <3>2. \A s \in Reader : Readable(s) => Readable(s)'
      BY <2>3 DEF Readable
    <3>3. \A p \in Proc \ {q}, s \in Reader : ToServe(p, s)' => ToServe(p, s)
      BY <2>2 DEF ToServe
    <3>4. \A p \in Proc : /\ service'[p].ready = service[p].ready
                         /\ service'[p].failed = service[p].failed
      BY <2>2, <3>1
    <3> QED BY <1>1, <2>3, <3>1, <3>2, <3>3, <3>4, FoundKept
  <2>4. ASSUME ServiceEnds(q), UNCHANGED <<port, device, rfid>> PROVE FoundInv'
    <3>1. service'[q] = NotServing
      BY <2>4 DEF ServiceEnds, ReaderTypeOK
    <3>2. \A r \in Reader : r \notin service'[q].ready
      BY <3>1 DEF NotServing
    <3>3. \A s \in Reader : Readable(s) => Readable(s)'
      BY <2>4 DEF Readable
    <3>4. \A p \in Proc \ {q}, s \in Reader : ToServe(p, s)' => ToServe(p, s)
      BY <2>2 DEF ToServe
    <3> QED BY <1>1, <2>2, <2>4, <3>2, <3>3, <3>4, FoundKept
  <2>5. ASSUME SelectReaders(q, args.signals) PROVE FoundInv'
    <3> SUFFICES ASSUME Alone', NEW p \in Proc, NEW r \in Reader,
                        ToServe(p, r)', r \in service'[p].ready
                 PROVE  Readable(r)' \/ SelectFailed(p)'
      BY DEF FoundInv
    <3>1. UNCHANGED <<port, device, rfid>>
      BY <2>5 DEF SelectReaders, deviceVars
    <3>2. CASE p = q
      <4>1. PICK interrupted \in {FALSE, args.signals} :
              LET failed == interrupted \/ \E s \in Selected(q) : rfid[q][s].fd = "closed"
                  ready == {s \in Selected(q) : failed \/ Readable(s)}
              IN service' = [service EXCEPT ![q] =
                               IF ready = {} THEN NotServing
                               ELSE [ready |-> ready, failed |-> failed,
                                     todo |-> <<"inner", "outer">>]]
        BY <2>5 DEF SelectReaders
      <4> DEFINE failed == interrupted \/ \E s \in Selected(q) : rfid[q][s].fd = "closed"
                 ready == {s \in Selected(q) : failed \/ Readable(s)}
      <4>2. r \in ready /\ service'[q].failed = failed
        <5>1. service' = [service EXCEPT ![q] =
                            IF ready = {} THEN NotServing
                            ELSE [ready |-> ready, failed |-> failed,
                                  todo |-> <<"inner", "outer">>]]
          BY <4>1
        <5> HIDE DEF ready, failed
        <5>2. service'[q] = IF ready = {} THEN NotServing
                            ELSE [ready |-> ready, failed |-> failed,
                                  todo |-> <<"inner", "outer">>]
          BY <5>1 DEF ReaderTypeOK
        <5>3. NotServing.ready = {}
          BY DEF NotServing
        <5>4. ready # {}
          BY <3>2, <5>2, <5>3
        <5>5. service'[q] = [ready |-> ready, failed |-> failed, todo |-> <<"inner", "outer">>]
          BY <5>2, <5>4
        <5>6. service'[q].ready = ready
          BY <5>5
        <5>7. service'[q].failed = failed
          <6> DEFINE call == [ready |-> ready, failed |-> failed, todo |-> <<"inner", "outer">>]
          <6>1. call.failed = failed
            BY Zenon
          <6> QED BY <5>5, <6>1, Zenon
        <5> QED BY <3>2, <5>6, <5>7
      <4>3. failed \/ Readable(r)
        BY <4>2
      <4>4. failed => args.signals \/ \E s \in Reader : rfid[q][s].fd = "closed"
        BY DEF Selected
      <4> HIDE DEF failed
      <4>5. failed => service'[q].failed
        BY <4>2
      <4> QED BY <1>1, <3>1, <3>2, <4>3, <4>4, <4>5 DEF SelectFailed, Readable
    <3>3. CASE p # q
      <4>1. ToServe(p, r) /\ r \in service[p].ready
        BY <2>2, <3>3 DEF ToServe
      <4>2. Alone
        BY <1>1 DEF Alone
      <4>3. Readable(r) \/ SelectFailed(p)
        BY <4>1, <4>2 DEF FoundInv
      <4>4. service'[p] = service[p]
        BY <2>2, <3>3
      <4> QED BY <1>1, <3>1, <4>3, <4>4 DEF Readable, SelectFailed
    <3> QED BY <3>2, <3>3
  <2>6. ASSUME NEW r \in Reader, ReadText(q, r) PROVE FoundInv'
    <3> SUFFICES ASSUME Alone', NEW p \in Proc, NEW s \in Reader,
                        ToServe(p, s)', s \in service'[p].ready
                 PROVE  Readable(s)' \/ SelectFailed(p)'
      BY DEF FoundInv
    <3>1. /\ ServiceNext(q) /\ Serving(q, r) /\ device' = device
          /\ port' = [port EXCEPT ![r] = <<>>]
          /\ rfid' = rfid \/ rfid' = [rfid EXCEPT ![q][r].state = "awaiting_tag"]
      BY <2>6, ReadTextEffect DEF ReadText, Reads, deviceVars
    <3>2. p = q
      <4>1. p # q => ToServe(p, s)
        BY <2>2 DEF ToServe
      <4>2. p # q => service[p].todo # <<>>
        BY <4>1, TodoTails DEF ToServe
      <4>3. p # q => p \in args.procs
        BY <4>2 DEF RunInv
      <4>4. q \in args.procs
        BY <2>1 DEF RunInv
      <4> QED BY <1>1, <4>3, <4>4 DEF Alone
    <3>3. /\ ToServe(q, s) /\ s # r /\ s \in service[q].ready
          /\ service'[q].failed = service[q].failed
      BY <3>1, <3>2, ServiceNextEffect
    <3>4. Readable(s) \/ SelectFailed(q)
      BY <1>1, <3>3 DEF FoundInv, Alone
    <3>5. Readable(s) => Readable(s)'
      BY <3>1, <3>3 DEF Readable, ReaderTypeOK
    <3>6. \A o \in Reader : rfid'[q][o].fd = rfid[q][o].fd
      <4> DEFINE Rfid == [fd : {"none", "open", "closed"},
                          state : {"disconnected", "connected", "awaiting_tag"}]
                 changed == [rfid[q][r] EXCEPT !.state = "awaiting_tag"]
      <4>1. rfid \in [Proc -> [Reader -> Rfid]]
        BY DEF ReaderTypeOK
      <4>2. changed.fd = rfid[q][r].fd
        BY <4>1
      <4>3. rfid' = rfid \/ rfid' = [rfid EXCEPT ![q] = [rfid[q] EXCEPT ![r] = changed]]
        BY <3>1, <4>1
      <4> HIDE DEF Rfid, changed
      <4>4. \A o \in Reader : rfid'[q][o] = rfid[q][o] \/ (o = r /\ rfid'[q][o] = changed)
        BY <4>1, <4>3
      <4> QED BY <4>2, <4>4
    <3> QED BY <1>1, <3>2, <3>3, <3>4, <3>5, <3>6 DEF SelectFailed
  <2> QED
    BY <1>6, <2>3, <2>4, <2>5, <2>6 DEF ServiceReaders, CtxService, SkipReader, ReadFails,
       ReadNothing, Reads, deviceVars
<1> QED BY <1>2, <1>3, <1>4, <1>5, <1>6, ReaderSteps

\* For any number of readers' texts and tags: an instance that is the only one to
\* run waits in a read of a port only if the select of the same call failed, by a
\* signal or for a file that fcntl failed on (catcierge_rfid_ctx_service).
THEOREM BlocksAfterFailedSelect == Spec => []BlocksOnlyIfSelectFailed
<1>1. Init => RunInv /\ FoundInv
  BY TodoTails, GrabberAssumption
     DEF Init, RfidInit, RunInv, FoundInv, ToServe, NotServing
<1>2. ReaderTypeOK /\ RunInv /\ FoundInv => BlocksOnlyIfSelectFailed
  <2> SUFFICES ASSUME ReaderTypeOK, RunInv, FoundInv, Alone, NEW p \in Proc, NEW r \in Reader,
                      Reads(p, r), ~ Readable(r)
               PROVE  SelectFailed(p)
    BY DEF BlocksOnlyIfSelectFailed, Blocked, Alone, SelectFailed
  <2>1. r \in service[p].ready /\ service[p].todo # <<>> /\ Head(service[p].todo) = r
    BY DEF Reads, Serving, IsReady
  <2>2. service[p].todo \in {<<>>, <<"outer">>, <<"inner", "outer">>}
    BY DEF ReaderTypeOK, ServiceCall
  <2>3. ToServe(p, r)
    BY <2>1, <2>2, TodoTails DEF ToServe
  <2> QED BY <2>1, <2>3 DEF FoundInv
<1>3. PhaseType /\ (ReaderTypeOK /\ PortInv /\ NoFalseAccept) /\ RunInv /\ FoundInv /\ [Next]_vars
        => (RunInv /\ FoundInv)'
  BY RunInvStep, FoundInvStep
<1> QED BY <1>1, <1>2, <1>3, PhaseTypes, ReaderInvs, PTL DEF Spec
=============================================================================
