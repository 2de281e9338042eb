----------------------------- MODULE CatPidFile -----------------------------
(***************************************************************************)
(* The pid file (create_pid_file and the end of main, catcierge_grabber.c) *)
(* as several instances of the program see it: a path, the files that are  *)
(* or were at that path, and the lock on each of them.  Between two system *)
(* calls of one process another one may run, or the process may crash.     *)
(*                                                                         *)
(* The file system and fcntl's locks are modelled from how the code uses   *)
(* them: a lock belongs to one process and is gone when the process closes *)
(* the file or ends; unlink takes the file off the path only.              *)
(***************************************************************************)
EXTENDS Integers, FiniteSets

CONSTANTS
  Proc,      \* the processes that may run the program, one after another too
  File,      \* bound: how many files may exist at once
  NoProc,
  NoFile

ASSUME PidFileAssumption == NoProc \notin Proc /\ NoFile \notin File

VARIABLES
  pidPath,      \* the file at PID_PATH, or NoFile
  pidLock,      \* who holds the write lock of a file, or NoProc
  pidContent,   \* whose pid is in a file; NoProc if it is empty
  pidFile,      \* the file a process has open, or NoFile
  pidStep       \* how far a process has come with it; "held" is pid_fd > 0,
                \* "failed" that create_pid_file returned -1

pidVars == <<pidPath, pidLock, pidContent, pidFile, pidStep>>

PidInit ==
  /\ pidPath = NoFile
  /\ pidLock = [f \in File |-> NoProc]
  /\ pidContent = [f \in File |-> NoProc]
  /\ pidFile = [p \in Proc |-> NoFile]
  /\ pidStep = [p \in Proc |-> "none"]

\* A file that is not on the path and that nobody has open.
FreeFile(f) == f # pidPath /\ \A p \in Proc : pidFile[p] # f

OpenFile(p, f) ==
  /\ pidPath' = f
  /\ pidFile' = [pidFile EXCEPT ![p] = f]
  /\ pidStep' = [pidStep EXCEPT ![p] = "open"]
  /\ UNCHANGED pidLock

\* With O_EXCL the file itself would be the lock.
OpenPidFile_Mutant(p) ==
  /\ pidStep[p] = "none"
  /\ \/ /\ pidPath # NoFile
        /\ pidStep' = [pidStep EXCEPT ![p] = "failed"]
        /\ UNCHANGED <<pidPath, pidLock, pidContent, pidFile>>
     \/ /\ pidPath = NoFile
        /\ \E f \in File : FreeFile(f)
        /\ LET new == CHOOSE f \in File : FreeFile(f)
           IN OpenFile(p, new) /\ pidContent' = [pidContent EXCEPT ![new] = NoProc]

\* open(pid_path, O_RDWR | O_CREAT)
OpenPidFile(p) ==
  /\ pidStep[p] = "none"
  /\ \/ pidPath # NoFile /\ OpenFile(p, pidPath) /\ UNCHANGED pidContent
     \/ /\ pidPath = NoFile
        /\ \E f \in File : FreeFile(f)
        /\ LET new == CHOOSE f \in File : FreeFile(f)
           IN OpenFile(p, new) /\ pidContent' = [pidContent EXCEPT ![new] = NoProc]

OpenFails(p) ==
  /\ pidStep[p] = "none"
  /\ pidStep' = [pidStep EXCEPT ![p] = "failed"]
  /\ UNCHANGED <<pidPath, pidLock, pidContent, pidFile>>

\* A file that is not on the path and that nobody has open is gone.
ContentLeft ==
  pidContent' = [f \in File |-> IF f = pidPath' \/ \E p \in Proc : pidFile'[p] = f
                               THEN pidContent[f] ELSE NoProc]

\* The program closes the file, or the system does: with it goes the lock.
CloseFile(p, step) ==
  /\ pidFile' = [pidFile EXCEPT ![p] = NoFile]
  /\ pidLock' = [f \in File |-> IF pidLock[f] = p THEN NoProc ELSE pidLock[f]]
  /\ pidStep' = [pidStep EXCEPT ![p] = step]

LockedByOther_Mutant(p) == FALSE
LockedByOther(p) == pidLock[pidFile[p]] \notin {NoProc, p}

\* fcntl(fd, F_SETLK, &fl): an instance that is refused closes the file again.
LockPidFile(p) ==
  /\ pidStep[p] = "open"
  /\ IF LockedByOther(p)
     THEN CloseFile(p, "failed")
     ELSE /\ pidLock' = [pidLock EXCEPT ![pidFile[p]] = p]
          /\ pidStep' = [pidStep EXCEPT ![p] = "locked"]
          /\ UNCHANGED pidFile
  /\ UNCHANGED pidPath
  /\ ContentLeft

\* ftruncate(fd, 0)
TruncatePidFile(p) ==
  /\ pidStep[p] = "locked"
  /\ pidContent' = [pidContent EXCEPT ![pidFile[p]] = NoProc]
  /\ pidStep' = [pidStep EXCEPT ![p] = "truncated"]
  /\ UNCHANGED <<pidPath, pidLock, pidFile>>

WritePidFile(p) ==
  /\ pidStep[p] = "truncated"
  /\ pidContent' = [pidContent EXCEPT ![pidFile[p]] = p]
  /\ pidStep' = [pidStep EXCEPT ![p] = "held"]
  /\ UNCHANGED <<pidPath, pidLock, pidFile>>

\* F_SETLK, ftruncate or write fails.
PidFileError(p) ==
  /\ pidStep[p] \in {"open", "locked", "truncated"}
  /\ CloseFile(p, "failed")
  /\ UNCHANGED pidPath
  /\ ContentLeft

CreatePidFile(p, io_errors) ==
  \/ OpenPidFile(p) \/ LockPidFile(p) \/ TruncatePidFile(p) \/ WritePidFile(p)
  \/ io_errors /\ (OpenFails(p) \/ PidFileError(p))

\* create_pid_file has returned, with a file descriptor or with -1.
PidFileDone(p) == pidStep[p] \in {"held", "failed"}

OwnsPidFile_Mutant(p) == pidStep[p] \in {"held", "failed"}
OwnsPidFile(p) == pidStep[p] = "held"

\* The end of main: close(pid_fd) gives the lock up before the path is removed.
ClosePidFile(p) ==
  /\ OwnsPidFile(p)
  /\ CloseFile(p, "closed")
  /\ UNCHANGED pidPath
  /\ ContentLeft

\* unlink(PID_PATH) removes whatever file is at the path by now.
UnlinkPidFile(p) ==
  /\ pidStep[p] = "closed"
  /\ pidPath' = NoFile
  /\ pidStep' = [pidStep EXCEPT ![p] = "unlinked"]
  /\ UNCHANGED <<pidLock, pidFile>>
  /\ ContentLeft

\* However a process ends, the system closes its files.
PidFileAtEnd(p) == CloseFile(p, "none") /\ UNCHANGED pidPath /\ ContentLeft

---------------------------------------------------------------------------
PidTypeOK ==
  /\ pidPath \in File \cup {NoFile}
  /\ pidLock \in [File -> Proc \cup {NoProc}]
  /\ pidContent \in [File -> Proc \cup {NoProc}]
  /\ pidFile \in [Proc -> File \cup {NoFile}]
  /\ pidStep \in [Proc -> {"none", "open", "locked", "truncated", "held", "failed",
                           "closed", "unlinked"}]
=============================================================================
