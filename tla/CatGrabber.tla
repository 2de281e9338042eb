----------------------------- MODULE CatGrabber -----------------------------
(***************************************************************************)
(* The life of catcierge as a process (main, catcierge_grabber.c): the pid *)
(* file, the RFID readers and the main loop, for several processes that    *)
(* share the pid file and the serial ports, start, end and crash.          *)
(*                                                                         *)
(* The result of create_pid_file is not looked at: a process that does not *)
(* get the pid file goes on without it.                                    *)
(***************************************************************************)
EXTENDS CatPidFile, CatRfid

CONSTANT Setups    \* settings and circumstances: readers, processes, which readers
                   \* send what, whether system calls fail, and whether signals may
                   \* interrupt select

Setup == [readers : SUBSET Reader, procs : SUBSET Proc, sending : SUBSET Reader,
          tags : SUBSET Tag, pending : 1..MaxPending, io_errors : BOOLEAN, signals : BOOLEAN]

ASSUME GrabberAssumption == Process = Proc /\ Setups \subseteq Setup

VARIABLES
  args,
  phase      \* of each process: "off", "pid_file", "loop", "exit"

vars == <<args, phase, pidVars, rfidVars>>

Init ==
  /\ args \in Setups
  /\ phase = [p \in Proc |-> "off"]
  /\ PidInit
  /\ RfidInit

GoTo(p, next) == phase' = [phase EXCEPT ![p] = next]

Start(p) ==
  /\ phase[p] = "off"
  /\ p \in args.procs
  /\ GoTo(p, "pid_file")
  /\ UNCHANGED <<args, pidVars, rfidVars>>

PidFile(p) ==
  /\ phase[p] = "pid_file"
  /\ CreatePidFile(p, args.io_errors)
  /\ UNCHANGED <<args, phase, rfidVars>>

\* Settings, matcher, output and the RFID readers; catcierge_fsm_start.
SetUp(p) ==
  /\ phase[p] = "pid_file"
  /\ PidFileDone(p)
  /\ InitRfidReaders(p, args.readers, args.io_errors)
  /\ GoTo(p, "loop")
  /\ UNCHANGED <<args, pidVars>>

\* The readers are served at the start of each round of the main loop.
ServiceReaders(p) ==
  /\ phase[p] = "loop"
  /\ args.readers # {}
  /\ CtxService(p, args.signals)
  /\ UNCHANGED <<args, phase, pidVars>>

\* The main loop ends after a round in which grb->running became 0: by the first
\* SIGINT, or in catcierge_check_max_consecutive_lockouts.
LeaveLoop(p) ==
  /\ phase[p] = "loop"
  /\ service[p].todo = <<>>
  /\ IF OwnsPidFile(p) THEN GoTo(p, "exit") /\ UNCHANGED <<pidVars, rfidVars>>
     ELSE GoTo(p, "off") /\ PidFileAtEnd(p) /\ RfidAtEnd(p)
  /\ UNCHANGED args

RemovePidFile(p) ==
  /\ phase[p] = "exit"
  /\ ClosePidFile(p) \/ UnlinkPidFile(p)
  /\ UNCHANGED <<args, phase, rfidVars>>

\* main returns, or the process ends before: it fails to set up, an assertion
\* fails, the second SIGINT calls exit, or it is killed.
ProcessEnds(p) ==
  /\ phase[p] # "off"
  /\ GoTo(p, "off")
  /\ PidFileAtEnd(p)
  /\ RfidAtEnd(p)
  /\ UNCHANGED args

Devices ==
  /\ \E r \in args.sending : Send(r, args.tags, args.pending) \/ (args.io_errors /\ Break(r))
  /\ UNCHANGED <<args, phase, pidVars>>

Next ==
  \/ Devices
  \/ \E p \in Proc :
       \/ Start(p) \/ PidFile(p) \/ SetUp(p)
       \/ ServiceReaders(p) \/ LeaveLoop(p)
       \/ RemovePidFile(p) \/ ProcessEnds(p)

Spec == Init /\ [][Next]_vars

\* The main loop goes round; nothing is assumed of the devices.
FairSpec == Spec /\ \A p \in Proc : WF_vars(ServiceReaders(p))

---------------------------------------------------------------------------
(* Properties                                                              *)

\* While an instance has the pid file (create_pid_file returned it), the file has
\* the lock and the pid of that instance, whoever else tries, exits or crashes
\* and whatever pid was left in it.
PidFileNamesHolder ==
  \A p \in Proc : pidStep[p] = "held" =>
    pidLock[pidFile[p]] = p /\ pidContent[pidFile[p]] = p

\* Without failing system calls an instance is refused the pid file only because
\* another one that is running has it: the file of a crashed instance keeps
\* nobody off (create_pid_file does not take the file itself for the lock).
RefusedByARival ==
  [][\A p \in Proc :
       ~ args.io_errors /\ pidStep[p] # "failed" /\ pidStep'[p] = "failed" =>
         \E q \in Proc \ {p} : phase[q] # "off" /\ pidStep[q] \in {"locked", "truncated", "held"}]_vars

\* An instance that was refused the pid file, or failed to write it, does not
\* remove it when it ends (main, "pid_fd > 0"): removing begins with giving up
\* one's own lock.
OnlyHoldersRemove ==
  [][\A p \in Proc :
       pidStep[p] # "closed" /\ pidStep'[p] = "closed" => \E f \in File : pidLock[f] = p]_vars

\* The main loop, which also decides on the door, hangs in a read of a reader while
\* the instance is the only one only if the select before it failed, by a signal or
\* for a port that fcntl failed on (catcierge_rfid_ctx_service): what select found
\* is still there when its turn comes.
BlocksOnlyIfSelectFailed ==
  (\A p, q \in args.procs : p = q) =>
    \A p \in Proc : Blocked(p) =>
      /\ service[p].failed
      /\ args.signals \/ \E r \in Reader : rfid[p][r].fd = "closed"

\* What the state machine knows of a reader: rfidMatch of module CatFsm.
Verdict(p) ==
  [r \in Reader |-> [triggered |-> match[p][r].triggered, is_allowed |-> match[p][r].is_allowed]]

\* The texts that the readers report, in pieces and repeated, change the verdict
\* and the direction as action RfidRead of CatFsm does: only the first text of
\* a reader, and the direction only if the other reader was first.
ReadsAreRfidReads ==
  [][\A p \in Proc :
       phase[p] = "loop" /\ phase'[p] = "loop" =>
         \/ Verdict(p)' = Verdict(p) /\ direction'[p] = direction[p]
         \/ \E r \in Reader, allowed \in BOOLEAN :
              /\ ~ match[p][r].triggered
              /\ Verdict(p)' = [Verdict(p) EXCEPT ![r] = [triggered |-> TRUE, is_allowed |-> allowed]]
              /\ direction'[p] = IF \E other \in Reader \ {r} : match[p][other].triggered
                                THEN DirectionOf(r) ELSE direction[p]]_vars

\* However texts are cut and joined, a reader's match is triggered by a text only,
\* not by an empty line or an error reply, and it is allowed only if the reader
\* has sent the whole of an allowed tag (match_allowed_rfid).
NoFalseAccept ==
  \A p \in Proc, r \in Reader :
    /\ match[p][r].triggered <=> match[p][r].data_len > 0
    /\ match[p][r].is_allowed => sentAllowed[r]

\* What arrives at an open port is read in the end ("Always feed the RFID
\* readers.", catcierge_grabber.c:297), unless the other reader's reads fail, the
\* process hangs in one of them or another instance interferes.
Waiting(r) ==
  \E p \in Proc :
    /\ phase[p] = "loop"
    /\ rfid[p][r].fd = "open"
    /\ port[r] # <<>>
    /\ ~ Blocked(p)
    /\ \A other \in Reader \ {r} : rfid[p][other].fd # "closed" /\ device[other] # "error"
    /\ \A q \in Proc \ {p} : phase[q] # "loop"

InputIsServed == \A r \in Reader : Waiting(r) ~> ~ Waiting(r)

\* "Only require one of the readers to have a correct read."
\* (catcierge_should_we_rfid_lockout, catcierge_fsm.c:788): a reader whose match
\* holds the data of an allowed tag counts as allowed.
CorrectReadSuffices ==
  \A p \in Proc, r \in Reader : match[p][r].complete /\ match[p][r].data_ok => match[p][r].is_allowed
=============================================================================
