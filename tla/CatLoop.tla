------------------------------ MODULE CatLoop ------------------------------
(***************************************************************************)
(* The main thread of catcierge from the GPIO setup to its end, one write  *)
(* at a time, with signals that interrupt it between any two writes and    *)
(* with the camera (CatCamera) it gets its frames from.                    *)
(*                                                                         *)
(* CatFsm takes a call of a state function as one step; here the call is   *)
(* only the writes it makes to the state, the pin, the lockout timer and   *)
(* running, in the order of the code, and what makes a call choose one or  *)
(* the other is left open.  todo is the stack of the thread: the writes    *)
(* still to be made, those of a signal handler in front of those of the    *)
(* code it interrupted.                                                    *)
(***************************************************************************)
EXTENDS CatCamera, Sequences

CONSTANTS
  LockoutMethods,  \* the values of args->lockout_method
  MaxSigint,       \* bound: how often the user sends SIGINT
  MaxUserSignals,  \* bound: SIGUSR1 and SIGUSR2 together
  MaxSignals,      \* bound: all signals together
  PinFaults        \* TRUE if the file of the GPIO pin may fail to open

ASSUME LoopAssumption ==
  /\ LockoutMethods \subseteq 1..3
  /\ MaxSigint \in Nat
  /\ MaxUserSignals \in Nat
  /\ MaxSignals \in Nat
  /\ PinFaults \in BOOLEAN

VARIABLES
  method,        \* args->lockout_method
  todo,          \* what the main thread has left to do
  running,       \* grb->running
  state,         \* grb->state
  locked,        \* the level of the lockout pin
  timerActive,   \* grb->lockout_timer is active
  sigints,       \* the SIGINTs sent
  userSignals,   \* the SIGUSR1s and SIGUSR2s sent
  mishaps        \* what has happened that may set the pin against the state

doorVars == <<running, state, locked, timerActive>>
signalVars == <<sigints, userSignals>>
loopVars == <<method, todo, doorVars, signalVars, mishaps>>
vars == <<loopVars, cameraVars>>

LoopState == {"initial", "waiting", "matching", "keepopen", "lockout"}

-----------------------------------------------------------------------------
(***************************************************************************)
(* What is to be done, as sequences of writes.                             *)
(***************************************************************************)
StateTransitionLockout_Mutant ==
  IF method = 2 THEN <<"resetTimer", "setLockout", "lock">>
                ELSE <<"startTimer", "resetTimer", "setLockout", "lock">>

StateTransitionLockout ==
  IF method = 2 THEN <<"resetTimer", "setLockout", "lock">>
                ELSE <<"resetTimer", "startTimer", "setLockout", "lock">>

EndLockout_Mutant == <<"setWaiting", "unlock">>

EndLockout == <<"unlock", "setWaiting">>

\* catcierge_check_max_consecutive_lockouts and its caller.
GiveUp == <<"unlock", "stop", "setWaiting">>

\* The calls a state function may make of the above, by the state.
MatchingCalls ==
  {<<>>, <<"unlock", "setKeepopen">>, StateTransitionLockout, GiveUp}

KeepopenCalls == {<<>>, <<"setWaiting">>, StateTransitionLockout}

WaitingCalls == {<<>>, <<"stop">>, <<"setMatching">>}

\* The lockout ends when its timer has run out; with method 3 a clear frame ends
\* it too, with method 2 a clear frame starts the timer, which may be one of 0
\* seconds.
LockoutCalls ==
  {<<>>}
  \cup (IF timerActive \/ method = 3 THEN {EndLockout} ELSE {})
  \cup (IF ~timerActive /\ method = 2
        THEN {<<"startTimer">>, <<"startTimer">> \o EndLockout} ELSE {})

StateCalls ==
  [initial |-> {<<>>}, waiting |-> WaitingCalls, matching |-> MatchingCalls,
   keepopen |-> KeepopenCalls, lockout |-> LockoutCalls]

Setup == <<"openCamera", "cameraOpened", "run", "setWaiting">>

Iteration == <<"queryFrame", "frameReceived", "runState", "while">>

Shutdown == <<"releaseCamera", "deleteSemaphores", "destroyCamera", "unlock", "exit">>

Exited == todo = <<>>

Doing(op) == todo # <<>> /\ Head(todo) = op

Pending(op) == \E i \in DOMAIN todo : todo[i] = op

Done == todo' = Tail(todo)

-----------------------------------------------------------------------------
(***************************************************************************)
(* The writes.                                                             *)
(***************************************************************************)
SetState(op, s) ==
  /\ Doing(op)
  /\ state' = s
  /\ Done
  /\ UNCHANGED <<method, running, locked, timerActive, signalVars, mishaps, cameraVars>>

SetRunning(op, value) ==
  /\ Doing(op)
  /\ running' = value
  /\ Done
  /\ UNCHANGED <<method, state, locked, timerActive, signalVars, mishaps, cameraVars>>

SetTimer(op, active) ==
  /\ Doing(op)
  /\ timerActive' = active
  /\ Done
  /\ UNCHANGED <<method, running, state, locked, signalVars, mishaps, cameraVars>>

\* gpio_write: nobody looks at its result.  The next write makes up for one
\* that failed.
GpioWrite(op, level) ==
  /\ Doing(op)
  /\ \/ /\ locked' = level
        /\ mishaps' = mishaps \ {"pin"}
     \/ /\ PinFaults
        /\ mishaps' = mishaps \cup {"pin"}
        /\ UNCHANGED locked
  /\ Done
  /\ UNCHANGED <<method, running, state, timerActive, signalVars, cameraVars>>

DoorWrite ==
  \/ SetState("setWaiting", "waiting") \/ SetState("setMatching", "matching")
  \/ SetState("setKeepopen", "keepopen") \/ SetState("setLockout", "lockout")
  \/ SetRunning("run", TRUE) \/ SetRunning("stop", FALSE)
  \/ SetTimer("resetTimer", FALSE) \/ SetTimer("startTimer", TRUE)
  \/ GpioWrite("lock", TRUE) \/ GpioWrite("unlock", FALSE)

CameraCall(op, Call) ==
  /\ Doing(op)
  /\ Call
  /\ Done
  /\ UNCHANGED <<method, doorVars, signalVars, mishaps>>

\* A capture that failed goes on where a release does.
CameraFailed ==
  /\ Doing("openCamera")
  /\ OpenCameraFails
  /\ todo' = <<"deleteSemaphores", "destroyCamera">> \o Tail(Tail(todo))
  /\ UNCHANGED <<method, doorVars, signalVars, mishaps>>

RunState ==
  /\ Doing("runState")
  /\ \E call \in (IF running THEN StateCalls[state] ELSE {<<>>}) :
       todo' = call \o Tail(todo)
  /\ UNCHANGED <<method, doorVars, signalVars, mishaps, cameraVars>>

While ==
  /\ Doing("while")
  /\ todo' = IF running THEN Iteration ELSE Shutdown
  /\ UNCHANGED <<method, doorVars, signalVars, mishaps, cameraVars>>

\* The end of a handler, and of the process.
Return ==
  /\ \E op \in {"endSIGUSR1", "endSIGUSR2"} : Doing(op)
  /\ Done
  /\ UNCHANGED <<method, doorVars, signalVars, mishaps, cameraVars>>

Exit ==
  /\ Doing("exit") \/ Doing("forcedExit")
  /\ todo' = <<>>
  /\ UNCHANGED <<method, doorVars, signalVars, mishaps, cameraVars>>

CameraCalls ==
  \/ CameraCall("openCamera", OpenCamera)
  \/ CameraCall("cameraOpened", CameraOpened)
  \/ CameraCall("queryFrame", QueryFrame)
  \/ CameraCall("frameReceived", FrameReceived)
  \/ CameraCall("releaseCamera", ReleaseCapture)
  \/ CameraCall("deleteSemaphores", DeleteSemaphores)
  \/ CameraCall("destroyCamera", DestroyCamera)
  \/ CameraFailed

-----------------------------------------------------------------------------
(***************************************************************************)
(* The signals.  A handler does not interrupt itself.                      *)
(***************************************************************************)

\* What is left of a change of the door that is half done: another change that
\* comes in between is then undone by half.
HalfDone == {"setWaiting", "setMatching", "setKeepopen", "lock", "stop"}

MaySignal(sent, max) == ~Exited /\ sent < max /\ sigints + userSignals < MaxSignals

\* The thread comes to what stands at place i of a stack, or ends before.
Reached(stack, i) == \A j \in 1..i : stack[j] # "forcedExit"

UnlocksAfter(stack, n) ==
  \E i \in DOMAIN stack : i > n /\ stack[i] \in {"while", "unlock"} /\ Reached(stack, i)

WillUnlock == UnlocksAfter(todo, 0)

UserSignal(handler, writes) ==
  /\ MaySignal(userSignals, MaxUserSignals)
  /\ ~Pending(handler)
  /\ userSignals' = userSignals + 1
  /\ todo' = writes \o <<handler>> \o todo
  /\ mishaps' = mishaps
       \cup (IF state = "initial" THEN {"early"} ELSE {})
       \cup (IF Head(todo) \in HalfDone THEN {"interrupted"} ELSE {})
       \cup (IF WillUnlock THEN {} ELSE {"late"})
  /\ UNCHANGED <<method, doorVars, sigints, cameraVars>>

Sigusr1 == UserSignal("endSIGUSR1", EndLockout)

Sigusr2 == UserSignal("endSIGUSR2", StateTransitionLockout)

\* The first one while the loop runs ends the loop, any other the process.
Sigint_Mutant ==
  /\ MaySignal(sigints, MaxSigint)
  /\ ~Pending("forcedExit")
  /\ sigints' = sigints + 1
  /\ running' = FALSE
  /\ UNCHANGED <<method, todo, state, locked, timerActive, userSignals, mishaps, cameraVars>>

Sigint_NoUnlock ==
  /\ MaySignal(sigints, MaxSigint)
  /\ ~Pending("forcedExit")
  /\ sigints' = sigints + 1
  /\ IF ~running \/ sigints > 0
     THEN todo' = <<"forcedExit">> \o todo /\ UNCHANGED running
     ELSE running' = FALSE /\ UNCHANGED todo
  /\ UNCHANGED <<method, state, locked, timerActive, userSignals, mishaps, cameraVars>>

Sigint ==
  /\ MaySignal(sigints, MaxSigint)
  /\ ~Pending("forcedExit")
  /\ sigints' = sigints + 1
  /\ IF ~running \/ sigints > 0
     THEN todo' = <<"unlock", "forcedExit">> \o todo /\ UNCHANGED running
     ELSE running' = FALSE /\ UNCHANGED todo
  /\ UNCHANGED <<method, state, locked, timerActive, userSignals, mishaps, cameraVars>>

-----------------------------------------------------------------------------
LoopInit ==
  /\ CameraInit
  /\ method \in LockoutMethods
  /\ todo = Setup \o Iteration
  /\ running = FALSE
  /\ state = "initial"
  /\ locked = FALSE
  /\ timerActive = FALSE
  /\ sigints = 0
  /\ userSignals = 0
  /\ mishaps = {}

MainStep == DoorWrite \/ CameraCalls \/ RunState \/ While \/ Return \/ Exit

\* The driver ends with the process.
Driver == ~Exited /\ CallbackThread /\ UNCHANGED loopVars

LoopNext == MainStep \/ Driver \/ Sigint \/ Sigusr1 \/ Sigusr2

LoopSpec == LoopInit /\ [][LoopNext]_vars

\* The thread runs; the driver calls back for the buffers it has, with a picture
\* again and again.
LoopFairness ==
  /\ WF_vars(MainStep)
  /\ WF_vars(Driver)
  /\ SF_vars(Driver /\ CallbackPicture)

-----------------------------------------------------------------------------
(***************************************************************************)
(* Properties.                                                             *)
(***************************************************************************)
\* The thread is between two calls of state functions and in no handler.
BetweenCalls ==
  /\ todo # <<>>
  /\ Head(todo) \in {"queryFrame", "frameReceived", "runState", "while"}

\* The pin and the state may disagree for three reasons only: a signal came
\* before catcierge_fsm_start, or in one of the gaps of HalfDone (fsm.c:1378,
\* 1346, 1084), or the pin was not written the last time.
DoorAgrees ==
  BetweenCalls /\ mishaps \subseteq {"late"} => (locked <=> state = "lockout")

\* Whatever signals come where, a lockout by methods 1 and 3 has its timer, so
\* that it ends (fsm.c:1357-1378).
LockoutHasTimer ==
  BetweenCalls /\ state = "lockout" /\ method # 2 => timerActive

\* The process ends with the door open, also when it is stopped half way through
\* a call, unless SIGUSR2 comes after the last unlock or the pin is not written.
EndsUnlocked == Exited /\ mishaps \cap {"late", "pin"} = {} => ~locked

\* SIGINT ends the process unless the camera is stalled, the second one always.
StopsWhenAsked ==
  /\ (sigints > 0 ~> (Exited \/ CameraStalled))
  /\ (sigints > 1 ~> Exited)
=============================================================================
