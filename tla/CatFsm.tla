------------------------------- MODULE CatFsm -------------------------------
(***************************************************************************)
(* The state machine of catcierge (catcierge_fsm.c) with its timers        *)
(* (catcierge_timer.c), the match group, the consecutive lockout count,    *)
(* the RFID lockout check and the signals (catcierge_grabber.c).           *)
(*                                                                         *)
(* One action is one call of the current state's function by the main      *)
(* loop; RFID reads, signals and the passing of time happen between the    *)
(* calls.  Time is counted in ticks, Res of them to a second.              *)
(*                                                                         *)
(* An operator whose name ends in _Mutant is a plausible mistake in the    *)
(* operator that follows it; only the mutation runs use it.                *)
(***************************************************************************)
EXTENDS CatMatch

CONSTANTS
  Res,       \* ticks per second
  MaxTick,   \* bound: a timer is not followed beyond this value
  Configs,   \* the settings the program may be started with
  Frames,    \* the frames the camera may deliver while matching
  Signals    \* the signals the user may send

Reader == {"inner", "outer"}

\* The settings the state machine reads (catcierge_args_t), times in ticks.
FsmArgs ==
  [matcher : MatcherArgs,
   lockout_method : 1..3,
   lockout_time : Nat,
   lockout_dummy : BOOLEAN,
   match_time : Nat,
   startup_delay : Nat,
   max_consecutive_lockout_count : Nat,   \* 0 turns the check off
   consecutive_lockout_delay : Nat,
   auto_roi : BOOLEAN,
   saveimg : BOOLEAN,
   lock_on_invalid_rfid : BOOLEAN,
   rfid_lock_time : Nat,
   rfid_readers : SUBSET Reader]          \* rfid_inner_path, rfid_outer_path

ASSUME FsmAssumption ==
  /\ Res \in Nat /\ Res >= 2 /\ Res % 2 = 0
  /\ MaxTick \in Nat
  /\ Configs \subseteq FsmArgs
  /\ Frames \subseteq HaarFrame \cup TemplateFrame
  /\ Signals \subseteq {"SIGINT", "SIGUSR1", "SIGUSR2"}

\* The bound on the timers does not hide a timeout.
ASSUME BoundAssumption ==
  \A a \in Configs :
    \A t \in {a.lockout_time + a.consecutive_lockout_delay, a.match_time,
              a.startup_delay, a.rfid_lock_time} : t + Res < MaxTick

VARIABLES
  args,             \* grb->args, chosen at the start
  phase,            \* of the process, see Phase
  running,          \* grb->running
  state,            \* grb->state, "initial" before catcierge_fsm_start
  locked,           \* the level of the lockout GPIO pin
  lockoutTimer,     \* grb->lockout_timer, grb->rematch_timer and
  rematchTimer,     \* grb->startup_timer: the time since the start of
  startupTimer,     \* the timer, or TimerInactive
  consecutive,      \* grb->consecutive_lockout_count
  mg,               \* grb->match_group: match_count and the decision
  matches,          \* grb->match_group.matches[].result
  images,           \* the slots whose matches[].img is not NULL
  rfidMatch,        \* grb->rfid_in_match, grb->rfid_out_match
  rfidDirection,    \* grb->rfid_direction
  checkedRfidLock   \* grb->checked_rfid_lock

doorVars == <<state, locked, lockoutTimer>>
groupVars == <<mg, matches, images>>
rfidVars == <<rfidMatch, rfidDirection, checkedRfidLock>>
vars == <<args, phase, running, doorVars, rematchTimer, startupTimer, consecutive,
          groupVars, rfidVars>>

\* main: before the GPIO setup, before catcierge_fsm_start, in the loop, after
\* catcierge_grabber_destroy; ended by exit(0) or by a failed assertion.
Phase == {"init", "ready", "loop", "destroyed", "exited", "aborted"}

\* match_group_t; the count passes its maximum when the assertion fails.
MatchGroup == [match_count : 0..(MATCH_MAX_COUNT + 1), success : BOOLEAN,
               direction : Direction, final_decision : BOOLEAN]

State == {"initial", "waiting", "matching", "keepopen", "lockout"}

-----------------------------------------------------------------------------
(***************************************************************************)
(* Timers.                                                                 *)
(***************************************************************************)
TimerInactive == -1
TimerStarted == 0

TimerValue == TimerInactive..MaxTick

TimerGet(t) == IF t = TimerInactive THEN 0 ELSE t

\* round() of a number of seconds, half a second rounding up.
RoundToSecond(t) == ((t + Res \div 2) \div Res) * Res

TimerHasTimedOut(t, timeout) == RoundToSecond(TimerGet(t)) >= timeout

\* A timer that waits for a clear frame is started once the frame is clear.
StartWhenClear_Mutant(timer) == timer

StartWhenClear(timer) == IF timer = TimerInactive THEN TimerStarted ELSE timer

Elapse(t) == IF t \in 0..(MaxTick - 1) THEN t + 1 ELSE t

-----------------------------------------------------------------------------
(***************************************************************************)
(* Helpers called by the state functions.                                  *)
(***************************************************************************)
InState(s) == phase = "loop" /\ running /\ state = s

SetState(s) == state' = s

DoUnlock == locked' = FALSE

\* The dummy lockout returns before the pin is written.
DoLockout == locked' = (locked \/ ~args.lockout_dummy)

\* The lockout timer is reset first; method 2 leaves it for the clear frame.
RestartLockoutTimer_Mutant ==
  lockoutTimer' = IF args.lockout_method = 2 THEN lockoutTimer ELSE TimerStarted

RestartLockoutTimer ==
  lockoutTimer' = IF args.lockout_method = 2 THEN TimerInactive ELSE TimerStarted

\* catcierge_state_transition_lockout.
StateTransitionLockout == RestartLockoutTimer /\ SetState("lockout") /\ DoLockout

\* What catcierge_check_max_consecutive_lockouts makes of the count.
ConsecutiveLockouts ==
  IF args.max_consecutive_lockout_count = 0 THEN consecutive
  ELSE IF TimerGet(lockoutTimer) <= args.lockout_time + args.consecutive_lockout_delay
  THEN consecutive + 1
  ELSE 0

TooManyLockouts_Mutant ==
  /\ args.max_consecutive_lockout_count # 0
  /\ ConsecutiveLockouts > args.max_consecutive_lockout_count

TooManyLockouts ==
  /\ args.max_consecutive_lockout_count # 0
  /\ ConsecutiveLockouts >= args.max_consecutive_lockout_count

-----------------------------------------------------------------------------
(***************************************************************************)
(* RFID.  A reader's first tag since the start of the program decides its  *)
(* rfid_match; the direction is set by the reader that comes second.       *)
(***************************************************************************)
NoRfidMatch == [triggered |-> FALSE, is_allowed |-> FALSE]

DirectionOf(reader) == IF reader = "inner" THEN "in" ELSE "out"

\* "Already triggered!"
FirstTag(reader) == ~rfidMatch[reader].triggered

\* rfid_set_direction, as called back for a tag by either reader.
RfidRead(reader, allowed) ==
  /\ phase = "loop" /\ running
  /\ FirstTag(reader)
  /\ rfidDirection' = IF \E other \in Reader \ {reader} : rfidMatch[other].triggered
                      THEN DirectionOf(reader) ELSE rfidDirection
  /\ rfidMatch' = [rfidMatch EXCEPT ![reader] = [triggered |-> TRUE, is_allowed |-> allowed]]
  /\ UNCHANGED <<args, phase, running, doorVars, rematchTimer, startupTimer, consecutive,
                 groupVars, checkedRfidLock>>

RfidCheckDue(rematch) ==
  /\ args.lock_on_invalid_rfid
  /\ args.rfid_readers # {}
  /\ ~checkedRfidLock
  /\ TimerGet(rematch) >= args.rfid_lock_time

\* catcierge_should_we_rfid_lockout, once the check is due.
RfidCheck ==
  /\ rfidDirection' = IF \E reader \in Reader : rfidMatch[reader].triggered
                      THEN rfidDirection ELSE "unknown"
  /\ IF \/ \E reader \in args.rfid_readers : rfidMatch[reader].is_allowed
        \/ rfidDirection' = "out"
     THEN UNCHANGED doorVars
     ELSE StateTransitionLockout
  /\ checkedRfidLock' = TRUE
  /\ UNCHANGED rfidMatch

-----------------------------------------------------------------------------
(***************************************************************************)
(* The match group.                                                        *)
(***************************************************************************)
\* catcierge_match_group_start; the results of the last group stay.
MatchGroupStart == mg' = [mg EXCEPT !.match_count = 0, !.final_decision = FALSE]

\* Every image is counted, also when the matcher returns an error for it.
CountMatch_Mutant(r) == IF r.result = ERROR THEN 0 ELSE mg.match_count + 1

CountMatch(r) == mg.match_count + 1

\* catcierge_do_match clears the slot before it matches, so an error leaves
\* no result of an earlier group behind.
DoMatch_Mutant(n, r) == IF r.result = ERROR THEN matches ELSE [matches EXCEPT ![n] = r]

DoMatch(n, r) == [matches EXCEPT ![n] = r]

\* The image cached by catcierge_process_match_result.
CacheImage(n) == images' = IF args.saveimg THEN images \cup {n} ELSE images \ {n}

\* catcierge_save_images releases what it has saved.
SaveImages_Mutant == images' = images \cap {1}

SaveImages == images' = {}

\* The successful half of catcierge_decide_lock_status.
KeepOpen_Mutant ==
  /\ DoUnlock
  /\ checkedRfidLock' = FALSE
  /\ rematchTimer' = TimerInactive
  /\ SetState("keepopen")
  /\ UNCHANGED <<running, lockoutTimer, consecutive>>

KeepOpen_StaleTimer ==
  /\ consecutive' = 0
  /\ DoUnlock
  /\ checkedRfidLock' = FALSE
  /\ SetState("keepopen")
  /\ UNCHANGED <<running, lockoutTimer, rematchTimer>>

KeepOpen ==
  /\ consecutive' = 0
  /\ DoUnlock
  /\ checkedRfidLock' = FALSE
  /\ rematchTimer' = TimerInactive
  /\ SetState("keepopen")
  /\ UNCHANGED <<running, lockoutTimer>>

\* The program ends after too many lockouts in a row.
GiveUp_Mutant == DoUnlock /\ SetState("waiting") /\ UNCHANGED <<running, lockoutTimer>>

GiveUp == DoUnlock /\ running' = FALSE /\ SetState("waiting") /\ UNCHANGED lockoutTimer

\* The failing half: lock, or give up.
Lockout ==
  /\ consecutive' = ConsecutiveLockouts
  /\ IF TooManyLockouts
     THEN GiveUp
     ELSE StateTransitionLockout /\ UNCHANGED running
  /\ UNCHANGED <<rematchTimer, checkedRfidLock>>

\* catcierge_decide_lock_status.
DecideLockStatus(ms) ==
  LET decision == GroupDecision(args.matcher, ms)
  IN  /\ mg' = [match_count |-> MATCH_MAX_COUNT, success |-> decision.success,
                direction |-> decision.direction, final_decision |-> decision.final_decision]
      /\ SaveImages
      /\ IF decision.success THEN KeepOpen ELSE Lockout

-----------------------------------------------------------------------------
(***************************************************************************)
(* The state functions.                                                    *)
(***************************************************************************)
\* catcierge_state_waiting, when the startup delay is over; "roiFound" is the
\* result of catcierge_get_back_light_area.
StateWaiting(obstructed, roiFound) ==
  LET noRoi == startupTimer # TimerInactive /\ args.auto_roi /\ ~roiFound
  IN
  /\ InState("waiting")
  /\ startupTimer # TimerInactive => TimerHasTimedOut(startupTimer, args.startup_delay)
  /\ startupTimer' = TimerInactive
  /\ \/ noRoi /\ running' = FALSE /\ UNCHANGED <<state, mg>>
     \/ ~noRoi /\ obstructed /\ MatchGroupStart /\ SetState("matching") /\ UNCHANGED running
     \/ ~noRoi /\ ~obstructed /\ UNCHANGED <<running, state, mg>>
  /\ UNCHANGED <<args, phase, locked, lockoutTimer, rematchTimer, consecutive, matches, images,
                 rfidVars>>

\* catcierge_state_matching, for an image that can still be counted.
StateMatching(f) ==
  LET r == Match(args.matcher, f)
      n == mg.match_count + 1
      undecided == UNCHANGED <<running, doorVars, rematchTimer, consecutive, checkedRfidLock>>
  IN
  /\ InState("matching")
  /\ n <= MATCH_MAX_COUNT
  /\ matches' = DoMatch(n, r)
  /\ \/ r.result = ERROR /\ mg' = [mg EXCEPT !.match_count = CountMatch(r)]
        /\ UNCHANGED images /\ undecided
     \/ r.result # ERROR /\ n < MATCH_MAX_COUNT /\ mg' = [mg EXCEPT !.match_count = CountMatch(r)]
        /\ CacheImage(n) /\ undecided
     \/ r.result # ERROR /\ n = MATCH_MAX_COUNT /\ DecideLockStatus(matches')
  /\ UNCHANGED <<args, phase, startupTimer, rfidMatch, rfidDirection>>

\* catcierge_state_matching after an error on the last image: the assertion of
\* catcierge_do_match aborts the process.
MatchingAssertFails ==
  /\ InState("matching")
  /\ mg.match_count = MATCH_MAX_COUNT
  /\ phase' = "aborted"
  /\ mg' = [mg EXCEPT !.match_count = @ + 1]
  /\ UNCHANGED <<args, running, doorVars, rematchTimer, startupTimer, consecutive,
                 matches, images, rfidVars>>

\* catcierge_state_keepopen.
StateKeepopen(obstructed) ==
  LET rematch == StartWhenClear(rematchTimer)
      timedOut == TimerHasTimedOut(rematch, args.match_time)
  IN
  /\ InState("keepopen")
  /\ rematchTimer = TimerInactive => ~obstructed
  /\ rematchTimer' = rematch
  /\ \/ timedOut /\ SetState("waiting") /\ UNCHANGED <<locked, lockoutTimer, rfidVars>>
     \/ ~timedOut /\ RfidCheckDue(rematch) /\ RfidCheck
     \/ ~timedOut /\ ~RfidCheckDue(rematch) /\ UNCHANGED <<doorVars, rfidVars>>
  /\ UNCHANGED <<args, phase, running, startupTimer, consecutive, groupVars>>

EndLockout_Mutant == SetState("waiting") /\ UNCHANGED locked

EndLockout == DoUnlock /\ SetState("waiting")

\* catcierge_state_lockout: method 2 starts the timer at the first clear frame,
\* method 3 does not wait for the timer when the frame is clear.
StateLockout(obstructed) ==
  LET waitForClear == args.lockout_method = 2 /\ lockoutTimer = TimerInactive
      lockout == IF args.lockout_method = 2 THEN StartWhenClear(lockoutTimer) ELSE lockoutTimer
  IN
  /\ InState("lockout")
  /\ waitForClear => ~obstructed
  /\ lockoutTimer' = lockout
  /\ IF \/ args.lockout_method = 3 /\ ~obstructed
        \/ TimerHasTimedOut(lockout, args.lockout_time)
     THEN EndLockout
     ELSE UNCHANGED <<state, locked>>
  /\ UNCHANGED <<args, phase, running, rematchTimer, startupTimer, consecutive, groupVars,
                 rfidVars>>

-----------------------------------------------------------------------------
(***************************************************************************)
(* The life of the process around the state machine.                       *)
(***************************************************************************)
\* catcierge_setup_gpio: start with the door open.
SetupGpio ==
  /\ phase = "init"
  /\ phase' = "ready"
  /\ DoUnlock
  /\ UNCHANGED <<args, running, state, lockoutTimer, rematchTimer, startupTimer, consecutive,
                 groupVars, rfidVars>>

\* catcierge_fsm_start.
FsmStart ==
  /\ phase = "ready"
  /\ phase' = "loop"
  /\ running' = TRUE
  /\ SetState("waiting")
  /\ startupTimer' = TimerStarted
  /\ UNCHANGED <<args, locked, lockoutTimer, rematchTimer, consecutive, groupVars, rfidVars>>

\* catcierge_grabber_destroy, after the main loop has ended.
GrabberDestroy_Mutant ==
  /\ phase = "loop" /\ ~running
  /\ phase' = "destroyed"
  /\ images' = {}
  /\ UNCHANGED <<args, running, doorVars, rematchTimer, startupTimer, consecutive, mg,
                 matches, rfidVars>>

GrabberDestroy ==
  /\ phase = "loop" /\ ~running
  /\ phase' = "destroyed"
  /\ DoUnlock
  /\ images' = {}
  /\ UNCHANGED <<args, running, state, lockoutTimer, rematchTimer, startupTimer, consecutive,
                 mg, matches, rfidVars>>

\* sig_handler.  SIGINT ends the loop, and the process when there is no loop
\* to end; SIGUSR1 forces an unlock, SIGUSR2 a lockout.
Sigint ==
  /\ IF running
     THEN running' = FALSE /\ UNCHANGED <<phase, locked>>
     ELSE DoUnlock /\ phase' = "exited" /\ UNCHANGED running
  /\ UNCHANGED <<state, lockoutTimer>>

Sigusr1 == DoUnlock /\ SetState("waiting") /\ UNCHANGED <<phase, running, lockoutTimer>>

Sigusr2 == StateTransitionLockout /\ UNCHANGED <<phase, running>>

SigHandler(signo) ==
  /\ phase \in {"ready", "loop", "destroyed"}
  /\ \/ signo = "SIGINT" /\ Sigint
     \/ signo = "SIGUSR1" /\ Sigusr1
     \/ signo = "SIGUSR2" /\ Sigusr2
  /\ UNCHANGED <<args, rematchTimer, startupTimer, consecutive, groupVars, rfidVars>>

\* The wall clock moves on.
Tick ==
  /\ phase = "loop"
  /\ lockoutTimer' = Elapse(lockoutTimer)
  /\ rematchTimer' = Elapse(rematchTimer)
  /\ startupTimer' = Elapse(startupTimer)
  /\ UNCHANGED <<args, phase, running, state, locked, consecutive, groupVars, rfidVars>>

-----------------------------------------------------------------------------
\* catcierge_grabber_init clears everything; the pin is as the last process
\* left it.
Init ==
  /\ args \in Configs
  /\ phase = "init"
  /\ running = FALSE
  /\ state = "initial"
  /\ locked \in BOOLEAN
  /\ lockoutTimer = TimerInactive
  /\ rematchTimer = TimerInactive
  /\ startupTimer = TimerInactive
  /\ consecutive = 0
  /\ mg = [match_count |-> 0, success |-> FALSE, direction |-> "in", final_decision |-> FALSE]
  /\ matches = [i \in Slot |-> [result |-> FAIL, direction |-> "in", head |-> FALSE]]
  /\ images = {}
  /\ rfidMatch = [reader \in Reader |-> NoRfidMatch]
  /\ rfidDirection = "in"
  /\ checkedRfidLock = FALSE

\* catcierge_run_state.
RunState ==
  \/ \E obstructed, roiFound \in BOOLEAN : StateWaiting(obstructed, roiFound)
  \/ \E f \in Frames \cap Frame(args.matcher) : StateMatching(f)
  \/ MatchingAssertFails
  \/ \E obstructed \in BOOLEAN : StateKeepopen(obstructed)
  \/ \E obstructed \in BOOLEAN : StateLockout(obstructed)

Next ==
  \/ SetupGpio
  \/ FsmStart
  \/ RunState
  \/ \E reader \in args.rfid_readers, allowed \in BOOLEAN : RfidRead(reader, allowed)
  \/ \E signo \in Signals : SigHandler(signo)
  \/ GrabberDestroy
  \/ Tick

Spec == Init /\ [][Next]_vars

-----------------------------------------------------------------------------
(***************************************************************************)
(* The main loop never stops calling the state function, and time passes.  *)
(* In keepopen and lockout the frame does not stay obstructed for ever:    *)
(* the cat goes away.                                                      *)
(***************************************************************************)
Fairness ==
  /\ WF_vars(SetupGpio)
  /\ WF_vars(FsmStart)
  /\ WF_vars(RunState)
  /\ WF_vars(GrabberDestroy)
  /\ WF_vars(Tick)
  /\ WF_vars(StateKeepopen(FALSE))
  /\ WF_vars(StateLockout(FALSE))

FairSpec == Spec /\ Fairness

-----------------------------------------------------------------------------
\* The types of the variables; the count stays below the configured maximum,
\* except that reaching it ends the loop.
TypeOK ==
  /\ args \in Configs
  /\ phase \in Phase
  /\ running \in BOOLEAN
  /\ state \in State
  /\ locked \in BOOLEAN
  /\ lockoutTimer \in TimerValue /\ rematchTimer \in TimerValue /\ startupTimer \in TimerValue
  /\ consecutive \in 0..args.max_consecutive_lockout_count
  /\ mg \in MatchGroup
  /\ matches \in [Slot -> MatchResult]
  /\ images \subseteq Slot
  /\ rfidMatch \in [Reader -> [triggered : BOOLEAN, is_allowed : BOOLEAN]]
  /\ rfidDirection \in Direction
  /\ checkedRfidLock \in BOOLEAN

(***************************************************************************)
(* The door follows the state: while the loop runs, the pin is set exactly *)
(* in the lockout state (never with the dummy lockout), whatever path      *)
(* leads there: a failed group, the RFID check, the end of the timer.      *)
(***************************************************************************)
DoorFollowsState ==
  (phase = "loop" /\ running) => (locked <=> (state = "lockout" /\ ~args.lockout_dummy))

(***************************************************************************)
(* catcierge_grabber_destroy, "Always make sure we unlock": however the    *)
(* process ends, also by the failed assertion, it leaves the door open.    *)
(***************************************************************************)
NeverLeavesLocked == phase \in {"destroyed", "exited", "aborted"} => ~locked

(***************************************************************************)
(* No image cached for a match group is left behind once the group is      *)
(* decided; the next group would overwrite the pointer and leak it.        *)
(***************************************************************************)
ImagesReleased == state # "matching" => images = {}

(***************************************************************************)
(* Refinement.  The state machine implements CatDoor when the user sends   *)
(* no SIGUSR1 or SIGUSR2.                                                  *)
(***************************************************************************)
DoorMode ==
  IF phase = "init" THEN "off"
  ELSE IF phase = "ready" THEN "open"
  ELSE IF phase \in {"destroyed", "exited", "aborted"} THEN "stopped"
  ELSE IF ~running THEN "stopping"
  ELSE IF state = "waiting" THEN "open"
  ELSE IF state = "matching" THEN "checking"
  ELSE IF state = "keepopen" THEN "passing"
  ELSE "lockout"

Door == INSTANCE CatDoor WITH mode <- DoorMode, dummy <- args.lockout_dummy

\* Every step of the program is a step of the door or leaves it alone.
ImplementsDoor == Door!Spec

(***************************************************************************)
(* Liveness.  A locked door is unlocked, the state after a match lasts     *)
(* only so long, and a match group comes to a decision unless the process  *)
(* stops.                                                                  *)
(***************************************************************************)
LockedIsUnlocked == locked ~> ~locked

KeepopenEnds == state = "keepopen" ~> (state # "keepopen" \/ phase # "loop")

MatchingEnds == state = "matching" ~> (state # "matching" \/ phase # "loop")

\* The states between two cats are left again: keepopen when the frame is clear,
\* matching after four images, whatever the matcher makes of them.
VisitsEnd == KeepopenEnds /\ MatchingEnds
=============================================================================
