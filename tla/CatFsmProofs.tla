---------------------------- MODULE CatFsmProofs ----------------------------
(***************************************************************************)
(* Theorems about CatFsm, for every setting, set of frames and bound that  *)
(* FsmAssumption allows.                                                   *)
(***************************************************************************)
EXTENDS CatFsmHistory, CatMatchProofs

-----------------------------------------------------------------------------
(***************************************************************************)
(* Type correctness.                                                       *)
(***************************************************************************)
\* How the life of the process and the state machine go together.
LifeCycle ==
  /\ running => phase \in {"loop", "aborted"}
  /\ phase = "loop" => state # "initial"
  /\ phase = "aborted" => running /\ state = "matching"

\* A group is decided before the count has reached the maximum.
CountBelowMax ==
  /\ phase \in {"init", "ready"} => consecutive = 0
  /\ (running /\ args.max_consecutive_lockout_count # 0)
       => consecutive < args.max_consecutive_lockout_count

TypeInv == TypeOK /\ LifeCycle /\ CountBelowMax

\* The settings have their types.
LEMMA ArgsType ==
  ASSUME TypeOK
  PROVE  /\ args \in FsmArgs
         /\ args.matcher \in MatcherArgs
         /\ args.max_consecutive_lockout_count \in Nat
BY FsmAssumption DEF TypeOK, FsmArgs

\* The parts of TypeOK that no action but the one named disturbs.
LEMMA TimerTypes ==
  /\ TimerInactive \in TimerValue
  /\ TimerStarted \in TimerValue
  /\ \A t \in TimerValue : Elapse(t) \in TimerValue /\ StartWhenClear(t) \in TimerValue
BY FsmAssumption DEF TimerValue, TimerInactive, TimerStarted, Elapse, StartWhenClear

\* A transition to lockout leaves the door's variables well formed.
LEMMA TransitionTypes ==
  ASSUME TypeOK, StateTransitionLockout
  PROVE  state' = "lockout" /\ locked' \in BOOLEAN /\ lockoutTimer' \in TimerValue
BY TimerTypes, ArgsType DEF TypeOK, StateTransitionLockout, RestartLockoutTimer, SetState,
   DoLockout, FsmArgs

\* The invariant holds initially.
LEMMA InitTypeInv == Init => TypeInv
<1> SUFFICES ASSUME Init PROVE TypeInv
  OBVIOUS
<1>1. args \in FsmArgs /\ args.max_consecutive_lockout_count \in Nat
  BY FsmAssumption DEF Init, FsmArgs
<1>2. TypeOK
  <2>1. matches \in [Slot -> MatchResult]
    BY DEF Init, MatchResult, FAIL, ERROR, NO_HEAD_IS_FAIL, Direction
  <2>2. rfidMatch \in [Reader -> [triggered : BOOLEAN, is_allowed : BOOLEAN]]
    BY DEF Init, NoRfidMatch
  <2>3. mg \in MatchGroup
    BY DEF Init, Direction, MATCH_MAX_COUNT, MatchGroup
  <2>4. /\ lockoutTimer \in TimerValue /\ rematchTimer \in TimerValue
        /\ startupTimer \in TimerValue
    BY TimerTypes DEF Init
  <2>5. consecutive \in 0..args.max_consecutive_lockout_count
    BY <1>1 DEF Init
  <2> QED
    BY <2>1, <2>2, <2>3, <2>4, <2>5 DEF Init, TypeOK, Phase, State, Direction
<1>3. LifeCycle /\ CountBelowMax
  BY <1>1 DEF Init, LifeCycle, CountBelowMax
<1> QED
  BY <1>2, <1>3 DEF TypeInv

\* The consecutive count after one more failed group.
LEMMA CountType ==
  ASSUME TypeInv, running
  PROVE  /\ ConsecutiveLockouts \in 0..args.max_consecutive_lockout_count
         /\ (args.max_consecutive_lockout_count # 0 /\ ~TooManyLockouts)
              => ConsecutiveLockouts < args.max_consecutive_lockout_count
<1>1. args.max_consecutive_lockout_count \in Nat
  BY ArgsType DEF TypeInv
<1> QED
  BY <1>1 DEF TypeInv, TypeOK, CountBelowMax, ConsecutiveLockouts, TooManyLockouts

\* The decision of a group keeps the invariant.
LEMMA DecideTypes ==
  ASSUME TypeInv, running, NEW ms \in [Slot -> MatchResult], DecideLockStatus(ms)
  PROVE  /\ running' \in BOOLEAN
         /\ state' \in {"waiting", "keepopen", "lockout"}
         /\ locked' \in BOOLEAN
         /\ lockoutTimer' \in TimerValue /\ rematchTimer' \in TimerValue
         /\ consecutive' \in 0..args.max_consecutive_lockout_count
         /\ (running' /\ args.max_consecutive_lockout_count # 0)
              => consecutive' < args.max_consecutive_lockout_count
         /\ mg' \in MatchGroup
         /\ images' = {}
         /\ checkedRfidLock' \in BOOLEAN
<1> DEFINE d == GroupDecision(args.matcher, ms)
<1>1. /\ args.max_consecutive_lockout_count \in Nat
      /\ lockoutTimer \in TimerValue /\ rematchTimer \in TimerValue
      /\ checkedRfidLock \in BOOLEAN
  BY ArgsType DEF TypeInv, TypeOK
<1>2. d \in [direction : Direction, success : BOOLEAN, final_decision : BOOLEAN]
  BY ArgsType, DecisionType DEF TypeInv
<1>3. /\ mg' \in MatchGroup
      /\ images' = {}
  BY <1>2 DEF DecideLockStatus, SaveImages, MATCH_MAX_COUNT, MatchGroup
<1>4. CASE d.success
  <2>1. KeepOpen
    BY <1>4 DEF DecideLockStatus
  <2>2. /\ running' = TRUE /\ state' = "keepopen" /\ locked' = FALSE
        /\ lockoutTimer' = lockoutTimer /\ rematchTimer' = TimerInactive
        /\ consecutive' = 0 /\ checkedRfidLock' = FALSE
    BY <2>1, Zenon DEF KeepOpen, SetState, DoUnlock, TypeInv, TypeOK
  <2> QED
    <3>1. consecutive' \in 0..args.max_consecutive_lockout_count
      BY <1>1, <2>2
    <3>2. (running' /\ args.max_consecutive_lockout_count # 0)
              => consecutive' < args.max_consecutive_lockout_count
      BY <1>1, <2>2
    <3>3. lockoutTimer' \in TimerValue /\ rematchTimer' \in TimerValue
      BY <1>1, <2>2, TimerTypes
    <3>4. /\ running' \in BOOLEAN /\ locked' \in BOOLEAN /\ checkedRfidLock' \in BOOLEAN
          /\ state' \in {"waiting", "keepopen", "lockout"}
      BY <2>2
    <3> QED
      BY <3>1, <3>2, <3>3, <3>4, <1>3
<1>5. CASE ~d.success
  <2>1. Lockout
    BY <1>5 DEF DecideLockStatus
  <2>2. CASE TooManyLockouts
    BY <1>1, <1>3, <2>1, <2>2, CountType DEF Lockout, GiveUp, SetState, DoUnlock, TypeInv, TypeOK
  <2>3. CASE ~TooManyLockouts
    <3>1. StateTransitionLockout /\ running' = running
      BY <2>1, <2>3 DEF Lockout, GiveUp
    <3>2. state' = "lockout" /\ locked' \in BOOLEAN /\ lockoutTimer' \in TimerValue
      BY <3>1, TransitionTypes DEF TypeInv
    <3> QED
      BY <1>1, <1>3, <2>1, <2>3, <3>1, <3>2, CountType DEF Lockout, TypeInv, TypeOK
  <2> QED
    BY <2>2, <2>3
<1> QED
  BY <1>4, <1>5

\* Every step of the program keeps the invariant.
LEMMA StepTypeInv == TypeInv /\ [Next]_vars => TypeInv'
<1> SUFFICES ASSUME TypeInv, [Next]_vars PROVE TypeInv'
  OBVIOUS
<1> USE DEF TypeInv
<1>1. CASE SetupGpio
  BY <1>1 DEF SetupGpio, DoUnlock, TypeOK, LifeCycle, CountBelowMax, Phase, groupVars, rfidVars
<1>2. CASE FsmStart
  <2>1. TypeOK'
    BY <1>2, TimerTypes DEF FsmStart, SetState, TypeOK, Phase, State, groupVars, rfidVars
  <2>2. LifeCycle'
    BY <1>2 DEF FsmStart, SetState, LifeCycle
  <2>3. CountBelowMax'
    BY <1>2, ArgsType DEF FsmStart, CountBelowMax
  <2> QED
    BY <2>1, <2>2, <2>3
<1>3. ASSUME NEW obstructed \in BOOLEAN, NEW roiFound \in BOOLEAN,
             StateWaiting(obstructed, roiFound)
      PROVE  TypeInv'
  <2>1. /\ running' \in BOOLEAN /\ (running' => running)
        /\ state' \in State /\ state' # "initial"
        /\ mg' \in MatchGroup
    <3>1. CASE MatchGroupStart /\ SetState("matching") /\ running' = running
      <4>1. mg' \in MatchGroup
        <5>1. \A g \in MatchGroup : [g EXCEPT !.match_count = 0] \in MatchGroup
          BY DEF MatchGroup, MATCH_MAX_COUNT
        <5>2. \A g \in MatchGroup : [g EXCEPT !.final_decision = FALSE] \in MatchGroup
          BY DEF MatchGroup
        <5> QED
          BY <3>1, <5>1, <5>2 DEF MatchGroupStart, TypeOK
      <4> QED
        BY <3>1, <4>1 DEF SetState, TypeOK, State
    <3>2. CASE running' = FALSE /\ state' = state /\ mg' = mg
      BY <1>3, <3>2 DEF StateWaiting, InState, TypeOK
    <3>3. CASE running' = running /\ state' = state /\ mg' = mg
      BY <1>3, <3>3 DEF StateWaiting, InState, TypeOK
    <3> QED
      BY <1>3, <3>1, <3>2, <3>3 DEF StateWaiting
  <2>2. /\ phase = "loop" /\ startupTimer' = TimerInactive
        /\ UNCHANGED <<args, phase, locked, lockoutTimer, rematchTimer, consecutive, matches,
                       images, rfidVars>>
    BY <1>3 DEF StateWaiting, InState
  <2>3. TypeOK'
    BY <2>1, <2>2, TimerTypes DEF TypeOK, rfidVars
  <2> QED
    BY <2>1, <2>2, <2>3 DEF LifeCycle, CountBelowMax
<1>4. ASSUME NEW f \in Frames \cap Frame(args.matcher), StateMatching(f)
      PROVE  TypeInv'
  <2> DEFINE r == Match(args.matcher, f)
             n == mg.match_count + 1
  <2>1. /\ phase = "loop" /\ running /\ state = "matching" /\ n <= MATCH_MAX_COUNT
        /\ matches' = DoMatch(n, r)
        /\ UNCHANGED <<args, phase, startupTimer, rfidMatch, rfidDirection>>
    BY <1>4 DEF StateMatching, InState
  <2>2. n \in Slot
    BY <2>1 DEF TypeOK, MatchGroup, Slot, MATCH_MAX_COUNT
  <2>3. r \in MatchResult
    BY ArgsType, MatchType
  <2>4. matches' \in [Slot -> MatchResult]
    BY <2>1, <2>2, <2>3 DEF DoMatch, TypeOK
  <2>5. CASE UNCHANGED <<running, doorVars, rematchTimer, consecutive, checkedRfidLock>>
    <3>1. mg' \in MatchGroup /\ images' \subseteq Slot
      <4>1. \/ mg' = [mg EXCEPT !.match_count = n] /\ images' = images
            \/ mg' = [mg EXCEPT !.match_count = n] /\ CacheImage(n)
            \/ DecideLockStatus(matches')
        BY <1>4 DEF StateMatching, CountMatch
      <4>2. [mg EXCEPT !.match_count = n] \in MatchGroup
        BY <2>2 DEF TypeOK, MatchGroup, Slot, MATCH_MAX_COUNT
      <4>3. CacheImage(n) => images' \subseteq Slot
        BY <2>2 DEF CacheImage, TypeOK
      <4> QED
        BY <2>1, <2>4, <4>1, <4>2, <4>3, DecideTypes DEF TypeOK
    <3>2. TypeOK'
      BY <2>1, <2>4, <2>5, <3>1 DEF TypeOK, doorVars
    <3> QED
      BY <2>1, <2>5, <3>2 DEF LifeCycle, CountBelowMax, doorVars
  <2>6. CASE DecideLockStatus(matches')
    BY <2>1, <2>4, <2>6, DecideTypes DEF TypeOK, LifeCycle, CountBelowMax, State
  <2> QED
    BY <1>4, <2>5, <2>6 DEF StateMatching
<1>5. CASE MatchingAssertFails
  BY <1>5 DEF MatchingAssertFails, InState, TypeOK, LifeCycle, CountBelowMax, MatchGroup, Phase,
              MATCH_MAX_COUNT, doorVars, rfidVars
<1>6. ASSUME NEW obstructed \in BOOLEAN, StateKeepopen(obstructed)
      PROVE  TypeInv'
  <2>1. /\ phase = "loop" /\ running /\ state = "keepopen"
        /\ rematchTimer' = StartWhenClear(rematchTimer)
        /\ UNCHANGED <<args, phase, running, startupTimer, consecutive, groupVars>>
    BY <1>6 DEF StateKeepopen, InState
  <2>2. CASE SetState("waiting") /\ UNCHANGED <<locked, lockoutTimer, rfidVars>>
    BY <2>1, <2>2, TimerTypes DEF SetState, TypeOK, LifeCycle, CountBelowMax, State, groupVars,
                                  rfidVars
  <2>3. CASE RfidCheck
    <3>1. /\ rfidDirection' \in Direction /\ checkedRfidLock' \in BOOLEAN
          /\ rfidMatch' = rfidMatch
      BY <2>3 DEF RfidCheck, Direction, TypeOK
    <3>2. /\ state' \in {"keepopen", "lockout"} /\ locked' \in BOOLEAN
          /\ lockoutTimer' \in TimerValue
      BY <2>1, <2>3, TransitionTypes DEF RfidCheck, doorVars, TypeOK
    <3> QED
      BY <2>1, <3>1, <3>2, TimerTypes DEF TypeOK, LifeCycle, CountBelowMax, State, groupVars
  <2>4. CASE UNCHANGED <<doorVars, rfidVars>>
    BY <2>1, <2>4, TimerTypes DEF TypeOK, LifeCycle, CountBelowMax, groupVars, doorVars, rfidVars
  <2> QED
    BY <1>6, <2>2, <2>3, <2>4 DEF StateKeepopen
<1>7. ASSUME NEW obstructed \in BOOLEAN, StateLockout(obstructed)
      PROVE  TypeInv'
  <2>1. /\ phase = "loop" /\ running /\ state = "lockout"
        /\ UNCHANGED <<args, phase, running, rematchTimer, startupTimer, consecutive, groupVars,
                       rfidVars>>
    BY <1>7 DEF StateLockout, InState
  <2>2. lockoutTimer' \in TimerValue
    BY <1>7, TimerTypes DEF StateLockout, TypeOK
  <2>3. state' \in {"waiting", "lockout"} /\ locked' \in BOOLEAN
    BY <1>7, <2>1 DEF StateLockout, EndLockout, DoUnlock, SetState, TypeOK
  <2> QED
    BY <2>1, <2>2, <2>3 DEF TypeOK, LifeCycle, CountBelowMax, State, groupVars, rfidVars
<1>8. ASSUME NEW reader \in args.rfid_readers, NEW allowed \in BOOLEAN,
             RfidRead(reader, allowed)
      PROVE  TypeInv'
  <2>1. rfidDirection' \in Direction
    BY <1>8 DEF RfidRead, DirectionOf, Direction, TypeOK
  <2>2. rfidMatch' \in [Reader -> [triggered : BOOLEAN, is_allowed : BOOLEAN]]
    BY <1>8 DEF RfidRead, TypeOK
  <2>3. UNCHANGED <<args, phase, running, doorVars, rematchTimer, startupTimer, consecutive,
                    groupVars, checkedRfidLock>>
    BY <1>8 DEF RfidRead
  <2> QED
    BY <2>1, <2>2, <2>3 DEF TypeOK, LifeCycle, CountBelowMax, groupVars, doorVars
<1>9. ASSUME NEW signo \in Signals, SigHandler(signo)
      PROVE  TypeInv'
  <2>1. /\ phase \in {"ready", "loop", "destroyed"}
        /\ UNCHANGED <<args, rematchTimer, startupTimer, consecutive, groupVars, rfidVars>>
    BY <1>9 DEF SigHandler
  <2>2. CASE Sigint
    BY <2>1, <2>2 DEF Sigint, DoUnlock, TypeOK, LifeCycle, CountBelowMax, Phase, groupVars,
                      rfidVars
  <2>3. CASE Sigusr1
    BY <2>1, <2>3 DEF Sigusr1, DoUnlock, SetState, TypeOK, LifeCycle, CountBelowMax, State,
                      groupVars, rfidVars
  <2>4. CASE Sigusr2
    <3>1. /\ state' = "lockout" /\ locked' \in BOOLEAN /\ lockoutTimer' \in TimerValue
          /\ phase' = phase /\ running' = running
      BY <2>4, TransitionTypes DEF Sigusr2
    <3> QED
      BY <2>1, <3>1 DEF TypeOK, LifeCycle, CountBelowMax, State, groupVars, rfidVars
  <2> QED
    BY <1>9, <2>2, <2>3, <2>4 DEF SigHandler
<1>10. CASE GrabberDestroy
  BY <1>10 DEF GrabberDestroy, DoUnlock, TypeOK, LifeCycle, CountBelowMax, Phase, rfidVars
<1>11. CASE Tick
  BY <1>11, TimerTypes DEF Tick, TypeOK, LifeCycle, CountBelowMax, groupVars, rfidVars
<1>12. CASE UNCHANGED vars
  BY <1>12 DEF vars, doorVars, groupVars, rfidVars, TypeOK, LifeCycle, CountBelowMax
<1> QED
  BY <1>1, <1>2, <1>3, <1>4, <1>5, <1>6, <1>7, <1>8, <1>9, <1>10, <1>11, <1>12
  DEF Next, RunState

(***************************************************************************)
(* Type correctness: every reachable state is well formed, and the count   *)
(* of consecutive lockouts never exceeds the configured maximum.           *)
(***************************************************************************)
THEOREM TypeCorrect == Spec => []TypeOK
<1>1. TypeInv /\ [Next]_vars => TypeInv'
  BY StepTypeInv
<1>2. TypeInv => TypeOK
  BY DEF TypeInv
<1> QED
  BY InitTypeInv, <1>1, <1>2, PTL DEF Spec

\* The same for the whole invariant, for use in the proofs below.
LEMMA TypeInvariance == Spec => []TypeInv
BY InitTypeInv, StepTypeInv, PTL DEF Spec

-----------------------------------------------------------------------------
(***************************************************************************)
(* The door.  A user who sends SIGUSR2 between the GPIO setup and the main *)
(* loop, or after catcierge_grabber_destroy, locks a door that nothing     *)
(* unlocks; without that signal the door follows the state.                *)
(***************************************************************************)
NoForcedLockout == "SIGUSR2" \notin Signals

\* DoorFollowsState does not speak of the time before and after the loop,
\* and an aborted process keeps the door as the matching state has it.
DoorInv ==
  /\ phase \in {"ready", "destroyed", "exited"} => ~locked
  /\ running => (locked <=> (state = "lockout" /\ ~args.lockout_dummy))

\* The transition locks the door, unless the lockout is a dummy.
LEMMA TransitionLocks ==
  ASSUME TypeInv, StateTransitionLockout, args' = args, locked = FALSE
  PROVE  locked' <=> (state' = "lockout" /\ ~args'.lockout_dummy)
BY DEF StateTransitionLockout, SetState, DoLockout

\* Every step keeps the door and the state together.
LEMMA StepDoorInv ==
  ASSUME NoForcedLockout
  PROVE  TypeInv /\ DoorInv /\ [Next]_vars => DoorInv'
<1> SUFFICES ASSUME TypeInv, DoorInv, [Next]_vars PROVE DoorInv'
  OBVIOUS
<1>0. locked \in BOOLEAN /\ running \in BOOLEAN
  BY DEF TypeInv, TypeOK
<1>1. CASE SetupGpio
  BY <1>1 DEF SetupGpio, DoUnlock, DoorInv, TypeInv, LifeCycle
<1>2. CASE FsmStart
  BY <1>2 DEF FsmStart, SetState, DoorInv
<1>3. ASSUME NEW obstructed \in BOOLEAN, NEW roiFound \in BOOLEAN,
             StateWaiting(obstructed, roiFound)
      PROVE  DoorInv'
  BY <1>3 DEF StateWaiting, InState, SetState, DoorInv
<1>4. ASSUME NEW f \in Frames \cap Frame(args.matcher), StateMatching(f)
      PROVE  DoorInv'
  <2>1. /\ phase = "loop" /\ running /\ state = "matching" /\ locked = FALSE
        /\ UNCHANGED <<args, phase>>
    BY <1>0, <1>4 DEF StateMatching, InState, DoorInv
  <2>2. CASE UNCHANGED <<running, doorVars, rematchTimer, consecutive, checkedRfidLock>>
    BY <2>1, <2>2 DEF DoorInv, doorVars
  <2>3. CASE DecideLockStatus(matches')
    <3>1. CASE KeepOpen
      BY <2>1, <3>1 DEF KeepOpen, DoUnlock, SetState, DoorInv
    <3>2. CASE Lockout
      <4>1. CASE DoUnlock /\ running' = FALSE
        BY <2>1, <4>1 DEF DoUnlock, DoorInv
      <4>2. CASE StateTransitionLockout /\ running' = running
        BY <2>1, <4>2, TransitionLocks DEF DoorInv
      <4> QED
        BY <3>2, <4>1, <4>2 DEF Lockout, GiveUp
    <3> QED
      BY <2>3, <3>1, <3>2 DEF DecideLockStatus
  <2> QED
    BY <1>4, <2>2, <2>3 DEF StateMatching
<1>5. CASE MatchingAssertFails
  BY <1>5 DEF MatchingAssertFails, DoorInv, doorVars
<1>6. ASSUME NEW obstructed \in BOOLEAN, StateKeepopen(obstructed)
      PROVE  DoorInv'
  <2>1. /\ phase = "loop" /\ running /\ state = "keepopen" /\ locked = FALSE
        /\ UNCHANGED <<args, phase, running>>
    BY <1>0, <1>6 DEF StateKeepopen, InState, DoorInv
  <2>2. CASE SetState("waiting") /\ locked' = locked
    BY <2>1, <2>2 DEF SetState, DoorInv
  <2>3. CASE StateTransitionLockout
    BY <2>1, <2>3, TransitionLocks DEF DoorInv
  <2>4. CASE UNCHANGED doorVars
    BY <2>1, <2>4 DEF DoorInv, doorVars
  <2> QED
    BY <1>6, <2>2, <2>3, <2>4 DEF StateKeepopen, RfidCheck
<1>7. ASSUME NEW obstructed \in BOOLEAN, StateLockout(obstructed)
      PROVE  DoorInv'
  BY <1>7 DEF StateLockout, InState, EndLockout, DoUnlock, SetState, DoorInv
<1>8. ASSUME NEW reader \in args.rfid_readers, NEW allowed \in BOOLEAN,
             RfidRead(reader, allowed)
      PROVE  DoorInv'
  BY <1>8 DEF RfidRead, DoorInv, doorVars
<1>9. ASSUME NEW signo \in Signals, SigHandler(signo)
      PROVE  DoorInv'
  <2>1. signo # "SIGUSR2" /\ args' = args
    BY <1>9 DEF SigHandler, NoForcedLockout
  <2>2. CASE Sigint
    BY <2>1, <2>2 DEF Sigint, DoUnlock, DoorInv
  <2>3. CASE Sigusr1
    BY <2>1, <2>3 DEF Sigusr1, DoUnlock, SetState, DoorInv
  <2> QED
    BY <1>9, <2>1, <2>2, <2>3 DEF SigHandler
<1>10. CASE GrabberDestroy
  BY <1>10 DEF GrabberDestroy, DoUnlock, DoorInv
<1>11. CASE Tick
  BY <1>11 DEF Tick, DoorInv
<1>12. CASE UNCHANGED vars
  BY <1>12 DEF vars, doorVars, DoorInv
<1> QED
  BY <1>1, <1>2, <1>3, <1>4, <1>5, <1>6, <1>7, <1>8, <1>9, <1>10, <1>11, <1>12
  DEF Next, RunState

(***************************************************************************)
(* Without SIGUSR2 the door follows the state: while the loop runs it is   *)
(* locked exactly in the lockout state.                                    *)
(***************************************************************************)
THEOREM DoorFollows == NoForcedLockout /\ Spec => []DoorFollowsState
<1> SUFFICES ASSUME NoForcedLockout PROVE Spec => []DoorFollowsState
  OBVIOUS
<1>1. Init => DoorInv
  BY DEF Init, DoorInv
<1>2. TypeInv /\ DoorInv /\ [Next]_vars => DoorInv'
  BY StepDoorInv
<1>3. DoorInv => DoorFollowsState
  BY DEF DoorInv, DoorFollowsState
<1> QED
  BY TypeInvariance, <1>1, <1>2, <1>3, PTL DEF Spec

(***************************************************************************)
(* Without SIGUSR2 the process never ends with a locked door: neither by   *)
(* catcierge_grabber_destroy, nor by exit in the signal handler, nor by    *)
(* the failed assertion on the match count.                                *)
(***************************************************************************)
THEOREM EndsUnlocked == NoForcedLockout /\ Spec => []NeverLeavesLocked
<1> SUFFICES ASSUME NoForcedLockout PROVE Spec => []NeverLeavesLocked
  OBVIOUS
<1>1. Init => DoorInv
  BY DEF Init, DoorInv
<1>2. TypeInv /\ DoorInv /\ [Next]_vars => DoorInv'
  BY StepDoorInv
<1>3. TypeInv /\ DoorInv => NeverLeavesLocked
  BY DEF TypeInv, LifeCycle, DoorInv, NeverLeavesLocked
<1> QED
  BY TypeInvariance, <1>1, <1>2, <1>3, PTL DEF Spec

-----------------------------------------------------------------------------
(***************************************************************************)
(* The cached images and the refinement need a match group that is not cut *)
(* short: no SIGUSR1 and no SIGUSR2.                                       *)
(***************************************************************************)
NoUserSignals == Signals \subseteq {"SIGINT"}

\* A signal the user may send is SIGINT.
LEMMA OnlySigint ==
  ASSUME NoUserSignals, NEW signo \in Signals, SigHandler(signo)
  PROVE  Sigint
BY DEF NoUserSignals, SigHandler

\* Before the main loop there is no image either.
ImagesInv == (state # "matching" \/ phase \in {"init", "ready"}) => images = {}

(***************************************************************************)
(* Without SIGUSR1 and SIGUSR2 no image cached for a match group survives  *)
(* the group.                                                              *)
(***************************************************************************)
THEOREM ImagesAreReleased == NoUserSignals /\ Spec => []ImagesReleased
<1> SUFFICES ASSUME NoUserSignals PROVE Spec => []ImagesReleased
  OBVIOUS
<1>1. Init => ImagesInv
  BY DEF Init, ImagesInv
<1>2. ImagesInv /\ [Next]_vars => ImagesInv'
  <2> SUFFICES ASSUME ImagesInv, [Next]_vars PROVE ImagesInv'
    OBVIOUS
  <2>1. CASE SetupGpio
    BY <2>1 DEF SetupGpio, ImagesInv, groupVars
  <2>2. CASE FsmStart
    BY <2>2, Zenon DEF FsmStart, SetState, ImagesInv, groupVars
  <2>3. ASSUME NEW obstructed \in BOOLEAN, NEW roiFound \in BOOLEAN,
               StateWaiting(obstructed, roiFound)
        PROVE  ImagesInv'
    BY <2>3 DEF StateWaiting, InState, ImagesInv
  <2>4. ASSUME NEW f \in Frames \cap Frame(args.matcher), StateMatching(f)
        PROVE  ImagesInv'
    <3>1. state = "matching" /\ phase' = "loop"
      BY <2>4 DEF StateMatching, InState
    <3>2. CASE UNCHANGED doorVars
      BY <3>1, <3>2 DEF ImagesInv, doorVars
    <3>3. CASE DecideLockStatus(matches')
      BY <3>3 DEF DecideLockStatus, SaveImages, ImagesInv
    <3> QED
      BY <2>4, <3>2, <3>3 DEF StateMatching
  <2>5. CASE MatchingAssertFails
    BY <2>5 DEF MatchingAssertFails, ImagesInv, doorVars
  <2>6. ASSUME NEW obstructed \in BOOLEAN, StateKeepopen(obstructed)
        PROVE  ImagesInv'
    BY <2>6 DEF StateKeepopen, InState, ImagesInv, groupVars
  <2>7. ASSUME NEW obstructed \in BOOLEAN, StateLockout(obstructed)
        PROVE  ImagesInv'
    BY <2>7 DEF StateLockout, InState, ImagesInv, groupVars
  <2>8. ASSUME NEW reader \in args.rfid_readers, NEW allowed \in BOOLEAN,
               RfidRead(reader, allowed)
        PROVE  ImagesInv'
    BY <2>8 DEF RfidRead, ImagesInv, groupVars, doorVars
  <2>9. ASSUME NEW signo \in Signals, SigHandler(signo)
        PROVE  ImagesInv'
    BY <2>9, OnlySigint DEF SigHandler, Sigint, ImagesInv, groupVars
  <2>10. CASE GrabberDestroy
    BY <2>10 DEF GrabberDestroy, ImagesInv
  <2>11. CASE Tick
    BY <2>11 DEF Tick, ImagesInv, groupVars
  <2>12. CASE UNCHANGED vars
    BY <2>12 DEF vars, doorVars, groupVars, ImagesInv
  <2> QED
    BY <2>1, <2>2, <2>3, <2>4, <2>5, <2>6, <2>7, <2>8, <2>9, <2>10, <2>11, <2>12
    DEF Next, RunState
<1>3. ImagesInv => ImagesReleased
  BY DEF ImagesInv, ImagesReleased
<1> QED
  BY <1>1, <1>2, <1>3, PTL DEF Spec

-----------------------------------------------------------------------------
(***************************************************************************)
(* The refinement.                                                         *)
(***************************************************************************)
\* The initial states are initial states of the door.
LEMMA DoorInit == Init => Door!Init
<1> SUFFICES ASSUME Init PROVE Door!Init
  OBVIOUS
<1>1. DoorMode = "off"
  BY DEF Init, DoorMode
<1>2. args.lockout_dummy \in BOOLEAN
  BY FsmAssumption DEF Init, FsmArgs
<1> QED
  BY <1>1, <1>2 DEF Init, Door!Init

\* The mode of the door in the main loop.
LEMMA LoopMode ==
  ASSUME phase = "loop"
  PROVE  /\ ~running => DoorMode = "stopping"
         /\ (running /\ state = "waiting") => DoorMode = "open"
         /\ (running /\ state = "matching") => DoorMode = "checking"
         /\ (running /\ state = "keepopen") => DoorMode = "passing"
         /\ (running /\ state = "lockout") => DoorMode = "lockout"
BY DEF DoorMode

\* Every step is a step of the door or leaves it alone.
LEMMA DoorStep ==
  ASSUME NoUserSignals
  PROVE  TypeInv /\ DoorInv /\ [Next]_vars => [Door!Next]_(Door!doorSpecVars)
<1> SUFFICES ASSUME TypeInv, DoorInv, [Next]_vars
             PROVE  Door!Next \/ UNCHANGED <<DoorMode, locked, args.lockout_dummy>>
  BY DEF Door!doorSpecVars
<1> DEFINE dummy == args.lockout_dummy
<1>0. locked \in BOOLEAN /\ running \in BOOLEAN
  BY DEF TypeInv, TypeOK
<1>1. CASE SetupGpio
  <2>1. DoorMode = "off" /\ DoorMode' = "open" /\ locked' = FALSE /\ dummy' = dummy
    BY <1>1 DEF SetupGpio, DoUnlock, DoorMode
  <2> QED
    BY <2>1 DEF Door!Next, Door!Open
<1>2. CASE FsmStart
  BY <1>2 DEF FsmStart, SetState, DoorMode
<1>3. ASSUME NEW obstructed \in BOOLEAN, NEW roiFound \in BOOLEAN,
             StateWaiting(obstructed, roiFound)
      PROVE  Door!Next \/ UNCHANGED <<DoorMode, locked, dummy>>
  <2>1. /\ phase = "loop" /\ running /\ state = "waiting"
        /\ UNCHANGED <<args, phase, locked>>
    BY <1>3 DEF StateWaiting, InState
  <2>2. CASE running' = FALSE
    BY <2>1, <2>2, LoopMode DEF DoorMode, Door!Next, Door!Stopping
  <2>3. CASE SetState("matching") /\ running' = running
    BY <2>1, <2>3 DEF SetState, DoorMode, Door!Next, Door!Check
  <2>4. CASE UNCHANGED <<running, state>>
    BY <2>1, <2>4 DEF DoorMode
  <2> QED
    BY <1>3, <2>2, <2>3, <2>4 DEF StateWaiting
<1>4. ASSUME NEW f \in Frames \cap Frame(args.matcher), StateMatching(f)
      PROVE  Door!Next \/ UNCHANGED <<DoorMode, locked, dummy>>
  <2>1. /\ phase = "loop" /\ running /\ state = "matching" /\ locked = FALSE
        /\ UNCHANGED <<args, phase>>
    BY <1>0, <1>4 DEF StateMatching, InState, DoorInv
  <2>2. CASE UNCHANGED <<running, doorVars>>
    BY <2>1, <2>2 DEF DoorMode, doorVars
  <2>3. CASE KeepOpen
    <3>1. DoorMode = "checking" /\ DoorMode' = "passing" /\ locked' = locked
      BY <2>1, <2>3 DEF KeepOpen, DoUnlock, SetState, DoorMode
    <3> QED
      BY <2>1, <3>1 DEF Door!Next, Door!Pass
  <2>4. CASE DoUnlock /\ running' = FALSE
    <3>1. DoorMode = "checking" /\ DoorMode' = "stopping" /\ locked' = locked
      BY <2>1, <2>4 DEF DoUnlock, DoorMode
    <3> QED
      BY <2>1, <3>1 DEF Door!Next, Door!Stopping
  <2>5. CASE StateTransitionLockout /\ running' = running
    <3>1. DoorMode = "checking" /\ DoorMode' = "lockout" /\ locked' = ~dummy
      BY <2>1, <2>5 DEF StateTransitionLockout, SetState, DoLockout, DoorMode
    <3> QED
      BY <2>1, <3>1 DEF Door!Next, Door!LockOut
  <2> QED
    BY <1>4, <2>2, <2>3, <2>4, <2>5 DEF StateMatching, DecideLockStatus, Lockout, GiveUp
<1>5. CASE MatchingAssertFails
  <2>1. /\ DoorMode = "checking" /\ DoorMode' = "stopped" /\ locked' = FALSE
        /\ dummy' = dummy
    BY <1>0, <1>5 DEF MatchingAssertFails, InState, DoorInv, DoorMode, doorVars
  <2> QED
    BY <2>1 DEF Door!Next, Door!Stop
<1>6. ASSUME NEW obstructed \in BOOLEAN, StateKeepopen(obstructed)
      PROVE  Door!Next \/ UNCHANGED <<DoorMode, locked, dummy>>
  <2>1. /\ phase = "loop" /\ running /\ state = "keepopen" /\ locked = FALSE
        /\ UNCHANGED <<args, phase, running>>
    BY <1>0, <1>6 DEF StateKeepopen, InState, DoorInv
  <2>2. CASE SetState("waiting") /\ locked' = locked
    <3>1. DoorMode = "passing" /\ DoorMode' = "open"
      BY <2>1, <2>2 DEF SetState, DoorMode
    <3> QED
      BY <2>1, <2>2, <3>1 DEF Door!Next, Door!Open
  <2>3. CASE StateTransitionLockout
    <3>1. DoorMode = "passing" /\ DoorMode' = "lockout" /\ locked' = ~dummy
      BY <2>1, <2>3 DEF StateTransitionLockout, SetState, DoLockout, DoorMode
    <3> QED
      BY <2>1, <3>1 DEF Door!Next, Door!LockOut
  <2>4. CASE UNCHANGED doorVars
    BY <2>1, <2>4 DEF DoorMode, doorVars
  <2> QED
    BY <1>6, <2>2, <2>3, <2>4 DEF StateKeepopen, RfidCheck
<1>7. ASSUME NEW obstructed \in BOOLEAN, StateLockout(obstructed)
      PROVE  Door!Next \/ UNCHANGED <<DoorMode, locked, dummy>>
  <2>1. /\ phase = "loop" /\ running /\ state = "lockout"
        /\ UNCHANGED <<args, phase, running>>
    BY <1>7 DEF StateLockout, InState
  <2>2. CASE EndLockout
    <3>1. DoorMode = "lockout" /\ DoorMode' = "open" /\ locked' = FALSE
      BY <2>1, <2>2 DEF EndLockout, DoUnlock, SetState, DoorMode
    <3> QED
      BY <2>1, <3>1 DEF Door!Next, Door!Open
  <2>3. CASE UNCHANGED <<state, locked>>
    BY <2>1, <2>3 DEF DoorMode
  <2> QED
    BY <1>7, <2>2, <2>3 DEF StateLockout
<1>8. ASSUME NEW reader \in args.rfid_readers, NEW allowed \in BOOLEAN,
             RfidRead(reader, allowed)
      PROVE  Door!Next \/ UNCHANGED <<DoorMode, locked, dummy>>
  BY <1>8 DEF RfidRead, DoorMode, doorVars
<1>9. ASSUME NEW signo \in Signals, SigHandler(signo)
      PROVE  Door!Next \/ UNCHANGED <<DoorMode, locked, dummy>>
  <2>1. /\ Sigint /\ phase \in {"ready", "loop", "destroyed"} /\ dummy' = dummy
    BY <1>9, OnlySigint DEF SigHandler
  <2>2. CASE running
    <3>1. /\ DoorMode \in {"open", "checking", "passing", "lockout"}
          /\ DoorMode' = "stopping" /\ locked' = locked
      BY <2>1, <2>2 DEF Sigint, DoorMode, TypeInv, LifeCycle
    <3> QED
      BY <2>1, <3>1 DEF Door!Next, Door!Stopping
  <2>3. CASE ~running
    <3>1. /\ DoorMode \in {"open", "stopping", "stopped"}
          /\ DoorMode' = "stopped" /\ locked' = FALSE
      BY <2>1, <2>3 DEF Sigint, DoUnlock, DoorMode
    <3> QED
      BY <2>1, <3>1 DEF Door!Next, Door!Stop
  <2> QED
    BY <2>2, <2>3
<1>10. CASE GrabberDestroy
  <2>1. DoorMode = "stopping" /\ DoorMode' = "stopped" /\ locked' = FALSE /\ dummy' = dummy
    BY <1>10 DEF GrabberDestroy, DoUnlock, DoorMode
  <2> QED
    BY <2>1 DEF Door!Next, Door!Stop
<1>11. CASE Tick
  BY <1>11 DEF Tick, DoorMode
<1>12. CASE UNCHANGED vars
  BY <1>12 DEF vars, doorVars, DoorMode
<1> QED
  BY <1>1, <1>2, <1>3, <1>4, <1>5, <1>6, <1>7, <1>8, <1>9, <1>10, <1>11, <1>12
  DEF Next, RunState

(***************************************************************************)
(* Without SIGUSR1 and SIGUSR2 the state machine implements CatDoor.       *)
(***************************************************************************)
THEOREM DoorImplemented == NoUserSignals /\ Spec => ImplementsDoor
<1> SUFFICES ASSUME NoUserSignals PROVE Spec => Door!Spec
  BY DEF ImplementsDoor
<1>1. NoForcedLockout
  BY DEF NoUserSignals, NoForcedLockout
<1>2. Init => DoorInv
  BY DEF Init, DoorInv
<1>3. TypeInv /\ DoorInv /\ [Next]_vars => DoorInv'
  BY <1>1, StepDoorInv
<1>4. TypeInv /\ DoorInv /\ [Next]_vars => [Door!Next]_(Door!doorSpecVars)
  BY DoorStep
<1> QED
  BY TypeInvariance, DoorInit, <1>2, <1>3, <1>4, PTL DEF Spec, Door!Spec
-----------------------------------------------------------------------------
(***************************************************************************)
(* The promises over several steps.  History variables add nothing to what *)
(* the program does, so the invariants above hold with them.               *)
(***************************************************************************)
LEMMA HistoryStep == [HNext]_hvars => [Next]_vars
<1> SUFFICES ASSUME [HNext]_hvars PROVE [Next]_vars
  OBVIOUS
<1>1. CASE HTick
  BY <1>1 DEF HTick, Next
<1>2. CASE \E obstructed \in BOOLEAN : HLockout(obstructed)
  BY <1>2 DEF HLockout, Next, RunState
<1>3. CASE \E f \in Frames \cap Frame(args.matcher) : HMatching(f)
  BY <1>3 DEF HMatching, Next, RunState
<1>4. CASE \E reader \in args.rfid_readers, allowed \in BOOLEAN : HRfidRead(reader, allowed)
  BY <1>4 DEF HRfidRead, DroppedTag, Next
<1>5. CASE \E obstructed \in BOOLEAN : HKeepopen(obstructed)
  BY <1>5 DEF HKeepopen, Next, RunState
<1>6. CASE HOther
  BY <1>6 DEF HOther, Next, RunState
<1>7. CASE UNCHANGED hvars
  BY <1>7 DEF hvars
<1> QED
  BY <1>1, <1>2, <1>3, <1>4, <1>5, <1>6, <1>7 DEF HNext

LEMMA HistoryTypes == HSpec => []TypeInv
<1>1. HInit => TypeInv
  BY InitTypeInv DEF HInit
<1>2. TypeInv /\ [HNext]_hvars => TypeInv'
  BY HistoryStep, StepTypeInv
<1> QED
  BY <1>1, <1>2, PTL DEF HSpec

\* What is left of the decision of a group, for the promises about it.
LEMMA MatchingSteps ==
  ASSUME TypeInv, NEW f \in Frames \cap Frame(args.matcher), StateMatching(f)
  PROVE  LET n == mg.match_count + 1
             r == Match(args.matcher, f)
         IN /\ n \in Slot /\ r \in MatchResult
            /\ running /\ state = "matching" /\ args' = args
            /\ matches' = [matches EXCEPT ![n] = r]
            /\ matches' \in [Slot -> MatchResult]
            /\ \/ /\ state' = "matching" /\ running' = running
                  /\ consecutive' = consecutive /\ mg'.match_count = n
               \/ /\ state' # "matching" /\ n = MATCH_MAX_COUNT
                  /\ DecideLockStatus(matches')
<1> DEFINE n == mg.match_count + 1
           r == Match(args.matcher, f)
<1>1. /\ running /\ state = "matching" /\ n <= MATCH_MAX_COUNT /\ args' = args
      /\ matches' = [matches EXCEPT ![n] = r]
  BY DEF StateMatching, InState, DoMatch
<1>2. n \in Slot
  BY <1>1 DEF TypeInv, TypeOK, MatchGroup, Slot, MATCH_MAX_COUNT
<1>3. r \in MatchResult
  BY ArgsType, MatchType DEF TypeInv
<1>4. matches' \in [Slot -> MatchResult]
  BY <1>1, <1>2, <1>3 DEF TypeInv, TypeOK
<1>5. CASE /\ UNCHANGED <<running, doorVars, rematchTimer, consecutive, checkedRfidLock>>
           /\ mg' = [mg EXCEPT !.match_count = n]
  <2>1. mg'.match_count = n
    BY <1>5 DEF TypeInv, TypeOK, MatchGroup
  <2> QED
    BY <1>1, <1>2, <1>3, <1>4, <1>5, <2>1 DEF doorVars
<1>6. CASE r.result # ERROR /\ n = MATCH_MAX_COUNT /\ DecideLockStatus(matches')
  <2>1. state' # "matching"
    BY <1>1, <1>4, <1>6, DecideTypes
  <2> QED
    BY <1>1, <1>2, <1>3, <1>4, <1>6, <2>1
<1> QED
  BY <1>5, <1>6 DEF StateMatching, CountMatch

\* The count of consecutive lockouts counts failed groups, not all of them.
StreakInv ==
  /\ failStreak \in Nat
  /\ consecutive <= failStreak

LEMMA StepStreak ==
  ASSUME TypeInv, StreakInv, [HNext]_hvars
  PROVE  /\ StreakInv'
         /\ (state = "matching" /\ running /\ ~running' /\ state' # "matching")
              => failStreak' >= args.max_consecutive_lockout_count
<1>0. /\ args.max_consecutive_lockout_count \in Nat /\ consecutive \in Nat
      /\ failStreak \in Nat /\ consecutive <= failStreak
  BY ArgsType DEF TypeInv, TypeOK, StreakInv
<1>1. CASE \E f \in Frames \cap Frame(args.matcher) : HMatching(f)
  <2>1. PICK f \in Frames \cap Frame(args.matcher) : HMatching(f)
    BY <1>1
  <2>2. /\ running /\ state = "matching" /\ matches' \in [Slot -> MatchResult]
        /\ \/ state' = "matching" /\ running' = running /\ consecutive' = consecutive
           \/ state' # "matching" /\ DecideLockStatus(matches')
    BY <2>1, MatchingSteps DEF HMatching
  <2>3. failStreak' = IF state' = "matching" THEN failStreak
                      ELSE IF mg'.success THEN 0
                      ELSE Saturate(failStreak, args.max_consecutive_lockout_count + 1)
    BY <2>1 DEF HMatching
  <2>4. CASE state' = "matching"
    BY <1>0, <2>2, <2>3, <2>4 DEF StreakInv
  <2>5. CASE state' # "matching"
    <3> DEFINE d == GroupDecision(args.matcher, matches')
    <3>1. DecideLockStatus(matches')
      BY <2>2, <2>5
    <3>2. d.success \in BOOLEAN /\ mg'.success = d.success
      <4>1. d \in [direction : Direction, success : BOOLEAN, final_decision : BOOLEAN]
        BY <2>2, ArgsType, DecisionType DEF TypeInv
      <4> QED
        BY <3>1, <4>1 DEF DecideLockStatus
    <3>3. CASE d.success
      <4>1. KeepOpen
        BY <3>1, <3>3 DEF DecideLockStatus
      <4>2. consecutive' = 0 /\ running' = running /\ failStreak' = 0
        BY <2>3, <2>5, <3>2, <3>3, <4>1 DEF KeepOpen
      <4> QED
        BY <2>2, <4>2 DEF StreakInv
    <3>4. CASE ~ d.success
      <4>1. Lockout
        BY <3>1, <3>4 DEF DecideLockStatus
      <4>2. /\ consecutive' = ConsecutiveLockouts
            /\ failStreak' = Saturate(failStreak, args.max_consecutive_lockout_count + 1)
            /\ running' = running \/ TooManyLockouts
        BY <2>3, <2>5, <3>2, <3>4, <4>1 DEF Lockout
      <4>3. /\ ConsecutiveLockouts \in 0..args.max_consecutive_lockout_count
            /\ ConsecutiveLockouts <= consecutive + 1
        <5>1. ConsecutiveLockouts \in {consecutive, consecutive + 1, 0}
          BY DEF ConsecutiveLockouts
        <5>2. \A k \in Nat : \A j \in {k, k + 1, 0} : j <= k + 1
          OBVIOUS
        <5>3. ConsecutiveLockouts <= consecutive + 1
          BY <1>0, <5>1, <5>2
        <5> QED
          BY <2>2, <5>3, CountType
      <4>4. failStreak' \in Nat /\ ConsecutiveLockouts <= failStreak'
        BY <1>0, <4>2, <4>3 DEF Saturate
      <4>5. TooManyLockouts => ConsecutiveLockouts >= args.max_consecutive_lockout_count
        BY DEF TooManyLockouts
      <4>6. StreakInv'
        BY <4>2, <4>4 DEF StreakInv
      <4>7. running /\ ~ running' => TooManyLockouts
        BY <4>2
      <4>8. \A k, j, m \in Nat : j <= k /\ j >= m => k >= m
        OBVIOUS
      <4>9. TooManyLockouts => failStreak' >= args.max_consecutive_lockout_count
        BY <1>0, <4>3, <4>4, <4>5, <4>8
      <4> QED
        BY <4>6, <4>7, <4>9
    <3> QED
      BY <3>2, <3>3, <3>4
  <2> QED
    BY <2>4, <2>5
<1>2. CASE HTick \/ (\E obstructed \in BOOLEAN : HLockout(obstructed))
             \/ (\E reader \in args.rfid_readers, allowed \in BOOLEAN :
                   HRfidRead(reader, allowed))
             \/ UNCHANGED hvars
  BY <1>0, <1>2 DEF HTick, HLockout, HRfidRead, DroppedTag, Tick, StateLockout, RfidRead,
                    hvars, historyVars, vars, StreakInv
<1>3. CASE \E obstructed \in BOOLEAN : HKeepopen(obstructed)
  BY <1>0, <1>3 DEF HKeepopen, StateKeepopen, InState, StreakInv
<1>4. CASE HOther
  <2>1. UNCHANGED <<consecutive, failStreak>>
    BY <1>4 DEF HOther, SetupGpio, FsmStart, StateWaiting, MatchingAssertFails, SigHandler,
                GrabberDestroy
  <2>2. ~ (state = "matching" /\ running /\ ~ running' /\ state' # "matching")
    BY <1>4 DEF HOther, SetupGpio, FsmStart, StateWaiting, MatchingAssertFails, InState,
                SigHandler, Sigint, Sigusr1, Sigusr2, GrabberDestroy, SetState
  <2> QED
    BY <1>0, <2>1, <2>2 DEF StreakInv
<1> QED
  BY <1>1, <1>2, <1>3, <1>4 DEF HNext

(***************************************************************************)
(* Whatever signals come, the program gives up only after the configured   *)
(* number of failed groups without a successful one in between             *)
(* (catcierge_check_max_consecutive_lockouts).                             *)
(***************************************************************************)
THEOREM GivesUpAfterAStreak == HSpec => GivesUpOnlyOnAStreak
<1>1. HInit => StreakInv
  BY DEF HInit, Init, StreakInv
<1>2. TypeInv /\ StreakInv /\ [HNext]_hvars => StreakInv'
  BY StepStreak
<1>3. TypeInv /\ StreakInv /\ [HNext]_hvars =>
        ((state = "matching" /\ running /\ ~running' /\ state' # "matching")
           => failStreak' >= args.max_consecutive_lockout_count)
  BY StepStreak
<1> QED
  BY HistoryTypes, <1>1, <1>2, <1>3, PTL DEF HSpec, GivesUpOnlyOnAStreak


-----------------------------------------------------------------------------
\* The remembered slots are the successful ones among those taken so far, so what an
\* earlier group left in the others is never looked at.
GoodSlots(ms, n) == {i \in Slot : i <= n /\ Success(ms[i])}

GroupInv == state = "matching" => good = GoodSlots(matches, mg.match_count)

LEMMA StepGroup ==
  ASSUME TypeInv, GroupInv, [HNext]_hvars
  PROVE  /\ GroupInv'
         /\ (state = "matching" /\ state' = "keepopen" /\ mg'.direction # "out")
              => Cardinality(good') >= args.matcher.ok_matches_needed
<1>1. CASE \E f \in Frames \cap Frame(args.matcher) : HMatching(f)
  <2>1. PICK f \in Frames \cap Frame(args.matcher) : HMatching(f)
    BY <1>1
  <2> DEFINE n == mg.match_count + 1
             r == Match(args.matcher, f)
  <2>2. /\ n \in Slot /\ state = "matching"
        /\ matches' = [matches EXCEPT ![n] = r]
        /\ matches' \in [Slot -> MatchResult]
        /\ \/ state' = "matching" /\ mg'.match_count = n
           \/ /\ state' # "matching" /\ n = MATCH_MAX_COUNT
              /\ DecideLockStatus(matches')
    BY <2>1, MatchingSteps DEF HMatching
  <2>3. good' = IF Success(r) THEN good \cup {n} ELSE good \ {n}
    BY <2>1 DEF HMatching
  <2>4. good' = GoodSlots(matches', n)
    <3>1. good = GoodSlots(matches, mg.match_count)
      BY <2>2 DEF GroupInv
    <3>2. /\ matches \in [Slot -> MatchResult] /\ mg.match_count \in Nat
          /\ \A i \in Slot : i \in Nat
      BY DEF TypeInv, TypeOK, MatchGroup, Slot, MATCH_MAX_COUNT
    <3>3. /\ matches'[n] = r
          /\ \A i \in Slot : i # n => matches'[i] = matches[i]
      BY <2>2, <3>2
    <3>4. \A i \in Slot : i <= n <=> (i <= mg.match_count \/ i = n)
      BY <3>2
    <3>5. n \notin good
      BY <3>1, <3>2 DEF GoodSlots
    <3> HIDE DEF r, n
    <3> QED
      BY <2>2, <2>3, <3>1, <3>3, <3>4, <3>5 DEF GoodSlots
  <2>5. GroupInv'
    BY <2>2, <2>4 DEF GroupInv
  <2>6. ASSUME state' = "keepopen", mg'.direction # "out"
        PROVE  Cardinality(good') >= args.matcher.ok_matches_needed
    <3> DEFINE d == GroupDecision(args.matcher, matches')
    <3>1. DecideLockStatus(matches') /\ n = 4
      BY <2>2, <2>6 DEF MATCH_MAX_COUNT
    <3>2. mg'.direction = d.direction
      BY <3>1 DEF DecideLockStatus
    <3>3. d.success
      BY <2>6, <3>1 DEF DecideLockStatus, Lockout, GiveUp, StateTransitionLockout, SetState
    <3>4. EnoughMatches(args.matcher, matches')
      BY <2>6, <3>2, <3>3 DEF GroupDecision
    <3>5. GoodSlots(matches', 4) = {i \in Slot : Success(matches'[i])}
      BY DEF GoodSlots, Slot, MATCH_MAX_COUNT
    <3> QED
      BY <2>4, <3>1, <3>4, <3>5 DEF EnoughMatches, SuccessCount
  <2> QED
    BY <2>5, <2>6
<1>2. CASE HTick \/ (\E obstructed \in BOOLEAN : HLockout(obstructed))
             \/ (\E reader \in args.rfid_readers, allowed \in BOOLEAN :
                   HRfidRead(reader, allowed))
             \/ UNCHANGED hvars
  <2>1. UNCHANGED <<mg, matches, good>>
        /\ (state' = state \/ (state = "lockout" /\ state' = "waiting"))
    BY <1>2 DEF HTick, HLockout, HRfidRead, DroppedTag, Tick, StateLockout, RfidRead, InState,
                EndLockout, SetState, hvars, historyVars, vars, doorVars, groupVars
  <2> QED
    BY <2>1 DEF GroupInv
<1>3. CASE \E obstructed \in BOOLEAN : HKeepopen(obstructed)
  <2>1. state = "keepopen" /\ state' \in {"keepopen", "waiting", "lockout"}
    BY <1>3 DEF HKeepopen, StateKeepopen, InState, RfidCheck, StateTransitionLockout, SetState,
                doorVars
  <2> QED
    BY <2>1 DEF GroupInv
<1>4. CASE HOther
  <2>1. matches' = matches
    BY <1>4 DEF HOther, SetupGpio, FsmStart, StateWaiting, MatchingAssertFails,
                SigHandler, GrabberDestroy, groupVars
  <2>2. CASE \E obstructed, roiFound \in BOOLEAN : StateWaiting(obstructed, roiFound)
    <3>1. /\ state = "waiting" /\ state' \in {"waiting", "matching"}
          /\ state' = "matching" => mg' = [mg EXCEPT !.match_count = 0, !.final_decision = FALSE]
      BY <2>2 DEF StateWaiting, InState, SetState, MatchGroupStart
    <3>2. state' = "matching" => good' = {} /\ mg'.match_count = 0
      BY <1>4, <3>1 DEF HOther, TypeInv, TypeOK, MatchGroup
    <3>3. GoodSlots(matches', 0) = {}
      BY DEF GoodSlots, Slot
    <3> QED
      BY <3>1, <3>2, <3>3 DEF GroupInv
  <2>3. CASE MatchingAssertFails
    <3>1. /\ state = "matching" /\ mg.match_count = MATCH_MAX_COUNT
          /\ mg'.match_count = MATCH_MAX_COUNT + 1 /\ state' = state
      BY <2>3 DEF MatchingAssertFails, InState, doorVars, TypeInv, TypeOK, MatchGroup
    <3>2. good' = good
      BY <1>4, <3>1 DEF HOther
    <3>3. GoodSlots(matches, MATCH_MAX_COUNT + 1) = GoodSlots(matches, MATCH_MAX_COUNT)
      BY DEF GoodSlots, Slot, MATCH_MAX_COUNT
    <3> QED
      BY <2>1, <3>1, <3>2, <3>3 DEF GroupInv
  <2>4. CASE SetupGpio \/ FsmStart \/ GrabberDestroy
              \/ (\E signo \in Signals : SigHandler(signo))
    <3>1. mg' = mg /\ (state' = state \/ state' \in {"waiting", "lockout"})
      BY <2>4 DEF SetupGpio, FsmStart, SigHandler, Sigint, Sigusr1, Sigusr2, GrabberDestroy,
                  StateTransitionLockout, SetState, groupVars, doorVars
    <3>2. state' = "matching" => good' = good /\ state = "matching"
      BY <1>4, <3>1 DEF HOther
    <3>3. state = "matching" => state' # "keepopen"
      BY <3>1
    <3> QED
      BY <2>1, <3>1, <3>2, <3>3 DEF GroupInv
  <2> QED
    BY <1>4, <2>2, <2>3, <2>4 DEF HOther
<1> QED
  BY <1>1, <1>2, <1>3, <1>4 DEF HNext

(***************************************************************************)
(* Whatever signals cut groups short, a cat that is not going out passes   *)
(* only on enough images of its own group (catcierge_do_match,             *)
(* catcierge_decide_lock_status).                                          *)
(***************************************************************************)
THEOREM PassesOnThisGroup == HSpec => PassUsesThisGroup
<1>1. HInit => GroupInv
  BY DEF HInit, Init, GroupInv
<1>2. TypeInv /\ GroupInv /\ [HNext]_hvars => GroupInv'
  BY StepGroup
<1>3. TypeInv /\ GroupInv /\ [HNext]_hvars =>
        ((state = "matching" /\ state' = "keepopen" /\ mg'.direction # "out")
           => Cardinality(good') >= args.matcher.ok_matches_needed)
  BY StepGroup
<1> QED
  BY HistoryTypes, <1>1, <1>2, <1>3, PTL DEF HSpec, PassUsesThisGroup

-----------------------------------------------------------------------------
\* Half a second at most is rounded away, and a timer that has just started has
\* not come to a time.
LEMMA Rounding ==
  ASSUME NEW t \in Nat
  PROVE  RoundToSecond(t) <= t + Res \div 2 /\ RoundToSecond(0) = 0
<1>1. Res \in Nat /\ Res >= 2
  BY FsmAssumption
<1>2. \A x \in Nat : \A r \in Nat \ {0} : (x \div r) * r <= x
  <2> SUFFICES ASSUME NEW x \in Nat, NEW r \in Nat \ {0} PROVE (x \div r) * r <= x
    OBVIOUS
  <2> QED
    OBVIOUS
<1>3. Res \div 2 \in Nat /\ Res \div 2 < Res
  BY <1>1
<1>4. \A x \in Nat : \A r \in Nat : x < r => x \div r = 0
  OBVIOUS
<1> QED
  BY <1>1, <1>2, <1>3, <1>4 DEF RoundToSecond

\* In a lockout the remembered time is that of the timer; the timer of methods 1 and 3
\* runs from the start.
AgeInv ==
  /\ phase \in {"init", "ready"} => state = "initial"
  /\ state = "lockout" =>
       /\ lockAge = lockoutTimer
       /\ args.lockout_method # 2 => lockoutTimer # TimerInactive

LEMMA StepAge ==
  ASSUME NoUserSignals, TypeInv, AgeInv, [HNext]_hvars
  PROVE  /\ AgeInv'
         /\ (state = "lockout" /\ state' # "lockout" /\ args.lockout_method # 3)
              => lockAge + Res \div 2 >= args.lockout_time
<1>0. /\ args.lockout_time \in Nat /\ Res \in Nat /\ Res >= 2 /\ Res \div 2 \in Nat
      /\ Res \div 2 >= 1
      /\ lockoutTimer \in Int /\ lockoutTimer >= -1
  BY ArgsType, FsmAssumption DEF TypeInv, TypeOK, FsmArgs, TimerValue, TimerInactive
<1>1. CASE HTick
  <2>1. /\ lockoutTimer' = Elapse(lockoutTimer) /\ lockAge' = Elapse(lockAge)
        /\ UNCHANGED <<phase, state, args>>
    BY <1>1 DEF HTick, Tick
  <2>2. lockoutTimer # TimerInactive => Elapse(lockoutTimer) # TimerInactive
    BY <1>0 DEF Elapse, TimerInactive
  <2> QED
    BY <2>1, <2>2 DEF AgeInv
<1>2. CASE \E obstructed \in BOOLEAN : HLockout(obstructed)
  <2>1. PICK obstructed \in BOOLEAN : HLockout(obstructed)
    BY <1>2
  <2> DEFINE lockout == IF args.lockout_method = 2 THEN StartWhenClear(lockoutTimer)
                        ELSE lockoutTimer
  <2>2. /\ state = "lockout" /\ phase = "loop" /\ UNCHANGED <<phase, args>>
        /\ (args.lockout_method = 2 /\ lockoutTimer = TimerInactive) => ~ obstructed
        /\ lockoutTimer' = lockout
        /\ \/ state' = "waiting"
              /\ (args.lockout_method # 3 => TimerHasTimedOut(lockout, args.lockout_time))
           \/ state' = "lockout"
        /\ lockAge = lockoutTimer
        /\ args.lockout_method # 2 => lockoutTimer # TimerInactive
    BY <2>1 DEF HLockout, StateLockout, InState, EndLockout, SetState, AgeInv
  <2>3. lockAge' = IF state' # "lockout" THEN TimerInactive
                   ELSE IF lockAge = TimerInactive /\ ~obstructed THEN 0
                   ELSE lockAge
    BY <2>1 DEF HLockout
  <2>4. AgeInv'
    <3>1. state' = "lockout" => lockAge' = lockoutTimer'
      BY <2>2, <2>3 DEF StartWhenClear, TimerStarted
    <3>2. args.lockout_method # 2 => lockoutTimer' # TimerInactive
      BY <2>2
    <3> QED
      BY <2>2, <3>1, <3>2 DEF AgeInv
  <2>5. ASSUME state' # "lockout", args.lockout_method # 3
        PROVE  lockAge + Res \div 2 >= args.lockout_time
    <3>1. RoundToSecond(TimerGet(lockout)) >= args.lockout_time
      BY <2>2, <2>5 DEF TimerHasTimedOut
    <3>2. CASE lockoutTimer = TimerInactive
      <4>1. TimerGet(lockout) = 0
        BY <2>2, <3>2 DEF TimerGet, StartWhenClear, TimerStarted
      <4>2. RoundToSecond(0) = 0
        <5>1. 0 \in Nat
          OBVIOUS
        <5> QED BY <5>1, Rounding
      <4> QED
        BY <1>0, <2>2, <3>1, <3>2, <4>1, <4>2 DEF TimerInactive
    <3>3. CASE lockoutTimer # TimerInactive
      <4>1. TimerGet(lockout) = lockoutTimer /\ lockoutTimer \in Nat
        BY <1>0, <3>3 DEF TimerGet, StartWhenClear, TimerInactive
      <4>2. RoundToSecond(lockoutTimer) <= lockoutTimer + Res \div 2
        BY <4>1, Rounding
      <4>3. RoundToSecond(lockoutTimer) \in Int
        BY <1>0, <4>1 DEF RoundToSecond
      <4> QED
        BY <1>0, <2>2, <3>1, <4>1, <4>2, <4>3
    <3> QED
      BY <3>2, <3>3
  <2> QED
    BY <2>4, <2>5
<1>3. CASE \E f \in Frames \cap Frame(args.matcher) : HMatching(f)
  <2>1. PICK f \in Frames \cap Frame(args.matcher) : HMatching(f)
    BY <1>3
  <2>2. /\ state = "matching" /\ phase = "loop" /\ UNCHANGED <<phase, args>>
        /\ lockAge' = IF state' # "lockout" THEN TimerInactive
                      ELSE IF args.lockout_method = 2 THEN TimerInactive ELSE 0
        /\ UNCHANGED doorVars \/ DecideLockStatus(matches')
    BY <2>1 DEF HMatching, FollowState, StateMatching, InState
  <2>3. state' = "lockout" => StateTransitionLockout
    BY <2>2 DEF DecideLockStatus, KeepOpen, Lockout, GiveUp, SetState, doorVars
  <2> QED
    BY <2>2, <2>3 DEF AgeInv, StateTransitionLockout, RestartLockoutTimer, TimerInactive,
                      TimerStarted
<1>4. CASE (\E reader \in args.rfid_readers, allowed \in BOOLEAN : HRfidRead(reader, allowed))
             \/ UNCHANGED hvars
  BY <1>4 DEF HRfidRead, RfidRead, DroppedTag, hvars, historyVars, vars, doorVars, AgeInv
<1>5. CASE \E obstructed \in BOOLEAN : HKeepopen(obstructed)
  <2>1. PICK obstructed \in BOOLEAN : HKeepopen(obstructed)
    BY <1>5
  <2>2. state = "keepopen" /\ phase = "loop" /\ UNCHANGED <<phase, args>>
    BY <2>1 DEF HKeepopen, StateKeepopen, InState
  <2>3. state' = "lockout" => StateTransitionLockout
    BY <2>1, <2>2 DEF HKeepopen, StateKeepopen, RfidCheck, SetState, doorVars
  <2> QED
    BY <2>1, <2>2, <2>3 DEF HKeepopen, FollowState, AgeInv, StateTransitionLockout,
                            RestartLockoutTimer, TimerInactive, TimerStarted
<1>6. CASE HOther
  <2>1. /\ args' = args
        /\ lockAge' = IF state' # "lockout" THEN TimerInactive
                      ELSE IF state = "lockout" THEN lockAge
                      ELSE IF args.lockout_method = 2 THEN TimerInactive ELSE 0
    BY <1>6 DEF HOther, FollowState, SetupGpio, FsmStart, StateWaiting, MatchingAssertFails,
                SigHandler, GrabberDestroy
  <2>2. CASE \E signo \in Signals : SigHandler(signo)
    <3>1. Sigint /\ phase # "init" /\ (phase' = phase \/ phase' = "exited")
      BY <2>2, OnlySigint DEF SigHandler, Sigint
    <3> QED
      BY <2>1, <3>1 DEF AgeInv, Sigint
  <2>3. CASE SetupGpio \/ FsmStart \/ GrabberDestroy \/ MatchingAssertFails
             \/ \E obstructed, roiFound \in BOOLEAN : StateWaiting(obstructed, roiFound)
    BY <2>1, <2>3 DEF SetupGpio, FsmStart, GrabberDestroy, MatchingAssertFails, StateWaiting,
                      InState, SetState, AgeInv, doorVars
  <2> QED
    BY <1>6, <2>2, <2>3 DEF HOther
<1> QED
  BY <1>1, <1>2, <1>3, <1>4, <1>5, <1>6 DEF HNext

(***************************************************************************)
(* Without SIGUSR1 and SIGUSR2 a lockout by timer lasts its time but for   *)
(* the half second that is rounded away, for every lockout time and clock  *)
(* (catcierge_state_lockout, catcierge_timer_has_timed_out).               *)
(***************************************************************************)
THEOREM LockoutsLast == NoUserSignals /\ HSpec => LockoutLasts
<1> SUFFICES ASSUME NoUserSignals PROVE HSpec => LockoutLasts
  OBVIOUS
<1>1. HInit => AgeInv
  BY DEF HInit, Init, AgeInv
<1>2. TypeInv /\ AgeInv /\ [HNext]_hvars => AgeInv'
  BY StepAge
<1>3. TypeInv /\ AgeInv /\ [HNext]_hvars =>
        ((state = "lockout" /\ state' # "lockout" /\ args.lockout_method # 3)
           => lockAge + Res \div 2 >= args.lockout_time)
  BY StepAge
<1> QED
  BY HistoryTypes, <1>1, <1>2, <1>3, PTL DEF HSpec, LockoutLasts

-----------------------------------------------------------------------------
\* In a passage the remembered time is that of the timer, which no earlier passage has
\* left running.
PassInv ==
  /\ phase \in {"init", "ready"} => state # "keepopen"
  /\ passAge = IF state = "keepopen" THEN rematchTimer ELSE TimerInactive

LEMMA StepPass ==
  ASSUME TypeInv, PassInv, [HNext]_hvars
  PROVE  /\ PassInv'
         /\ (/\ state = "keepopen" /\ state' # "keepopen"
             /\ ~\E signo \in Signals : SigHandler(signo))
              => IF state' = "lockout" THEN TimerGet(passAge) >= args.rfid_lock_time
                 ELSE passAge + Res \div 2 >= args.match_time
<1>0. /\ args.match_time \in Nat /\ args.rfid_lock_time \in Nat
      /\ Res \in Nat /\ Res >= 2 /\ Res \div 2 \in Nat /\ Res \div 2 >= 1
      /\ rematchTimer \in Int /\ rematchTimer >= -1
  BY ArgsType, FsmAssumption DEF TypeInv, TypeOK, FsmArgs, TimerValue, TimerInactive
<1>1. CASE HTick
  <2>1. /\ rematchTimer' = Elapse(rematchTimer) /\ passAge' = Elapse(passAge)
        /\ UNCHANGED <<phase, state>>
    BY <1>1 DEF HTick, Tick
  <2>2. Elapse(TimerInactive) = TimerInactive
    <3>1. TimerInactive \notin 0..(MaxTick - 1)
      BY DEF TimerInactive
    <3> QED
      BY <3>1 DEF Elapse
  <2> QED
    BY <2>1, <2>2 DEF PassInv
<1>2. CASE \E obstructed \in BOOLEAN : HLockout(obstructed)
  <2>1. /\ state = "lockout" /\ state' \in {"lockout", "waiting"}
        /\ UNCHANGED <<phase, passAge>>
    BY <1>2 DEF HLockout, StateLockout, InState, EndLockout, SetState
  <2> QED
    BY <2>1 DEF PassInv
<1>3. CASE \E f \in Frames \cap Frame(args.matcher) : HMatching(f)
  <2>1. PICK f \in Frames \cap Frame(args.matcher) : HMatching(f)
    BY <1>3
  <2>2. /\ state = "matching" /\ phase = "loop" /\ UNCHANGED <<phase, passAge>>
        /\ UNCHANGED doorVars \/ DecideLockStatus(matches')
    BY <2>1 DEF HMatching, StateMatching, InState
  <2>3. state' = "keepopen" => KeepOpen
    BY <2>2 DEF DecideLockStatus, Lockout, GiveUp, StateTransitionLockout, SetState, doorVars
  <2> QED
    BY <2>2, <2>3 DEF PassInv, KeepOpen
<1>4. CASE (\E reader \in args.rfid_readers, allowed \in BOOLEAN : HRfidRead(reader, allowed))
             \/ UNCHANGED hvars
  <2>1. UNCHANGED <<phase, state, rematchTimer, passAge>>
    BY <1>4 DEF HRfidRead, RfidRead, DroppedTag, hvars, historyVars, vars, doorVars
  <2> QED
    BY <2>1 DEF PassInv
<1>5. CASE \E obstructed \in BOOLEAN : HKeepopen(obstructed)
  <2>1. PICK obstructed \in BOOLEAN : HKeepopen(obstructed)
    BY <1>5
  <2> DEFINE rematch == StartWhenClear(rematchTimer)
  <2>2. /\ state = "keepopen" /\ phase = "loop" /\ phase' = phase
        /\ rematchTimer = TimerInactive => ~ obstructed
        /\ rematchTimer' = rematch
        /\ passAge = rematchTimer
        /\ \/ state' = "waiting" /\ TimerHasTimedOut(rematch, args.match_time)
           \/ state' = "lockout" /\ TimerGet(rematch) >= args.rfid_lock_time
           \/ state' = "keepopen"
    BY <2>1 DEF HKeepopen, StateKeepopen, InState, SetState, RfidCheckDue, RfidCheck,
                StateTransitionLockout, doorVars, PassInv
  <2>3. passAge' = IF state' # "keepopen" THEN TimerInactive
                   ELSE IF passAge = TimerInactive /\ ~obstructed THEN 0
                   ELSE passAge
    BY <2>1 DEF HKeepopen
  <2>4. PassInv'
    BY <2>2, <2>3 DEF PassInv, StartWhenClear, TimerStarted
  <2>5. ASSUME state' = "lockout" PROVE TimerGet(passAge) >= args.rfid_lock_time
    <3>1. TimerGet(rematch) = TimerGet(passAge)
      BY <1>0, <2>2 DEF TimerGet, StartWhenClear, TimerStarted, TimerInactive
    <3> QED
      BY <2>2, <2>5, <3>1
  <2>6. ASSUME state' = "waiting" PROVE passAge + Res \div 2 >= args.match_time
    <3>1. RoundToSecond(TimerGet(rematch)) >= args.match_time
      BY <2>2, <2>6 DEF TimerHasTimedOut
    <3>2. CASE rematchTimer = TimerInactive
      <4>1. TimerGet(rematch) = 0
        BY <3>2 DEF TimerGet, StartWhenClear, TimerStarted
      <4>2. RoundToSecond(0) = 0
        <5>1. 0 \in Nat
          OBVIOUS
        <5> QED BY <5>1, Rounding
      <4> QED
        BY <1>0, <2>2, <3>1, <3>2, <4>1, <4>2 DEF TimerInactive
    <3>3. CASE rematchTimer # TimerInactive
      <4>1. TimerGet(rematch) = rematchTimer /\ rematchTimer \in Nat
        BY <1>0, <3>3 DEF TimerGet, StartWhenClear, TimerInactive
      <4>2. RoundToSecond(rematchTimer) <= rematchTimer + Res \div 2
        BY <4>1, Rounding
      <4>3. RoundToSecond(rematchTimer) \in Int
        BY <1>0, <4>1 DEF RoundToSecond
      <4> QED
        BY <1>0, <2>2, <3>1, <4>1, <4>2, <4>3
    <3> QED
      BY <3>2, <3>3
  <2> QED
    BY <2>2, <2>4, <2>5, <2>6
<1>6. CASE HOther
  <2>1. passAge' = IF state' = "keepopen" THEN passAge ELSE TimerInactive
    BY <1>6 DEF HOther
  <2>2. CASE \E signo \in Signals : SigHandler(signo)
    <3>1. /\ rematchTimer' = rematchTimer /\ phase # "init"
          /\ phase' = phase \/ phase' = "exited"
          /\ state' = state \/ state' \in {"waiting", "lockout"}
      BY <2>2 DEF SigHandler, Sigint, Sigusr1, Sigusr2, StateTransitionLockout, SetState
    <3> QED
      BY <2>1, <2>2, <3>1 DEF PassInv
  <2>3. CASE SetupGpio \/ FsmStart \/ GrabberDestroy \/ MatchingAssertFails
             \/ \E obstructed, roiFound \in BOOLEAN : StateWaiting(obstructed, roiFound)
    <3>1. /\ rematchTimer' = rematchTimer
          /\ state' = state \/ (state # "keepopen" /\ state' \in {"waiting", "matching"})
          /\ phase' \in {"init", "ready"} => phase \in {"init", "ready"}
      BY <2>3 DEF SetupGpio, FsmStart, GrabberDestroy, MatchingAssertFails, StateWaiting,
                  InState, SetState, doorVars, PassInv
    <3> QED
      BY <2>1, <3>1 DEF PassInv
  <2> QED
    BY <1>6, <2>2, <2>3 DEF HOther
<1> QED
  BY <1>1, <1>2, <1>3, <1>4, <1>5, <1>6 DEF HNext

(***************************************************************************)
(* Whatever signals come, the main loop ends a passage only after the      *)
(* match time of this passage, less the half second that is rounded away,  *)
(* or by the RFID check after its own time (catcierge_decide_lock_status,  *)
(* catcierge_state_keepopen).                                              *)
(***************************************************************************)
THEOREM PassagesLast == HSpec => PassageLasts
<1>1. HInit => PassInv
  BY DEF HInit, Init, PassInv
<1>2. TypeInv /\ PassInv /\ [HNext]_hvars => PassInv'
  BY StepPass
<1>3. TypeInv /\ PassInv /\ [HNext]_hvars =>
        ((/\ state = "keepopen" /\ state' # "keepopen"
          /\ ~\E signo \in Signals : SigHandler(signo))
           => IF state' = "lockout" THEN TimerGet(passAge) >= args.rfid_lock_time
              ELSE passAge + Res \div 2 >= args.match_time)
  BY StepPass
<1> QED
  BY HistoryTypes, <1>1, <1>2, <1>3, PTL DEF HSpec, PassageLasts
=============================================================================
