--------------------------- MODULE CatFsmHistory ---------------------------
(***************************************************************************)
(* CatFsm with history variables that remember what the program forgets,   *)
(* so that its promises over several steps can be stated.                  *)
(***************************************************************************)
EXTENDS CatFsm

VARIABLES
  lockAge,      \* time since this lockout's clock had to start, or TimerInactive
  failStreak,   \* failed match groups since the last successful one
  good,         \* slots filled by this match group with a success
  passAge,      \* time since the first clear frame of this passage, or TimerInactive
  tagRead       \* a reader has reported a tag since the last cat left

historyVars == <<lockAge, failStreak, good, passAge, tagRead>>
hvars == <<vars, historyVars>>

HInit ==
  /\ Init
  /\ lockAge = TimerInactive
  /\ failStreak = 0
  /\ good = {}
  /\ passAge = TimerInactive
  /\ tagRead = FALSE

Saturate(n, bound) == IF n < bound THEN n + 1 ELSE n

\* A lockout begins, goes on or ends; the tags seen belong to one visit.
FollowState ==
  /\ lockAge' = IF state' # "lockout" THEN TimerInactive
                ELSE IF state = "lockout" THEN lockAge
                ELSE IF args.lockout_method = 2 THEN TimerInactive ELSE 0
  /\ tagRead' = (tagRead /\ ~(state # "waiting" /\ state' = "waiting"))

HTick ==
  /\ Tick
  /\ lockAge' = Elapse(lockAge)
  /\ passAge' = Elapse(passAge)
  /\ UNCHANGED <<failStreak, good, tagRead>>

\* With method 2 the clock starts at the first clear frame.
HLockout(obstructed) ==
  /\ StateLockout(obstructed)
  /\ lockAge' = IF state' # "lockout" THEN TimerInactive
                ELSE IF lockAge = TimerInactive /\ ~obstructed THEN 0
                ELSE lockAge
  /\ tagRead' = (tagRead /\ state' # "waiting")
  /\ UNCHANGED <<failStreak, good, passAge>>

\* The clock of a passage starts at its first clear frame.
HKeepopen(obstructed) ==
  /\ StateKeepopen(obstructed)
  /\ FollowState
  /\ passAge' = IF state' # "keepopen" THEN TimerInactive
                ELSE IF passAge = TimerInactive /\ ~obstructed THEN 0
                ELSE passAge
  /\ UNCHANGED <<failStreak, good>>

HMatching(f) ==
  LET slot == {mg.match_count + 1}
  IN
  /\ StateMatching(f)
  /\ FollowState
  /\ good' = IF Success(Match(args.matcher, f)) THEN good \cup slot ELSE good \ slot
  /\ failStreak' = IF state' = "matching" THEN failStreak
                   ELSE IF mg'.success THEN 0
                   ELSE Saturate(failStreak, args.max_consecutive_lockout_count + 1)
  /\ UNCHANGED passAge

\* A tag after the first of its reader is dropped ("Already triggered!"): only the
\* history knows of it.
DroppedTag(reader) ==
  /\ phase = "loop" /\ running
  /\ ~FirstTag(reader)
  /\ UNCHANGED vars

HRfidRead(reader, allowed) ==
  /\ RfidRead(reader, allowed) \/ DroppedTag(reader)
  /\ tagRead' = TRUE
  /\ UNCHANGED <<lockAge, failStreak, good, passAge>>

HOther ==
  /\ \/ SetupGpio
     \/ FsmStart
     \/ \E obstructed, roiFound \in BOOLEAN : StateWaiting(obstructed, roiFound)
     \/ MatchingAssertFails
     \/ \E signo \in Signals : SigHandler(signo)
     \/ GrabberDestroy
  /\ FollowState
  /\ good' = IF state = "waiting" /\ state' = "matching" THEN {} ELSE good
  /\ passAge' = IF state' = "keepopen" THEN passAge ELSE TimerInactive
  /\ UNCHANGED failStreak

HNext ==
  \/ HTick
  \/ \E obstructed \in BOOLEAN : HLockout(obstructed)
  \/ \E obstructed \in BOOLEAN : HKeepopen(obstructed)
  \/ \E f \in Frames \cap Frame(args.matcher) : HMatching(f)
  \/ \E reader \in args.rfid_readers, allowed \in BOOLEAN : HRfidRead(reader, allowed)
  \/ HOther

HSpec == HInit /\ [][HNext]_hvars

-----------------------------------------------------------------------------
\* The history stays within its bounds.
HistoryTypeOK ==
  /\ lockAge \in TimerValue
  /\ failStreak \in 0..(args.max_consecutive_lockout_count + 1)
  /\ good \subseteq Slot
  /\ passAge \in TimerValue /\ tagRead \in BOOLEAN

(***************************************************************************)
(* A lockout by timer lasts its time: with methods 1 and 2 the main loop   *)
(* ends it only when the time since the lock, with method 2 since the      *)
(* first clear frame after it, is the lockout time up to the half second   *)
(* that catcierge_timer_has_timed_out rounds away.                         *)
(***************************************************************************)
LockoutLasts ==
  [][(state = "lockout" /\ state' # "lockout" /\ args.lockout_method # 3)
       => lockAge + Res \div 2 >= args.lockout_time]_hvars

(***************************************************************************)
(* The program gives up (the loop ends at the end of a match group) only   *)
(* after the configured number of failed groups with no successful group   *)
(* in between.                                                             *)
(***************************************************************************)
GivesUpOnlyOnAStreak ==
  [][(state = "matching" /\ running /\ ~running' /\ state' # "matching")
       => failStreak' >= args.max_consecutive_lockout_count]_hvars

(***************************************************************************)
(* A group that passes, unless the cat is going out, holds enough          *)
(* successful images taken since the group began: neither an image the     *)
(* matcher could not judge nor a result of an earlier cat counts.          *)
(***************************************************************************)
PassUsesThisGroup ==
  [][(state = "matching" /\ state' = "keepopen" /\ mg'.direction # "out")
       => Cardinality(good') >= args.matcher.ok_matches_needed]_hvars

(***************************************************************************)
(* A cat let through by the camera gets its time: the main loop ends its   *)
(* passage only when the match time, less the half second that is rounded  *)
(* away, has passed since the first clear frame of this passage, or locks  *)
(* it out after the RFID lock time; a timer that an earlier passage left   *)
(* running does not count (catcierge_decide_lock_status resets it).        *)
(***************************************************************************)
PassageLasts ==
  [][(/\ state = "keepopen" /\ state' # "keepopen"
      /\ ~\E signo \in Signals : SigHandler(signo))
       => IF state' = "lockout" THEN TimerGet(passAge) >= args.rfid_lock_time
          ELSE passAge + Res \div 2 >= args.match_time]_hvars

(***************************************************************************)
(* The help of --rfid_lock says "Lock if no RFID tag present or invalid    *)
(* RFID tag.": a check made when no tag was read during the visit locks.   *)
(***************************************************************************)
NoTagLocksOut ==
  [][(~checkedRfidLock /\ checkedRfidLock' /\ ~tagRead) => state' = "lockout"]_hvars

(***************************************************************************)
(* The assertion of catcierge_do_match and catcierge_decide_lock_status.   *)
(***************************************************************************)
MatchCountBounded == mg.match_count <= MATCH_MAX_COUNT
=============================================================================
