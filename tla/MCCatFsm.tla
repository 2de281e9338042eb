------------------------------ MODULE MCCatFsm ------------------------------
(***************************************************************************)
(* Model for TLC: settings and frames for CatFsm.                          *)
(***************************************************************************)
EXTENDS CatFsm

HaarMatcher ==
  [matcher_type |-> "haar", ok_matches_needed |-> 2, no_final_decision |-> FALSE,
   no_match_is_fail |-> FALSE, in_direction |-> "right", prey_method |-> "adaptive",
   match_flipped |-> TRUE]

\* Times in half seconds.
Method1 ==
  [matcher |-> HaarMatcher, lockout_method |-> 1, lockout_time |-> 2, lockout_dummy |-> FALSE,
   match_time |-> 2, startup_delay |-> 1, max_consecutive_lockout_count |-> 2,
   consecutive_lockout_delay |-> 1, auto_roi |-> FALSE, saveimg |-> TRUE,
   lock_on_invalid_rfid |-> FALSE, rfid_lock_time |-> 0, rfid_readers |-> {}]

Method2 == [Method1 EXCEPT !.lockout_method = 2, !.auto_roi = TRUE, !.startup_delay = 0]
Method3 == [Method1 EXCEPT !.lockout_method = 3, !.saveimg = FALSE]
Dummy == [Method1 EXCEPT !.lockout_dummy = TRUE, !.max_consecutive_lockout_count = 0]
Rfid == [Method1 EXCEPT !.lock_on_invalid_rfid = TRUE, !.rfid_readers = Reader,
                        !.rfid_lock_time = 1, !.match_time = 4,
                        !.max_consecutive_lockout_count = 0]

Template == [Method3 EXCEPT !.matcher.matcher_type = "template"]

SafetyConfigs == {Method1, Method2, Method3, Dummy, Rfid, Template}

CleanCat == [detect |-> TRUE, head |-> TRUE, bright |-> "left", prey |-> FALSE]
PreyCat == [CleanCat EXCEPT !.prey = TRUE]
LeavingCat == [CleanCat EXCEPT !.bright = "right"]
NoCat == [CleanCat EXCEPT !.head = FALSE]
BadFrame == [CleanCat EXCEPT !.detect = FALSE, !.head = FALSE]

GoodSnout == [usable |-> TRUE, normal |-> "good", flipped |-> "poor"]
PoorSnout == [GoodSnout EXCEPT !.normal = "poor"]

SafetyFrames == {CleanCat, PreyCat, BadFrame, GoodSnout, PoorSnout}

\* For liveness, two frames are enough for groups that pass, fail and abort.
Live == [Method1 EXCEPT !.consecutive_lockout_delay = 0, !.saveimg = FALSE]

LiveConfigs == {Live, [Live EXCEPT !.lockout_method = 2],
                [Live EXCEPT !.lockout_method = 3, !.lock_on_invalid_rfid = TRUE,
                             !.rfid_readers = {"inner"}, !.max_consecutive_lockout_count = 0]}

LiveFrames == {CleanCat, BadFrame}

\* For the statements of the documentation the code does not keep.
RfidConfigs == {[Rfid EXCEPT !.saveimg = FALSE]}
DefaultConfigs == {Method1}
=============================================================================
