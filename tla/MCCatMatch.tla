----------------------------- MODULE MCCatMatch -----------------------------
(***************************************************************************)
(* Model for TLC: every group of four frames, and the groups one change    *)
(* away from it.  MCCatHelpers has it checked.                             *)
(***************************************************************************)
EXTENDS CatMatch

CONSTANT Configs  \* the settings tried

ASSUME ConfigsAssumption == Configs \subseteq MatcherArgs

VARIABLES
  args,     \* the settings, which never change
  frames    \* the four frames of the group

matchVars == <<args, frames>>

\* The frames a matcher can tell apart.
DistinctFrames(a) ==
  IF a.matcher_type = "haar"
  THEN {f \in HaarFrame : /\ ~f.detect => ~f.head
                          /\ ~f.head => (f.bright = "even" /\ ~f.prey)}
  ELSE {f \in TemplateFrame : /\ ~f.usable => f.normal = "poor"
                              /\ (f.normal = "good" \/ ~f.usable) => f.flipped = "poor"}

MatchInit == args \in Configs /\ frames \in [Slot -> DistinctFrames(args)]

\* The same group with one frame replaced.
Retake(i, f) ==
  /\ frames' = [frames EXCEPT ![i] = f]
  /\ UNCHANGED args

\* The same frames in another order.
Swap(i, j) ==
  /\ frames' = [frames EXCEPT ![i] = frames[j], ![j] = frames[i]]
  /\ UNCHANGED args

MatchNext ==
  \/ \E i \in Slot, f \in DistinctFrames(args) : Retake(i, f)
  \/ \E i, j \in Slot : Swap(i, j)

MatchSpec == MatchInit /\ [][MatchNext]_matchVars

-----------------------------------------------------------------------------
Haar == [matcher_type |-> "haar", ok_matches_needed |-> 2, no_final_decision |-> FALSE,
         no_match_is_fail |-> FALSE, in_direction |-> "right", prey_method |-> "adaptive",
         match_flipped |-> TRUE]

Template == [Haar EXCEPT !.matcher_type = "template"]

AllConfigs ==
  {Haar,
   [Haar EXCEPT !.no_match_is_fail = TRUE, !.in_direction = "left"],
   [Haar EXCEPT !.ok_matches_needed = 3, !.no_final_decision = TRUE, !.prey_method = "normal"],
   Template,
   [Template EXCEPT !.ok_matches_needed = 3]}

IsHaar == args.matcher_type = "haar"

Group(fs) == [i \in Slot |-> Match(args, fs[i])]

Decision(fs) == GroupDecision(args, Group(fs))

-----------------------------------------------------------------------------
GoesOut(f) == f.head /\ HaarGuessDirection(args, f.bright) = "out"
ShowsPrey(f) == f.head /\ ~GoesOut(f) /\ f.prey
ShowsNoPrey(f) == f.head /\ ~GoesOut(f) /\ ~f.prey

(***************************************************************************)
(* A cat that carries prey is locked out: when no image shows a head going *)
(* out and too few images are left without prey, the group fails, whatever *)
(* the direction guesses and the veto make of it (haar matcher).           *)
(***************************************************************************)
PreyLocksOut ==
  LET prey == {i \in Slot : ShowsPrey(frames[i])}
  IN  (/\ IsHaar
       /\ \A i \in Slot : ~GoesOut(frames[i])
       /\ Cardinality(prey) > MATCH_MAX_COUNT - args.ok_matches_needed)
        => ~Decision(frames).success

(***************************************************************************)
(* A cat without prey is let in: when every frame could be searched, at    *)
(* least one shows a head that is coming in without prey and none shows    *)
(* prey, the group succeeds (haar matcher, no_match_is_fail off).          *)
(***************************************************************************)
CleanCatPasses ==
  (/\ IsHaar /\ ~args.no_match_is_fail
   /\ \A i \in Slot : frames[i].detect /\ ~ShowsPrey(frames[i])
   /\ \E i \in Slot : ShowsNoPrey(frames[i]))
     => Decision(frames).success

(***************************************************************************)
(* No group passes without one image that counts as a success: the         *)
(* "going out" exception in catcierge_decide_lock_status needs such an     *)
(* image too, although it does not look at the success count.              *)
(***************************************************************************)
PassNeedsAnImage ==
  (args.ok_matches_needed > 0 /\ Decision(frames).success)
    => \E i \in Slot : Success(Match(args, frames[i]))

-----------------------------------------------------------------------------
(***************************************************************************)
(* Prey never helps: seeing prey where there was none cannot turn a        *)
(* lockout into a pass (haar matcher).                                     *)
(***************************************************************************)
PreyNeverHelps ==
  [][(\E i \in Slot : /\ IsHaar /\ frames[i].head /\ ~frames[i].prey
                      /\ frames' = [frames EXCEPT ![i].prey = TRUE])
       => (Decision(frames').success => Decision(frames).success)]_matchVars

(***************************************************************************)
(* The haar decision does not depend on the order of the images.           *)
(***************************************************************************)
OrderDoesNotMatter ==
  [][(IsHaar /\ \E i, j \in Slot : Swap(i, j)) => Decision(frames') = Decision(frames)]_matchVars

(***************************************************************************)
(* With the template matcher the order can only matter through the         *)
(* direction: two orders of the same images are judged alike unless        *)
(* successful images disagree about the direction.                         *)
(***************************************************************************)
OrderMattersOnlyWhenTorn ==
  [][(\E i, j \in Slot : Swap(i, j)) =>
       \/ Decision(frames') = Decision(frames)
       \/ \E i, j \in Slot : /\ Success(Match(args, frames[i])) /\ Success(Match(args, frames[j]))
                             /\ Match(args, frames[i]).direction # Match(args, frames[j]).direction]_matchVars
=============================================================================
