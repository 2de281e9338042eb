------------------------------ MODULE CatMatch ------------------------------
(***************************************************************************)
(* The image matchers of catcierge and the decision taken over a group of  *)
(* four matches (catcierge_haar_matcher.c, catcierge_template_matcher.c    *)
(* and the decision part of catcierge_fsm.c).                              *)
(*                                                                         *)
(* A frame is described by what the matchers can tell about it: whether a  *)
(* cat head is found, which side of the picture is brighter, whether prey  *)
(* is found, how well the snout templates correlate.  The pixels are not   *)
(* modelled.                                                               *)
(*                                                                         *)
(* An operator whose name ends in _Mutant is a plausible mistake in the    *)
(* operator that follows it; only the mutation runs use it.                *)
(***************************************************************************)
EXTENDS Integers, FiniteSets

\* The settings of the matchers (catcierge_args_t and the matchers' own args).
MatcherArgs ==
  [matcher_type : {"haar", "template"},
   ok_matches_needed : 0..4,              \* validated by catcierge_args.c
   no_final_decision : BOOLEAN,
   no_match_is_fail : BOOLEAN,            \* haar
   in_direction : {"left", "right"},      \* haar
   prey_method : {"adaptive", "normal"},  \* haar
   match_flipped : BOOLEAN]               \* template

MATCH_MAX_COUNT == 4

Slot == 1..MATCH_MAX_COUNT

Direction == {"in", "out", "unknown"}

(***************************************************************************)
(* result->result.  The haar matcher returns one of four codes; the        *)
(* template matcher a correlation, of which only the sign and the          *)
(* comparison with the threshold matter (FAIL: below the threshold).       *)
(***************************************************************************)
ERROR == -1
FAIL == 0
SUCCESS == 1
NO_HEAD == 2
NO_HEAD_IS_FAIL == 3

\* The fields of match_result_t a decision reads; "head" is rect_count > 0.
MatchResult == [result : ERROR..NO_HEAD_IS_FAIL, direction : Direction, head : BOOLEAN]

\* result->success.
Success_Mutant(r) == r.result >= FAIL

Success(r) == r.result > FAIL

-----------------------------------------------------------------------------
(***************************************************************************)
(* The haar matcher.  "bright" is the brighter of the outermost columns of *)
(* the thresholded region, "even" when they differ by no more than 25.     *)
(***************************************************************************)
HaarFrame == [detect : BOOLEAN, head : BOOLEAN,
              bright : {"left", "right", "even"}, prey : BOOLEAN]

\* catcierge_haar_guess_direction; "inverted" with the adaptive prey method.
HaarGuessDirection(args, bright) ==
  IF bright = "even" THEN "unknown"
  ELSE IF (bright = args.in_direction) = (args.prey_method = "normal") THEN "in" ELSE "out"

\* catcierge_haar_matcher_match.  do_match has cleared the result before the
\* call, so the direction of a frame without a head is 0, that is "in".
HaarMatch(args, f) ==
  LET direction == IF f.detect /\ f.head THEN HaarGuessDirection(args, f.bright) ELSE "in"
      ret == CASE ~f.detect -> ERROR
               [] f.detect /\ ~f.head -> IF args.no_match_is_fail THEN FAIL ELSE NO_HEAD
               [] f.detect /\ f.head /\ direction = "out" ->
                    IF args.no_match_is_fail THEN NO_HEAD_IS_FAIL ELSE NO_HEAD
               [] OTHER -> IF f.prey THEN FAIL ELSE SUCCESS
  IN  [result |-> ret, direction |-> direction, head |-> f.detect /\ f.head]

-----------------------------------------------------------------------------
(***************************************************************************)
(* The template matcher: the average correlation with the normal and the   *)
(* flipped snouts.  An average of correlations may be negative, and do_match *)
(* takes every negative return value for an error.                         *)
(***************************************************************************)
Correlation == {"good", "poor", "negative"}

TemplateFrame == [usable : BOOLEAN, normal : Correlation, flipped : Correlation]

\* catcierge_template_matcher_match; a frame of the wrong size is not usable.
TemplateMatch(args, f) ==
  LET tryFlipped == f.normal # "good" /\ args.match_flipped
      average == IF tryFlipped THEN f.flipped ELSE f.normal
      direction == IF ~f.usable \/ f.normal = "good" THEN "in"
                   ELSE IF tryFlipped /\ f.flipped = "good" THEN "out"
                   ELSE "unknown"
      ret == IF ~f.usable \/ average = "negative" THEN ERROR
             ELSE IF average = "good" THEN SUCCESS ELSE FAIL
  IN  [result |-> ret, direction |-> direction, head |-> TRUE]

\* grb->matcher, chosen by catcierge_matcher_init.
Frame(args) == IF args.matcher_type = "haar" THEN HaarFrame ELSE TemplateFrame

Match(args, f) == IF args.matcher_type = "haar" THEN HaarMatch(args, f) ELSE TemplateMatch(args, f)

-----------------------------------------------------------------------------
(***************************************************************************)
(* The decision over the group's four results.                             *)
(***************************************************************************)
SuccessCount(ms) == Cardinality({i \in Slot : Success(ms[i])})

DirectionCount(ms, d) == Cardinality({i \in Slot : ms[i].direction = d})

\* Template matcher: the direction of the last successful match.
LastSuccessDirection_Mutant(ms) == ms[MATCH_MAX_COUNT].direction

LastSuccessDirection(ms) ==
  LET good == {i \in Slot : Success(ms[i])}
      last == CHOOSE i \in good : \A j \in good : j <= i
  IN  IF good = {} THEN "unknown" ELSE ms[last].direction

\* Haar matcher: majority for "in", otherwise more "out" than "unknown".
MajorityDirection_Mutant(ms) ==
  IF DirectionCount(ms, "in") > 2 THEN "in"
  ELSE IF DirectionCount(ms, "unknown") > DirectionCount(ms, "out") THEN "out"
  ELSE "unknown"

MajorityDirection(ms) ==
  LET in == DirectionCount(ms, "in")
      out == DirectionCount(ms, "out")
      unknown == DirectionCount(ms, "unknown")
  IN  IF in > out /\ in > unknown THEN "in"
      ELSE IF out > unknown THEN "out"
      ELSE "unknown"

\* catcierge_guess_overall_direction.
GuessOverallDirection_Mutant(args, ms) == LastSuccessDirection(ms)

GuessOverallDirection(args, ms) ==
  IF args.matcher_type = "template" THEN LastSuccessDirection(ms) ELSE MajorityDirection(ms)

\* catcierge_haar_matcher_decide: no head in any image; the template matcher
\* never vetoes.
NoHeadVeto_Mutant(args, ms) == args.matcher_type = "haar" /\ \E i \in Slot : ms[i].result = NO_HEAD

NoHeadVeto(args, ms) == args.matcher_type = "haar" /\ \A i \in Slot : ms[i].result = NO_HEAD

EnoughMatches_Mutant(args, ms) == SuccessCount(ms) = args.ok_matches_needed

EnoughMatches(args, ms) == SuccessCount(ms) >= args.ok_matches_needed

(***************************************************************************)
(* What catcierge_decide_lock_status leaves in the match group.            *)
(***************************************************************************)
GroupDecision(args, ms) ==
  LET direction == GuessOverallDirection(args, ms)
      goingOut == direction = "out"
      veto == ~goingOut /\ ~args.no_final_decision /\ NoHeadVeto(args, ms)
  IN  [direction |-> direction,
       success |-> goingOut \/ (EnoughMatches(args, ms) /\ ~veto),
       final_decision |-> veto]
=============================================================================
