--------------------------- MODULE CatMatchProofs ---------------------------
(***************************************************************************)
(* Facts about the matchers and the group decision, for every setting,     *)
(* frame and group.                                                        *)
(***************************************************************************)
EXTENDS CatMatch, TLAPS

\* What a matcher leaves in a result, for every setting and frame.
LEMMA MatchType ==
  ASSUME NEW a \in MatcherArgs, NEW f \in Frame(a)
  PROVE  Match(a, f) \in MatchResult
<1>1. CASE a.matcher_type = "haar"
  <2>1. f \in HaarFrame
    BY <1>1 DEF Frame
  <2>2. HaarMatch(a, f) \in MatchResult
    BY <2>1 DEF HaarMatch, HaarFrame, MatcherArgs, MatchResult, HaarGuessDirection, Direction,
                ERROR, FAIL, SUCCESS, NO_HEAD, NO_HEAD_IS_FAIL
  <2> QED
    BY <1>1, <2>2 DEF Match
<1>2. CASE a.matcher_type = "template"
  <2>1. f \in TemplateFrame
    BY <1>2 DEF Frame
  <2>2. TemplateMatch(a, f) \in MatchResult
    BY <2>1 DEF TemplateMatch, TemplateFrame, MatcherArgs, MatchResult, Direction, Correlation,
                ERROR, FAIL, SUCCESS, NO_HEAD, NO_HEAD_IS_FAIL
  <2> QED
    BY <1>2, <2>2 DEF Match
<1> QED
  BY <1>1, <1>2 DEF MatcherArgs

\* The last of a set of slots.
LEMMA LastSlot ==
  ASSUME NEW S \in SUBSET Slot, S # {}
  PROVE  \E i \in S : \A j \in S : j <= i
<1>1. Slot = {1, 2, 3, 4}
  BY DEF Slot, MATCH_MAX_COUNT
<1>2. CASE 4 \in S
  BY <1>1, <1>2
<1>3. CASE 4 \notin S /\ 3 \in S
  BY <1>1, <1>3
<1>4. CASE 4 \notin S /\ 3 \notin S /\ 2 \in S
  BY <1>1, <1>4
<1>5. CASE 4 \notin S /\ 3 \notin S /\ 2 \notin S
  <2>1. \A i \in S : i = 1
    BY <1>1, <1>5
  <2> QED
    BY <2>1
<1> QED
  BY <1>2, <1>3, <1>4, <1>5

\* The direction of a group is one of the three.
LEMMA GroupDirectionType ==
  ASSUME NEW a \in MatcherArgs, NEW ms \in [Slot -> MatchResult]
  PROVE  GuessOverallDirection(a, ms) \in Direction
<1>1. LastSuccessDirection(ms) \in Direction
  <2> DEFINE good == {i \in Slot : Success(ms[i])}
  <2>1. CASE good = {}
    BY <2>1 DEF LastSuccessDirection, Direction
  <2>2. CASE good # {}
    <3>1. (CHOOSE i \in good : \A j \in good : j <= i) \in Slot
      BY <2>2, LastSlot
    <3> QED
      BY <2>2, <3>1 DEF LastSuccessDirection, MatchResult
  <2> QED
    BY <2>1, <2>2
<1>2. MajorityDirection(ms) \in Direction
  BY DEF MajorityDirection, Direction
<1> QED
  BY <1>1, <1>2 DEF GuessOverallDirection

\* The decision of a group is well formed.
LEMMA DecisionType ==
  ASSUME NEW a \in MatcherArgs, NEW ms \in [Slot -> MatchResult]
  PROVE  GroupDecision(a, ms) \in
           [direction : Direction, success : BOOLEAN, final_decision : BOOLEAN]
BY GroupDirectionType DEF GroupDecision
=============================================================================
