-------------------------- MODULE MCCatMatchProofs --------------------------
(***************************************************************************)
(* The promises of the group decision, for every setting of the matchers.  *)
(***************************************************************************)
EXTENDS MCCatMatch, CatMatchProofs, FunctionTheorems, FiniteSetTheorems, TLAPS

-----------------------------------------------------------------------------
(***************************************************************************)
(* Every step takes one group of frames to another.                        *)
(***************************************************************************)
GroupInv == args \in MatcherArgs /\ frames \in [Slot -> DistinctFrames(args)]

LEMMA GroupInit == MatchInit => GroupInv
BY ConfigsAssumption DEF MatchInit, GroupInv, ConfigsAssumption

LEMMA GroupStep == GroupInv /\ [MatchNext]_matchVars => GroupInv'
BY DEF GroupInv, MatchNext, Retake, Swap, matchVars, DistinctFrames

LEMMA GroupInvHolds == MatchSpec => []GroupInv
BY GroupInit, GroupStep, PTL DEF MatchSpec

-----------------------------------------------------------------------------
(***************************************************************************)
(* One image.                                                              *)
(***************************************************************************)

\* What the haar matcher makes of a frame.
LEMMA HaarResult ==
  ASSUME args \in MatcherArgs, IsHaar, NEW f \in DistinctFrames(args)
  PROVE  LET m == Match(args, f)
         IN  /\ m.direction = "out" <=> GoesOut(f)
             /\ ShowsPrey(f) => ~Success(m)
             /\ ShowsNoPrey(f) => m.result = SUCCESS
             /\ GoesOut(f) => Success(m)
             /\ f.detect /\ ~ShowsPrey(f) /\ ~args.no_match_is_fail => Success(m)
<1>1. f \in HaarFrame /\ (f.head => f.detect)
  BY DEF IsHaar, DistinctFrames
<1>2. Match(args, f) = HaarMatch(args, f)
  BY DEF IsHaar, Match
<1>3. HaarGuessDirection(args, f.bright) \in {"in", "out", "unknown"}
  BY DEF HaarGuessDirection
<1> HIDE DEF HaarGuessDirection
<1>4. f.detect \in BOOLEAN /\ f.head \in BOOLEAN /\ f.prey \in BOOLEAN
  BY <1>1 DEF HaarFrame
<1> QED
  BY <1>1, <1>2, <1>3, <1>4
  DEF HaarMatch, GoesOut, ShowsPrey, ShowsNoPrey, Success, ERROR, FAIL, SUCCESS, NO_HEAD,
      NO_HEAD_IS_FAIL

-----------------------------------------------------------------------------
(***************************************************************************)
(* The group.                                                              *)
(***************************************************************************)
LEMMA SlotsAreFinite ==
  /\ IsFiniteSet(Slot) /\ Cardinality(Slot) = 4
  /\ \A S \in SUBSET Slot : IsFiniteSet(S) /\ Cardinality(S) \in 0..4
<1>1. IsFiniteSet(Slot) /\ Cardinality(Slot) = 4
  <2>1. ASSUME NEW n \in Nat, n > 0 PROVE IsFiniteSet(1..n) /\ Cardinality(1..n) = n
    <3>1. IsFiniteSet(1..n) /\ Cardinality(1..n) = IF 1 > n THEN 0 ELSE n - 1 + 1
      BY FS_Interval
    <3> QED
      BY <3>1
  <2>2. MATCH_MAX_COUNT \in Nat /\ MATCH_MAX_COUNT > 0 /\ MATCH_MAX_COUNT = 4
    BY DEF MATCH_MAX_COUNT
  <2> QED
    BY <2>1, <2>2 DEF Slot
<1>2. ASSUME NEW S \in SUBSET Slot PROVE IsFiniteSet(S) /\ Cardinality(S) \in 0..4
  <2>1. IsFiniteSet(S) /\ Cardinality(S) <= 4
    BY <1>1, FS_Subset
  <2>2. Cardinality(S) \in Nat
    BY <2>1, FS_CardinalityType
  <2> QED
    BY <2>1, <2>2
<1> QED
  BY <1>1, <1>2

\* The images that count as a success.
Good(ms) == {i \in Slot : Success(ms[i])}

\* A group that is judged to go out has an image that does, and that counts.
LEMMA OutNeedsAnImage ==
  ASSUME args \in MatcherArgs, NEW fs \in [Slot -> DistinctFrames(args)],
         Decision(fs).direction = "out"
  PROVE  \E i \in Slot : Match(args, fs[i]).direction = "out" /\ Success(Match(args, fs[i]))
<1> DEFINE ms == Group(fs)
<1>1. \A i \in Slot : ms[i] = Match(args, fs[i])
  BY DEF Group
<1>2. GuessOverallDirection(args, ms) = "out"
  BY DEF Decision, GroupDecision
<1> HIDE DEF ms
<1>3. CASE args.matcher_type = "template"
  <2>1. LastSuccessDirection(ms) = "out"
    BY <1>2, <1>3 DEF GuessOverallDirection
  <2> DEFINE last == CHOOSE i \in Good(ms) : \A j \in Good(ms) : j <= i
  <2>2. Good(ms) # {} /\ ms[last].direction = "out"
    BY <2>1 DEF LastSuccessDirection, Good
  <2>3. last \in Good(ms)
    <3>1. Good(ms) \in SUBSET Slot
      BY DEF Good
    <3>2. \E i \in Good(ms) : \A j \in Good(ms) : j <= i
      BY <2>2, <3>1, LastSlot
    <3> QED
      BY <3>2
  <2> HIDE DEF last
  <2> QED
    BY <1>1, <2>2, <2>3 DEF Good
<1>4. CASE args.matcher_type # "template"
  <2>1. MajorityDirection(ms) = "out"
    BY <1>2, <1>4 DEF GuessOverallDirection
  <2>2. DirectionCount(ms, "out") > DirectionCount(ms, "unknown")
    BY <2>1 DEF MajorityDirection
  <2> DEFINE out == {i \in Slot : ms[i].direction = "out"}
             unknown == {i \in Slot : ms[i].direction = "unknown"}
  <2>3. Cardinality(out) > Cardinality(unknown)
    BY <2>2 DEF DirectionCount
  <2>4. IsFiniteSet(out) /\ Cardinality(out) \in Nat /\ Cardinality(unknown) \in Nat
    BY SlotsAreFinite
  <2>5. out # {}
    <3> HIDE DEF out, unknown
    <3>1. Cardinality(out) # 0
      BY <2>3, <2>4
    <3> QED
      BY <2>4, <3>1, FS_EmptySet
  <2>6. PICK i \in Slot : ms[i].direction = "out"
    BY <2>5
  <2>7. IsHaar
    BY <1>4 DEF MatcherArgs, IsHaar
  <2>8. Success(Match(args, fs[i]))
    BY <1>1, <2>6, <2>7, HaarResult
  <2> QED
    BY <1>1, <2>6, <2>8
<1> QED
  BY <1>3, <1>4

-----------------------------------------------------------------------------
\* No group passes without one image that counts as a success, for every setting
\* of the matchers (fsm.c:1008-1057).
THEOREM PassesWithAnImage == MatchSpec => []PassNeedsAnImage
<1>1. GroupInv => PassNeedsAnImage
  <2> SUFFICES ASSUME GroupInv, args.ok_matches_needed > 0, Decision(frames).success
               PROVE  \E i \in Slot : Success(Match(args, frames[i]))
    BY DEF PassNeedsAnImage
  <2>1. CASE Decision(frames).direction = "out"
    BY <2>1, OutNeedsAnImage DEF GroupInv
  <2>2. CASE Decision(frames).direction # "out"
    <3>1. EnoughMatches(args, Group(frames))
      BY <2>2 DEF Decision, GroupDecision
    <3>2. Cardinality(Good(Group(frames))) >= args.ok_matches_needed
      BY <3>1 DEF EnoughMatches, SuccessCount, Good
    <3>3. Cardinality(Good(Group(frames))) \in Nat /\ args.ok_matches_needed \in Nat
      BY SlotsAreFinite DEF Good, GroupInv, MatcherArgs
    <3>4. Good(Group(frames)) # {}
      BY <3>2, <3>3, FS_EmptySet
    <3> QED
      BY <3>4 DEF Good, Group
  <2> QED
    BY <2>1, <2>2
<1> QED
  BY <1>1, GroupInvHolds, PTL

\* A cat that carries prey is locked out, for every setting of the haar matcher
\* (haar_matcher.c:421-610, fsm.c:1008-1057).
THEOREM PreyIsLockedOut == MatchSpec => []PreyLocksOut
<1>1. GroupInv => PreyLocksOut
  <2> DEFINE prey == {i \in Slot : ShowsPrey(frames[i])}
  <2> SUFFICES ASSUME GroupInv, IsHaar, \A i \in Slot : ~GoesOut(frames[i]),
                      Cardinality(prey) > MATCH_MAX_COUNT - args.ok_matches_needed,
                      Decision(frames).success
               PROVE  FALSE
    BY DEF PreyLocksOut
  <2>1. args \in MatcherArgs /\ frames \in [Slot -> DistinctFrames(args)]
    BY DEF GroupInv
  <2>2. Decision(frames).direction # "out"
    BY <2>1, OutNeedsAnImage, HaarResult
  <2>3. EnoughMatches(args, Group(frames))
    BY <2>2 DEF Decision, GroupDecision
  <2>4. Cardinality(Good(Group(frames))) >= args.ok_matches_needed
    BY <2>3 DEF EnoughMatches, SuccessCount, Good
  <2>5. /\ Cardinality(Good(Group(frames))) \in Nat /\ Cardinality(prey) \in Nat
        /\ args.ok_matches_needed \in Nat
    BY <2>1, SlotsAreFinite DEF Good, MatcherArgs
  <2>6. Cardinality(prey) + Cardinality(Good(Group(frames))) > Cardinality(Slot)
    BY <2>4, <2>5, SlotsAreFinite DEF MATCH_MAX_COUNT
  <2>7. prey \cap Good(Group(frames)) # {}
    BY <2>6, SlotsAreFinite, FS_MajoritiesIntersect DEF Good
  <2> QED
    BY <2>1, <2>7, HaarResult DEF Good, Group
<1> QED
  BY <1>1, GroupInvHolds, PTL

\* A cat without prey is let in, for every setting of the haar matcher with
\* no_match_is_fail off (haar_matcher.c:612-637, fsm.c:1008-1057).
THEOREM CleanCatIsLetIn == MatchSpec => []CleanCatPasses
<1>1. GroupInv => CleanCatPasses
  <2> SUFFICES ASSUME GroupInv, IsHaar, ~args.no_match_is_fail,
                      \A i \in Slot : frames[i].detect /\ ~ShowsPrey(frames[i]),
                      NEW k \in Slot, ShowsNoPrey(frames[k])
               PROVE  Decision(frames).success
    BY DEF CleanCatPasses
  <2>1. args \in MatcherArgs /\ frames \in [Slot -> DistinctFrames(args)]
    BY DEF GroupInv
  <2>2. \A i \in Slot : Success(Group(frames)[i])
    BY <2>1, HaarResult DEF Group
  <2>3. Group(frames)[k].result = SUCCESS
    BY <2>1, HaarResult DEF Group
  <2>4. SuccessCount(Group(frames)) = 4
    <3>1. {i \in Slot : Success(Group(frames)[i])} = Slot
      BY <2>2
    <3> QED
      BY <3>1, SlotsAreFinite DEF SuccessCount
  <2>5. EnoughMatches(args, Group(frames))
    BY <2>1, <2>4 DEF EnoughMatches, MatcherArgs
  <2>6. ~NoHeadVeto(args, Group(frames))
    BY <2>3 DEF NoHeadVeto, SUCCESS, NO_HEAD
  <2> QED
    BY <2>5, <2>6 DEF Decision, GroupDecision
<1> QED
  BY <1>1, GroupInvHolds, PTL

-----------------------------------------------------------------------------
\* Prey that is seen in one image more takes nothing back but that image's success:
\* it never turns a lockout into a pass, for every setting of the haar matcher
\* (haar_matcher.c:421-637, fsm.c:1008-1057).
THEOREM PreyHelpsNobody == MatchSpec => PreyNeverHelps
<1>1. ASSUME GroupInv, NEW k \in Slot, IsHaar, frames[k].head, ~frames[k].prey,
             frames' = [frames EXCEPT ![k].prey = TRUE], Decision(frames').success
      PROVE  Decision(frames).success
  <2> DEFINE ms == Group(frames)
             ns == Group(frames')
  <2>1. args \in MatcherArgs /\ frames \in [Slot -> DistinctFrames(args)]
    BY <1>1 DEF GroupInv
  <2>2. ASSUME NEW i \in Slot
        PROVE  /\ ns[i].direction = ms[i].direction
               /\ ns[i].result = NO_HEAD <=> ms[i].result = NO_HEAD
               /\ Success(ns[i]) => Success(ms[i])
    <3>1. ns[i] = HaarMatch(args, frames'[i]) /\ ms[i] = HaarMatch(args, frames[i])
      BY <1>1 DEF Group, Match, IsHaar
    <3>2. CASE i # k
      <4>1. frames'[i] = frames[i]
        BY <1>1, <2>1, <3>2
      <4> QED
        BY <3>1, <4>1
    <3>3. CASE i = k
      <4>1. frames[k] \in HaarFrame
        BY <1>1, <2>1 DEF IsHaar, DistinctFrames
      <4>2. frames'[k] = [frames[k] EXCEPT !.prey = TRUE]
        BY <1>1, <2>1
      <4>3. /\ frames'[k].detect = frames[k].detect /\ frames'[k].head = frames[k].head
            /\ frames'[k].bright = frames[k].bright /\ frames'[k].prey = TRUE
        BY <4>1, <4>2 DEF HaarFrame
      <4>4. frames[k].detect \in BOOLEAN
        BY <4>1 DEF HaarFrame
      <4> QED
        BY <1>1, <3>1, <3>3, <4>3, <4>4
        DEF HaarMatch, Success, ERROR, FAIL, SUCCESS, NO_HEAD, NO_HEAD_IS_FAIL
    <3> QED
      BY <3>2, <3>3
  <2> HIDE DEF ms, ns
  <2>3. GuessOverallDirection(args, ns) = GuessOverallDirection(args, ms)
    <3>1. \A d : DirectionCount(ns, d) = DirectionCount(ms, d)
      <4> TAKE d
      <4>1. {i \in Slot : ns[i].direction = d} = {i \in Slot : ms[i].direction = d}
        BY <2>2
      <4> QED
        BY <4>1 DEF DirectionCount
    <3> QED
      BY <1>1, <3>1 DEF GuessOverallDirection, MajorityDirection, IsHaar
  <2>4. NoHeadVeto(args, ns) <=> NoHeadVeto(args, ms)
    BY <2>2 DEF NoHeadVeto
  <2>5. EnoughMatches(args, ns) => EnoughMatches(args, ms)
    <3>1. /\ Good(ns) \in SUBSET Good(ms) /\ IsFiniteSet(Good(ms))
          /\ Cardinality(Good(ns)) \in Nat /\ Cardinality(Good(ms)) \in Nat
      BY <2>2, SlotsAreFinite DEF Good
    <3>2. Cardinality(Good(ns)) <= Cardinality(Good(ms))
      BY <3>1, FS_Subset
    <3>3. args.ok_matches_needed \in Nat
      BY <2>1 DEF MatcherArgs
    <3> QED
      BY <3>1, <3>2, <3>3 DEF EnoughMatches, SuccessCount, Good
  <2> QED
    BY <1>1, <2>3, <2>4, <2>5 DEF Decision, GroupDecision, ms, ns
<1>2. GroupInv /\ [MatchNext]_matchVars =>
        [(\E i \in Slot : /\ IsHaar /\ frames[i].head /\ ~frames[i].prey
                          /\ frames' = [frames EXCEPT ![i].prey = TRUE])
         => (Decision(frames').success => Decision(frames).success)]_matchVars
  BY <1>1
<1> QED
  BY <1>2, GroupInvHolds, PTL DEF MatchSpec, PreyNeverHelps

-----------------------------------------------------------------------------
(***************************************************************************)
(* The order of the images.                                                *)
(***************************************************************************)

\* Two slots change places: sets of slots that correspond are as large.
LEMMA SwapKeepsSize ==
  ASSUME NEW i \in Slot, NEW j \in Slot, NEW S \in SUBSET Slot, NEW T \in SUBSET Slot,
         i \in T <=> j \in S, j \in T <=> i \in S,
         \A k \in Slot \ {i, j} : k \in T <=> k \in S
  PROVE  Cardinality(T) = Cardinality(S)
<1> DEFINE f == [k \in S |-> IF k = i THEN j ELSE IF k = j THEN i ELSE k]
<1>1. f \in [S -> T]
  OBVIOUS
<1>2. \A k, l \in S : f[k] = f[l] => k = l
  OBVIOUS
<1>3. \A l \in T : \E k \in S : f[k] = l
  <2> TAKE l \in T
  <2>1. CASE l = i
    BY <2>1
  <2>2. CASE l = j
    BY <2>2
  <2>3. CASE l # i /\ l # j
    BY <2>3
  <2> QED
    BY <2>1, <2>2, <2>3
<1> HIDE DEF f
<1>4. f \in Bijection(S, T)
  BY <1>1, <1>2, <1>3, Fun_IsBij
<1>5. ExistsBijection(S, T)
  BY <1>4 DEF ExistsBijection
<1> QED
  BY <1>5, SlotsAreFinite, FS_Bijection

\* The counts of a group whose images changed places.
LEMMA SwapKeepsCounts ==
  ASSUME GroupInv, NEW i \in Slot, NEW j \in Slot, Swap(i, j)
  PROVE  LET ms == Group(frames)
             ns == Group(frames')
         IN  /\ SuccessCount(ns) = SuccessCount(ms)
             /\ \A d : DirectionCount(ns, d) = DirectionCount(ms, d)
             /\ NoHeadVeto(args, ns) <=> NoHeadVeto(args, ms)
             /\ ns[i] = ms[j] /\ ns[j] = ms[i]
             /\ \A k \in Slot \ {i, j} : ns[k] = ms[k]
<1> DEFINE ms == Group(frames)
           ns == Group(frames')
<1>1. /\ ns[i] = ms[j] /\ ns[j] = ms[i]
      /\ \A k \in Slot \ {i, j} : ns[k] = ms[k]
  BY DEF GroupInv, Swap, Group
<1> HIDE DEF ms, ns
<1>2. SuccessCount(ns) = SuccessCount(ms)
  <2> DEFINE S == {k \in Slot : Success(ms[k])}
             T == {k \in Slot : Success(ns[k])}
  <2>1. /\ S \in SUBSET Slot /\ T \in SUBSET Slot
        /\ i \in T <=> j \in S
        /\ j \in T <=> i \in S
        /\ \A k \in Slot \ {i, j} : k \in T <=> k \in S
    BY <1>1
  <2> HIDE DEF S, T
  <2>2. Cardinality(T) = Cardinality(S)
    BY <2>1, SwapKeepsSize
  <2> QED
    BY <2>2 DEF SuccessCount, S, T
<1>3. ASSUME NEW d PROVE DirectionCount(ns, d) = DirectionCount(ms, d)
  <2> DEFINE S == {k \in Slot : ms[k].direction = d}
             T == {k \in Slot : ns[k].direction = d}
  <2>1. /\ S \in SUBSET Slot /\ T \in SUBSET Slot
        /\ i \in T <=> j \in S
        /\ j \in T <=> i \in S
        /\ \A k \in Slot \ {i, j} : k \in T <=> k \in S
    BY <1>1
  <2> HIDE DEF S, T
  <2>2. Cardinality(T) = Cardinality(S)
    BY <2>1, SwapKeepsSize
  <2> QED
    BY <2>2 DEF DirectionCount, S, T
<1>4. NoHeadVeto(args, ns) <=> NoHeadVeto(args, ms)
  BY <1>1 DEF NoHeadVeto
<1> QED
  BY <1>1, <1>2, <1>3, <1>4 DEF ms, ns

\* What a group is judged by, besides its direction.
LEMMA SameDecision ==
  ASSUME GroupInv, NEW i \in Slot, NEW j \in Slot, Swap(i, j),
         GuessOverallDirection(args, Group(frames')) = GuessOverallDirection(args, Group(frames))
  PROVE  Decision(frames') = Decision(frames)
<1>1. /\ SuccessCount(Group(frames')) = SuccessCount(Group(frames))
      /\ NoHeadVeto(args, Group(frames')) <=> NoHeadVeto(args, Group(frames))
  BY SwapKeepsCounts
<1>2. /\ EnoughMatches(args, Group(frames')) = EnoughMatches(args, Group(frames))
      /\ NoHeadVeto(args, Group(frames')) = NoHeadVeto(args, Group(frames))
  BY <1>1 DEF EnoughMatches, NoHeadVeto
<1> QED
  BY <1>2 DEF Decision, GroupDecision

LEMMA HaarSwap ==
  ASSUME GroupInv, IsHaar, NEW i \in Slot, NEW j \in Slot, Swap(i, j)
  PROVE  Decision(frames') = Decision(frames)
<1>1. \A d : DirectionCount(Group(frames'), d) = DirectionCount(Group(frames), d)
  BY SwapKeepsCounts
<1>2. GuessOverallDirection(args, Group(frames')) = GuessOverallDirection(args, Group(frames))
  BY <1>1 DEF GuessOverallDirection, MajorityDirection, IsHaar
<1> QED
  BY <1>2, SameDecision

\* The haar decision does not depend on the order of the images, for every setting
\* (fsm.c:933-965, 1008-1057).
THEOREM OrderIsIgnored == MatchSpec => OrderDoesNotMatter
<1>1. GroupInv /\ [MatchNext]_matchVars =>
        [(IsHaar /\ \E i, j \in Slot : Swap(i, j)) => Decision(frames') = Decision(frames)]_matchVars
  BY HaarSwap
<1> QED
  BY <1>1, GroupInvHolds, PTL DEF MatchSpec, OrderDoesNotMatter

\* Two orders of the same images are judged alike unless successful images disagree
\* about the direction, for every setting and both matchers (fsm.c:913-965).
THEOREM OrderOnlyWhenTorn == MatchSpec => OrderMattersOnlyWhenTorn
<1> DEFINE Torn == \E i, j \in Slot :
                     /\ Success(Match(args, frames[i])) /\ Success(Match(args, frames[j]))
                     /\ Match(args, frames[i]).direction # Match(args, frames[j]).direction
<1>1. ASSUME GroupInv, NEW i \in Slot, NEW j \in Slot, Swap(i, j), ~Torn
      PROVE  Decision(frames') = Decision(frames)
  <2> DEFINE ms == Group(frames)
             ns == Group(frames')
  <2>1. CASE IsHaar
    BY <1>1, <2>1, HaarSwap
  <2>2. CASE ~IsHaar
    <3>1. args.matcher_type = "template"
      BY <1>1, <2>2 DEF GroupInv, MatcherArgs, IsHaar
    <3>2. \A k, l \in Good(ms) : ms[k].direction = ms[l].direction
      BY <1>1 DEF Good, Group
    <3>3. /\ ns[i] = ms[j] /\ ns[j] = ms[i]
          /\ \A k \in Slot \ {i, j} : ns[k] = ms[k]
      BY <1>1, SwapKeepsCounts
    <3> HIDE DEF ms, ns
    <3>4. \A k \in Good(ns) : \E l \in Good(ms) : ns[k] = ms[l]
      BY <1>1, <3>3 DEF Good
    <3>5. \A l \in Good(ms) : \E k \in Good(ns) : ns[k] = ms[l]
      BY <1>1, <3>3 DEF Good
    <3>6. LastSuccessDirection(ns) = LastSuccessDirection(ms)
      <4>1. CASE Good(ms) = {}
        BY <3>4, <4>1 DEF LastSuccessDirection, Good
      <4>2. CASE Good(ms) # {}
        <5> DEFINE Last(rs) == CHOOSE k \in Good(rs) : \A l \in Good(rs) : l <= k
        <5>1. Good(ns) # {} /\ Good(ns) \in SUBSET Slot /\ Good(ms) \in SUBSET Slot
          BY <3>5, <4>2 DEF Good
        <5>2. Last(ms) \in Good(ms)
          BY <4>2, <5>1, LastSlot
        <5>3. Last(ns) \in Good(ns)
          BY <5>1, LastSlot
        <5>4. /\ LastSuccessDirection(ns) = ns[Last(ns)].direction
              /\ LastSuccessDirection(ms) = ms[Last(ms)].direction
          BY <4>2, <5>1 DEF LastSuccessDirection, Good
        <5> HIDE DEF Last
        <5> QED
          BY <3>2, <3>4, <5>2, <5>3, <5>4
      <4> QED
        BY <4>1, <4>2
    <3>7. GuessOverallDirection(args, ns) = GuessOverallDirection(args, ms)
      BY <3>1, <3>6 DEF GuessOverallDirection
    <3> QED
      BY <1>1, <3>7, SameDecision DEF ms, ns
  <2> QED
    BY <2>1, <2>2
<1>2. GroupInv /\ [MatchNext]_matchVars =>
        [(\E i, j \in Slot : Swap(i, j)) => Decision(frames') = Decision(frames) \/ Torn]_matchVars
  BY <1>1
<1> QED
  BY <1>2, GroupInvHolds, PTL DEF MatchSpec, OrderMattersOnlyWhenTorn
=============================================================================
