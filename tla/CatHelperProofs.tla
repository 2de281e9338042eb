-------------------------- MODULE CatHelperProofs --------------------------
(***************************************************************************)
(* Facts about where catcierge looks, for every frame and region;          *)
(* about the making of a path, for every number of callers, and about the  *)
(* relative path, for paths of any length; and about the config file, for  *)
(* every set of keys.                                                      *)
(***************************************************************************)
EXTENDS MCCatHelpers, CatView, SequenceTheorems, FiniteSetTheorems, FunctionTheorems, TLAPS

-----------------------------------------------------------------------------
(***************************************************************************)
(* The views.                                                              *)
(***************************************************************************)

\* The middle of a span: what is left of it is shared out on both sides.
LEMMA Middle ==
  ASSUME NEW size \in Nat, NEW part \in Nat, part <= size
  PROVE  /\ (size - part) \div 2 \in Nat
         /\ (size - part) \div 2 + part <= size
BY SMT

\* A half and a tenth of a span are spans within it.
LEMMA Parts ==
  ASSUME NEW size \in Nat
  PROVE  /\ size \div 2 \in Nat /\ size \div 2 <= size
         /\ size \div 10 \in Nat /\ size \div 10 <= size
BY SMT

\* catcierge_is_frame_obstructed looks only at pixels of the region of interest,
\* wherever it lies, and at pixels of the frame when there is none.
THEOREM WindowInside ==
  ASSUME NEW frame \in Rect, NEW roi \in Rect,
         frame.x = 0, frame.y = 0,
         HasRoi(roi) \/ (roi.x = 0 /\ roi.y = 0)
  PROVE  /\ ObstructWindow(frame, roi) \in Rect
         /\ Inside(ObstructWindow(frame, roi), WatchedSize(frame, roi))
<1> DEFINE size == WatchedSize(frame, roi)
           w == size.width \div 2
           h == size.height \div 10
           dx == (size.width - w) \div 2
           dy == (size.height - h) \div 2
<1>1. size \in Rect /\ size.x = roi.x /\ size.y = roi.y
  BY DEF WatchedSize, Rect
<1>2. size.width \in Nat /\ size.height \in Nat /\ roi.x \in Nat /\ roi.y \in Nat
  BY <1>1 DEF Rect
<1>3. w \in Nat /\ w <= size.width /\ h \in Nat /\ h <= size.height
  BY <1>2, Parts
<1>4. dx \in Nat /\ dx + w <= size.width
  BY <1>2, <1>3, Middle
<1>5. dy \in Nat /\ dy + h <= size.height
  BY <1>2, <1>3, Middle
<1>6. ObstructWindow(frame, roi)
        = [x |-> roi.x + dx, y |-> roi.y + dy, width |-> w, height |-> h]
  BY DEF ObstructWindow
<1> HIDE DEF size, w, h, dx, dy
<1>7. roi.x + dx \in Nat /\ roi.y + dy \in Nat
  BY <1>2, <1>4, <1>5
<1>8. ObstructWindow(frame, roi) \in Rect
  BY <1>3, <1>6, <1>7 DEF Rect
<1>9. Inside(ObstructWindow(frame, roi), size)
  BY <1>1, <1>2, <1>3, <1>4, <1>5, <1>6 DEF Inside
<1> QED
  BY <1>8, <1>9 DEF size

\* A product grows with its factors.
LEMMA ProductGrows ==
  ASSUME NEW a \in Nat, NEW b \in Nat, NEW c \in Nat, NEW d \in Nat, a <= c, b <= d
  PROVE  a * b <= c * d
<1>1. a * b <= c * b
  BY SMT
<1>2. c * b <= c * d
  BY SMT
<1>3. a * b \in Nat /\ c * b \in Nat /\ c * d \in Nat
  BY SMT
<1> QED
  BY <1>1, <1>2, <1>3, SMT

\* With at least the default minimum for the back light, in frames of at most the
\* default resolution, the region that catcierge_get_back_light_area finds leaves a
\* window in which a cat can be seen (matcher.c:279): the threshold of 200 dark
\* pixels, which does not depend on the region, can be reached.
THEOREM BackLightCanBeWatched ==
  ASSUME NEW frame \in Rect, NEW roi \in Rect, NEW minBacklight \in Nat,
         roi.width <= 320, roi.height <= 240,
         minBacklight >= 10000, roi.width * roi.height >= minBacklight
  PROVE  CanBeObstructed(frame, roi)
<1> DEFINE w == roi.width
           h == roi.height
           a == w \div 2
           b == h \div 10
<1>1. w \in Nat /\ h \in Nat
  BY DEF Rect
<1>2. w * h >= 10000
  <2>1. w * h \in Nat
    BY <1>1, SMT
  <2> QED
    BY <2>1, SMT
<1>3. a \in Nat /\ b \in Nat /\ w <= 2 * a + 1 /\ h <= 10 * b + 9 /\ a <= 160 /\ b <= 24
  BY <1>1, SMT
<1>4. w # 0 /\ h # 0
  BY <1>1, <1>2, SMT
<1> HIDE DEF w, h, a, b
<1>5. w * h <= (2 * a + 1) * (10 * b + 9)
  BY <1>1, <1>3, ProductGrows
<1>6. (2 * a + 1) * (10 * b + 9) = 20 * (a * b) + 18 * a + 10 * b + 9
  BY <1>3, SMT
<1>7. a * b > 200
  <2>1. a * b \in Nat
    BY <1>3, SMT
  <2>2. w * h \in Nat
    BY <1>1, SMT
  <2> QED
    BY <1>2, <1>3, <1>5, <1>6, <2>1, <2>2, SMT
<1>8. ObstructWindow(frame, roi).width = a /\ ObstructWindow(frame, roi).height = b
  BY <1>4 DEF ObstructWindow, WatchedSize, HasRoi, a, b, w, h
<1> QED
  BY <1>7, <1>8 DEF CanBeObstructed, IsFrameObstructed

\* The same of a back light that catcierge_get_back_light_area accepts, in the model
\* that TLC runs: whatever the default resolution and the least back light are, as
\* long as they are at most and at least those of the code.
THEOREM DefaultLightIsWatched ==
  /\ FrameWidth \in 0..320 /\ FrameHeight \in 0..240
  /\ MinBacklight \in Nat /\ MinBacklight >= 10000
  /\ Spec
  => []BackLightIsWatched
<1> SUFFICES ASSUME FrameWidth \in 0..320, FrameHeight \in 0..240,
                    MinBacklight \in Nat, MinBacklight >= 10000
             PROVE  Spec => []BackLightIsWatched
  OBVIOUS
<1> DEFINE Lit == light = NoLight
                  \/ \E w \in 1..FrameWidth, h \in 1..FrameHeight : light = Light(w, h)
<1>1. Init => Lit
  BY DEF Init
<1>2. Lit /\ [Next]_vars => Lit'
  BY DEF Next, vars, NoLight, Light
<1>3. Lit => BackLightIsWatched
  <2> DEFINE contour == [area |-> light.width * light.height, rect |-> light]
             frame == Light(FrameWidth, FrameHeight)
  <2> SUFFICES ASSUME Lit,
                      NEW roi \in View!GetBackLightArea(<<contour>>, MinBacklight)
               PROVE  View!CanBeObstructed(frame, roi)
    BY DEF BackLightIsWatched
  <2>1. /\ light.x = 0 /\ light.y = 0 /\ light.width \in Nat /\ light.height \in Nat
        /\ light.width <= 320 /\ light.height <= 240 /\ light \in Rect
    BY DEF Light, NoLight, Rect
  <2>2. roi = light /\ light.width * light.height >= MinBacklight
    <3>1. PICK i \in DOMAIN <<contour>> :
            roi = <<contour>>[i].rect /\ <<contour>>[i].area >= MinBacklight
      BY DEF View!GetBackLightArea, View!BiggestContour
    <3>2. i = 1
      OBVIOUS
    <3> QED BY <3>1, <3>2
  <2>3. frame \in Rect
    BY DEF Light, Rect
  <2>4. CanBeObstructed(frame, roi)
    BY <2>1, <2>2, <2>3, BackLightCanBeWatched
  <2>5. CanBeObstructed(frame, roi) = View!CanBeObstructed(frame, roi)
    BY DEF CanBeObstructed, View!CanBeObstructed, ObstructWindow, View!ObstructWindow,
           WatchedSize, View!WatchedSize, HasRoi, View!HasRoi,
           IsFrameObstructed, View!IsFrameObstructed
  <2> QED BY <2>4, <2>5
<1> QED
  BY <1>1, <1>2, <1>3, PTL DEF Spec

-----------------------------------------------------------------------------
(***************************************************************************)
(* Induction over sets of numbers, and what FlattenSeq joins.              *)
(***************************************************************************)

\* Every set of numbers that is not empty has a least one.
LEMMA Least ==
  ASSUME NEW T \in SUBSET Nat, T # {}
  PROVE  \E n \in T : \A m \in T : n <= m
<1> DEFINE R == {ss \in Nat \X Nat : ss[1] < ss[2]}
<1>1. R = OpToRel(<, Nat)
  BY DEF OpToRel
<1>2. IsWellFoundedOn(R, Nat)
  BY <1>1, NatLessThanWellFounded
<1> HIDE DEF R
<1>3. PICK x \in T : \A y \in T : <<y, x>> \notin R
  BY <1>2, WFMin
<1>4. \A y \in T : ~(y < x)
  BY <1>3 DEF R
<1> QED BY <1>4

\* Induction, over the set of the numbers for which something holds.
LEMMA SetInduction ==
  ASSUME NEW T, 0 \in T, \A n \in Nat : n \in T => n + 1 \in T
  PROVE  Nat \subseteq T
<1> SUFFICES ASSUME ~(Nat \subseteq T) PROVE FALSE
  OBVIOUS
<1> DEFINE U == {n \in Nat : n \notin T}
<1>1. U \in SUBSET Nat /\ U # {}
  OBVIOUS
<1> HIDE DEF U
<1>2. PICK n \in U : \A m \in U : n <= m
  BY <1>1, Least
<1>3. n \in Nat /\ n \notin T
  BY <1>2 DEF U
<1>4. n - 1 \in Nat /\ ~(n <= n - 1)
  BY <1>3
<1>5. n - 1 \in T
  BY <1>2, <1>4 DEF U
<1>6. n - 1 + 1 = n
  BY <1>3
<1> QED BY <1>3, <1>4, <1>5, <1>6

\* A set of numbers with a bound has a greatest one.
LEMMA Greatest ==
  ASSUME NEW T \in SUBSET Nat, T # {}, NEW b \in Nat, \A n \in T : n <= b
  PROVE  Max(T) \in T
<1> DEFINE U == {m \in Nat : b - m \in T}
<1>1. U \in SUBSET Nat /\ U # {}
  <2>1. PICK n \in T : TRUE
    OBVIOUS
  <2>2. b - n \in Nat /\ b - (b - n) = n
    BY <2>1
  <2> QED BY <2>1, <2>2
<1> HIDE DEF U
<1>2. PICK m \in U : \A k \in U : m <= k
  BY <1>1, Least
<1>3. b - m \in T
  BY <1>2 DEF U
<1>4. \A n \in T : b - m >= n
  <2> TAKE n \in T
  <2>1. b - n \in Nat /\ b - (b - n) = n
    OBVIOUS
  <2>2. b - n \in U
    BY <2>1 DEF U
  <2>3. m \in Nat /\ m <= b - n
    BY <1>2, <2>2 DEF U
  <2> QED BY <2>1, <2>3
<1> QED BY <1>3, <1>4 DEF Max

-----------------------------------------------------------------------------
\* f is the function by which FlattenSeq joins the first n of the sequences s.
Flattens(f, s, n) ==
  f = [i \in 1..n |-> IF i = 1 THEN s[i] ELSE f[i - 1] \o s[i]]

\* Its value at each number.
LEMMA FlattensValue ==
  ASSUME NEW n \in Nat, NEW f, NEW s, Flattens(f, s, n), NEW i \in 1..n
  PROVE  f[i] = IF i = 1 THEN s[i] ELSE f[i - 1] \o s[i]
BY DEF Flattens

\* There is such a function for every number of sequences.
LEMMA FlattensExists ==
  ASSUME NEW s, NEW n \in Nat
  PROVE  \E f : Flattens(f, s, n)
<1> DEFINE T == {k \in Nat : \E f : Flattens(f, s, k)}
<1>1. 0 \in T
  <2>1. Flattens([i \in 1..0 |-> 0], s, 0)
    BY DEF Flattens
  <2> QED BY <2>1
<1>2. ASSUME NEW k \in Nat, k \in T
      PROVE  k + 1 \in T
  <2>1. PICK f : Flattens(f, s, k)
    BY <1>2
  <2> DEFINE g == [i \in 1..(k + 1) |-> IF i <= k THEN f[i]
                                        ELSE IF i = 1 THEN s[i] ELSE f[i - 1] \o s[i]]
  <2>2. ASSUME NEW i \in 1..(k + 1)
        PROVE  g[i] = IF i = 1 THEN s[i] ELSE g[i - 1] \o s[i]
    <3>1. CASE i = 1 /\ k = 0
      BY <3>1
    <3>2. CASE i = 1 /\ k # 0
      BY <3>2, <2>1, FlattensValue
    <3>3. CASE i # 1
      <4>1. i - 1 \in 1..k
        BY <3>3
      <4>2. g[i - 1] = f[i - 1]
        BY <4>1
      <4>3. g[i] = f[i - 1] \o s[i]
        <5>1. CASE i <= k
          <6>1. i \in 1..k
            BY <5>1
          <6>2. g[i] = f[i]
            BY <5>1
          <6>3. f[i] = IF i = 1 THEN s[i] ELSE f[i - 1] \o s[i]
            <7> HIDE DEF g
            <7> QED BY <6>1, <2>1, FlattensValue
          <6> QED BY <6>2, <6>3, <3>3
        <5>2. CASE ~(i <= k)
          BY <5>2, <3>3
        <5> QED BY <5>1, <5>2
      <4> QED BY <3>3, <4>2, <4>3
    <3> QED BY <3>1, <3>2, <3>3
  <2>3. g = [i \in 1..(k + 1) |-> g[i]]
    OBVIOUS
  <2> HIDE DEF g
  <2>4. g = [i \in 1..(k + 1) |-> IF i = 1 THEN s[i] ELSE g[i - 1] \o s[i]]
    BY <2>2, <2>3
  <2>5. Flattens(g, s, k + 1)
    BY <2>4 DEF Flattens
  <2> QED BY <2>5
<1> HIDE DEF T
<1>3. n \in T
  BY <1>1, <1>2, SetInduction
<1> QED BY <1>3 DEF T

\* There is only one.
LEMMA FlattensUnique ==
  ASSUME NEW s, NEW n \in Nat, NEW f, NEW g, Flattens(f, s, n), Flattens(g, s, n)
  PROVE  \A i \in 1..n : f[i] = g[i]
<1> DEFINE T == {i \in Nat : i \in 1..n => f[i] = g[i]}
<1>1. 0 \in T
  OBVIOUS
<1>2. ASSUME NEW i \in Nat, i \in T
      PROVE  i + 1 \in T
  <2> SUFFICES ASSUME i + 1 \in 1..n PROVE f[i + 1] = g[i + 1]
    OBVIOUS
  <2>1. i + 1 - 1 = i /\ (i + 1 # 1 => i \in 1..n)
    OBVIOUS
  <2>2. f[i + 1] = IF i + 1 = 1 THEN s[i + 1] ELSE f[i] \o s[i + 1]
    BY <2>1, FlattensValue
  <2>3. g[i + 1] = IF i + 1 = 1 THEN s[i + 1] ELSE g[i] \o s[i + 1]
    BY <2>1, FlattensValue
  <2>4. i + 1 # 1 => f[i] = g[i]
    BY <1>2, <2>1
  <2> QED BY <2>2, <2>3, <2>4
<1> HIDE DEF T
<1>3. Nat \subseteq T
  BY <1>1, <1>2, SetInduction
<1> QED BY <1>3 DEF T

\* So FlattenSeq is its last value.
LEMMA FlattenSeqValue ==
  ASSUME NEW s, NEW n \in Nat, Len(s) = n, NEW f, Flattens(f, s, n)
  PROVE  FlattenSeq(s) = IF n = 0 THEN s ELSE f[n]
<1> DEFINE Is(g) == g = [i \in 1..n |-> IF i = 1 THEN s[i] ELSE g[i - 1] \o s[i]]
           h == CHOOSE g : Is(g)
<1>1. FlattenSeq(s) = IF n = 0 THEN s ELSE h[n]
  BY DEF FlattenSeq
<1>2. Is(f)
  BY DEF Flattens
<1> HIDE DEF Is
<1>3. Is(h)
  BY <1>2
<1>4. Flattens(h, s, n)
  BY <1>3 DEF Is, Flattens
<1> HIDE DEF h
<1>5. \A i \in 1..n : h[i] = f[i]
  BY <1>4, FlattensUnique
<1>6. n # 0 => n \in 1..n
  OBVIOUS
<1> QED BY <1>1, <1>5, <1>6

\* s has m elements, the first k of them those of r.
Lengthens(s, r, k, m) ==
  /\ k \in Nat /\ m = k + 1 /\ Len(s) = m /\ Len(r) = k
  /\ \A i \in 1..k : s[i] = r[i]

\* FlattenSeq joins the last sequence to those before it, if there are any.
LEMMA FlattenLonger ==
  ASSUME NEW s, NEW r, NEW k, NEW m, Lengthens(s, r, k, m)
  PROVE  FlattenSeq(s) = IF k = 0 THEN s[1] ELSE FlattenSeq(r) \o s[m]
<1>0. /\ k \in Nat /\ m = k + 1 /\ Len(s) = m /\ Len(r) = k
      /\ \A i \in 1..k : s[i] = r[i]
  BY DEF Lengthens
<1>1. m \in Nat /\ k <= m /\ k <= k /\ m \in 1..m /\ m - 1 = k /\ m # 0
  BY <1>0
<1>2. PICK f : Flattens(f, s, m)
  BY <1>1, FlattensExists
<1> DEFINE g == [i \in 1..k |-> f[i]]
<1>3. Flattens(g, r, k)
  <2>1. ASSUME NEW i \in 1..k
        PROVE  g[i] = IF i = 1 THEN r[i] ELSE g[i - 1] \o r[i]
    <3>1. i \in 1..m /\ (i # 1 => i - 1 \in 1..k)
      BY <1>0
    <3>2. f[i] = IF i = 1 THEN s[i] ELSE f[i - 1] \o s[i]
      BY <1>1, <1>2, <3>1, FlattensValue
    <3> QED BY <1>0, <3>1, <3>2
  <2>2. g = [i \in 1..k |-> g[i]]
    OBVIOUS
  <2> HIDE DEF g
  <2>3. g = [i \in 1..k |-> IF i = 1 THEN r[i] ELSE g[i - 1] \o r[i]]
    BY <2>1, <2>2
  <2> QED BY <2>3 DEF Flattens
<1>4. k # 0 => g[k] = f[k]
  BY <1>0
<1> HIDE DEF g
<1>5. FlattenSeq(s) = IF m = 0 THEN s ELSE f[m]
  BY <1>0, <1>1, <1>2, FlattenSeqValue
<1>6. FlattenSeq(r) = IF k = 0 THEN r ELSE g[k]
  BY <1>0, <1>3, FlattenSeqValue
<1>7. f[m] = IF m = 1 THEN s[m] ELSE f[m - 1] \o s[m]
  BY <1>1, <1>2, FlattensValue
<1>8. k # 0 => m # 1
  BY <1>0
<1> QED BY <1>0, <1>1, <1>4, <1>5, <1>6, <1>7, <1>8

\* s is r with one more element of S.
OneLonger(s, r, k, S) ==
  /\ k \in Nat
  /\ s \in [1..(k + 1) -> S] /\ r \in [1..k -> S]
  /\ \A i \in 1..k : s[i] = r[i]

\* FlattenSeq of one sequence more.
LEMMA FlattenStep ==
  ASSUME NEW S, NEW k, NEW s, NEW r, OneLonger(s, r, k, Seq(S))
  PROVE  FlattenSeq(s) = FlattenSeq(r) \o s[k + 1]
<1> DEFINE m == k + 1
<1>1. /\ k \in Nat /\ m = k + 1 /\ Len(s) = m /\ Len(r) = k
      /\ \A i \in 1..k : s[i] = r[i]
  BY DEF OneLonger
<1> HIDE DEF m
<1>2. FlattenSeq(s) = IF k = 0 THEN s[1] ELSE FlattenSeq(r) \o s[m]
  <2>1. Lengthens(s, r, k, m)
    BY <1>1 DEF Lengthens
  <2> QED BY <2>1, FlattenLonger
<1>3. CASE k = 0
  <2>1. Len(r) = 0 /\ r = << >> /\ s[1] \in Seq(S) /\ m = 1
    BY <1>1, <1>3 DEF OneLonger
  <2>2. FlattenSeq(r) = << >>
    BY <2>1 DEF FlattenSeq
  <2>3. << >> \o s[1] = s[1]
    BY <2>1, ConcatEmptySeq
  <2> QED BY <1>2, <1>3, <2>1, <2>2, <2>3 DEF m
<1> QED BY <1>2, <1>3 DEF m

-----------------------------------------------------------------------------
(***************************************************************************)
(* Sums over sets, as FoldSeq and FoldSet make them, and where the          *)
(* sequences are that FlattenSeq joins.                                    *)
(***************************************************************************)

One(s) == CHOOSE x \in s : TRUE

\* h sums up g over the subsets of S, the way FoldSeq and FoldSet do.
Sums(h, S, g) ==
  h = [s \in SUBSET S |-> IF s = {} THEN 0 ELSE h[s \ {One(s)}] + g[One(s)]]

\* The element that is chosen is one.
LEMMA OneOf ==
  ASSUME NEW s, s # {}
  PROVE  One(s) \in s
BY DEF One

\* The sum over each subset.
LEMMA SumsValue ==
  ASSUME NEW S, NEW g, NEW h, Sums(h, S, g), NEW s \in SUBSET S
  PROVE  h[s] = IF s = {} THEN 0 ELSE h[s \ {One(s)}] + g[One(s)]
BY DEF Sums

\* An element less.
LEMMA OneLess ==
  ASSUME NEW S, IsFiniteSet(S), NEW s \in SUBSET S, NEW x \in s, NEW n \in Nat,
         Cardinality(s) <= n + 1
  PROVE  s \ {x} \in SUBSET S /\ Cardinality(s \ {x}) <= n
<1>1. IsFiniteSet(s)
  BY FS_Subset
<1>2. Cardinality(s \ {x}) = Cardinality(s) - 1 /\ Cardinality(s) \in Nat
  BY <1>1, FS_RemoveElement, FS_CardinalityType
<1> DEFINE a == Cardinality(s)
           b == Cardinality(s \ {x})
<1>3. a \in Nat /\ b = a - 1 /\ a <= n + 1
  BY <1>2
<1> HIDE DEF a, b
<1>4. b <= n
  BY <1>3
<1> QED BY <1>4 DEF b

\* There is such a function over every finite set.
LEMMA SumsExist ==
  ASSUME NEW S, IsFiniteSet(S), NEW g
  PROVE  \E h : Sums(h, S, g)
<1> DEFINE Good(h, n) ==
             \A s \in SUBSET S : Cardinality(s) <= n =>
               h[s] = IF s = {} THEN 0 ELSE h[s \ {One(s)}] + g[One(s)]
           T == {n \in Nat : \E h : Good(h, n)}
<1>1. 0 \in T
  <2> DEFINE h == [s \in SUBSET S |-> 0]
  <2>1. ASSUME NEW s \in SUBSET S, Cardinality(s) <= 0
        PROVE  s = {}
    <3>1. IsFiniteSet(s)
      BY FS_Subset
    <3>2. Cardinality(s) = 0
      BY <2>1, <3>1, FS_CardinalityType
    <3> QED BY <3>1, <3>2, FS_EmptySet
  <2>2. Good(h, 0)
    BY <2>1
  <2> QED BY <2>2
<1>2. ASSUME NEW n \in Nat, n \in T
      PROVE  n + 1 \in T
  <2>1. PICK f : Good(f, n)
    BY <1>2
  <2> DEFINE h == [s \in SUBSET S |->
                     IF Cardinality(s) <= n THEN f[s]
                     ELSE IF s = {} THEN 0 ELSE f[s \ {One(s)}] + g[One(s)]]
  <2>2. ASSUME NEW s \in SUBSET S, Cardinality(s) <= n + 1
        PROVE  h[s] = IF s = {} THEN 0 ELSE h[s \ {One(s)}] + g[One(s)]
    <3>1. CASE s = {}
      <4>1. Cardinality(s) = 0
        BY <3>1, FS_EmptySet
      <4>2. f[s] = 0
        BY <2>1, <3>1, <4>1
      <4> QED BY <3>1, <4>1, <4>2
    <3>2. CASE s # {}
      <4> DEFINE less == s \ {One(s)}
      <4>1. less \in SUBSET S /\ Cardinality(less) <= n
        BY <2>2, <3>2, OneOf, OneLess
      <4>2. h[less] = f[less]
        <5> HIDE DEF less
        <5> QED BY <4>1
      <4>3. CASE Cardinality(s) <= n
        <5>1. h[s] = f[s]
          BY <4>3
        <5>2. f[s] = f[less] + g[One(s)]
          BY <2>1, <3>2, <4>3
        <5> HIDE DEF h
        <5> QED BY <3>2, <4>2, <5>1, <5>2
      <4>4. CASE ~(Cardinality(s) <= n)
        <5>1. h[s] = f[less] + g[One(s)]
          BY <3>2, <4>4
        <5> HIDE DEF h
        <5> QED BY <3>2, <4>2, <5>1
      <4> QED BY <4>3, <4>4
    <3> QED BY <3>1, <3>2
  <2> HIDE DEF h
  <2>3. Good(h, n + 1)
    BY <2>2
  <2> HIDE DEF Good
  <2>4. n + 1 \in Nat
    OBVIOUS
  <2> QED BY <2>3, <2>4
<1> DEFINE size == Cardinality(S)
<1>3. size \in Nat
  BY FS_CardinalityType
<1> HIDE DEF T
<1>4. size \in T
  <2> HIDE DEF size
  <2> QED BY <1>1, <1>2, <1>3, SetInduction
<1>5. PICK f : Good(f, size)
  BY <1>4 DEF T
<1> DEFINE h == [s \in SUBSET S |-> f[s]]
<1>6. ASSUME NEW s \in SUBSET S
      PROVE  h[s] = IF s = {} THEN 0 ELSE h[s \ {One(s)}] + g[One(s)]
  <2>1. Cardinality(s) <= size
    BY FS_Subset
  <2>2. f[s] = IF s = {} THEN 0 ELSE f[s \ {One(s)}] + g[One(s)]
    BY <1>5, <2>1
  <2>3. s \ {One(s)} \in SUBSET S
    OBVIOUS
  <2>4. h[s] = f[s] /\ h[s \ {One(s)}] = f[s \ {One(s)}]
    BY <2>3
  <2> QED BY <2>2, <2>4
<1>7. h = [s \in SUBSET S |-> h[s]]
  OBVIOUS
<1> HIDE DEF h
<1>8. h = [s \in SUBSET S |-> IF s = {} THEN 0 ELSE h[s \ {One(s)}] + g[One(s)]]
  BY <1>6, <1>7
<1>9. Sums(h, S, g)
  BY <1>8 DEF Sums
<1> QED BY <1>9

\* The order does not matter: any element may come last.
LEMMA SumsAdd ==
  ASSUME NEW S, IsFiniteSet(S), NEW g \in [S -> Nat], NEW h, Sums(h, S, g)
  PROVE  /\ h[{}] = 0
         /\ \A s \in SUBSET S : h[s] \in Nat /\ \A x \in s : h[s] = h[s \ {x}] + g[x]
<1> DEFINE Good(s) == h[s] \in Nat /\ \A x \in s : h[s] = h[s \ {x}] + g[x]
           T == {n \in Nat : \A s \in SUBSET S : Cardinality(s) <= n => Good(s)}
<1>1. h[{}] = 0
  BY SumsValue
<1>2. 0 \in T
  <2> SUFFICES ASSUME NEW s \in SUBSET S, Cardinality(s) <= 0
               PROVE  Good(s)
    OBVIOUS
  <2>1. IsFiniteSet(s)
    BY FS_Subset
  <2>2. Cardinality(s) = 0
    BY <2>1, FS_CardinalityType
  <2>3. s = {}
    BY <2>1, <2>2, FS_EmptySet
  <2> QED BY <1>1, <2>3
<1>3. ASSUME NEW n \in Nat, n \in T
      PROVE  n + 1 \in T
  <2> SUFFICES ASSUME NEW s \in SUBSET S, Cardinality(s) <= n + 1
               PROVE  Good(s)
    OBVIOUS
  <2>1. CASE s = {}
    BY <1>1, <2>1
  <2>2. CASE s # {}
    <3> DEFINE y == One(s)
    <3>1. y \in s
      BY <2>2, OneOf
    <3>2. h[s] = h[s \ {y}] + g[y]
      BY <2>2, SumsValue
    <3> HIDE DEF y
    <3>3. ASSUME NEW x \in s
          PROVE  /\ s \ {x} \in SUBSET S /\ Cardinality(s \ {x}) <= n
                 /\ h[s \ {x}] \in Nat /\ g[x] \in Nat
                 /\ \A z \in s \ {x} : h[s \ {x}] = h[(s \ {x}) \ {z}] + g[z] /\ h[(s \ {x}) \ {z}] \in Nat
      <4>1. s \ {x} \in SUBSET S /\ Cardinality(s \ {x}) <= n
        BY OneLess
      <4>2. Good(s \ {x}) /\ g[x] \in Nat
        BY <1>3, <4>1
      <4>3. ASSUME NEW z \in s \ {x} PROVE h[(s \ {x}) \ {z}] \in Nat
        <5>1. IsFiniteSet(s \ {x}) /\ Cardinality(s \ {x}) <= n + 1
          BY <4>1, FS_Subset, FS_CardinalityType
        <5>2. (s \ {x}) \ {z} \in SUBSET S /\ Cardinality((s \ {x}) \ {z}) <= n
          BY <4>1, <5>1, OneLess
        <5> QED BY <1>3, <5>2
      <4> QED BY <4>1, <4>2, <4>3
    <3>4. h[s] \in Nat
      <4>1. h[s \ {y}] \in Nat /\ g[y] \in Nat
        BY <3>1, <3>3
      <4> QED BY ONLY <3>2, <4>1
    <3>5. ASSUME NEW x \in s PROVE h[s] = h[s \ {x}] + g[x]
      <4>1. CASE x = y
        BY <3>2, <4>1
      <4>2. CASE x # y
        <5>1. (s \ {x}) \ {y} = (s \ {y}) \ {x}
          OBVIOUS
        <5> DEFINE both == (s \ {x}) \ {y}
        <5>2. h[s \ {x}] = h[both] + g[y] /\ h[both] \in Nat
          BY <3>1, <3>3, <4>2
        <5>3. h[s \ {y}] = h[both] + g[x]
          BY <3>1, <3>3, <4>2, <5>1
        <5> HIDE DEF both
        <5>4. g[x] \in Nat /\ g[y] \in Nat
          BY <3>1, <3>3
        <5> QED BY <3>2, <5>2, <5>3, <5>4
      <4> QED BY <4>1, <4>2
    <3> QED BY <3>4, <3>5
  <2> QED BY <2>1, <2>2
<1> HIDE DEF T
<1>4. \A s \in SUBSET S : Good(s)
  <2> TAKE s \in SUBSET S
  <2>1. IsFiniteSet(s)
    BY FS_Subset
  <2>2. Cardinality(s) \in Nat
    BY <2>1, FS_CardinalityType
  <2>3. Cardinality(s) \in T
    BY <1>2, <1>3, <2>2, SetInduction
  <2>4. Cardinality(s) <= Cardinality(s)
    BY <2>2
  <2> QED BY <2>3, <2>4 DEF T
<1> QED BY <1>1, <1>4

\* f is what the first n of the sequences s make when they are joined, and ends[i] is
\* where the i-th of them ends in it.
Placed(ends, s, n, f) ==
  /\ ends \in [0..n -> Nat] /\ ends[0] = 0 /\ Len(f) = ends[n]
  /\ \A i \in 1..n : ends[i] = ends[i - 1] + Len(s[i])
  /\ \A i, h \in 0..n : i <= h => ends[i] <= ends[h]
  /\ \A i \in 1..n : \A j \in 1..Len(s[i]) : f[ends[i - 1] + j] = s[i][j]
  /\ \A p \in 1..ends[n] : \E i \in 1..n : ends[i - 1] < p /\ p <= ends[i]

\* One sequence more, behind the others.
LEMMA PlacedGrows ==
  ASSUME NEW S, NEW n, NEW s, NEW r, OneLonger(s, r, n, Seq(S)),
         NEW f \in Seq(S), NEW ends, Placed(ends, r, n, f)
  PROVE  \E more : Placed(more, s, n + 1, f \o s[n + 1])
<1> DEFINE m == n + 1
           last == s[m]
           l == Len(last)
           fl == Len(f)
           more == [i \in 0..m |-> IF i <= n THEN ends[i] ELSE ends[n] + l]
           g == f \o last
<1>1. n \in Nat /\ m \in Nat /\ m \in 1..m /\ ~(m <= n) /\ m - 1 = n
  BY DEF OneLonger
<1>2. /\ last \in Seq(S) /\ \A i \in 1..n : s[i] = r[i]
      /\ \A i \in 1..n : s[i] \in Seq(S)
  BY <1>1 DEF OneLonger
<1>3. l \in Nat /\ fl \in Nat
  BY <1>2
<1>4. /\ g \in Seq(S) /\ Len(g) = fl + l
      /\ \A p \in 1..(fl + l) : g[p] = IF p <= fl THEN f[p] ELSE last[p - fl]
  BY <1>2, ConcatProperties
<1>5. /\ ends \in [0..n -> Nat] /\ ends[0] = 0 /\ fl = ends[n]
      /\ \A i \in 1..n : ends[i] = ends[i - 1] + Len(s[i])
      /\ \A i, h \in 0..n : i <= h => ends[i] <= ends[h]
      /\ \A i \in 1..n : \A j \in 1..Len(s[i]) : f[ends[i - 1] + j] = s[i][j]
      /\ \A p \in 1..ends[n] : \E i \in 1..n : ends[i - 1] < p /\ p <= ends[i]
  BY <1>2 DEF Placed
<1>6. /\ \A i \in 0..n : more[i] = ends[i] /\ i \in 0..m
      /\ more[m] = fl + l /\ m \in 0..m
      /\ \A i \in 0..m : i \in 0..n \/ i = m
  <2>1. \A i \in 0..n : i \in 0..m /\ i <= n
    BY <1>1
  <2>2. m \in 0..m /\ \A i \in 0..m : i \in 0..n \/ i = m
    BY <1>1
  <2> HIDE DEF m, l, fl
  <2> QED BY <1>1, <1>5, <2>1, <2>2
<1>7. /\ \A i \in 1..m : i \in 1..n \/ i = m
      /\ \A i \in 1..n : i \in 0..n /\ i - 1 \in 0..n
      /\ n \in 0..n /\ 0 \in 0..n
  BY <1>1
<1>8. more \in [0..m -> Nat]
  <2> SUFFICES \A i \in 0..m : more[i] \in Nat
    OBVIOUS
  <2> HIDE DEF more, m, l, fl
  <2>1. fl + l \in Nat
    BY <1>3
  <2> QED BY <1>5, <1>6, <2>1
<1>9. ASSUME NEW i \in 1..n
      PROVE  /\ Len(s[i]) \in Nat /\ ends[i] \in Nat /\ ends[i - 1] \in Nat
             /\ ends[i] <= fl /\ more[i] = ends[i] /\ more[i - 1] = ends[i - 1]
             /\ ends[i] = ends[i - 1] + Len(s[i])
  <2>1. Len(s[i]) \in Nat
    BY <1>2
  <2>2. i \in 0..n /\ i - 1 \in 0..n /\ i <= n /\ n \in 0..n
    BY <1>1
  <2>3. ends[i] \in Nat /\ ends[i - 1] \in Nat /\ ends[i] <= fl
    BY <1>5, <2>2
  <2> HIDE DEF more, m, l, fl
  <2> QED BY <1>5, <1>6, <2>1, <2>2, <2>3
<1> HIDE DEF m, last, l, fl, g, more
<1>10. \A i \in 1..m : more[i] = more[i - 1] + Len(s[i])
  <2> TAKE i \in 1..m
  <2>1. CASE i \in 1..n
    BY <1>9, <2>1
  <2>2. CASE i = m
    <3>1. more[m - 1] = fl
      BY <1>1, <1>5, <1>6, <1>7
    <3> QED BY <1>6, <2>2, <3>1 DEF l, last
  <2> QED BY <1>7, <2>1, <2>2
<1>11. \A i, h \in 0..m : i <= h => more[i] <= more[h]
  <2> SUFFICES ASSUME NEW i \in 0..m, NEW h \in 0..m, i <= h
               PROVE  more[i] <= more[h]
    OBVIOUS
  <2>1. CASE h \in 0..n
    <3>1. i \in 0..n
      <4>1. i \in Nat /\ h <= n
        BY <2>1, <1>1
      <4> QED BY <1>1, <4>1
    <3> QED BY <1>5, <1>6, <2>1, <3>1
  <2>2. CASE h = m /\ i \in 0..n
    <3>1. i <= n
      BY <2>2
    <3>2. ends[i] <= fl /\ ends[i] \in Nat
      BY <1>5, <1>7, <2>2, <3>1
    <3>3. ends[i] <= fl + l
      BY <1>3, <3>2
    <3> QED BY <1>6, <2>2, <3>3
  <2>3. CASE h = m /\ i = m
    BY <1>3, <1>6, <2>3
  <2> QED BY <1>6, <2>1, <2>2, <2>3
<1>12. \A i \in 1..m : \A j \in 1..Len(s[i]) : g[more[i - 1] + j] = s[i][j]
  <2> TAKE i \in 1..m
  <2> TAKE j \in 1..Len(s[i])
  <2>1. CASE i \in 1..n
    <3> DEFINE a == ends[i - 1]
               b == Len(s[i])
    <3>1. /\ a \in Nat /\ b \in Nat /\ a + b <= fl /\ more[i - 1] = a
          /\ f[a + j] = s[i][j] /\ j \in 1..b
      BY <1>5, <1>9, <2>1
    <3> HIDE DEF a, b
    <3>2. a + j \in 1..(fl + l) /\ a + j <= fl
      BY <1>3, <3>1
    <3> QED BY <1>4, <3>1, <3>2
  <2>2. CASE i = m
    <3>1. more[i - 1] = fl /\ s[i] = last /\ j \in 1..l
      BY <1>1, <1>5, <1>6, <1>7, <2>2 DEF last, l
    <3> DEFINE p == fl + j
               x == p - fl
    <3>2. p \in 1..(fl + l) /\ ~(p <= fl) /\ x = j
      BY <1>3, <3>1
    <3> HIDE DEF p
    <3>3. g[p] = IF p <= fl THEN f[p] ELSE last[x]
      BY <1>4, <3>2
    <3> HIDE DEF x
    <3> QED BY <3>1, <3>2, <3>3 DEF p
  <2> QED BY <1>7, <2>1, <2>2
<1>13. \A p \in 1..more[m] : \E i \in 1..m : more[i - 1] < p /\ p <= more[i]
  <2> TAKE p \in 1..more[m]
  <2>1. p \in 1..(fl + l)
    BY <1>6
  <2>2. CASE p <= fl
    <3>1. p \in 1..ends[n]
      BY <1>3, <1>5, <2>1, <2>2
    <3>2. PICK i \in 1..n : ends[i - 1] < p /\ p <= ends[i]
      BY <1>5, <3>1
    <3>3. i \in 1..m
      BY <1>1 DEF m
    <3> QED BY <1>9, <3>2, <3>3
  <2>3. CASE ~(p <= fl)
    <3>1. more[m - 1] = fl /\ more[m] = fl + l
      BY <1>1, <1>5, <1>6, <1>7
    <3>2. fl < p /\ p <= fl + l
      BY <1>3, <2>1, <2>3
    <3> QED BY <1>1, <3>1, <3>2
  <2> QED BY <2>2, <2>3
<1>14. more[0] = 0 /\ Len(g) = more[m]
  BY <1>4, <1>5, <1>6, <1>7
<1>15. Placed(more, s, m, g)
  BY <1>8, <1>10, <1>11, <1>12, <1>13, <1>14 DEF Placed
<1> QED BY <1>15 DEF m, g, last

\* What FlattenSeq joins has such places.
LEMMA FlattenPlaces ==
  ASSUME NEW S, NEW n \in Nat, NEW s \in [1..n -> Seq(S)]
  PROVE  /\ FlattenSeq(s) \in Seq(S)
         /\ \E ends : Placed(ends, s, n, FlattenSeq(s))
<1> DEFINE Good(t, k) == FlattenSeq(t) \in Seq(S) /\ \E ends : Placed(ends, t, k, FlattenSeq(t))
           T == {k \in Nat : \A t \in [1..k -> Seq(S)] : Good(t, k)}
<1>1. 0 \in T
  <2> SUFFICES ASSUME NEW t \in [1..0 -> Seq(S)] PROVE Good(t, 0)
    OBVIOUS
  <2>1. t = << >> /\ Len(t) = 0
    OBVIOUS
  <2>2. FlattenSeq(t) = << >>
    BY <2>1 DEF FlattenSeq
  <2>3. << >> \in Seq(S) /\ Len(<< >>) = 0
    OBVIOUS
  <2>4. Placed([i \in 0..0 |-> 0], t, 0, << >>)
    BY <2>3 DEF Placed
  <2> QED BY <2>2, <2>3, <2>4
<1>2. ASSUME NEW k \in Nat, k \in T
      PROVE  k + 1 \in T
  <2> HIDE DEF Good
  <2> SUFFICES ASSUME NEW t \in [1..(k + 1) -> Seq(S)] PROVE Good(t, k + 1)
    OBVIOUS
  <2> USE DEF Good
  <2> DEFINE r == [i \in 1..k |-> t[i]]
  <2>1. r \in [1..k -> Seq(S)] /\ t[k + 1] \in Seq(S)
    OBVIOUS
  <2>2. OneLonger(t, r, k, Seq(S))
    BY <2>1 DEF OneLonger
  <2> HIDE DEF r
  <2>3. FlattenSeq(t) = FlattenSeq(r) \o t[k + 1]
    BY <2>2, FlattenStep
  <2>4. FlattenSeq(r) \in Seq(S)
    BY <1>2, <2>1
  <2>5. PICK ends : Placed(ends, r, k, FlattenSeq(r))
    BY <1>2, <2>1
  <2>6. \E more : Placed(more, t, k + 1, FlattenSeq(r) \o t[k + 1])
    BY <2>2, <2>4, <2>5, PlacedGrows
  <2>7. FlattenSeq(r) \o t[k + 1] \in Seq(S)
    BY <2>1, <2>4, ConcatProperties
  <2> QED BY <2>3, <2>6, <2>7
<1> HIDE DEF T
<1>3. n \in T
  BY <1>1, <1>2, SetInduction
<1> QED BY <1>3 DEF T

-----------------------------------------------------------------------------
(***************************************************************************)
(* The making of a path.                                                   *)
(***************************************************************************)

\* The beginnings of a path.
LEMMA Beginnings ==
  ASSUME NEW S, NEW s \in Seq(S), NEW n \in 0..Len(s)
  PROVE  /\ SubSeq(s, 1, n) \in Seq(S) /\ Len(SubSeq(s, 1, n)) = n
         /\ \A m \in 0..n : SubSeq(SubSeq(s, 1, n), 1, m) = SubSeq(s, 1, m)
         /\ n >= 1 => Front(SubSeq(s, 1, n)) = SubSeq(s, 1, n - 1)
         /\ SubSeq(s, 1, Len(s)) = s /\ SubSeq(s, 1, 0) = <<>>
<1>1. Len(s) \in Nat
  OBVIOUS
<1>2. ASSUME NEW m \in 0..n PROVE SubSeq(SubSeq(s, 1, n), 1, m) = SubSeq(s, 1, m)
  BY <1>1, <1>2, SMT
<1>3. SubSeq(s, 1, n) \in Seq(S) /\ Len(SubSeq(s, 1, n)) = n
  BY <1>1, SMT
<1>4. n >= 1 => Front(SubSeq(s, 1, n)) = SubSeq(s, 1, n - 1)
  BY <1>1, <1>2, <1>3 DEF Front
<1>5. SubSeq(s, 1, Len(s)) = s /\ SubSeq(s, 1, 0) = <<>>
  BY <1>1, SMT
<1> QED BY <1>2, <1>3, <1>4, <1>5

\* The whole of a path is one of them.
LEMMA Whole ==
  ASSUME NEW S, NEW s \in Seq(S)
  PROVE  /\ Len(s) \in Nat
         /\ SubSeq(s, 1, Len(s)) = s /\ SubSeq(s, 1, 0) = <<>>
<1>1. Len(s) \in Nat /\ Len(s) \in 0..Len(s)
  OBVIOUS
<1> QED BY <1>1, Beginnings

Depth(c) == Len(path[c].names)

Upto(c, n) == SubSeq(path[c].names, 1, n)

PathTypeOK ==
  /\ \A c \in Caller : /\ path[c].names \in Seq(Names) /\ path[c].slash \in BOOLEAN
                       /\ path[c].names = <<>> => path[c].slash
                       /\ level[c] \in 1..Levels(c)
  /\ dirs \subseteq Seq(Names) /\ files \subseteq Seq(Names)
  /\ level \in [Caller -> Nat]
  /\ pc \in [Caller -> {"stat", "mkdir", "done"}]
  /\ ret \in [Caller -> {0, -1}]

\* A file is in a directory, and nothing is in a file.
TreeInv ==
  /\ <<>> \in dirs
  /\ \A f \in files : f # <<>> /\ \A n \in 0..(Len(f) - 1) : SubSeq(f, 1, n) \in dirs
  /\ \A d \in dirs : \A n \in 0..Len(d) : SubSeq(d, 1, n) \notin files

\* What a caller has passed is there; all of it when the caller has succeeded.
Passed(c) ==
  /\ \A n \in 0..Depth(c) : n < level[c] => Upto(c, n) \in dirs \cup files
  /\ pc[c] = "done" /\ ret[c] = 0 =>
       /\ \A n \in 0..Depth(c) : Upto(c, n) \in dirs \cup files
       /\ path[c].slash => path[c].names \in dirs

PassedInv == \A c \in Caller : Passed(c)

\* A caller that has not failed and whose next call does not fail either.
Going(c) ==
  \/ pc[c] = "stat"
  \/ pc[c] = "mkdir" /\ MayMake(c)
  \/ pc[c] = "done" /\ ret[c] = 0

NobodyDenied == \A c \in Caller : ~Denied(c)

\* There is always one: who overtakes it takes its place.
LeaderInv ==
  NobodyDenied /\ (\E c \in Caller : ~Blocked(c)) => \E c \in Caller : ~Blocked(c) /\ Going(c)

PathInv == PathTypeOK /\ TreeInv /\ PassedInv /\ LeaderInv

\* The first states.
LEMMA PathInitInv == PathInit => PathInv
<1> SUFFICES ASSUME PathInit PROVE PathInv
  OBVIOUS
<1>1. ASSUME NEW k \in Nat, NEW s \in [1..k -> Names]
      PROVE  s \in Seq(Names) /\ Len(s) = k
  OBVIOUS
<1>2. ASSUME NEW c \in Caller
      PROVE  /\ path[c].names \in Seq(Names) /\ path[c].slash \in BOOLEAN
             /\ path[c].names = <<>> => path[c].slash
  <2>1. path[c] \in Path
    BY DEF PathInit
  <2>2. path[c].names \in NamesUpTo(MaxDepth)
    BY <2>1 DEF Path
  <2>3. PICK k \in 0..MaxDepth : path[c].names \in [1..k -> Names]
    BY <2>2 DEF NamesUpTo
  <2>4. k \in Nat
    BY <2>3, PathAssumption DEF PathAssumption
  <2> QED BY <2>1, <2>3, <2>4, <1>1 DEF Path
<1>3. ASSUME NEW c \in Caller PROVE 1 \in 1..Levels(c) /\ Depth(c) \in Nat
  <2>1. Len(path[c].names) \in Nat /\ (path[c].names # <<>> => Len(path[c].names) # 0)
    BY <1>2
  <2> DEFINE m == Len(path[c].names)
  <2>2. m \in Nat /\ (m >= 1 \/ path[c].slash)
    BY <1>2, <2>1
  <2>3. Levels(c) = m + (IF path[c].slash THEN 1 ELSE 0)
    BY DEF Levels
  <2> HIDE DEF m
  <2>4. Levels(c) \in Nat /\ Levels(c) >= 1
    BY <2>2, <2>3
  <2> QED BY <2>2, <2>4 DEF Depth, m
<1>4. \A c \in Caller : level[c] = 1 /\ pc[c] = "stat"
  BY DEF PathInit, FirstLevel
<1>5. PICK top \in {{<<>>}} \cup {{<<>>, <<name>>} : name \in Names} : dirs = top
  BY DEF PathInit
<1>6. <<>> \in dirs /\ dirs \subseteq Seq(Names) /\ \A d \in dirs : d = <<>> \/ Len(d) = 1
  <2>1. CASE dirs = {<<>>}
    BY <2>1
  <2>2. CASE \E name \in Names : dirs = {<<>>, <<name>>}
    BY <2>2
  <2> QED BY <1>5, <2>1, <2>2
<1>7. ASSUME NEW f \in files
      PROVE  f \in Seq(Names) /\ f \notin dirs /\ Front(f) \in dirs /\ (Len(f) = 1 \/ Len(f) = 2) /\ f # <<>>
  <2>1. f \in NamesUpTo(2) /\ f \notin dirs /\ Front(f) \in dirs
    <3>1. PICK obstacle \in {{}} \cup {{q} : q \in {r \in NamesUpTo(2) : /\ r \notin dirs
                                                                   /\ Front(r) \in dirs}} :
            files = obstacle \/ files = {}
      BY DEF PathInit
    <3> QED BY <3>1
  <2>2. PICK k \in 0..2 : f \in [1..k -> Names]
    BY <2>1 DEF NamesUpTo
  <2>3. f \in Seq(Names) /\ Len(f) = k
    BY <1>1, <2>2
  <2>4. f # <<>>
    BY <1>6, <2>1
  <2>5. Len(f) # 0
    BY <2>3, <2>4
  <2> QED BY <2>1, <2>2, <2>3, <2>4, <2>5
<1>8. TreeInv
  <2>1. ASSUME NEW f \in files, NEW n \in 0..(Len(f) - 1) PROVE SubSeq(f, 1, n) \in dirs
    <3>1. CASE n = 0
      BY <3>1, <1>6, <1>7, Whole
    <3>2. CASE n = 1
      <4>1. Len(f) = 2
        BY <1>7, <3>2
      <4>2. Front(f) = SubSeq(f, 1, 1)
        BY <4>1 DEF Front
      <4> QED BY <1>7, <3>2, <4>2
    <3>3. n = 0 \/ n = 1
      <4> DEFINE m == Len(f)
      <4>1. (m = 1 \/ m = 2) /\ n \in 0..(m - 1)
        BY <1>7
      <4> HIDE DEF m
      <4> QED BY <4>1
    <3> QED BY <3>1, <3>2, <3>3
  <2>2. ASSUME NEW d \in dirs, NEW n \in 0..Len(d) PROVE SubSeq(d, 1, n) \notin files
    <3>1. d \in Seq(Names) /\ (Len(d) = 0 \/ Len(d) = 1)
      BY <1>6
    <3>2. CASE n = 0
      BY <1>7, <3>1, <3>2, Whole
    <3>3. CASE n = Len(d)
      BY <1>7, <3>1, <3>3, Whole
    <3>4. n = 0 \/ n = Len(d)
      <4> DEFINE m == Len(d)
      <4>1. (m = 0 \/ m = 1) /\ n \in 0..m
        BY <3>1
      <4> HIDE DEF m
      <4>2. n = 0 \/ n = m
        BY <4>1
      <4> QED BY <4>2 DEF m
    <3> QED BY <3>2, <3>3, <3>4
  <2> QED BY <1>6, <1>7, <2>1, <2>2 DEF TreeInv
<1>9. PathTypeOK
  BY <1>2, <1>3, <1>4, <1>6, <1>7 DEF PathTypeOK, PathInit, FirstLevel
<1>10. PassedInv
  <2> SUFFICES ASSUME NEW c \in Caller, NEW n \in 0..Depth(c), n < 1
               PROVE  Upto(c, n) \in dirs \cup files
    BY <1>4 DEF PassedInv, Passed
  <2>1. n = 0
    BY <1>3
  <2> QED BY <1>2, <1>6, <2>1, Whole DEF Upto
<1> QED BY <1>4, <1>8, <1>9, <1>10 DEF PathInv, LeaderInv, Going

-----------------------------------------------------------------------------
\* What holds of a caller at its level: the path cut there, and what comes before.
LEMMA AtLevel ==
  ASSUME PathTypeOK, NEW c \in Caller
  PROVE  /\ Depth(c) \in Nat /\ level[c] \in Nat \ {0}
         /\ AtSlash(c) => path[c].slash /\ level[c] = Depth(c) + 1 /\ Cut(c) = path[c].names
         /\ ~AtSlash(c) => level[c] <= Depth(c) /\ Cut(c) = Upto(c, level[c])
         /\ ~(level[c] < Levels(c)) =>
              IF path[c].slash THEN AtSlash(c) ELSE ~AtSlash(c) /\ level[c] = Depth(c)
<1> DEFINE m == Len(path[c].names)
<1>1. m \in Nat /\ path[c].slash \in BOOLEAN /\ level[c] \in 1..Levels(c)
  BY DEF PathTypeOK
<1>2. /\ Levels(c) = m + (IF path[c].slash THEN 1 ELSE 0)
      /\ AtSlash(c) <=> level[c] > m
      /\ Depth(c) = m
  BY DEF Levels, AtSlash, Depth
<1>3. AtSlash(c) => Cut(c) = path[c].names
  BY DEF Cut
<1>4. ~AtSlash(c) => Cut(c) = Upto(c, level[c])
  BY DEF Cut, Upto
<1> HIDE DEF m
<1>5. CASE path[c].slash
  BY <1>1, <1>2, <1>3, <1>4, <1>5
<1>6. CASE ~path[c].slash
  BY <1>1, <1>2, <1>3, <1>4, <1>6
<1> QED BY <1>5, <1>6

\* The beginnings of the path of a caller.
LEMMA UptoFacts ==
  ASSUME PathTypeOK, NEW c \in Caller, NEW n \in 0..Depth(c)
  PROVE  /\ Upto(c, n) \in Seq(Names) /\ Len(Upto(c, n)) = n
         /\ \A m \in 0..n : SubSeq(Upto(c, n), 1, m) = Upto(c, m)
         /\ n >= 1 => Front(Upto(c, n)) = Upto(c, n - 1)
         /\ Upto(c, Depth(c)) = path[c].names
<1>1. path[c].names \in Seq(Names)
  BY DEF PathTypeOK
<1> QED BY <1>1, Beginnings, Whole DEF Upto, Depth

\* A beginning of a path of which there is a longer one is no file.
LEMMA NoFileBelow ==
  ASSUME PathTypeOK, TreeInv, NEW c \in Caller,
         NEW n \in 0..Depth(c), NEW m \in 0..n,
         Upto(c, n) \in dirs \/ (Upto(c, n) \in files /\ m < n)
  PROVE  Upto(c, m) \notin files
<1>1. /\ Len(Upto(c, n)) = n /\ Upto(c, m) = SubSeq(Upto(c, n), 1, m)
      /\ Upto(c, m) \in Seq(Names) /\ Len(Upto(c, m)) = m
  <2>1. Depth(c) \in Nat
    BY AtLevel
  <2>2. m \in 0..Depth(c)
    BY <2>1
  <2> QED BY <2>2, UptoFacts
<1>2. CASE Upto(c, n) \in dirs
  BY <1>1, <1>2 DEF TreeInv
<1>3. CASE Upto(c, n) \in files /\ m < n
  <2>1. m \in 0..(n - 1)
    BY <1>3
  <2>2. Upto(c, m) \in dirs
    BY <1>1, <1>3, <2>1 DEF TreeInv
  <2>3. SubSeq(Upto(c, m), 1, m) = Upto(c, m)
    BY <1>1, Whole
  <2>4. m \in 0..Len(Upto(c, m))
    BY <1>1
  <2> QED BY <2>2, <2>3, <2>4 DEF TreeInv
<1> QED BY <1>2, <1>3

\* A caller that can make a directory has no file in its way: the parent of a file
\* was there from the start.
LEMMA MakersAreFree ==
  ASSUME PathTypeOK, TreeInv, NEW c \in Caller, MayMake(c)
  PROVE  ~Blocked(c)
<1>1. /\ ~AtSlash(c) /\ Depth(c) \in Nat /\ level[c] \in Nat \ {0} /\ level[c] <= Depth(c)
      /\ Cut(c) = Upto(c, level[c])
  BY AtLevel DEF MayMake
<1> DEFINE l == level[c]
<1>2. l \in 0..Depth(c) /\ l - 1 \in 0..Depth(c)
  BY <1>1
<1>3. Front(Cut(c)) = Upto(c, l - 1)
  BY <1>1, <1>2, UptoFacts
<1>4. Upto(c, l - 1) \in dirs /\ Upto(c, l) \notin dirs \cup files
  BY <1>1, <1>3 DEF MayMake
<1> HIDE DEF l
<1>5. ASSUME NEW n \in 1..Depth(c), Upto(c, n) \in files PROVE FALSE
  <2>1. n \in 0..Depth(c) /\ n \in Nat
    BY <1>1, <1>5
  <2>2. CASE n < l
    <3>1. n \in 0..(l - 1)
      BY <1>2, <2>1, <2>2
    <3> QED BY <1>2, <1>4, <1>5, <3>1, NoFileBelow
  <2>3. CASE n >= l
    <3>1. n # l /\ l \in 0..(Len(Upto(c, n)) - 1)
      <4>1. n # l
        BY <1>4, <1>5
      <4>2. Len(Upto(c, n)) = n
        BY <2>1, UptoFacts
      <4> QED BY <1>2, <2>1, <2>3, <4>1, <4>2
    <3>2. SubSeq(Upto(c, n), 1, l) = Upto(c, l)
      <4>1. l \in 0..n
        BY <1>2, <2>1, <2>3
      <4> QED BY <2>1, <4>1, UptoFacts
    <3> QED BY <1>4, <1>5, <3>1, <3>2 DEF TreeInv
  <2> QED BY <1>2, <2>1, <2>2, <2>3
<1> SUFFICES ASSUME Blocked(c) PROVE FALSE
  OBVIOUS
<1>6. CASE \E n \in 1..(Len(path[c].names) - 1) : SubSeq(path[c].names, 1, n) \in files
  <2>1. PICK n \in 1..(Depth(c) - 1) : Upto(c, n) \in files
    BY <1>6 DEF Depth, Upto
  <2>2. n \in 1..Depth(c)
    BY <1>1, <2>1
  <2> QED BY <1>5, <2>1, <2>2
<1>7. CASE path[c].slash /\ path[c].names \in files
  <2>1. Depth(c) \in 1..Depth(c) /\ Depth(c) \in 0..Depth(c)
    BY <1>1
  <2>2. Upto(c, Depth(c)) = path[c].names
    BY <2>1, UptoFacts
  <2> QED BY <1>5, <1>7, <2>1, <2>2
<1> QED BY <1>6, <1>7 DEF Blocked

-----------------------------------------------------------------------------
(***************************************************************************)
(* The steps.                                                              *)
(***************************************************************************)

\* The calls of one caller, as far as the others see them.
LEMMA StepShape ==
  ASSUME PathInv, NEW c \in Caller, Stat(c) \/ Mkdir(c) \/ MkdirFails(c)
  PROVE  /\ path' = path /\ files' = files /\ denied' = denied /\ dirs \subseteq dirs'
         /\ \A b \in Caller \ {c} : pc'[b] = pc[b] /\ level'[b] = level[b] /\ ret'[b] = ret[b]
         /\ PathTypeOK'
<1>1. /\ path' = path /\ files' = files /\ denied' = denied /\ dirs \subseteq dirs'
      /\ dirs' \subseteq dirs \cup {Cut(c)}
  BY DEF Stat, Mkdir, MkdirFails
<1>2. /\ pc \in [Caller -> {"stat", "mkdir", "done"}] /\ level \in [Caller -> Nat]
      /\ ret \in [Caller -> {0, -1}]
  BY DEF PathInv, PathTypeOK
<1>3. /\ \E p \in {"stat", "mkdir", "done"} : pc' = [pc EXCEPT ![c] = p]
      /\ \E r \in {0, -1} : ret' = [ret EXCEPT ![c] = r] \/ ret' = ret
      /\ \/ level' = level
         \/ level[c] < Levels(c) /\ level' = [level EXCEPT ![c] = @ + 1]
  <2>1. CASE NextLevel(c)
    BY <2>1 DEF NextLevel, Return
  <2>2. CASE Return(c, -1)
    BY <2>2 DEF Return
  <2>3. CASE Stat(c)
    BY <2>1, <2>3 DEF Stat
  <2>4. CASE Mkdir(c)
    BY <2>1, <2>4 DEF Mkdir
  <2>5. CASE MkdirFails(c)
    BY <2>2, <2>5 DEF MkdirFails
  <2> QED BY <2>3, <2>4, <2>5
<1>4. \A b \in Caller \ {c} : pc'[b] = pc[b] /\ level'[b] = level[b] /\ ret'[b] = ret[b]
  BY <1>2, <1>3
<1>5. /\ pc' \in [Caller -> {"stat", "mkdir", "done"}] /\ level' \in [Caller -> Nat]
      /\ ret' \in [Caller -> {0, -1}]
  <2>1. pc' \in [Caller -> {"stat", "mkdir", "done"}]
    BY <1>2, <1>3
  <2>2. level' \in [Caller -> Nat]
    BY <1>2, <1>3
  <2>3. ret' \in [Caller -> {0, -1}]
    BY <1>2, <1>3
  <2> QED BY <2>1, <2>2, <2>3
<1>6. ASSUME NEW b \in Caller PROVE Levels(b)' = Levels(b)
  BY <1>1 DEF Levels
<1>7. \A b \in Caller : level'[b] \in 1..Levels(b)'
  <2>1. level[c] \in 1..Levels(c) /\ Levels(c) \in Int
    <3>1. Len(path[c].names) \in Nat /\ path[c].slash \in BOOLEAN
      BY DEF PathInv, PathTypeOK
    <3>2. Levels(c) \in Int
      BY <3>1 DEF Levels
    <3> QED BY <3>2 DEF PathInv, PathTypeOK
  <2>2. level'[c] = level[c] \/ (level[c] < Levels(c) /\ level'[c] = level[c] + 1)
    BY <1>2, <1>3
  <2>3. level'[c] \in 1..Levels(c)
    BY <2>1, <2>2
  <2> QED BY <1>4, <1>6, <2>3 DEF PathInv, PathTypeOK
<1>8. Cut(c) \in Seq(Names)
  <2>1. CASE AtSlash(c)
    BY <2>1, AtLevel DEF PathInv, PathTypeOK
  <2>2. CASE ~AtSlash(c)
    <3>1. level[c] \in 0..Depth(c)
      BY <2>2, AtLevel DEF PathInv
    <3> QED BY <2>2, <3>1, AtLevel, UptoFacts DEF PathInv
  <2> QED BY <2>1, <2>2
<1> QED BY <1>1, <1>4, <1>5, <1>7, <1>8 DEF PathInv, PathTypeOK

\* The root and a new directory in a directory: the tree stays one.
LEMMA TreeStays ==
  ASSUME PathInv, NEW c \in Caller, Stat(c) \/ Mkdir(c) \/ MkdirFails(c)
  PROVE  TreeInv'
<1>1. files' = files /\ dirs \subseteq dirs'
  BY StepShape
<1>2. CASE dirs' = dirs
  BY <1>1, <1>2 DEF PathInv, TreeInv
<1>3. CASE Mkdir(c)
  <2> DEFINE l == level[c]
  <2>1. /\ ~AtSlash(c) /\ Depth(c) \in Nat /\ l \in Nat \ {0} /\ l <= Depth(c)
        /\ Cut(c) = Upto(c, l)
    BY <1>3, AtLevel DEF PathInv, Mkdir, MayMake
  <2>2. l \in 0..Depth(c) /\ l - 1 \in 0..Depth(c)
    BY <2>1
  <2>3. Front(Cut(c)) = Upto(c, l - 1) /\ Len(Cut(c)) = l
    BY <2>1, <2>2, UptoFacts DEF PathInv
  <2>4. Upto(c, l - 1) \in dirs /\ Upto(c, l) \notin files
    BY <1>3, <2>1, <2>3 DEF Mkdir, MayMake
  <2> HIDE DEF l
  <2>5. ASSUME NEW n \in 0..l PROVE Upto(c, n) \notin files
    <3>1. CASE n = l
      BY <2>4, <3>1
    <3>2. CASE n # l
      <4>1. n \in 0..(l - 1)
        BY <2>1, <3>2
      <4> QED BY <2>2, <2>4, <4>1, NoFileBelow DEF PathInv
    <3> QED BY <3>1, <3>2
  <2>6. \A n \in 0..Len(Cut(c)) : SubSeq(Cut(c), 1, n) \notin files
    <3>1. \A n \in 0..l : SubSeq(Upto(c, l), 1, n) = Upto(c, n)
      BY <2>2, UptoFacts DEF PathInv
    <3> QED BY <2>1, <2>3, <2>5, <3>1
  <2>7. dirs' = dirs \cup {Cut(c)}
    BY <1>3 DEF Mkdir
  <2> QED BY <1>1, <2>6, <2>7 DEF PathInv, TreeInv
<1>4. CASE Stat(c) \/ MkdirFails(c)
  BY <1>2, <1>4 DEF Stat, MkdirFails
<1> QED BY <1>3, <1>4

\* A caller goes on from its level only when that is there.
LEMMA PassedStays ==
  ASSUME PathInv, NEW c \in Caller, Stat(c) \/ Mkdir(c) \/ MkdirFails(c)
  PROVE  PassedInv'
<1>1. /\ path' = path /\ files' = files /\ dirs \subseteq dirs'
      /\ \A b \in Caller \ {c} : pc'[b] = pc[b] /\ level'[b] = level[b] /\ ret'[b] = ret[b]
  BY StepShape
<1>2. /\ pc \in [Caller -> {"stat", "mkdir", "done"}] /\ level \in [Caller -> Nat]
      /\ ret \in [Caller -> {0, -1}]
  BY DEF PathInv, PathTypeOK
<1>3. \A b \in Caller : Passed(b)
  BY DEF PathInv, PassedInv, Passed
<1>4. ASSUME NEW b \in Caller
      PROVE  Depth(b)' = Depth(b) /\ \A n \in 0..Depth(b) : Upto(b, n)' = Upto(b, n)
  BY <1>1 DEF Depth, Upto
<1>5. ASSUME NEW b \in Caller, b # c PROVE Passed(b)'
  BY <1>1, <1>3, <1>4, <1>5 DEF Passed
<1>6. Depth(c) \in Nat /\ level[c] \in Nat
  BY AtLevel DEF PathInv
<1>7. \A n \in 0..Depth(c) : n < level[c] => Upto(c, n) \in dirs' \cup files'
  BY <1>1, <1>3 DEF Passed
<1>8. ASSUME NextLevel(c), AtSlash(c) => path[c].names \in dirs',
             ~AtSlash(c) => Cut(c) \in dirs' \cup files'
      PROVE  Passed(c)'
  <2>1. ASSUME NEW n \in 0..Depth(c), n < level[c] + 1 PROVE Upto(c, n) \in dirs' \cup files'
    <3>1. CASE n < level[c]
      BY <1>7, <3>1
    <3>2. CASE n = level[c]
      <4>1. ~AtSlash(c) /\ Cut(c) = Upto(c, n)
        BY <1>6, <3>2, AtLevel DEF PathInv
      <4> QED BY <1>8, <4>1
    <3> QED BY <1>6, <2>1, <3>1, <3>2
  <2>2. CASE level[c] < Levels(c)
    <3>1. level'[c] = level[c] + 1 /\ pc'[c] = "stat"
      BY <1>2, <1>8, <2>2 DEF NextLevel
    <3>2. \A n \in 0..Depth(c)' : n < level'[c] => Upto(c, n)' \in dirs' \cup files'
      BY <1>4, <2>1, <3>1
    <3> QED BY <3>1, <3>2 DEF Passed
  <2>3. CASE ~(level[c] < Levels(c))
    <3>1. IF path[c].slash THEN AtSlash(c) ELSE ~AtSlash(c) /\ level[c] = Depth(c)
      BY <2>3, AtLevel DEF PathInv
    <3>2. level[c] >= Depth(c)
      BY <1>6, <3>1, AtLevel DEF PathInv
    <3>3. \A n \in 0..Depth(c) : n < level[c] + 1
      BY <1>6, <3>2
    <3>4. \A n \in 0..Depth(c)' : Upto(c, n)' \in dirs' \cup files'
      BY <1>4, <2>1, <3>3
    <3>5. path'[c].slash => path'[c].names \in dirs'
      BY <1>1, <1>8, <3>1
    <3> QED BY <3>4, <3>5 DEF Passed
  <2> QED BY <2>2, <2>3
<1>9. ASSUME level' = level, pc'[c] # "done" \/ ret'[c] # 0 PROVE Passed(c)'
  <2>1. \A n \in 0..Depth(c)' : n < level'[c] => Upto(c, n)' \in dirs' \cup files'
    BY <1>4, <1>7, <1>9
  <2> QED BY <1>9, <2>1 DEF Passed
<1>10. Passed(c)'
  <2>1. CASE Stat(c) /\ Found(c)
    <3>1. NextLevel(c)
      BY <2>1 DEF Stat
    <3>2. AtSlash(c) => path[c].names \in dirs
      BY <2>1 DEF Found, Cut
    <3>3. Cut(c) \in dirs \cup files
      BY <2>1 DEF Found
    <3> QED BY <1>1, <1>8, <3>1, <3>2, <3>3
  <2>2. CASE Stat(c) /\ ~Found(c)
    <3>1. level' = level /\ pc'[c] = "mkdir"
      BY <1>2, <2>2 DEF Stat
    <3> QED BY <1>9, <3>1
  <2>3. CASE Mkdir(c)
    <3>1. NextLevel(c) /\ ~AtSlash(c) /\ Cut(c) \in dirs'
      BY <2>3 DEF Mkdir, MayMake
    <3> QED BY <1>8, <3>1
  <2>4. CASE MkdirFails(c)
    <3>1. level' = level /\ ret'[c] = -1
      BY <1>2, <2>4 DEF MkdirFails, Return
    <3> QED BY <1>9, <3>1
  <2> QED BY <2>1, <2>2, <2>3, <2>4
<1> QED BY <1>5, <1>10 DEF PassedInv

\* A caller that has no file in its way and has not failed goes on, until another
\* one makes the directory that it was about to make; then that one goes on.
LEMMA LeaderStays ==
  ASSUME PathInv, NEW c \in Caller, Stat(c) \/ Mkdir(c) \/ MkdirFails(c)
  PROVE  LeaderInv'
<1>1. /\ path' = path /\ files' = files /\ denied' = denied
      /\ \A b \in Caller \ {c} : pc'[b] = pc[b] /\ level'[b] = level[b] /\ ret'[b] = ret[b]
  BY StepShape
<1>2. /\ pc \in [Caller -> {"stat", "mkdir", "done"}] /\ level \in [Caller -> Nat]
      /\ ret \in [Caller -> {0, -1}]
  BY DEF PathInv, PathTypeOK
<1>3. \A b \in Caller : Blocked(b)' = Blocked(b) /\ Denied(b)' = Denied(b)
  BY <1>1 DEF Blocked, Denied
<1>4. NextLevel(c) => Going(c)'
  BY <1>2 DEF NextLevel, Return, Going
<1>5. CASE Mkdir(c)
  <2>1. ~Blocked(c) /\ NextLevel(c)
    BY <1>5, MakersAreFree DEF Mkdir, PathInv
  <2> QED BY <1>3, <1>4, <2>1 DEF LeaderInv
<1>6. CASE Stat(c) \/ MkdirFails(c)
  <2> SUFFICES ASSUME NobodyDenied, \E b \in Caller : ~Blocked(b)
               PROVE  \E b \in Caller : ~Blocked(b) /\ Going(b)'
    BY <1>3 DEF LeaderInv, NobodyDenied
  <2>1. PICK b \in Caller : ~Blocked(b) /\ Going(b)
    BY DEF PathInv, LeaderInv
  <2>2. dirs' = dirs
    BY <1>6 DEF Stat, MkdirFails
  <2>3. CASE b # c
    <3>1. MayMake(b)' = MayMake(b)
      BY <1>1, <2>2, <2>3 DEF MayMake, AtSlash, Cut
    <3> QED BY <1>1, <2>1, <2>3, <3>1 DEF Going
  <2>4. CASE b = c /\ MkdirFails(c)
    BY <2>1, <2>4 DEF Going, MkdirFails
  <2>5. CASE b = c /\ Stat(c) /\ Found(c)
    BY <1>4, <2>1, <2>5 DEF Stat
  <2>6. CASE b = c /\ Stat(c) /\ ~Found(c)
    <3>1. pc'[c] = "mkdir" /\ level' = level
      BY <1>2, <2>6 DEF Stat
    <3>2. Depth(c) \in Nat /\ level[c] \in Nat \ {0}
      BY AtLevel DEF PathInv
    <3>3. ~AtSlash(c)
      <4> SUFFICES ASSUME AtSlash(c) PROVE FALSE
        OBVIOUS
      <4>1. path[c].slash /\ level[c] = Depth(c) + 1 /\ Cut(c) = path[c].names
        BY AtLevel DEF PathInv
      <4>2. Depth(c) \in 0..Depth(c) /\ Depth(c) < level[c]
        BY <3>2, <4>1
      <4>3. path[c].names \in dirs \cup files
        BY <4>2, UptoFacts DEF PathInv, PassedInv, Passed
      <4> QED BY <2>1, <2>6, <4>1, <4>3 DEF Found, Blocked
    <3>4. level[c] <= Depth(c) /\ Cut(c) = Upto(c, level[c])
      BY <3>3, AtLevel DEF PathInv
    <3>5. level[c] \in 0..Depth(c) /\ level[c] - 1 \in 0..Depth(c) /\ level[c] - 1 < level[c]
      BY <3>2, <3>4
    <3>6. Front(Cut(c)) = Upto(c, level[c] - 1)
      BY <3>2, <3>4, <3>5, UptoFacts DEF PathInv
    <3>7. Upto(c, level[c] - 1) \in dirs \cup files
      BY <3>5 DEF PathInv, PassedInv, Passed
    <3>8. Upto(c, level[c] - 1) \notin files
      <4> SUFFICES ASSUME Upto(c, level[c] - 1) \in files PROVE FALSE
        OBVIOUS
      <4>1. level[c] - 1 # 0
        <5>1. Len(Upto(c, level[c] - 1)) = level[c] - 1 /\ Upto(c, level[c] - 1) \in Seq(Names)
          BY <3>5, UptoFacts DEF PathInv
        <5>2. Upto(c, level[c] - 1) # <<>>
          BY DEF PathInv, TreeInv
        <5> QED BY <5>1, <5>2
      <4>2. level[c] - 1 \in 1..(Depth(c) - 1)
        BY <3>2, <3>4, <4>1
      <4> QED BY <2>1, <2>6, <4>2 DEF Blocked, Upto, Depth
    <3>9. Cut(c) \notin denied
      <4>1. level[c] \in 1..Depth(c)
        BY <3>2, <3>4
      <4> QED BY <3>4, <4>1 DEF NobodyDenied, Denied, Depth, Upto
    <3>10. MayMake(c)
      BY <2>6, <3>3, <3>6, <3>7, <3>8, <3>9 DEF MayMake, Found
    <3>11. MayMake(c)'
      BY <1>1, <2>2, <3>1, <3>10 DEF MayMake, AtSlash, Cut
    <3> QED BY <2>1, <2>6, <3>1, <3>11 DEF Going
  <2> QED BY <1>6, <2>3, <2>4, <2>5, <2>6
<1> QED BY <1>5, <1>6

\* Every step.
LEMMA PathStepInv == PathInv /\ [PathNext]_pathVars => PathInv'
<1> SUFFICES ASSUME PathInv, [PathNext]_pathVars PROVE PathInv'
  OBVIOUS
<1>1. CASE UNCHANGED pathVars
  BY <1>1 DEF pathVars, PathInv, PathTypeOK, TreeInv, PassedInv, Passed, LeaderInv, NobodyDenied,
              Denied, Blocked, Going,
              MayMake, AtSlash, Cut, Levels, Depth, Upto
<1>2. ASSUME NEW c \in Caller, Stat(c) \/ Mkdir(c) \/ MkdirFails(c) PROVE PathInv'
  BY <1>2, StepShape, TreeStays, PassedStays, LeaderStays DEF PathInv
<1> QED BY <1>1, <1>2 DEF PathNext

\* catcierge_make_path by any number of callers, one system call at a time, over
\* every tree of files and directories of PathInit: when a caller returns 0, all of its
\* path is there, as directories but for a regular file at its end; and as long as no
\* directory is denied, the callers without a file in their way do not all fail,
\* however they overtake one another.
THEOREM PathGetsMade == PathSpec => []PathIsMade
<1>1. PathInv => PathIsMade
  <2> SUFFICES ASSUME PathInv PROVE PathIsMade
    OBVIOUS
  <2>1. SomeoneMakesIt
    BY DEF SomeoneMakesIt, AllDone, PathInv, LeaderInv, NobodyDenied, Going
  <2>2. MadeIsThere
    <3> SUFFICES ASSUME NEW c \in Caller, pc[c] = "done", ret[c] = 0
                 PROVE  /\ \A n \in 0..(Depth(c) - 1) : Upto(c, n) \in dirs
                        /\ path[c].names \in dirs
                             \/ (~path[c].slash /\ path[c].names \in files)
      BY DEF MadeIsThere, Depth, Upto
    <3>1. \A n \in 0..Depth(c) : Upto(c, n) \in dirs \cup files
      BY DEF PathInv, PassedInv, Passed
    <3>2. path[c].slash => path[c].names \in dirs
      BY DEF PathInv, PassedInv, Passed
    <3>3. Depth(c) \in Nat /\ Depth(c) \in 0..Depth(c)
      BY AtLevel DEF PathInv
    <3>4. ASSUME NEW n \in 0..(Depth(c) - 1) PROVE Upto(c, n) \in dirs
      <4>1. n + 1 \in 0..Depth(c) /\ n \in 0..(n + 1) /\ n < n + 1
        BY <3>3
      <4>2. Upto(c, n + 1) \in dirs \cup files /\ n \in 0..Depth(c)
        BY <3>1, <3>3, <4>1
      <4>3. Upto(c, n) \notin files
        BY <4>1, <4>2, NoFileBelow DEF PathInv
      <4> QED BY <3>1, <4>2, <4>3
    <3>5. path[c].names \in dirs \cup files
      BY <3>1, <3>3, UptoFacts DEF PathInv
    <3> QED BY <3>2, <3>4, <3>5
  <2> QED BY <2>1, <2>2 DEF PathIsMade
<1> QED BY <1>1, PathInitInv, PathStepInv, PTL DEF PathSpec

-----------------------------------------------------------------------------
(***************************************************************************)
(* The relative path.                                                      *)
(***************************************************************************)

\* The characters of a text; what they are does not matter.
Chars == STRING \cup {"/"}

\* Names are texts without slashes, and not empty.
LEMMA NamesAreTexts ==
  /\ "/" \in Chars
  /\ \A name \in Names :
       /\ name \in Seq(Chars) /\ Len(name) \in Nat /\ Len(name) > 0
       /\ \A i \in 1..Len(name) : name[i] # "/"
<1>1. "/" \in Chars
  BY DEF Chars
<1>2. ASSUME NEW name \in Names
      PROVE  name \in Seq(Chars) /\ name # << >> /\ \A i \in 1..Len(name) : name[i] # "/"
  <2>1. name \in Seq(STRING) /\ name # << >> /\ \A i \in 1..Len(name) : name[i] # "/"
    BY PathAssumption DEF Contains
  <2>2. STRING \subseteq Chars
    BY DEF Chars
  <2> QED BY <2>1, <2>2, SeqMonotonic
<1>3. ASSUME NEW S, NEW s \in Seq(S), s # << >>
      PROVE  Len(s) \in Nat /\ Len(s) > 0
  BY <1>3, EmptySeq
<1> QED BY <1>1, <1>2, <1>3

\* A text with one name more, and the slash behind it.
LEMMA LongerText ==
  ASSUME NEW S, NEW text \in Seq(S), NEW name \in Seq(S), NEW slash \in S,
         NEW longer, longer = text \o Append(name, slash)
  PROVE  /\ longer \in Seq(S)
         /\ Len(text) \in Nat /\ Len(name) \in Nat /\ Len(longer) = Len(text) + Len(name) + 1
         /\ \A i \in 1..Len(text) : longer[i] = text[i]
         /\ \A i \in 1..Len(name) : longer[Len(text) + i] = name[i]
         /\ longer[Len(longer)] = slash
<1> DEFINE line == Append(name, slash)
<1>1. /\ line \in Seq(S) /\ Len(line) = Len(name) + 1
      /\ \A i \in 1..Len(name) : line[i] = name[i]
      /\ line[Len(name) + 1] = slash
  BY AppendProperties
<1> HIDE DEF line
<1>2. /\ text \o line \in Seq(S) /\ Len(text \o line) = Len(text) + Len(line)
      /\ \A i \in 1..(Len(text) + Len(line)) :
           (text \o line)[i] = IF i <= Len(text) THEN text[i] ELSE line[i - Len(text)]
  BY <1>1, ConcatProperties
<1>3. longer = text \o line
  BY DEF line
<1>4. Len(text) \in Nat /\ Len(name) \in Nat
  BY LenProperties
<1>5. /\ longer \in Seq(S) /\ Len(longer) = Len(text) + Len(name) + 1
      /\ \A i \in 1..(Len(text) + Len(name) + 1) :
           longer[i] = IF i <= Len(text) THEN text[i] ELSE line[i - Len(text)]
  BY <1>1, <1>2, <1>3, <1>4
<1> DEFINE a == Len(text)
           b == Len(name)
<1> HIDE DEF a, b
<1>6. a \in Nat /\ b \in Nat
  BY <1>4 DEF a, b
<1>7. /\ \A i \in 1..(a + b + 1) : longer[i] = IF i <= a THEN text[i] ELSE line[i - a]
      /\ \A i \in 1..b : line[i] = name[i]
      /\ line[b + 1] = slash
  BY <1>1, <1>5 DEF a, b
<1>8. \A i \in 1..a : longer[i] = text[i]
  BY ONLY <1>6, <1>7
<1>9. \A i \in 1..b : longer[a + i] = name[i]
  <2> TAKE i \in 1..b
  <2>1. a + i \in 1..(a + b + 1) /\ ~(a + i <= a) /\ a + i - a = i
    BY <1>6
  <2>2. longer[a + i] = line[a + i - a]
    BY ONLY <1>6, <1>7, <2>1
  <2> QED BY <1>7, <2>1, <2>2
<1>10. longer[a + b + 1] = slash
  <2>1. a + b + 1 \in 1..(a + b + 1) /\ ~(a + b + 1 <= a) /\ a + b + 1 - a = b + 1
    BY <1>6
  <2>2. longer[a + b + 1] = line[a + b + 1 - a]
    BY ONLY <1>6, <1>7, <2>1
  <2> QED BY <1>7, <2>1, <2>2
<1> QED BY <1>4, <1>5, <1>8, <1>9, <1>10 DEF a, b

Lines(names) == [i \in DOMAIN names |-> Append(names[i], "/")]

\* The names of a path, each with its slash.
LEMMA LinesType ==
  ASSUME NEW k \in Nat, NEW names \in [1..k -> Names]
  PROVE  /\ Lines(names) \in [1..k -> Seq(Chars)]
         /\ \A i \in 1..k : Lines(names)[i] = Append(names[i], "/")
<1>1. DOMAIN names = 1..k
  OBVIOUS
<1>2. ASSUME NEW i \in 1..k
      PROVE  Append(names[i], "/") \in Seq(Chars)
  BY NamesAreTexts, AppendProperties
<1> QED BY <1>1, <1>2 DEF Lines

\* The text of a path grows by one name and one slash.
LEMMA LinesFlatten ==
  ASSUME NEW k, NEW names, NEW before, OneLonger(names, before, k, Names)
  PROVE  FlattenSeq(Lines(names)) = FlattenSeq(Lines(before)) \o Append(names[k + 1], "/")
<1> DEFINE m == k + 1
           s == Lines(names)
           r == Lines(before)
<1>1. /\ k \in Nat /\ m \in Nat /\ m \in 1..m /\ \A i \in 1..k : i \in 1..m
      /\ names \in [1..m -> Names] /\ before \in [1..k -> Names]
      /\ \A i \in 1..k : names[i] = before[i]
  BY DEF OneLonger
<1> HIDE DEF m
<1>2. s \in [1..m -> Seq(Chars)] /\ \A i \in 1..m : s[i] = Append(names[i], "/")
  BY <1>1, LinesType
<1>3. r \in [1..k -> Seq(Chars)] /\ \A i \in 1..k : r[i] = Append(before[i], "/")
  BY <1>1, LinesType
<1> HIDE DEF s, r
<1>4. OneLonger(s, r, k, Seq(Chars))
  BY <1>1, <1>2, <1>3 DEF OneLonger, m
<1>5. FlattenSeq(s) = FlattenSeq(r) \o s[k + 1]
  BY <1>4, FlattenStep
<1>6. s[k + 1] = Append(names[k + 1], "/")
  BY <1>1, <1>2 DEF m
<1> QED BY <1>5, <1>6 DEF s, r

\* They make a text.
LEMMA FlatType ==
  ASSUME NEW k \in Nat, NEW names \in [1..k -> Names]
  PROVE  FlattenSeq(Lines(names)) \in Seq(Chars)
<1> DEFINE T == {n \in Nat : \A nn \in [1..n -> Names] : FlattenSeq(Lines(nn)) \in Seq(Chars)}
<1>1. 0 \in T
  <2> SUFFICES ASSUME NEW nn \in [1..0 -> Names]
               PROVE  FlattenSeq(Lines(nn)) \in Seq(Chars)
    OBVIOUS
  <2>1. Lines(nn) = << >>
    BY DEF Lines
  <2>2. Len(<< >>) = 0 /\ << >> \in Seq(Chars)
    BY EmptySeq
  <2> QED BY <2>1, <2>2 DEF FlattenSeq
<1>2. ASSUME NEW n \in Nat, n \in T
      PROVE  n + 1 \in T
  <2> DEFINE m == n + 1
  <2>1. m \in Nat /\ m \in 1..m /\ \A i \in 1..n : i \in 1..m
    OBVIOUS
  <2> SUFFICES ASSUME NEW nn \in [1..m -> Names]
               PROVE  FlattenSeq(Lines(nn)) \in Seq(Chars)
    BY <2>1
  <2> DEFINE before == [i \in 1..n |-> nn[i]]
  <2>2. OneLonger(nn, before, n, Names)
    BY <2>1 DEF OneLonger
  <2>3. before \in [1..n -> Names]
    BY <2>1
  <2> HIDE DEF before
  <2>4. FlattenSeq(Lines(nn)) = FlattenSeq(Lines(before)) \o Append(nn[m], "/")
    BY <2>2, LinesFlatten
  <2>5. FlattenSeq(Lines(before)) \in Seq(Chars)
    BY <1>2, <2>3
  <2>6. nn[m] \in Seq(Chars) /\ "/" \in Chars
    BY <2>1, NamesAreTexts
  <2> HIDE DEF m
  <2> QED BY <2>4, <2>5, <2>6, LongerText
<1> HIDE DEF T
<1>3. k \in T
  BY <1>1, <1>2, SetInduction
<1> QED BY <1>3 DEF T

\* The text of a directory one level down.
LEMMA DirTextStep ==
  ASSUME NEW k, NEW names, NEW before, OneLonger(names, before, k, Names)
  PROVE  /\ DirText(before) \in Seq(Chars) /\ names[k + 1] \in Names
         /\ DirText(names) = DirText(before) \o Append(names[k + 1], "/")
<1> DEFINE flat == FlattenSeq(Lines(before))
           line == Append(names[k + 1], "/")
<1>1. k \in Nat /\ before \in [1..k -> Names] /\ names[k + 1] \in Names
  BY DEF OneLonger
<1>2. flat \in Seq(Chars)
  BY <1>1, FlatType
<1>3. names[k + 1] \in Seq(Chars) /\ "/" \in Chars
  BY <1>1, NamesAreTexts
<1>4. line \in Seq(Chars)
  BY <1>3, AppendProperties
<1>5. FlattenSeq(Lines(names)) = flat \o line
  BY LinesFlatten
<1>6. DirText(names) = <<"/">> \o FlattenSeq(Lines(names)) /\ DirText(before) = <<"/">> \o flat
  BY DEF DirText, Lines
<1> HIDE DEF flat, line
<1>7. <<"/">> \in Seq(Chars)
  BY <1>3
<1>8. <<"/">> \o flat \in Seq(Chars)
  BY <1>2, <1>7, ConcatProperties
<1>9. <<"/">> \o (flat \o line) = (<<"/">> \o flat) \o line
  BY <1>2, <1>4, <1>7, ConcatAssociative
<1> QED BY <1>1, <1>5, <1>6, <1>8, <1>9 DEF line

\* The text of the first j names, and where it ends.
At(names, j) == DirText(SubSeq(names, 1, j))

End(names, j) == Len(At(names, j))

\* The text of j names begins with the text of fewer, and its slashes are the ends
\* of those; between two of them there is a name.
TextInv(names, j) ==
  /\ At(names, j) \in Seq(Chars)
  /\ \A i \in 0..j : /\ End(names, i) \in 1..End(names, j)
                     /\ \A x \in 1..End(names, i) : At(names, j)[x] = At(names, i)[x]
  /\ \A x \in 1..End(names, j) : At(names, j)[x] = "/" <=> \E i \in 0..j : x = End(names, i)
  /\ \A i, h \in 0..j : i < h => End(names, i) + 1 < End(names, h)

\* The text of the root.
LEMMA RootText ==
  ASSUME NEW names \in Seq(Names)
  PROVE  At(names, 0) = <<"/">> /\ TextInv(names, 0)
<1>1. SubSeq(names, 1, 0) = << >>
  BY SubSeqEmpty
<1>2. FlattenSeq(Lines(<< >>)) = << >>
  <2>1. Lines(<< >>) = << >> /\ Len(<< >>) = 0
    BY DEF Lines
  <2> QED BY <2>1 DEF FlattenSeq
<1>3. "/" \in Chars /\ <<"/">> \in Seq(Chars) /\ Len(<<"/">>) = 1 /\ <<"/">>[1] = "/"
  BY NamesAreTexts
<1>4. <<"/">> \o << >> = <<"/">>
  BY <1>3, ConcatEmptySeq
<1>5. At(names, 0) = <<"/">>
  BY <1>1, <1>2, <1>4 DEF At, DirText, Lines
<1> DEFINE A == At(names, 0)
<1>6. A \in Seq(Chars) /\ Len(A) = 1 /\ A[1] = "/"
  BY <1>3, <1>5
<1>7. A = At(names, 0)
  OBVIOUS
<1> HIDE DEF A
<1>8. End(names, 0) = 1
  BY <1>6, <1>7 DEF End
<1>9. TextInv(names, 0)
  BY <1>6, <1>7, <1>8 DEF TextInv
<1> QED BY <1>5, <1>9

\* The names up to one more.
LEMMA NextName ==
  ASSUME NEW names \in Seq(Names), NEW j \in Nat, j + 1 <= Len(names)
  PROVE  OneLonger(SubSeq(names, 1, j + 1), SubSeq(names, 1, j), j, Names)
<1> DEFINE n == Len(names)
           s == SubSeq(names, 1, j + 1)
           r == SubSeq(names, 1, j)
<1>1. n \in Nat /\ \A i \in 1..n : names[i] \in Names
  OBVIOUS
<1>2. s = [i \in 1..(j + 1) |-> names[i]] /\ r = [i \in 1..j |-> names[i]]
  OBVIOUS
<1> HIDE DEF s, r, n
<1>3. /\ \A i \in 1..(j + 1) : i \in 1..n
      /\ \A i \in 1..j : i \in 1..n /\ i \in 1..(j + 1)
  BY <1>1 DEF n
<1>4. s \in [1..(j + 1) -> Names] /\ r \in [1..j -> Names]
  BY <1>1, <1>2, <1>3
<1>5. \A i \in 1..j : s[i] = r[i]
  BY <1>2, <1>3
<1>6. OneLonger(s, r, j, Names)
  BY <1>4, <1>5 DEF OneLonger
<1> QED BY <1>6 DEF s, r

\* A name more keeps it so.
LEMMA TextGrows ==
  ASSUME NEW names \in Seq(Names), NEW j \in Nat, j + 1 <= Len(names), TextInv(names, j)
  PROVE  TextInv(names, j + 1)
<1> DEFINE A == At(names, j)
           B == At(names, j + 1)
           a == Len(A)
           b == Len(B)
           name == SubSeq(names, 1, j + 1)[j + 1]
           l == Len(name)
           m == j + 1
<1>1. A \in Seq(Chars) /\ name \in Names /\ B = A \o Append(name, "/")
  <2>1. OneLonger(SubSeq(names, 1, j + 1), SubSeq(names, 1, j), j, Names)
    BY NextName
  <2> QED BY <2>1, DirTextStep DEF At
<1> HIDE DEF A, B, name
<1>2. name \in Seq(Chars) /\ "/" \in Chars /\ l \in Nat /\ l > 0 /\ \A i \in 1..l : name[i] # "/"
  BY <1>1, NamesAreTexts
<1>3. /\ B \in Seq(Chars)
      /\ a \in Nat /\ b = a + l + 1
      /\ \A x \in 1..a : B[x] = A[x]
      /\ \A x \in 1..l : B[a + x] = name[x]
      /\ B[b] = "/"
  BY <1>1, <1>2, LongerText
<1>4. /\ End(names, j) = a /\ End(names, m) = b
      /\ At(names, j) = A /\ At(names, m) = B
  BY DEF End, A, B
<1> HIDE DEF a, b, l, m
<1>5. m = j + 1 /\ m \in Nat /\ \A i \in 0..m : i = m \/ i \in 0..j
  BY DEF m
<1>6. a \in Nat /\ b \in Nat /\ l \in Nat /\ l > 0 /\ b = a + l + 1
  BY <1>2, <1>3
<1>7. \A i \in 0..j : /\ End(names, i) \in 1..a
                      /\ \A x \in 1..End(names, i) : A[x] = At(names, i)[x]
  BY <1>4 DEF TextInv
<1>8. \A x \in 1..a : A[x] = "/" <=> \E i \in 0..j : x = End(names, i)
  BY <1>4 DEF TextInv
<1>9. \A i, h \in 0..j : i < h => End(names, i) + 1 < End(names, h)
  BY DEF TextInv
<1>10. ASSUME NEW i \in 0..m
       PROVE  /\ End(names, i) \in 1..b
              /\ \A x \in 1..End(names, i) : B[x] = At(names, i)[x]
  <2>1. CASE i = m
    BY <2>1, <1>4, <1>6
  <2>2. CASE i \in 0..j
    <3>1. End(names, i) \in 1..a /\ \A x \in 1..End(names, i) : A[x] = At(names, i)[x]
      BY <1>7, <2>2
    <3>2. \A x \in 1..End(names, i) : x \in 1..a
      BY <3>1, <1>6
    <3>3. \A x \in 1..End(names, i) : B[x] = At(names, i)[x]
      BY <3>1, <3>2, <1>3
    <3>4. End(names, i) \in 1..b
      BY <3>1, <1>6
    <3> QED BY <3>3, <3>4
  <2> QED BY <1>5, <2>1, <2>2
<1>11. ASSUME NEW x \in 1..b
       PROVE  B[x] = "/" <=> \E i \in 0..m : x = End(names, i)
  <2>1. CASE x <= a
    <3>1. x \in 1..a /\ x # b
      BY <2>1, <1>6
    <3>2. B[x] = "/" <=> \E i \in 0..j : x = End(names, i)
      BY <3>1, <1>3, <1>8
    <3>3. \A i \in 0..j : i \in 0..m
      BY <1>5
    <3> QED BY <3>1, <3>2, <3>3, <1>4, <1>5
  <2>2. CASE a < x /\ x < b
    <3>1. x - a \in 1..l /\ a + (x - a) = x
      BY <2>2, <1>6
    <3>2. B[x] # "/"
      BY <3>1, <1>2, <1>3
    <3>3. \A i \in 0..j : x # End(names, i)
      BY <2>2, <1>6, <1>7
    <3>4. x # End(names, m)
      BY <2>2, <1>4, <1>6
    <3> QED BY <3>2, <3>3, <3>4, <1>5
  <2>3. CASE x = b
    <3>1. m \in 0..m
      BY <1>5
    <3> QED BY <2>3, <3>1, <1>3, <1>4
  <2> QED BY <1>6, <2>1, <2>2, <2>3
<1>12. ASSUME NEW i \in 0..m, NEW h \in 0..m, i < h
       PROVE  End(names, i) + 1 < End(names, h)
  <2>1. i \in 0..j
    BY <1>5, <1>12
  <2>2. CASE h \in 0..j
    BY <2>1, <2>2, <1>9, <1>12
  <2>3. CASE h = m
    <3>1. End(names, i) \in 1..a
      BY <2>1, <1>7
    <3> QED BY <2>3, <3>1, <1>4, <1>6
  <2> QED BY <1>5, <2>2, <2>3
<1>13. TextInv(names, m)
  BY <1>3, <1>4, <1>10, <1>11, <1>12 DEF TextInv
<1> QED BY <1>13 DEF m

\* It holds of every path.
LEMMA TextIsRight ==
  ASSUME NEW names \in Seq(Names), NEW j \in 0..Len(names)
  PROVE  TextInv(names, j)
<1> DEFINE T == {n \in Nat : n <= Len(names) => TextInv(names, n)}
<1>1. 0 \in T
  BY RootText
<1>2. ASSUME NEW n \in Nat, n \in T
      PROVE  n + 1 \in T
  <2> SUFFICES ASSUME n + 1 <= Len(names) PROVE TextInv(names, n + 1)
    OBVIOUS
  <2>1. n <= Len(names)
    OBVIOUS
  <2>2. TextInv(names, n)
    BY <1>2, <2>1
  <2> QED BY <2>2, TextGrows
<1> HIDE DEF T
<1>3. Nat \subseteq T
  BY <1>1, <1>2, SetInduction
<1>4. j \in Nat /\ j <= Len(names)
  OBVIOUS
<1>5. j \in T
  BY <1>3, <1>4
<1> QED BY <1>4, <1>5 DEF T

SlashesIn(t) == Cardinality({i \in DOMAIN t : t[i] = "/"})

\* Behind the j-th name there are as many slashes as there are names yet to end.
LEMMA SlashCount ==
  ASSUME NEW names \in Seq(Names), NEW k, k = Len(names),
         NEW h \in 0..k, NEW j \in 0..h, NEW n \in Nat,
         End(names, h) <= n, n <= End(names, k), h < k => n < End(names, h + 1),
         NEW r, Len(r) = n - End(names, j), DOMAIN r = 1..(n - End(names, j)),
         \A i \in 1..(n - End(names, j)) : r[i] = At(names, k)[End(names, j) + i]
  PROVE  SlashesIn(r) = h - j
<1> DEFINE D == At(names, k)
           e == End(names, j)
           S == (j + 1)..h
           T == {i \in 1..(n - e) : r[i] = "/"}
           f == [m \in S |-> End(names, m) - e]
<1>1. k \in Nat /\ h \in Nat /\ j \in Nat /\ h \in 0..k /\ j \in 0..k
      /\ \A m \in S : m \in 0..k /\ j < m /\ m <= h
  <2>1. k \in Nat
    OBVIOUS
  <2> QED BY <2>1
<1>2. TextInv(names, k)
  BY <1>1, TextIsRight
<1>3. End(names, k) \in Nat
  <2>1. D \in Seq(Chars)
    BY <1>2 DEF TextInv
  <2> QED BY <2>1 DEF End
<1>4. /\ \A m \in 0..k : End(names, m) \in 1..End(names, k)
      /\ \A x \in 1..End(names, k) : D[x] = "/" <=> \E m \in 0..k : x = End(names, m)
      /\ \A m, o \in 0..k : m < o => End(names, m) + 1 < End(names, o)
  BY <1>2 DEF TextInv
<1>5. e \in Nat /\ e <= n /\ \A m \in 0..k : End(names, m) \in Nat
  <2>1. \A m \in 0..k : End(names, m) \in Nat
    BY <1>3, <1>4
  <2>2. j = h \/ j < h
    BY <1>1
  <2>3. j < h => e + 1 < End(names, h)
    BY <1>1, <1>4
  <2>4. e \in Nat /\ End(names, h) \in Nat
    BY <2>1, <1>1
  <2> QED BY <2>1, <2>2, <2>3, <2>4
<1> HIDE DEF D, e, S, T, f
<1>6. \A i \in 1..(n - e) : r[i] = D[e + i]
  BY DEF D, e
<1>7. ASSUME NEW m \in S
      PROVE  End(names, m) - e \in T
  <2>1. m \in 0..k /\ j < m /\ m <= h
    BY <1>1 DEF S
  <2>2. e + 1 < End(names, m) /\ End(names, m) \in Nat
    BY <2>1, <1>1, <1>4, <1>5 DEF e
  <2>3. End(names, m) <= n
    <3>1. CASE m = h
      BY <3>1
    <3>2. CASE m < h
      <4>1. End(names, m) + 1 < End(names, h) /\ End(names, h) \in Nat
        BY <3>2, <2>1, <1>1, <1>4, <1>5
      <4> QED BY <4>1, <2>2
    <3> QED BY <3>1, <3>2, <2>1, <1>1
  <2>4. End(names, m) - e \in 1..(n - e) /\ e + (End(names, m) - e) = End(names, m)
    BY <1>5, <2>2, <2>3
  <2>5. D[End(names, m)] = "/"
    BY <2>1, <1>4
  <2> QED BY <2>4, <2>5, <1>6 DEF T
<1>8. f \in [S -> T]
  BY <1>7 DEF f
<1>9. ASSUME NEW m \in S, NEW o \in S, f[m] = f[o]
      PROVE  m = o
  <2>1. m \in 0..k /\ o \in 0..k
    BY <1>1 DEF S
  <2>2. End(names, m) - e = End(names, o) - e
    BY <1>9 DEF f
  <2>3. End(names, m) \in Nat /\ End(names, o) \in Nat
    BY <2>1, <1>5
  <2>4. End(names, m) = End(names, o)
    BY <2>2, <2>3, <1>5
  <2>5. (m < o => End(names, m) + 1 < End(names, o)) /\ (o < m => End(names, o) + 1 < End(names, m))
    BY <2>1, <1>4
  <2>6. ~(m < o) /\ ~(o < m)
    BY <2>3, <2>4, <2>5
  <2> QED BY <2>1, <2>6, <1>1
<1>10. ASSUME NEW i \in T
       PROVE  \E m \in S : f[m] = i
  <2>1. i \in 1..(n - e) /\ r[i] = "/"
    BY DEF T
  <2>2. e + i \in 1..End(names, k) /\ e + i <= n
    BY <2>1, <1>3, <1>5
  <2>3. D[e + i] = "/"
    BY <2>1, <1>6
  <2>4. PICK m \in 0..k : e + i = End(names, m)
    BY <2>2, <2>3, <1>4
  <2>5. j < m
    <3> SUFFICES ASSUME ~(j < m) PROVE FALSE
      OBVIOUS
    <3>1. m = j \/ m < j
      BY <1>1
    <3>2. m < j => End(names, m) + 1 < e
      BY <1>1, <1>4 DEF e
    <3>3. m = j => End(names, m) = e
      BY DEF e
    <3> QED BY <2>1, <2>4, <3>1, <3>2, <3>3, <1>5
  <2>6. m <= h
    <3> SUFFICES ASSUME h < m PROVE FALSE
      BY <1>1
    <3>1. h < k /\ h + 1 \in 0..k /\ (m = h + 1 \/ h + 1 < m)
      BY <1>1
    <3>2. n < End(names, h + 1)
      BY <3>1
    <3>3. h + 1 < m => End(names, h + 1) + 1 < End(names, m)
      BY <3>1, <1>4
    <3>4. End(names, m) <= n /\ End(names, m) \in Nat /\ End(names, h + 1) \in Nat
      BY <2>2, <2>4, <3>1, <1>5
    <3> QED BY <3>1, <3>2, <3>3, <3>4
  <2>7. m \in S /\ End(names, m) - e = i
    BY <2>1, <2>4, <2>5, <2>6, <1>1, <1>5 DEF S
  <2> QED BY <2>7 DEF f
<1>11. f \in Bijection(S, T)
  BY <1>8, <1>9, <1>10, Fun_IsBij
<1>12. IsFiniteSet(S) /\ Cardinality(S) = h - j
  <2>1. j + 1 \in Int /\ h \in Int /\ j <= h
    BY <1>1
  <2>2. IsFiniteSet(S) /\ Cardinality(S) = IF j + 1 > h THEN 0 ELSE h - (j + 1) + 1
    BY <2>1, FS_Interval DEF S
  <2> QED BY <2>1, <2>2
<1>13. Cardinality(T) = Cardinality(S)
  <2>1. ExistsBijection(S, T)
    BY <1>11 DEF ExistsBijection
  <2> QED BY <2>1, <1>12, FS_Bijection
<1>14. T = {i \in DOMAIN r : r[i] = "/"}
  BY DEF T, e
<1> QED BY <1>12, <1>13, <1>14 DEF SlashesIn

IsPath(p) ==
  p \in [names : Seq(Names), slash : BOOLEAN] /\ (p.names = << >> => p.slash)

\* The directory of a path.
Base(p) == IF p.slash THEN p.names ELSE Front(p.names)

\* The directory of a path is a beginning of it.
LEMMA BaseFacts ==
  ASSUME NEW p, IsPath(p)
  PROVE  /\ Len(p.names) \in Nat /\ Base(p) \in Seq(Names)
         /\ Len(Base(p)) \in Nat /\ Len(Base(p)) = Len(p.names) - (IF p.slash THEN 0 ELSE 1)
         /\ \A j \in 0..Len(Base(p)) : SubSeq(Base(p), 1, j) = SubSeq(p.names, 1, j)
<1> DEFINE names == p.names
           k == Len(names)
<1>1. names \in Seq(Names) /\ k \in Nat
  BY DEF IsPath
<1>2. CASE p.slash
  BY <1>1, <1>2 DEF Base
<1>3. CASE ~p.slash
  <2>1. names # << >> /\ k > 0
    BY <1>1, <1>3, EmptySeq DEF IsPath
  <2>2. k - 1 \in 0..k /\ k - 1 \in Nat
    BY <1>1, <2>1
  <2>3. /\ SubSeq(names, 1, k - 1) \in Seq(Names) /\ Len(SubSeq(names, 1, k - 1)) = k - 1
        /\ \A m \in 0..(k - 1) : SubSeq(SubSeq(names, 1, k - 1), 1, m) = SubSeq(names, 1, m)
    BY <1>1, <2>2, Beginnings
  <2>4. Base(p) = SubSeq(names, 1, k - 1)
    BY <1>3 DEF Base, Front
  <2> HIDE DEF k, names
  <2> QED BY <1>1, <1>3, <2>2, <2>3, <2>4 DEF k, names
<1> QED BY <1>2, <1>3 DEF IsPath

\* What the text of a path is.
TextFacts(p) ==
  LET t == Text(p)
      names == p.names
      k == Len(names)
      h == Len(Base(p))
  IN  /\ t \in Seq(Chars) /\ Len(t) \in Nat /\ Len(t) >= 1
      /\ \A x \in 1..Len(t) : t[x] = At(names, k)[x]
      /\ End(names, h) <= Len(t) /\ Len(t) <= End(names, k)
      /\ h < k => Len(t) < End(names, h + 1)
      /\ p.slash => t = At(names, k) /\ t[Len(t)] = "/"
      /\ ~p.slash => t[Len(t)] # "/" /\ Len(t) > 1

\* What a text is, for every path.
LEMMA TextIsText ==
  ASSUME NEW p, IsPath(p)
  PROVE  TextFacts(p)
<1> DEFINE names == p.names
           k == Len(names)
           h == Len(Base(p))
           D == At(names, k)
           e == End(names, k)
<1>1. /\ names \in Seq(Names) /\ k \in Nat /\ h \in Nat /\ h = k - (IF p.slash THEN 0 ELSE 1)
      /\ p.slash \in BOOLEAN
  BY BaseFacts DEF IsPath
<1>2. Text(p) = IF p.slash THEN D ELSE SubSeq(D, 1, Len(D) - 1)
  BY <1>1, Whole DEF Text, At, Front
<1>3. TextInv(names, k)
  BY <1>1, TextIsRight
<1>4. D \in Seq(Chars) /\ e = Len(D)
  BY <1>3 DEF TextInv, End
<1>5. e \in Nat /\ e >= 1
  <2>1. e \in 1..e
    BY <1>1, <1>3 DEF TextInv
  <2>2. e \in Nat
    BY <1>4
  <2> QED BY <2>1, <2>2
<1>6. D[e] = "/"
  <2>1. e \in 1..e /\ k \in 0..k
    BY <1>1, <1>5
  <2> QED BY <1>3, <2>1 DEF TextInv
<1> HIDE DEF D, e, h, k, names
<1>7. CASE p.slash
  <2>1. h = k /\ End(names, h) = e /\ End(names, k) = e /\ Text(p) = D /\ At(names, k) = D
    BY <1>1, <1>2, <1>7 DEF e, D
  <2>2. p.slash => Text(p) = D /\ Text(p)[Len(Text(p))] = "/"
    BY <1>4, <1>6, <2>1
  <2>3. ~(h < k)
    BY <1>1, <2>1
  <2> HIDE DEF TextFacts
  <2>4. /\ Text(p) \in Seq(Chars) /\ Len(Text(p)) \in Nat /\ Len(Text(p)) >= 1
        /\ \A x \in 1..Len(Text(p)) : Text(p)[x] = At(names, k)[x]
        /\ End(names, h) <= Len(Text(p)) /\ Len(Text(p)) <= End(names, k)
    BY <1>4, <1>5, <2>1
  <2> QED BY <1>7, <2>1, <2>2, <2>3, <2>4 DEF TextFacts, h, k, names
<1>8. CASE ~p.slash
  <2>1. h + 1 = k /\ h < k /\ h \in 0..k /\ k \in 0..k
    BY <1>1, <1>8
  <2>2. End(names, h) + 1 < e /\ End(names, h) \in 1..e /\ End(names, h + 1) = e /\ End(names, k) = e
    BY <1>3, <2>1 DEF TextInv, e
  <2>3. Text(p) = SubSeq(D, 1, e - 1) /\ At(names, k) = D
    BY <1>2, <1>4, <1>8 DEF D
  <2>4. e - 1 \in 0..e /\ e - 1 \in Nat /\ e - 1 >= 1 /\ e > 2
    BY <1>5, <2>2
  <2> DEFINE t == Text(p)
  <2>5. /\ t \in Seq(Chars) /\ Len(t) = e - 1
        /\ \A x \in 1..(e - 1) : t[x] = D[x]
    BY <1>4, <1>5, <2>3, <2>4
  <2>6. t[Len(t)] # "/"
    <3>1. e - 1 \in 1..e /\ e - 1 \in 1..(e - 1)
      BY <2>4, <1>5
    <3>2. t[Len(t)] = D[e - 1]
      BY <3>1, <2>5
    <3>3. \A i \in 0..k : e - 1 # End(names, i)
      <4> TAKE i \in 0..k
      <4>1. i < k => End(names, i) + 1 < e
        BY <2>1, <1>3, <1>1 DEF TextInv, e
      <4>2. i = k => End(names, i) = e
        BY DEF e
      <4>3. End(names, i) \in 1..e
        BY <1>3 DEF TextInv, e
      <4>4. End(names, i) \in Nat
        BY <4>3, <1>5
      <4> QED BY <4>1, <4>2, <4>4, <1>1, <1>5
    <3>4. D[e - 1] = "/" <=> \E i \in 0..k : e - 1 = End(names, i)
      BY <3>1, <1>3 DEF TextInv, e, D
    <3> QED BY <3>2, <3>3, <3>4
  <2>7. /\ Len(t) \in Nat /\ Len(t) >= 1 /\ Len(t) > 1
        /\ End(names, h) <= Len(t) /\ Len(t) <= End(names, k) /\ Len(t) < End(names, h + 1)
    <3>1. End(names, h) \in Nat
      BY <2>2, <1>5
    <3> QED BY <3>1, <2>2, <2>4, <2>5, <1>5
  <2>8. \A x \in 1..Len(t) : t[x] = At(names, k)[x]
    BY <2>3, <2>5
  <2> HIDE DEF t
  <2> QED BY <1>8, <2>5, <2>6, <2>7, <2>8 DEF TextFacts, h, k, names, t
<1> QED BY <1>1, <1>7, <1>8

\* What is behind the first n elements.
LEMMA RestOf ==
  ASSUME NEW S, NEW s \in Seq(S), NEW n \in 0..Len(s), NEW r, r = SubSeq(s, n + 1, Len(s))
  PROVE  /\ r \in Seq(S) /\ Len(r) = Len(s) - n /\ DOMAIN r = 1..(Len(s) - n)
         /\ \A i \in 1..(Len(s) - n) : r[i] = s[n + i]
<1> DEFINE l == Len(s)
<1>1. l \in Nat /\ \A i \in 1..l : s[i] \in S
  OBVIOUS
<1> HIDE DEF l
<1>2. n + 1 \in Int /\ l \in Int /\ \A i \in (n + 1)..l : s[i] \in S
  BY <1>1 DEF l
<1>3. /\ SubSeq(s, n + 1, l) \in Seq(S)
      /\ Len(SubSeq(s, n + 1, l)) = IF n + 1 <= l THEN l - (n + 1) + 1 ELSE 0
      /\ \A i \in 1..(l - (n + 1) + 1) : SubSeq(s, n + 1, l)[i] = s[n + 1 + i - 1]
  BY <1>2, SubSeqProperties
<1>4. l - (n + 1) + 1 = l - n /\ (IF n + 1 <= l THEN l - (n + 1) + 1 ELSE 0) = l - n
  BY <1>1 DEF l
<1>5. \A i \in 1..(l - n) : n + 1 + i - 1 = n + i
  BY <1>1
<1>6. r \in Seq(S) /\ Len(r) = l - n /\ \A i \in 1..(l - n) : r[i] = s[n + i]
  BY <1>3, <1>4, <1>5 DEF l
<1>7. DOMAIN r = 1..Len(r)
  BY <1>6, LenProperties
<1> QED BY <1>6, <1>7 DEF l

\* A text cut behind one of its slashes is the text of a directory above, or of the
\* directory itself, and the slashes behind it are the names that are left.
LEMMA CutAtSlash ==
  ASSUME NEW p, IsPath(p), NEW t, t = Text(p), NEW n \in 1..Len(t), t[n] = "/"
  PROVE  \E j \in 0..Len(Base(p)) :
           /\ DirText(SubSeq(Base(p), 1, j)) = SubSeq(t, 1, n)
           /\ SlashesIn(SubSeq(t, n + 1, Len(t))) = Len(Base(p)) - j
           /\ n < Len(t) => t[n + 1] # "/"
<1> DEFINE names == p.names
           k == Len(names)
           h == Len(Base(p))
           D == At(names, k)
           e == End(names, k)
           l == Len(t)
<1>1. /\ names \in Seq(Names) /\ k \in Nat /\ h \in Nat /\ h <= k /\ (h = k \/ h + 1 = k)
      /\ \A j \in 0..h : SubSeq(Base(p), 1, j) = SubSeq(names, 1, j)
  BY BaseFacts DEF IsPath
<1>2. /\ t \in Seq(Chars) /\ l \in Nat /\ l >= 1
      /\ \A x \in 1..l : t[x] = D[x]
      /\ End(names, h) <= l /\ l <= e /\ (h < k => l < End(names, h + 1))
  BY TextIsText DEF TextFacts
<1>3. TextInv(names, k)
  BY <1>1, TextIsRight
<1>4. D \in Seq(Chars) /\ e = Len(D) /\ e \in Nat
  BY <1>3 DEF TextInv, End
<1>5. n \in 1..l /\ t[n] = "/"
  OBVIOUS
<1> HIDE DEF names, k, h, D, e, l
<1>6. n \in 1..e /\ D[n] = "/" /\ n \in Nat
  BY <1>2, <1>4, <1>5
<1>7. PICK j \in 0..k : n = End(names, j)
  BY <1>3, <1>6 DEF TextInv, D, e
<1>8. j \in 0..h /\ j \in Nat
  <2> SUFFICES ASSUME ~(j <= h) PROVE FALSE
    BY <1>1
  <2>1. h < k /\ j = h + 1
    BY <1>1
  <2> QED BY <2>1, <1>2, <1>5, <1>7
<1>9. DirText(SubSeq(Base(p), 1, j)) = SubSeq(t, 1, n)
  <2> DEFINE A == At(names, j)
  <2>1. DirText(SubSeq(Base(p), 1, j)) = A
    BY <1>1, <1>8 DEF At
  <2>2. TextInv(names, j)
    <3>1. j \in 0..Len(names)
      BY DEF k
    <3> QED BY <1>1, <3>1, TextIsRight
  <2>3. A \in Seq(Chars) /\ Len(A) = n
    BY <1>7, <2>2 DEF TextInv, End
  <2>4. \A x \in 1..n : A[x] = D[x]
    BY <1>3, <1>7 DEF TextInv, D
  <2> HIDE DEF A
  <2>5. /\ SubSeq(t, 1, n) \in Seq(Chars) /\ Len(SubSeq(t, 1, n)) = n
        /\ \A x \in 1..n : SubSeq(t, 1, n)[x] = t[x]
    BY <1>2, <1>5, <1>6
  <2>6. \A x \in 1..n : SubSeq(t, 1, n)[x] = A[x]
    BY <1>2, <1>5, <1>6, <2>4, <2>5
  <2> QED BY <2>1, <2>3, <2>5, <2>6, SeqEqual
<1>10. SlashesIn(SubSeq(t, n + 1, l)) = h - j
  <2> DEFINE r == SubSeq(t, n + 1, l)
  <2>1. /\ r \in Seq(Chars) /\ Len(r) = l - n /\ DOMAIN r = 1..(l - n)
        /\ \A i \in 1..(l - n) : r[i] = t[n + i]
    <3>1. n \in 0..l
      BY <1>2, <1>5
    <3> QED BY <1>2, <3>1, RestOf DEF l
  <2>2. \A i \in 1..(l - n) : n + i \in 1..l
    BY <1>2, <1>5, <1>6
  <2>3. \A i \in 1..(l - n) : r[i] = D[n + i]
    BY <1>2, <2>1, <2>2
  <2> HIDE DEF r
  <2>4. /\ Len(r) = l - End(names, j) /\ DOMAIN r = 1..(l - End(names, j))
        /\ \A i \in 1..(l - End(names, j)) : r[i] = At(names, k)[End(names, j) + i]
    BY <1>7, <2>1, <2>3 DEF D
  <2>5. k = Len(names) /\ h \in 0..k /\ j \in 0..h /\ l \in Nat /\ End(names, h) <= l
        /\ l <= End(names, k) /\ (h < k => l < End(names, h + 1)) /\ names \in Seq(Names)
    BY <1>1, <1>2, <1>8 DEF k, e
  <2>6. SlashesIn(r) = h - j
    BY ONLY <2>4, <2>5, SlashCount
  <2> QED BY <2>6 DEF r
<1>11. n < l => t[n + 1] # "/"
  <2> SUFFICES ASSUME n < l, t[n + 1] = "/" PROVE FALSE
    OBVIOUS
  <2>1. n + 1 \in 1..e /\ D[n + 1] = "/"
    BY <1>2, <1>4, <1>6
  <2>2. PICK i \in 0..k : n + 1 = End(names, i)
    BY <1>3, <2>1 DEF TextInv, D, e
  <2>3. (j < i => n + 1 < End(names, i)) /\ (i < j => End(names, i) + 1 < n)
    BY <1>3, <1>7 DEF TextInv
  <2>4. i = j \/ i < j \/ j < i
    BY <1>1
  <2> QED BY <1>6, <1>7, <2>2, <2>3, <2>4
<1> QED BY <1>8, <1>9, <1>10, <1>11 DEF h, l

\* The first character of a text is a slash.
LEMMA FirstSlash ==
  ASSUME NEW p, IsPath(p)
  PROVE  Text(p)[1] = "/"
<1> DEFINE names == p.names
           k == Len(names)
<1>1. names \in Seq(Names) /\ k \in Nat
  BY BaseFacts DEF IsPath
<1>2. 1 \in 1..Len(Text(p)) /\ \A x \in 1..Len(Text(p)) : Text(p)[x] = At(names, k)[x]
  BY TextIsText DEF TextFacts
<1>3. At(names, 0) = <<"/">> /\ End(names, 0) = 1
  BY <1>1, RootText DEF End
<1>4. TextInv(names, k) /\ 0 \in 0..k
  BY <1>1, TextIsRight
<1>5. At(names, k)[1] = At(names, 0)[1]
  BY <1>3, <1>4 DEF TextInv
<1> QED BY <1>2, <1>3, <1>5

\* What catcierge_path_common_prefix finds.
IsCommon(n, t1, t2) ==
  /\ n \in Nat /\ n <= Len(t1) /\ n <= Len(t2)
  /\ SubSeq(t1, 1, n) = SubSeq(t2, 1, n)
  /\ n = Len(t1) \/ (t1[n + 1] = "/" /\ n < Len(t2) /\ t2[n + 1] = "/")

\* It is common to both texts, and ends with the first or before a slash of both.
LEMMA PrefixIsCommon ==
  ASSUME NEW S, NEW t1 \in Seq(S), NEW t2 \in Seq(S), Len(t1) >= 1, Len(t2) >= 1,
         t1[1] = "/", t2[1] = "/"
  PROVE  IsCommon(CommonPrefix(t1, t2), t1, t2)
<1> DEFINE a == Len(t1)
           b == Len(t2)
           Common(n) == /\ SubSeq(t1, 1, n) = SubSeq(t2, 1, n)
                        /\ \/ n = Len(t1)
                           \/ t1[n + 1] = "/" /\ n < Len(t2) /\ t2[n + 1] = "/"
           T == {0} \cup {n \in 0..Min({Len(t1), Len(t2)}) : Common(n)}
<1>1. a \in Nat /\ b \in Nat
  BY LenProperties
<1>2. Min({a, b}) \in {a, b} /\ Min({a, b}) <= a /\ Min({a, b}) <= b
  <2> HIDE DEF a, b
  <2>1. \E x \in {a, b} : \A y \in {a, b} : x =< y
    <3>1. CASE a <= b
      BY <1>1, <3>1
    <3>2. CASE b <= a
      BY <1>1, <3>2
    <3> QED BY <1>1, <3>1, <3>2
  <2> QED BY <2>1 DEF Min
<1>3. T \in SUBSET Nat /\ T # {} /\ \A n \in T : n <= a /\ n <= b
  <2> DEFINE q == Min({a, b})
  <2>1. q \in Nat /\ q <= a /\ q <= b
    BY <1>1, <1>2
  <2> HIDE DEF q, Common, a, b
  <2>2. T = {0} \cup {n \in 0..q : Common(n)}
    BY DEF q, a, b
  <2> HIDE DEF T
  <2> QED BY <1>1, <2>1, <2>2
<1>4. Max(T) \in T
  <2> HIDE DEF T, a, b
  <2> QED BY <1>1, <1>3, Greatest
<1>5. CommonPrefix(t1, t2) = Max(T)
  BY DEF CommonPrefix
<1>6. Common(0)
  <2>1. SubSeq(t1, 1, 0) = << >> /\ SubSeq(t2, 1, 0) = << >>
    BY SubSeqEmpty
  <2> QED BY <2>1, <1>1
<1>7. \A n \in T : Common(n)
  BY <1>6
<1> DEFINE m == Max(T)
<1>8. m \in Nat /\ m <= a /\ m <= b /\ Common(m)
  <2> HIDE DEF Common, T, a, b
  <2> QED BY <1>3, <1>4, <1>7
<1> HIDE DEF m, T
<1>9. IsCommon(m, t1, t2)
  BY <1>8 DEF IsCommon
<1> QED BY <1>5, <1>9 DEF m

\* What is left of a text behind n characters, without a slash in front.
LEMMA SkippedRest ==
  ASSUME NEW S, NEW t \in Seq(S), NEW n \in 0..Len(t)
  PROVE  LET rest == SkipSlash(SubSeq(t, n + 1, Len(t)))
         IN  /\ n < Len(t) /\ t[n + 1] = "/" => rest = SubSeq(t, n + 2, Len(t))
             /\ n < Len(t) /\ t[n + 1] # "/" => rest = SubSeq(t, n + 1, Len(t))
             /\ n = Len(t) => rest = << >>
<1>1. Len(t) \in Nat
  BY LenProperties
<1> DEFINE r == SubSeq(t, n + 1, Len(t))
<1>2. CASE n = Len(t)
  <2>1. r = << >>
    BY <1>1, <1>2, SubSeqEmpty
  <2> QED BY <1>1, <1>2, <2>1 DEF SkipSlash
<1>3. CASE n < Len(t)
  <2>1. n + 1 \in 1..Len(t) /\ Len(t) \in (n + 1)..Len(t) /\ n + 1 + 1 = n + 2 /\ n # Len(t)
    BY <1>1, <1>3
  <2>2. Head(r) = t[n + 1] /\ Tail(r) = SubSeq(t, n + 1 + 1, Len(t))
    BY <2>1, HeadTailOfSubSeq
  <2>3. r # << >>
    <3>1. Len(r) = Len(t) - n
      BY RestOf
    <3>2. Len(r) # 0
      BY <3>1, <1>1, <1>3
    <3> HIDE DEF r
    <3>3. Len(<< >>) = 0
      OBVIOUS
    <3> QED BY <3>2, <3>3
  <2> HIDE DEF r
  <2>4. SkipSlash(r) = IF t[n + 1] = "/" THEN SubSeq(t, n + 2, Len(t)) ELSE r
    BY <2>1, <2>2, <2>3 DEF SkipSlash
  <2> QED BY <2>1, <2>4 DEF r
<1> QED BY <1>1, <1>2, <1>3

\* The number of "../" behind a common prefix of n characters: one for each slash
\* that is left, but for the one that comes first.
UpsOf(from, n) ==
  LET left == Components(SkipSlash(SubSeq(from, n + 1, Len(from))))
  IN  IF Last(from) # "/" /\ left > 0 THEN left - 1 ELSE left

\* The ups are the names of the base that are not common.
LEMMA UpsAreSlashes ==
  ASSUME NEW S, NEW f \in Seq(S), NEW n \in Nat, n < Len(f), f[n + 1] = "/",
         SlashesIn(SubSeq(f, n + 2, Len(f))) \in Nat
  PROVE  UpsOf(f, n) = SlashesIn(SubSeq(f, n + 2, Len(f)))
<1> DEFINE l == Len(f)
           m == n + 1
           r == SubSeq(f, n + 2, Len(f))
           s == SlashesIn(r)
           left == Components(SkipSlash(SubSeq(f, n + 1, Len(f))))
<1>1. l \in Nat /\ n \in 0..l /\ m \in 0..l /\ m + 1 = n + 2
  OBVIOUS
<1>2. left = Components(r)
  BY <1>1, SkippedRest
<1>3. /\ r \in Seq(S) /\ Len(r) = l - m
      /\ \A i \in 1..(l - m) : r[i] = f[m + i]
  BY <1>1, RestOf
<1>4. s \in Nat
  OBVIOUS
<1> HIDE DEF l, m, r, s, left
<1>5. left = s + (IF r # << >> /\ Last(r) # "/" THEN 1 ELSE 0)
  <2>1. Components(r) = s + (IF r # << >> /\ Last(r) # "/" THEN 1 ELSE 0)
    BY DEF Components, SlashesIn, s
  <2> QED BY ONLY <1>2, <2>1
<1> DEFINE ups == IF Last(f) # "/" /\ left > 0 THEN left - 1 ELSE left
<1>6. r = << >> => ups = s
  <2> SUFFICES ASSUME r = << >> PROVE ups = s
    OBVIOUS
  <2>1. Len(r) = 0
    OBVIOUS
  <2>2. l = m
    BY ONLY <1>1, <1>3, <2>1
  <2>3. Last(f) = "/"
    BY <2>2 DEF Last, l, m
  <2>4. left = s
    BY ONLY <1>4, <1>5, r = << >>
  <2> QED BY ONLY <2>3, <2>4
<1>7. r # << >> => ups = s
  <2> SUFFICES ASSUME r # << >> PROVE ups = s
    OBVIOUS
  <2>1. Len(r) # 0 /\ Len(r) \in Nat
    BY <1>3, EmptySeq
  <2>2. l - m \in 1..(l - m) /\ m + (l - m) = l /\ Len(r) = l - m
    BY ONLY <1>1, <1>3, <2>1
  <2>3. Last(r) = Last(f)
    <3>1. r[l - m] = f[m + (l - m)]
      BY ONLY <1>3, <2>2
    <3>2. Last(r) = r[l - m] /\ Last(f) = f[l]
      BY ONLY <2>2 DEF Last, l
    <3> QED BY ONLY <2>2, <3>1, <3>2
  <2>4. CASE Last(f) = "/"
    <3>1. left = s
      BY ONLY <1>4, <1>5, <2>3, <2>4
    <3> QED BY ONLY <2>4, <3>1
  <2>5. CASE Last(f) # "/"
    <3>1. left = s + 1
      BY ONLY <1>5, <2>3, <2>5, r # << >>
    <3>2. left > 0 /\ left - 1 = s
      BY ONLY <1>4, <3>1
    <3> QED BY ONLY <2>5, <3>2
  <2> QED BY ONLY <2>4, <2>5
<1>8. ups = s
  BY <1>6, <1>7
<1> QED BY <1>8 DEF UpsOf, left, s, r

\* Only the root is a single slash.
LEMMA ShortText ==
  ASSUME NEW p, IsPath(p), Text(p) = <<"/">>
  PROVE  p.names = << >> /\ p.slash
<1> DEFINE names == p.names
           k == Len(names)
           h == Len(Base(p))
<1>1. names \in Seq(Names) /\ k \in Nat /\ h \in Nat /\ h <= k /\ (p.slash => h = k)
  BY BaseFacts DEF IsPath
<1>2. Len(Text(p)) = 1
  OBVIOUS
<1>3. p.slash /\ End(names, h) <= 1
  BY <1>2, TextIsText DEF TextFacts, IsPath
<1>4. TextInv(names, h) /\ End(names, 0) = 1
  BY <1>1, RootText, TextIsRight DEF End
<1> HIDE DEF h, k, names
<1>5. h = 0
  <2> SUFFICES ASSUME h # 0 PROVE FALSE
    OBVIOUS
  <2>1. 0 \in 0..h /\ h \in 0..h /\ 0 < h
    BY <1>1
  <2>2. End(names, 0) + 1 < End(names, h)
    BY <1>4, <2>1 DEF TextInv
  <2>3. End(names, h) \in Nat
    BY <1>4 DEF TextInv, End
  <2> QED BY <1>3, <1>4, <2>2, <2>3
<1>6. names = << >>
  BY <1>1, <1>3, <1>5, EmptySeq DEF k
<1> QED BY <1>3, <1>6 DEF names

\* Paths with the same text are the same.
LEMMA SamePath ==
  ASSUME NEW S, NEW p \in [names : S, slash : BOOLEAN], NEW q \in [names : S, slash : BOOLEAN],
         p.names = q.names, p.slash, q.slash
  PROVE  q = p
OBVIOUS

\* The relative path from one path to another is right, but for the two cases.
Reaches(p, q) ==
  LET relative == RelativePath(Text(p), Text(q))
  IN  \/ ~p.slash /\ IsPrefix(Text(p), Text(q))
      \/ p.names = << >> /\ q = p
      \/ /\ relative.ups <= Len(Base(p))
         /\ DirText(SubSeq(Base(p), 1, Len(Base(p)) - relative.ups)) \o relative.rest = Text(q)

\* The relative path reaches its target.
LEMMA RelativeReaches ==
  ASSUME NEW p, NEW q, IsPath(p), IsPath(q)
  PROVE  Reaches(p, q)
<1> SUFFICES ASSUME NEW from, from = Text(p), NEW to, to = Text(q),
                    NEW relative, relative = RelativePath(from, to)
             PROVE  \/ ~p.slash /\ IsPrefix(from, to)
                    \/ p.names = << >> /\ q = p
                    \/ /\ relative.ups <= Len(Base(p))
                       /\ DirText(SubSeq(Base(p), 1, Len(Base(p)) - relative.ups))
                             \o relative.rest = to
  BY DEF Reaches
<1> DEFINE n == CommonPrefix(from, to)
           ups == UpsOf(from, n)
           rest == SkipSlash(SubSeq(to, n + 1, Len(to)))
           h == Len(Base(p))
<1>1. /\ from \in Seq(Chars) /\ Len(from) \in Nat /\ Len(from) >= 1
      /\ to \in Seq(Chars) /\ Len(to) \in Nat /\ Len(to) >= 1
  BY TextIsText DEF TextFacts
<1>2. from[1] = "/" /\ to[1] = "/"
  BY FirstSlash
<1>3. h \in Nat
  BY BaseFacts
<1>4. IsCommon(n, from, to)
  BY <1>1, <1>2, PrefixIsCommon
<1>5. relative = IF from = <<"/">> /\ to = <<"/">> THEN [ups |-> 0, rest |-> <<"/">>]
                 ELSE [ups |-> ups, rest |-> rest]
  BY DEF RelativePath, UpsOf
<1> HIDE DEF n, ups, rest, h
<1>6. /\ n \in Nat /\ n <= Len(from) /\ n <= Len(to)
      /\ SubSeq(from, 1, n) = SubSeq(to, 1, n)
      /\ n = Len(from) \/ (from[n + 1] = "/" /\ n < Len(to) /\ to[n + 1] = "/")
  BY <1>4 DEF IsCommon
<1>11. from = Text(p) /\ to = Text(q)
  OBVIOUS
<1>7. CASE from = <<"/">> /\ to = <<"/">>
  <2>1. p.names = << >> /\ q.names = << >> /\ p.slash /\ q.slash
    BY <1>7, ShortText
  <2>2. p \in [names : Seq(Names), slash : BOOLEAN] /\ q \in [names : Seq(Names), slash : BOOLEAN]
    BY DEF IsPath
  <2> QED BY <2>1, <2>2, SamePath
<1>8. CASE ~(from = <<"/">> /\ to = <<"/">>) /\ n = Len(from) /\ p.slash
  <2> DEFINE left0 == SkipSlash(SubSeq(from, n + 1, Len(from)))
  <2>1. left0 = << >>
    BY <1>1, <1>6, <1>8, SkippedRest
  <2>2. ups = 0
    <3>1. {i \in DOMAIN << >> : << >>[i] = "/"} = {}
      OBVIOUS
    <3>2. Components(<< >>) = 0
      BY <3>1, FS_EmptySet DEF Components
    <3> QED BY <2>1, <3>2 DEF ups, UpsOf
  <2> HIDE DEF left0
  <2>4. n \in 1..Len(from) /\ from[n] = "/"
    <3>1. from[Len(from)] = "/"
      BY <1>8, TextIsText DEF TextFacts
    <3> QED BY <1>1, <1>6, <1>8, <3>1
  <2>5. from[n] = to[n]
    <3>1. SubSeq(from, 1, n)[n] = from[n] /\ SubSeq(to, 1, n)[n] = to[n]
      BY <1>1, <1>6, <2>4
    <3> QED BY <1>6, <3>1
  <2>6. n < Len(to) => to[n + 1] # "/"
    <3>1. n \in 1..Len(to) /\ to[n] = "/"
      BY <1>1, <1>6, <2>4, <2>5
    <3> QED BY <3>1, CutAtSlash
  <2>7. rest = SubSeq(to, n + 1, Len(to))
    <3>1. n = Len(to) => SubSeq(to, n + 1, Len(to)) = << >>
      BY <1>1, SubSeqEmpty
    <3>2. n \in 0..Len(to) /\ (n = Len(to) \/ n < Len(to))
      BY <1>1, <1>6
    <3> QED BY <1>1, <2>6, <3>1, <3>2, SkippedRest DEF rest
  <2>8. SubSeq(to, 1, n) \o SubSeq(to, n + 1, Len(to)) = to
    <3>1. /\ 1 \in 1..(Len(to) + 1) /\ n \in (1 - 1)..Len(to) /\ Len(to) \in n..Len(to)
      BY <1>1, <1>6
    <3>2. SubSeq(to, 1, n) \o SubSeq(to, n + 1, Len(to)) = SubSeq(to, 1, Len(to))
      BY <1>1, <3>1, ConcatAdjacentSubSeq
    <3> QED BY <1>1, <3>2, Whole
  <2>9. SubSeq(from, 1, n) = DirText(SubSeq(Base(p), 1, h - 0))
    <3>1. SubSeq(from, 1, n) = from
      BY <1>1, <1>8, Whole
    <3>2. p.names \in Seq(Names) /\ Base(p) = p.names /\ h = Len(p.names)
      BY <1>8 DEF IsPath, Base, h
    <3>3. from = DirText(SubSeq(p.names, 1, Len(p.names)))
      BY <1>8, TextIsText DEF TextFacts, At
    <3> QED BY <1>3, <3>1, <3>2, <3>3
  <2>10. relative.ups = 0 /\ relative.rest = rest
    BY <1>5, <1>8, <2>2
  <2>11. DirText(SubSeq(Base(p), 1, h - relative.ups)) \o relative.rest = to
    BY <1>6, <2>7, <2>8, <2>9, <2>10
  <2> QED BY <1>3, <2>10, <2>11 DEF h
<1>9. CASE n = Len(from) /\ ~p.slash
  BY <1>1, <1>6, <1>9 DEF IsPrefix
<1>10. CASE ~(from = <<"/">> /\ to = <<"/">>) /\ n # Len(from)
  <2> DEFINE m == n + 1
             r == SubSeq(from, n + 2, Len(from))
             s == SlashesIn(r)
  <2>1. /\ n < Len(from) /\ from[m] = "/" /\ n < Len(to) /\ to[m] = "/"
        /\ m \in 1..Len(from) /\ m \in 1..Len(to) /\ m + 1 = n + 2
    BY <1>1, <1>6, <1>10
  <2> HIDE DEF m
  <2>2. PICK j \in 0..h :
           /\ DirText(SubSeq(Base(p), 1, j)) = SubSeq(from, 1, m)
           /\ SlashesIn(SubSeq(from, m + 1, Len(from))) = h - j
    BY <1>11, <2>1, CutAtSlash DEF h
  <2>3. s = h - j
    BY <2>1, <2>2
  <2> HIDE DEF r, s
  <2>4. s \in Nat /\ h - s = j /\ s <= h
    BY <2>3, <1>3
  <2>5. ups = s
    <3>1. from \in Seq(Chars) /\ n \in Nat /\ n < Len(from) /\ from[n + 1] = "/"
      BY <1>1, <1>6, <2>1 DEF m
    <3>2. SlashesIn(SubSeq(from, n + 2, Len(from))) = s /\ s \in Nat
      BY <2>4 DEF s, r
    <3> QED BY <3>1, <3>2, UpsAreSlashes DEF ups
  <2>6. rest = SubSeq(to, m + 1, Len(to))
    BY <1>1, <1>6, <2>1, SkippedRest DEF rest, m
  <2>7. SubSeq(from, 1, m) = SubSeq(to, 1, m)
    <3>1. /\ SubSeq(from, 1, m) = SubSeq(from, 1, n) \o <<from[m]>>
          /\ SubSeq(to, 1, m) = SubSeq(to, 1, n) \o <<to[m]>>
      <4>1. 1 \in 1..Len(from) /\ m \in 1..Len(from) /\ 1 \in 1..Len(to) /\ m \in 1..Len(to) /\ m - 1 = n
        BY <1>1, <1>6, <2>1 DEF m
      <4> QED BY <1>1, <4>1, SubSeqRecursiveSecond
    <3> QED BY <1>6, <2>1, <3>1
  <2>8. SubSeq(to, 1, m) \o SubSeq(to, m + 1, Len(to)) = to
    <3>1. /\ 1 \in 1..(Len(to) + 1) /\ m \in (1 - 1)..Len(to) /\ Len(to) \in m..Len(to)
      BY <1>1, <2>1
    <3>2. SubSeq(to, 1, m) \o SubSeq(to, m + 1, Len(to)) = SubSeq(to, 1, Len(to))
      BY <1>1, <3>1, ConcatAdjacentSubSeq
    <3> QED BY <1>1, <3>2, Whole
  <2>9. relative.ups = ups /\ relative.rest = rest
    BY <1>5, <1>10
  <2>10. DirText(SubSeq(Base(p), 1, h - relative.ups)) \o relative.rest = to
    BY <2>2, <2>4, <2>5, <2>6, <2>7, <2>8, <2>9
  <2> QED BY <2>4, <2>5, <2>9, <2>10 DEF h
<1> QED BY <1>7, <1>8, <1>9, <1>10, <1>4

PathsInv == \A c \in Caller : IsPath(path[c])

\* The first states.
LEMMA PathInitPaths == PathInit => PathsInv
<1> SUFFICES ASSUME PathInit, NEW c \in Caller PROVE IsPath(path[c])
  BY DEF PathsInv
<1>1. path[c] \in Path
  BY DEF PathInit
<1>2. /\ path[c] \in [names : NamesUpTo(MaxDepth), slash : BOOLEAN]
      /\ path[c].names = << >> => path[c].slash
  BY <1>1 DEF Path
<1>3. NamesUpTo(MaxDepth) \subseteq Seq(Names)
  <2> SUFFICES ASSUME NEW names \in NamesUpTo(MaxDepth) PROVE names \in Seq(Names)
    OBVIOUS
  <2>1. PICK k \in 0..MaxDepth : names \in [1..k -> Names]
    BY DEF NamesUpTo
  <2>2. k \in Nat
    BY PathAssumption
  <2> QED BY <2>1, <2>2
<1>4. path[c] \in [names : Seq(Names), slash : BOOLEAN]
  <2> HIDE DEF NamesUpTo
  <2> QED BY <1>2, <1>3
<1> QED BY <1>2, <1>4 DEF IsPath

\* No step changes a path.
LEMMA PathsStay == [PathNext]_pathVars => UNCHANGED path
BY DEF PathNext, Stat, Mkdir, MkdirFails, pathVars

\* From every path to every other.
LEMMA PathsReach == PathsInv => RelativePathReaches
<1> SUFFICES ASSUME PathsInv, NEW c \in Caller, NEW d \in Caller
             PROVE  LET from == path[c]
                        to == path[d]
                        relative == RelativePath(Text(from), Text(to))
                        base == IF from.slash THEN from.names ELSE Front(from.names)
                    IN  \/ ~from.slash /\ IsPrefix(Text(from), Text(to))
                        \/ from.names = <<>> /\ to = from
                        \/ /\ relative.ups <= Len(base)
                           /\ DirText(SubSeq(base, 1, Len(base) - relative.ups)) \o relative.rest = Text(to)
  BY DEF RelativePathReaches
<1>1. IsPath(path[c]) /\ IsPath(path[d])
  BY DEF PathsInv
<1>2. Reaches(path[c], path[d])
  BY <1>1, RelativeReaches
<1> QED BY <1>2 DEF Reaches, Base

\* The relative path leads to its target from the directory of every path, except
\* from a path without a slash at its end whose text begins that of the target
\* (catcierge_relative_path): for all names and paths of any length but the root,
\* which catcierge_get_abs_path spells "//".
THEOREM PathsLeadThere == PathSpec => []RelativePathReaches
<1>1. PathInit => PathsInv
  BY PathInitPaths
<1>2. PathsInv /\ [PathNext]_pathVars => PathsInv'
  BY PathsStay DEF PathsInv
<1>3. PathsInv => RelativePathReaches
  BY PathsReach
<1> QED BY <1>1, <1>2, <1>3, PTL DEF PathSpec

-----------------------------------------------------------------------------
(***************************************************************************)
(* The config file.                                                        *)
(***************************************************************************)
ConfigSpec == ConfigInit /\ [][ConfigNext]_configVars

ConfigEntry == [key : Keys, vals : Seq(Values)]

\* The entry has the value.
HasValue(entry, value) == \E k \in DOMAIN entry.vals : entry.vals[k] = value

TableTypeOK ==
  /\ pairs \in Seq(Keys \X Values)
  /\ configArgs \in Seq(ConfigEntry)
  /\ \A i \in DOMAIN configArgs : Len(configArgs[i].vals) >= 1

OneEntryEach ==
  \A i, j \in DOMAIN configArgs :
    configArgs[i].key = configArgs[j].key /\ configArgs[i].key \notin LongKeys => i = j

NothingIsLost ==
  \A p \in DOMAIN pairs : \E i \in DOMAIN configArgs :
    configArgs[i].key = pairs[p][1] /\ HasValue(configArgs[i], pairs[p][2])

TwiceIsSeen ==
  \A p, q \in DOMAIN pairs : p # q /\ pairs[p][1] = pairs[q][1] /\ pairs[p][1] \notin LongKeys =>
    \A i \in DOMAIN configArgs :
      configArgs[i].key = pairs[p][1] => Len(configArgs[i].vals) >= 2

\* alini_cb gathers the pairs: one entry for each key that is not cut, with all its
\* values.
GatherInv == TableTypeOK /\ OneEntryEach /\ NothingIsLost /\ TwiceIsSeen

FlagsAreGood ==
  \A i \in DOMAIN configArgs : configArgs[i].key \in Flags => ~FlagIsBad(configArgs[i])

\* Past build_config_commandline, and past the config when there is none, the flags
\* are good.
StageInv ==
  /\ stage \in {"start", "reading", "valsOverrun", "argvOverrun", "built", "commandLine", "done"}
  /\ stage = "start" => configArgs = <<>>
  /\ stage \in {"built", "commandLine"} => FlagsAreGood
  /\ stage = "done" /\ result = 0 => FlagsAreGood

ConfigInv == GatherInv /\ StageInv

\* What Entry finds.
LEMMA EntryFound ==
  ASSUME GatherInv, NEW key
  PROVE  \/ /\ Entry(key) = 0
            /\ key \notin LongKeys => \A i \in DOMAIN configArgs : configArgs[i].key # key
         \/ /\ Entry(key) \in DOMAIN configArgs /\ configArgs[Entry(key)].key = key
            /\ key \notin LongKeys
<1> DEFINE I == {i \in 1..Len(configArgs) : configArgs[i].key = key /\ key \notin LongKeys}
<1>1. DOMAIN configArgs = 1..Len(configArgs)
  BY DEF GatherInv, TableTypeOK
<1>2. Entry(key) = IF I # {} THEN Min(I) ELSE 0
  BY DEF Entry, SelectInSeq
<1>3. CASE I = {}
  BY <1>1, <1>2, <1>3
<1>4. CASE I # {}
  <2>1. PICK i \in I : TRUE
    BY <1>4
  <2>2. I = {i}
    BY <1>1, <2>1 DEF GatherInv, OneEntryEach
  <2>3. i \in Nat
    BY <2>1
  <2> HIDE DEF I
  <2>4. Min(I) = i
    BY <2>2, <2>3 DEF Min
  <2> QED BY <1>1, <1>2, <1>4, <2>1, <2>4 DEF I
<1> QED BY <1>3, <1>4

\* An entry with other values.
LEMMA EntryExtended ==
  ASSUME NEW r, NEW a, NEW b, NEW c, r = [key |-> a, vals |-> b]
  PROVE  /\ [r EXCEPT !.vals = c] = [key |-> a, vals |-> c]
         /\ [r EXCEPT !.vals = c].key = a /\ [r EXCEPT !.vals = c].vals = c
OBVIOUS

\* A pair more, and its value with the entry of its key.
LEMMA PairIsGathered ==
  ASSUME GatherInv, NEW key \in Keys, NEW value \in Values,
         pairs' = Append(pairs, <<key, value>>), AliniCb(key, value)
  PROVE  GatherInv'
<1> DEFINE n == Len(pairs)
           m == Len(configArgs)
           new == <<key, value>>
           more == Append(pairs, new)
<1>1. /\ pairs \in Seq(Keys \X Values) /\ configArgs \in Seq(ConfigEntry)
      /\ n \in Nat /\ m \in Nat /\ DOMAIN pairs = 1..n /\ DOMAIN configArgs = 1..m
  BY DEF GatherInv, TableTypeOK
<1>2. /\ more \in Seq(Keys \X Values) /\ DOMAIN more = 1..(n + 1)
      /\ \A p \in 1..n : more[p] = pairs[p]
      /\ more[n + 1] = new /\ new[1] = key /\ new[2] = value
  <2>1. new \in Keys \X Values
    OBVIOUS
  <2> HIDE DEF new
  <2>2. /\ more \in Seq(Keys \X Values) /\ Len(more) = n + 1
        /\ \A p \in 1..n : more[p] = pairs[p] /\ more[n + 1] = new
    BY <1>1, <2>1, AppendProperties
  <2>3. DOMAIN more = 1..(n + 1)
    BY <2>2
  <2>4. more[n + 1] = new
    BY <1>1, <2>1, AppendProperties
  <2> QED BY <2>2, <2>3, <2>4 DEF new
<1>3. pairs' = more
  OBVIOUS
<1>4. ASSUME NEW i \in 1..m
      PROVE  /\ configArgs[i] \in ConfigEntry
             /\ configArgs[i].vals \in Seq(Values) /\ Len(configArgs[i].vals) >= 1
             /\ configArgs[i] = [key |-> configArgs[i].key, vals |-> configArgs[i].vals]
  <2>1. configArgs[i] \in ConfigEntry
    BY <1>1
  <2>2. Len(configArgs[i].vals) >= 1
    BY <1>1 DEF GatherInv, TableTypeOK
  <2> QED BY <2>1, <2>2 DEF ConfigEntry
<1>5. /\ \A i, j \in 1..m :
           configArgs[i].key = configArgs[j].key /\ configArgs[i].key \notin LongKeys => i = j
      /\ \A p \in 1..n : \E i \in 1..m :
           configArgs[i].key = pairs[p][1] /\ HasValue(configArgs[i], pairs[p][2])
      /\ \A p, q \in 1..n : p # q /\ pairs[p][1] = pairs[q][1] /\ pairs[p][1] \notin LongKeys =>
           \A i \in 1..m : configArgs[i].key = pairs[p][1] => Len(configArgs[i].vals) >= 2
  BY <1>1 DEF GatherInv, OneEntryEach, NothingIsLost, TwiceIsSeen
<1> HIDE DEF more, new, n
<1>6. \A p \in 1..(n + 1) : p \in 1..n \/ p = n + 1
  BY <1>1
<1>7. CASE Entry(key) = 0
  <2> DEFINE e == [key |-> key, vals |-> <<value>>]
             table == Append(configArgs, e)
  <2>1. key \notin LongKeys => \A i \in 1..m : configArgs[i].key # key
    <3>1. 0 \notin 1..m
      OBVIOUS
    <3> QED BY <1>1, <1>7, <3>1, EntryFound
  <2>2. configArgs' = table
    BY <1>7 DEF AliniCb
  <2>3. e \in ConfigEntry /\ e.key = key /\ Len(e.vals) = 1 /\ HasValue(e, value)
    <3>1. <<value>> \in Seq(Values) /\ Len(<<value>>) = 1 /\ 1 \in DOMAIN <<value>> /\ <<value>>[1] = value
      OBVIOUS
    <3> QED BY <3>1 DEF ConfigEntry, HasValue
  <2> HIDE DEF e
  <2>4. /\ table \in Seq(ConfigEntry) /\ DOMAIN table = 1..(m + 1)
        /\ \A i \in 1..m : table[i] = configArgs[i]
        /\ table[m + 1] = e
    <3>1. table \in Seq(ConfigEntry) /\ Len(table) = m + 1
      BY <1>1, <2>3, AppendProperties
    <3>2. DOMAIN table = 1..(m + 1)
      BY <3>1
    <3> QED BY <1>1, <2>3, <3>1, <3>2, AppendProperties
  <2> HIDE DEF table, m
  <2>5. \A i \in 1..(m + 1) : i \in 1..m \/ i = m + 1
    BY <1>1
  <2>6. 1..m \subseteq 1..(m + 1) /\ m + 1 \in 1..(m + 1)
    BY <1>1
  <2>7. key \notin LongKeys => \A p \in 1..n : pairs[p][1] # key
    BY <1>5, <2>1
  <2>8. ASSUME NEW p \in 1..(n + 1)
        PROVE  \E i \in 1..(m + 1) : table[i].key = more[p][1] /\ HasValue(table[i], more[p][2])
    <3>1. CASE p \in 1..n
      <4>1. PICK i \in 1..m : configArgs[i].key = pairs[p][1] /\ HasValue(configArgs[i], pairs[p][2])
        BY <1>5, <3>1
      <4> QED BY <1>2, <2>4, <2>6, <3>1, <4>1
    <3>2. CASE p = n + 1
      BY <1>2, <2>3, <2>4, <2>6, <3>2
    <3> QED BY <1>6, <3>1, <3>2
  <2>9. ASSUME NEW p \in 1..(n + 1), NEW q \in 1..(n + 1), p # q, more[p][1] = more[q][1],
               more[p][1] \notin LongKeys, NEW i \in 1..(m + 1), table[i].key = more[p][1]
        PROVE  Len(table[i].vals) >= 2
    <3>1. p \in 1..n /\ q \in 1..n
      BY <1>2, <1>6, <2>7, <2>9
    <3>2. i \in 1..m
      BY <1>2, <2>3, <2>4, <2>5, <2>7, <2>9, <3>1
    <3>3. /\ pairs[p][1] = pairs[q][1] /\ configArgs[i].key = pairs[p][1]
          /\ table[i] = configArgs[i]
      BY <1>2, <2>4, <2>9, <3>1, <3>2
    <3>4. Len(configArgs[i].vals) >= 2
      BY <1>5, <2>9, <3>1, <3>2, <3>3
    <3> QED BY <3>3, <3>4
  <2>10. ASSUME NEW i \in 1..(m + 1) PROVE Len(table[i].vals) >= 1
    <3>1. CASE i \in 1..m
      <4>1. table[i] = configArgs[i] /\ Len(configArgs[i].vals) >= 1
        BY <1>4, <2>4, <3>1
      <4> QED BY <4>1
    <3>2. CASE i = m + 1
      <4>1. table[i] = e /\ Len(e.vals) >= 1
        BY <2>3, <2>4, <3>2
      <4> QED BY <4>1
    <3> QED BY <2>5, <3>1, <3>2
  <2>11. \A i, j \in 1..(m + 1) :
           table[i].key = table[j].key /\ table[i].key \notin LongKeys => i = j
    BY <1>5, <2>1, <2>3, <2>4, <2>5
  <2>12. DOMAIN pairs' = 1..(n + 1) /\ DOMAIN configArgs' = 1..(m + 1)
    BY <1>2, <1>3, <2>2, <2>4
  <2>13. TableTypeOK'
    BY <1>2, <1>3, <2>2, <2>4, <2>10, <2>12 DEF TableTypeOK
  <2>14. OneEntryEach'
    BY <2>2, <2>11, <2>12 DEF OneEntryEach
  <2>15. NothingIsLost'
    <3> SUFFICES \A p \in DOMAIN pairs' : \E i \in DOMAIN configArgs' :
                   configArgs'[i].key = pairs'[p][1] /\ HasValue(configArgs'[i], pairs'[p][2])
      BY DEF NothingIsLost, HasValue
    <3> QED BY <1>3, <2>2, <2>8, <2>12
  <2>16. TwiceIsSeen'
    BY <1>3, <2>2, <2>9, <2>12 DEF TwiceIsSeen
  <2> QED BY <2>13, <2>14, <2>15, <2>16 DEF GatherInv
<1>8. CASE Entry(key) # 0
  <2> DEFINE k == Entry(key)
             e == [configArgs[k] EXCEPT !.vals = Append(@, value)]
             table == [configArgs EXCEPT ![k] = e]
  <2>1. k \in 1..m /\ configArgs[k].key = key /\ key \notin LongKeys
    BY <1>1, <1>8, EntryFound
  <2>2. configArgs' = table
    BY <1>8, <2>1 DEF AliniCb
  <2>3. /\ e \in ConfigEntry /\ e.key = key /\ Len(e.vals) \in Nat /\ Len(e.vals) >= 2 /\ HasValue(e, value)
        /\ \A v \in Values : HasValue(configArgs[k], v) => HasValue(e, v)
    <3> DEFINE old == configArgs[k].vals
               vals == Append(old, value)
    <3>1. configArgs[k] \in ConfigEntry /\ Len(old) >= 1 /\ old \in Seq(Values)
      BY <1>4, <2>1
    <3>2. e.key = configArgs[k].key /\ e.vals = vals /\ e = [key |-> configArgs[k].key, vals |-> vals]
      <4> DEFINE r == configArgs[k]
      <4>1. e = [r EXCEPT !.vals = vals]
        OBVIOUS
      <4>2. r = [key |-> r.key, vals |-> r.vals]
        BY <1>4, <2>1
      <4> HIDE DEF r, e, vals
      <4>3. e.key = r.key /\ e.vals = vals /\ e = [key |-> r.key, vals |-> vals]
        BY <4>1, <4>2, EntryExtended
      <4> QED BY <4>3 DEF r
    <3> DEFINE l == Len(old)
    <3>3. /\ vals \in Seq(Values) /\ Len(vals) = l + 1 /\ l \in Nat
          /\ DOMAIN old = 1..l /\ DOMAIN vals = 1..(l + 1)
          /\ \A i \in 1..l : vals[i] = old[i]
          /\ vals[l + 1] = value
      <4>1. vals \in Seq(Values) /\ Len(vals) = l + 1 /\ l \in Nat
        BY <3>1, AppendProperties
      <4>2. DOMAIN old = 1..l /\ DOMAIN vals = 1..(l + 1)
        BY <3>1, <4>1
      <4> QED BY <3>1, <4>1, <4>2, AppendProperties
    <3> HIDE DEF old, vals, l, e
    <3>4. e \in ConfigEntry
      BY <2>1, <3>1, <3>2, <3>3 DEF ConfigEntry
    <3>5. l + 1 >= 2 /\ l + 1 \in 1..(l + 1) /\ 1..l \subseteq 1..(l + 1)
      BY <3>1, <3>3 DEF l
    <3>6. HasValue(e, value)
      BY <3>2, <3>3, <3>5 DEF HasValue
    <3>7. ASSUME NEW v \in Values, HasValue(configArgs[k], v) PROVE HasValue(e, v)
      <4>1. PICK i \in 1..l : old[i] = v
        BY <3>3, <3>7 DEF HasValue, old
      <4> QED BY <3>2, <3>3, <3>5, <4>1 DEF HasValue
    <3> QED BY <2>1, <3>2, <3>3, <3>4, <3>5, <3>6, <3>7
  <2> HIDE DEF k, e, m
  <2>4. /\ DOMAIN table = 1..m /\ table[k] = e
        /\ \A i \in 1..m : i # k => table[i] = configArgs[i]
    BY <1>1, <2>1
  <2>5. table \in Seq(ConfigEntry)
    BY <1>1, <2>1, <2>3
  <2> HIDE DEF table
  <2>6. ASSUME NEW i \in 1..m
        PROVE  table[i].key = configArgs[i].key /\ Len(table[i].vals) >= 1
    <3>1. CASE i = k
      <4>1. table[i] = e /\ e.key = configArgs[i].key
        BY <2>1, <2>3, <2>4, <3>1
      <4>2. Len(e.vals) >= 1
        BY <2>3
      <4> QED BY <4>1, <4>2
    <3>2. CASE i # k
      <4>1. table[i] = configArgs[i] /\ Len(configArgs[i].vals) >= 1
        BY <1>4, <2>4, <3>2
      <4> QED BY <4>1
    <3> QED BY <3>1, <3>2
  <2>7. ASSUME NEW p \in 1..(n + 1)
        PROVE  \E i \in 1..m : table[i].key = more[p][1] /\ HasValue(table[i], more[p][2])
    <3>1. CASE p \in 1..n
      <4>1. PICK i \in 1..m : configArgs[i].key = pairs[p][1] /\ HasValue(configArgs[i], pairs[p][2])
        BY <1>5, <3>1
      <4>2. pairs[p][2] \in Values
        BY <1>1, <3>1
      <4>3. HasValue(table[i], pairs[p][2])
        BY <2>3, <2>4, <4>1, <4>2
      <4> QED BY <1>2, <2>6, <3>1, <4>1, <4>3
    <3>2. CASE p = n + 1
      BY <1>2, <2>1, <2>3, <2>4, <3>2
    <3> QED BY <1>6, <3>1, <3>2
  <2>8. ASSUME NEW p \in 1..(n + 1), NEW q \in 1..(n + 1), p # q, more[p][1] = more[q][1],
               more[p][1] \notin LongKeys, NEW i \in 1..m, table[i].key = more[p][1]
        PROVE  Len(table[i].vals) >= 2
    <3>1. CASE i = k
      BY <2>3, <2>4, <3>1
    <3>2. CASE i # k
      <4>1. more[p][1] # key
        BY <1>5, <2>1, <2>6, <2>8, <3>2
      <4>2. p \in 1..n /\ q \in 1..n
        BY <1>2, <1>6, <2>8, <4>1
      <4> QED BY <1>5, <1>2, <2>4, <2>6, <2>8, <3>2, <4>2
    <3> QED BY <3>1, <3>2
  <2>9. \A i, j \in 1..m :
          table[i].key = table[j].key /\ table[i].key \notin LongKeys => i = j
    BY <1>5, <2>6
  <2>10. DOMAIN pairs' = 1..(n + 1) /\ DOMAIN configArgs' = 1..m
    BY <1>2, <1>3, <2>2, <2>4
  <2>11. TableTypeOK'
    BY <1>2, <1>3, <2>2, <2>5, <2>6, <2>10 DEF TableTypeOK
  <2>12. OneEntryEach'
    BY <2>2, <2>9, <2>10 DEF OneEntryEach
  <2>13. NothingIsLost'
    <3> SUFFICES \A p \in DOMAIN pairs' : \E i \in DOMAIN configArgs' :
                   configArgs'[i].key = pairs'[p][1] /\ HasValue(configArgs'[i], pairs'[p][2])
      BY DEF NothingIsLost, HasValue
    <3> QED BY <1>3, <2>2, <2>7, <2>10
  <2>14. TwiceIsSeen'
    BY <1>3, <2>2, <2>8, <2>10 DEF TwiceIsSeen
  <2> QED BY <2>11, <2>12, <2>13, <2>14 DEF GatherInv
<1> QED BY <1>7, <1>8

\* Every step.
LEMMA ConfigStepInv == ConfigInv /\ [ConfigNext]_configVars => ConfigInv'
<1> SUFFICES ASSUME ConfigInv, [ConfigNext]_configVars PROVE ConfigInv'
  OBVIOUS
<1>1. CASE UNCHANGED <<pairs, configArgs>>
  <2>1. GatherInv'
    BY <1>1 DEF ConfigInv, GatherInv, TableTypeOK, OneEntryEach, NothingIsLost, TwiceIsSeen, HasValue
  <2>2. FlagsAreGood' <=> FlagsAreGood
    BY <1>1 DEF FlagsAreGood
  <2>3. CASE UNCHANGED configVars
    BY <2>1, <2>2, <2>3 DEF configVars, ConfigInv, StageInv
  <2>4. CASE SkipConfig
    <3>1. FlagsAreGood
      BY <2>4 DEF SkipConfig, ConfigInv, StageInv, FlagsAreGood
    <3> QED BY <1>1, <2>1, <2>2, <2>4, <3>1 DEF SkipConfig, ConfigInv, StageInv
  <2>5. CASE OpenConfig
    BY <1>1, <2>1, <2>2, <2>5 DEF OpenConfig, Done, ConfigInv, StageInv
  <2>6. CASE BuildConfigCommandline
    <3>1. \/ stage' = "done" /\ result' = -1
          \/ stage' = "argvOverrun"
          \/ stage' = "built" /\ FlagsAreGood
      BY <2>6 DEF BuildConfigCommandline, Done, FlagsAreGood
    <3> QED BY <2>1, <2>2, <3>1 DEF ConfigInv, StageInv
  <2>7. CASE ParseConfigCommandline
    BY <2>1, <2>2, <2>7 DEF ParseConfigCommandline, Done, ConfigInv, StageInv
  <2>8. CASE ParseCommandline
    BY <2>1, <2>2, <2>8 DEF ParseCommandline, Done, ConfigInv, StageInv
  <2>9. CASE \E key \in Keys, value \in Values : ReadPair(key, value)
    BY <2>1, <2>2, <2>9 DEF ReadPair, ConfigInv, StageInv
  <2>10. CASE \E key \in Keys : OverrunVals(key)
    BY <2>1, <2>2, <2>10 DEF OverrunVals, ConfigInv, StageInv
  <2>11. CASE FailToParse
    BY <2>1, <2>2, <2>11 DEF FailToParse, Done, ConfigInv, StageInv
  <2> QED BY <2>3, <2>4, <2>5, <2>6, <2>7, <2>8, <2>9, <2>10, <2>11 DEF ConfigNext
<1>2. ASSUME NEW key \in Keys, NEW value \in Values, ReadPair(key, value) PROVE ConfigInv'
  <2>1. GatherInv'
    BY <1>2, PairIsGathered DEF ConfigInv, ReadPair
  <2> QED BY <1>2, <2>1 DEF ReadPair, ConfigInv, StageInv
<1>3. CASE \/ UNCHANGED configVars \/ SkipConfig \/ OpenConfig
           \/ \E key \in Keys : OverrunVals(key)
           \/ FailToParse \/ BuildConfigCommandline \/ ParseConfigCommandline \/ ParseCommandline
  BY <1>1, <1>3 DEF configVars, SkipConfig, OpenConfig, OverrunVals, FailToParse,
                    BuildConfigCommandline, ParseConfigCommandline, ParseCommandline
<1> QED BY <1>2, <1>3 DEF ConfigNext

\* A good flag has the one value that the file gives it.
LEMMA OnlyValue ==
  ASSUME GatherInv, FlagsAreGood, NEW p \in DOMAIN pairs, pairs[p][1] \in Flags
  PROVE  /\ \E i \in DOMAIN configArgs :
              /\ configArgs[i].key = pairs[p][1] /\ configArgs[i].vals[1] = pairs[p][2]
              /\ ~FlagIsBad(configArgs[i])
         /\ \A q \in DOMAIN pairs : pairs[q][1] = pairs[p][1] => q = p
<1>1. PICK i \in DOMAIN configArgs :
        configArgs[i].key = pairs[p][1] /\ HasValue(configArgs[i], pairs[p][2])
  BY DEF GatherInv, NothingIsLost
<1>2. ~FlagIsBad(configArgs[i]) /\ Len(configArgs[i].vals) = 1
  BY <1>1 DEF FlagsAreGood, FlagIsBad
<1>3. configArgs[i].vals \in Seq(Values)
  <2>1. configArgs[i] \in ConfigEntry
    BY DEF GatherInv, TableTypeOK
  <2> QED BY <2>1 DEF ConfigEntry
<1>4. \A k \in DOMAIN configArgs[i].vals : k = 1
  <2> DEFINE vals == configArgs[i].vals
  <2>1. vals \in Seq(Values) /\ Len(vals) = 1
    BY <1>2, <1>3
  <2> HIDE DEF vals
  <2>2. DOMAIN vals = 1..1
    BY <2>1
  <2>3. \A k \in DOMAIN vals : k = 1
    BY <2>2
  <2> QED BY <2>3 DEF vals
<1>5. configArgs[i].vals[1] = pairs[p][2]
  BY <1>1, <1>4 DEF HasValue
<1>6. ASSUME NEW q \in DOMAIN pairs, pairs[q][1] = pairs[p][1], q # p PROVE FALSE
  <2>1. Len(configArgs[i].vals) >= 2
    BY <1>1, <1>6, ConfigAssumption DEF GatherInv, TwiceIsSeen
  <2> DEFINE l == Len(configArgs[i].vals)
  <2>2. l = 1 /\ l >= 2
    BY <1>2, <2>1
  <2> HIDE DEF l
  <2> QED BY <2>2
<1> QED BY <1>1, <1>2, <1>5, <1>6

-----------------------------------------------------------------------------
(***************************************************************************)
(* What the command line of the config says.                               *)
(***************************************************************************)

\* FoldSeq sums up what the entries count.
LEMMA ArgcIsSum ==
  ASSUME NEW n \in Nat, DOMAIN configArgs = 1..n
  PROVE  LET g == [i \in 1..n |-> ArgsCount(configArgs[i])]
         IN  \E h : /\ Sums(h, 1..n, g)
                    /\ FoldSeq(LAMBDA e, m : m + ArgsCount(e), 0, configArgs) = h[1..n]
<1> DEFINE S == 1..n
           g == [i \in S |-> ArgsCount(configArgs[i])]
           Is(h) == h = [s \in SUBSET S |-> IF s = {} THEN 0
                                            ELSE h[s \ {One(s)}] + ArgsCount(configArgs[One(s)])]
           k == CHOOSE h : Is(h)
<1>1. FoldSeq(LAMBDA e, m : m + ArgsCount(e), 0, configArgs) = k[S]
  BY DEF FoldSeq, FoldFunction, FoldFunctionOnSet, MapThenFoldSet, One
<1>2. IsFiniteSet(S)
  BY FS_Interval
<1>3. ASSUME NEW h
      PROVE  [s \in SUBSET S |-> IF s = {} THEN 0 ELSE h[s \ {One(s)}] + g[One(s)]]
             = [s \in SUBSET S |-> IF s = {} THEN 0
                                   ELSE h[s \ {One(s)}] + ArgsCount(configArgs[One(s)])]
  <2>1. ASSUME NEW s \in SUBSET S, s # {} PROVE g[One(s)] = ArgsCount(configArgs[One(s)])
    BY <2>1, OneOf
  <2> HIDE DEF S, g
  <2> QED BY <2>1
<1> HIDE DEF S, g
<1>4. PICK h : Sums(h, S, g)
  BY <1>2, SumsExist
<1>5. Is(h)
  BY <1>3, <1>4 DEF Sums
<1> HIDE DEF Is
<1>6. Is(k)
  BY <1>5
<1> HIDE DEF k
<1>7. Sums(k, S, g)
  BY <1>3, <1>6 DEF Is, Sums
<1> QED BY <1>1, <1>7 DEF S, g

\* FoldSet sums up how often the flags occur.
LEMMA OccursIsSum ==
  ASSUME IsFiniteSet(Flags)
  PROVE  LET g == [key \in Flags |-> Occurs(<<"option", key>>)]
         IN  \E h : /\ Sums(h, Flags, g)
                    /\ FoldSet(LAMBDA key, n : n + Occurs(<<"option", key>>), 0, Flags) = h[Flags]
<1> DEFINE g == [key \in Flags |-> Occurs(<<"option", key>>)]
           Is(h) == h = [s \in SUBSET Flags |-> IF s = {} THEN 0
                                                ELSE h[s \ {One(s)}] + Occurs(<<"option", One(s)>>)]
           k == CHOOSE h : Is(h)
<1>1. FoldSet(LAMBDA key, n : n + Occurs(<<"option", key>>), 0, Flags) = k[Flags]
  BY DEF FoldSet, MapThenFoldSet, One
<1>2. ASSUME NEW h
      PROVE  [s \in SUBSET Flags |-> IF s = {} THEN 0 ELSE h[s \ {One(s)}] + g[One(s)]]
             = [s \in SUBSET Flags |-> IF s = {} THEN 0
                                       ELSE h[s \ {One(s)}] + Occurs(<<"option", One(s)>>)]
  <2>1. ASSUME NEW s \in SUBSET Flags, s # {} PROVE g[One(s)] = Occurs(<<"option", One(s)>>)
    BY <2>1, OneOf
  <2> HIDE DEF g
  <2> QED BY <2>1
<1> HIDE DEF g
<1>3. PICK h : Sums(h, Flags, g)
  BY SumsExist
<1>4. Is(h)
  BY <1>2, <1>3 DEF Sums
<1> HIDE DEF Is
<1>5. Is(k)
  BY <1>4
<1> HIDE DEF k
<1>6. Sums(k, Flags, g)
  BY <1>2, <1>5 DEF Is, Sums
<1> QED BY <1>1, <1>6 DEF g

Word == ({"option"} \X Keys) \cup ({"value"} \X Values)

Saying(value) == <<"value", value>>

\* The words by which values are said.
Said(vals) == [k \in DOMAIN vals |-> Saying(vals[k])]

\* ValuesOf, of the pairs ps.
Matching(pair, key) == IF pair[1] = key THEN <<Saying(pair[2])>> ELSE << >>

ValuesIn(ps, key) == FlattenSeq([i \in DOMAIN ps |-> Matching(ps[i], key)])

\* ValuesOf, as a function of the pairs.
LEMMA ValuesAreIn ==
  ASSUME NEW key
  PROVE  ValuesOf(key) = ValuesIn(pairs, key)
BY DEF ValuesOf, ValuesIn, Matching, Saying

\* A value is a word.
LEMMA ValueIsWord ==
  ASSUME NEW value \in Values
  PROVE  Saying(value) \in Word
BY DEF Word, Saying

\* What a pair says of a key are words.
LEMMA MatchingType ==
  ASSUME NEW pair \in Keys \X Values, NEW key
  PROVE  Matching(pair, key) \in Seq(Word)
<1>1. pair[2] \in Values
  OBVIOUS
<1>2. Saying(pair[2]) \in Word
  BY <1>1, ValueIsWord
<1> QED BY <1>2 DEF Matching

\* What a pair more adds to the values of a key.
SaysMore(ps, pair, key) ==
  ValuesIn(Append(ps, pair), key) = IF pair[1] = key
                                    THEN Append(ValuesIn(ps, key), Saying(pair[2]))
                                    ELSE ValuesIn(ps, key)

\* A pair more says one value more of its key, and nothing of others.
LEMMA ValuesLonger ==
  ASSUME NEW ps \in Seq(Keys \X Values), NEW pair \in Keys \X Values, NEW key
  PROVE  ValuesIn(ps, key) \in Seq(Word) /\ SaysMore(ps, pair, key)
<1> DEFINE n == Len(ps)
           more == Append(ps, pair)
           r == [i \in DOMAIN ps |-> Matching(ps[i], key)]
           s == [i \in DOMAIN more |-> Matching(more[i], key)]
<1>1. /\ n \in Nat /\ DOMAIN ps = 1..n /\ DOMAIN more = 1..(n + 1)
      /\ \A i \in 1..n : more[i] = ps[i] /\ ps[i] \in Keys \X Values
      /\ more[n + 1] = pair
  BY AppendProperties
<1> HIDE DEF n, more
<1>2. r \in [1..n -> Seq(Word)]
  BY <1>1, MatchingType
<1>3. \A i \in 1..(n + 1) : more[i] \in Keys \X Values
  <2> TAKE i \in 1..(n + 1)
  <2>1. i \in 1..n \/ i = n + 1
    BY <1>1
  <2> QED BY <1>1, <2>1
<1>4. s \in [1..(n + 1) -> Seq(Word)]
  BY <1>1, <1>3, MatchingType
<1>5. \A i \in 1..n : s[i] = r[i] /\ i \in 1..(n + 1)
  BY <1>1
<1>6. s[n + 1] = Matching(pair, key)
  BY <1>1
<1>7. ValuesIn(ps, key) = FlattenSeq(r) /\ ValuesIn(more, key) = FlattenSeq(s)
  BY DEF ValuesIn
<1> HIDE DEF r, s
<1>8. FlattenSeq(r) \in Seq(Word)
  BY <1>1, <1>2, FlattenPlaces
<1>9. OneLonger(s, r, n, Seq(Word))
  BY <1>1, <1>2, <1>4, <1>5 DEF OneLonger
<1>10. FlattenSeq(s) = FlattenSeq(r) \o Matching(pair, key)
  BY <1>6, <1>9, FlattenStep
<1>11. CASE pair[1] = key
  <2>1. Saying(pair[2]) \in Word
    BY ValueIsWord
  <2>2. Matching(pair, key) = <<Saying(pair[2])>>
    BY <1>11 DEF Matching
  <2>3. \A t \in Seq(Word), w \in Word : t \o <<w>> = Append(t, w)
    OBVIOUS
  <2> QED BY <1>7, <1>8, <1>10, <1>11, <2>1, <2>2, <2>3 DEF more, SaysMore
<1>12. CASE pair[1] # key
  <2>1. Matching(pair, key) = << >>
    BY <1>12 DEF Matching
  <2>2. FlattenSeq(r) \o << >> = FlattenSeq(r)
    BY <1>8, ConcatEmptySeq
  <2> QED BY <1>7, <1>8, <1>10, <1>12, <2>1, <2>2 DEF more, SaysMore
<1> QED BY <1>11, <1>12

\* The same of the values of an entry.
LEMMA SaidMore ==
  ASSUME NEW vals \in Seq(Values), NEW value \in Values
  PROVE  /\ Said(vals) \in Seq(Word) /\ Len(Said(vals)) = Len(vals)
         /\ Said(Append(vals, value)) = Append(Said(vals), Saying(value))
<1>1. Said(vals) \in Seq(Word) /\ Len(Said(vals)) = Len(vals)
  <2>1. \A k \in DOMAIN vals : Saying(vals[k]) \in Word
    BY ValueIsWord
  <2> QED BY <2>1 DEF Said
<1> DEFINE n == Len(vals)
           more == Append(vals, value)
           w == Saying(value)
           old == Said(vals)
           new == Said(more)
<1>2. /\ n \in Nat /\ DOMAIN vals = 1..n /\ DOMAIN more = 1..(n + 1) /\ Len(more) = n + 1
      /\ \A k \in 1..n : more[k] = vals[k]
      /\ more[n + 1] = value /\ more \in Seq(Values) /\ w \in Word
  BY AppendProperties, ValueIsWord
<1> HIDE DEF n, more
<1>3. /\ DOMAIN new = 1..(n + 1) /\ Len(new) = n + 1
      /\ \A k \in 1..n : new[k] = Saying(vals[k])
      /\ new[n + 1] = w
  <2>1. \A k \in 1..n : k \in 1..(n + 1)
    BY <1>2
  <2>2. n + 1 \in 1..(n + 1)
    BY <1>2
  <2> QED BY <1>2, <2>1, <2>2 DEF Said
<1>4. \A k \in 1..n : old[k] = Saying(vals[k])
  BY <1>2 DEF Said
<1>5. new \in Seq(Word)
  <2>1. \A k \in 1..(n + 1) : more[k] \in Values
    BY <1>2
  <2>2. \A k \in DOMAIN more : Saying(more[k]) \in Word
    BY <1>2, <2>1, ValueIsWord
  <2> QED BY <1>2, <2>2 DEF Said
<1>6. old \in Seq(Word) /\ Len(old) = n
  BY <1>1 DEF n
<1> HIDE DEF old, new, w
<1> DEFINE app == Append(old, w)
<1>7. /\ app \in Seq(Word) /\ Len(app) = n + 1
      /\ \A k \in 1..n : app[k] = old[k]
      /\ app[n + 1] = w
  BY <1>2, <1>6, AppendProperties
<1> HIDE DEF app
<1>8. \A k \in 1..(n + 1) : new[k] = app[k]
  <2> TAKE k \in 1..(n + 1)
  <2>1. k \in 1..n \/ k = n + 1
    BY <1>2
  <2> QED BY <1>3, <1>4, <1>7, <2>1
<1>9. new = app
  BY <1>3, <1>5, <1>7, <1>8, SeqEqual
<1> QED BY <1>1, <1>9 DEF new, app, old, w, more

\* The pairs that are not of flags, and the places of the values of their entries.
Valued(ps) == {p \in DOMAIN ps : ps[p][1] \notin Flags}

Slots(table) ==
  {slot \in Nat \X Nat : /\ slot[1] \in DOMAIN table /\ table[slot[1]].key \notin Flags
                         /\ slot[2] \in DOMAIN table[slot[1]].vals}

\* The table has of each key that is not cut the values of the pairs, in their order.
Gathered(ps, table) ==
  /\ \A i \in DOMAIN table :
       table[i].key \notin LongKeys => ValuesIn(ps, table[i].key) = Said(table[i].vals)
  /\ \A key : (\A i \in DOMAIN table : table[i].key # key) => ValuesIn(ps, key) = << >>
  /\ IsFiniteSet(Slots(table)) /\ Cardinality(Slots(table)) = Cardinality(Valued(ps))

\* The table gains a value of the key, in the entry m.
Gains(table, more, m, key, value) ==
  /\ table \in Seq(ConfigEntry) /\ more \in Seq(ConfigEntry)
  /\ m \in Nat /\ DOMAIN more = DOMAIN table \cup {m}
  /\ \A i \in DOMAIN table : i # m => more[i] = table[i] /\ (key \notin LongKeys => table[i].key # key)
  /\ more[m].key = key
  /\ \E old \in Seq(Values) :
       /\ more[m].vals = Append(old, value)
       /\ m \in DOMAIN table => table[m].key = key /\ old = table[m].vals
       /\ m \notin DOMAIN table => old = << >>

\* A value more takes a new place, unless it is of a flag.
LEMMA SlotsGrow ==
  ASSUME NEW table, NEW more, NEW m, NEW key, NEW value, Gains(table, more, m, key, value)
  PROVE  IF key \in Flags THEN Slots(more) = Slots(table)
         ELSE \E slot : slot \notin Slots(table) /\ Slots(more) = Slots(table) \cup {slot}
<1>1. PICK old \in Seq(Values) :
        /\ more[m].vals = Append(old, value)
        /\ m \in DOMAIN table => table[m].key = key /\ old = table[m].vals
        /\ m \notin DOMAIN table => old = << >>
  BY DEF Gains
<1>2. /\ m \in Nat /\ DOMAIN more = DOMAIN table \cup {m}
      /\ \A i \in DOMAIN table : i # m => more[i] = table[i]
      /\ more[m].key = key
  BY DEF Gains
<1> DEFINE n == Len(old)
<1>3. n \in Nat /\ DOMAIN old = 1..n
  OBVIOUS
<1>4. DOMAIN more[m].vals = 1..(n + 1)
  <2>1. \A v : Len(Append(old, v)) = n + 1 /\ DOMAIN Append(old, v) = 1..(n + 1)
    OBVIOUS
  <2> QED BY <1>1, <2>1
<1>5. m \notin DOMAIN table => 1..n = {}
  BY <1>1
<1> HIDE DEF n
<1>6. CASE key \in Flags
  <2>1. \A slot \in Nat \X Nat : slot \in Slots(more) <=> slot \in Slots(table)
    BY <1>1, <1>2, <1>6 DEF Slots
  <2>2. Slots(more) = Slots(table)
    BY <2>1 DEF Slots
  <2> QED BY <1>6, <2>2
<1>7. CASE key \notin Flags
  <2> DEFINE new == <<m, n + 1>>
  <2>1. new \in Nat \X Nat /\ new[1] = m /\ new[2] = n + 1 /\ n + 1 \notin 1..n /\ n + 1 \in 1..(n + 1)
    BY <1>2, <1>3
  <2>2. \A slot \in Nat \X Nat : slot = new <=> slot[1] = m /\ slot[2] = n + 1
    OBVIOUS
  <2> HIDE DEF new
  <2>3. new \notin Slots(table)
    BY <1>1, <1>3, <2>1 DEF Slots
  <2>4. ASSUME NEW slot \in Nat \X Nat
        PROVE  slot \in Slots(more) <=> slot \in Slots(table) \/ slot = new
    <3>1. CASE slot[1] # m
      BY <1>2, <2>1, <3>1 DEF Slots
    <3>2. CASE slot[1] = m
      <4>1. slot \in Slots(more) <=> slot[2] \in 1..(n + 1)
        BY <1>2, <1>4, <1>7, <3>2 DEF Slots
      <4>2. slot \in Slots(table) <=> slot[2] \in 1..n
        BY <1>1, <1>3, <1>5, <1>7, <3>2 DEF Slots
      <4>3. slot[2] \in 1..(n + 1) <=> slot[2] \in 1..n \/ slot[2] = n + 1
        BY <1>3
      <4> QED BY <2>2, <3>2, <4>1, <4>2, <4>3
    <3> QED BY <3>1, <3>2
  <2>5. Slots(more) = Slots(table) \cup {new}
    BY <2>1, <2>4 DEF Slots
  <2> QED BY <1>7, <2>3, <2>5
<1> QED BY <1>6, <1>7

\* So does a pair more.
LEMMA ValuedGrow ==
  ASSUME NEW ps \in Seq(Keys \X Values), NEW pair \in Keys \X Values
  PROVE  /\ IsFiniteSet(Valued(ps))
         /\ IF pair[1] \in Flags THEN Valued(Append(ps, pair)) = Valued(ps)
            ELSE \E p : p \notin Valued(ps) /\ Valued(Append(ps, pair)) = Valued(ps) \cup {p}
<1> DEFINE n == Len(ps)
           more == Append(ps, pair)
<1>1. /\ n \in Nat /\ DOMAIN ps = 1..n /\ DOMAIN more = 1..(n + 1)
      /\ \A i \in 1..n : more[i] = ps[i] /\ i # n + 1
      /\ more[n + 1] = pair
  BY AppendProperties
<1>2. IsFiniteSet(Valued(ps))
  <2>1. IsFiniteSet(1..n) /\ Valued(ps) \subseteq 1..n
    BY <1>1, FS_Interval DEF Valued
  <2> QED BY <2>1, FS_Subset
<1> HIDE DEF n, more
<1>3. 1..(n + 1) = 1..n \cup {n + 1} /\ n + 1 \notin 1..n
  BY <1>1
<1>4. CASE pair[1] \in Flags
  <2>1. Valued(more) = Valued(ps)
    BY <1>1, <1>3, <1>4 DEF Valued
  <2> QED BY <1>2, <1>4, <2>1 DEF more
<1>5. CASE pair[1] \notin Flags
  <2>1. Valued(more) = Valued(ps) \cup {n + 1} /\ n + 1 \notin Valued(ps)
    BY <1>1, <1>3, <1>5 DEF Valued
  <2> QED BY <1>2, <1>5, <2>1 DEF more
<1> QED BY <1>4, <1>5

\* A pair more, and its value with the entry of its key, keep the table so.
LEMMA GatheredStays ==
  ASSUME NEW ps \in Seq(Keys \X Values), NEW table, Gathered(ps, table),
         NEW key \in Keys, NEW value \in Values, NEW more, NEW m,
         Gains(table, more, m, key, value)
  PROVE  Gathered(Append(ps, <<key, value>>), more)
<1> DEFINE pair == <<key, value>>
           longer == Append(ps, pair)
<1>1. pair \in Keys \X Values /\ pair[1] = key /\ pair[2] = value
  OBVIOUS
<1> HIDE DEF pair
<1>2. /\ m \in Nat /\ DOMAIN more = DOMAIN table \cup {m}
      /\ \A i \in DOMAIN table : i # m => more[i] = table[i] /\ (key \notin LongKeys => table[i].key # key)
      /\ more[m].key = key
  BY DEF Gains
<1>3. \A k : ValuesIn(longer, k) = IF key = k THEN Append(ValuesIn(ps, k), Saying(value))
                                   ELSE ValuesIn(ps, k)
  <2> TAKE k
  <2> HIDE DEF longer
  <2>1. longer = Append(ps, pair)
    BY DEF longer
  <2>2. ValuesIn(Append(ps, pair), k) = IF pair[1] = k THEN Append(ValuesIn(ps, k), Saying(pair[2]))
                                        ELSE ValuesIn(ps, k)
    <3>1. SaysMore(ps, pair, k)
      BY <1>1, ValuesLonger
    <3> QED BY ONLY <3>1 DEF SaysMore
  <2> QED BY ONLY <1>1, <2>1, <2>2
<1> HIDE DEF longer
<1>4. PICK old \in Seq(Values) :
        /\ more[m].vals = Append(old, value)
        /\ m \in DOMAIN table => table[m].key = key /\ old = table[m].vals
        /\ m \notin DOMAIN table => old = << >>
  BY DEF Gains
<1>5. ASSUME key \notin LongKeys PROVE ValuesIn(ps, key) = Said(old)
  <2>1. CASE m \in DOMAIN table
    BY <1>4, <1>5, <2>1 DEF Gathered
  <2>2. CASE m \notin DOMAIN table
    <3>1. \A i \in DOMAIN table : table[i].key # key
      BY <1>2, <1>5, <2>2
    <3>2. Said(<< >>) = << >>
      BY DEF Said
    <3> QED BY <1>4, <2>2, <3>1, <3>2 DEF Gathered
  <2> QED BY <2>1, <2>2
<1>6. ASSUME NEW i \in DOMAIN more, more[i].key \notin LongKeys
      PROVE  ValuesIn(longer, more[i].key) = Said(more[i].vals)
  <2>1. CASE i = m
    <3>1. Said(more[m].vals) = Append(Said(old), Saying(value))
      BY <1>4, SaidMore
    <3> QED BY <1>2, <1>3, <1>5, <1>6, <2>1, <3>1
  <2>2. CASE i # m
    <3>1. i \in DOMAIN table /\ more[i] = table[i] /\ table[i].key # key
      BY <1>2, <1>6, <2>2
    <3> QED BY <1>3, <1>6, <3>1 DEF Gathered
  <2> QED BY <2>1, <2>2
<1>7. ASSUME NEW k, \A i \in DOMAIN more : more[i].key # k
      PROVE  ValuesIn(longer, k) = << >>
  <2>1. k # key /\ \A i \in DOMAIN table : table[i].key # k
    BY <1>2, <1>4, <1>7
  <2> QED BY <1>3, <2>1 DEF Gathered
<1>8. /\ IsFiniteSet(Slots(table)) /\ IsFiniteSet(Valued(ps))
      /\ Cardinality(Slots(table)) = Cardinality(Valued(ps))
  BY <1>1, ValuedGrow DEF Gathered
<1>9. IsFiniteSet(Slots(more)) /\ Cardinality(Slots(more)) = Cardinality(Valued(longer))
  <2>1. CASE key \in Flags
    <3>1. Slots(more) = Slots(table)
      BY <2>1, SlotsGrow
    <3>2. Valued(longer) = Valued(ps)
      BY <1>1, <2>1, ValuedGrow DEF longer
    <3> QED BY <1>8, <3>1, <3>2
  <2>2. CASE key \notin Flags
    <3>1. PICK slot : slot \notin Slots(table) /\ Slots(more) = Slots(table) \cup {slot}
      BY <2>2, SlotsGrow
    <3>2. PICK p : p \notin Valued(ps) /\ Valued(longer) = Valued(ps) \cup {p}
      BY <1>1, <2>2, ValuedGrow DEF longer
    <3>3. IsFiniteSet(Slots(more)) /\ Cardinality(Slots(more)) = Cardinality(Slots(table)) + 1
      BY <1>8, <3>1, FS_AddElement
    <3>4. Cardinality(Valued(longer)) = Cardinality(Valued(ps)) + 1
      BY <1>8, <3>2, FS_AddElement
    <3> QED BY <1>8, <3>3, <3>4
  <2> QED BY <2>1, <2>2
<1> QED BY <1>6, <1>7, <1>9 DEF Gathered, longer, pair

\* alini_cb adds the value to the entry of its key.
LEMMA AliniCbGains ==
  ASSUME GatherInv, GatherInv', NEW key \in Keys, NEW value \in Values, AliniCb(key, value)
  PROVE  \E m : Gains(configArgs, configArgs', m, key, value)
<1> DEFINE n == Len(configArgs)
           table == configArgs'
<1>1. /\ configArgs \in Seq(ConfigEntry) /\ table \in Seq(ConfigEntry)
      /\ n \in Nat /\ DOMAIN configArgs = 1..n
      /\ \A i, j \in DOMAIN configArgs :
           configArgs[i].key = configArgs[j].key /\ configArgs[i].key \notin LongKeys => i = j
  BY DEF GatherInv, TableTypeOK, OneEntryEach
<1>2. CASE Entry(key) = 0
  <2> DEFINE e == [key |-> key, vals |-> <<value>>]
             m == n + 1
  <2>1. key \notin LongKeys => \A i \in DOMAIN configArgs : configArgs[i].key # key
    <3>1. 0 \notin 1..n
      OBVIOUS
    <3> QED BY <1>1, <1>2, <3>1, EntryFound
  <2>2. table = Append(configArgs, e)
    BY <1>2 DEF AliniCb
  <2>3. e \in ConfigEntry /\ e.key = key /\ e.vals = <<value>>
    <3>1. <<value>> \in Seq(Values)
      OBVIOUS
    <3> QED BY <3>1 DEF ConfigEntry
  <2>4. <<value>> = Append(<< >>, value) /\ << >> \in Seq(Values)
    OBVIOUS
  <2> HIDE DEF e
  <2>5. /\ DOMAIN Append(configArgs, e) = 1..(n + 1)
        /\ \A i \in 1..n : Append(configArgs, e)[i] = configArgs[i]
        /\ Append(configArgs, e)[n + 1] = e
    <3>1. Len(Append(configArgs, e)) = n + 1 /\ Append(configArgs, e) \in Seq(ConfigEntry)
      BY <1>1, <2>3, AppendProperties
    <3>2. DOMAIN Append(configArgs, e) = 1..(n + 1)
      BY <3>1
    <3> QED BY <1>1, <2>3, <3>2, AppendProperties
  <2>6. m \in Nat /\ 1..m = 1..n \cup {m} /\ m \notin 1..n
    BY <1>1
  <2>7. /\ DOMAIN table = DOMAIN configArgs \cup {m}
        /\ \A i \in DOMAIN configArgs : table[i] = configArgs[i]
        /\ table[m] = e
    BY <1>1, <2>2, <2>5, <2>6
  <2> HIDE DEF m, table
  <2>8. Gains(configArgs, table, m, key, value)
    BY <1>1, <2>1, <2>3, <2>4, <2>6, <2>7 DEF Gains
  <2> QED BY <2>8 DEF table
<1>3. CASE Entry(key) # 0
  <2> DEFINE k == Entry(key)
             r == configArgs[k]
             vals == Append(r.vals, value)
             e == [r EXCEPT !.vals = vals]
  <2>1. k \in DOMAIN configArgs /\ r.key = key /\ key \notin LongKeys
    BY <1>3, EntryFound
  <2>2. r = [key |-> r.key, vals |-> r.vals] /\ r.vals \in Seq(Values)
    <3>1. r \in ConfigEntry
      BY <1>1, <2>1
    <3> QED BY <3>1 DEF ConfigEntry
  <2>3. table = [configArgs EXCEPT ![k] = e]
    BY <1>3, <2>1 DEF AliniCb
  <2>4. e.key = r.key /\ e.vals = vals
    <3> HIDE DEF r, vals
    <3> QED BY <2>2, EntryExtended
  <2>5. /\ DOMAIN table = DOMAIN configArgs \cup {k}
        /\ \A i \in DOMAIN configArgs : i # k => table[i] = configArgs[i]
        /\ table[k] = e
    <3> HIDE DEF e, k
    <3> QED BY <2>1, <2>3 DEF k
  <2>6. k \in Nat
    BY <1>1, <2>1
  <2>7. \A i \in DOMAIN configArgs : i # k => configArgs[i].key # key
    BY <1>1, <2>1
  <2> HIDE DEF k, e, table
  <2>8. Gains(configArgs, table, k, key, value)
    BY <1>1, <2>1, <2>2, <2>4, <2>5, <2>6, <2>7 DEF Gains
  <2> QED BY <2>8 DEF table
<1> QED BY <1>2, <1>3

\* The empty table has the values of no pairs.
LEMMA GatheredFirst ==
  Gathered(<< >>, << >>)
<1>1. \A key : ValuesIn(<< >>, key) = << >>
  <2> TAKE key
  <2> DEFINE s == [i \in DOMAIN << >> |-> Matching(<< >>[i], key)]
  <2>1. s = << >> /\ Len(s) = 0
    OBVIOUS
  <2>2. ValuesIn(<< >>, key) = FlattenSeq(s)
    BY DEF ValuesIn
  <2> HIDE DEF s
  <2> QED BY <2>1, <2>2 DEF FlattenSeq
<1>2. Slots(<< >>) = {} /\ Valued(<< >>) = {}
  BY DEF Slots, Valued
<1>3. IsFiniteSet({})
  BY FS_EmptySet
<1>4. \A i \in DOMAIN << >> : FALSE
  OBVIOUS
<1>5. Cardinality(Slots(<< >>)) = Cardinality(Valued(<< >>)) /\ IsFiniteSet(Slots(<< >>))
  BY <1>2, <1>3
<1> QED BY <1>1, <1>4, <1>5 DEF Gathered

Option(key) == <<"option", key>>

\* Words tell apart options and values, and which they are.
LEMMA WordFacts ==
  /\ \A key \in Keys : Option(key) \in Word
  /\ \A value \in Values : Saying(value) \in Word
  /\ \A key, k : Option(key) = Option(k) <=> key = k
  /\ \A value, v : Saying(value) = Saying(v) <=> value = v
  /\ \A key, value : Option(key) # Saying(value)
  /\ \A w \in Word : (\E key \in Keys : w = Option(key)) \/ (\E value \in Values : w = Saying(value))
BY DEF Option, Saying, Word

\* What an entry counts for is a number.
LEMMA CountIsNat ==
  ASSUME NEW e \in ConfigEntry
  PROVE  /\ e.key \in Keys /\ e.vals \in Seq(Values)
         /\ ArgsCount(e) \in Nat /\ ToInteger(e.vals[1]) \in Nat
         /\ ArgsCount(e) = IF e.key \in Flags THEN ToInteger(e.vals[1]) ELSE 1 + Len(e.vals)
<1>1. e.key \in Keys /\ e.vals \in Seq(Values)
  BY DEF ConfigEntry
<1>2. ToInteger(e.vals[1]) \in Nat
  <2>1. SizeLimit - 1 \in Nat /\ 2 * IntLimit + 1 \in Nat
    BY ConfigAssumption
  <2> QED BY <2>1 DEF ToInteger
<1>3. Len(e.vals) \in Nat
  BY <1>1
<1> QED BY <1>1, <1>2, <1>3 DEF ArgsCount

\* The words of an entry are as many as are counted.
LEMMA WordsType ==
  ASSUME NEW e \in ConfigEntry
  PROVE  /\ Words(e) \in Seq(Word) /\ Len(Words(e)) = ArgsCount(e)
         /\ e.key \in Flags => \A j \in 1..ArgsCount(e) : Words(e)[j] = Option(e.key)
         /\ e.key \notin Flags => /\ Words(e)[1] = Option(e.key)
                                  /\ \A j \in 1..Len(e.vals) : Words(e)[1 + j] = Saying(e.vals[j])
<1> DEFINE name == Option(e.key)
           t == ToInteger(e.vals[1])
           said == Said(e.vals)
           l == Len(e.vals)
           one == <<name>>
<1>1. /\ e.key \in Keys /\ e.vals \in Seq(Values) /\ t \in Nat /\ name \in Word
      /\ ArgsCount(e) = IF e.key \in Flags THEN t ELSE 1 + l
  BY CountIsNat, WordFacts
<1>2. Words(e) = IF e.key \in Flags THEN [i \in 1..t |-> name] ELSE one \o said
  BY DEF Words, Option, Said, Saying
<1>3. /\ said \in Seq(Word) /\ Len(said) = l /\ l \in Nat
      /\ \A j \in 1..l : said[j] = Saying(e.vals[j])
  <2>1. said \in Seq(Word) /\ Len(said) = l
    <3>1. ASSUME NEW vals \in Seq(Values) PROVE Said(vals) \in Seq(Word) /\ Len(Said(vals)) = Len(vals)
      BY SaidMore DEF Values
    <3> QED BY <1>1, <3>1
  <2>2. l \in Nat /\ DOMAIN e.vals = 1..l
    BY <1>1
  <2> QED BY <2>1, <2>2 DEF Said
<1>4. one \in Seq(Word) /\ Len(one) = 1 /\ one[1] = name
  BY <1>1
<1> HIDE DEF name, t, said, l, one
<1>5. CASE e.key \in Flags
  <2> DEFINE w == [i \in 1..t |-> name]
  <2>1. w \in Seq(Word) /\ Len(w) = t /\ \A j \in 1..t : w[j] = name
    BY <1>1
  <2> HIDE DEF w
  <2> QED BY <1>1, <1>2, <1>5, <2>1 DEF w, name
<1>6. CASE e.key \notin Flags
  <2> DEFINE w == one \o said
  <2> DEFINE a == Len(one)
             b == Len(said)
  <2>1. one \in Seq(Word) /\ said \in Seq(Word) /\ a = 1 /\ b = l
    BY <1>3, <1>4
  <2>2. /\ w \in Seq(Word) /\ Len(w) = a + b
        /\ \A i \in 1..(a + b) : w[i] = IF i <= a THEN one[i] ELSE said[i - a]
    BY ONLY <2>1, ConcatProperties
  <2> HIDE DEF a, b, w
  <2>3. w \in Seq(Word) /\ Len(w) = 1 + l
    BY <2>1, <2>2
  <2>4. \A i \in 1..(1 + l) : w[i] = IF i <= 1 THEN one[i] ELSE said[i - 1]
    BY <2>1, <2>2
  <2> HIDE DEF w
  <2>5. w[1] = name
    BY <1>3, <1>4, <2>4
  <2>6. \A j \in 1..l : w[1 + j] = said[j]
    <3> TAKE j \in 1..l
    <3> DEFINE i == 1 + j
               x == i - 1
    <3>1. i \in 1..(1 + l) /\ ~(i <= 1) /\ x = j
      BY <1>3
    <3> HIDE DEF i
    <3>2. w[i] = IF i <= 1 THEN one[i] ELSE said[x]
      BY <2>4, <3>1
    <3> HIDE DEF x
    <3> QED BY <3>1, <3>2 DEF i
  <2>7. Words(e) = w /\ ArgsCount(e) = 1 + l
    BY <1>1, <1>2, <1>6 DEF w
  <2>8. \A j \in 1..l : w[1 + j] = Saying(e.vals[j])
    BY <1>3, <2>6
  <2> QED BY <1>6, <2>3, <2>5, <2>7, <2>8 DEF name, l
<1> QED BY <1>5, <1>6

\* Two sets between which a function goes one to one are of the same size.
LEMMA SameSize ==
  ASSUME NEW S, NEW T, IsFiniteSet(S), NEW f \in [S -> T],
         \A x, y \in S : f[x] = f[y] => x = y,
         \A z \in T : \E x \in S : f[x] = z
  PROVE  IsFiniteSet(T) /\ Cardinality(T) = Cardinality(S)
<1>1. f \in Bijection(S, T)
  BY Fun_IsBij
<1>2. ExistsBijection(S, T)
  BY <1>1 DEF ExistsBijection
<1> QED BY <1>2, FS_Bijection

\* The words of the config, as build_config_commandline writes and counts them.
Written(table, argc, argv) ==
  /\ argv = FlattenSeq([i \in DOMAIN table |-> Words(table[i])])
  /\ argc = FoldSeq(LAMBDA e, n : n + ArgsCount(e), 0, table)

ArgvIsWritten == Written(configArgs, configArgc, configArgv)

Count(i) == ArgsCount(configArgs[i])

\* The words of the first i of n entries end at ends[i].
Built(n, ends) ==
  /\ n \in Nat /\ configArgs \in Seq(ConfigEntry) /\ DOMAIN configArgs = 1..n
  /\ configArgv \in Seq(Word) /\ DOMAIN configArgv = 1..ends[n] /\ Len(configArgv) = ends[n]
  /\ ends \in [0..n -> Nat] /\ ends[0] = 0
  /\ \A i \in 1..n : Count(i) \in Nat /\ ends[i] = ends[i - 1] + Count(i)
  /\ \A i, h \in 0..n : i <= h => ends[i] <= ends[h]
  /\ \A i \in 1..n : \A j \in 1..Count(i) : configArgv[ends[i - 1] + j] = Words(configArgs[i])[j]
  /\ \A p \in 1..ends[n] : \E i \in 1..n : ends[i - 1] < p /\ p <= ends[i]

\* What build_config_commandline writes has such places.
LEMMA ArgvIsBuilt ==
  ASSUME GatherInv, ArgvIsWritten
  PROVE  \E n, ends : Built(n, ends)
<1> DEFINE n == Len(configArgs)
           s == [i \in 1..n |-> Words(configArgs[i])]
<1>1. /\ n \in Nat /\ configArgs \in Seq(ConfigEntry) /\ DOMAIN configArgs = 1..n
      /\ \A i \in 1..n : configArgs[i] \in ConfigEntry
  BY DEF GatherInv, TableTypeOK
<1> HIDE DEF n
<1>2. \A i \in 1..n : s[i] \in Seq(Word) /\ Len(s[i]) = Count(i) /\ Count(i) \in Nat
  <2> TAKE i \in 1..n
  <2>1. configArgs[i] \in ConfigEntry
    BY <1>1
  <2>2. Words(configArgs[i]) \in Seq(Word) /\ Len(Words(configArgs[i])) = Count(i)
    BY <2>1, WordsType DEF Count
  <2>3. Count(i) \in Nat
    BY <2>1, CountIsNat DEF Count
  <2> QED BY <2>2, <2>3
<1>3. s \in [1..n -> Seq(Word)]
  BY <1>2
<1>4. configArgv = FlattenSeq(s)
  BY <1>1 DEF ArgvIsWritten, Written
<1>5. \A i \in 1..n : s[i] = Words(configArgs[i])
  OBVIOUS
<1> HIDE DEF s
<1>6. configArgv \in Seq(Word) /\ \E ends : Placed(ends, s, n, configArgv)
  BY <1>1, <1>3, <1>4, FlattenPlaces
<1>7. PICK ends : Placed(ends, s, n, configArgv)
  BY <1>6
<1>8. /\ ends \in [0..n -> Nat] /\ ends[0] = 0 /\ Len(configArgv) = ends[n]
      /\ \A i \in 1..n : ends[i] = ends[i - 1] + Count(i)
      /\ \A i, h \in 0..n : i <= h => ends[i] <= ends[h]
      /\ \A i \in 1..n : \A j \in 1..Count(i) : configArgv[ends[i - 1] + j] = Words(configArgs[i])[j]
      /\ \A p \in 1..ends[n] : \E i \in 1..n : ends[i - 1] < p /\ p <= ends[i]
  BY <1>2, <1>5, <1>7 DEF Placed
<1>9. DOMAIN configArgv = 1..ends[n]
  BY <1>6, <1>8
<1>10. Built(n, ends)
  BY <1>1, <1>2, <1>6, <1>8, <1>9 DEF Built
<1> QED BY <1>10

\* Where the j-th word of the i-th entry is.
Place(ends, i, j) == ends[i - 1] + j

\* Each word of an entry has its place, and each place one word of one entry.
LEMMA PlaceFacts ==
  ASSUME NEW n, NEW ends, Built(n, ends)
  PROVE  /\ \A i \in 1..n : \A j \in 1..Count(i) :
              /\ Place(ends, i, j) \in DOMAIN configArgv
              /\ configArgv[Place(ends, i, j)] = Words(configArgs[i])[j]
         /\ \A p \in DOMAIN configArgv : \E i \in 1..n : \E j \in 1..Count(i) : p = Place(ends, i, j)
         /\ \A i, h \in 1..n : \A j \in 1..Count(i) : \A l \in 1..Count(h) :
              Place(ends, i, j) = Place(ends, h, l) => i = h /\ j = l
<1>1. /\ n \in Nat /\ DOMAIN configArgv = 1..ends[n]
      /\ ends \in [0..n -> Nat]
      /\ \A i \in 1..n : Count(i) \in Nat /\ ends[i] = ends[i - 1] + Count(i)
      /\ \A i, h \in 0..n : i <= h => ends[i] <= ends[h]
      /\ \A i \in 1..n : \A j \in 1..Count(i) : configArgv[ends[i - 1] + j] = Words(configArgs[i])[j]
      /\ \A p \in 1..ends[n] : \E i \in 1..n : ends[i - 1] < p /\ p <= ends[i]
  BY DEF Built
<1>2. \A i \in 1..n : i \in 0..n /\ i - 1 \in 0..n /\ n \in 0..n /\ i <= n
  BY <1>1
<1>3. ASSUME NEW i \in 1..n
      PROVE  /\ ends[i] \in Nat /\ ends[i - 1] \in Nat /\ Count(i) \in Nat /\ ends[n] \in Nat
             /\ ends[i] = ends[i - 1] + Count(i) /\ ends[i] <= ends[n]
  BY <1>1, <1>2
<1>4. ASSUME NEW i \in 1..n, NEW j \in 1..Count(i)
      PROVE  /\ Place(ends, i, j) \in DOMAIN configArgv
             /\ configArgv[Place(ends, i, j)] = Words(configArgs[i])[j]
  <2>1. ends[i - 1] + j \in 1..ends[n]
    BY <1>3
  <2> QED BY <1>1, <2>1 DEF Place
<1>5. ASSUME NEW p \in DOMAIN configArgv
      PROVE  \E i \in 1..n : \E j \in 1..Count(i) : p = Place(ends, i, j)
  <2>1. p \in 1..ends[n]
    BY <1>1
  <2>2. PICK i \in 1..n : ends[i - 1] < p /\ p <= ends[i]
    BY <1>1, <2>1
  <2>3. p - ends[i - 1] \in 1..Count(i) /\ p = ends[i - 1] + (p - ends[i - 1])
    BY <1>3, <2>1, <2>2
  <2> QED BY <2>3 DEF Place
<1>6. ASSUME NEW i \in 1..n, NEW h \in 1..n, NEW j \in 1..Count(i), NEW l \in 1..Count(h),
             Place(ends, i, j) = Place(ends, h, l)
      PROVE  i = h /\ j = l
  <2>1. ends[i - 1] + j = ends[h - 1] + l
    BY <1>6 DEF Place
  <2>2. ASSUME NEW a \in 1..n, NEW b \in 1..n, a < b, NEW x \in 1..Count(a), NEW y \in 1..Count(b)
        PROVE  ends[a - 1] + x # ends[b - 1] + y
    <3>1. ends[a] <= ends[b - 1]
      <4>1. a \in 0..n /\ b - 1 \in 0..n /\ a <= b - 1
        BY <1>1, <2>2
      <4> QED BY <1>1, <4>1
    <3>2. ends[a - 1] + x <= ends[a]
      BY <1>3
    <3>3. y > 0 /\ ends[b - 1] \in Nat /\ ends[a - 1] \in Nat /\ ends[a] \in Nat
      BY <1>3
    <3> QED BY <3>1, <3>2, <3>3
  <2>3. ~(i < h) /\ ~(h < i)
    BY <2>1, <2>2
  <2>4. i = h
    BY <2>3
  <2>5. ends[i - 1] \in Nat
    BY <1>3
  <2> QED BY <2>1, <2>4, <2>5
<1> QED BY <1>4, <1>5, <1>6

\* The words are as many as are counted.
LEMMA ArgcIsLength ==
  ASSUME NEW n, NEW ends, Built(n, ends), ArgvIsWritten
  PROVE  configArgc = Len(configArgv)
<1> DEFINE S == 1..n
           g == [i \in S |-> ArgsCount(configArgs[i])]
<1>1. /\ n \in Nat /\ DOMAIN configArgs = 1..n
      /\ ends \in [0..n -> Nat] /\ ends[0] = 0 /\ Len(configArgv) = ends[n]
      /\ \A i \in 1..n : Count(i) \in Nat /\ ends[i] = ends[i - 1] + Count(i)
  BY DEF Built
<1>2. PICK h : Sums(h, S, g) /\ configArgc = h[S]
  BY <1>1, ArgcIsSum DEF ArgvIsWritten, Written
<1>3. g \in [S -> Nat] /\ IsFiniteSet(S) /\ \A i \in S : g[i] = Count(i)
  <2>1. \A i \in S : g[i] = Count(i)
    BY DEF Count
  <2>2. IsFiniteSet(S)
    BY <1>1, FS_Interval
  <2>3. g = [i \in S |-> Count(i)]
    BY DEF Count
  <2> HIDE DEF g
  <2> QED BY <1>1, <2>1, <2>2, <2>3
<1> HIDE DEF g, S
<1>4. h[{}] = 0 /\ \A s \in SUBSET S : h[s] \in Nat /\ \A x \in s : h[s] = h[s \ {x}] + g[x]
  BY <1>2, <1>3, SumsAdd
<1> USE DEF S
<1> DEFINE T == {k \in Nat : k <= n => h[1..k] = ends[k]}
<1>5. 0 \in T
  <2>1. 1..0 = {}
    OBVIOUS
  <2> QED BY <1>1, <1>4, <2>1
<1>6. ASSUME NEW k \in Nat, k \in T
      PROVE  k + 1 \in T
  <2> DEFINE m == k + 1
  <2> SUFFICES ASSUME m <= n PROVE h[1..m] = ends[m]
    OBVIOUS
  <2>1. /\ m \in 1..m /\ m \in 1..n /\ (1..m) \ {m} = 1..k /\ 1..m \in SUBSET S /\ k <= n
        /\ m - 1 = k /\ m \in S
    <3>1. m \in 1..m /\ m \in 1..n /\ k <= n /\ m - 1 = k
      BY <1>1
    <3>2. (1..m) \ {m} = 1..k
      OBVIOUS
    <3>3. \A i \in 1..m : i \in 1..n
      BY <1>1
    <3> QED BY <3>1, <3>2, <3>3
  <2> HIDE DEF m
  <2>2. h[1..m] = h[(1..m) \ {m}] + g[m]
    BY <1>4, <2>1
  <2>3. h[1..k] = ends[k]
    BY <1>6, <2>1
  <2>4. ends[m] = ends[m - 1] + Count(m)
    BY <1>1, <2>1
  <2>5. g[m] = Count(m)
    BY <1>3, <2>1
  <2> QED BY <2>1, <2>2, <2>3, <2>4, <2>5
<1> HIDE DEF T
<1>7. n \in T
  BY <1>1, <1>5, <1>6, SetInduction
<1> QED BY <1>1, <1>2, <1>7 DEF T

\* Where the options of the keys are, and where the values.
OptionsAt(keys) == {p \in DOMAIN configArgv : \E key \in keys : configArgv[p] = Option(key)}

ValuesAt == {p \in DOMAIN configArgv : \E value \in Values : configArgv[p] = Saying(value)}

\* There are finitely many places.
LEMMA PlacesAreFinite ==
  ASSUME configArgv \in Seq(Word)
  PROVE  /\ Len(configArgv) \in Nat
         /\ IsFiniteSet(DOMAIN configArgv) /\ Cardinality(DOMAIN configArgv) = Len(configArgv)
         /\ IsFiniteSet(ValuesAt)
         /\ \A keys : IsFiniteSet(OptionsAt(keys))
<1> DEFINE n == Len(configArgv)
<1>1. n \in Nat /\ DOMAIN configArgv = 1..n
  OBVIOUS
<1> HIDE DEF n
<1>2. IsFiniteSet(1..n) /\ Cardinality(1..n) = n
  BY <1>1, FS_Interval
<1>3. ValuesAt \subseteq 1..n /\ \A keys : OptionsAt(keys) \subseteq 1..n
  BY <1>1 DEF ValuesAt, OptionsAt
<1>4. IsFiniteSet(ValuesAt)
  BY <1>2, <1>3, FS_Subset
<1>5. ASSUME NEW keys PROVE IsFiniteSet(OptionsAt(keys))
  <2>1. OptionsAt(keys) \in SUBSET (1..n)
    BY <1>3
  <2> QED BY <1>2, <2>1, FS_Subset
<1> QED BY <1>1, <1>2, <1>4, <1>5 DEF n

\* Two sets with nothing in common.
LEMMA Disjoint ==
  ASSUME NEW S, NEW T, IsFiniteSet(S), IsFiniteSet(T), S \cap T = {}
  PROVE  Cardinality(S \cup T) = Cardinality(S) + Cardinality(T)
<1>1. Cardinality(S \cap T) = 0
  BY FS_EmptySet
<1>2. Cardinality(S \cup T) = Cardinality(S) + Cardinality(T) - Cardinality(S \cap T)
  BY FS_Union
<1>3. Cardinality(S) \in Nat /\ Cardinality(T) \in Nat
  BY FS_CardinalityType
<1> DEFINE a == Cardinality(S)
           b == Cardinality(T)
           c == Cardinality(S \cap T)
           d == Cardinality(S \cup T)
<1>4. a \in Nat /\ b \in Nat /\ c = 0 /\ d = a + b - c
  BY <1>1, <1>2, <1>3
<1> HIDE DEF a, b, c, d
<1>5. d = a + b
  BY <1>4
<1> QED BY <1>5 DEF a, b, d

\* Every word is the option of a flag, that of another key, or a value.
LEMMA KindsAddUp ==
  ASSUME configArgv \in Seq(Word)
  PROVE  Len(configArgv) = Cardinality(OptionsAt(Flags)) + Cardinality(OptionsAt(Keys \ Flags))
                           + Cardinality(ValuesAt)
<1> DEFINE A == OptionsAt(Flags)
           B == OptionsAt(Keys \ Flags)
           C == ValuesAt
<1>1. DOMAIN configArgv = (A \cup B) \cup C
  <2>1. \A p \in DOMAIN configArgv : configArgv[p] \in Word
    OBVIOUS
  <2>2. Flags \subseteq Keys
    BY DEF Keys
  <2>3. ASSUME NEW p \in DOMAIN configArgv PROVE p \in (A \cup B) \cup C
    <3>1. \/ \E key \in Keys : configArgv[p] = Option(key)
          \/ \E value \in Values : configArgv[p] = Saying(value)
      BY <2>1, WordFacts
    <3> QED BY <3>1 DEF OptionsAt, ValuesAt
  <2>4. (A \cup B) \cup C \subseteq DOMAIN configArgv
    BY DEF OptionsAt, ValuesAt
  <2> QED BY <2>3, <2>4
<1>2. A \cap B = {} /\ (A \cup B) \cap C = {}
  BY WordFacts DEF OptionsAt, ValuesAt
<1>3. IsFiniteSet(A) /\ IsFiniteSet(B) /\ IsFiniteSet(C)
  BY PlacesAreFinite
<1>4. Cardinality(DOMAIN configArgv) = Len(configArgv)
  BY PlacesAreFinite
<1> HIDE DEF A, B, C
<1>5. IsFiniteSet(A \cup B)
  BY <1>3, FS_Union
<1>6. Cardinality((A \cup B) \cup C) = Cardinality(A \cup B) + Cardinality(C)
  BY <1>2, <1>3, <1>5, Disjoint
<1>7. Cardinality(A \cup B) = Cardinality(A) + Cardinality(B)
  BY <1>2, <1>3, Disjoint
<1> QED BY <1>1, <1>4, <1>6, <1>7 DEF A, B, C

\* The sum over the flags of how often they occur is the number of their options.
LEMMA FlagsAddUp ==
  ASSUME configArgv \in Seq(Word)
  PROVE  FoldSet(LAMBDA key, n : n + Occurs(<<"option", key>>), 0, Flags)
         = Cardinality(OptionsAt(Flags))
<1> DEFINE g == [key \in Flags |-> Occurs(<<"option", key>>)]
<1>1. IsFiniteSet(Flags)
  BY ConfigAssumption
<1>2. PICK h : /\ Sums(h, Flags, g)
               /\ FoldSet(LAMBDA key, n : n + Occurs(<<"option", key>>), 0, Flags) = h[Flags]
  BY <1>1, OccursIsSum
<1>3. \A key \in Flags : g[key] = Cardinality(OptionsAt({key}))
  <2> TAKE key \in Flags
  <2>1. OptionsAt({key}) = {i \in DOMAIN configArgv : configArgv[i] = <<"option", key>>}
    BY DEF OptionsAt, Option
  <2> QED BY <2>1 DEF Occurs
<1>4. \A keys : IsFiniteSet(OptionsAt(keys)) /\ Cardinality(OptionsAt(keys)) \in Nat
  BY PlacesAreFinite, FS_CardinalityType
<1>5. g \in [Flags -> Nat]
  BY <1>3, <1>4
<1> HIDE DEF g
<1>6. Sums(h, Flags, g)
  BY <1>2
<1>7. h[{}] = 0 /\ \A s \in SUBSET Flags : h[s] \in Nat /\ \A x \in s : h[s] = h[s \ {x}] + g[x]
  BY ONLY <1>1, <1>5, <1>6, SumsAdd
<1> DEFINE T == {k \in Nat : \A s \in SUBSET Flags :
                   Cardinality(s) <= k => h[s] = Cardinality(OptionsAt(s))}
<1>8. OptionsAt({}) = {} /\ Cardinality(OptionsAt({})) = 0
  BY FS_EmptySet DEF OptionsAt
<1>9. 0 \in T
  <2> SUFFICES ASSUME NEW s \in SUBSET Flags, Cardinality(s) <= 0
               PROVE  h[s] = Cardinality(OptionsAt(s))
    OBVIOUS
  <2>1. IsFiniteSet(s)
    BY <1>1, FS_Subset
  <2>2. Cardinality(s) = 0
    BY <2>1, FS_CardinalityType
  <2>3. s = {}
    BY <2>1, <2>2, FS_EmptySet
  <2> QED BY <1>7, <1>8, <2>3
<1>10. ASSUME NEW k \in Nat, k \in T
      PROVE  k + 1 \in T
  <2> SUFFICES ASSUME NEW s \in SUBSET Flags, Cardinality(s) <= k + 1
               PROVE  h[s] = Cardinality(OptionsAt(s))
    OBVIOUS
  <2>1. CASE s = {}
    BY <1>7, <1>8, <2>1
  <2>2. CASE s # {}
    <3>1. PICK x \in s : TRUE
      BY <2>2
    <3> DEFINE less == s \ {x}
    <3>2. less \in SUBSET Flags /\ Cardinality(less) <= k
      BY <1>1, OneLess
    <3>3. h[less] = Cardinality(OptionsAt(less))
      BY <1>10, <3>2
    <3>4. h[s] = h[less] + g[x]
      BY <1>7
    <3>5. OptionsAt(s) = OptionsAt(less) \cup OptionsAt({x})
      BY DEF OptionsAt
    <3>6. OptionsAt(less) \cap OptionsAt({x}) = {}
      BY WordFacts DEF OptionsAt
    <3>7. Cardinality(OptionsAt(less) \cup OptionsAt({x}))
          = Cardinality(OptionsAt(less)) + Cardinality(OptionsAt({x}))
      BY <1>4, <3>6, Disjoint
    <3>8. g[x] = Cardinality(OptionsAt({x}))
      BY <1>3
    <3> QED BY <3>3, <3>4, <3>5, <3>7, <3>8
  <2> QED BY <2>1, <2>2
<1> HIDE DEF T
<1>11. Cardinality(Flags) \in Nat
  BY <1>1, FS_CardinalityType
<1>12. Cardinality(Flags) \in T
  BY <1>9, <1>10, <1>11, SetInduction
<1>13. Flags \in SUBSET Flags /\ Cardinality(Flags) <= Cardinality(Flags)
  BY <1>11
<1>14. h[Flags] = Cardinality(OptionsAt(Flags))
  BY <1>12, <1>13 DEF T
<1> QED BY <1>2, <1>14

\* What the j-th word of the i-th entry is.
LEMMA WordAt ==
  ASSUME NEW n, NEW ends, Built(n, ends), NEW i \in 1..n
  PROVE  /\ configArgs[i] \in ConfigEntry
         /\ configArgs[i].key \in Flags =>
              /\ Count(i) = ToInteger(configArgs[i].vals[1])
              /\ \A j \in 1..Count(i) :
                   configArgv[Place(ends, i, j)] = Option(configArgs[i].key)
         /\ configArgs[i].key \notin Flags =>
              /\ Count(i) = 1 + Len(configArgs[i].vals) /\ Len(configArgs[i].vals) \in Nat
              /\ configArgv[Place(ends, i, 1)] = Option(configArgs[i].key)
              /\ \A j \in 1..Len(configArgs[i].vals) :
                   /\ 1 + j \in 1..Count(i)
                   /\ configArgv[Place(ends, i, 1 + j)] = Saying(configArgs[i].vals[j])
<1> DEFINE e == configArgs[i]
           l == Len(e.vals)
           c == Count(i)
<1>1. e \in ConfigEntry
  BY DEF Built
<1>2. \A j \in 1..c : configArgv[Place(ends, i, j)] = Words(e)[j]
  BY DEF Built, Place
<1>3. c = ArgsCount(e)
  BY DEF Count
<1> HIDE DEF e, c
<1>4. /\ c = IF e.key \in Flags THEN ToInteger(e.vals[1]) ELSE 1 + l
      /\ l \in Nat
  <2>1. l \in Nat
    BY <1>1, CountIsNat
  <2> QED BY <1>1, <1>3, <2>1, CountIsNat
<1>5. CASE e.key \in Flags
  BY <1>1, <1>2, <1>3, <1>4, <1>5, WordsType DEF e, c
<1>6. CASE e.key \notin Flags
  <2>1. Words(e)[1] = Option(e.key) /\ \A j \in 1..l : Words(e)[1 + j] = Saying(e.vals[j])
    BY <1>1, <1>6, WordsType
  <2> HIDE DEF l
  <2>2. c = 1 + l /\ 1 \in 1..c /\ \A j \in 1..l : 1 + j \in 1..c
    BY <1>4, <1>6
  <2>3. configArgv[Place(ends, i, 1)] = Option(e.key)
    BY <1>2, <2>1, <2>2
  <2>4. \A j \in 1..l : configArgv[Place(ends, i, 1 + j)] = Saying(e.vals[j])
    BY <1>2, <2>1, <2>2
  <2> QED BY <1>1, <1>4, <1>6, <2>2, <2>3, <2>4 DEF e, c, l
<1> QED BY <1>5, <1>6

\* Where the option of a key is, and that no other entry has it.
LEMMA OptionAt ==
  ASSUME NEW n, NEW ends, Built(n, ends), NEW p \in DOMAIN configArgv, NEW key,
         configArgv[p] = Option(key)
  PROVE  \E i \in 1..n : /\ configArgs[i].key = key
                         /\ \E j \in 1..Count(i) : p = Place(ends, i, j)
                         /\ key \notin Flags => p = Place(ends, i, 1)
<1>1. PICK i \in 1..n : \E j \in 1..Count(i) : p = Place(ends, i, j)
  BY PlaceFacts
<1>2. PICK j \in 1..Count(i) : p = Place(ends, i, j)
  BY <1>1
<1>3. CASE configArgs[i].key \in Flags
  <2>1. configArgv[p] = Option(configArgs[i].key)
    BY <1>2, <1>3, WordAt
  <2>2. key = configArgs[i].key
    BY <2>1, WordFacts
  <2> QED BY <1>2, <1>3, <2>2
<1>4. CASE configArgs[i].key \notin Flags
  <2>1. /\ Count(i) = 1 + Len(configArgs[i].vals) /\ Len(configArgs[i].vals) \in Nat
        /\ configArgv[Place(ends, i, 1)] = Option(configArgs[i].key)
        /\ \A k \in 1..Len(configArgs[i].vals) :
             configArgv[Place(ends, i, 1 + k)] = Saying(configArgs[i].vals[k])
    BY <1>4, WordAt
  <2>2. CASE j = 1
    <3>1. key = configArgs[i].key
      BY <1>2, <2>1, <2>2, WordFacts
    <3> QED BY <1>2, <2>2, <3>1
  <2>3. CASE j # 1
    <3> DEFINE k == j - 1
               l == Len(configArgs[i].vals)
    <3>1. k \in 1..l /\ 1 + k = j
      BY <2>1, <2>3
    <3> HIDE DEF k, l
    <3>2. configArgv[Place(ends, i, 1 + k)] = Saying(configArgs[i].vals[k])
      BY <2>1, <3>1 DEF l
    <3>3. FALSE
      BY <1>2, <3>1, <3>2, WordFacts
    <3> QED BY <3>3
  <2> QED BY <2>2, <2>3
<1> QED BY <1>3, <1>4

\* Where a value is.
LEMMA ValueAt ==
  ASSUME NEW n, NEW ends, Built(n, ends), NEW p \in DOMAIN configArgv, NEW value,
         configArgv[p] = Saying(value)
  PROVE  \E i \in 1..n : /\ configArgs[i].key \notin Flags
                         /\ \E k \in 1..Len(configArgs[i].vals) : p = Place(ends, i, 1 + k)
<1>1. PICK i \in 1..n : \E j \in 1..Count(i) : p = Place(ends, i, j)
  BY PlaceFacts
<1>2. PICK j \in 1..Count(i) : p = Place(ends, i, j)
  BY <1>1
<1>3. configArgs[i].key \notin Flags
  <2> SUFFICES ASSUME configArgs[i].key \in Flags PROVE FALSE
    OBVIOUS
  <2>1. configArgv[p] = Option(configArgs[i].key)
    BY <1>2, WordAt
  <2>2. Option(configArgs[i].key) # Saying(value)
    BY ONLY WordFacts
  <2> QED BY <2>1, <2>2
<1>4. /\ Count(i) = 1 + Len(configArgs[i].vals) /\ Len(configArgs[i].vals) \in Nat
      /\ configArgv[Place(ends, i, 1)] = Option(configArgs[i].key)
  BY <1>3, WordAt
<1>5. j # 1
  BY <1>2, <1>4, WordFacts
<1> DEFINE k == j - 1
           l == Len(configArgs[i].vals)
<1>6. k \in 1..l /\ 1 + k = j
  BY <1>4, <1>5
<1> HIDE DEF k
<1>7. p = Place(ends, i, 1 + k)
  BY <1>2, <1>6
<1> QED BY <1>3, <1>6, <1>7

\* The keys of the file that are not flags.
KeysGiven == {key \in Keys \ Flags : ValuesOf(key) # << >>}

\* What the values of a key are.
LEMMA EntryOfKey ==
  ASSUME GatherInv, Gathered(pairs, configArgs), NEW n, NEW ends, Built(n, ends)
  PROVE  /\ \A i \in 1..n : configArgs[i].key \notin LongKeys =>
              /\ ValuesOf(configArgs[i].key) = Said(configArgs[i].vals)
              /\ ValuesOf(configArgs[i].key) # << >>
         /\ \A key : ValuesOf(key) # << >> => \E i \in 1..n : configArgs[i].key = key
         /\ \A i, h \in 1..n :
              configArgs[i].key = configArgs[h].key /\ configArgs[i].key \notin LongKeys => i = h
<1>1. DOMAIN configArgs = 1..n
  BY DEF Built
<1>2. ASSUME NEW i \in 1..n, configArgs[i].key \notin LongKeys
      PROVE  /\ ValuesOf(configArgs[i].key) = Said(configArgs[i].vals)
             /\ ValuesOf(configArgs[i].key) # << >>
  <2> DEFINE vals == configArgs[i].vals
  <2>1. ValuesOf(configArgs[i].key) = Said(vals)
    BY <1>1, <1>2, ValuesAreIn DEF Gathered
  <2>2. vals \in Seq(Values)
    <3>1. configArgs[i] \in ConfigEntry
      BY DEF Built
    <3> QED BY <3>1, CountIsNat
  <2>3. Len(vals) >= 1
    BY <1>1 DEF GatherInv, TableTypeOK
  <2> HIDE DEF vals
  <2>4. 1 \in DOMAIN vals
    BY <2>2, <2>3
  <2>5. DOMAIN Said(vals) = DOMAIN vals
    BY DEF Said
  <2>6. Said(vals) # << >>
    BY <2>4, <2>5
  <2> QED BY <2>1, <2>2, <2>6 DEF vals
<1>3. ASSUME NEW key, ValuesOf(key) # << >>
      PROVE  \E i \in 1..n : configArgs[i].key = key
  BY <1>1, <1>3, ValuesAreIn DEF Gathered
<1>4. \A i, h \in 1..n :
        configArgs[i].key = configArgs[h].key /\ configArgs[i].key \notin LongKeys => i = h
  BY <1>1 DEF GatherInv, OneEntryEach
<1> QED BY <1>2, <1>3, <1>4

\* There is one option for each key of the file that is not a flag.
LEMMA OptionsAreKeys ==
  ASSUME GatherInv, Gathered(pairs, configArgs), NEW n, NEW ends, Built(n, ends),
         \A i \in 1..n : configArgs[i].key \notin LongKeys
  PROVE  Cardinality(OptionsAt(Keys \ Flags)) = Cardinality(KeysGiven)
<1> DEFINE S == OptionsAt(Keys \ Flags)
           KeyAt(p) == CHOOSE key \in Keys \ Flags : configArgv[p] = Option(key)
           f == [p \in S |-> KeyAt(p)]
<1>1. IsFiniteSet(S)
  BY PlacesAreFinite DEF Built
<1>2. ASSUME NEW p \in S
      PROVE  /\ p \in DOMAIN configArgv /\ KeyAt(p) \in Keys \ Flags
             /\ configArgv[p] = Option(KeyAt(p))
  BY DEF OptionsAt
<1> HIDE DEF KeyAt
<1>3. ASSUME NEW p \in S
      PROVE  \E i \in 1..n : configArgs[i].key = KeyAt(p) /\ p = Place(ends, i, 1)
  <2> DEFINE key == KeyAt(p)
  <2>1. p \in DOMAIN configArgv /\ configArgv[p] = Option(key) /\ key \notin Flags
    BY <1>2
  <2> HIDE DEF key
  <2>2. \E i \in 1..n : /\ configArgs[i].key = key
                        /\ \E j \in 1..Count(i) : p = Place(ends, i, j)
                        /\ key \notin Flags => p = Place(ends, i, 1)
    BY <2>1, OptionAt
  <2> QED BY <2>1, <2>2 DEF key
<1>4. ASSUME NEW p \in S
      PROVE  KeyAt(p) \in KeysGiven
  BY <1>2, <1>3, EntryOfKey DEF KeysGiven
<1>5. f \in [S -> KeysGiven]
  BY <1>4
<1>6. ASSUME NEW p \in S, NEW q \in S, f[p] = f[q]
      PROVE  p = q
  <2>1. PICK i \in 1..n : configArgs[i].key = KeyAt(p) /\ p = Place(ends, i, 1)
    BY <1>3
  <2>2. PICK h \in 1..n : configArgs[h].key = KeyAt(q) /\ q = Place(ends, h, 1)
    BY <1>3
  <2>3. i = h
    BY <1>6, <2>1, <2>2, EntryOfKey
  <2> QED BY <2>1, <2>2, <2>3
<1>7. ASSUME NEW key \in KeysGiven
      PROVE  \E p \in S : f[p] = key
  <2>1. key \in Keys \ Flags /\ ValuesOf(key) # << >>
    BY DEF KeysGiven
  <2>2. PICK i \in 1..n : configArgs[i].key = key
    BY <2>1, EntryOfKey
  <2>3. /\ Count(i) = 1 + Len(configArgs[i].vals) /\ Len(configArgs[i].vals) \in Nat
        /\ configArgv[Place(ends, i, 1)] = Option(key)
    BY <2>1, <2>2, WordAt
  <2>4. 1 \in 1..Count(i)
    BY <2>3
  <2>5. Place(ends, i, 1) \in DOMAIN configArgv
    BY <2>4, PlaceFacts
  <2>6. Place(ends, i, 1) \in S
    BY <2>1, <2>3, <2>5 DEF OptionsAt
  <2>7. KeyAt(Place(ends, i, 1)) = key
    BY <1>2, <2>3, <2>6, WordFacts
  <2> QED BY <2>6, <2>7
<1> HIDE DEF S, f
<1>8. Cardinality(KeysGiven) = Cardinality(S)
  BY <1>1, <1>5, <1>6, <1>7, SameSize
<1> QED BY <1>8 DEF S

\* There is one value for each pair that is not of a flag.
LEMMA ValuesArePairs ==
  ASSUME GatherInv, Gathered(pairs, configArgs), NEW n, NEW ends, Built(n, ends)
  PROVE  Cardinality(ValuesAt) = Cardinality(Valued(pairs))
<1> DEFINE S == Slots(configArgs)
           f == [slot \in S |-> Place(ends, slot[1], 1 + slot[2])]
<1>1. IsFiniteSet(S) /\ Cardinality(S) = Cardinality(Valued(pairs))
  BY DEF Gathered
<1>2. DOMAIN configArgs = 1..n
  BY DEF Built
<1>3. ASSUME NEW i \in 1..n, configArgs[i].key \notin Flags,
             NEW k \in 1..Len(configArgs[i].vals)
      PROVE  /\ 1 + k \in 1..Count(i) /\ k \in Nat
             /\ configArgv[Place(ends, i, 1 + k)] = Saying(configArgs[i].vals[k])
             /\ Place(ends, i, 1 + k) \in ValuesAt
             /\ <<i, k>> \in S
  <2>1. /\ 1 + k \in 1..Count(i)
        /\ configArgv[Place(ends, i, 1 + k)] = Saying(configArgs[i].vals[k])
        /\ configArgs[i] \in ConfigEntry
    BY <1>3, WordAt
  <2>2. configArgs[i].vals \in Seq(Values)
    BY <2>1, CountIsNat
  <2>3. DOMAIN configArgs[i].vals = 1..Len(configArgs[i].vals) /\ configArgs[i].vals[k] \in Values
    BY <2>2
  <2>4. Place(ends, i, 1 + k) \in DOMAIN configArgv
    BY <2>1, PlaceFacts
  <2>5. k \in Nat /\ i \in Nat
    OBVIOUS
  <2>6. <<i, k>> \in Nat \X Nat /\ <<i, k>>[1] = i /\ <<i, k>>[2] = k
    BY <2>5
  <2> QED BY <1>2, <1>3, <2>1, <2>3, <2>4, <2>5, <2>6 DEF ValuesAt, Slots
<1>4. ASSUME NEW slot \in S
      PROVE  /\ slot[1] \in 1..n /\ configArgs[slot[1]].key \notin Flags
             /\ slot[2] \in 1..Len(configArgs[slot[1]].vals) /\ slot = <<slot[1], slot[2]>>
  <2>1. /\ slot \in Nat \X Nat /\ slot[1] \in 1..n /\ configArgs[slot[1]].key \notin Flags
        /\ slot[2] \in DOMAIN configArgs[slot[1]].vals
    BY <1>2 DEF Slots
  <2>2. configArgs[slot[1]] \in ConfigEntry
    BY <2>1, WordAt
  <2>3. configArgs[slot[1]].vals \in Seq(Values)
    BY <2>2, CountIsNat
  <2>4. DOMAIN configArgs[slot[1]].vals = 1..Len(configArgs[slot[1]].vals)
    BY <2>3
  <2> QED BY <2>1, <2>4
<1> HIDE DEF S
<1>5. f \in [S -> ValuesAt]
  BY <1>3, <1>4
<1>6. ASSUME NEW x \in S, NEW y \in S, f[x] = f[y]
      PROVE  x = y
  <2> DEFINE i == x[1]
             h == y[1]
             k == x[2]
             l == y[2]
  <2>1. i \in 1..n /\ h \in 1..n /\ 1 + k \in 1..Count(i) /\ 1 + l \in 1..Count(h)
        /\ k \in Nat /\ l \in Nat /\ x = <<i, k>> /\ y = <<h, l>>
    BY <1>3, <1>4
  <2>2. Place(ends, i, 1 + k) = Place(ends, h, 1 + l)
    BY <1>6
  <2> HIDE DEF i, h, k, l
  <2>3. i = h /\ 1 + k = 1 + l
    BY <2>1, <2>2, PlaceFacts
  <2> QED BY <2>1, <2>3
<1>7. ASSUME NEW p \in ValuesAt
      PROVE  \E slot \in S : f[slot] = p
  <2>1. PICK value \in Values : p \in DOMAIN configArgv /\ configArgv[p] = Saying(value)
    BY DEF ValuesAt
  <2>2. PICK i \in 1..n : /\ configArgs[i].key \notin Flags
                          /\ \E k \in 1..Len(configArgs[i].vals) : p = Place(ends, i, 1 + k)
    BY <2>1, ValueAt
  <2>3. PICK k \in 1..Len(configArgs[i].vals) : p = Place(ends, i, 1 + k)
    BY <2>2
  <2>4. <<i, k>> \in S
    BY <1>3, <2>2
  <2>5. f[<<i, k>>] = p
    BY <2>3, <2>4
  <2> QED BY <2>4, <2>5
<1> HIDE DEF f
<1>8. Cardinality(ValuesAt) = Cardinality(S)
  BY <1>1, <1>5, <1>6, <1>7, SameSize
<1> QED BY <1>1, <1>8

\* A flag occurs as often as its value says.
LEMMA FlagIsRepeated ==
  ASSUME GatherInv, Gathered(pairs, configArgs), NEW n, NEW ends, Built(n, ends),
         NEW key \in Flags, ValuesOf(key) # << >>
  PROVE  Occurs(<<"option", key>>) = ToInteger(ValuesOf(key)[1][2])
<1>0. key \notin LongKeys
  BY ConfigAssumption
<1>1. PICK i \in 1..n : configArgs[i].key = key
  BY EntryOfKey
<1> DEFINE vals == configArgs[i].vals
           t == ToInteger(vals[1])
           S == {p \in DOMAIN configArgv : configArgv[p] = Option(key)}
           a == ends[i - 1]
<1>2. /\ configArgs[i] \in ConfigEntry /\ Count(i) = t
      /\ \A j \in 1..Count(i) : configArgv[Place(ends, i, j)] = Option(key)
  BY <1>1, WordAt
<1>3. t \in Nat /\ vals \in Seq(Values)
  BY <1>2, CountIsNat
<1>4. a \in Nat
  <2>1. i - 1 \in 0..n /\ ends \in [0..n -> Nat]
    BY DEF Built
  <2> QED BY <2>1
<1> HIDE DEF t
<1>5. \A p \in S : p \in (a + 1)..(a + t)
  <2> TAKE p \in S
  <2>1. PICK h \in 1..n : configArgs[h].key = key /\ \E j \in 1..Count(h) : p = Place(ends, h, j)
    BY OptionAt
  <2>2. h = i
    BY <1>0, <1>1, <2>1, EntryOfKey
  <2>3. PICK j \in 1..t : p = Place(ends, i, j)
    BY <1>2, <2>1, <2>2
  <2>4. p = a + j
    BY <2>3 DEF Place
  <2> HIDE DEF a
  <2> QED BY <1>3, <1>4, <2>4
<1>6. \A p \in (a + 1)..(a + t) : p \in S
  <2> TAKE p \in (a + 1)..(a + t)
  <2> DEFINE j == p - a
  <2>1. j \in 1..t /\ p = a + j
    <3> HIDE DEF a
    <3> QED BY <1>3, <1>4
  <2> HIDE DEF j
  <2>2. p = Place(ends, i, j)
    BY <2>1 DEF Place
  <2>3. p \in DOMAIN configArgv /\ configArgv[p] = Option(key)
    BY <1>2, <2>1, <2>2, PlaceFacts
  <2> QED BY <2>3
<1>7. S = (a + 1)..(a + t)
  BY <1>5, <1>6
<1> HIDE DEF a, S
<1>8. Cardinality((a + 1)..(a + t)) = t
  <2>1. a + 1 \in Int /\ a + t \in Int
    BY <1>3, <1>4
  <2>2. Cardinality((a + 1)..(a + t)) = IF a + 1 > a + t THEN 0 ELSE (a + t) - (a + 1) + 1
    BY <2>1, FS_Interval
  <2> QED BY <1>3, <1>4, <2>2
<1>9. Occurs(<<"option", key>>) = Cardinality(S)
  BY DEF Occurs, S, Option
<1>10. ValuesOf(key)[1][2] = vals[1]
  <2>1. ValuesOf(key) = Said(vals) /\ ValuesOf(key) # << >>
    BY <1>0, <1>1, EntryOfKey
  <2>2. 1 \in DOMAIN vals
    <3>1. vals # << >>
      BY <2>1 DEF Said
    <3> HIDE DEF vals
    <3> QED BY <1>3, <3>1
  <2>3. Said(vals)[1] = Saying(vals[1])
    BY <2>2 DEF Said
  <2>4. Saying(vals[1])[2] = vals[1]
    BY DEF Saying
  <2> QED BY <2>1, <2>3, <2>4
<1> QED BY <1>7, <1>8, <1>9, <1>10 DEF t

\* The option of a key is followed by its values.
LEMMA ValuesFollow ==
  ASSUME GatherInv, Gathered(pairs, configArgs), NEW n, NEW ends, Built(n, ends),
         NEW key \in Keys \ (Flags \cup LongKeys), ValuesOf(key) # << >>
  PROVE  \E i \in DOMAIN configArgv :
           /\ configArgv[i] = <<"option", key>>
           /\ SubSeq(configArgv, i + 1, i + Len(ValuesOf(key))) = ValuesOf(key)
<1>1. PICK i \in 1..n : configArgs[i].key = key
  BY EntryOfKey
<1> DEFINE vals == configArgs[i].vals
           l == Len(vals)
           p == Place(ends, i, 1)
           said == ValuesOf(key)
<1>2. /\ configArgs[i] \in ConfigEntry /\ Count(i) = 1 + l /\ l \in Nat
      /\ configArgv[p] = Option(key)
      /\ \A j \in 1..l : /\ 1 + j \in 1..Count(i)
                         /\ configArgv[Place(ends, i, 1 + j)] = Saying(vals[j])
  BY <1>1, WordAt
<1>3. /\ said = Said(vals) /\ vals \in Seq(Values)
  BY <1>1, <1>2, EntryOfKey, CountIsNat
<1>4. said \in Seq(Word) /\ Len(said) = l /\ \A j \in 1..l : said[j] = Saying(vals[j])
  <2>1. said \in Seq(Word) /\ Len(said) = Len(vals)
    <3>1. ASSUME NEW v \in Seq(Values) PROVE Said(v) \in Seq(Word) /\ Len(Said(v)) = Len(v)
      BY SaidMore DEF Values
    <3> QED BY <1>3, <3>1
  <2>2. DOMAIN vals = 1..l
    BY <1>3
  <2> QED BY <1>3, <2>1, <2>2 DEF Said
<1>5. p \in DOMAIN configArgv /\ \A j \in 1..l : Place(ends, i, 1 + j) \in DOMAIN configArgv
  <2>1. 1 \in 1..Count(i)
    BY <1>2
  <2> QED BY <1>2, <2>1, PlaceFacts
<1>6. configArgv \in Seq(Word) /\ DOMAIN configArgv = 1..Len(configArgv) /\ Len(configArgv) \in Nat
  BY DEF Built
<1>7. p \in Nat /\ \A j \in 1..l : Place(ends, i, 1 + j) = p + j
  <2>1. p \in Nat
    BY <1>5, <1>6
  <2>2. i - 1 \in 0..n /\ ends \in [0..n -> Nat]
    BY DEF Built
  <2>3. ends[i - 1] \in Nat
    BY <2>2
  <2> QED BY <2>1, <2>3 DEF Place
<1> HIDE DEF p, l, vals, said
<1>8. \A j \in 1..l : p + j \in 1..Len(configArgv) /\ configArgv[p + j] = said[j]
  BY <1>2, <1>4, <1>5, <1>6, <1>7
<1> DEFINE sub == SubSeq(configArgv, p + 1, p + l)
<1>9. sub \in Seq(Word) /\ Len(sub) = l /\ \A j \in 1..l : sub[j] = configArgv[p + j]
  <2> DEFINE m == Len(configArgv)
  <2>1. p + l <= m /\ p \in 1..m /\ m \in Nat
    <3>1. CASE l = 0
      BY <1>2, <1>5, <1>6, <1>7, <3>1
    <3>2. CASE l # 0
      <4>1. l \in 1..l
        BY <1>2, <3>2
      <4>2. p + l \in 1..m
        BY <1>8, <4>1
      <4> QED BY <1>5, <1>6, <4>2
    <3> QED BY <3>1, <3>2
  <2> DEFINE a == p + 1
             b == p + l
  <2>2. a \in 1..(m + 1) /\ b \in (a - 1)..m /\ m = Len(configArgv)
    BY <1>2, <2>1
  <2>3. /\ b - a + 1 = l /\ (~(a <= b) => l = 0)
        /\ \A j \in 1..l : a + j - 1 = p + j
    BY <1>2, <1>7
  <2>4. sub = SubSeq(configArgv, a, b)
    OBVIOUS
  <2> HIDE DEF a, b, sub, m
  <2>5. /\ sub \in Seq(Word) /\ Len(sub) = IF a <= b THEN b - a + 1 ELSE 0
        /\ \A j \in 1..(b - a + 1) : sub[j] = configArgv[a + j - 1]
    BY ONLY <1>6, <2>2, <2>4, SubSeqProperties
  <2> QED BY <2>3, <2>5
<1> HIDE DEF sub
<1>10. sub = said
  BY <1>4, <1>8, <1>9, SeqEqual
<1> QED BY <1>2, <1>4, <1>5, <1>10 DEF sub, said, Option

\* No flag of the table has a negative or a large number.
FlagsFit ==
  \A i \in DOMAIN configArgs :
    configArgs[i].key \in Flags => configArgs[i].vals[1] \notin {"-1", "large"}

\* Every value of an entry is one that the file gives its key.
FromPairs(ps, table) ==
  \A i \in DOMAIN table : \A k \in DOMAIN table[i].vals :
    \E p \in DOMAIN ps : ps[p][1] = table[i].key /\ ps[p][2] = table[i].vals[k]

\* A pair more.
LEMMA FromPairsStays ==
  ASSUME NEW ps \in Seq(Keys \X Values), NEW table, FromPairs(ps, table),
         NEW key \in Keys, NEW value \in Values, NEW more, NEW m,
         Gains(table, more, m, key, value)
  PROVE  FromPairs(Append(ps, <<key, value>>), more)
<1> DEFINE pair == <<key, value>>
           longer == Append(ps, pair)
           n == Len(ps)
<1>1. pair \in Keys \X Values /\ pair[1] = key /\ pair[2] = value
  OBVIOUS
<1> HIDE DEF pair
<1>2. /\ DOMAIN ps = 1..n /\ n \in Nat /\ DOMAIN longer = 1..(n + 1)
      /\ \A p \in 1..n : longer[p] = ps[p]
      /\ longer[n + 1] = pair
  BY <1>1, AppendProperties
<1> HIDE DEF longer, n
<1>3. DOMAIN ps \subseteq DOMAIN longer /\ n + 1 \in DOMAIN longer
  BY <1>2
<1>4. PICK old \in Seq(Values) :
        /\ more[m].vals = Append(old, value)
        /\ m \in DOMAIN table => table[m].key = key /\ old = table[m].vals
        /\ m \notin DOMAIN table => old = << >>
  BY DEF Gains
<1>5. /\ DOMAIN more = DOMAIN table \cup {m} /\ more[m].key = key
      /\ \A i \in DOMAIN table : i # m => more[i] = table[i]
  BY DEF Gains
<1> DEFINE l == Len(old)
           vals == Append(old, value)
<1>6. /\ l \in Nat /\ DOMAIN old = 1..l /\ DOMAIN vals = 1..(l + 1)
      /\ \A k \in 1..l : vals[k] = old[k]
      /\ vals[l + 1] = value
  BY AppendProperties
<1> HIDE DEF l, vals
<1>7. ASSUME NEW i \in DOMAIN more, NEW k \in DOMAIN more[i].vals
      PROVE  \E p \in DOMAIN longer : longer[p][1] = more[i].key /\ longer[p][2] = more[i].vals[k]
  <2>1. CASE i # m
    <3>1. i \in DOMAIN table /\ more[i] = table[i]
      BY <1>5, <2>1
    <3>2. PICK p \in DOMAIN ps : ps[p][1] = table[i].key /\ ps[p][2] = table[i].vals[k]
      BY <3>1, <1>7 DEF FromPairs
    <3> QED BY <1>2, <1>3, <3>1, <3>2
  <2>2. CASE i = m
    <3>1. more[i].key = key /\ more[i].vals = vals
      BY <1>4, <1>5, <2>2 DEF vals
    <3>2. k \in 1..l \/ k = l + 1
      BY <1>6, <1>7, <3>1
    <3>3. CASE k = l + 1
      BY <1>1, <1>2, <1>3, <1>6, <3>1, <3>3
    <3>4. CASE k \in 1..l
      <4>1. 1..l # {} /\ m \in DOMAIN table
        <5>1. old # << >>
          BY <1>6, <3>4
        <5> QED BY <1>4, <3>4, <5>1
      <4>2. k \in DOMAIN table[m].vals /\ table[m].key = key /\ table[m].vals[k] = vals[k]
        BY <1>4, <1>6, <3>4, <4>1
      <4>3. PICK p \in DOMAIN ps : ps[p][1] = table[m].key /\ ps[p][2] = table[m].vals[k]
        BY <4>1, <4>2 DEF FromPairs
      <4> QED BY <1>2, <1>3, <3>1, <4>2, <4>3
    <3> QED BY <3>2, <3>3, <3>4
  <2> QED BY <2>1, <2>2
<1> QED BY <1>7 DEF FromPairs, longer, pair

\* So is its key.
LEMMA KeyIsOfAPair ==
  ASSUME GatherInv, FromPairs(pairs, configArgs), NEW i \in DOMAIN configArgs
  PROVE  \E p \in DOMAIN pairs : pairs[p][1] = configArgs[i].key
<1> DEFINE vals == configArgs[i].vals
<1>1. vals \in Seq(Values)
  <2>1. configArgs[i] \in ConfigEntry
    BY DEF GatherInv, TableTypeOK
  <2> QED BY <2>1 DEF ConfigEntry
<1>2. Len(vals) >= 1
  BY DEF GatherInv, TableTypeOK
<1> HIDE DEF vals
<1>3. 1 \in DOMAIN vals
  BY <1>1, <1>2
<1> QED BY <1>3 DEF FromPairs, vals

\* The entries have as many values as there are pairs: those of the first i entries are
\* ends[i] values.
Measure(table, n, ends) ==
  /\ n \in Nat /\ DOMAIN table = 1..n /\ ends \in [0..n -> Nat] /\ ends[0] = 0
  /\ \A i \in 1..n : ends[i] = ends[i - 1] + Len(table[i].vals)

Measured(ps, table) == \E n, ends : Measure(table, n, ends) /\ ends[n] = Len(ps)

\* A value more.
LEMMA MeasuredStays ==
  ASSUME NEW ps \in Seq(Keys \X Values), NEW table, Measured(ps, table),
         NEW key \in Keys, NEW value \in Values, NEW more, NEW m,
         Gains(table, more, m, key, value)
  PROVE  Measured(Append(ps, <<key, value>>), more)
<1> DEFINE pair == <<key, value>>
<1>1. Len(Append(ps, pair)) = Len(ps) + 1
  <2>1. pair \in Keys \X Values
    OBVIOUS
  <2> HIDE DEF pair
  <2> QED BY <2>1, AppendProperties
<1> HIDE DEF pair
<1>2. PICK n, ends : Measure(table, n, ends) /\ ends[n] = Len(ps)
  BY DEF Measured
<1>3. /\ n \in Nat /\ DOMAIN table = 1..n /\ ends \in [0..n -> Nat] /\ ends[0] = 0
      /\ \A i \in 1..n : ends[i] = ends[i - 1] + Len(table[i].vals)
  BY <1>2 DEF Measure
<1>4. /\ more \in Seq(ConfigEntry) /\ m \in Nat /\ DOMAIN more = 1..n \cup {m}
      /\ \A i \in 1..n : i # m => more[i] = table[i]
  BY <1>3 DEF Gains
<1>5. PICK old \in Seq(Values) :
        /\ more[m].vals = Append(old, value)
        /\ m \in DOMAIN table => old = table[m].vals
        /\ m \notin DOMAIN table => old = << >>
  BY DEF Gains
<1> DEFINE l == Len(old)
           c == Len(more)
<1>6. /\ l \in Nat /\ Len(more[m].vals) = l + 1
      /\ m \in 1..n => l = Len(table[m].vals)
      /\ m \notin 1..n => l = 0
  BY <1>3, <1>5
<1>7. c \in Nat /\ DOMAIN more = 1..c
  <2>1. more \in Seq(ConfigEntry)
    BY <1>4
  <2> QED BY ONLY <2>1
<1> HIDE DEF l, c
<1>8. IF m \in 1..n THEN c = n ELSE c = n + 1 /\ m = n + 1
  <2>1. m \in 1..c /\ 1..n \subseteq 1..c /\ \A i \in 1..c : i \in 1..n \/ i = m
    BY <1>4, <1>7
  <2>2. n <= c
    <3>1. CASE n = 0
      BY <1>7, <3>1
    <3>2. CASE n # 0
      <4>1. n \in 1..n
        BY <1>3, <3>2
      <4>2. n \in 1..c
        BY <2>1, <4>1
      <4> QED BY <1>3, <1>7, <4>2
    <3> QED BY <3>1, <3>2
  <2>3. CASE m \in 1..n
    <3>1. ~(n < c)
      <4> SUFFICES ASSUME n < c PROVE FALSE
        OBVIOUS
      <4>1. n + 1 \in 1..c /\ n + 1 \notin 1..n
        BY <1>3, <1>7
      <4> QED BY <2>1, <2>3, <4>1
    <3> QED BY <1>3, <1>7, <2>2, <2>3, <3>1
  <2>4. CASE m \notin 1..n
    <3>1. n < m
      BY <1>3, <1>7, <2>1, <2>4
    <3>2. n + 1 \in 1..c /\ n + 1 \notin 1..n
      BY <1>3, <1>7, <2>1, <3>1
    <3>3. m = n + 1
      BY <2>1, <3>2
    <3>4. ~(n + 1 < c)
      <4> SUFFICES ASSUME n + 1 < c PROVE FALSE
        OBVIOUS
      <4>1. n + 2 \in 1..c /\ n + 2 \notin 1..n /\ n + 2 # m
        BY <1>3, <1>7, <3>3
      <4> QED BY <2>1, <4>1
    <3> QED BY <1>3, <1>7, <2>4, <3>2, <3>3, <3>4
  <2> QED BY <2>3, <2>4
<1> DEFINE new == [i \in 0..c |-> IF i < m THEN ends[i]
                                  ELSE IF i <= n THEN ends[i] + 1 ELSE ends[n] + 1]
<1>9. \A i \in 0..n : ends[i] \in Nat
  BY <1>3
<1>10. \A i \in 0..c : i < m => i \in 0..n
  BY <1>3, <1>7, <1>8
<1>11. n \in 0..n /\ m \in 1..c
  BY <1>3, <1>8
<1>12. new \in [0..c -> Nat]
  <2>1. ASSUME NEW i \in 0..c
        PROVE  (IF i < m THEN ends[i] ELSE IF i <= n THEN ends[i] + 1 ELSE ends[n] + 1) \in Nat
    <3>1. CASE i < m
      BY <1>9, <1>10, <3>1
    <3>2. CASE ~(i < m) /\ i <= n
      <4>1. i \in 0..n
        BY <1>3, <3>2
      <4> QED BY <1>9, <3>2, <4>1
    <3>3. CASE ~(i < m) /\ ~(i <= n)
      BY <1>9, <1>11, <3>3
    <3> QED BY <3>1, <3>2, <3>3
  <2> QED BY <2>1
<1>13. \A i \in 0..c : new[i] = IF i < m THEN ends[i]
                               ELSE IF i <= n THEN ends[i] + 1 ELSE ends[n] + 1
  OBVIOUS
<1> HIDE DEF new
<1>14. ASSUME NEW i \in 1..c PROVE new[i] = new[i - 1] + Len(more[i].vals)
  <2>1. i \in 0..c /\ i - 1 \in 0..c
    BY <1>7
  <2>2. CASE i < m
    <3>1. i \in 1..n /\ i # m /\ i - 1 < m
      BY <1>10, <2>1, <2>2, <1>3, <1>4
    <3> QED BY <1>3, <1>4, <1>13, <2>1, <2>2, <3>1
  <2>3. CASE i = m
    <3>0. Len(more[i].vals) = l + 1 /\ l \in Nat
      BY <1>6, <2>3
    <3>1. i - 1 < m /\ i - 1 \in 0..n /\ ~(i < m)
      BY <1>4, <1>10, <2>1, <2>3
    <3>2. new[i - 1] = ends[i - 1] /\ ends[i - 1] \in Nat
      BY <1>9, <1>13, <2>1, <3>1
    <3>3. CASE m \in 1..n
      <4>1. new[i] = ends[i] + 1 /\ ends[i] = ends[i - 1] + l
        BY <1>3, <1>6, <1>13, <2>1, <2>3, <3>1, <3>3
      <4> DEFINE k == Len(more[i].vals)
                 x == ends[i - 1]
      <4>2. x \in Nat /\ k = l + 1 /\ l \in Nat /\ new[i - 1] = x /\ ends[i] = x + l /\ new[i] = ends[i] + 1
        BY <3>0, <3>2, <4>1
      <4> HIDE DEF k, x
      <4>3. x + k = (x + l) + 1
        BY <4>2
      <4>4. new[i] = x + k
        BY <4>2, <4>3
      <4>5. new[i] = new[i - 1] + k
        BY <4>2, <4>4
      <4> QED BY <4>5 DEF k
    <3>4. CASE m \notin 1..n
      <4>1. m = n + 1 /\ l = 0 /\ ~(i <= n) /\ i - 1 = n
        BY <1>3, <1>6, <1>8, <2>3, <3>4
      <4>2. new[i] = ends[n] + 1
        BY <1>13, <2>1, <3>1, <4>1
      <4> QED BY <3>0, <3>2, <4>1, <4>2
    <3> QED BY <3>3, <3>4
  <2>4. CASE m < i
    <3>1. /\ i \in 1..n /\ i # m /\ ~(i < m) /\ ~(i - 1 < m) /\ i <= n /\ i - 1 <= n
          /\ i - 1 \in 0..n /\ i \in 0..n
      BY <1>3, <1>4, <1>7, <1>8, <2>1, <2>4
    <3>2. new[i] = ends[i] + 1 /\ new[i - 1] = ends[i - 1] + 1
      BY <1>13, <2>1, <3>1
    <3>3. ends[i] = ends[i - 1] + Len(more[i].vals) /\ ends[i] \in Nat /\ ends[i - 1] \in Nat
      BY <1>3, <1>4, <1>9, <3>1
    <3>4. Len(more[i].vals) \in Nat
      <4>1. more[i] \in ConfigEntry
        BY <1>4, <1>7
      <4>2. more[i].vals \in Seq(Values)
        BY <4>1 DEF ConfigEntry
      <4> QED BY <4>2
    <3> DEFINE k == Len(more[i].vals)
               x == ends[i - 1]
               y == ends[i]
    <3>5. k \in Nat /\ x \in Nat /\ y \in Nat /\ y = x + k /\ new[i] = y + 1 /\ new[i - 1] = x + 1
      BY <3>2, <3>3, <3>4
    <3> HIDE DEF k, x, y
    <3>6. new[i] = new[i - 1] + k
      BY <3>5
    <3> QED BY <3>6 DEF k
  <2> QED BY <1>4, <1>7, <2>2, <2>3, <2>4
<1>15. new[0] = 0 /\ new[c] = ends[n] + 1
  <2>1. 0 \in 0..c /\ c \in 0..c /\ 0 < m /\ ~(c < m)
    BY <1>7, <1>11
  <2>2. new[0] = 0
    BY <1>3, <1>13, <2>1
  <2>3. new[c] = ends[n] + 1
    BY <1>3, <1>8, <1>13, <2>1
  <2> QED BY <2>2, <2>3
<1>16. Measure(more, c, new)
  BY <1>7, <1>12, <1>14, <1>15 DEF Measure
<1>17. new[c] = Len(Append(ps, pair))
  BY <1>1, <1>2, <1>15
<1> QED BY <1>16, <1>17 DEF Measured, pair

\* The words to write are no fewer than those of one entry; and when no flag has a
\* negative or a large number, no more than two for each pair.
LEMMA CountFacts ==
  ASSUME GatherInv, Measured(pairs, configArgs)
  PROVE  /\ WordsToWrite \in Nat
         /\ \A i \in DOMAIN configArgs : ArgsCount(configArgs[i]) <= WordsToWrite
         /\ FlagsFit => WordsToWrite <= 2 * Len(pairs)
<1>1. PICK n, ends : Measure(configArgs, n, ends) /\ ends[n] = Len(pairs)
  BY DEF Measured
<1> DEFINE S == 1..n
           g == [i \in S |-> ArgsCount(configArgs[i])]
<1>2. /\ n \in Nat /\ DOMAIN configArgs = 1..n /\ ends \in [0..n -> Nat] /\ ends[0] = 0
      /\ \A i \in 1..n : ends[i] = ends[i - 1] + Len(configArgs[i].vals)
  BY <1>1 DEF Measure
<1>3. PICK h : Sums(h, S, g) /\ WordsToWrite = h[S]
  BY <1>2, ArgcIsSum DEF WordsToWrite
<1>4. ASSUME NEW i \in S
      PROVE  /\ configArgs[i] \in ConfigEntry /\ ArgsCount(configArgs[i]) \in Nat
             /\ Len(configArgs[i].vals) \in Nat /\ Len(configArgs[i].vals) >= 1
  <2>1. configArgs[i] \in ConfigEntry /\ Len(configArgs[i].vals) >= 1
    <3>1. i \in DOMAIN configArgs
      BY <1>2
    <3> HIDE DEF S
    <3> QED BY <3>1 DEF GatherInv, TableTypeOK
  <2>2. configArgs[i].vals \in Seq(Values) /\ ArgsCount(configArgs[i]) \in Nat
    BY <2>1, CountIsNat
  <2> QED BY <2>1, <2>2
<1>5. g \in [S -> Nat] /\ IsFiniteSet(S) /\ \A i \in S : g[i] = ArgsCount(configArgs[i])
  <2>1. IsFiniteSet(S)
    BY <1>2, FS_Interval
  <2> HIDE DEF S
  <2> QED BY <1>4, <2>1
<1> HIDE DEF g, S
<1>6. h[{}] = 0 /\ \A s \in SUBSET S : h[s] \in Nat /\ \A x \in s : h[s] = h[s \ {x}] + g[x]
  BY <1>3, <1>5, SumsAdd
<1>7. WordsToWrite \in Nat
  BY <1>3, <1>6
<1>8. ASSUME NEW i \in DOMAIN configArgs PROVE ArgsCount(configArgs[i]) <= WordsToWrite
  <2>1. i \in S /\ S \in SUBSET S /\ S \ {i} \in SUBSET S
    BY <1>2 DEF S
  <2>2. h[S] = h[S \ {i}] + g[i] /\ h[S \ {i}] \in Nat /\ g[i] \in Nat
    BY <1>5, <1>6, <2>1
  <2>3. g[i] <= h[S]
    BY <2>2
  <2> QED BY <1>3, <1>5, <2>1, <2>3
<1>9. ASSUME FlagsFit PROVE WordsToWrite <= 2 * Len(pairs)
  <2> DEFINE T == {k \in Nat : k <= n => h[1..k] <= 2 * ends[k]}
  <2>1. 0 \in T
    <3>1. 1..0 = {}
      OBVIOUS
    <3> QED BY <1>2, <1>6, <3>1
  <2>2. ASSUME NEW k \in Nat, k \in T
        PROVE  k + 1 \in T
    <3> DEFINE m == k + 1
               v == Len(configArgs[m].vals)
    <3> SUFFICES ASSUME m <= n PROVE h[1..m] <= 2 * ends[m]
      OBVIOUS
    <3>1. /\ m \in 1..m /\ m \in 1..n /\ (1..m) \ {m} = 1..k /\ k <= n /\ m - 1 = k
          /\ k \in 0..n
      BY <1>2
    <3>2. 1..m \in SUBSET S /\ 1..k \in SUBSET S /\ m \in S
      <4>1. \A i \in 1..m : i \in 1..n
        BY <1>2
      <4>2. \A i \in 1..k : i \in 1..n
        BY <1>2, <3>1
      <4> QED BY <3>1, <4>1, <4>2 DEF S
    <3>3. g[m] \in Nat /\ v \in Nat /\ g[m] <= 2 * v
      <4>1. /\ configArgs[m] \in ConfigEntry /\ g[m] = ArgsCount(configArgs[m])
            /\ v \in Nat /\ v >= 1 /\ ArgsCount(configArgs[m]) \in Nat
        BY <1>4, <1>5, <3>2
      <4>2. ArgsCount(configArgs[m]) = IF configArgs[m].key \in Flags
                                       THEN ToInteger(configArgs[m].vals[1]) ELSE 1 + v
        BY <4>1, CountIsNat
      <4> HIDE DEF m, v
      <4>3. CASE configArgs[m].key \in Flags
        <5>1. ToInteger(configArgs[m].vals[1]) \in {0, 2}
          BY <1>2, <1>9, <3>1, <4>3 DEF FlagsFit, ToInteger
        <5> QED BY <4>1, <4>2, <4>3, <5>1
      <4>4. CASE configArgs[m].key \notin Flags
        BY <4>1, <4>2, <4>4
      <4> QED BY <4>3, <4>4
    <3>4. ends[m] = ends[k] + v /\ ends[k] \in Nat
      BY <1>2, <3>1
    <3>5. h[1..k] <= 2 * ends[k] /\ h[1..k] \in Nat
      BY <1>6, <2>2, <3>1, <3>2
    <3> HIDE DEF m, v
    <3>6. h[1..m] = h[1..k] + g[m]
      BY <1>6, <3>1, <3>2
    <3> QED BY <3>3, <3>4, <3>5, <3>6
  <2> HIDE DEF T
  <2>3. n \in T
    BY <1>2, <2>1, <2>2, SetInduction
  <2>4. n <= n => h[1..n] <= 2 * ends[n]
    BY <2>3 DEF T
  <2> QED BY <1>1, <1>2, <1>3, <2>4 DEF S
<1> QED BY <1>7, <1>8, <1>9

\* What becomes of a count as an int.
LEMMA AsIntFacts ==
  ASSUME NEW n \in Nat
  PROVE  /\ IntLimit \in Nat /\ IntLimit > 0
         /\ AsInt(n) < IntLimit
         /\ n < IntLimit => AsInt(n) = n
<1>1. IntLimit \in Nat /\ IntLimit > 0
  BY ConfigAssumption
<1> DEFINE b == 2 * IntLimit
           a == n + IntLimit
<1>2. b \in Nat /\ b > 0 /\ a \in Nat /\ (n < IntLimit => a < b)
  BY <1>1
<1>3. AsInt(n) = (a % b) - IntLimit
  BY DEF AsInt
<1> HIDE DEF a, b
<1>4. a % b \in 0..(b - 1) /\ (a < b => a % b = a)
  BY <1>2
<1> QED BY <1>1, <1>2, <1>3, <1>4 DEF a, b

\* A count that is the same as an int has no negative and no large number in it.
LEMMA CountFits ==
  ASSUME GatherInv, Measured(pairs, configArgs), AsInt(WordsToWrite) = WordsToWrite
  PROVE  FlagsFit
<1> SUFFICES ASSUME NEW i \in DOMAIN configArgs, configArgs[i].key \in Flags,
                    configArgs[i].vals[1] \in {"-1", "large"}
             PROVE  FALSE
  BY DEF FlagsFit
<1>1. WordsToWrite \in Nat /\ ArgsCount(configArgs[i]) <= WordsToWrite
  BY CountFacts
<1>2. WordsToWrite < IntLimit /\ IntLimit \in Nat
  BY <1>1, AsIntFacts
<1>3. ArgsCount(configArgs[i]) = ToInteger(configArgs[i].vals[1])
  BY DEF ArgsCount
<1>4. ArgsCount(configArgs[i]) \in {SizeLimit - 1, 2 * IntLimit + 1}
  BY <1>3 DEF ToInteger
<1> QED BY <1>1, <1>2, <1>4, ConfigAssumption

\* One that is not is of a file with such a number.
LEMMA OverrunIsOfAFlag ==
  ASSUME GatherInv, FromPairs(pairs, configArgs), Measured(pairs, configArgs),
         Len(pairs) <= MaxPairs, AsInt(WordsToWrite) # WordsToWrite
  PROVE  \E p \in DOMAIN pairs : pairs[p][1] \in Flags /\ pairs[p][2] \in {"-1", "large"}
<1>1. ~FlagsFit
  <2> SUFFICES ASSUME FlagsFit PROVE FALSE
    OBVIOUS
  <2> DEFINE n == Len(pairs)
             w == WordsToWrite
  <2>1. w \in Nat /\ w <= 2 * n
    BY CountFacts
  <2>2. n \in Nat /\ n <= MaxPairs
    BY DEF GatherInv, TableTypeOK
  <2>3. MaxPairs \in Nat /\ IntLimit \in Nat /\ 2 * MaxPairs < IntLimit
    BY ConfigAssumption
  <2> HIDE DEF n, w
  <2>4. w < IntLimit
    BY <2>1, <2>2, <2>3
  <2>5. AsInt(w) = w
    BY <2>1, <2>4, AsIntFacts
  <2> QED BY <2>5 DEF w
<1>2. PICK i \in DOMAIN configArgs :
        configArgs[i].key \in Flags /\ configArgs[i].vals[1] \in {"-1", "large"}
  BY <1>1 DEF FlagsFit
<1> DEFINE vals == configArgs[i].vals
<1>3. vals \in Seq(Values) /\ Len(vals) >= 1
  <2>1. configArgs[i] \in ConfigEntry /\ Len(vals) >= 1
    BY DEF GatherInv, TableTypeOK
  <2> QED BY <2>1 DEF ConfigEntry
<1> HIDE DEF vals
<1>4. 1 \in DOMAIN vals
  BY <1>3
<1> QED BY <1>2, <1>4 DEF FromPairs, vals

\* A key with no room for another value has many in the file.
LEMMA FullIsSaid ==
  ASSUME GatherInv, Gathered(pairs, configArgs), NEW key, ValsFull(key)
  PROVE  Len(ValuesOf(key)) >= MaxVals
<1> DEFINE i == Entry(key)
           vals == configArgs[i].vals
<1>1. i \in DOMAIN configArgs /\ configArgs[i].key = key /\ key \notin LongKeys /\ Len(vals) >= MaxVals
  BY EntryFound DEF ValsFull
<1>2. vals \in Seq(Values)
  <2>1. configArgs[i] \in ConfigEntry
    BY <1>1 DEF GatherInv, TableTypeOK
  <2> QED BY <2>1 DEF ConfigEntry
<1> HIDE DEF i
<1>3. ValuesOf(key) = Said(vals)
  BY <1>1, ValuesAreIn DEF Gathered
<1> HIDE DEF vals
<1>4. Len(Said(vals)) = Len(vals)
  <2>1. ASSUME NEW v \in Seq(Values) PROVE Len(Said(v)) = Len(v)
    BY SaidMore DEF Values
  <2> QED BY <1>2, <2>1
<1> QED BY <1>1, <1>3, <1>4

\* What build_config_commandline writes says what the file says.
LEMMA FileIsSaid ==
  ASSUME GatherInv, Gathered(pairs, configArgs), FromPairs(pairs, configArgs), ArgvIsWritten
  PROVE  /\ Len(configArgv) = configArgc
         /\ \A key \in Keys \ (Flags \cup LongKeys) :
              ValuesOf(key) # <<>> =>
                \E i \in DOMAIN configArgv :
                  /\ configArgv[i] = <<"option", key>>
                  /\ SubSeq(configArgv, i + 1, i + Len(ValuesOf(key))) = ValuesOf(key)
         /\ \A key \in Flags :
              ValuesOf(key) # <<>> => Occurs(<<"option", key>>) = ToInteger(ValuesOf(key)[1][2])
         /\ (\A i \in DOMAIN pairs : pairs[i][1] \notin LongKeys) =>
              configArgc = Cardinality({i \in DOMAIN pairs : pairs[i][1] \notin Flags})
                           + Cardinality({key \in Keys \ Flags : ValuesOf(key) # <<>>})
                           + FoldSet(LAMBDA key, n : n + Occurs(<<"option", key>>), 0, Flags)
<1>1. PICK m, ends : Built(m, ends)
  BY ArgvIsBuilt
<1>2. Len(configArgv) = configArgc
  BY <1>1, ArgcIsLength
<1>3. ASSUME NEW key \in Keys \ (Flags \cup LongKeys), ValuesOf(key) # <<>>
      PROVE  \E i \in DOMAIN configArgv :
               /\ configArgv[i] = <<"option", key>>
               /\ SubSeq(configArgv, i + 1, i + Len(ValuesOf(key))) = ValuesOf(key)
  BY <1>1, <1>3, ValuesFollow
<1>4. ASSUME NEW key \in Flags, ValuesOf(key) # <<>>
      PROVE  Occurs(<<"option", key>>) = ToInteger(ValuesOf(key)[1][2])
  BY <1>1, <1>4, FlagIsRepeated
<1> DEFINE fold == FoldSet(LAMBDA key, n : n + Occurs(<<"option", key>>), 0, Flags)
           given == Cardinality({key \in Keys \ Flags : ValuesOf(key) # <<>>})
           valued == Cardinality({i \in DOMAIN pairs : pairs[i][1] \notin Flags})
<1>5. configArgv \in Seq(Word)
  BY <1>1 DEF Built
<1>6. fold = Cardinality(OptionsAt(Flags))
  BY <1>5, FlagsAddUp
<1>7. ASSUME \A p \in DOMAIN pairs : pairs[p][1] \notin LongKeys
      PROVE  given = Cardinality(OptionsAt(Keys \ Flags))
  <2>1. ASSUME NEW i \in 1..m PROVE configArgs[i].key \notin LongKeys
    <3>1. i \in DOMAIN configArgs
      BY <1>1 DEF Built
    <3> QED BY <1>7, <3>1, KeyIsOfAPair
  <2> QED BY <1>1, <2>1, OptionsAreKeys DEF KeysGiven
<1>8. valued = Cardinality(ValuesAt)
  BY <1>1, ValuesArePairs DEF Valued
<1>9. Len(configArgv) = Cardinality(OptionsAt(Flags)) + Cardinality(OptionsAt(Keys \ Flags))
                        + Cardinality(ValuesAt)
  BY <1>5, KindsAddUp
<1>10. /\ Cardinality(OptionsAt(Flags)) \in Nat /\ Cardinality(OptionsAt(Keys \ Flags)) \in Nat
       /\ Cardinality(ValuesAt) \in Nat
  BY <1>5, PlacesAreFinite, FS_CardinalityType
<1> HIDE DEF fold, given, valued
<1>11. ASSUME \A p \in DOMAIN pairs : pairs[p][1] \notin LongKeys
      PROVE  configArgc = valued + given + fold
  <2>1. given = Cardinality(OptionsAt(Keys \ Flags))
    BY <1>7, <1>11
  <2> QED BY <1>2, <1>6, <1>8, <1>9, <1>10, <2>1
<1> QED BY <1>2, <1>3, <1>4, <1>11 DEF fold, given, valued

NoneUnknown == \A i \in DOMAIN configArgs : configArgs[i].key \notin Unknown

\* The command line of the config is there from when it is built; past
\* build_config_commandline no flag has a negative or a large number, and past
\* parse_config_commandline no key is unknown.
WrittenInv ==
  /\ stage \in {"start", "reading"} => configArgv = << >>
  /\ stage = "built" \/ configArgv # << >> => ArgvIsWritten
  /\ stage = "commandLine" \/ (stage = "done" /\ result = 0) => NoneUnknown
  /\ stage \in {"built", "commandLine"} \/ (stage = "done" /\ result = 0) => FlagsFit

\* The table has what the file gives, in the file's order and in no other number.
TableInv ==
  /\ Gathered(pairs, configArgs) /\ FromPairs(pairs, configArgs) /\ Measured(pairs, configArgs)
  /\ Len(pairs) <= MaxPairs

HonouredInv == ConfigInv /\ TableInv /\ WrittenInv /\ OverrunsAreExplained

\* An unknown key is a word that cargo refuses.
LEMMA UnknownIsSeen ==
  ASSUME GatherInv, ArgvIsWritten,
         ~\E i \in DOMAIN configArgv : configArgv[i] \in {<<"option", k>> : k \in Unknown}
  PROVE  NoneUnknown
<1> SUFFICES ASSUME NEW i \in DOMAIN configArgs, configArgs[i].key \in Unknown
             PROVE  FALSE
  BY DEF NoneUnknown
<1>1. PICK n, ends : Built(n, ends)
  BY ArgvIsBuilt
<1>2. i \in 1..n
  BY <1>1 DEF Built
<1>3. configArgs[i].key \notin Flags
  BY ConfigAssumption
<1>4. /\ Count(i) = 1 + Len(configArgs[i].vals) /\ Len(configArgs[i].vals) \in Nat
      /\ configArgv[Place(ends, i, 1)] = Option(configArgs[i].key)
  BY <1>1, <1>2, <1>3, WordAt
<1>5. 1 \in 1..Count(i)
  BY <1>4
<1>6. Place(ends, i, 1) \in DOMAIN configArgv
  BY <1>1, <1>2, <1>5, PlaceFacts
<1> QED BY <1>4, <1>6 DEF Option

\* Every step.
LEMMA HonouredStepInv == HonouredInv /\ [ConfigNext]_configVars => HonouredInv'
<1> SUFFICES ASSUME HonouredInv, [ConfigNext]_configVars PROVE HonouredInv'
  OBVIOUS
<1>1. /\ ConfigInv /\ ConfigInv' /\ GatherInv /\ GatherInv' /\ TableInv /\ WrittenInv
      /\ OverrunsAreExplained
  BY ConfigStepInv DEF HonouredInv, ConfigInv
<1>2. ASSUME NEW key \in Keys, NEW value \in Values, ReadPair(key, value) PROVE HonouredInv'
  <2> DEFINE more == Append(pairs, <<key, value>>)
  <2>1. /\ stage = "reading" /\ stage' = "reading" /\ configArgv' = configArgv
        /\ Len(pairs) < MaxPairs /\ pairs' = more /\ AliniCb(key, value)
    BY <1>2 DEF ReadPair
  <2>2. PICK m : Gains(configArgs, configArgs', m, key, value)
    BY <1>1, <2>1, AliniCbGains
  <2>3. pairs \in Seq(Keys \X Values)
    BY <1>1 DEF GatherInv, TableTypeOK
  <2>4. Gathered(more, configArgs') /\ FromPairs(more, configArgs') /\ Measured(more, configArgs')
    BY <1>1, <2>2, <2>3, GatheredStays, FromPairsStays, MeasuredStays DEF TableInv
  <2>5. Len(more) <= MaxPairs
    <3> DEFINE pair == <<key, value>>
    <3>1. pair \in Keys \X Values
      OBVIOUS
    <3> HIDE DEF pair
    <3>2. Len(Append(pairs, pair)) = Len(pairs) + 1 /\ Len(pairs) \in Nat
      BY <2>3, <3>1, AppendProperties
    <3>3. Len(Append(pairs, pair)) <= MaxPairs
      BY <2>1, <3>2, ConfigAssumption
    <3> QED BY <3>3 DEF pair
  <2> HIDE DEF more
  <2>6. TableInv'
    BY <2>1, <2>4, <2>5 DEF TableInv
  <2>7. WrittenInv'
    BY <1>1, <2>1 DEF WrittenInv
  <2>8. OverrunsAreExplained'
    BY <2>1 DEF OverrunsAreExplained
  <2> QED BY <1>1, <2>6, <2>7, <2>8 DEF HonouredInv
<1>3. ASSUME UNCHANGED <<pairs, configArgs>>, WrittenInv', OverrunsAreExplained' PROVE HonouredInv'
  <2>1. TableInv'
    BY <1>1, <1>3 DEF TableInv
  <2> QED BY <1>1, <1>3, <2>1 DEF HonouredInv
<1>4. ASSUME UNCHANGED <<configArgs, configArgc, configArgv>>
      PROVE  (ArgvIsWritten' <=> ArgvIsWritten) /\ (NoneUnknown' <=> NoneUnknown) /\ (FlagsFit' <=> FlagsFit)
  BY <1>4 DEF ArgvIsWritten, NoneUnknown, FlagsFit
<1>5. CASE UNCHANGED configVars
  <2>1. WrittenInv'
    BY <1>1, <1>4, <1>5 DEF WrittenInv, configVars
  <2>2. OverrunsAreExplained'
    BY <1>1, <1>5 DEF OverrunsAreExplained, ValuesOf, configVars
  <2> QED BY <1>3, <1>5, <2>1, <2>2 DEF configVars
<1>6. CASE SkipConfig
  <2>1. NoneUnknown /\ FlagsFit
    BY <1>1, <1>6 DEF ConfigInv, StageInv, SkipConfig, NoneUnknown, FlagsFit
  <2>2. WrittenInv'
    BY <1>1, <1>4, <1>6, <2>1 DEF WrittenInv, SkipConfig
  <2>3. OverrunsAreExplained'
    BY <1>6 DEF OverrunsAreExplained, SkipConfig
  <2> QED BY <1>3, <1>6, <2>2, <2>3 DEF SkipConfig
<1>7. CASE OpenConfig
  <2>1. WrittenInv'
    BY <1>1, <1>4, <1>7 DEF WrittenInv, OpenConfig, Done
  <2>2. OverrunsAreExplained'
    BY <1>7 DEF OverrunsAreExplained, OpenConfig, Done
  <2> QED BY <1>3, <1>7, <2>1, <2>2 DEF OpenConfig
<1>8. ASSUME NEW key \in Keys, OverrunVals(key) PROVE HonouredInv'
  <2>1. Len(ValuesOf(key)) >= MaxVals
    BY <1>1, <1>8, FullIsSaid DEF OverrunVals, TableInv
  <2>2. Len(ValuesOf(key)') >= MaxVals
    BY <1>8, <2>1 DEF OverrunVals, ValuesOf
  <2>3. OverrunsAreExplained'
    BY <1>8, <2>2 DEF OverrunsAreExplained, OverrunVals
  <2>4. WrittenInv'
    BY <1>1, <1>8 DEF WrittenInv, OverrunVals
  <2> QED BY <1>3, <1>8, <2>3, <2>4 DEF OverrunVals
<1>9. CASE FailToParse
  <2>1. WrittenInv' /\ OverrunsAreExplained'
    BY <1>1, <1>9 DEF WrittenInv, OverrunsAreExplained, FailToParse, Done
  <2> QED BY <1>3, <1>9, <2>1 DEF FailToParse
<1>10. CASE BuildConfigCommandline
  <2>1. UNCHANGED <<pairs, configArgs>> /\ configArgv = << >>
    BY <1>1, <1>10 DEF WrittenInv, BuildConfigCommandline
  <2>2. CASE stage' = "done" /\ result' = -1 /\ configArgv' = configArgv
    <3>1. WrittenInv' /\ OverrunsAreExplained'
      BY <2>1, <2>2 DEF WrittenInv, OverrunsAreExplained
    <3> QED BY <1>3, <2>1, <3>1
  <2>3. CASE /\ AsInt(WordsToWrite) # WordsToWrite
             /\ stage' = "argvOverrun" /\ configArgv' = configArgv
    <3>1. \E p \in DOMAIN pairs : pairs[p][1] \in Flags /\ pairs[p][2] \in {"-1", "large"}
      BY <1>1, <2>3, OverrunIsOfAFlag DEF TableInv
    <3>2. WrittenInv' /\ OverrunsAreExplained'
      BY <2>1, <2>3, <3>1 DEF WrittenInv, OverrunsAreExplained
    <3> QED BY <1>3, <2>1, <3>2
  <2>4. CASE /\ AsInt(WordsToWrite) = WordsToWrite /\ configArgc' = AsInt(WordsToWrite)
             /\ configArgv' = FlattenSeq([i \in DOMAIN configArgs |-> Words(configArgs[i])])
             /\ stage' = "built"
    <3>1. Written(configArgs, configArgc', configArgv')
      BY <2>4 DEF Written, WordsToWrite
    <3>2. ArgvIsWritten'
      BY <2>1, <3>1 DEF ArgvIsWritten
    <3>3. FlagsFit
      BY <1>1, <2>4, CountFits DEF TableInv
    <3>4. FlagsFit'
      BY <2>1, <3>3 DEF FlagsFit
    <3>5. WrittenInv' /\ OverrunsAreExplained'
      BY <2>4, <3>2, <3>4 DEF WrittenInv, OverrunsAreExplained
    <3> QED BY <1>3, <2>1, <3>5
  <2> QED BY <1>10, <2>2, <2>3, <2>4 DEF BuildConfigCommandline, Done
<1>11. CASE ParseConfigCommandline
  <2>1. ArgvIsWritten
    BY <1>1, <1>11 DEF WrittenInv, ParseConfigCommandline
  <2>2. \/ stage' = "done" /\ result' = -1
        \/ stage' = "commandLine" /\ NoneUnknown
    BY <1>1, <1>11, <2>1, UnknownIsSeen DEF ParseConfigCommandline, Done
  <2>3. FlagsFit
    BY <1>1, <1>11 DEF WrittenInv, ParseConfigCommandline
  <2>4. WrittenInv'
    BY <1>4, <1>11, <2>1, <2>2, <2>3 DEF WrittenInv, ParseConfigCommandline
  <2>5. OverrunsAreExplained'
    BY <2>2 DEF OverrunsAreExplained
  <2> QED BY <1>3, <1>11, <2>4, <2>5 DEF ParseConfigCommandline
<1>12. CASE ParseCommandline
  <2>1. WrittenInv'
    BY <1>1, <1>4, <1>12 DEF WrittenInv, ParseCommandline, Done
  <2>2. OverrunsAreExplained'
    BY <1>12 DEF OverrunsAreExplained, ParseCommandline, Done
  <2> QED BY <1>3, <1>12, <2>1, <2>2 DEF ParseCommandline
<1> QED BY <1>2, <1>5, <1>6, <1>7, <1>8, <1>9, <1>10, <1>11, <1>12 DEF ConfigNext

\* The first states.
LEMMA HonouredFirst == ConfigInit => HonouredInv
<1> SUFFICES ASSUME ConfigInit PROVE HonouredInv
  OBVIOUS
<1>1. ConfigInv
  BY DEF ConfigInit, ConfigInv, GatherInv, TableTypeOK, OneEntryEach, NothingIsLost, TwiceIsSeen,
         StageInv, FlagsAreGood
<1>2. Gathered(pairs, configArgs)
  BY GatheredFirst DEF ConfigInit
<1>3. FromPairs(pairs, configArgs)
  BY DEF ConfigInit, FromPairs
<1>4. Measured(pairs, configArgs)
  <2> DEFINE ends == [i \in 0..0 |-> 0]
  <2>1. ends \in [0..0 -> Nat] /\ ends[0] = 0
    OBVIOUS
  <2>2. pairs = << >> /\ configArgs = << >> /\ Len(pairs) = 0 /\ DOMAIN configArgs = 1..0 /\ 1..0 = {}
    BY DEF ConfigInit
  <2> HIDE DEF ends
  <2>3. Measure(configArgs, 0, ends) /\ ends[0] = Len(pairs)
    BY <2>1, <2>2 DEF Measure
  <2> QED BY <2>3 DEF Measured
<1>5. Len(pairs) <= MaxPairs
  BY ConfigAssumption DEF ConfigInit
<1>6. WrittenInv /\ OverrunsAreExplained
  BY DEF ConfigInit, WrittenInv, OverrunsAreExplained
<1> QED BY <1>1, <1>2, <1>3, <1>4, <1>5, <1>6 DEF HonouredInv, TableInv

\* The invariant says all that is promised.
LEMMA HonouredInvIsEnough == HonouredInv => ConfigIsHonoured
<1> SUFFICES ASSUME HonouredInv PROVE ConfigIsHonoured
  OBVIOUS
<1>1. /\ GatherInv /\ Gathered(pairs, configArgs) /\ FromPairs(pairs, configArgs)
      /\ WrittenInv /\ StageInv /\ OverrunsAreExplained
  BY DEF HonouredInv, ConfigInv, TableInv
<1>2. ConfigIsKept
  <2> SUFFICES ASSUME stage \in {"built", "commandLine"} /\ configArgv # <<>>
               PROVE  ArgvIsWritten
    BY <1>1, FileIsSaid DEF ConfigIsKept
  <2> QED BY <1>1 DEF WrittenInv
<1>3. BadConfigRefused
  <2> SUFFICES ASSUME stage = "done", result = 0, NEW p \in DOMAIN pairs
               PROVE  /\ pairs[p][1] \notin Unknown
                      /\ pairs[p][1] \in Flags =>
                           /\ pairs[p][2] \notin {"", "-1", "large", "huge"}
                           /\ \A q \in DOMAIN pairs : pairs[q][1] = pairs[p][1] => q = p
    BY DEF BadConfigRefused
  <2>1. FlagsAreGood /\ FlagsFit /\ NoneUnknown
    BY <1>1 DEF StageInv, WrittenInv
  <2>2. PICK i \in DOMAIN configArgs : configArgs[i].key = pairs[p][1]
    BY <1>1 DEF GatherInv, NothingIsLost
  <2>3. pairs[p][1] \notin Unknown
    BY <2>1, <2>2 DEF NoneUnknown
  <2>4. ASSUME pairs[p][1] \in Flags
        PROVE  /\ pairs[p][2] \notin {"", "-1", "large", "huge"}
               /\ \A q \in DOMAIN pairs : pairs[q][1] = pairs[p][1] => q = p
    <3>1. PICK h \in DOMAIN configArgs :
            /\ configArgs[h].key = pairs[p][1] /\ configArgs[h].vals[1] = pairs[p][2]
            /\ ~FlagIsBad(configArgs[h])
      BY <1>1, <2>1, <2>4, OnlyValue
    <3>2. pairs[p][2] \notin {"-1", "large"}
      BY <2>1, <2>4, <3>1 DEF FlagsFit
    <3>3. pairs[p][2] \notin {"", "huge"}
      BY <3>1 DEF FlagIsBad
    <3>4. \A q \in DOMAIN pairs : pairs[q][1] = pairs[p][1] => q = p
      BY <1>1, <2>1, <2>4, OnlyValue
    <3> QED BY <3>2, <3>3, <3>4
  <2> QED BY <2>3, <2>4
<1> QED BY <1>1, <1>2, <1>3 DEF ConfigIsHonoured

\* For every set of keys, every room for values and every config file that is not so
\* long that two words for each pair are more than an int counts: the command line of the
\* config says what the file says (build_config_commandline), each key that is not cut
\* with its values in their order and each flag as often as its value says, and its
\* words are as many as are counted; a file with an unknown key, or with a flag that is
\* given twice, without a number, with a negative one or with one that is no int, does
\* not start the program; and when alini_cb or build_config_commandline writes behind
\* its array, the file has such a flag or too many values of one key.
THEOREM ConfigGetsHonoured == ConfigSpec => []ConfigIsHonoured
<1> QED BY HonouredFirst, HonouredStepInv, HonouredInvIsEnough, PTL DEF ConfigSpec
=============================================================================
