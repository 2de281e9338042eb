-------------------------- MODULE CatOutputProofs --------------------------
(***************************************************************************)
(* Theorems about CatOutput: whatever texts, templates, commands and       *)
(* handlers there are, generate nests boundedly, nothing of an event is    *)
(* left behind, and commands come after the templates of their event.      *)
(***************************************************************************)
EXTENDS CatOutput, SequenceTheorems, FiniteSetTheorems, TLAPS

---------------------------------------------------------------------------
(* The calls, and what may be on top of what                               *)

Call(c) ==
  \/ c.fn = "generate" /\ DOMAIN c = {"fn", "text"}
  \/ c.fn = "get_path" /\ DOMAIN c = {"fn", "relative"} /\ c.relative \in BOOLEAN
  \/ c.fn = "for_loop" /\ DOMAIN c = {"fn", "name", "left", "body"}
  \/ c.fn = "image_path" /\ DOMAIN c = {"fn"}
  \/ c.fn = "execute_list" /\ DOMAIN c = {"fn", "event", "left"}
  \/ /\ c.fn = "generate_templates" /\ DOMAIN c = {"fn", "event", "i", "stage", "failed"}
     /\ c.i \in Nat
     /\ c.stage \in {"next", "path", "filename", "contents"}
     /\ c.failed \in BOOLEAN

\* A call that has its result, or waits for one.
Waiting(c) ==
  \/ c.fn \in {"get_path", "for_loop", "image_path"}
  \/ c.fn = "generate_templates" /\ c.stage # "next"

MayCall(below, above, signals) ==
  \/ above.fn = "generate" /\ (below.fn = "execute_list" \/ Waiting(below))
  \/ above.fn \in {"get_path", "for_loop"} /\ below.fn = "generate"
  \/ above.fn = "generate_templates" /\ below.fn = "execute_list" /\ below.event = above.event
  \/ /\ above.fn = "execute_list" /\ signals
     /\ below.fn \in {"generate", "generate_templates", "execute_list"} /\ ~ Waiting(below)

\* A stack the program can have.
WellFormed(s, signals) ==
  /\ s \in Seq(Range(s))
  /\ \A i \in 1..Len(s) : Call(s[i])
  /\ s # <<>> => s[1].fn \in {"execute_list", "image_path"}
  /\ \A i \in 1..Len(s) : i < Len(s) => MayCall(s[i], s[i + 1], signals)

Positions(s, fn) == {i \in DOMAIN s : s[i].fn = fn}
Count(s, fn) == Cardinality(Positions(s, fn))

---------------------------------------------------------------------------
(* Sequences                                                               *)

LEMMA SequenceFacts ==
  ASSUME NEW s, s \in Seq(Range(s))
  PROVE  /\ Len(s) \in Nat
         /\ DOMAIN s = 1..Len(s)
         /\ s # <<>> <=> Len(s) > 0
         /\ s # <<>> => Last(s) = s[Len(s)]
<1>1. Len(s) \in Nat /\ DOMAIN s = 1..Len(s)
  BY LenProperties
<1>2. s # <<>> => Len(s) \in Nat \ {0}
  BY EmptySeq
<1>3. Len(<<>>) = 0
  BY EmptySeq
<1> QED BY <1>1, <1>2, <1>3 DEF Last

LEMMA AppendFacts ==
  ASSUME NEW s, NEW c, s \in Seq(Range(s))
  PROVE  LET t == Append(s, c)
         IN /\ t \in Seq(Range(t))
            /\ t # <<>>
            /\ Len(t) = Len(s) + 1
            /\ \A i \in 1..Len(s) : t[i] = s[i]
            /\ t[Len(s) + 1] = c
<1> DEFINE t == Append(s, c)
           S == Range(s) \cup {c}
<1>1. s \in Seq(S)
  BY SeqMonotonic
<1>2. /\ t \in Seq(S) /\ t # <<>> /\ Len(t) = Len(s) + 1
      /\ \A i \in 1..Len(s) : t[i] = s[i]
      /\ t[Len(s) + 1] = c
  BY <1>1, AppendProperties
<1> QED BY <1>2, SeqOfRange

LEMMA FrontFacts ==
  ASSUME NEW s, s \in Seq(Range(s)), s # <<>>
  PROVE  LET t == Front(s)
         IN /\ t \in Seq(Range(t))
            /\ Len(t) = Len(s) - 1
            /\ \A i \in 1..(Len(s) - 1) : t[i] = s[i]
<1> DEFINE t == Front(s)
<1>1. Len(s) \in Nat \ {0}
  BY EmptySeq
<1>2. \A i \in 1..(Len(s) - 1) : s[i] \in Range(s)
  BY <1>1, ElementOfSeq
<1>3. /\ t \in Seq(Range(s))
      /\ Len(t) = (IF 1 <= Len(s) - 1 THEN (Len(s) - 1) - 1 + 1 ELSE 0)
      /\ \A i \in 1..((Len(s) - 1) - 1 + 1) : t[i] = s[1 + i - 1]
  <2>1. 1 \in Int /\ Len(s) - 1 \in Int
    BY <1>1
  <2> QED BY <1>2, <2>1, SubSeqProperties DEF Front
<1>4. t \in Seq(Range(t))
  BY <1>3, SeqOfRange
<1> HIDE DEF t
<1>5. Len(t) = Len(s) - 1
  <2>0. Len(s) \in Nat /\ Len(s) > 0
    BY SequenceFacts
  <2>1. \A n \in Nat : n > 0 => n = 1 \/ n > 1
    OBVIOUS
  <2>2. CASE Len(s) = 1
    <3>1. Len(t) = 0
      BY <1>3, <2>2
    <3> QED BY <2>2, <3>1
  <2>3. CASE Len(s) > 1
    <3>1. 1 <= Len(s) - 1
      BY <2>0, <2>3
    <3>2. Len(t) = (Len(s) - 1) - 1 + 1
      BY <1>3, <3>1
    <3> QED BY <2>0, <3>2
  <2> QED BY <2>0, <2>1, <2>2, <2>3
<1>6. ASSUME NEW i \in 1..(Len(s) - 1) PROVE t[i] = s[i]
  <2>1. 1 + i - 1 = i /\ i \in 1..((Len(s) - 1) - 1 + 1)
    BY <1>1
  <2>2. t[i] = s[1 + i - 1]
    BY <1>3, <2>1
  <2> QED BY <2>1, <2>2
<1> QED BY <1>4, <1>5, <1>6 DEF t

LEMMA ReplaceFacts ==
  ASSUME NEW s, NEW c, s \in Seq(Range(s)), s # <<>>
  PROVE  LET t == [s EXCEPT ![Len(s)] = c]
         IN /\ t \in Seq(Range(t))
            /\ t # <<>>
            /\ Len(t) = Len(s)
            /\ \A i \in 1..(Len(s) - 1) : t[i] = s[i]
            /\ t[Len(s)] = c
<1> DEFINE t == [s EXCEPT ![Len(s)] = c]
           S == Range(s) \cup {c}
<1>1. Len(s) \in Nat \ {0}
  BY EmptySeq
<1>2. s \in Seq(S)
  BY SeqMonotonic
<1>3. Len(s) \in 1..Len(s)
  BY <1>1
<1>4. /\ t \in Seq(S) /\ Len(t) = Len(s)
      /\ \A j \in 1..Len(s) : t[j] = IF j = Len(s) THEN c ELSE s[j]
  BY <1>2, <1>3, ExceptSeq
<1>5. t # <<>>
  BY <1>1, <1>4, EmptySeq
<1>6. t \in Seq(Range(t))
  BY <1>4, SeqOfRange
<1>7. t[Len(s)] = c /\ \A i \in 1..(Len(s) - 1) : t[i] = s[i]
  BY <1>1, <1>3, <1>4
<1> QED BY <1>4, <1>5, <1>6, <1>7

---------------------------------------------------------------------------
(* One call more, one call less, another top                               *)

LEMMA AppendIsWellFormed ==
  ASSUME NEW s, NEW c, NEW signals, WellFormed(s, signals), Call(c),
         s = <<>> => c.fn \in {"execute_list", "image_path"},
         s # <<>> => MayCall(Last(s), c, signals)
  PROVE  /\ WellFormed(Append(s, c), signals)
         /\ Append(s, c) # <<>>
         /\ Last(Append(s, c)) = c
<1> DEFINE t == Append(s, c)
<1>1. /\ t \in Seq(Range(t)) /\ t # <<>> /\ Len(t) = Len(s) + 1
      /\ \A i \in 1..Len(s) : t[i] = s[i]
      /\ t[Len(s) + 1] = c
  BY AppendFacts DEF WellFormed
<1>2. /\ Len(s) \in Nat
      /\ s # <<>> <=> Len(s) > 0
      /\ s # <<>> => Last(s) = s[Len(s)]
  BY SequenceFacts DEF WellFormed
<1> HIDE DEF t
<1>3. \A i \in 1..Len(t) : Call(t[i])
  BY <1>1, <1>2 DEF WellFormed
<1>4. t[1].fn \in {"execute_list", "image_path"}
  BY <1>1, <1>2 DEF WellFormed
<1>5. ASSUME NEW i \in 1..Len(t), i < Len(t) PROVE MayCall(t[i], t[i + 1], signals)
  <2>1. CASE i = Len(s)
    <3>1. s # <<>> /\ t[i] = s[Len(s)] /\ t[i + 1] = c
      BY <1>1, <1>2, <2>1
    <3> QED BY <1>2, <3>1
  <2>2. CASE i # Len(s)
    <3>1. i \in 1..Len(s) /\ i < Len(s) /\ t[i] = s[i] /\ t[i + 1] = s[i + 1]
      BY <1>1, <1>2, <1>5, <2>2
    <3> QED BY <3>1 DEF WellFormed
  <2> QED BY <2>1, <2>2
<1>6. Last(t) = c
  BY <1>1, <1>2 DEF Last
<1> QED BY <1>1, <1>3, <1>4, <1>5, <1>6 DEF WellFormed, t

LEMMA FrontIsWellFormed ==
  ASSUME NEW s, NEW signals, WellFormed(s, signals), s # <<>>
  PROVE  /\ WellFormed(Front(s), signals)
         /\ Front(s) # <<>> => MayCall(Last(Front(s)), Last(s), signals)
         /\ Front(s) = <<>> => Last(s).fn \in {"execute_list", "image_path"}
<1> DEFINE t == Front(s)
<1>1. /\ t \in Seq(Range(t)) /\ Len(t) = Len(s) - 1
      /\ \A i \in 1..(Len(s) - 1) : t[i] = s[i]
  BY FrontFacts DEF WellFormed
<1>2. /\ Len(s) \in Nat /\ Len(s) > 0
      /\ Last(s) = s[Len(s)]
  BY SequenceFacts DEF WellFormed
<1>3. /\ t # <<>> <=> Len(t) > 0
      /\ t # <<>> => Last(t) = t[Len(t)]
  BY <1>1, SequenceFacts
<1> HIDE DEF t
<1>4. \A i \in 1..Len(t) : Call(t[i])
  BY <1>1, <1>2 DEF WellFormed
<1>5. t # <<>> => t[1].fn \in {"execute_list", "image_path"}
  BY <1>1, <1>2, <1>3 DEF WellFormed
<1>6. \A i \in 1..Len(t) : i < Len(t) => MayCall(t[i], t[i + 1], signals)
  BY <1>1, <1>2 DEF WellFormed
<1>7. t # <<>> => MayCall(Last(t), Last(s), signals)
  BY <1>1, <1>2, <1>3 DEF WellFormed
<1>8. t = <<>> => Last(s).fn \in {"execute_list", "image_path"}
  BY <1>1, <1>2, <1>3 DEF WellFormed
<1> QED BY <1>1, <1>4, <1>5, <1>6, <1>7, <1>8 DEF WellFormed, t

LEMMA ReplaceIsWellFormed ==
  ASSUME NEW s, NEW c, NEW signals, WellFormed(s, signals), s # <<>>, Call(c),
         c.fn = Last(s).fn,
         c.fn = "generate_templates" => c.event = Last(s).event
  PROVE  LET t == [s EXCEPT ![Len(s)] = c]
         IN /\ WellFormed(t, signals)
            /\ t # <<>>
            /\ Last(t) = c
<1> DEFINE t == [s EXCEPT ![Len(s)] = c]
<1>1. /\ t \in Seq(Range(t)) /\ t # <<>> /\ Len(t) = Len(s)
      /\ \A i \in 1..(Len(s) - 1) : t[i] = s[i]
      /\ t[Len(s)] = c
  BY ReplaceFacts DEF WellFormed
<1>2. /\ Len(s) \in Nat /\ Len(s) > 0
      /\ Last(s) = s[Len(s)]
  BY SequenceFacts DEF WellFormed
<1> HIDE DEF t
<1>3. \A i \in 1..Len(t) : Call(t[i])
  BY <1>1, <1>2 DEF WellFormed
<1>4. t[1].fn \in {"execute_list", "image_path"}
  BY <1>1, <1>2 DEF WellFormed
<1>5. ASSUME NEW i \in 1..Len(t), i < Len(t) PROVE MayCall(t[i], t[i + 1], signals)
  <2>1. MayCall(s[i], s[i + 1], signals) /\ t[i] = s[i]
    BY <1>1, <1>2, <1>5 DEF WellFormed
  <2>2. CASE i + 1 = Len(s)
    <3>1. t[i + 1] = c /\ s[i + 1] = Last(s)
      BY <1>1, <1>2, <2>2
    <3> QED BY <2>1, <3>1 DEF MayCall
  <2>3. CASE i + 1 # Len(s)
    <3>1. t[i + 1] = s[i + 1]
      BY <1>1, <1>2, <1>5, <2>3
    <3> QED BY <2>1, <3>1
  <2> QED BY <2>2, <2>3
<1>6. Last(t) = c
  BY <1>1 DEF Last
<1> QED BY <1>1, <1>3, <1>4, <1>5, <1>6 DEF WellFormed, t

---------------------------------------------------------------------------
(* How many calls there are of each function                               *)

LEMMA CountType ==
  ASSUME NEW s, s \in Seq(Range(s)), NEW fn
  PROVE  IsFiniteSet(Positions(s, fn)) /\ Count(s, fn) \in Nat
<1>1. Len(s) \in Nat /\ DOMAIN s = 1..Len(s)
  BY SequenceFacts
<1>2. IsFiniteSet(1..Len(s))
  BY <1>1, FS_Interval
<1>3. Positions(s, fn) \in SUBSET (1..Len(s))
  BY <1>1 DEF Positions
<1>4. IsFiniteSet(Positions(s, fn))
  BY <1>2, <1>3, FS_Subset
<1> QED BY <1>4, FS_CardinalityType DEF Count

LEMMA AppendCounts ==
  ASSUME NEW s, NEW c, s \in Seq(Range(s)), NEW fn
  PROVE  Count(Append(s, c), fn) = Count(s, fn) + (IF c.fn = fn THEN 1 ELSE 0)
<1> DEFINE t == Append(s, c)
<1>1. /\ t \in Seq(Range(t)) /\ Len(t) = Len(s) + 1
      /\ \A i \in 1..Len(s) : t[i] = s[i]
      /\ t[Len(s) + 1] = c
  BY AppendFacts
<1>2. Len(s) \in Nat /\ DOMAIN s = 1..Len(s) /\ DOMAIN t = 1..Len(t)
  BY <1>1, SequenceFacts
<1> HIDE DEF t
<1>3. IsFiniteSet(Positions(s, fn)) /\ Count(s, fn) \in Nat
  BY CountType
<1>4. Len(s) + 1 \notin Positions(s, fn)
  BY <1>2 DEF Positions
<1>5. CASE c.fn = fn
  <2>1. Positions(t, fn) = Positions(s, fn) \cup {Len(s) + 1}
    BY <1>1, <1>2, <1>5 DEF Positions
  <2>2. Cardinality(Positions(s, fn) \cup {Len(s) + 1}) = Cardinality(Positions(s, fn)) + 1
    BY <1>3, <1>4, FS_AddElement
  <2> QED BY <1>5, <2>1, <2>2 DEF Count, t
<1>6. CASE c.fn # fn
  <2>1. Positions(t, fn) = Positions(s, fn)
    BY <1>1, <1>2, <1>6 DEF Positions
  <2> QED BY <1>3, <1>6, <2>1 DEF Count, t
<1> QED BY <1>5, <1>6

LEMMA FrontCounts ==
  ASSUME NEW s, s \in Seq(Range(s)), s # <<>>, NEW fn
  PROVE  Count(Front(s), fn) = Count(s, fn) - (IF Last(s).fn = fn THEN 1 ELSE 0)
<1> DEFINE t == Front(s)
<1>1. /\ t \in Seq(Range(t)) /\ Len(t) = Len(s) - 1
      /\ \A i \in 1..(Len(s) - 1) : t[i] = s[i]
  BY FrontFacts
<1>2. /\ Len(s) \in Nat /\ Len(s) > 0 /\ DOMAIN s = 1..Len(s) /\ DOMAIN t = 1..Len(t)
      /\ Last(s) = s[Len(s)]
  BY <1>1, SequenceFacts
<1> HIDE DEF t
<1>3. IsFiniteSet(Positions(s, fn)) /\ Count(s, fn) \in Nat
  BY CountType
<1>5. CASE Last(s).fn = fn
  <2>1. Positions(t, fn) = Positions(s, fn) \ {Len(s)} /\ Len(s) \in Positions(s, fn)
    BY <1>1, <1>2, <1>5 DEF Positions
  <2>2. Cardinality(Positions(s, fn) \ {Len(s)}) = Cardinality(Positions(s, fn)) - 1
    BY <1>3, <2>1, FS_RemoveElement
  <2> QED BY <1>5, <2>1, <2>2 DEF Count, t
<1>6. CASE Last(s).fn # fn
  <2>1. Positions(t, fn) = Positions(s, fn)
    BY <1>1, <1>2, <1>6 DEF Positions
  <2> QED BY <1>3, <1>6, <2>1 DEF Count, t
<1> QED BY <1>5, <1>6

LEMMA ReplaceCounts ==
  ASSUME NEW s, NEW c, s \in Seq(Range(s)), s # <<>>, c.fn = Last(s).fn, NEW fn
  PROVE  Count([s EXCEPT ![Len(s)] = c], fn) = Count(s, fn)
<1> DEFINE t == [s EXCEPT ![Len(s)] = c]
<1>1. /\ t \in Seq(Range(t)) /\ Len(t) = Len(s)
      /\ \A i \in 1..(Len(s) - 1) : t[i] = s[i]
      /\ t[Len(s)] = c
  BY ReplaceFacts
<1>2. /\ Len(s) \in Nat /\ Len(s) > 0 /\ DOMAIN s = 1..Len(s) /\ DOMAIN t = 1..Len(t)
      /\ Last(s) = s[Len(s)]
  BY <1>1, SequenceFacts
<1> HIDE DEF t
<1>3. Positions(t, fn) = Positions(s, fn)
  <2>1. \A i \in 1..Len(s) : t[i].fn = s[i].fn
    BY <1>1, <1>2
  <2> QED BY <1>1, <1>2, <2>1 DEF Positions
<1> QED BY <1>3 DEF Count, t

\* Every text that is generated has a call of its own that waits for it: the
\* variable or the loop it is for, or the event or the image path it is of.
LEMMA TextsHaveCallers ==
  ASSUME NEW s, NEW signals, WellFormed(s, signals)
  PROVE  Count(s, "generate") <= Count(s, "get_path") + Count(s, "for_loop")
                                   + Count(s, "execute_list") + Count(s, "image_path")
<1>1. /\ s \in Seq(Range(s)) /\ Len(s) \in Nat /\ DOMAIN s = 1..Len(s)
      /\ s # <<>> <=> Len(s) > 0
  BY SequenceFacts DEF WellFormed
<1> DEFINE G == Positions(s, "generate")
           P == Positions(s, "get_path")
           F == Positions(s, "for_loop")
           E == Positions(s, "execute_list")
           M == Positions(s, "image_path")
           T == ((P \cup F) \cup E) \cup M
           f == [i \in G |-> IF s[i - 1].fn = "generate_templates" THEN i - 2 ELSE i - 1]
<1>2. ASSUME NEW i \in G
      PROVE  /\ i - 1 \in DOMAIN s
             /\ s[i - 1].fn # "generate_templates" => i - 1 \in T
             /\ s[i - 1].fn = "generate_templates" => i - 2 \in T
  <2>1. i \in 1..Len(s) /\ s[i].fn = "generate"
    BY <1>1 DEF Positions
  <2>2. i # 1
    BY <1>1, <2>1 DEF WellFormed
  <2>3. i - 1 \in 1..Len(s) /\ i - 1 < Len(s) /\ (i - 1) + 1 = i
    BY <1>1, <2>1, <2>2
  <2>4. MayCall(s[i - 1], s[i], signals)
    BY <2>3 DEF WellFormed
  <2>5. s[i - 1].fn \in {"execute_list", "get_path", "for_loop", "image_path",
                         "generate_templates"}
    BY <2>1, <2>4 DEF MayCall, Waiting
  <2>6. s[i - 1].fn # "generate_templates" => i - 1 \in T
    BY <1>1, <2>3, <2>5 DEF Positions
  <2>7. ASSUME s[i - 1].fn = "generate_templates" PROVE i - 2 \in T
    <3>1. i - 1 # 1
      <4>1. s[1].fn # "generate_templates"
        BY <1>1, <2>3 DEF WellFormed
      <4> QED BY <2>7, <4>1
    <3>2. i - 2 \in 1..Len(s) /\ i - 2 < Len(s) /\ (i - 2) + 1 = i - 1
      BY <1>1, <2>3, <3>1
    <3>3. MayCall(s[i - 2], s[i - 1], signals)
      BY <3>2 DEF WellFormed
    <3>4. s[i - 2].fn = "execute_list"
      BY <2>7, <3>3 DEF MayCall
    <3> QED BY <1>1, <3>2, <3>4 DEF Positions
  <2> QED BY <1>1, <2>3, <2>6, <2>7
<1>3. f \in [G -> T]
  BY <1>2
<1>4. ASSUME NEW i \in G, NEW j \in G, f[i] = f[j] PROVE i = j
  <2>1. i \in Int /\ j \in Int /\ s[i].fn = "generate" /\ s[j].fn = "generate"
    BY <1>1 DEF Positions
  <2>2. CASE s[i - 1].fn = "generate_templates" /\ s[j - 1].fn # "generate_templates"
    <3>1. i - 2 = j - 1
      BY <1>4, <2>2
    <3>2. i - 1 = j
      BY <2>1, <3>1
    <3> QED BY <2>1, <2>2, <3>2
  <2>3. CASE s[i - 1].fn # "generate_templates" /\ s[j - 1].fn = "generate_templates"
    <3>1. i - 1 = j - 2
      BY <1>4, <2>3
    <3>2. j - 1 = i
      BY <2>1, <3>1
    <3> QED BY <2>1, <2>3, <3>2
  <2>4. CASE (s[i - 1].fn = "generate_templates") <=> (s[j - 1].fn = "generate_templates")
    <3>1. i - 1 = j - 1 \/ i - 2 = j - 2
      BY <1>4, <2>4
    <3> QED BY <2>1, <3>1
  <2> QED BY <2>2, <2>3, <2>4
<1>5. f \in Injection(G, T)
  BY <1>3, <1>4 DEF Injection, IsInjective
<1>6. /\ IsFiniteSet(P) /\ IsFiniteSet(F) /\ IsFiniteSet(E) /\ IsFiniteSet(M)
      /\ Cardinality(P) = Count(s, "get_path") /\ Cardinality(F) = Count(s, "for_loop")
      /\ Cardinality(E) = Count(s, "execute_list")
      /\ Cardinality(M) = Count(s, "image_path")
      /\ Cardinality(G) = Count(s, "generate")
      /\ Count(s, "get_path") \in Nat /\ Count(s, "for_loop") \in Nat
      /\ Count(s, "execute_list") \in Nat /\ Count(s, "image_path") \in Nat
  BY <1>1, CountType DEF Count
<1> HIDE DEF G, P, F, E, M, f
<1>7. /\ IsFiniteSet(P \cup F)
      /\ Cardinality(P \cup F) = Cardinality(P) + Cardinality(F) - Cardinality(P \cap F)
      /\ Cardinality(P \cap F) \in Nat
  BY <1>6, FS_Union, FS_Intersection, FS_CardinalityType
<1>8. /\ IsFiniteSet((P \cup F) \cup E)
      /\ Cardinality((P \cup F) \cup E)
           = Cardinality(P \cup F) + Cardinality(E) - Cardinality((P \cup F) \cap E)
      /\ Cardinality((P \cup F) \cap E) \in Nat
  BY <1>6, <1>7, FS_Union, FS_Intersection, FS_CardinalityType
<1>9. /\ IsFiniteSet(T)
      /\ Cardinality(T) = Cardinality((P \cup F) \cup E) + Cardinality(M)
                            - Cardinality(((P \cup F) \cup E) \cap M)
      /\ Cardinality(((P \cup F) \cup E) \cap M) \in Nat
  BY <1>6, <1>8, FS_Union, FS_Intersection, FS_CardinalityType
<1>10. Cardinality(G) <= Cardinality(T)
  BY <1>5, <1>9, FS_Injection
<1>11. Cardinality(G) \in Nat
  BY <1>1, <1>6, CountType DEF G
<1> HIDE DEF T
<1> QED BY <1>6, <1>7, <1>8, <1>9, <1>10, <1>11

---------------------------------------------------------------------------
(* The stack is always one the program can have                            *)

\* The call on top is the same one, further on.
Turned(c) ==
  /\ Call(c)
  /\ c.fn = Last(stack).fn
  /\ c.fn = "for_loop" => c.name = Last(stack).name
  /\ c.fn \in {"execute_list", "generate_templates"} => c.event = Last(stack).event

Turns(c) == Turned(c) /\ stack' = [stack EXCEPT ![Len(stack)] = c]

CountsBack(counter) ==
  /\ recursion' = IF recursion_error THEN counter - 1 ELSE counter
  /\ recursion_error' = (recursion_error /\ counter # 1)

\* What a step of catcierge_output_generate does: it goes on in its text ...
TextGoesOn ==
  /\ stack # <<>> /\ Last(stack).fn = "generate" /\ res \in {"none", "string"}
  /\ \E c : Turns(c)
  /\ res' = "none"
  /\ recursion' = IF res = "string" THEN recursion - 1 ELSE recursion
  /\ UNCHANGED <<args, phase, templates, generated, userVars, recursion_error,
                 no_relative_path, template_idx, done>>

\* ... or returns it, or fails ...
TextEnds ==
  /\ stack # <<>> /\ Last(stack).fn = "generate" /\ res # "string"
  /\ stack' = Front(stack)
  /\ \/ /\ res = "none" /\ res' = "string"
        /\ UNCHANGED <<recursion, recursion_error>>
     \/ /\ res = "none" /\ res' = "null"
        /\ \/ recursion' \in {recursion, recursion + 1} /\ UNCHANGED recursion_error
           \/ CountsBack(recursion + 1)
     \/ /\ res = "null" /\ res' = "null"
        /\ UNCHANGED <<recursion, recursion_error>> \/ CountsBack(recursion)
  /\ UNCHANGED <<args, phase, templates, generated, userVars, no_relative_path,
                 template_idx, done>>

\* ... or begins with a path or a loop ...
VariableStarts ==
  /\ stack # <<>> /\ Last(stack).fn = "generate" /\ res = "none"
  /\ recursion' = recursion + 1
  /\ \/ /\ UNCHANGED userVars
        /\ \E relative \in BOOLEAN : \E text :
             /\ relative => ~ no_relative_path
             /\ no_relative_path' = (no_relative_path \/ relative)
             /\ CallGenerate(Append(stack, [fn |-> "get_path", relative |-> relative]), text)
     \/ /\ UNCHANGED no_relative_path
        /\ \E name, left, body :
             /\ name \notin userVars
             /\ userVars' = userVars \cup {name}
             /\ CallGenerate(Append(stack, [fn |-> "for_loop", name |-> name,
                                            left |-> left, body |-> body]), body)
  /\ UNCHANGED <<args, phase, templates, generated, template_idx, done>>

\* ... or ends one.
VariableEnds ==
  /\ stack # <<>> /\ res # "none"
  /\ stack' = Front(stack) /\ res' = res
  /\ \/ /\ Last(stack).fn = "get_path"
        /\ no_relative_path' = NoRelativePathAfter(Last(stack))
        /\ UNCHANGED userVars
     \/ /\ Last(stack).fn = "for_loop"
        /\ userVars' = UserVarsAfter(Last(stack))
        /\ UNCHANGED no_relative_path
  /\ UNCHANGED <<args, phase, templates, generated, recursion, recursion_error,
                 template_idx, done>>

StackInv ==
  /\ WellFormed(stack, args.signals)
  /\ res \in {"none", "string", "null"}
  /\ stack = <<>> => res = "none"
  /\ stack # <<>> /\ Waiting(Last(stack)) => res # "none"
  /\ phase \in {"load", "destroyed", "crashed"} => stack = <<>>
  /\ templates \in Seq(Range(templates))

LEMMA TopCall ==
  ASSUME NEW s, NEW signals, WellFormed(s, signals), s # <<>>
  PROVE  Call(Last(s)) /\ Last(s) = s[Len(s)] /\ Len(s) \in Nat /\ Len(s) > 0
BY SequenceFacts DEF WellFormed

LEMMA NextTokenTurns ==
  ASSUME StackInv, stack # <<>>, Last(stack).fn = "generate", NextToken
  PROVE  \E c : Turns(c)
<1> DEFINE c == [stack[Len(stack)] EXCEPT !.text = Tail(stack[Len(stack)].text)]
<1>1. Call(Last(stack)) /\ Last(stack) = stack[Len(stack)]
  BY TopCall DEF StackInv
<1>2. c.fn = "generate" /\ DOMAIN c = {"fn", "text"}
  BY <1>1 DEF Call
<1>3. stack' = [stack EXCEPT ![Len(stack)] = c]
  BY DEF NextToken
<1> HIDE DEF c
<1> QED BY <1>2, <1>3 DEF Turns, Turned, Call

LEMMA GenerateMoves ==
  ASSUME StackInv, Generate
  PROVE  \/ TextGoesOn \/ TextEnds \/ VariableStarts \/ VariableEnds
         \/ ForLoopContinues \/ MatcherIsGone
<1>1. CASE GenerateEnds
  BY <1>1 DEF GenerateEnds, Running, Top, Return, TextEnds, loadVars, contextVars
<1>2. CASE GenerateText
  <2>1. NextToken /\ stack # <<>> /\ Last(stack).fn = "generate"
    BY <1>2 DEF GenerateText, AtToken, Running, Top
  <2> QED BY <1>2, <2>1, NextTokenTurns
       DEF GenerateText, AtToken, Running, Top, TextGoesOn, loadVars, contextVars
<1>3. CASE UnterminatedVariable
  BY <1>3 DEF UnterminatedVariable, AtToken, Running, Top, Return, TextEnds, loadVars,
              contextVars
<1>4. CASE PlainVariable
  <2>1. NextToken /\ Running("generate")
    BY <1>4 DEF PlainVariable, AtToken
  <2>2. stack # <<>> /\ Last(stack).fn = "generate" /\ res = "none"
    BY <2>1 DEF Running, Top
  <2>3. \E c : Turns(c)
    BY <2>1, <2>2, NextTokenTurns
  <2> QED BY <1>4, <2>2, <2>3 DEF PlainVariable, TextGoesOn, loadVars, contextVars
<1>5. CASE UnknownVariable
  BY <1>5 DEF UnknownVariable, VariableFails, CountsBack, Running, Top, Return, TextEnds,
              loadVars
<1>6. CASE BadBlock
  BY <1>6 DEF BadBlock, AtToken, Running, Top, Return, TextEnds, loadVars
<1>7. CASE GetPath
  <2> DEFINE rel == RelativeTo(Token)
             relative == IsRelative(rel)
             text == IF relative THEN rel[1] ELSE PathText(Token)
  <2>1. /\ relative \in BOOLEAN /\ (relative => ~ no_relative_path)
        /\ no_relative_path' = (no_relative_path \/ relative)
        /\ CallGenerate(Append(stack, [fn |-> "get_path", relative |-> relative]), text)
    BY <1>7 DEF GetPath, IsRelative
  <2>2. /\ stack # <<>> /\ Last(stack).fn = "generate" /\ res = "none"
        /\ recursion' = recursion + 1
        /\ UNCHANGED <<args, phase, templates, generated, userVars, template_idx, done>>
    BY <1>7 DEF GetPath, Running, Top, loadVars
  <2> HIDE DEF text, relative
  <2> QED BY <2>1, <2>2 DEF VariableStarts
<1>8. CASE GetPathReturns
  BY <1>8 DEF GetPathReturns, Returned, Top, Return, VariableEnds, loadVars
<1>9. CASE ForLoop
  <2>1. /\ Token.name \notin userVars /\ userVars' = userVars \cup {Token.name}
        /\ CallGenerate(Append(stack, [fn |-> "for_loop", name |-> Token.name,
                                       left |-> Token.times, body |-> Token.body]),
                        Token.body)
    BY <1>9 DEF ForLoop
  <2>2. /\ stack # <<>> /\ Last(stack).fn = "generate" /\ res = "none"
        /\ recursion' = recursion + 1
        /\ UNCHANGED <<args, phase, templates, generated, no_relative_path, template_idx,
                       done>>
    BY <1>9 DEF ForLoop, AtToken, Running, Top, loadVars
  <2> QED BY <2>1, <2>2 DEF VariableStarts
<1>10. CASE ForLoopReturns
  BY <1>10 DEF ForLoopReturns, Returned, Top, Return, VariableEnds, loadVars, contextVars
<1>11. CASE VariableReturns
  <2>1. /\ stack # <<>> /\ Last(stack).fn = "generate" /\ res # "none"
        /\ UNCHANGED <<args, phase, templates, generated, userVars, no_relative_path,
                       template_idx, done>>
    BY <1>11 DEF VariableReturns, Returned, Top, loadVars
  <2>2. CASE /\ res = "string" /\ recursion' = CountBack(Token)
             /\ NextToken /\ res' = "none" /\ UNCHANGED recursion_error
    BY <2>1, <2>2, NextTokenTurns DEF TextGoesOn, CountBack
  <2>3. CASE res = "null" /\ VariableFails(recursion)
    BY <2>1, <2>3 DEF VariableFails, Return, TextEnds, CountsBack
  <2>4. CASE res = "null" /\ Return("null") /\ UNCHANGED <<recursion, recursion_error>>
    BY <2>1, <2>4 DEF Return, TextEnds
  <2> QED BY <1>11, <2>2, <2>3, <2>4 DEF VariableReturns
<1> QED
  BY <1>1, <1>2, <1>3, <1>4, <1>5, <1>6, <1>7, <1>8, <1>9, <1>10, <1>11 DEF Generate

\* A call with some fields set is a call, and only these fields change.
LEMMA CallUpdates ==
  ASSUME NEW c, Call(c)
  PROVE  /\ c.fn = "for_loop" =>
              \A x : LET d == [c EXCEPT !.left = x]
                     IN Call(d) /\ d.fn = c.fn /\ d.name = c.name
         /\ c.fn = "execute_list" =>
              \A x : LET d == [c EXCEPT !.left = x]
                     IN Call(d) /\ d.fn = c.fn /\ d.event = c.event
  BY DEF Call

\* The call of catcierge_output_generate_templates, further in its loop.
TemplatesAt(c, i, stage, failed) ==
  /\ Turned(c)
  /\ c.i = i /\ c.stage = stage /\ c.failed = failed

LEMMA TemplatesUpdates ==
  ASSUME NEW c, Call(c), c.fn = "generate_templates", c = Last(stack),
         NEW i \in Nat, NEW stage \in {"next", "path", "filename", "contents"}
  PROVE  /\ TemplatesAt([c EXCEPT !.stage = stage], c.i, stage, c.failed)
         /\ TemplatesAt([c EXCEPT !.stage = stage, !.failed = TRUE], c.i, stage, TRUE)
         /\ TemplatesAt([c EXCEPT !.i = i, !.stage = stage], i, stage, c.failed)
<1>1. /\ DOMAIN c = {"fn", "event", "i", "stage", "failed"}
      /\ c.i \in Nat /\ c.failed \in BOOLEAN
  BY DEF Call
<1>2. TemplatesAt([c EXCEPT !.stage = stage], c.i, stage, c.failed)
  BY <1>1 DEF TemplatesAt, Turned, Call
<1>3. TemplatesAt([c EXCEPT !.stage = stage, !.failed = TRUE], c.i, stage, TRUE)
  BY <1>1 DEF TemplatesAt, Turned, Call
<1>4. TemplatesAt([c EXCEPT !.i = i, !.stage = stage], i, stage, c.failed)
  BY <1>1 DEF TemplatesAt, Turned, Call
<1> QED BY <1>2, <1>3, <1>4

LEMMA LoopGoesOn ==
  ASSUME StackInv, ForLoopContinues
  PROVE  /\ stack # <<>> /\ Last(stack).fn = "for_loop" /\ res = "string"
         /\ \E c, text : /\ Turned(c)
                         /\ CallGenerate([stack EXCEPT ![Len(stack)] = c], text)
         /\ UNCHANGED <<args, phase, templates, generated, userVars, recursion,
                        no_relative_path, template_idx, done>>
<1>1. /\ stack # <<>> /\ Last(stack).fn = "for_loop" /\ res = "string"
      /\ UNCHANGED <<args, phase, templates, generated, userVars, recursion,
                     no_relative_path, template_idx, done>>
  BY DEF ForLoopContinues, Returned, Top, loadVars
<1>2. Call(Last(stack)) /\ Last(stack) = stack[Len(stack)]
  BY <1>1, TopCall DEF StackInv
<1> DEFINE c == [stack[Len(stack)] EXCEPT !.left = IterationsLeft(stack[Len(stack)].left)]
<1>3. CallGenerate([stack EXCEPT ![Len(stack)] = c], Top.body)
  BY DEF ForLoopContinues
<1>4. Call(c) /\ c.fn = Last(stack).fn /\ c.name = Last(stack).name
  BY <1>1, <1>2, CallUpdates
<1> HIDE DEF c
<1>5. Turned(c)
  BY <1>1, <1>4 DEF Turned
<1> QED BY <1>1, <1>3, <1>5

LEMMA TemplateStarts ==
  ASSUME StackInv, NextTemplate
  PROVE  /\ stack # <<>> /\ Last(stack).fn = "generate_templates" /\ res = "none"
         /\ Last(stack).stage = "next" /\ Remaining(Last(stack)) # {}
         /\ template_idx' = Min(Remaining(Last(stack)))
         /\ template_idx' \in Nat =>
              \E c, text : /\ TemplatesAt(c, template_idx', "path", Last(stack).failed)
                           /\ CallGenerate([stack EXCEPT ![Len(stack)] = c], text)
         /\ UNCHANGED <<args, phase, templates, generated, userVars, recursion,
                        no_relative_path, done>>
<1>1. /\ stack # <<>> /\ Last(stack).fn = "generate_templates" /\ res = "none"
      /\ Last(stack).stage = "next" /\ Remaining(Last(stack)) # {}
      /\ template_idx' = Min(Remaining(Last(stack)))
      /\ UNCHANGED <<args, phase, templates, generated, userVars, recursion,
                     no_relative_path, done>>
  BY DEF NextTemplate, Running, Top, loadVars
<1>2. Call(Last(stack)) /\ Last(stack) = stack[Len(stack)]
  BY <1>1, TopCall DEF StackInv
<1> DEFINE c == [stack[Len(stack)] EXCEPT !.i = template_idx', !.stage = "path"]
<1>3. CallGenerate([stack EXCEPT ![Len(stack)] = c], args.paths["template_output_path"])
  BY DEF NextTemplate
<1>4. template_idx' \in Nat => TemplatesAt(c, template_idx', "path", Last(stack).failed)
  BY <1>1, <1>2, TemplatesUpdates
<1> HIDE DEF c
<1> QED BY <1>1, <1>3, <1>4

LEMMA TemplateGoesOn ==
  ASSUME StackInv, TemplateContinues
  PROVE  /\ stack # <<>> /\ Last(stack).fn = "generate_templates" /\ res = "string"
         /\ Last(stack).stage \in {"path", "filename"}
         /\ generated' \in {generated, generated \cup {Last(stack).i}}
         /\ \E stage \in {"filename", "contents"} : \E c, text :
              /\ TemplatesAt(c, Last(stack).i, stage, Last(stack).failed)
              /\ CallGenerate([stack EXCEPT ![Len(stack)] = c], text)
         /\ UNCHANGED <<args, phase, templates, userVars, recursion, no_relative_path,
                        template_idx, done>>
<1>1. /\ stack # <<>> /\ Last(stack).fn = "generate_templates" /\ res = "string"
      /\ Last(stack).stage \in {"path", "filename"}
      /\ UNCHANGED <<args, phase, templates, userVars, recursion, no_relative_path,
                     template_idx, done>>
  BY DEF TemplateContinues, Returned, Top, loadVars
<1>2. Call(Last(stack)) /\ Last(stack) = stack[Len(stack)]
  BY <1>1, TopCall DEF StackInv
<1> DEFINE c(stage) == [stack[Len(stack)] EXCEPT !.stage = stage]
<1>3. \A stage \in {"filename", "contents"} :
        TemplatesAt(c(stage), Last(stack).i, stage, Last(stack).failed)
  BY <1>1, <1>2, TemplatesUpdates
<1>4. CASE Last(stack).stage = "path"
  <2>1. /\ CallGenerate([stack EXCEPT ![Len(stack)] = c("filename")],
                        templates[Top.i].filename)
        /\ UNCHANGED generated
    BY <1>4 DEF TemplateContinues, Top
  <2> HIDE DEF c
  <2> QED BY <1>1, <1>3, <2>1
<1>5. CASE Last(stack).stage # "path"
  <2>1. /\ CallGenerate([stack EXCEPT ![Len(stack)] = c("contents")],
                        templates[Top.i].tmpl)
        /\ generated' = generated \cup {Last(stack).i}
    BY <1>5 DEF TemplateContinues, Top
  <2> HIDE DEF c
  <2> QED BY <1>1, <1>3, <2>1
<1> QED BY <1>4, <1>5

LEMMA TemplateEnds ==
  ASSUME StackInv, TemplateReturns
  PROVE  /\ stack # <<>> /\ Last(stack).fn = "generate_templates" /\ res # "none"
         /\ \E c : /\ Turns(c)
                   /\ \/ TemplatesAt(c, Last(stack).i, "next", TRUE) /\ UNCHANGED done
                      \/ /\ TemplatesAt(c, Last(stack).i, "next", Last(stack).failed)
                         /\ done' = done \cup {[what |-> "template",
                                                event |-> Last(stack).event,
                                                i |-> Last(stack).i]}
         /\ res' = "none"
         /\ UNCHANGED <<args, phase, templates, generated, userVars, recursion,
                        recursion_error, no_relative_path, template_idx>>
<1>1. /\ stack # <<>> /\ Last(stack).fn = "generate_templates" /\ res # "none"
      /\ res' = "none"
      /\ UNCHANGED <<args, phase, templates, generated, userVars, recursion,
                     recursion_error, no_relative_path, template_idx>>
  BY DEF TemplateReturns, Returned, Top, loadVars, contextVars
<1>2. Call(Last(stack)) /\ Last(stack) = stack[Len(stack)]
  BY <1>1, TopCall DEF StackInv
<1>3. CASE TemplateFails
  <2> DEFINE c == [stack[Len(stack)] EXCEPT !.stage = "next", !.failed = TRUE]
  <2>1. stack' = [stack EXCEPT ![Len(stack)] = c] /\ UNCHANGED done
    BY <1>3 DEF TemplateFails
  <2>2. 0 \in Nat
    OBVIOUS
  <2>3. TemplatesAt(c, Last(stack).i, "next", TRUE)
    BY <1>1, <1>2, <2>2, TemplatesUpdates
  <2> HIDE DEF c
  <2> QED BY <1>1, <2>1, <2>3 DEF Turns, TemplatesAt
<1>4. CASE /\ done' = done \cup {[what |-> "template", event |-> Top.event, i |-> Top.i]}
           /\ stack' = [stack EXCEPT ![Len(stack)].stage = "next"]
  <2> DEFINE c == [stack[Len(stack)] EXCEPT !.stage = "next"]
  <2>1. stack' = [stack EXCEPT ![Len(stack)] = c]
    BY <1>4
  <2>2. 0 \in Nat
    OBVIOUS
  <2>3. TemplatesAt(c, Last(stack).i, "next", Last(stack).failed)
    BY <1>1, <1>2, <2>2, TemplatesUpdates
  <2> HIDE DEF c
  <2> QED BY <1>1, <1>4, <2>1, <2>3 DEF Turns, TemplatesAt, Top
<1> QED BY <1>3, <1>4 DEF TemplateReturns

LEMMA CommandEnds ==
  ASSUME StackInv, CommandReturns
  PROVE  /\ stack # <<>> /\ Last(stack).fn = "execute_list" /\ res # "none"
         /\ \E c : Turns(c)
         /\ res' = "none"
         /\ \E i : done' \in {done, done \cup {[what |-> "command", event |-> Last(stack).event,
                                                i |-> i]}}
         /\ UNCHANGED <<args, phase, templates, generated, userVars, recursion,
                        recursion_error, no_relative_path, template_idx>>
<1>1. /\ stack # <<>> /\ Last(stack).fn = "execute_list" /\ res # "none"
      /\ res' = "none"
      /\ UNCHANGED <<args, phase, templates, generated, userVars, recursion,
                     recursion_error, no_relative_path, template_idx>>
  BY DEF CommandReturns, Returned, Top, loadVars, contextVars
<1>2. Call(Last(stack)) /\ Last(stack) = stack[Len(stack)]
  BY <1>1, TopCall DEF StackInv
<1> DEFINE c == [stack[Len(stack)] EXCEPT !.left = Tail(stack[Len(stack)].left)]
<1>3. stack' = [stack EXCEPT ![Len(stack)] = c]
  BY DEF CommandReturns
<1>4. Call(c) /\ c.fn = Last(stack).fn /\ c.event = Last(stack).event
  BY <1>1, <1>2, CallUpdates
<1> HIDE DEF c
<1>5. Turns(c)
  BY <1>1, <1>3, <1>4 DEF Turns, Turned
<1>6. \E i : done' \in {done, done \cup {[what |-> "command", event |-> Last(stack).event,
                                          i |-> i]}}
  <2>1. CASE res = "null"
    BY <2>1 DEF CommandReturns
  <2>2. CASE res # "null"
    <3> DEFINE i == Len(args.cmds[Top.event]) - Len(Top.left) + 1
    <3>1. done' = done \cup {[what |-> "command", event |-> Top.event, i |-> i]}
      BY <2>2 DEF CommandReturns
    <3> HIDE DEF i
    <3> QED BY <3>1 DEF Top
  <2> QED BY <2>1, <2>2
<1> QED BY <1>1, <1>5, <1>6

LEMMA EmptyStack ==
  ASSUME NEW signals
  PROVE  WellFormed(<<>>, signals) /\ \A fn : Count(<<>>, fn) = 0
<1>1. <<>> \in Seq(Range(<<>>)) /\ Len(<<>>) = 0
  BY EmptySeq
<1>2. DOMAIN <<>> = {}
  BY <1>1, SequenceFacts
<1>3. \A fn : Positions(<<>>, fn) = {}
  BY <1>2 DEF Positions
<1>4. \A fn : Count(<<>>, fn) = 0
  BY <1>3, FS_EmptySet DEF Count
<1> QED BY <1>1, <1>4 DEF WellFormed

LEMMA MinIsLeast ==
  ASSUME NEW T \in SUBSET Nat, T # {}
  PROVE  Min(T) \in T /\ \A x \in T : Min(T) <= x
<1>1. \E x \in T : \A y \in T : ~ (<<y, x>> \in OpToRel(<, Nat))
  BY NatLessThanWellFounded, WFMin
<1>2. ASSUME NEW x \in Nat, NEW y \in Nat, ~ (<<y, x>> \in OpToRel(<, Nat))
      PROVE  x <= y
  <2>1. OpToRel(<, Nat) = {ss \in Nat \X Nat : ss[1] < ss[2]}
    BY DEF OpToRel
  <2>2. ~ (y < x)
    BY <1>2, <2>1
  <2> QED BY <2>2
<1>3. \E x \in T : \A y \in T : x <= y
  BY <1>1, <1>2
<1> QED BY <1>3 DEF Min

\* A call of catcierge_output_generate: one call more, or a recursion error.
LEMMA CallGenerateFacts ==
  ASSUME NEW callers, NEW signals, WellFormed(callers, signals), callers # <<>>,
         Last(callers).fn = "execute_list" \/ Waiting(Last(callers)),
         NEW text, CallGenerate(callers, text)
  PROVE  /\ WellFormed(stack', signals) /\ stack' # <<>>
         /\ \/ /\ recursion' >= MaxRecursion
               /\ stack' = callers /\ res' = "null" /\ recursion_error' = TRUE
            \/ /\ ~ (recursion' >= MaxRecursion)
               /\ \E c : stack' = Append(callers, c) /\ c.fn = "generate"
               /\ Last(stack').fn = "generate" /\ res' = "none"
               /\ recursion_error' = recursion_error
<1> DEFINE c == [fn |-> "generate", text |-> text]
<1>1. Call(c) /\ c.fn = "generate"
  BY DEF Call
<1>2. CASE recursion' >= MaxRecursion
  BY <1>2 DEF CallGenerate
<1>3. CASE ~ (recursion' >= MaxRecursion)
  <2>1. stack' = Append(callers, c) /\ res' = "none" /\ recursion_error' = recursion_error
    BY <1>3 DEF CallGenerate
  <2> HIDE DEF c
  <2>2. MayCall(Last(callers), c, signals)
    BY <1>1 DEF MayCall
  <2>3. WellFormed(stack', signals) /\ stack' # <<>> /\ Last(stack') = c
    BY <1>1, <2>1, <2>2, AppendIsWellFormed
  <2> QED BY <1>1, <1>3, <2>1, <2>3
<1> QED BY <1>2, <1>3

LEMMA TurnFacts ==
  ASSUME StackInv, stack # <<>>, NEW c, Turned(c)
  PROVE  LET t == [stack EXCEPT ![Len(stack)] = c]
         IN WellFormed(t, args.signals) /\ t # <<>> /\ Last(t) = c
BY ReplaceIsWellFormed DEF StackInv, Turned

LEMMA StartFacts ==
  ASSUME StackInv, stack # <<>>, Last(stack).fn = "generate", NEW c, Call(c),
         c.fn \in {"get_path", "for_loop"}
  PROVE  /\ WellFormed(Append(stack, c), args.signals) /\ Append(stack, c) # <<>>
         /\ Last(Append(stack, c)) = c
<1>1. MayCall(Last(stack), c, args.signals)
  BY DEF MayCall
<1> QED BY <1>1, AppendIsWellFormed DEF StackInv

LEMMA ReturnFacts ==
  ASSUME StackInv, stack # <<>>
  PROVE  /\ WellFormed(Front(stack), args.signals)
         /\ Front(stack) # <<>> =>
              MayCall(Last(Front(stack)), Last(stack), args.signals)
         /\ Front(stack) = <<>> => Last(stack).fn \in {"execute_list", "image_path"}
         /\ Call(Last(stack))
BY FrontIsWellFormed, TopCall DEF StackInv

\* An event puts two calls on the stack.
PushedByEvent(x, y, event) ==
  /\ Call(x) /\ x.fn = "execute_list" /\ x.event = event
  /\ Call(y) /\ y.fn = "generate_templates" /\ y.event = event
  /\ y.i = 0 /\ y.stage = "next" /\ y.failed = FALSE
  /\ WellFormed(Append(stack, x), args.signals) /\ Append(stack, x) # <<>>
  /\ Last(Append(stack, x)) = x
  /\ WellFormed(Append(Append(stack, x), y), args.signals)
  /\ Append(Append(stack, x), y) # <<>>
  /\ Last(Append(Append(stack, x), y)) = y

LEMMA EventFacts ==
  ASSUME StackInv, NEW event,
         \/ stack = <<>> /\ stack' = EventCalls(event)
         \/ args.signals /\ res = "none" /\ stack' = stack \o EventCalls(event)
  PROVE  \E x, y : stack' = Append(Append(stack, x), y) /\ PushedByEvent(x, y, event)
<1> DEFINE x == [fn |-> "execute_list", event |-> event, left |-> args.cmds[event]]
           y == [fn |-> "generate_templates", event |-> event, i |-> 0,
                 stage |-> "next", failed |-> FALSE]
           s == Append(stack, x)
           S == Range(stack) \cup {x, y}
<1>1. Call(x) /\ Call(y) /\ x.fn = "execute_list" /\ y.fn = "generate_templates"
      /\ x.event = event /\ y.event = event
      /\ y.i = 0 /\ y.stage = "next" /\ y.failed = FALSE
  BY DEF Call
<1>2. EventCalls(event) = <<x, y>>
  BY DEF EventCalls
<1> HIDE DEF x, y
<1>3. stack # <<>> => MayCall(Last(stack), x, args.signals)
  <2>1. ASSUME stack # <<>> PROVE MayCall(Last(stack), x, args.signals)
    <3>1. Call(Last(stack)) /\ ~ Waiting(Last(stack)) /\ args.signals
      BY <2>1, TopCall DEF StackInv
    <3> QED BY <1>1, <3>1 DEF MayCall, Call, Waiting
  <2> QED BY <2>1
<1>4. WellFormed(s, args.signals) /\ s # <<>> /\ Last(s) = x
  BY <1>1, <1>3, AppendIsWellFormed DEF StackInv
<1>5. MayCall(Last(s), y, args.signals)
  BY <1>1, <1>4 DEF MayCall
<1>6. WellFormed(Append(s, y), args.signals) /\ Append(s, y) # <<>> /\ Last(Append(s, y)) = y
  BY <1>1, <1>4, <1>5, AppendIsWellFormed
<1>7. stack \in Seq(S) /\ <<x, y>> \in Seq(S) /\ x \in S /\ y \in S
  <2>1. stack \in Seq(S)
    BY SeqMonotonic DEF StackInv, WellFormed
  <2> QED BY <2>1
<1>8. stack \o <<x, y>> = Append(s, y)
  BY <1>7
<1>9. stack = <<>> => <<x, y>> = Append(s, y)
  BY <1>7, <1>8, ConcatEmptySeq
<1>10. stack' = Append(Append(stack, x), y)
  BY <1>2, <1>8, <1>9
<1>11. PushedByEvent(x, y, event)
  BY <1>1, <1>4, <1>6 DEF PushedByEvent
<1> QED BY <1>10, <1>11

LEMMA StackInvInit == Init => StackInv
<1> SUFFICES ASSUME Init PROVE StackInv
  OBVIOUS
<1>1. <<>> \in Seq(Range(<<>>))
  BY EmptySeq
<1> QED BY <1>1, EmptyStack DEF Init, StackInv

LEMMA RemainingIsNat ==
  ASSUME StackInv, NEW call
  PROVE  /\ Remaining(call) \in SUBSET Nat
         /\ Remaining(call) # {} =>
              /\ Min(Remaining(call)) \in Remaining(call)
              /\ \A x \in Remaining(call) : Min(Remaining(call)) <= x
<1>1. DOMAIN templates = 1..Len(templates) /\ Len(templates) \in Nat
  BY SequenceFacts DEF StackInv
<1>2. Remaining(call) \in SUBSET Nat
  BY <1>1 DEF Remaining
<1> QED BY <1>2, MinIsLeast

\* The kinds of steps, the ones of catcierge_output_generate as moves.
LEMMA Steps ==
  ASSUME StackInv, [Next]_vars
  PROVE  \/ LoadTemplate \/ StartLoop \/ OutputDestroy \/ MatcherIsGone
         \/ TextGoesOn \/ TextEnds \/ VariableStarts \/ VariableEnds
         \/ ForLoopContinues
         \/ NextTemplate \/ TemplateContinues \/ TemplateReturns
         \/ GenerateTemplatesEnds
         \/ ExecuteCommand \/ CommandReturns
         \/ ExecuteListEnds \/ ImagePathReturns
         \/ \E event : TriggerEvent(event) \/ SignalEvent(event)
         \/ \E name : GenerateImagePath(name)
         \/ UnlockAtExit
         \/ UNCHANGED vars
<1>1. CASE Generate
  BY <1>1, GenerateMoves
<1>2. CASE Continue /\ ~ Generate
  BY <1>2 DEF Continue
<1>3. CASE Next /\ ~ Continue
  BY <1>3 DEF Next
<1> QED BY <1>1, <1>2, <1>3

LEMMA StackInvStep == StackInv /\ [Next]_vars => StackInv'
<1> SUFFICES ASSUME StackInv, [Next]_vars PROVE StackInv'
  OBVIOUS
<1>1. CASE LoadTemplate
  <2>1. UNCHANGED <<args, stack, res>> /\ stack = <<>>
    BY <1>1 DEF LoadTemplate, StackInv
  <2>2. templates' \in Seq(Range(templates'))
    <3>1. templates' = templates
          \/ \E t : templates' = Append(templates, t)
      BY <1>1 DEF LoadTemplate
    <3> QED BY <3>1, AppendFacts DEF StackInv
  <2> QED BY <2>1, <2>2 DEF StackInv
<1>2. CASE StartLoop
  BY <1>2 DEF StartLoop, StackInv, loadVars
<1>3. CASE OutputDestroy
  <2>1. templates' \in Seq(Range(templates'))
    BY <1>3, EmptySeq DEF OutputDestroy
  <2> QED BY <1>3, <2>1 DEF OutputDestroy, StackInv
<1>4. CASE MatcherIsGone
  <2>1. stack' = <<>> /\ res' = "none" /\ UNCHANGED <<args, templates>>
    BY <1>4 DEF MatcherIsGone, AtToken, Running, loadVars
  <2> QED BY <2>1, EmptyStack DEF StackInv
<1>5. CASE TextGoesOn
  <2>1. PICK c : Turns(c) /\ c.fn = "generate"
    BY <1>5 DEF TextGoesOn, Turns, Turned
  <2>2. WellFormed(stack', args.signals) /\ stack' # <<>> /\ Last(stack') = c
    BY <1>5, <2>1, TurnFacts DEF TextGoesOn, Turns
  <2>3. ~ Waiting(c)
    BY <2>1 DEF Waiting
  <2> QED BY <1>5, <2>2, <2>3 DEF TextGoesOn, StackInv
<1>6. CASE TextEnds
  <2>1. /\ WellFormed(stack', args.signals) /\ stack' # <<>>
        /\ res' \in {"string", "null"}
    BY <1>6, ReturnFacts DEF TextEnds
  <2> QED BY <1>6, <2>1 DEF TextEnds, StackInv
<1>7. CASE VariableStarts
  <2>1. stack # <<>> /\ Last(stack).fn = "generate"
        /\ UNCHANGED <<args, phase, templates>>
    BY <1>7 DEF VariableStarts
  <2>2. PICK c, text : /\ Call(c) /\ c.fn \in {"get_path", "for_loop"}
                       /\ CallGenerate(Append(stack, c), text)
    BY <1>7 DEF VariableStarts, Call
  <2> DEFINE callers == Append(stack, c)
  <2>3. WellFormed(callers, args.signals) /\ callers # <<>> /\ Waiting(Last(callers))
    BY <2>1, <2>2, StartFacts DEF Waiting
  <2>4. /\ WellFormed(stack', args.signals) /\ stack' # <<>>
        /\ res' = "null" \/ (res' = "none" /\ Last(stack').fn = "generate")
    BY <2>2, <2>3, CallGenerateFacts
  <2> QED BY <2>1, <2>4 DEF StackInv, Waiting
<1>8. CASE VariableEnds
  <2>1. /\ WellFormed(stack', args.signals) /\ stack' # <<>>
        /\ res' \in {"string", "null"}
    BY <1>8, ReturnFacts DEF VariableEnds, StackInv
  <2> QED BY <1>8, <2>1 DEF VariableEnds, StackInv
<1>9. CASE ForLoopContinues
  <2>1. PICK c, text : Turned(c) /\ CallGenerate([stack EXCEPT ![Len(stack)] = c], text)
    BY <1>9, LoopGoesOn
  <2>2. stack # <<>> /\ Last(stack).fn = "for_loop" /\ UNCHANGED <<args, phase, templates>>
    BY <1>9, LoopGoesOn
  <2> DEFINE callers == [stack EXCEPT ![Len(stack)] = c]
  <2>3. WellFormed(callers, args.signals) /\ callers # <<>> /\ Waiting(Last(callers))
    BY <2>1, <2>2, TurnFacts DEF Waiting, Turned
  <2>4. /\ WellFormed(stack', args.signals) /\ stack' # <<>>
        /\ res' = "null" \/ (res' = "none" /\ Last(stack').fn = "generate")
    BY <2>1, <2>3, CallGenerateFacts
  <2> QED BY <2>2, <2>4 DEF StackInv, Waiting
<1>10. CASE NextTemplate
  <2>1. template_idx' \in Nat /\ stack # <<>> /\ Last(stack).fn = "generate_templates"
        /\ UNCHANGED <<args, phase, templates>>
    BY <1>10, TemplateStarts, RemainingIsNat
  <2>2. PICK c, text : /\ TemplatesAt(c, template_idx', "path", Last(stack).failed)
                       /\ CallGenerate([stack EXCEPT ![Len(stack)] = c], text)
    BY <1>10, <2>1, TemplateStarts
  <2> DEFINE callers == [stack EXCEPT ![Len(stack)] = c]
  <2>3. WellFormed(callers, args.signals) /\ callers # <<>> /\ Waiting(Last(callers))
    BY <2>1, <2>2, TurnFacts DEF Waiting, TemplatesAt, Turned
  <2>4. /\ WellFormed(stack', args.signals) /\ stack' # <<>>
        /\ res' = "null" \/ (res' = "none" /\ Last(stack').fn = "generate")
    BY <2>2, <2>3, CallGenerateFacts
  <2> QED BY <2>1, <2>4 DEF StackInv, Waiting
<1>11. CASE TemplateContinues
  <2>1. stack # <<>> /\ Last(stack).fn = "generate_templates"
        /\ UNCHANGED <<args, phase, templates>>
    BY <1>11, TemplateGoesOn
  <2>2. PICK stage \in {"filename", "contents"} :
          \E c, text : /\ TemplatesAt(c, Last(stack).i, stage, Last(stack).failed)
                       /\ CallGenerate([stack EXCEPT ![Len(stack)] = c], text)
    BY <1>11, TemplateGoesOn
  <2>5. PICK c, text : /\ TemplatesAt(c, Last(stack).i, stage, Last(stack).failed)
                       /\ CallGenerate([stack EXCEPT ![Len(stack)] = c], text)
    BY <2>2
  <2> DEFINE callers == [stack EXCEPT ![Len(stack)] = c]
  <2>3. WellFormed(callers, args.signals) /\ callers # <<>> /\ Waiting(Last(callers))
    BY <2>1, <2>5, TurnFacts DEF Waiting, TemplatesAt, Turned
  <2>4. /\ WellFormed(stack', args.signals) /\ stack' # <<>>
        /\ res' = "null" \/ (res' = "none" /\ Last(stack').fn = "generate")
    BY <2>5, <2>3, CallGenerateFacts
  <2> QED BY <2>1, <2>4 DEF StackInv, Waiting
<1>12. CASE TemplateReturns
  <2>1. PICK c : /\ Turns(c) /\ c.stage = "next" /\ c.fn = "generate_templates"
    BY <1>12, TemplateEnds DEF TemplatesAt, Turned
  <2>2. stack # <<>> /\ res' = "none" /\ UNCHANGED <<args, phase, templates>>
    BY <1>12, TemplateEnds
  <2>3. WellFormed(stack', args.signals) /\ stack' # <<>> /\ Last(stack') = c
    BY <2>1, <2>2, TurnFacts DEF Turns
  <2>4. ~ Waiting(c)
    BY <2>1 DEF Waiting
  <2> QED BY <2>2, <2>3, <2>4 DEF StackInv
<1>13. CASE GenerateTemplatesEnds
  <2>1. /\ stack # <<>> /\ Last(stack).fn = "generate_templates" /\ res = "none"
        /\ UNCHANGED <<args, phase, templates, res>>
        /\ stack' \in {Front(stack), Front(Front(stack))}
    BY <1>13 DEF GenerateTemplatesEnds, Running, Top, TemplatesEnd, loadVars
  <2>2. /\ WellFormed(Front(stack), args.signals) /\ Front(stack) # <<>>
        /\ Last(Front(stack)).fn = "execute_list"
    BY <2>1, ReturnFacts DEF MayCall
  <2>3. /\ WellFormed(Front(Front(stack)), args.signals)
        /\ Front(Front(stack)) # <<>> => ~ Waiting(Last(Front(Front(stack))))
    BY <2>2, FrontIsWellFormed DEF MayCall
  <2> QED BY <2>1, <2>2, <2>3 DEF StackInv, Waiting
<1>14. CASE ExecuteCommand
  <2>1. /\ stack # <<>> /\ Last(stack).fn = "execute_list"
        /\ \E text : CallGenerate(stack, text)
        /\ UNCHANGED <<args, phase, templates>>
    BY <1>14 DEF ExecuteCommand, Running, Top, loadVars
  <2>2. /\ WellFormed(stack', args.signals) /\ stack' # <<>>
        /\ res' = "null" \/ (res' = "none" /\ Last(stack').fn = "generate")
    BY <2>1, CallGenerateFacts DEF StackInv
  <2> QED BY <2>1, <2>2 DEF StackInv, Waiting
<1>15. CASE CommandReturns
  <2>1. PICK c : Turns(c) /\ c.fn = "execute_list"
    BY <1>15, CommandEnds DEF Turns, Turned
  <2>2. stack # <<>> /\ res' = "none" /\ UNCHANGED <<args, phase, templates>>
    BY <1>15, CommandEnds
  <2>3. WellFormed(stack', args.signals) /\ stack' # <<>> /\ Last(stack') = c
    BY <2>1, <2>2, TurnFacts DEF Turns
  <2> QED BY <2>1, <2>2, <2>3 DEF StackInv, Waiting
<1>16. CASE ExecuteListEnds
  <2>1. /\ stack # <<>> /\ Last(stack).fn = "execute_list" /\ res' = "none"
        /\ UNCHANGED <<args, phase, templates>> /\ stack' = Front(stack)
    BY <1>16 DEF ExecuteListEnds, Running, Top, Return, loadVars
  <2>2. /\ WellFormed(stack', args.signals)
        /\ stack' # <<>> => ~ Waiting(Last(stack'))
    BY <2>1, ReturnFacts DEF MayCall
  <2> QED BY <2>1, <2>2 DEF StackInv
<1>17. CASE ImagePathReturns
  <2>1. /\ stack # <<>> /\ Last(stack).fn = "image_path" /\ res' = "none"
        /\ UNCHANGED <<args, phase, templates>> /\ stack' = Front(stack)
    BY <1>17 DEF ImagePathReturns, Returned, Top, Return, loadVars
  <2>2. WellFormed(stack', args.signals) /\ stack' = <<>>
    BY <2>1, ReturnFacts DEF MayCall
  <2> QED BY <2>1, <2>2 DEF StackInv
<1>18. CASE \E event : TriggerEvent(event) \/ SignalEvent(event)
  <2>1. PICK event : TriggerEvent(event) \/ SignalEvent(event)
    BY <1>18
  <2>2. /\ \/ stack = <<>> /\ stack' = EventCalls(event)
           \/ args.signals /\ res = "none" /\ stack' = stack \o EventCalls(event)
        /\ phase = "run" /\ res' = "none"
        /\ UNCHANGED <<args, phase, templates>>
    BY <2>1 DEF TriggerEvent, SignalEvent, StackInv, loadVars
  <2>3. /\ WellFormed(stack', args.signals) /\ stack' # <<>>
        /\ Last(stack').fn = "generate_templates" /\ Last(stack').stage = "next"
    BY <2>2, EventFacts DEF PushedByEvent
  <2> QED BY <2>2, <2>3 DEF StackInv, Waiting
<1>19. CASE \E name : GenerateImagePath(name)
  <2>1. PICK text : CallGenerate(<<[fn |-> "image_path"]>>, text)
    BY <1>19 DEF GenerateImagePath
  <2>2. phase = "run" /\ stack = <<>> /\ UNCHANGED <<args, phase, templates>>
    BY <1>19 DEF GenerateImagePath, loadVars
  <2> DEFINE c == [fn |-> "image_path"]
  <2>3. Call(c) /\ c.fn = "image_path"
    BY DEF Call
  <2>4. <<c>> = Append(stack, c)
    BY <2>2
  <2> HIDE DEF c
  <2>5. WellFormed(<<c>>, args.signals) /\ <<c>> # <<>> /\ Waiting(Last(<<c>>))
    BY <2>2, <2>3, <2>4, AppendIsWellFormed DEF StackInv, Waiting
  <2>6. /\ WellFormed(stack', args.signals) /\ stack' # <<>>
        /\ res' = "null" \/ (res' = "none" /\ Last(stack').fn = "generate")
    BY <2>1, <2>5, CallGenerateFacts DEF c
  <2> QED BY <2>2, <2>6 DEF StackInv, Waiting
<1>20. CASE UnlockAtExit
  <2>1. /\ phase = "destroyed" /\ phase' = "done" /\ stack = <<>>
        /\ stack' = EventCalls("do_unlock") /\ UNCHANGED <<args, templates, res>>
    BY <1>20 DEF UnlockAtExit, StackInv, loadVars
  <2>2. /\ WellFormed(stack', args.signals) /\ stack' # <<>>
        /\ Last(stack').fn = "generate_templates" /\ Last(stack').stage = "next"
    BY <2>1, EventFacts DEF PushedByEvent
  <2> QED BY <2>1, <2>2 DEF StackInv, Waiting
<1>21. CASE UNCHANGED vars
  BY <1>21 DEF StackInv, vars, loadVars
<1> QED
  BY Steps, <1>1, <1>2, <1>3, <1>4, <1>5, <1>6, <1>7, <1>8, <1>9, <1>10, <1>11, <1>12,
     <1>13, <1>14, <1>15, <1>16, <1>17, <1>18, <1>19, <1>20, <1>21

---------------------------------------------------------------------------
(* The counter and the calls it counts                                     *)

Texts(s) == Count(s, "generate")
Open(s) == Count(s, "get_path") + Count(s, "for_loop")
Images(s) == Count(s, "image_path")
Contexts(s) == Count(s, "execute_list") + Images(s)

OneIf(b) == IF b THEN 1 ELSE 0

IsVariableCall(c) == c.fn \in {"get_path", "for_loop"}
IsContext(c) == c.fn \in {"execute_list", "image_path"}

LEMMA TotalsType ==
  ASSUME NEW s, s \in Seq(Range(s))
  PROVE  Texts(s) \in Nat /\ Open(s) \in Nat /\ Images(s) \in Nat /\ Contexts(s) \in Nat
BY CountType DEF Texts, Open, Images, Contexts

LEMMA AppendTotals ==
  ASSUME NEW s, NEW c, s \in Seq(Range(s))
  PROVE  LET t == Append(s, c)
         IN /\ Texts(t) = Texts(s) + OneIf(c.fn = "generate")
            /\ Open(t) = Open(s) + OneIf(IsVariableCall(c))
            /\ Images(t) = Images(s) + OneIf(c.fn = "image_path")
            /\ Contexts(t) = Contexts(s) + OneIf(IsContext(c))
<1>1. \A fn : Count(s, fn) \in Nat
  BY CountType
<1>2. \A fn : Count(Append(s, c), fn) = Count(s, fn) + (IF c.fn = fn THEN 1 ELSE 0)
  BY AppendCounts
<1> QED
  BY <1>1, <1>2 DEF Texts, Open, Images, Contexts, OneIf, IsVariableCall, IsContext

LEMMA FrontTotals ==
  ASSUME NEW s, s \in Seq(Range(s)), s # <<>>
  PROVE  LET t == Front(s)
         IN /\ Texts(t) = Texts(s) - OneIf(Last(s).fn = "generate")
            /\ Open(t) = Open(s) - OneIf(IsVariableCall(Last(s)))
            /\ Images(t) = Images(s) - OneIf(Last(s).fn = "image_path")
            /\ Contexts(t) = Contexts(s) - OneIf(IsContext(Last(s)))
<1>1. \A fn : Count(s, fn) \in Nat
  BY CountType
<1>2. \A fn : Count(Front(s), fn) = Count(s, fn) - (IF Last(s).fn = fn THEN 1 ELSE 0)
  BY FrontCounts
<1> QED
  BY <1>1, <1>2 DEF Texts, Open, Images, Contexts, OneIf, IsVariableCall, IsContext

LEMMA ReplaceTotals ==
  ASSUME NEW s, NEW c, s \in Seq(Range(s)), s # <<>>, c.fn = Last(s).fn
  PROVE  LET t == [s EXCEPT ![Len(s)] = c]
         IN /\ Texts(t) = Texts(s) /\ Open(t) = Open(s)
            /\ Images(t) = Images(s) /\ Contexts(t) = Contexts(s)
BY ReplaceCounts DEF Texts, Open, Images, Contexts

\* There are as many texts as there are variables and contexts to generate one
\* for, at most; and one more than there are variables that have theirs, at least.
LEMMA TextsAndVariables ==
  ASSUME NEW s, NEW signals, WellFormed(s, signals)
  PROVE  /\ Texts(s) <= Open(s) + Contexts(s)
         /\ s # <<>> /\ (Last(s).fn = "generate" \/ IsVariableCall(Last(s))) =>
              Open(s) + 1 <= Texts(s) + OneIf(IsVariableCall(Last(s)))
<1>1. /\ s \in Seq(Range(s)) /\ Len(s) \in Nat /\ DOMAIN s = 1..Len(s)
      /\ s # <<>> <=> Len(s) > 0
      /\ s # <<>> => Last(s) = s[Len(s)]
  BY SequenceFacts DEF WellFormed
<1>2. Texts(s) <= Open(s) + Contexts(s)
  BY <1>1, TextsHaveCallers, CountType DEF Texts, Open, Contexts, Images
<1>3. ASSUME s # <<>>, Last(s).fn = "generate" \/ IsVariableCall(Last(s))
      PROVE  Open(s) + 1 <= Texts(s) + OneIf(IsVariableCall(Last(s)))
  <2> DEFINE G == Positions(s, "generate")
             P == Positions(s, "get_path")
             F == Positions(s, "for_loop")
             V == P \cup F
             W == V \ {Len(s)}
             f == [i \in W |-> i + 1]
  <2>1. /\ IsFiniteSet(G) /\ IsFiniteSet(P) /\ IsFiniteSet(F)
        /\ Cardinality(G) = Texts(s) /\ Texts(s) \in Nat
        /\ Cardinality(P) + Cardinality(F) = Open(s)
        /\ Cardinality(P) \in Nat /\ Cardinality(F) \in Nat
    BY <1>1, CountType DEF Count, Texts, Open
  <2>2. P \cap F = {}
    BY DEF Positions
  <2>3. IsFiniteSet(V) /\ Cardinality(V) = Open(s)
    <3>1. Cardinality(P \cap F) = 0
      BY <2>2, FS_EmptySet
    <3>2. /\ IsFiniteSet(P \cup F)
          /\ Cardinality(P \cup F) = Cardinality(P) + Cardinality(F) - Cardinality(P \cap F)
      BY <2>1, FS_Union
    <3> HIDE DEF P, F
    <3>3. Cardinality(P \cup F) = Cardinality(P) + Cardinality(F)
      BY <2>1, <3>1, <3>2
    <3> QED BY <2>1, <3>2, <3>3
  <2>4. /\ IsFiniteSet(W)
        /\ Cardinality(W) = Open(s) - OneIf(IsVariableCall(Last(s)))
    <3>1. Len(s) \in V <=> IsVariableCall(Last(s))
      BY <1>1, <1>3 DEF Positions, IsVariableCall
    <3>2. Cardinality(W) = (IF Len(s) \in V THEN Cardinality(V) - 1 ELSE Cardinality(V))
      BY <2>3, FS_RemoveElement
    <3>3. IsFiniteSet(W)
      BY <2>3, FS_RemoveElement
    <3>4. Cardinality(V) \in Nat
      BY <2>3, FS_CardinalityType
    <3> HIDE DEF V, W
    <3> QED BY <2>3, <3>1, <3>2, <3>3, <3>4 DEF OneIf
  <2>5. ASSUME NEW i \in W PROVE i \in 1..Len(s) /\ i + 1 \in G /\ i # 1 /\ i - 1 \in G
    <3>1. i \in 1..Len(s) /\ i < Len(s) /\ s[i].fn \in {"get_path", "for_loop"}
      BY <1>1 DEF Positions
    <3>2. MayCall(s[i], s[i + 1], signals) /\ i + 1 \in 1..Len(s)
      BY <1>1, <3>1 DEF WellFormed
    <3>3. s[i + 1].fn = "generate"
      BY <3>1, <3>2 DEF MayCall
    <3>4. i # 1
      <4>1. s[1].fn \notin {"get_path", "for_loop"}
        BY <1>3 DEF WellFormed
      <4> QED BY <3>1, <4>1
    <3>5. i - 1 \in 1..Len(s) /\ i - 1 < Len(s) /\ (i - 1) + 1 = i
      <4>1. \A n \in Nat : \A j \in 1..n :
              j # 1 => j - 1 \in 1..n /\ j - 1 < n /\ (j - 1) + 1 = j
        OBVIOUS
      <4> QED BY <1>1, <3>1, <3>4, <4>1
    <3>6. MayCall(s[i - 1], s[i], signals)
      BY <3>5 DEF WellFormed
    <3>7. s[i - 1].fn = "generate"
      BY <3>1, <3>6 DEF MayCall
    <3> QED BY <1>1, <3>1, <3>2, <3>3, <3>4, <3>5, <3>7 DEF Positions
  <2>6. f \in Injection(W, G)
    <3>1. f \in [W -> G]
      BY <2>5
    <3>2. \A i, j \in W : f[i] = f[j] => i = j
      BY <2>5
    <3> QED BY <3>1, <3>2 DEF Injection, IsInjective
  <2>7. G \in SUBSET Nat /\ G # {}
    <3>1. CASE Last(s).fn = "generate"
      BY <1>1, <1>3, <3>1 DEF Positions
    <3>2. CASE IsVariableCall(Last(s))
      <4>1. Len(s) \in 1..Len(s) /\ s[Len(s)].fn \in {"get_path", "for_loop"}
        BY <1>1, <1>3, <3>2 DEF IsVariableCall
      <4>2. Len(s) # 1
        <5>1. s[1].fn \notin {"get_path", "for_loop"}
          BY <1>3 DEF WellFormed
        <5> QED BY <4>1, <5>1
      <4>3. Len(s) - 1 \in 1..Len(s) /\ Len(s) - 1 < Len(s) /\ (Len(s) - 1) + 1 = Len(s)
        BY <1>1, <4>1, <4>2
      <4>4. MayCall(s[Len(s) - 1], s[Len(s)], signals)
        BY <4>3 DEF WellFormed
      <4>5. s[Len(s) - 1].fn = "generate"
        BY <4>1, <4>4 DEF MayCall
      <4> QED BY <1>1, <4>3, <4>5 DEF Positions
    <3> QED BY <1>1, <1>3, <3>1, <3>2 DEF Positions
  <2>8. ~ (f \in Surjection(W, G))
    <3> SUFFICES ASSUME f \in Surjection(W, G) PROVE FALSE
      OBVIOUS
    <3>1. Min(G) \in G /\ \A x \in G : Min(G) <= x
      BY <2>7, MinIsLeast
    <3>2. PICK i \in W : f[i] = Min(G)
      BY <3>1 DEF Surjection
    <3>3. i \in 1..Len(s) /\ i - 1 \in G
      BY <2>5
    <3>4. i + 1 = Min(G)
      BY <3>2
    <3>5. i + 1 <= i - 1
      BY <3>1, <3>3, <3>4
    <3>6. i \in Int
      BY <3>3
    <3> HIDE DEF G, W, f
    <3> QED BY <3>5, <3>6
  <2>9. Cardinality(W) <= Cardinality(G) /\ Cardinality(W) # Cardinality(G)
    BY <2>1, <2>6, <2>8, FS_Injection
  <2>10. Open(s) \in Nat
    BY <1>1, TotalsType
  <2> HIDE DEF G, P, F, V, W, f
  <2> QED BY <2>1, <2>4, <2>9, <2>10 DEF OneIf
<1> QED BY <1>2, <1>3

\* Each variable is one of a text.
LEMMA VariablesHaveTexts ==
  ASSUME NEW s, NEW signals, WellFormed(s, signals)
  PROVE  Open(s) <= Texts(s)
<1> DEFINE G == Positions(s, "generate")
           P == Positions(s, "get_path")
           F == Positions(s, "for_loop")
           V == P \cup F
           f == [i \in V |-> i - 1]
<1>1. s \in Seq(Range(s)) /\ Len(s) \in Nat /\ DOMAIN s = 1..Len(s)
  BY SequenceFacts DEF WellFormed
<1>2. /\ IsFiniteSet(G) /\ IsFiniteSet(P) /\ IsFiniteSet(F)
      /\ Cardinality(G) = Texts(s) /\ Texts(s) \in Nat
      /\ Cardinality(P) + Cardinality(F) = Open(s)
      /\ Cardinality(P) \in Nat /\ Cardinality(F) \in Nat
  BY <1>1, CountType DEF Count, Texts, Open
<1>3. Cardinality(V) = Open(s) /\ IsFiniteSet(V)
  <2>1. P \cap F = {}
    BY DEF Positions
  <2>2. Cardinality(P \cap F) = 0
    BY <2>1, FS_EmptySet
  <2>3. /\ IsFiniteSet(P \cup F)
        /\ Cardinality(P \cup F) = Cardinality(P) + Cardinality(F) - Cardinality(P \cap F)
    BY <1>2, FS_Union
  <2> HIDE DEF P, F
  <2>4. Cardinality(P \cup F) = Cardinality(P) + Cardinality(F)
    BY <1>2, <2>2, <2>3
  <2> QED BY <1>2, <2>3, <2>4
<1>4. ASSUME NEW i \in V PROVE i \in 1..Len(s) /\ i - 1 \in G
  <2>1. i \in 1..Len(s) /\ s[i].fn \in {"get_path", "for_loop"}
    BY <1>1 DEF Positions
  <2>2. i # 1
    <3>1. s # <<>>
      BY <1>1, <2>1, SequenceFacts
    <3> QED BY <2>1, <3>1 DEF WellFormed
  <2>3. i - 1 \in 1..Len(s) /\ i - 1 < Len(s) /\ (i - 1) + 1 = i
    <3>1. \A n \in Nat : \A j \in 1..n :
            j # 1 => j - 1 \in 1..n /\ j - 1 < n /\ (j - 1) + 1 = j
      OBVIOUS
    <3> QED BY <1>1, <2>1, <2>2, <3>1
  <2>4. MayCall(s[i - 1], s[i], signals)
    BY <2>3 DEF WellFormed
  <2>5. s[i - 1].fn = "generate"
    BY <2>1, <2>4 DEF MayCall
  <2> QED BY <1>1, <2>1, <2>3, <2>5 DEF Positions
<1>5. f \in Injection(V, G)
  <2>1. f \in [V -> G]
    BY <1>4
  <2>2. \A i, j \in V : f[i] = f[j] => i = j
    BY <1>4
  <2> QED BY <2>1, <2>2 DEF Injection, IsInjective
<1>6. Cardinality(V) <= Cardinality(G)
  BY <1>2, <1>5, FS_Injection
<1> QED BY <1>2, <1>3, <1>6

\* What the counter has to count: Pending, for a stack and a result.
Owed(s, r) == Open(s) + OneIf(s # <<>> /\ Last(s).fn = "generate" /\ r # "none")

\* A text that failed is being given up.
Unwinding(s, r) ==
  s # <<>> /\ r = "null" /\ (Last(s).fn = "generate" \/ IsVariableCall(Last(s)))

\* The texts that are the innermost one of their event or image path, but for the
\* one that is being given up: what may still be counted once more.
Alive(s, r) ==
  Texts(s) - Open(s) + OneIf(s # <<>> /\ IsVariableCall(Last(s))) - OneIf(Unwinding(s, r))

\* n is the counter, and h the number of handlers that may interrupt.
Counted(s, r, n, h) ==
  /\ n \in Nat
  /\ Images(s) <= 1
  /\ Contexts(s) <= 1 + h
  /\ Owed(s, r) <= n
  /\ n + Alive(s, r) <= MaxRecursion + h
  /\ Texts(s) <= MaxRecursion + h

CountInv == Counted(stack, res, recursion, Interrupts)

\* With a recursion error in it the counter is above what it has to count, or
\* about to be: it does not come back to zero before the error is taken back.
Erring(s, r, n, error) == error => n > 0 /\ (n > Owed(s, r) \/ Unwinding(s, r))

ErrorInv == ~ args.signals => Erring(stack, res, recursion, recursion_error)

\* A call of catcierge_output_generate is made only below the limit, and then there
\* is a level for it; if it is refused nothing is counted for it.
LEMMA CountOfGenerate ==
  ASSUME NEW callers, NEW signals, WellFormed(callers, signals), callers # <<>>,
         Last(callers).fn = "execute_list" \/ Waiting(Last(callers)),
         NEW text, CallGenerate(callers, text),
         NEW h \in Nat, recursion' \in Nat,
         Images(callers) <= 1, Contexts(callers) <= 1 + h, Open(callers) <= recursion',
         recursion' + Texts(callers) - Open(callers) <= MaxRecursion + h,
         Texts(callers) <= MaxRecursion + h
  PROVE  Counted(stack', res', recursion', h) /\ Owed(stack', res') = Open(callers)
<1>1. /\ Texts(callers) \in Nat /\ Open(callers) \in Nat
      /\ Images(callers) \in Nat /\ Contexts(callers) \in Nat
  BY TotalsType DEF WellFormed
<1>2. MaxRecursion \in Nat
  BY OutputAssumption
<1>3. Last(callers).fn # "generate"
  BY DEF Waiting
<1>4. CASE recursion' >= MaxRecursion
  <2>1. stack' = callers /\ res' = "null"
    BY <1>4, CallGenerateFacts
  <2>2. Owed(stack', res') = Open(callers)
    BY <1>1, <1>3, <2>1 DEF Owed, OneIf
  <2>3. Alive(stack', res') = Texts(callers) - Open(callers)
    BY <1>1, <1>3, <2>1 DEF Alive, Unwinding, OneIf
  <2> QED BY <1>1, <1>2, <2>1, <2>2, <2>3 DEF Counted
<1>5. CASE ~ (recursion' >= MaxRecursion)
  <2>1. PICK c : stack' = Append(callers, c) /\ c.fn = "generate"
    BY <1>5, CallGenerateFacts
  <2>2. /\ WellFormed(stack', signals) /\ stack' # <<>>
        /\ Last(stack').fn = "generate" /\ res' = "none"
    BY <1>5, CallGenerateFacts
  <2>3. /\ Texts(stack') = Texts(callers) + 1 /\ Open(stack') = Open(callers)
        /\ Images(stack') = Images(callers) /\ Contexts(stack') = Contexts(callers)
    <3>1. callers \in Seq(Range(callers))
      BY DEF WellFormed
    <3>2. /\ Texts(stack') = Texts(callers) + OneIf(c.fn = "generate")
          /\ Open(stack') = Open(callers) + OneIf(IsVariableCall(c))
          /\ Images(stack') = Images(callers) + OneIf(c.fn = "image_path")
          /\ Contexts(stack') = Contexts(callers) + OneIf(IsContext(c))
      BY <2>1, <3>1, AppendTotals
    <3>3. ~ IsVariableCall(c) /\ ~ IsContext(c) /\ c.fn # "image_path"
      BY <2>1 DEF IsVariableCall, IsContext
    <3> QED BY <1>1, <2>1, <3>2, <3>3 DEF OneIf
  <2>4. Texts(stack') <= Open(stack') + Contexts(stack')
    BY <2>2, TextsAndVariables
  <2>5. Owed(stack', res') = Open(callers)
    BY <1>1, <2>2, <2>3 DEF Owed, OneIf
  <2>6. Alive(stack', res') = Texts(callers) + 1 - Open(callers)
    BY <1>1, <2>2, <2>3 DEF Alive, Unwinding, OneIf, IsVariableCall
  <2> QED BY <1>1, <1>2, <1>5, <2>3, <2>4, <2>5, <2>6 DEF Counted
<1> QED BY <1>4, <1>5

\* Without handlers nothing is on top of a text or a variable but these.
LEMMA NoTextsBelow ==
  ASSUME NEW s, NEW signals, WellFormed(s, signals), ~ signals, s # <<>>,
         ~ IsVariableCall(Last(s)), Last(s).fn # "generate"
  PROVE  Open(s) = 0
<1>1. /\ s \in Seq(Range(s)) /\ Len(s) \in Nat /\ Len(s) > 0 /\ DOMAIN s = 1..Len(s)
      /\ Last(s) = s[Len(s)]
  BY SequenceFacts DEF WellFormed
<1> DEFINE In(i) == s[i].fn \in {"generate", "get_path", "for_loop"}
           T == {Len(s) - i : i \in {j \in 1..Len(s) : In(j)}}
<1>2. T = {}
  <2> SUFFICES ASSUME T # {} PROVE FALSE
    OBVIOUS
  <2>1. T \in SUBSET Nat
    BY <1>1
  <2>2. Min(T) \in T /\ \A x \in T : Min(T) <= x
    BY <2>1, MinIsLeast
  <2>3. PICK i \in 1..Len(s) : In(i) /\ Min(T) = Len(s) - i
    BY <2>2
  <2>4. i # Len(s)
    BY <1>1, <2>3 DEF IsVariableCall
  <2>5. i < Len(s) /\ i + 1 \in 1..Len(s)
    <3>1. \A n \in Nat : \A j \in 1..n : j # n => j < n /\ j + 1 \in 1..n
      OBVIOUS
    <3> QED BY <1>1, <2>4, <3>1
  <2>6. MayCall(s[i], s[i + 1], signals)
    BY <2>5 DEF WellFormed
  <2>7. In(i + 1)
    BY <2>3, <2>6 DEF MayCall
  <2>8. Len(s) - (i + 1) \in T
    BY <2>5, <2>7
  <2>9. Len(s) - i <= Len(s) - (i + 1)
    BY <2>2, <2>3, <2>8
  <2>10. i \in Int
    BY <2>3
  <2> HIDE DEF T
  <2> QED BY <1>1, <2>9, <2>10
<1>3. Positions(s, "get_path") = {} /\ Positions(s, "for_loop") = {}
  BY <1>1, <1>2 DEF Positions
<1> QED BY <1>3, FS_EmptySet DEF Open, Count

LEMMA ErrorOfGenerate ==
  ASSUME NEW callers, NEW signals, WellFormed(callers, signals), ~ signals, callers # <<>>,
         Last(callers).fn = "execute_list" \/ Waiting(Last(callers)),
         NEW text, CallGenerate(callers, text), recursion' \in Nat,
         Owed(stack', res') = Open(callers),
         recursion_error => recursion' > Open(callers)
  PROVE  Erring(stack', res', recursion', recursion_error')
<1>1. Open(callers) \in Nat /\ MaxRecursion \in Nat /\ MaxRecursion > 0
  BY TotalsType, OutputAssumption DEF WellFormed
<1>2. CASE recursion' >= MaxRecursion
  <2>1. stack' = callers /\ res' = "null" /\ recursion' > 0
    <3>1. stack' = callers /\ res' = "null"
      BY <1>2, CallGenerateFacts
    <3>2. recursion' > 0
      BY <1>1, <1>2
    <3> QED BY <3>1, <3>2
  <2>2. CASE IsVariableCall(Last(callers))
    BY <2>1, <2>2 DEF Erring, Unwinding
  <2>3. CASE ~ IsVariableCall(Last(callers))
    <3>1. Open(callers) = 0
      BY <2>3, NoTextsBelow DEF Waiting
    <3> QED BY <2>1, <3>1 DEF Erring
  <2> QED BY <2>2, <2>3
<1>3. CASE ~ (recursion' >= MaxRecursion)
  <2>1. recursion_error' = recursion_error
    BY <1>3, CallGenerateFacts
  <2> QED BY <1>1, <2>1 DEF Erring
<1> QED BY <1>2, <1>3

\* A step adds nothing to what is counted too many, unless it fails.
Costless ==
  \/ res' = "null" \/ phase' = "crashed"
  \/ recursion' - Owed(stack', res') <= recursion - Owed(stack, res)

LEMMA CountTypes ==
  ASSUME StackInv
  PROVE  /\ Texts(stack) \in Nat /\ Open(stack) \in Nat /\ Images(stack) \in Nat
         /\ Contexts(stack) \in Nat
         /\ Interrupts \in Nat /\ MaxRecursion \in Nat
BY TotalsType, OutputAssumption DEF StackInv, WellFormed, Interrupts

\* One call less on the stack.
LEMMA ReturnTotals ==
  ASSUME StackInv, stack # <<>>
  PROVE  LET t == Front(stack)
         IN /\ Texts(t) = Texts(stack) - OneIf(Last(stack).fn = "generate")
            /\ Open(t) = Open(stack) - OneIf(IsVariableCall(Last(stack)))
            /\ Images(t) = Images(stack) - OneIf(Last(stack).fn = "image_path")
            /\ Contexts(t) = Contexts(stack) - OneIf(IsContext(Last(stack)))
BY FrontTotals DEF StackInv, WellFormed

LEMMA TurnTotals ==
  ASSUME StackInv, stack # <<>>, NEW c, Turned(c)
  PROVE  LET t == [stack EXCEPT ![Len(stack)] = c]
         IN /\ Texts(t) = Texts(stack) /\ Open(t) = Open(stack)
            /\ Images(t) = Images(stack) /\ Contexts(t) = Contexts(stack)
            /\ t # <<>> /\ Last(t) = c /\ c.fn = Last(stack).fn
            /\ WellFormed(t, args.signals)
BY ReplaceTotals, TurnFacts DEF StackInv, WellFormed, Turned

\* catcierge_output_generate: what each of its steps does to the counter.
LEMMA TextGoesOnCounts ==
  ASSUME StackInv, CountInv, ErrorInv, TextGoesOn
  PROVE  CountInv' /\ Costless /\ ErrorInv'
<1>1. PICK c : Turned(c) /\ stack' = [stack EXCEPT ![Len(stack)] = c]
  BY DEF TextGoesOn, Turns
<1>2. /\ stack # <<>> /\ Last(stack).fn = "generate" /\ res \in {"none", "string"}
      /\ res' = "none" /\ Interrupts' = Interrupts /\ args' = args
      /\ recursion' = IF res = "string" THEN recursion - 1 ELSE recursion
      /\ recursion_error' = recursion_error
  BY DEF TextGoesOn, Interrupts
<1>3. /\ Texts(stack') = Texts(stack) /\ Open(stack') = Open(stack)
      /\ Images(stack') = Images(stack) /\ Contexts(stack') = Contexts(stack)
      /\ stack' # <<>> /\ Last(stack').fn = "generate"
  BY <1>1, <1>2, TurnTotals
<1>4. Counted(stack, res, recursion, Interrupts)
  BY DEF CountInv
<1>5. Owed(stack', res') = Open(stack) /\ Owed(stack, res) = Open(stack) + OneIf(res # "none")
  BY <1>2, <1>3, CountTypes DEF Owed, OneIf
<1>6. Alive(stack', res') = Alive(stack, res)
  BY <1>2, <1>3 DEF Alive, Unwinding, OneIf, IsVariableCall
<1>7. Alive(stack, res) \in Int
  BY CountTypes DEF Alive, Unwinding, OneIf
<1>8. Counted(stack', res', recursion', Interrupts)
  BY <1>2, <1>3, <1>4, <1>5, <1>6, <1>7, CountTypes DEF Counted, OneIf
<1>9. Costless
  BY <1>2, <1>4, <1>5, CountTypes DEF Counted, OneIf, Costless
<1>10. ErrorInv'
  BY <1>2, <1>4, <1>5, CountTypes DEF ErrorInv, Erring, Unwinding, Counted, OneIf
<1> QED BY <1>2, <1>8, <1>9, <1>10 DEF CountInv

LEMMA TextEndsCounts ==
  ASSUME StackInv, CountInv, ErrorInv, TextEnds
  PROVE  CountInv' /\ Costless /\ ErrorInv'
<1>1. /\ stack # <<>> /\ Last(stack).fn = "generate" /\ res \in {"none", "null"}
      /\ stack' = Front(stack) /\ Interrupts' = Interrupts /\ args' = args
  BY DEF TextEnds, Interrupts, StackInv
<1>2. /\ Texts(stack') = Texts(stack) - 1 /\ Open(stack') = Open(stack)
      /\ Images(stack') = Images(stack) /\ Contexts(stack') = Contexts(stack)
  <2>1. ~ IsVariableCall(Last(stack)) /\ ~ IsContext(Last(stack))
    BY <1>1 DEF IsVariableCall, IsContext
  <2> QED BY <1>1, <2>1, ReturnTotals, CountTypes DEF OneIf
<1>3. stack' # <<>> /\ Last(stack').fn # "generate"
  BY <1>1, ReturnFacts DEF MayCall, Waiting
<1>4. Counted(stack, res, recursion, Interrupts)
  BY DEF CountInv
<1>5. Owed(stack', res') = Open(stack) /\ Owed(stack, res) = Open(stack) + OneIf(res # "none")
  BY <1>1, <1>2, <1>3, CountTypes DEF Owed, OneIf
<1>6. /\ Alive(stack, res) = Texts(stack) - Open(stack) - OneIf(res = "null")
      /\ Alive(stack', res') <= Texts(stack) - Open(stack)
           - (IF IsVariableCall(Last(stack')) /\ res' # "null" THEN 0 ELSE 1)
  BY <1>1, <1>2, <1>3, CountTypes DEF Alive, Unwinding, OneIf, IsVariableCall
<1>7. /\ recursion' \in {recursion - 1, recursion, recursion + 1}
      /\ res = "none" => recursion' >= recursion
      /\ res' = "string" \/ res = "null" => recursion' <= recursion
      /\ res' = "null" \/ (res' = "string" /\ res = "none" /\ recursion' = recursion)
  BY <1>4 DEF TextEnds, CountsBack, Counted
<1>8. Alive(stack', res') \in Int
  BY <1>2, CountTypes DEF Alive, Unwinding, OneIf
<1>9. recursion' + Alive(stack', res') <= MaxRecursion + Interrupts
  BY <1>1, <1>4, <1>6, <1>7, <1>8, CountTypes DEF Counted, OneIf
<1>10. Counted(stack', res', recursion', Interrupts)
  BY <1>1, <1>2, <1>4, <1>5, <1>7, <1>9, CountTypes DEF Counted, OneIf
<1>11. Costless
  BY <1>1, <1>4, <1>5, <1>7, CountTypes DEF Counted, OneIf, Costless
<1>12. ErrorInv'
  <2> SUFFICES ASSUME ~ args.signals, recursion_error'
               PROVE  /\ recursion' > 0
                      /\ recursion' > Owed(stack', res') \/ Unwinding(stack', res')
    BY <1>1 DEF ErrorInv, Erring
  <2>1. /\ recursion_error /\ recursion > 0
        /\ recursion > Owed(stack, res) \/ Unwinding(stack, res)
    <3>1. recursion_error
      BY DEF TextEnds, CountsBack
    <3> QED BY <3>1 DEF ErrorInv, Erring
  <2>2. CASE res = "none"
    <3>1. recursion > Open(stack) /\ recursion' >= recursion
      BY <1>1, <1>5, <1>7, <2>1, <2>2, CountTypes DEF Unwinding, OneIf
    <3> QED BY <1>4, <1>5, <1>7, <3>1, CountTypes DEF Counted
  <2>3. CASE res = "null"
    <3>1. recursion' > 0
      <4>1. recursion' = recursion \/ (recursion' = recursion - 1 /\ recursion # 1)
        BY <2>1, <2>3 DEF TextEnds, CountsBack
      <4> QED BY <1>4, <2>1, <4>1 DEF Counted
    <3>2. res' = "null"
      BY <2>3 DEF TextEnds
    <3>3. CASE IsVariableCall(Last(stack'))
      BY <1>3, <3>1, <3>2, <3>3 DEF Unwinding
    <3>4. CASE ~ IsVariableCall(Last(stack'))
      <4>1. WellFormed(stack', args.signals)
        BY <1>1, ReturnFacts
      <4>2. Open(stack') = 0
        BY <1>3, <3>4, <4>1, NoTextsBelow
      <4> QED BY <1>2, <1>5, <3>1, <4>2
    <3> QED BY <3>3, <3>4
  <2> QED BY <1>1, <2>2, <2>3
<1> QED BY <1>1, <1>10, <1>11, <1>12 DEF CountInv

LEMMA VariableStartsCounts ==
  ASSUME StackInv, CountInv, ErrorInv, VariableStarts
  PROVE  CountInv' /\ Costless /\ ErrorInv'
<1>1. /\ stack # <<>> /\ Last(stack).fn = "generate" /\ res = "none"
      /\ recursion' = recursion + 1 /\ Interrupts' = Interrupts /\ args' = args
  BY DEF VariableStarts, Interrupts
<1>2. PICK c, text : /\ Call(c) /\ c.fn \in {"get_path", "for_loop"}
                     /\ CallGenerate(Append(stack, c), text)
  BY DEF VariableStarts, Call
<1> DEFINE callers == Append(stack, c)
<1>3. WellFormed(callers, args.signals) /\ callers # <<>> /\ Waiting(Last(callers))
  BY <1>1, <1>2, StartFacts DEF Waiting
<1>4. /\ Texts(callers) = Texts(stack) /\ Open(callers) = Open(stack) + 1
      /\ Images(callers) = Images(stack) /\ Contexts(callers) = Contexts(stack)
  <2>1. stack \in Seq(Range(stack))
    BY DEF StackInv, WellFormed
  <2>2. /\ Texts(callers) = Texts(stack) + OneIf(c.fn = "generate")
        /\ Open(callers) = Open(stack) + OneIf(IsVariableCall(c))
        /\ Images(callers) = Images(stack) + OneIf(c.fn = "image_path")
        /\ Contexts(callers) = Contexts(stack) + OneIf(IsContext(c))
    BY <2>1, AppendTotals
  <2>3. IsVariableCall(c) /\ ~ IsContext(c) /\ c.fn \notin {"image_path", "generate"}
    BY <1>2 DEF IsVariableCall, IsContext
  <2> QED BY <2>2, <2>3, CountTypes DEF OneIf
<1>5. Counted(stack, res, recursion, Interrupts)
  BY DEF CountInv
<1>6. Owed(stack, res) = Open(stack) /\ Alive(stack, res) = Texts(stack) - Open(stack)
  BY <1>1, CountTypes DEF Owed, Alive, Unwinding, OneIf, IsVariableCall
<1> HIDE DEF callers
<1>7. /\ recursion' \in Nat /\ Open(callers) <= recursion'
      /\ Images(callers) <= 1 /\ Contexts(callers) <= 1 + Interrupts
      /\ recursion' + Texts(callers) - Open(callers) <= MaxRecursion + Interrupts
      /\ Texts(callers) <= MaxRecursion + Interrupts
  BY <1>1, <1>4, <1>5, <1>6, CountTypes DEF Counted
<1>8. CallGenerate(callers, text)
  BY <1>2 DEF callers
<1>9. Counted(stack', res', recursion', Interrupts) /\ Owed(stack', res') = Open(callers)
  BY <1>3, <1>7, <1>8, CountTypes, CountOfGenerate
<1>10. Costless
  BY <1>1, <1>4, <1>5, <1>6, <1>9, CountTypes DEF Costless, Counted
<1>11. ASSUME ~ args.signals PROVE Erring(stack', res', recursion', recursion_error')
  <2>1. recursion_error => recursion' > Open(callers)
    BY <1>1, <1>4, <1>5, <1>6, <1>11, CountTypes DEF ErrorInv, Erring, Unwinding, Counted
  <2> QED BY <1>3, <1>7, <1>8, <1>9, <1>11, <2>1, ErrorOfGenerate
<1> QED BY <1>1, <1>9, <1>10, <1>11 DEF CountInv, ErrorInv

LEMMA VariableEndsCounts ==
  ASSUME StackInv, CountInv, ErrorInv, VariableEnds
  PROVE  CountInv' /\ Costless /\ ErrorInv'
<1>1. /\ stack # <<>> /\ IsVariableCall(Last(stack)) /\ res # "none" /\ res' = res
      /\ stack' = Front(stack) /\ recursion' = recursion /\ Interrupts' = Interrupts
      /\ args' = args /\ recursion_error' = recursion_error
  BY DEF VariableEnds, IsVariableCall, Interrupts
<1>2. /\ Texts(stack') = Texts(stack) /\ Open(stack') = Open(stack) - 1
      /\ Images(stack') = Images(stack) /\ Contexts(stack') = Contexts(stack)
  <2>1. Last(stack).fn \notin {"generate", "image_path"} /\ ~ IsContext(Last(stack))
    BY <1>1 DEF IsVariableCall, IsContext
  <2> QED BY <1>1, <2>1, ReturnTotals, CountTypes DEF OneIf
<1>3. stack' # <<>> /\ Last(stack').fn = "generate"
  BY <1>1, ReturnFacts DEF MayCall, IsVariableCall
<1>4. Counted(stack, res, recursion, Interrupts)
  BY DEF CountInv
<1>5. Owed(stack', res') = Open(stack) /\ Owed(stack, res) = Open(stack)
  BY <1>1, <1>2, <1>3, CountTypes DEF Owed, OneIf, IsVariableCall
<1>6. /\ Alive(stack', res') = Texts(stack) - Open(stack) + 1 - OneIf(res = "null")
      /\ Alive(stack, res) = Texts(stack) - Open(stack) + 1 - OneIf(res = "null")
  BY <1>1, <1>2, <1>3, CountTypes DEF Alive, Unwinding, OneIf, IsVariableCall
<1>7. Counted(stack', res', recursion', Interrupts)
  BY <1>1, <1>2, <1>4, <1>5, <1>6, CountTypes DEF Counted
<1>8. Costless
  BY <1>1, <1>4, <1>5, CountTypes DEF Counted, Costless
<1>9. ErrorInv'
  BY <1>1, <1>3, <1>5 DEF ErrorInv, Erring, Unwinding
<1> QED BY <1>1, <1>7, <1>8, <1>9 DEF CountInv

\* The same call asks for another text.
LEMMA NextTextCounts ==
  ASSUME StackInv, CountInv, ErrorInv, stack # <<>>, res # "null",
         NEW callers, WellFormed(callers, args.signals), callers # <<>>,
         Last(callers).fn = "execute_list" \/ Waiting(Last(callers)),
         Texts(callers) = Texts(stack), Open(callers) = Open(stack),
         Images(callers) = Images(stack), Contexts(callers) = Contexts(stack),
         Last(callers).fn = Last(stack).fn,
         NEW text, CallGenerate(callers, text), recursion' = recursion, args' = args
  PROVE  CountInv' /\ Costless /\ ErrorInv'
<1>1. Counted(stack, res, recursion, Interrupts) /\ Interrupts' = Interrupts
  BY DEF CountInv, Interrupts
<1>2. Last(stack).fn # "generate"
  BY DEF Waiting
<1>3. /\ Owed(stack, res) = Open(stack)
      /\ Alive(stack, res) >= Texts(stack) - Open(stack) /\ Alive(stack, res) \in Int
  BY <1>2, CountTypes DEF Owed, Alive, Unwinding, OneIf
<1>4. /\ recursion' \in Nat /\ Open(callers) <= recursion'
      /\ Images(callers) <= 1 /\ Contexts(callers) <= 1 + Interrupts
      /\ recursion' + Texts(callers) - Open(callers) <= MaxRecursion + Interrupts
      /\ Texts(callers) <= MaxRecursion + Interrupts
  BY <1>1, <1>3, CountTypes DEF Counted
<1>5. Counted(stack', res', recursion', Interrupts) /\ Owed(stack', res') = Open(callers)
  BY <1>4, CountTypes, CountOfGenerate
<1>6. Costless
  BY <1>1, <1>3, <1>5, CountTypes DEF Costless, Counted
<1>7. ASSUME ~ args.signals PROVE Erring(stack', res', recursion', recursion_error')
  <2>1. recursion_error => recursion' > Open(callers)
    BY <1>3, <1>7, CountTypes DEF ErrorInv, Erring, Unwinding
  <2> QED BY <1>4, <1>5, <1>7, <2>1, ErrorOfGenerate
<1> QED BY <1>1, <1>5, <1>6, <1>7 DEF CountInv, ErrorInv

\* The calls of an event begin, go on or end outside of a text.
LEMMA OtherStepCounts ==
  ASSUME StackInv, StackInv', CountInv, ErrorInv, res' = "none",
         stack # <<>> => ~ IsVariableCall(Last(stack)),
         stack # <<>> /\ Last(stack).fn = "generate" => res = "none",
         Texts(stack') = Texts(stack), Open(stack') = Open(stack),
         Images(stack') <= 1, Contexts(stack') <= 1 + Interrupts,
         recursion' = recursion, recursion_error' = recursion_error, args' = args
  PROVE  CountInv' /\ Costless /\ ErrorInv'
<1>1. Counted(stack, res, recursion, Interrupts) /\ Interrupts' = Interrupts
  BY DEF CountInv, Interrupts
<1>2. stack' # <<>> => ~ IsVariableCall(Last(stack'))
  BY DEF StackInv, Waiting, IsVariableCall
<1>3. /\ Owed(stack, res) = Open(stack) /\ Owed(stack', res') = Open(stack)
      /\ Alive(stack, res) >= Texts(stack) - Open(stack) /\ Alive(stack, res) \in Int
      /\ Alive(stack', res') = Texts(stack) - Open(stack)
  BY <1>2, CountTypes DEF Owed, Alive, Unwinding, OneIf
<1>4. Counted(stack', res', recursion', Interrupts)
  BY <1>1, <1>3, CountTypes DEF Counted
<1>5. Costless
  BY <1>1, <1>3, CountTypes DEF Counted, Costless
<1>6. ErrorInv'
  BY <1>3 DEF ErrorInv, Erring, Unwinding
<1> QED BY <1>1, <1>4, <1>5, <1>6 DEF CountInv

LEMMA EventTotals ==
  ASSUME StackInv, NEW x, NEW y, NEW event, PushedByEvent(x, y, event)
  PROVE  LET t == Append(Append(stack, x), y)
         IN /\ Texts(t) = Texts(stack) /\ Open(t) = Open(stack)
            /\ Images(t) = Images(stack) /\ Contexts(t) = Contexts(stack) + 1
<1> DEFINE s == Append(stack, x)
<1>1. x.fn = "execute_list" /\ y.fn = "generate_templates"
  BY DEF PushedByEvent
<1>2. stack \in Seq(Range(stack)) /\ s \in Seq(Range(s))
  BY DEF PushedByEvent, StackInv, WellFormed
<1>3. /\ Texts(s) = Texts(stack) + OneIf(x.fn = "generate")
      /\ Open(s) = Open(stack) + OneIf(IsVariableCall(x))
      /\ Images(s) = Images(stack) + OneIf(x.fn = "image_path")
      /\ Contexts(s) = Contexts(stack) + OneIf(IsContext(x))
  BY <1>2, AppendTotals
<1>4. ~ IsVariableCall(x) /\ IsContext(x) /\ ~ IsVariableCall(y) /\ ~ IsContext(y)
  BY <1>1 DEF IsVariableCall, IsContext
<1>5. /\ Texts(s) = Texts(stack) /\ Open(s) = Open(stack)
      /\ Images(s) = Images(stack) /\ Contexts(s) = Contexts(stack) + 1
  BY <1>1, <1>3, <1>4, CountTypes DEF OneIf
<1> HIDE DEF s
<1>6. /\ Texts(Append(s, y)) = Texts(s) + OneIf(y.fn = "generate")
      /\ Open(Append(s, y)) = Open(s) + OneIf(IsVariableCall(y))
      /\ Images(Append(s, y)) = Images(s) + OneIf(y.fn = "image_path")
      /\ Contexts(Append(s, y)) = Contexts(s) + OneIf(IsContext(y))
  BY <1>2, AppendTotals
<1>7. /\ Texts(Append(s, y)) = Texts(stack) /\ Open(Append(s, y)) = Open(stack)
      /\ Images(Append(s, y)) = Images(stack)
      /\ Contexts(Append(s, y)) = Contexts(stack) + 1
  BY <1>1, <1>4, <1>5, <1>6, CountTypes DEF OneIf
<1> QED BY <1>7 DEF s

LEMMA EmptyTotals ==
  Texts(<<>>) = 0 /\ Open(<<>>) = 0 /\ Images(<<>>) = 0 /\ Contexts(<<>>) = 0
BY EmptyStack DEF Texts, Open, Images, Contexts

LEMMA CountStep ==
  ASSUME StackInv, CountInv, ErrorInv, [Next]_vars
  PROVE  CountInv' /\ Costless /\ ErrorInv'
<1>0. StackInv' /\ Counted(stack, res, recursion, Interrupts)
  BY StackInvStep DEF CountInv
<1>1. CASE LoadTemplate \/ StartLoop \/ OutputDestroy
  <2>1. /\ UNCHANGED <<args, recursion, recursion_error, stack, res>>
        /\ stack = <<>> /\ res = "none"
    BY <1>1 DEF LoadTemplate, StartLoop, OutputDestroy, StackInv, loadVars, contextVars
  <2> QED BY <1>0, <2>1, OtherStepCounts DEF Counted
<1>2. CASE MatcherIsGone
  <2>1. /\ stack # <<>> /\ Last(stack).fn = "generate" /\ res = "none"
        /\ stack' = <<>> /\ phase' = "crashed"
        /\ UNCHANGED <<args, res, recursion, recursion_error, Interrupts>>
    BY <1>2 DEF MatcherIsGone, AtToken, Running, Top, loadVars, contextVars, Interrupts
  <2>2. Owed(stack', res') = 0 /\ Alive(stack', res') = 0
    BY <2>1, EmptyTotals DEF Owed, Alive, Unwinding, OneIf
  <2>3. Texts(stack) >= Open(stack) + 1
    BY <2>1, TextsAndVariables, CountTypes DEF StackInv, OneIf, IsVariableCall
  <2>4. Alive(stack, res) = Texts(stack) - Open(stack)
    BY <2>1, CountTypes DEF Alive, Unwinding, OneIf, IsVariableCall
  <2>5. Counted(stack', res', recursion', Interrupts)
    BY <1>0, <2>1, <2>2, <2>3, <2>4, EmptyTotals, CountTypes DEF Counted
  <2>6. ErrorInv'
    BY <2>1, <2>2 DEF ErrorInv, Erring
  <2> QED BY <2>1, <2>5, <2>6 DEF CountInv, Costless
<1>3. CASE TextGoesOn \/ TextEnds \/ VariableStarts \/ VariableEnds
  BY <1>3, TextGoesOnCounts, TextEndsCounts, VariableStartsCounts, VariableEndsCounts
<1>4. CASE ForLoopContinues
  <2>1. PICK c, text : Turned(c) /\ CallGenerate([stack EXCEPT ![Len(stack)] = c], text)
    BY <1>4, LoopGoesOn
  <2>2. stack # <<>> /\ Last(stack).fn = "for_loop" /\ res = "string"
        /\ UNCHANGED <<args, recursion>>
    BY <1>4, LoopGoesOn
  <2> DEFINE callers == [stack EXCEPT ![Len(stack)] = c]
  <2>3. /\ Texts(callers) = Texts(stack) /\ Open(callers) = Open(stack)
        /\ Images(callers) = Images(stack) /\ Contexts(callers) = Contexts(stack)
        /\ callers # <<>> /\ Last(callers) = c /\ c.fn = Last(stack).fn
        /\ WellFormed(callers, args.signals)
    BY <2>1, <2>2, TurnTotals
  <2> HIDE DEF callers
  <2>4. Waiting(Last(callers))
    BY <2>2, <2>3 DEF Waiting
  <2> QED BY <2>1, <2>2, <2>3, <2>4, NextTextCounts DEF callers
<1>5. CASE NextTemplate \/ TemplateContinues
  <2>1. PICK i, stage, c, text :
          /\ TemplatesAt(c, i, stage, Last(stack).failed) /\ stage # "next"
          /\ CallGenerate([stack EXCEPT ![Len(stack)] = c], text)
    <3>1. CASE NextTemplate
      <4>1. template_idx' \in Nat
        BY <3>1, TemplateStarts, RemainingIsNat
      <4> QED BY <3>1, <4>1, TemplateStarts
    <3>2. CASE TemplateContinues
      BY <3>2, TemplateGoesOn
    <3> QED BY <1>5, <3>1, <3>2
  <2>2. stack # <<>> /\ Last(stack).fn = "generate_templates" /\ res # "null"
        /\ UNCHANGED <<args, recursion>>
    BY <1>5, TemplateStarts, TemplateGoesOn
  <2> DEFINE callers == [stack EXCEPT ![Len(stack)] = c]
  <2>3. /\ Texts(callers) = Texts(stack) /\ Open(callers) = Open(stack)
        /\ Images(callers) = Images(stack) /\ Contexts(callers) = Contexts(stack)
        /\ callers # <<>> /\ Last(callers) = c /\ c.fn = Last(stack).fn
        /\ WellFormed(callers, args.signals)
    BY <2>1, <2>2, TurnTotals DEF TemplatesAt
  <2> HIDE DEF callers
  <2>4. Waiting(Last(callers))
    BY <2>1, <2>2, <2>3 DEF Waiting, TemplatesAt
  <2> QED BY <2>1, <2>2, <2>3, <2>4, NextTextCounts DEF callers
<1>6. CASE TemplateReturns \/ CommandReturns
  <2>1. PICK c : Turned(c) /\ stack' = [stack EXCEPT ![Len(stack)] = c]
    BY <1>6, TemplateEnds, CommandEnds DEF Turns
  <2>2. /\ stack # <<>> /\ Last(stack).fn # "generate" /\ ~ IsVariableCall(Last(stack))
        /\ res' = "none" /\ UNCHANGED <<args, recursion, recursion_error>>
    BY <1>6, TemplateEnds, CommandEnds DEF IsVariableCall
  <2>3. /\ Texts(stack') = Texts(stack) /\ Open(stack') = Open(stack)
        /\ Images(stack') = Images(stack) /\ Contexts(stack') = Contexts(stack)
    BY <2>1, <2>2, TurnTotals
  <2> QED BY <1>0, <2>2, <2>3, OtherStepCounts DEF Counted
<1>7. CASE GenerateTemplatesEnds
  <2>1. /\ stack # <<>> /\ Last(stack).fn = "generate_templates" /\ res = "none"
        /\ UNCHANGED <<args, recursion, recursion_error, res>>
        /\ stack' \in {Front(stack), Front(Front(stack))}
    BY <1>7 DEF GenerateTemplatesEnds, Running, Top, TemplatesEnd, loadVars, contextVars
  <2> DEFINE s == Front(stack)
  <2>2. s # <<>> /\ Last(s).fn = "execute_list" /\ s \in Seq(Range(s))
    BY <2>1, ReturnFacts DEF MayCall, WellFormed
  <2>3. /\ Texts(s) = Texts(stack) /\ Open(s) = Open(stack)
        /\ Images(s) = Images(stack) /\ Contexts(s) = Contexts(stack)
    <3>1. ~ IsVariableCall(Last(stack)) /\ ~ IsContext(Last(stack))
      BY <2>1 DEF IsVariableCall, IsContext
    <3> QED BY <2>1, <3>1, ReturnTotals, CountTypes DEF OneIf
  <2> HIDE DEF s
  <2>4. /\ Texts(Front(s)) = Texts(stack) /\ Open(Front(s)) = Open(stack)
        /\ Images(Front(s)) = Images(stack) /\ Contexts(Front(s)) = Contexts(stack) - 1
    <3>1. /\ Texts(Front(s)) = Texts(s) - OneIf(Last(s).fn = "generate")
          /\ Open(Front(s)) = Open(s) - OneIf(IsVariableCall(Last(s)))
          /\ Images(Front(s)) = Images(s) - OneIf(Last(s).fn = "image_path")
          /\ Contexts(Front(s)) = Contexts(s) - OneIf(IsContext(Last(s)))
      BY <2>2, FrontTotals
    <3>2. ~ IsVariableCall(Last(s)) /\ IsContext(Last(s))
      BY <2>2 DEF IsVariableCall, IsContext
    <3> QED BY <2>2, <2>3, <3>1, <3>2, CountTypes DEF OneIf
  <2>5. /\ Texts(stack') = Texts(stack) /\ Open(stack') = Open(stack)
        /\ Images(stack') <= 1 /\ Contexts(stack') <= 1 + Interrupts
    BY <1>0, <2>1, <2>3, <2>4, CountTypes DEF Counted, s
  <2> QED BY <1>0, <2>1, <2>5, OtherStepCounts DEF IsVariableCall
<1>8. CASE ExecuteCommand
  <2>1. /\ stack # <<>> /\ Last(stack).fn = "execute_list" /\ res = "none"
        /\ \E text : CallGenerate(stack, text)
        /\ UNCHANGED <<args, recursion>>
    BY <1>8 DEF ExecuteCommand, Running, Top, loadVars
  <2> QED BY <2>1, NextTextCounts DEF StackInv
<1>9. CASE ExecuteListEnds \/ ImagePathReturns
  <2>1. /\ stack # <<>> /\ IsContext(Last(stack)) /\ res' = "none"
        /\ UNCHANGED <<args, recursion, recursion_error>> /\ stack' = Front(stack)
    BY <1>9 DEF ExecuteListEnds, ImagePathReturns, Returned, Running, Top, Return, loadVars,
                contextVars, IsContext
  <2>2. Last(stack).fn # "generate" /\ ~ IsVariableCall(Last(stack))
    BY <2>1 DEF IsContext, IsVariableCall
  <2>3. /\ Texts(stack') = Texts(stack) /\ Open(stack') = Open(stack)
        /\ Images(stack') <= 1 /\ Contexts(stack') <= 1 + Interrupts
    BY <1>0, <2>1, <2>2, ReturnTotals, CountTypes DEF OneIf, Counted
  <2> QED BY <1>0, <2>1, <2>2, <2>3, OtherStepCounts
<1>10. CASE \E event : TriggerEvent(event) \/ SignalEvent(event)
  <2>1. PICK event : TriggerEvent(event) \/ SignalEvent(event)
    BY <1>10
  <2>2. /\ \/ stack = <<>> /\ stack' = EventCalls(event)
           \/ args.signals /\ res = "none" /\ stack' = stack \o EventCalls(event)
        /\ res = "none" /\ res' = "none" /\ UNCHANGED <<args, recursion, recursion_error>>
        /\ stack = <<>> \/ (args.signals /\ Calls("execute_list") < MaxEvents)
    BY <2>1 DEF TriggerEvent, SignalEvent, StackInv, loadVars, contextVars
  <2>3. /\ Texts(stack') = Texts(stack) /\ Open(stack') = Open(stack)
        /\ Images(stack') = Images(stack) /\ Contexts(stack') = Contexts(stack) + 1
    <3>1. PICK x, y : stack' = Append(Append(stack, x), y) /\ PushedByEvent(x, y, event)
      BY <2>2, EventFacts
    <3> QED BY <3>1, EventTotals
  <2>4. Contexts(stack') <= 1 + Interrupts
    <3>1. CASE stack = <<>>
      BY <2>3, <3>1, EmptyTotals, CountTypes
    <3>2. CASE args.signals /\ Calls("execute_list") < MaxEvents
      <4>1. Count(stack, "execute_list") \in Nat
        BY CountType DEF StackInv, WellFormed
      <4>2. Count(stack, "execute_list") < MaxEvents /\ Interrupts = MaxEvents
        BY <3>2 DEF Count, Positions, Calls, Interrupts
      <4>3. Contexts(stack) = Count(stack, "execute_list") + Images(stack)
        BY DEF Contexts
      <4> QED BY <1>0, <2>3, <4>1, <4>2, <4>3, CountTypes DEF Counted
    <3> QED BY <2>2, <3>1, <3>2
  <2>5. stack # <<>> => ~ IsVariableCall(Last(stack))
    BY <2>2 DEF StackInv, Waiting, IsVariableCall
  <2> QED BY <1>0, <2>2, <2>3, <2>4, <2>5, OtherStepCounts DEF Counted
<1>11. CASE \E name : GenerateImagePath(name)
  <2>1. PICK text : CallGenerate(<<[fn |-> "image_path"]>>, text)
    BY <1>11 DEF GenerateImagePath
  <2>2. stack = <<>> /\ UNCHANGED <<args, recursion, Interrupts>>
    BY <1>11 DEF GenerateImagePath, loadVars, Interrupts
  <2> DEFINE c == [fn |-> "image_path"]
  <2>3. Call(c) /\ c.fn = "image_path"
    BY DEF Call
  <2>4. CallGenerate(Append(stack, c), text)
    <3>1. <<c>> = Append(stack, c)
      BY <2>2
    <3> QED BY <2>1, <3>1 DEF c
  <2> HIDE DEF c
  <2> DEFINE callers == Append(stack, c)
  <2>5. WellFormed(callers, args.signals) /\ callers # <<>> /\ Waiting(Last(callers))
    BY <2>2, <2>3, AppendIsWellFormed DEF StackInv, Waiting
  <2>6. /\ Texts(callers) = 0 /\ Open(callers) = 0
        /\ Images(callers) = 1 /\ Contexts(callers) = 1
    <3>1. stack \in Seq(Range(stack))
      BY DEF StackInv, WellFormed
    <3>2. /\ Texts(callers) = Texts(stack) + OneIf(c.fn = "generate")
          /\ Open(callers) = Open(stack) + OneIf(IsVariableCall(c))
          /\ Images(callers) = Images(stack) + OneIf(c.fn = "image_path")
          /\ Contexts(callers) = Contexts(stack) + OneIf(IsContext(c))
      BY <3>1, AppendTotals
    <3>3. ~ IsVariableCall(c) /\ IsContext(c)
      BY <2>3 DEF IsVariableCall, IsContext
    <3> QED BY <2>2, <2>3, <3>2, <3>3, EmptyTotals DEF OneIf
  <2>7. Owed(stack, res) = 0 /\ Alive(stack, res) = 0
    BY <2>2, EmptyTotals DEF Owed, Alive, Unwinding, OneIf
  <2> HIDE DEF callers
  <2>8. /\ recursion' \in Nat /\ Images(callers) <= 1 /\ Contexts(callers) <= 1 + Interrupts
        /\ Open(callers) <= recursion'
        /\ recursion' + Texts(callers) - Open(callers) <= MaxRecursion + Interrupts
        /\ Texts(callers) <= MaxRecursion + Interrupts
    BY <1>0, <2>2, <2>6, <2>7, CountTypes DEF Counted
  <2>9. CallGenerate(callers, text)
    BY <2>4 DEF callers
  <2>10. Counted(stack', res', recursion', Interrupts) /\ Owed(stack', res') = Open(callers)
    BY <2>5, <2>6, <2>8, <2>9, CountTypes, CountOfGenerate
  <2>11. Costless
    BY <1>0, <2>2, <2>6, <2>7, <2>10 DEF Costless, Counted
  <2>12. ASSUME ~ args.signals PROVE Erring(stack', res', recursion', recursion_error')
    <3>1. recursion_error => recursion' > Open(callers)
      BY <1>0, <2>2, <2>6, <2>7, <2>12 DEF ErrorInv, Erring, Unwinding, Counted
    <3> QED BY <2>5, <2>8, <2>9, <2>10, <2>12, <3>1, ErrorOfGenerate
  <2> QED BY <2>2, <2>10, <2>11, <2>12 DEF CountInv, ErrorInv
<1>12. CASE UnlockAtExit
  <2>1. /\ stack = <<>> /\ stack' = EventCalls("do_unlock") /\ res = "none" /\ res' = "none"
        /\ UNCHANGED <<args, recursion, recursion_error>>
    BY <1>12 DEF UnlockAtExit, StackInv, loadVars, contextVars
  <2>2. /\ Texts(stack') = Texts(stack) /\ Open(stack') = Open(stack)
        /\ Images(stack') = Images(stack) /\ Contexts(stack') = Contexts(stack) + 1
    BY <2>1, EventFacts, EventTotals
  <2>3. Contexts(stack') <= 1 + Interrupts
    BY <2>1, <2>2, EmptyTotals, CountTypes
  <2> QED BY <1>0, <2>1, <2>2, <2>3, OtherStepCounts DEF Counted
<1>13. CASE UNCHANGED vars
  <2>1. UNCHANGED <<args, stack, res, recursion, recursion_error, Interrupts>>
    BY <1>13 DEF vars, loadVars, contextVars, Interrupts
  <2>2. Owed(stack, res) \in Int
    BY CountTypes DEF Owed, OneIf
  <2>3. CountInv' /\ ErrorInv'
    BY <1>0, <2>1 DEF CountInv, ErrorInv
  <2> QED BY <1>0, <2>1, <2>2, <2>3 DEF Counted, Costless
<1> QED
  BY Steps, <1>1, <1>2, <1>3, <1>4, <1>5, <1>6, <1>7, <1>8, <1>9, <1>10, <1>11, <1>12, <1>13

---------------------------------------------------------------------------
(* What a step keeps of the calls in progress                              *)

Variables == {"get_path", "for_loop"}
OfEvents == {"execute_list", "generate_templates"}

\* The same call, with the same settings and as far in its loop over the templates.
SameCall(c, d) ==
  /\ d.fn = c.fn
  /\ c.fn = "get_path" => d.relative = c.relative
  /\ c.fn = "for_loop" => d.name = c.name
  /\ c.fn \in OfEvents => d.event = c.event
  /\ c.fn = "generate_templates" => d.i = c.i /\ d.stage = c.stage /\ d.failed = c.failed

Of(s, fns) == {i \in DOMAIN s : s[i].fn \in fns}

Kept(s, t, fns) ==
  /\ Of(t, fns) = Of(s, fns)
  /\ \A i \in Of(s, fns) : SameCall(s[i], t[i])

LEMMA KeptTransitive ==
  ASSUME NEW s, NEW t, NEW u, NEW fns, Kept(s, t, fns), Kept(t, u, fns)
  PROVE  Kept(s, u, fns)
<1>1. Of(u, fns) = Of(s, fns) /\ Of(t, fns) = Of(s, fns)
  BY DEF Kept
<1>2. ASSUME NEW i \in Of(s, fns) PROVE SameCall(s[i], u[i])
  <2>1. SameCall(s[i], t[i]) /\ SameCall(t[i], u[i])
    BY <1>1 DEF Kept
  <2> QED BY <2>1 DEF SameCall, OfEvents
<1> QED BY <1>1, <1>2 DEF Kept

LEMMA KeptReflexive ==
  ASSUME NEW s, NEW fns
  PROVE  Kept(s, s, fns)
BY DEF Kept, SameCall

LEMMA AppendKept ==
  ASSUME NEW s, NEW c, NEW fns, s \in Seq(Range(s)), c.fn \notin fns
  PROVE  Kept(s, Append(s, c), fns)
<1> DEFINE t == Append(s, c)
<1>1. /\ t \in Seq(Range(t)) /\ Len(t) = Len(s) + 1
      /\ \A i \in 1..Len(s) : t[i] = s[i]
      /\ t[Len(s) + 1] = c
  BY AppendFacts
<1>2. Len(s) \in Nat /\ DOMAIN s = 1..Len(s) /\ DOMAIN t = 1..Len(t)
  BY <1>1, SequenceFacts
<1> HIDE DEF t
<1>3. Of(t, fns) = Of(s, fns)
  BY <1>1, <1>2 DEF Of
<1>4. ASSUME NEW i \in Of(s, fns) PROVE SameCall(s[i], t[i])
  BY <1>1, <1>2, <1>4 DEF Of, SameCall
<1> QED BY <1>3, <1>4 DEF Kept, t

LEMMA FrontKept ==
  ASSUME NEW s, NEW fns, s \in Seq(Range(s)), s # <<>>, Last(s).fn \notin fns
  PROVE  Kept(s, Front(s), fns)
<1> DEFINE t == Front(s)
<1>1. /\ t \in Seq(Range(t)) /\ Len(t) = Len(s) - 1
      /\ \A i \in 1..(Len(s) - 1) : t[i] = s[i]
  BY FrontFacts
<1>2. /\ Len(s) \in Nat /\ Len(s) > 0 /\ DOMAIN s = 1..Len(s) /\ DOMAIN t = 1..Len(t)
      /\ Last(s) = s[Len(s)]
  BY <1>1, SequenceFacts
<1> HIDE DEF t
<1>3. \A i \in Of(s, fns) : i \in 1..(Len(s) - 1) /\ t[i] = s[i]
  BY <1>1, <1>2 DEF Of
<1>4. Of(t, fns) = Of(s, fns)
  BY <1>1, <1>2, <1>3 DEF Of
<1>5. \A i \in Of(s, fns) : SameCall(s[i], t[i])
  BY <1>3 DEF SameCall
<1> QED BY <1>4, <1>5 DEF Kept, t

LEMMA TurnKept ==
  ASSUME StackInv, stack # <<>>, NEW c, NEW fns, c.fn = Last(stack).fn,
         c.fn \in fns => SameCall(Last(stack), c)
  PROVE  Kept(stack, [stack EXCEPT ![Len(stack)] = c], fns)
<1> DEFINE t == [stack EXCEPT ![Len(stack)] = c]
<1>1. /\ t \in Seq(Range(t)) /\ Len(t) = Len(stack)
      /\ \A i \in 1..(Len(stack) - 1) : t[i] = stack[i]
      /\ t[Len(stack)] = c
  BY ReplaceFacts DEF StackInv, WellFormed
<1>2. /\ Len(stack) \in Nat /\ Len(stack) > 0
      /\ DOMAIN stack = 1..Len(stack) /\ DOMAIN t = 1..Len(t)
      /\ Last(stack) = stack[Len(stack)]
  BY <1>1, SequenceFacts DEF StackInv, WellFormed
<1> HIDE DEF t
<1>3. \A i \in 1..Len(stack) : t[i] = stack[i] \/ i = Len(stack)
  <2>1. \A n \in Nat : \A i \in 1..n : i \in 1..(n - 1) \/ i = n
    OBVIOUS
  <2> QED BY <1>1, <1>2, <2>1
<1>4. Of(t, fns) = Of(stack, fns)
  BY <1>1, <1>2, <1>3 DEF Of
<1>5. ASSUME NEW i \in Of(stack, fns) PROVE SameCall(stack[i], t[i])
  <2>1. CASE i = Len(stack)
    BY <1>1, <1>2, <1>5, <2>1 DEF Of
  <2>2. CASE i # Len(stack)
    BY <1>2, <1>3, <1>5, <2>2 DEF Of, SameCall
  <2> QED BY <2>1, <2>2
<1> QED BY <1>4, <1>5 DEF Kept, t

\* A call that has turned is the same call, unless it is the loop over the templates.
LEMMA TurnedSame ==
  ASSUME NEW c, Turned(c), c.fn \notin {"get_path", "generate_templates"}
  PROVE  SameCall(Last(stack), c)
BY DEF Turned, SameCall, OfEvents

LEMMA GenerateKept ==
  ASSUME NEW callers, NEW signals, WellFormed(callers, signals), callers # <<>>,
         Last(callers).fn = "execute_list" \/ Waiting(Last(callers)),
         NEW text, CallGenerate(callers, text), NEW fns, "generate" \notin fns
  PROVE  Kept(callers, stack', fns)
<1>1. CASE stack' = callers
  BY <1>1, KeptReflexive
<1>2. CASE \E c : stack' = Append(callers, c) /\ c.fn = "generate"
  BY <1>2, AppendKept DEF WellFormed
<1> QED BY <1>1, <1>2, CallGenerateFacts

\* A step that neither begins nor ends a variable ...
OtherStep ==
  /\ Kept(stack, stack', Variables)
  /\ args' = args /\ no_relative_path' = no_relative_path
  /\ phase # "crashed" \/ phase' = "crashed"
  /\ phase' \in {"load", "run"} => phase \in {"load", "run"} /\ userVars' = userVars

\* ... and one that goes on with no event.
QuietStep ==
  /\ Kept(stack, stack', OfEvents)
  /\ UNCHANGED <<args, templates, generated, template_idx, done>>
  /\ phase' \in {"load", "run"} => phase \in {"load", "run"}
  /\ phase' = "load" => phase = "load"

EventStep ==
  \/ LoadTemplate \/ OutputDestroy \/ UnlockAtExit
  \/ \E event : TriggerEvent(event) \/ SignalEvent(event)
  \/ NextTemplate \/ TemplateContinues \/ TemplateReturns \/ GenerateTemplatesEnds
  \/ CommandReturns \/ ExecuteListEnds

LEMMA FnsFacts ==
  /\ "generate" \notin Variables /\ "generate" \notin OfEvents
  /\ \A c : IsVariableCall(c) <=> c.fn \in Variables
  /\ \A c : c.fn \in Variables => c.fn \notin OfEvents
  /\ \A c : c.fn = "image_path" => c.fn \notin Variables /\ c.fn \notin OfEvents
  /\ \A c : c.fn \in {"execute_list", "generate_templates"} => c.fn \notin Variables
  /\ \A c : c.fn = "generate" => c.fn \notin Variables /\ c.fn \notin OfEvents
BY DEF Variables, OfEvents, IsVariableCall

LEMMA StepsKeep ==
  ASSUME StackInv, [Next]_vars
  PROVE  /\ VariableStarts \/ VariableEnds \/ MatcherIsGone \/ OtherStep
         /\ EventStep \/ MatcherIsGone \/ QuietStep
<1>0. stack \in Seq(Range(stack))
  BY DEF StackInv, WellFormed
<1>1. CASE LoadTemplate \/ StartLoop \/ OutputDestroy \/ UNCHANGED vars
  <2>1. Kept(stack, stack', Variables) /\ Kept(stack, stack', OfEvents)
    <3>1. stack' = stack
      BY <1>1 DEF LoadTemplate, StartLoop, OutputDestroy, vars
    <3> QED BY <3>1, KeptReflexive
  <2>2. OtherStep
    BY <1>1, <2>1 DEF LoadTemplate, StartLoop, OutputDestroy, OtherStep, loadVars,
                      contextVars, vars
  <2>3. EventStep \/ QuietStep
    BY <1>1, <2>1 DEF StartLoop, QuietStep, EventStep, loadVars, contextVars, vars
  <2> QED BY <2>2, <2>3
<1>2. CASE TextGoesOn
  <2>1. PICK c : Turned(c) /\ stack' = [stack EXCEPT ![Len(stack)] = c]
    BY <1>2 DEF TextGoesOn, Turns
  <2>2. stack # <<>> /\ c.fn = Last(stack).fn /\ c.fn = "generate"
    BY <1>2, <2>1 DEF TextGoesOn, Turned
  <2>3. Kept(stack, stack', Variables) /\ Kept(stack, stack', OfEvents)
    BY <2>1, <2>2, TurnKept, FnsFacts
  <2> QED BY <1>2, <2>3 DEF TextGoesOn, OtherStep, QuietStep
<1>3. CASE TextEnds
  <2>1. stack # <<>> /\ Last(stack).fn = "generate" /\ stack' = Front(stack)
    BY <1>3 DEF TextEnds
  <2>2. Kept(stack, stack', Variables) /\ Kept(stack, stack', OfEvents)
    BY <1>0, <2>1, FrontKept, FnsFacts
  <2> QED BY <1>3, <2>2 DEF TextEnds, OtherStep, QuietStep
<1>4. CASE VariableStarts
  <2>1. PICK c, text : /\ Call(c) /\ c.fn \in {"get_path", "for_loop"}
                       /\ CallGenerate(Append(stack, c), text)
    BY <1>4 DEF VariableStarts, Call
  <2> DEFINE callers == Append(stack, c)
  <2>2. WellFormed(callers, args.signals) /\ callers # <<>> /\ Waiting(Last(callers))
    BY <1>4, <2>1, StartFacts DEF VariableStarts, Waiting
  <2>3. Kept(stack, callers, OfEvents)
    BY <1>0, <2>1, AppendKept DEF OfEvents
  <2> HIDE DEF callers
  <2>4. CallGenerate(callers, text)
    BY <2>1 DEF callers
  <2>5. Kept(callers, stack', OfEvents)
    BY <2>2, <2>4, GenerateKept, FnsFacts
  <2>6. Kept(stack, stack', OfEvents)
    BY <2>3, <2>5, KeptTransitive
  <2> QED BY <1>4, <2>6 DEF VariableStarts, QuietStep
<1>5. CASE VariableEnds
  <2>1. stack # <<>> /\ stack' = Front(stack) /\ Last(stack).fn \notin OfEvents
    BY <1>5 DEF VariableEnds, OfEvents
  <2>2. Kept(stack, stack', OfEvents)
    BY <1>0, <2>1, FrontKept
  <2> QED BY <1>5, <2>2 DEF VariableEnds, QuietStep
<1>6. CASE ForLoopContinues
  <2>1. PICK c, text : Turned(c) /\ CallGenerate([stack EXCEPT ![Len(stack)] = c], text)
    BY <1>6, LoopGoesOn
  <2>2. /\ stack # <<>> /\ Last(stack).fn = "for_loop" /\ c.fn = "for_loop"
        /\ UNCHANGED <<args, phase, templates, generated, userVars, no_relative_path,
                       template_idx, done>>
    BY <1>6, <2>1, LoopGoesOn DEF Turned
  <2> DEFINE callers == [stack EXCEPT ![Len(stack)] = c]
  <2>3. WellFormed(callers, args.signals) /\ callers # <<>> /\ Waiting(Last(callers))
    BY <2>1, <2>2, TurnFacts DEF Waiting
  <2>4. SameCall(Last(stack), c)
    BY <2>1, <2>2, TurnedSame
  <2>5. Kept(stack, callers, Variables) /\ Kept(stack, callers, OfEvents)
    BY <2>2, <2>4, TurnKept
  <2> HIDE DEF callers
  <2>6. CallGenerate(callers, text)
    BY <2>1 DEF callers
  <2>7. Kept(callers, stack', Variables) /\ Kept(callers, stack', OfEvents)
    BY <2>3, <2>6, GenerateKept, FnsFacts
  <2>8. Kept(stack, stack', Variables) /\ Kept(stack, stack', OfEvents)
    BY <2>5, <2>7, KeptTransitive
  <2> QED BY <2>2, <2>8 DEF OtherStep, QuietStep
<1>7. CASE NextTemplate \/ TemplateContinues
  <2>1. PICK c, text : /\ Turned(c) /\ c.stage # "next"
                       /\ CallGenerate([stack EXCEPT ![Len(stack)] = c], text)
    <3>1. CASE NextTemplate
      <4>1. template_idx' \in Nat
        BY <3>1, TemplateStarts, RemainingIsNat
      <4>2. PICK c, text : /\ TemplatesAt(c, template_idx', "path", Last(stack).failed)
                           /\ CallGenerate([stack EXCEPT ![Len(stack)] = c], text)
        BY <3>1, <4>1, TemplateStarts
      <4> QED BY <4>2 DEF TemplatesAt
    <3>2. CASE TemplateContinues
      <4>1. PICK stage \in {"filename", "contents"} : \E c, text :
              /\ TemplatesAt(c, Last(stack).i, stage, Last(stack).failed)
              /\ CallGenerate([stack EXCEPT ![Len(stack)] = c], text)
        BY <3>2, TemplateGoesOn
      <4> QED BY <4>1 DEF TemplatesAt
    <3> QED BY <1>7, <3>1, <3>2
  <2>2. /\ stack # <<>> /\ Last(stack).fn = "generate_templates"
        /\ c.fn = "generate_templates"
        /\ UNCHANGED <<args, phase, userVars, no_relative_path>>
    BY <1>7, <2>1, TemplateStarts, TemplateGoesOn DEF Turned
  <2> DEFINE callers == [stack EXCEPT ![Len(stack)] = c]
  <2>3. WellFormed(callers, args.signals) /\ callers # <<>> /\ Waiting(Last(callers))
    BY <2>1, <2>2, TurnFacts DEF Waiting
  <2>4. Kept(stack, callers, Variables)
    BY <2>2, TurnKept, FnsFacts
  <2> HIDE DEF callers
  <2>5. CallGenerate(callers, text)
    BY <2>1 DEF callers
  <2>6. Kept(callers, stack', Variables)
    BY <2>3, <2>5, GenerateKept, FnsFacts
  <2>7. OtherStep
    BY <2>2, <2>4, <2>6, KeptTransitive DEF OtherStep
  <2> QED BY <1>7, <2>7 DEF EventStep
<1>8. CASE TemplateReturns \/ CommandReturns
  <2>1. PICK c : Turned(c) /\ stack' = [stack EXCEPT ![Len(stack)] = c]
    BY <1>8, TemplateEnds, CommandEnds DEF Turns
  <2>2. /\ stack # <<>> /\ Last(stack).fn \in {"execute_list", "generate_templates"}
        /\ c.fn = Last(stack).fn
        /\ UNCHANGED <<args, phase, userVars, no_relative_path>>
    BY <1>8, <2>1, TemplateEnds, CommandEnds DEF Turned
  <2>3. c.fn \notin Variables
    BY <2>2, FnsFacts
  <2>4. Kept(stack, stack', Variables)
    BY <2>1, <2>2, <2>3, TurnKept
  <2> QED BY <1>8, <2>2, <2>4 DEF OtherStep, EventStep
<1>9. CASE GenerateTemplatesEnds
  <2>1. /\ stack # <<>> /\ Last(stack).fn = "generate_templates"
        /\ UNCHANGED <<args, phase, userVars, no_relative_path>>
        /\ stack' \in {Front(stack), Front(Front(stack))}
    BY <1>9 DEF GenerateTemplatesEnds, Running, Top, TemplatesEnd, loadVars, contextVars
  <2> DEFINE s == Front(stack)
  <2>2. s # <<>> /\ Last(s).fn = "execute_list" /\ s \in Seq(Range(s))
    BY <2>1, ReturnFacts DEF MayCall, WellFormed
  <2>3. Kept(stack, s, Variables)
    BY <1>0, <2>1, FrontKept, FnsFacts
  <2> HIDE DEF s
  <2>4. Kept(s, Front(s), Variables)
    BY <2>2, FrontKept, FnsFacts
  <2>5. Kept(stack, stack', Variables)
    BY <2>1, <2>3, <2>4, KeptTransitive DEF s
  <2> QED BY <1>9, <2>1, <2>5 DEF OtherStep, EventStep
<1>10. CASE ExecuteCommand
  <2>1. /\ stack # <<>> /\ Last(stack).fn = "execute_list"
        /\ \E text : CallGenerate(stack, text)
        /\ UNCHANGED <<args, phase, templates, generated, userVars, no_relative_path,
                       template_idx, done>>
    BY <1>10 DEF ExecuteCommand, Running, Top, loadVars
  <2>2. Kept(stack, stack', Variables) /\ Kept(stack, stack', OfEvents)
    BY <2>1, GenerateKept, FnsFacts DEF StackInv
  <2> QED BY <2>1, <2>2 DEF OtherStep, QuietStep
<1>11. CASE ExecuteListEnds
  <2>1. /\ stack # <<>> /\ Last(stack).fn = "execute_list"
        /\ UNCHANGED <<args, phase, userVars, no_relative_path>> /\ stack' = Front(stack)
    BY <1>11 DEF ExecuteListEnds, Running, Top, Return, loadVars, contextVars
  <2>2. Kept(stack, stack', Variables)
    BY <1>0, <2>1, FrontKept, FnsFacts
  <2> QED BY <1>11, <2>1, <2>2 DEF OtherStep, EventStep
<1>12. CASE ImagePathReturns
  <2>1. /\ stack # <<>> /\ Last(stack).fn = "image_path" /\ stack' = Front(stack)
        /\ UNCHANGED <<args, phase, templates, generated, userVars, no_relative_path,
                       template_idx, done>>
    BY <1>12 DEF ImagePathReturns, Returned, Top, Return, loadVars, contextVars
  <2>2. Kept(stack, stack', Variables) /\ Kept(stack, stack', OfEvents)
    BY <1>0, <2>1, FrontKept, FnsFacts
  <2> QED BY <2>1, <2>2 DEF OtherStep, QuietStep
<1>13. CASE UnlockAtExit \/ \E event : TriggerEvent(event) \/ SignalEvent(event)
  <2>1. PICK event : \/ UnlockAtExit /\ event = "do_unlock"
                     \/ TriggerEvent(event) \/ SignalEvent(event)
    BY <1>13
  <2>2. /\ \/ stack = <<>> /\ stack' = EventCalls(event)
           \/ args.signals /\ res = "none" /\ stack' = stack \o EventCalls(event)
        /\ UNCHANGED <<args, userVars, no_relative_path>>
        /\ phase' = phase \/ (phase = "destroyed" /\ phase' = "done")
    BY <2>1 DEF UnlockAtExit, TriggerEvent, SignalEvent, StackInv, loadVars, contextVars
  <2>3. PICK x, y : stack' = Append(Append(stack, x), y) /\ PushedByEvent(x, y, event)
    BY <2>2, EventFacts
  <2> DEFINE s == Append(stack, x)
  <2>4. Kept(stack, s, Variables) /\ s \in Seq(Range(s))
    BY <1>0, <2>3, AppendKept, FnsFacts DEF PushedByEvent, WellFormed
  <2> HIDE DEF s
  <2>5. Kept(s, Append(s, y), Variables)
    BY <2>3, <2>4, AppendKept, FnsFacts DEF PushedByEvent
  <2>6. Kept(stack, stack', Variables)
    BY <2>3, <2>4, <2>5, KeptTransitive DEF s
  <2> QED BY <1>13, <2>2, <2>6 DEF OtherStep, EventStep
<1>14. CASE \E name : GenerateImagePath(name)
  <2>1. PICK text : CallGenerate(<<[fn |-> "image_path"]>>, text)
    BY <1>14 DEF GenerateImagePath
  <2>2. stack = <<>> /\ UNCHANGED <<args, phase, templates, generated, userVars,
                                    no_relative_path, template_idx, done>>
    BY <1>14 DEF GenerateImagePath, loadVars
  <2> DEFINE c == [fn |-> "image_path"]
  <2>3. Call(c) /\ c.fn = "image_path"
    BY DEF Call
  <2>4. CallGenerate(Append(stack, c), text)
    <3>1. <<c>> = Append(stack, c)
      BY <2>2
    <3> QED BY <2>1, <3>1 DEF c
  <2> HIDE DEF c
  <2> DEFINE callers == Append(stack, c)
  <2>5. WellFormed(callers, args.signals) /\ callers # <<>> /\ Waiting(Last(callers))
    BY <2>2, <2>3, AppendIsWellFormed DEF StackInv, Waiting
  <2>6. Kept(stack, callers, Variables) /\ Kept(stack, callers, OfEvents)
    BY <1>0, <2>3, AppendKept, FnsFacts
  <2> HIDE DEF callers
  <2>7. Kept(callers, stack', Variables) /\ Kept(callers, stack', OfEvents)
    BY <2>4, <2>5, GenerateKept, FnsFacts DEF callers
  <2>8. Kept(stack, stack', Variables) /\ Kept(stack, stack', OfEvents)
    BY <2>6, <2>7, KeptTransitive
  <2> QED BY <2>2, <2>8 DEF OtherStep, QuietStep
<1>15. CASE MatcherIsGone
  BY <1>15
<1> QED
  BY Steps, <1>1, <1>2, <1>3, <1>4, <1>5, <1>6, <1>7, <1>8, <1>9, <1>10, <1>11, <1>12,
     <1>13, <1>14, <1>15

---------------------------------------------------------------------------
(* The relative path flag and the loop variables                           *)

IsRelativeCall(c) == c.fn = "get_path" /\ c.relative
Relatives(s) == {i \in DOMAIN s : IsRelativeCall(s[i])}
Loops(s) == Positions(s, "for_loop")

SameVariables(s, t) ==
  /\ Relatives(t) = Relatives(s)
  /\ Loops(t) = Loops(s)
  /\ \A i \in Loops(s) : t[i].name = s[i].name

LEMMA AppendVariables ==
  ASSUME NEW s, NEW c, s \in Seq(Range(s))
  PROVE  LET t == Append(s, c)
         IN /\ Relatives(t) = Relatives(s) \cup (IF IsRelativeCall(c) THEN {Len(t)} ELSE {})
            /\ Loops(t) = Loops(s) \cup (IF c.fn = "for_loop" THEN {Len(t)} ELSE {})
            /\ Len(t) \notin Relatives(s) /\ Len(t) \notin Loops(s)
            /\ \A i \in Loops(s) : t[i].name = s[i].name
            /\ t[Len(t)] = c /\ t \in Seq(Range(t))
<1> DEFINE t == Append(s, c)
<1>1. /\ t \in Seq(Range(t)) /\ Len(t) = Len(s) + 1
      /\ \A i \in 1..Len(s) : t[i] = s[i]
      /\ t[Len(s) + 1] = c
  BY AppendFacts
<1>2. Len(s) \in Nat /\ DOMAIN s = 1..Len(s) /\ DOMAIN t = 1..Len(t)
  BY <1>1, SequenceFacts
<1> HIDE DEF t
<1>3. Relatives(t) = Relatives(s) \cup (IF IsRelativeCall(c) THEN {Len(t)} ELSE {})
  BY <1>1, <1>2 DEF Relatives, IsRelativeCall
<1>4. Loops(t) = Loops(s) \cup (IF c.fn = "for_loop" THEN {Len(t)} ELSE {})
  BY <1>1, <1>2 DEF Loops, Positions
<1>5. Len(t) \notin Relatives(s) /\ Len(t) \notin Loops(s)
  BY <1>1, <1>2 DEF Relatives, Loops, Positions
<1>6. \A i \in Loops(s) : t[i].name = s[i].name
  BY <1>1, <1>2 DEF Loops, Positions
<1> QED BY <1>1, <1>3, <1>4, <1>5, <1>6 DEF t

LEMMA FrontVariables ==
  ASSUME NEW s, s \in Seq(Range(s)), s # <<>>
  PROVE  LET t == Front(s)
         IN /\ Relatives(t) = Relatives(s) \ {Len(s)}
            /\ Loops(t) = Loops(s) \ {Len(s)}
            /\ Len(s) \in Relatives(s) <=> IsRelativeCall(Last(s))
            /\ Len(s) \in Loops(s) <=> Last(s).fn = "for_loop"
            /\ \A i \in Loops(t) : t[i].name = s[i].name
            /\ Last(s) = s[Len(s)]
<1> DEFINE t == Front(s)
<1>1. /\ t \in Seq(Range(t)) /\ Len(t) = Len(s) - 1
      /\ \A i \in 1..(Len(s) - 1) : t[i] = s[i]
  BY FrontFacts
<1>2. /\ Len(s) \in Nat /\ Len(s) > 0 /\ DOMAIN s = 1..Len(s) /\ DOMAIN t = 1..Len(t)
      /\ Last(s) = s[Len(s)]
  BY <1>1, SequenceFacts
<1> HIDE DEF t
<1>3. Relatives(t) = Relatives(s) \ {Len(s)}
  BY <1>1, <1>2 DEF Relatives, IsRelativeCall
<1>4. Loops(t) = Loops(s) \ {Len(s)}
  BY <1>1, <1>2 DEF Loops, Positions
<1>5. /\ Len(s) \in Relatives(s) <=> IsRelativeCall(Last(s))
      /\ Len(s) \in Loops(s) <=> Last(s).fn = "for_loop"
  BY <1>2 DEF Relatives, Loops, Positions
<1>6. \A i \in Loops(t) : t[i].name = s[i].name
  BY <1>1, <1>2 DEF Loops, Positions
<1> QED BY <1>2, <1>3, <1>4, <1>5, <1>6 DEF t

LEMMA KeptVariables ==
  ASSUME NEW s, NEW t, Kept(s, t, Variables)
  PROVE  SameVariables(s, t)
<1>1. /\ \A i : i \in DOMAIN t /\ t[i].fn \in Variables
                  <=> i \in DOMAIN s /\ s[i].fn \in Variables
      /\ \A i \in DOMAIN s : s[i].fn \in Variables => SameCall(s[i], t[i])
  BY DEF Kept, Of
<1>2. Relatives(t) = Relatives(s)
  BY <1>1 DEF Relatives, IsRelativeCall, Variables, SameCall
<1>3. Loops(t) = Loops(s)
  BY <1>1 DEF Loops, Positions, Variables, SameCall
<1>4. \A i \in Loops(s) : t[i].name = s[i].name
  BY <1>1 DEF Loops, Positions, Variables, SameCall
<1> QED BY <1>2, <1>3, <1>4 DEF SameVariables

LEMMA GenerateOther ==
  ASSUME NEW callers, NEW signals, WellFormed(callers, signals), callers # <<>>,
         Last(callers).fn = "execute_list" \/ Waiting(Last(callers)),
         NEW text, CallGenerate(callers, text)
  PROVE  SameVariables(callers, stack')
BY GenerateKept, KeptVariables, FnsFacts

\* The flag is on exactly while a path is made relative, and then there is no
\* other.  When the process dies in a text nothing turns the flag off.
FlagInv ==
  /\ no_relative_path \in BOOLEAN
  /\ Relatives(stack) # {} => no_relative_path
  /\ \A i, j \in Relatives(stack) : i = j
  /\ phase # "crashed" /\ no_relative_path => Relatives(stack) # {}

\* The loop variables are those of the loops in progress, each has its own.
LoopVarInv ==
  phase \in {"load", "run"} =>
       /\ \A i, j \in Loops(stack) : stack[i].name = stack[j].name => i = j
       /\ \A i \in Loops(stack) : stack[i].name \notin args.user_vars
       /\ userVars = args.user_vars \cup {stack[i].name : i \in Loops(stack)}

LEMMA EmptyVariables == Relatives(<<>>) = {} /\ Loops(<<>>) = {}
<1>1. <<>> \in Seq(Range(<<>>)) /\ Len(<<>>) = 0
  BY EmptySeq
<1>2. DOMAIN <<>> = {}
  BY <1>1, SequenceFacts
<1> QED BY <1>2 DEF Relatives, Loops, Positions

LEMMA FlagInvStep ==
  ASSUME StackInv, FlagInv, [Next]_vars
  PROVE  FlagInv'
<1>0. stack \in Seq(Range(stack))
  BY DEF StackInv, WellFormed
<1>1. CASE VariableStarts
  <2>1. UNCHANGED phase
    BY <1>1 DEF VariableStarts
  <2>2. PICK c, text : /\ c.fn \in {"get_path", "for_loop"} /\ Call(c)
                       /\ CallGenerate(Append(stack, c), text)
                       /\ IsRelativeCall(c) => ~ no_relative_path
                       /\ no_relative_path' <=> no_relative_path \/ IsRelativeCall(c)
                       /\ no_relative_path' \in BOOLEAN
    <3>1. CASE \E relative \in BOOLEAN : \E text :
                 /\ relative => ~ no_relative_path
                 /\ no_relative_path' = (no_relative_path \/ relative)
                 /\ CallGenerate(Append(stack, [fn |-> "get_path", relative |-> relative]),
                                 text)
      <4>1. PICK relative \in BOOLEAN : \E text :
                 /\ relative => ~ no_relative_path
                 /\ no_relative_path' = (no_relative_path \/ relative)
                 /\ CallGenerate(Append(stack, [fn |-> "get_path", relative |-> relative]),
                                 text)
        BY <3>1
      <4> DEFINE c == [fn |-> "get_path", relative |-> relative]
      <4>2. c.fn = "get_path" /\ Call(c) /\ (IsRelativeCall(c) <=> relative)
        BY DEF Call, IsRelativeCall
      <4> HIDE DEF c
      <4>3. /\ relative => ~ no_relative_path
            /\ no_relative_path' <=> no_relative_path \/ relative
            /\ no_relative_path' \in BOOLEAN
            /\ \E text : CallGenerate(Append(stack, c), text)
        BY <4>1 DEF c
      <4> QED BY <4>2, <4>3
    <3>2. CASE /\ UNCHANGED no_relative_path
               /\ \E name, left, body :
                    CallGenerate(Append(stack, [fn |-> "for_loop", name |-> name,
                                                left |-> left, body |-> body]), body)
      <4>1. PICK name, left, body :
               CallGenerate(Append(stack, [fn |-> "for_loop", name |-> name,
                                           left |-> left, body |-> body]), body)
        BY <3>2
      <4> DEFINE c == [fn |-> "for_loop", name |-> name, left |-> left, body |-> body]
      <4>2. c.fn = "for_loop" /\ Call(c) /\ ~ IsRelativeCall(c)
        BY DEF Call, IsRelativeCall
      <4> HIDE DEF c
      <4>3. CallGenerate(Append(stack, c), body)
        BY <4>1 DEF c
      <4>4. no_relative_path' \in BOOLEAN /\ (no_relative_path' <=> no_relative_path)
        BY <3>2 DEF FlagInv
      <4> QED BY <4>2, <4>3, <4>4
    <3> QED BY <1>1, <3>1, <3>2 DEF VariableStarts
  <2> DEFINE callers == Append(stack, c)
  <2>3. WellFormed(callers, args.signals) /\ callers # <<>> /\ Waiting(Last(callers))
    BY <1>1, <2>2, StartFacts DEF VariableStarts, Waiting
  <2>4. /\ Relatives(callers)
             = Relatives(stack) \cup (IF IsRelativeCall(c) THEN {Len(callers)} ELSE {})
        /\ Len(callers) \notin Relatives(stack)
    BY <1>0, AppendVariables
  <2> HIDE DEF callers
  <2>5. SameVariables(callers, stack')
    BY <2>2, <2>3, GenerateOther DEF callers
  <2> QED BY <2>1, <2>2, <2>4, <2>5 DEF FlagInv, SameVariables
<1>2. CASE VariableEnds
  <2>1. /\ stack # <<>> /\ stack' = Front(stack) /\ UNCHANGED phase
        /\ \/ Last(stack).fn = "for_loop" /\ UNCHANGED no_relative_path
           \/ /\ Last(stack).fn = "get_path"
              /\ no_relative_path' = (no_relative_path /\ ~ Last(stack).relative)
    BY <1>2 DEF VariableEnds, NoRelativePathAfter
  <2>2. /\ Relatives(stack') = Relatives(stack) \ {Len(stack)}
        /\ Len(stack) \in Relatives(stack) <=> IsRelativeCall(Last(stack))
    BY <1>0, <2>1, FrontVariables
  <2>3. Call(Last(stack))
    BY <2>1, TopCall DEF StackInv
  <2>4. /\ no_relative_path' <=> no_relative_path /\ ~ IsRelativeCall(Last(stack))
        /\ no_relative_path' \in BOOLEAN
    <3>1. CASE Last(stack).fn = "for_loop"
      BY <2>1, <3>1 DEF IsRelativeCall, FlagInv
    <3>2. CASE Last(stack).fn = "get_path"
      <4>1. IsRelativeCall(Last(stack)) <=> Last(stack).relative
        BY <3>2 DEF IsRelativeCall
      <4>2. no_relative_path' = (no_relative_path /\ ~ Last(stack).relative)
        BY <2>1, <3>2
      <4> QED BY <4>1, <4>2
    <3> QED BY <2>1, <3>1, <3>2
  <2>5. CASE IsRelativeCall(Last(stack))
    <3>1. Relatives(stack') = {} /\ ~ no_relative_path'
      BY <2>2, <2>4, <2>5 DEF FlagInv
    <3> QED BY <2>4, <3>1 DEF FlagInv
  <2>6. CASE ~ IsRelativeCall(Last(stack))
    <3>1. Relatives(stack') = Relatives(stack)
      BY <2>2, <2>6
    <3>2. no_relative_path' = no_relative_path
      BY <2>4, <2>6 DEF FlagInv
    <3>3. phase' = phase
      BY <2>1
    <3> QED BY <3>1, <3>2, <3>3 DEF FlagInv
  <2> QED BY <2>5, <2>6
<1>3. CASE MatcherIsGone
  <2>1. stack' = <<>> /\ phase' = "crashed" /\ UNCHANGED no_relative_path
    BY <1>3 DEF MatcherIsGone, contextVars
  <2> QED BY <2>1, EmptyVariables DEF FlagInv
<1>4. CASE OtherStep
  BY <1>4, KeptVariables DEF OtherStep, SameVariables, FlagInv
<1> QED BY StepsKeep, <1>1, <1>2, <1>3, <1>4

LEMMA LoopVarInvStep ==
  ASSUME StackInv, LoopVarInv, [Next]_vars
  PROVE  LoopVarInv'
<1>0. stack \in Seq(Range(stack))
  BY DEF StackInv, WellFormed
<1>1. CASE VariableStarts
  <2>1. stack # <<>> /\ Last(stack).fn = "generate" /\ UNCHANGED <<args, phase>>
    BY <1>1 DEF VariableStarts
  <2>2. CASE UNCHANGED userVars /\ \E relative \in BOOLEAN : \E text :
               CallGenerate(Append(stack, [fn |-> "get_path", relative |-> relative]), text)
    <3>1. PICK relative \in BOOLEAN : \E text :
               CallGenerate(Append(stack, [fn |-> "get_path", relative |-> relative]), text)
      BY <2>2
    <3> DEFINE c == [fn |-> "get_path", relative |-> relative]
               callers == Append(stack, c)
    <3>2. Call(c) /\ c.fn = "get_path"
      BY DEF Call
    <3> HIDE DEF c
    <3>3. WellFormed(callers, args.signals) /\ callers # <<>> /\ Waiting(Last(callers))
      BY <2>1, <3>2, StartFacts DEF Waiting
    <3>4. /\ Loops(callers)
               = Loops(stack) \cup (IF c.fn = "for_loop" THEN {Len(callers)} ELSE {})
          /\ \A i \in Loops(stack) : callers[i].name = stack[i].name
      BY <1>0, AppendVariables
    <3> HIDE DEF callers
    <3>5. PICK text : CallGenerate(callers, text)
      BY <3>1 DEF callers, c
    <3>6. SameVariables(callers, stack')
      BY <3>3, <3>5, GenerateOther
    <3>7. /\ Loops(stack') = Loops(stack)
          /\ \A i \in Loops(stack) : stack'[i].name = stack[i].name
      BY <3>2, <3>4, <3>6 DEF SameVariables
    <3> QED BY <2>1, <2>2, <3>7 DEF LoopVarInv
  <2>3. CASE \E name, left, body :
               /\ name \notin userVars
               /\ userVars' = userVars \cup {name}
               /\ CallGenerate(Append(stack, [fn |-> "for_loop", name |-> name,
                                              left |-> left, body |-> body]), body)
    <3>1. PICK name, left, body :
               /\ name \notin userVars
               /\ userVars' = userVars \cup {name}
               /\ CallGenerate(Append(stack, [fn |-> "for_loop", name |-> name,
                                              left |-> left, body |-> body]), body)
      BY <2>3
    <3> DEFINE c == [fn |-> "for_loop", name |-> name, left |-> left, body |-> body]
               callers == Append(stack, c)
    <3>2. Call(c) /\ c.fn = "for_loop" /\ c.name = name
      BY DEF Call
    <3> HIDE DEF c
    <3>3. WellFormed(callers, args.signals) /\ callers # <<>> /\ Waiting(Last(callers))
      BY <2>1, <3>2, StartFacts DEF Waiting
    <3>4. /\ Loops(callers) = Loops(stack) \cup {Len(callers)}
          /\ Len(callers) \notin Loops(stack)
          /\ \A i \in Loops(stack) : callers[i].name = stack[i].name
          /\ callers[Len(callers)].name = name
      BY <1>0, <3>2, AppendVariables
    <3> HIDE DEF callers
    <3>5. CallGenerate(callers, body)
      BY <3>1 DEF callers, c
    <3>6. SameVariables(callers, stack')
      BY <3>3, <3>5, GenerateOther
    <3>7. /\ Loops(stack') = Loops(stack) \cup {Len(callers)}
          /\ \A i \in Loops(stack) : stack'[i].name = stack[i].name
          /\ stack'[Len(callers)].name = name
      BY <3>4, <3>6 DEF SameVariables
    <3>8. phase \in {"load", "run"} =>
            /\ \A i \in Loops(stack) : stack[i].name # name
            /\ name \notin args.user_vars
      BY <3>1 DEF LoopVarInv
    <3>9. {stack'[i].name : i \in Loops(stack')}
            = {stack[i].name : i \in Loops(stack)} \cup {name}
      BY <3>7
    <3>10. phase' \in {"load", "run"} =>
             userVars' = args'.user_vars \cup {stack'[i].name : i \in Loops(stack')}
      <4> DEFINE N == {stack[i].name : i \in Loops(stack)}
      <4>1. phase \in {"load", "run"} => userVars = args.user_vars \cup N
        BY DEF LoopVarInv
      <4> HIDE DEF N
      <4>2. phase \in {"load", "run"} => userVars' = args.user_vars \cup (N \cup {name})
        BY <3>1, <4>1
      <4> QED BY <2>1, <3>9, <4>2 DEF N
    <3>11. phase' \in {"load", "run"} =>
             \A i \in Loops(stack') : stack'[i].name \notin args'.user_vars
      BY <2>1, <3>7, <3>8 DEF LoopVarInv
    <3>12. phase \in {"load", "run"} =>
             \A i, j \in Loops(stack') : stack'[i].name = stack'[j].name => i = j
      BY <3>4, <3>7, <3>8 DEF LoopVarInv
    <3> QED BY <2>1, <3>10, <3>11, <3>12 DEF LoopVarInv
  <2> QED BY <1>1, <2>2, <2>3 DEF VariableStarts
<1>2. CASE VariableEnds
  <2>1. /\ stack # <<>> /\ stack' = Front(stack) /\ UNCHANGED <<args, phase>>
        /\ \/ Last(stack).fn = "get_path" /\ UNCHANGED userVars
           \/ Last(stack).fn = "for_loop" /\ userVars' = userVars \ {Last(stack).name}
    BY <1>2 DEF VariableEnds, UserVarsAfter
  <2>2. /\ Loops(stack') = Loops(stack) \ {Len(stack)}
        /\ Len(stack) \in Loops(stack) <=> Last(stack).fn = "for_loop"
        /\ \A i \in Loops(stack') : stack'[i].name = stack[i].name
        /\ Last(stack) = stack[Len(stack)]
    BY <1>0, <2>1, FrontVariables
  <2>3. CASE Last(stack).fn = "get_path"
    <3>1. Loops(stack') = Loops(stack) /\ UNCHANGED userVars
      BY <2>1, <2>2, <2>3
    <3> QED BY <2>1, <2>2, <3>1 DEF LoopVarInv
  <2>4. CASE Last(stack).fn = "for_loop"
    <3>1. phase \in {"load", "run"} =>
            \A i \in Loops(stack') : stack[i].name # Last(stack).name
      BY <2>2, <2>4 DEF LoopVarInv
    <3>2. phase \in {"load", "run"} =>
            userVars' = args.user_vars \cup {stack[i].name : i \in Loops(stack')}
      BY <2>1, <2>2, <2>4, <3>1 DEF LoopVarInv
    <3>3. {stack'[i].name : i \in Loops(stack')} = {stack[i].name : i \in Loops(stack')}
      BY <2>2
    <3>4. phase' \in {"load", "run"} =>
            userVars' = args'.user_vars \cup {stack'[i].name : i \in Loops(stack')}
      BY <2>1, <3>2, <3>3
    <3>5. phase \in {"load", "run"} =>
            \A i, j \in Loops(stack') : stack'[i].name = stack'[j].name => i = j
      BY <2>2 DEF LoopVarInv
    <3>6. phase' \in {"load", "run"} =>
            \A i \in Loops(stack') : stack'[i].name \notin args'.user_vars
      BY <2>1, <2>2 DEF LoopVarInv
    <3> QED BY <2>1, <3>4, <3>5, <3>6 DEF LoopVarInv
  <2> QED BY <2>1, <2>3, <2>4
<1>3. CASE MatcherIsGone
  <2>1. stack' = <<>> /\ phase' = "crashed"
    BY <1>3 DEF MatcherIsGone
  <2> QED BY <2>1, EmptyVariables DEF LoopVarInv
<1>4. CASE OtherStep
  BY <1>4, KeptVariables DEF OtherStep, SameVariables, LoopVarInv
<1> QED BY StepsKeep, <1>1, <1>2, <1>3, <1>4

---------------------------------------------------------------------------
(* The calls of the events                                                 *)

\* The loop over the templates that is on top is now c, the others are as they were.
Updated(c) ==
  /\ Of(stack', OfEvents) = Of(stack, OfEvents)
  /\ Len(stack) \in Of(stack, OfEvents)
  /\ \A i \in Of(stack, OfEvents) : i # Len(stack) => SameCall(stack[i], stack'[i])
  /\ SameCall(c, stack'[Len(stack)])

LEMMA TemplatesTurn ==
  ASSUME StackInv, stack # <<>>, Last(stack).fn = "generate_templates",
         NEW c, Turned(c),
         \/ stack' = [stack EXCEPT ![Len(stack)] = c]
         \/ /\ c.stage # "next"
            /\ \E text : CallGenerate([stack EXCEPT ![Len(stack)] = c], text)
  PROVE  Updated(c)
<1> DEFINE t == [stack EXCEPT ![Len(stack)] = c]
<1>1. /\ t \in Seq(Range(t)) /\ Len(t) = Len(stack)
      /\ \A i \in 1..(Len(stack) - 1) : t[i] = stack[i]
      /\ t[Len(stack)] = c
  BY ReplaceFacts DEF StackInv, WellFormed
<1>2. /\ Len(stack) \in Nat /\ Len(stack) > 0
      /\ DOMAIN stack = 1..Len(stack) /\ DOMAIN t = 1..Len(t)
      /\ Last(stack) = stack[Len(stack)]
  BY <1>1, SequenceFacts DEF StackInv, WellFormed
<1>3. WellFormed(t, args.signals) /\ t # <<>> /\ Last(t) = c /\ c.fn = "generate_templates"
  BY TurnFacts DEF Turned
<1>4. stack' = t \/ (c.stage # "next" /\ \E text : CallGenerate(t, text))
  OBVIOUS
<1> HIDE DEF t
<1>5. Kept(t, stack', OfEvents)
  <2>1. CASE stack' = t
    BY <2>1, KeptReflexive
  <2>2. CASE c.stage # "next" /\ \E text : CallGenerate(t, text)
    BY <1>3, <2>2, GenerateKept, FnsFacts DEF Waiting
  <2> QED BY <1>4, <2>1, <2>2
<1>6. \A i \in 1..Len(stack) : t[i] = stack[i] \/ i = Len(stack)
  <2>1. \A n \in Nat : \A i \in 1..n : i \in 1..(n - 1) \/ i = n
    OBVIOUS
  <2> QED BY <1>1, <1>2, <2>1
<1>7. Of(t, OfEvents) = Of(stack, OfEvents) /\ Len(stack) \in Of(stack, OfEvents)
  <2>1. \A i \in 1..Len(stack) : t[i].fn = stack[i].fn
    BY <1>1, <1>2, <1>3, <1>6
  <2>2. Len(stack) \in 1..Len(stack)
    BY <1>2
  <2> QED BY <1>1, <1>2, <2>1, <2>2 DEF Of, OfEvents
<1>8. /\ Of(stack', OfEvents) = Of(t, OfEvents)
      /\ \A i \in Of(t, OfEvents) : SameCall(t[i], stack'[i])
  BY <1>5 DEF Kept
<1>9. ASSUME NEW i \in Of(stack, OfEvents), i # Len(stack)
      PROVE  SameCall(stack[i], stack'[i])
  <2>1. t[i] = stack[i]
    BY <1>2, <1>6, <1>9 DEF Of
  <2> QED BY <1>7, <1>8, <2>1
<1>10. SameCall(c, stack'[Len(stack)])
  BY <1>1, <1>7, <1>8
<1> QED BY <1>7, <1>8, <1>9, <1>10 DEF Updated

LEMMA NextTemplateUpdates ==
  ASSUME StackInv, NextTemplate
  PROVE  \E c : TemplatesAt(c, template_idx', "path", Last(stack).failed) /\ Updated(c)
<1>1. stack # <<>> /\ Last(stack).fn = "generate_templates" /\ template_idx' \in Nat
  BY TemplateStarts, RemainingIsNat
<1>2. PICK c : /\ TemplatesAt(c, template_idx', "path", Last(stack).failed)
               /\ \E text : CallGenerate([stack EXCEPT ![Len(stack)] = c], text)
  BY <1>1, TemplateStarts
<1>3. Turned(c) /\ c.stage # "next"
  BY <1>2 DEF TemplatesAt
<1>4. Updated(c)
  BY <1>1, <1>2, <1>3, TemplatesTurn
<1> QED BY <1>2, <1>4

LEMMA TemplateContinuesUpdates ==
  ASSUME StackInv, TemplateContinues
  PROVE  \E stage \in {"filename", "contents"} : \E c :
           TemplatesAt(c, Last(stack).i, stage, Last(stack).failed) /\ Updated(c)
<1>1. stack # <<>> /\ Last(stack).fn = "generate_templates"
  BY TemplateGoesOn
<1>2. PICK stage \in {"filename", "contents"} : \E c, text :
        /\ TemplatesAt(c, Last(stack).i, stage, Last(stack).failed)
        /\ CallGenerate([stack EXCEPT ![Len(stack)] = c], text)
  BY TemplateGoesOn
<1>3. PICK c : /\ TemplatesAt(c, Last(stack).i, stage, Last(stack).failed)
               /\ \E text : CallGenerate([stack EXCEPT ![Len(stack)] = c], text)
  BY <1>2
<1>4. Turned(c) /\ c.stage # "next"
  BY <1>3 DEF TemplatesAt
<1>5. Updated(c)
  BY <1>1, <1>3, <1>4, TemplatesTurn
<1> QED BY <1>3, <1>5

LEMMA TemplateReturnsUpdates ==
  ASSUME StackInv, TemplateReturns
  PROVE  \E c :
           /\ Updated(c)
           /\ \/ TemplatesAt(c, Last(stack).i, "next", TRUE) /\ UNCHANGED done
              \/ /\ TemplatesAt(c, Last(stack).i, "next", Last(stack).failed)
                 /\ done' = done \cup {[what |-> "template", event |-> Last(stack).event,
                                        i |-> Last(stack).i]}
<1>1. stack # <<>> /\ Last(stack).fn = "generate_templates"
  BY TemplateEnds
<1>2. PICK c :
        /\ Turns(c)
        /\ \/ TemplatesAt(c, Last(stack).i, "next", TRUE) /\ UNCHANGED done
           \/ /\ TemplatesAt(c, Last(stack).i, "next", Last(stack).failed)
              /\ done' = done \cup {[what |-> "template", event |-> Last(stack).event,
                                     i |-> Last(stack).i]}
  BY TemplateEnds
<1>3. Turned(c) /\ stack' = [stack EXCEPT ![Len(stack)] = c]
  BY <1>2 DEF Turns
<1>4. Updated(c)
  BY <1>1, <1>3, TemplatesTurn
<1> QED BY <1>2, <1>4

LEMMA CommandReturnsKeeps ==
  ASSUME StackInv, CommandReturns
  PROVE  Kept(stack, stack', OfEvents)
<1>1. PICK c : Turned(c) /\ stack' = [stack EXCEPT ![Len(stack)] = c]
  BY CommandEnds DEF Turns
<1>2. stack # <<>> /\ Last(stack).fn = "execute_list" /\ c.fn = "execute_list"
  BY <1>1, CommandEnds DEF Turned
<1>3. SameCall(Last(stack), c)
  BY <1>1, <1>2, TurnedSame
<1> QED BY <1>1, <1>2, <1>3, TurnKept

\* The call on top returns.
LEMMA CallsWithoutTop ==
  ASSUME NEW s, s \in Seq(Range(s)), s # <<>>
  PROVE  /\ Of(Front(s), OfEvents) = Of(s, OfEvents) \ {Len(s)}
         /\ \A i \in Of(Front(s), OfEvents) : Front(s)[i] = s[i]
<1> DEFINE t == Front(s)
<1>1. /\ t \in Seq(Range(t)) /\ Len(t) = Len(s) - 1
      /\ \A i \in 1..(Len(s) - 1) : t[i] = s[i]
  BY FrontFacts
<1>2. /\ Len(s) \in Nat /\ Len(s) > 0 /\ DOMAIN s = 1..Len(s) /\ DOMAIN t = 1..Len(t)
  BY <1>1, SequenceFacts
<1> HIDE DEF t
<1>3. Of(t, OfEvents) = Of(s, OfEvents) \ {Len(s)}
  BY <1>1, <1>2 DEF Of
<1>4. \A i \in Of(t, OfEvents) : t[i] = s[i]
  BY <1>1, <1>2 DEF Of
<1> QED BY <1>3, <1>4 DEF t

\* An event adds two calls.
Pushed(event) ==
  LET n == Len(stack)
  IN /\ n \in Nat
     /\ Of(stack', OfEvents) = Of(stack, OfEvents) \cup {n + 1, n + 2}
     /\ \A i \in Of(stack, OfEvents) : stack'[i] = stack[i] /\ i \in 1..n
     /\ stack'[n + 1].fn = "execute_list" /\ stack'[n + 1].event = event
     /\ stack'[n + 2].fn = "generate_templates" /\ stack'[n + 2].event = event
     /\ stack'[n + 2].i = 0 /\ stack'[n + 2].stage = "next"

LEMMA EventPushes ==
  ASSUME StackInv, NEW event,
         \/ stack = <<>> /\ stack' = EventCalls(event)
         \/ args.signals /\ res = "none" /\ stack' = stack \o EventCalls(event)
  PROVE  Pushed(event)
<1>1. PICK x, y : stack' = Append(Append(stack, x), y) /\ PushedByEvent(x, y, event)
  BY EventFacts
<1> DEFINE s == Append(stack, x)
           t == Append(s, y)
<1>2. stack \in Seq(Range(stack)) /\ Len(stack) \in Nat /\ DOMAIN stack = 1..Len(stack)
  BY SequenceFacts DEF StackInv, WellFormed
<1>3. /\ s \in Seq(Range(s)) /\ Len(s) = Len(stack) + 1
      /\ \A i \in 1..Len(stack) : s[i] = stack[i]
      /\ s[Len(stack) + 1] = x
  BY <1>2, AppendFacts
<1>4. Len(s) \in Nat /\ DOMAIN s = 1..Len(s)
  BY <1>3, SequenceFacts
<1> HIDE DEF s
<1>5. /\ t \in Seq(Range(t)) /\ Len(t) = Len(s) + 1
      /\ \A i \in 1..Len(s) : t[i] = s[i]
      /\ t[Len(s) + 1] = y
  BY <1>3, AppendFacts
<1>6. DOMAIN t = 1..Len(t)
  BY <1>5, SequenceFacts
<1>7. stack' = t
  BY <1>1 DEF s
<1> HIDE DEF t
<1>8. /\ DOMAIN t = 1..(Len(stack) + 2)
      /\ \A i \in 1..Len(stack) : t[i] = stack[i]
      /\ t[Len(stack) + 1] = x /\ t[Len(stack) + 2] = y
  <2>1. Len(s) + 1 = Len(stack) + 2
    BY <1>2, <1>3
  <2>2. \A i \in 1..Len(stack) : i \in 1..Len(s)
    BY <1>2, <1>3
  <2>3. Len(stack) + 1 \in 1..Len(s)
    BY <1>2, <1>3
  <2> QED BY <1>3, <1>5, <1>6, <2>1, <2>2, <2>3
<1>9. /\ x.fn = "execute_list" /\ x.event = event /\ y.fn = "generate_templates"
      /\ y.event = event /\ y.i = 0 /\ y.stage = "next"
  BY <1>1 DEF PushedByEvent
<1>10. Of(t, OfEvents) = Of(stack, OfEvents) \cup {Len(stack) + 1, Len(stack) + 2}
  BY <1>2, <1>8, <1>9 DEF Of, OfEvents
<1>11. \A i \in Of(stack, OfEvents) : t[i] = stack[i] /\ i \in 1..Len(stack)
  BY <1>2, <1>8 DEF Of
<1> QED BY <1>2, <1>7, <1>8, <1>9, <1>10, <1>11 DEF Pushed

LEMMA EventStepPushes ==
  ASSUME StackInv, NEW event,
         TriggerEvent(event) \/ SignalEvent(event) \/ (UnlockAtExit /\ event = "do_unlock")
  PROVE  Pushed(event)
BY EventPushes DEF TriggerEvent, SignalEvent, UnlockAtExit, StackInv


LEMMA NoCalls == Of(<<>>, OfEvents) = {}
<1>1. <<>> \in Seq(Range(<<>>)) /\ Len(<<>>) = 0
  BY EmptySeq
<1>2. DOMAIN <<>> = {}
  BY <1>1, SequenceFacts
<1> QED BY <1>2 DEF Of

\* Without handlers there is one event at a time.
LEMMA OneEvent ==
  ASSUME NEW s, NEW signals, WellFormed(s, signals), ~ signals,
         NEW m \in Of(s, OfEvents), NEW n \in Of(s, OfEvents)
  PROVE  s[m].event = s[n].event
<1>1. /\ s \in Seq(Range(s)) /\ Len(s) \in Nat /\ DOMAIN s = 1..Len(s)
      /\ s # <<>> <=> Len(s) > 0
  BY SequenceFacts DEF WellFormed
<1>2. ASSUME NEW k \in Of(s, OfEvents), s[k].fn = "execute_list" PROVE k = 1
  <2> SUFFICES ASSUME k # 1 PROVE FALSE
    OBVIOUS
  <2>1. k \in 1..Len(s)
    BY <1>1 DEF Of
  <2>2. k - 1 \in 1..Len(s) /\ k - 1 < Len(s) /\ (k - 1) + 1 = k
    <3>1. \A len \in Nat : \A j \in 1..len :
            j # 1 => j - 1 \in 1..len /\ j - 1 < len /\ (j - 1) + 1 = j
      OBVIOUS
    <3> QED BY <1>1, <2>1, <3>1
  <2>3. MayCall(s[k - 1], s[k], signals)
    BY <2>2 DEF WellFormed
  <2> QED BY <1>2, <2>3 DEF MayCall
<1>3. ASSUME NEW k \in Of(s, OfEvents), s[k].fn = "generate_templates"
      PROVE  s[k].event = s[1].event
  <2>1. k \in 1..Len(s)
    BY <1>1 DEF Of
  <2>2. k # 1
    BY <1>1, <1>3, <2>1 DEF WellFormed
  <2>3. k - 1 \in 1..Len(s) /\ k - 1 < Len(s) /\ (k - 1) + 1 = k
    <3>1. \A len \in Nat : \A j \in 1..len :
            j # 1 => j - 1 \in 1..len /\ j - 1 < len /\ (j - 1) + 1 = j
      OBVIOUS
    <3> QED BY <1>1, <2>1, <2>2, <3>1
  <2>4. MayCall(s[k - 1], s[k], signals)
    BY <2>3 DEF WellFormed
  <2>5. s[k - 1].fn = "execute_list" /\ s[k - 1].event = s[k].event
    BY <1>3, <2>4 DEF MayCall
  <2>6. k - 1 = 1
    BY <1>1, <1>2, <2>3, <2>5 DEF Of, OfEvents
  <2> QED BY <2>5, <2>6
<1>4. \A k \in Of(s, OfEvents) : s[k].event = s[1].event
  BY <1>2, <1>3 DEF Of, OfEvents
<1> QED BY <1>4

InTemplates(s) == \E n \in Of(s, OfEvents) : s[n].fn = "generate_templates"

\* A template is current only while the templates are generated.
TemplateInv == phase \in {"load", "run"} /\ template_idx # 0 => InTemplates(stack)

\* The template that is generated is registered to the event.
CurrentInv ==
  \A n \in Of(stack, OfEvents) :
    stack[n].fn = "generate_templates" /\ stack[n].stage # "next" =>
      /\ stack[n].i \in DOMAIN templates
      /\ Registered(templates[stack[n].i], stack[n].event)

PathsInv ==
  ~ args.signals =>
    \A n \in Of(stack, OfEvents) : \A i \in generated :
      Registered(templates[i], stack[n].event)

TemplateDone(event, i) == [what |-> "template", event |-> event, i |-> i] \in done

\* The templates below those of stack[n] are all there is on top of it.
IsGenerating(s, n) == n + 1 \in Of(s, OfEvents) /\ s[n + 1].fn = "generate_templates"

\* The commands of an event are next only when its templates are done; the loop over
\* the templates has done those up to where it is, if none failed.
DoneInv ==
  /\ phase = "load" => done = {}
  /\ CommandsFollowTemplates
  /\ \A n \in Of(stack, OfEvents) :
       stack[n].fn = "execute_list" /\ ~ IsGenerating(stack, n) =>
         \A i \in DOMAIN templates :
           Registered(templates[i], stack[n].event) => TemplateDone(stack[n].event, i)
  /\ \A n \in Of(stack, OfEvents) :
       stack[n].fn = "generate_templates" /\ ~ stack[n].failed =>
         \A i \in DOMAIN templates :
           /\ Registered(templates[i], stack[n].event)
           /\ i <= stack[n].i /\ (i = stack[n].i => stack[n].stage = "next")
           => TemplateDone(stack[n].event, i)

EventInvs == TemplateInv /\ CurrentInv /\ PathsInv /\ DoneInv

LEMMA QuietKeeps ==
  ASSUME EventInvs, QuietStep
  PROVE  EventInvs'
<1>1. /\ Of(stack', OfEvents) = Of(stack, OfEvents)
      /\ \A n \in Of(stack, OfEvents) :
           /\ stack'[n].fn = stack[n].fn /\ stack'[n].event = stack[n].event
           /\ stack[n].fn = "generate_templates" =>
                /\ stack'[n].i = stack[n].i /\ stack'[n].stage = stack[n].stage
                /\ stack'[n].failed = stack[n].failed
  BY DEF QuietStep, Kept, SameCall, Of
<1>2. /\ UNCHANGED <<args, templates, generated, template_idx, done>>
      /\ phase' \in {"load", "run"} => phase \in {"load", "run"}
      /\ phase' = "load" => phase = "load"
  BY DEF QuietStep
<1>3. TemplateInv'
  BY <1>1, <1>2 DEF EventInvs, TemplateInv, InTemplates
<1>4. CurrentInv'
  BY <1>1, <1>2 DEF EventInvs, CurrentInv, Registered
<1>5. PathsInv'
  BY <1>1, <1>2 DEF EventInvs, PathsInv, Registered
<1>6. DoneInv'
  <2>1. CommandsFollowTemplates'
    BY <1>2 DEF EventInvs, DoneInv, CommandsFollowTemplates, Registered
  <2>2. \A n \in Of(stack, OfEvents) : IsGenerating(stack', n) <=> IsGenerating(stack, n)
    BY <1>1 DEF IsGenerating
  <2> QED BY <1>1, <1>2, <2>1, <2>2 DEF EventInvs, DoneInv, TemplateDone, Registered
<1> QED BY <1>3, <1>4, <1>5, <1>6 DEF EventInvs


LEMMA NoStackKeeps ==
  ASSUME EventInvs, StackInv, LoadTemplate \/ OutputDestroy \/ MatcherIsGone
  PROVE  EventInvs'
<1>1. Of(stack', OfEvents) = {}
  BY NoCalls DEF LoadTemplate, OutputDestroy, MatcherIsGone, StackInv
<1>2. TemplateInv'
  BY NoCalls DEF LoadTemplate, OutputDestroy, MatcherIsGone, TemplateInv, InTemplates,
                 EventInvs, StackInv
<1>3. CurrentInv' /\ PathsInv'
  BY <1>1 DEF CurrentInv, PathsInv
<1>4. CommandsFollowTemplates' /\ (phase' = "load" => done' = {})
  <2>1. CASE LoadTemplate
    BY <2>1 DEF LoadTemplate, EventInvs, DoneInv, CommandsFollowTemplates
  <2>2. CASE OutputDestroy
    <3>1. DOMAIN <<>> = {}
      OBVIOUS
    <3> QED BY <2>2, <3>1 DEF OutputDestroy, CommandsFollowTemplates
  <2>3. CASE MatcherIsGone
    BY <2>3 DEF MatcherIsGone, EventInvs, DoneInv, CommandsFollowTemplates, loadVars,
                Registered
  <2> QED BY <2>1, <2>2, <2>3
<1> QED BY <1>1, <1>2, <1>3, <1>4 DEF EventInvs, DoneInv

LEMMA PushKeeps ==
  ASSUME EventInvs, StackInv, NEW event,
         TriggerEvent(event) \/ SignalEvent(event) \/ (UnlockAtExit /\ event = "do_unlock")
  PROVE  EventInvs'
<1> DEFINE n == Len(stack)
<1>1. /\ n \in Nat
      /\ Of(stack', OfEvents) = Of(stack, OfEvents) \cup {n + 1, n + 2}
      /\ \A i \in Of(stack, OfEvents) : stack'[i] = stack[i] /\ i \in 1..n
      /\ stack'[n + 1].fn = "execute_list"
      /\ stack'[n + 2].fn = "generate_templates"
      /\ stack'[n + 2].i = 0 /\ stack'[n + 2].stage = "next"
  BY EventStepPushes DEF Pushed
<1>2. /\ UNCHANGED <<args, templates>> /\ generated' = {}
      /\ phase' = phase \/ phase' = "done"
      /\ (done' = {} /\ Of(stack, OfEvents) = {}) \/ UNCHANGED done
      /\ phase' # "load"
  BY NoCalls DEF TriggerEvent, SignalEvent, UnlockAtExit, FreeGeneratedPaths, loadVars,
                 StackInv
<1> HIDE DEF n
<1>3. TemplateInv'
  BY <1>1 DEF TemplateInv, InTemplates
<1>4. CurrentInv'
  <2>1. \A m \in Of(stack', OfEvents) :
          stack'[m].fn = "generate_templates" /\ stack'[m].stage # "next" =>
            m \in Of(stack, OfEvents) /\ stack'[m] = stack[m]
    BY <1>1
  <2> QED BY <1>2, <2>1 DEF EventInvs, CurrentInv, Registered
<1>5. PathsInv'
  BY <1>2 DEF PathsInv
<1>6. CommandsFollowTemplates'
  BY <1>2 DEF EventInvs, DoneInv, CommandsFollowTemplates, Registered
<1>7. ASSUME NEW m \in Of(stack', OfEvents), stack'[m].fn = "execute_list",
             ~ IsGenerating(stack', m), NEW i \in DOMAIN templates,
             Registered(templates[i], stack'[m].event)
      PROVE  [what |-> "template", event |-> stack'[m].event, i |-> i] \in done'
  <2>1. m # n + 1
    <3>1. (n + 1) + 1 = n + 2
      BY <1>1
    <3> QED BY <1>1, <1>7, <3>1 DEF IsGenerating
  <2>2. m \in Of(stack, OfEvents) /\ stack'[m] = stack[m]
    BY <1>1, <1>7, <2>1
  <2>3. ~ IsGenerating(stack, m)
    <3>1. m + 1 \in Of(stack, OfEvents) => m + 1 \in Of(stack', OfEvents)
                                           /\ stack'[m + 1] = stack[m + 1]
      BY <1>1
    <3> QED BY <1>7, <3>1 DEF IsGenerating
  <2> QED BY <1>2, <1>7, <2>2, <2>3 DEF EventInvs, DoneInv, TemplateDone
<1>8. ASSUME NEW m \in Of(stack', OfEvents), stack'[m].fn = "generate_templates",
             ~ stack'[m].failed, NEW i \in DOMAIN templates,
             Registered(templates[i], stack'[m].event), i <= stack'[m].i,
             i = stack'[m].i => stack'[m].stage = "next"
      PROVE  [what |-> "template", event |-> stack'[m].event, i |-> i] \in done'
  <2>1. m # n + 2
    <3>1. i \in Nat /\ i > 0
      BY SequenceFacts DEF StackInv
    <3> QED BY <1>1, <1>8, <3>1
  <2>2. m \in Of(stack, OfEvents) /\ stack'[m] = stack[m]
    BY <1>1, <1>8, <2>1
  <2> QED BY <1>2, <1>8, <2>2 DEF EventInvs, DoneInv, TemplateDone
<1>9. DoneInv'
  BY <1>2, <1>6, <1>7, <1>8 DEF DoneInv, TemplateDone, Registered
<1> QED BY <1>3, <1>4, <1>5, <1>9 DEF EventInvs

\* A step of the loop over the templates keeps the invariants if it does so for the
\* loop itself.
LEMMA UpdateKeeps ==
  ASSUME EventInvs, StackInv, StackInv', NEW c, Updated(c),
         stack # <<>>, Last(stack).fn = "generate_templates", Turned(c),
         c.event = Last(stack).event,
         UNCHANGED <<args, phase, templates>>,
         c.stage # "next" => c.i \in DOMAIN templates /\ Registered(templates[c.i], c.event),
         \A i \in generated' : i \in generated \/ Registered(templates[i], c.event),
         done \subseteq done',
         \A d \in done' : d \in done \/ d.what = "template",
         ~ c.failed => \A i \in DOMAIN templates :
                          /\ Registered(templates[i], c.event)
                          /\ i <= c.i /\ (i = c.i => c.stage = "next")
                          => [what |-> "template", event |-> c.event, i |-> i] \in done'
  PROVE  EventInvs'
<1>1. /\ Last(stack) = stack[Len(stack)] /\ c.fn = "generate_templates"
      /\ Len(stack) \in Of(stack, OfEvents)
  BY TopCall DEF StackInv, Turned, Updated
<1>2. /\ Of(stack', OfEvents) = Of(stack, OfEvents)
      /\ \A n \in Of(stack, OfEvents) :
           /\ stack'[n].fn = stack[n].fn /\ stack'[n].event = stack[n].event
           /\ n # Len(stack) /\ stack[n].fn = "generate_templates" =>
                /\ stack'[n].i = stack[n].i /\ stack'[n].stage = stack[n].stage
                /\ stack'[n].failed = stack[n].failed
  BY <1>1 DEF Updated, SameCall, Of, OfEvents
<1>3. LET d == stack'[Len(stack)]
      IN d.fn = c.fn /\ d.event = c.event /\ d.i = c.i /\ d.stage = c.stage
         /\ d.failed = c.failed
  BY <1>1 DEF Updated, SameCall, OfEvents
<1>4. TemplateInv'
  BY <1>1, <1>2, <1>3 DEF TemplateInv, InTemplates
<1>5. CurrentInv'
  BY <1>1, <1>2, <1>3 DEF EventInvs, CurrentInv, Registered
<1>6. PathsInv'
  <2> SUFFICES ASSUME ~ args.signals, NEW n \in Of(stack, OfEvents), NEW i \in generated'
               PROVE  Registered(templates[i], stack[n].event)
    BY <1>2 DEF PathsInv, Registered
  <2>1. CASE i \in generated
    BY <2>1 DEF EventInvs, PathsInv
  <2>2. CASE Registered(templates[i], c.event)
    <3>1. stack[n].event = c.event
      BY <1>1, OneEvent DEF StackInv
    <3> QED BY <2>2, <3>1
  <2> QED BY <2>1, <2>2
<1>7. CommandsFollowTemplates'
  BY DEF EventInvs, DoneInv, CommandsFollowTemplates, Registered
<1>8. \A n \in Of(stack, OfEvents) : IsGenerating(stack', n) <=> IsGenerating(stack, n)
  BY <1>2 DEF IsGenerating
<1>9. ASSUME NEW n \in Of(stack, OfEvents), stack[n].fn = "execute_list",
             ~ IsGenerating(stack, n), NEW i \in DOMAIN templates,
             Registered(templates[i], stack[n].event)
      PROVE  [what |-> "template", event |-> stack[n].event, i |-> i] \in done'
  BY <1>9 DEF EventInvs, DoneInv, TemplateDone
<1>10. ASSUME NEW n \in Of(stack, OfEvents), stack[n].fn = "generate_templates",
              ~ stack'[n].failed, NEW i \in DOMAIN templates,
              Registered(templates[i], stack'[n].event), i <= stack'[n].i,
              i = stack'[n].i => stack'[n].stage = "next"
       PROVE  [what |-> "template", event |-> stack'[n].event, i |-> i] \in done'
  <2>1. CASE n = Len(stack)
    BY <1>3, <1>10, <2>1
  <2>2. CASE n # Len(stack)
    BY <1>2, <1>10, <2>2 DEF EventInvs, DoneInv, TemplateDone
  <2> QED BY <2>1, <2>2
<1>11. DoneInv'
  <2>1. phase' = "load" => done' = {}
    BY <1>1, NoCalls DEF StackInv
  <2> QED BY <1>2, <1>7, <1>8, <1>9, <1>10, <2>1 DEF DoneInv, TemplateDone, Registered
<1> QED BY <1>4, <1>5, <1>6, <1>11 DEF EventInvs

LEMMA NextTemplateKeeps ==
  ASSUME EventInvs, StackInv, StackInv', NextTemplate
  PROVE  EventInvs'
<1>1. PICK c : TemplatesAt(c, template_idx', "path", Last(stack).failed) /\ Updated(c)
  BY NextTemplateUpdates
<1>2. /\ stack # <<>> /\ Last(stack).fn = "generate_templates" /\ Last(stack).stage = "next"
      /\ Remaining(Last(stack)) # {} /\ template_idx' = Min(Remaining(Last(stack)))
      /\ UNCHANGED <<args, phase, templates, generated, done>>
  BY TemplateStarts
<1>3. /\ Turned(c) /\ c.fn = "generate_templates" /\ c.event = Last(stack).event
      /\ c.i = template_idx' /\ c.stage = "path" /\ c.failed = Last(stack).failed
  BY <1>1, <1>2 DEF TemplatesAt, Turned
<1>4. /\ c.i \in Remaining(Last(stack))
      /\ \A x \in Remaining(Last(stack)) : c.i <= x
  BY <1>2, <1>3, RemainingIsNat
<1>5. c.i \in DOMAIN templates /\ Registered(templates[c.i], c.event)
  BY <1>3, <1>4 DEF Remaining
<1>6. /\ Last(stack) = stack[Len(stack)] /\ Len(stack) \in Of(stack, OfEvents)
      /\ Last(stack).i \in Nat
  BY <1>1, <1>2, TopCall DEF StackInv, Updated, Call
<1>7. ASSUME ~ c.failed, NEW i \in DOMAIN templates, Registered(templates[i], c.event),
             i <= c.i, i = c.i => c.stage = "next"
      PROVE  [what |-> "template", event |-> c.event, i |-> i] \in done'
  <2>1. i \in Nat /\ c.i \in Nat
    BY <1>5, SequenceFacts DEF StackInv
  <2>2. i \notin Remaining(Last(stack))
    <3>1. ~ (c.i <= i)
      BY <1>3, <1>7, <2>1
    <3> QED BY <1>4, <3>1
  <2>3. i <= Last(stack).i
    BY <1>3, <1>6, <1>7, <2>1, <2>2 DEF Remaining
  <2> QED BY <1>2, <1>3, <1>6, <1>7, <2>3 DEF EventInvs, DoneInv, TemplateDone
<1> QED BY <1>1, <1>2, <1>3, <1>5, <1>7, UpdateKeeps

LEMMA TemplateContinuesKeeps ==
  ASSUME EventInvs, StackInv, StackInv', TemplateContinues
  PROVE  EventInvs'
<1>1. PICK stage \in {"filename", "contents"} : \E c :
        TemplatesAt(c, Last(stack).i, stage, Last(stack).failed) /\ Updated(c)
  BY TemplateContinuesUpdates
<1>2. PICK c : TemplatesAt(c, Last(stack).i, stage, Last(stack).failed) /\ Updated(c)
  BY <1>1
<1>3. /\ stack # <<>> /\ Last(stack).fn = "generate_templates" /\ Last(stack).stage # "next"
      /\ generated' \in {generated, generated \cup {Last(stack).i}}
      /\ UNCHANGED <<args, phase, templates, done>>
  BY TemplateGoesOn
<1>4. /\ Turned(c) /\ c.fn = "generate_templates" /\ c.event = Last(stack).event
      /\ c.i = Last(stack).i /\ c.stage # "next" /\ c.failed = Last(stack).failed
  BY <1>2, <1>3 DEF TemplatesAt, Turned
<1>5. Last(stack) = stack[Len(stack)] /\ Len(stack) \in Of(stack, OfEvents)
  BY <1>2, <1>3, TopCall DEF StackInv, Updated
<1>6. c.i \in DOMAIN templates /\ Registered(templates[c.i], c.event)
  BY <1>3, <1>4, <1>5 DEF EventInvs, CurrentInv
<1>7. ASSUME ~ c.failed, NEW i \in DOMAIN templates, Registered(templates[i], c.event),
             i <= c.i, i = c.i => c.stage = "next"
      PROVE  [what |-> "template", event |-> c.event, i |-> i] \in done'
  BY <1>3, <1>4, <1>5, <1>7 DEF EventInvs, DoneInv, TemplateDone
<1>8. \A i \in generated' : i \in generated \/ Registered(templates[i], c.event)
  BY <1>3, <1>4, <1>6
<1> QED BY <1>2, <1>3, <1>4, <1>6, <1>7, <1>8, UpdateKeeps

LEMMA TemplateReturnsKeeps ==
  ASSUME EventInvs, StackInv, StackInv', TemplateReturns
  PROVE  EventInvs'
<1>1. PICK c :
        /\ Updated(c)
        /\ \/ TemplatesAt(c, Last(stack).i, "next", TRUE) /\ UNCHANGED done
           \/ /\ TemplatesAt(c, Last(stack).i, "next", Last(stack).failed)
              /\ done' = done \cup {[what |-> "template", event |-> Last(stack).event,
                                     i |-> Last(stack).i]}
  BY TemplateReturnsUpdates
<1>2. /\ stack # <<>> /\ Last(stack).fn = "generate_templates" /\ res # "none"
      /\ UNCHANGED <<args, phase, templates, generated>>
  BY TemplateEnds
<1>3. /\ Turned(c) /\ c.fn = "generate_templates" /\ c.event = Last(stack).event
      /\ c.i = Last(stack).i /\ c.stage = "next"
  BY <1>1, <1>2 DEF TemplatesAt, Turned
<1>4. Last(stack) = stack[Len(stack)] /\ Len(stack) \in Of(stack, OfEvents)
  BY <1>1, <1>2, TopCall DEF StackInv, Updated
<1>5. done \subseteq done' /\ \A d \in done' : d \in done \/ d.what = "template"
  <2> DEFINE r == [what |-> "template", event |-> Last(stack).event, i |-> Last(stack).i]
  <2>1. r.what = "template"
    OBVIOUS
  <2>2. done' = done \/ done' = done \cup {r}
    BY <1>1
  <2> HIDE DEF r
  <2> QED BY <2>1, <2>2
<1>6. ASSUME ~ c.failed, NEW i \in DOMAIN templates, Registered(templates[i], c.event),
             i <= c.i
      PROVE  [what |-> "template", event |-> c.event, i |-> i] \in done'
  <2>1. ~ Last(stack).failed
        /\ done' = done \cup {[what |-> "template", event |-> Last(stack).event,
                               i |-> Last(stack).i]}
    BY <1>1, <1>6 DEF TemplatesAt
  <2>2. CASE i = c.i
    BY <1>3, <2>1, <2>2
  <2>3. CASE i # c.i
    BY <1>2, <1>3, <1>4, <1>5, <1>6, <2>1, <2>3 DEF EventInvs, DoneInv, TemplateDone
  <2> QED BY <2>2, <2>3
<1> QED BY <1>1, <1>2, <1>3, <1>5, <1>6, UpdateKeeps

LEMMA CommandReturnsKeepsAll ==
  ASSUME EventInvs, StackInv, CommandReturns
  PROVE  EventInvs'
<1>1. /\ Of(stack', OfEvents) = Of(stack, OfEvents)
      /\ \A n \in Of(stack, OfEvents) :
           /\ stack'[n].fn = stack[n].fn /\ stack'[n].event = stack[n].event
           /\ stack[n].fn = "generate_templates" =>
                /\ stack'[n].i = stack[n].i /\ stack'[n].stage = stack[n].stage
                /\ stack'[n].failed = stack[n].failed
  BY CommandReturnsKeeps DEF Kept, SameCall, Of
<1>2. /\ stack # <<>> /\ Last(stack).fn = "execute_list"
      /\ UNCHANGED <<args, phase, templates, generated, template_idx>>
  BY CommandEnds
<1>3. PICK j : done' \in {done, done \cup {[what |-> "command", event |-> Last(stack).event,
                                            i |-> j]}}
  BY CommandEnds
<1>4. /\ Last(stack) = stack[Len(stack)] /\ Len(stack) \in Nat /\ Len(stack) > 0
      /\ DOMAIN stack = 1..Len(stack)
  BY <1>2, SequenceFacts DEF StackInv, WellFormed
<1>5. Len(stack) \in Of(stack, OfEvents) /\ ~ IsGenerating(stack, Len(stack))
  <2>1. Len(stack) \in 1..Len(stack) /\ Len(stack) + 1 \notin 1..Len(stack)
    BY <1>4
  <2> QED BY <1>2, <1>4, <2>1 DEF Of, OfEvents, IsGenerating
<1>6. CommandsFollowTemplates'
  <2> SUFFICES ASSUME NEW d \in done', NEW i \in DOMAIN templates, d.what = "command",
                      Registered(templates[i], d.event)
               PROVE  [what |-> "template", event |-> d.event, i |-> i] \in done'
    BY <1>2 DEF CommandsFollowTemplates, Registered
  <2>1. CASE d \in done
    BY <1>3, <2>1 DEF EventInvs, DoneInv, CommandsFollowTemplates
  <2>2. CASE d = [what |-> "command", event |-> Last(stack).event, i |-> j]
    <3>1. d.event = Last(stack).event
      BY <2>2
    <3> QED BY <1>2, <1>3, <1>4, <1>5, <3>1 DEF EventInvs, DoneInv, TemplateDone
  <2> QED BY <1>3, <2>1, <2>2
<1>7. TemplateInv'
  BY <1>1, <1>2 DEF EventInvs, TemplateInv, InTemplates
<1>8. CurrentInv'
  BY <1>1, <1>2 DEF EventInvs, CurrentInv, Registered
<1>9. PathsInv'
  BY <1>1, <1>2 DEF EventInvs, PathsInv, Registered
<1>10. DoneInv'
  <2>1. \A n \in Of(stack, OfEvents) : IsGenerating(stack', n) <=> IsGenerating(stack, n)
    BY <1>1 DEF IsGenerating
  <2>2. phase' # "load" /\ done \subseteq done'
    BY <1>2, <1>3 DEF StackInv
  <2> QED BY <1>1, <1>2, <1>6, <2>1, <2>2 DEF EventInvs, DoneInv, TemplateDone, Registered
<1> QED BY <1>6, <1>7, <1>8, <1>9, <1>10 DEF EventInvs

\* When calls return, the commands that are next are those whose templates are done.
LEMMA ReturnKeeps ==
  ASSUME EventInvs, Of(stack', OfEvents) \subseteq Of(stack, OfEvents),
         \A n \in Of(stack', OfEvents) : stack'[n] = stack[n],
         \A n \in Of(stack', OfEvents) :
           stack[n].fn = "execute_list" /\ ~ IsGenerating(stack', n) /\ IsGenerating(stack, n) =>
             \A i \in DOMAIN templates :
               Registered(templates[i], stack[n].event) => TemplateDone(stack[n].event, i),
         UNCHANGED <<args, phase, templates, generated, done>>,
         TemplateInv'
  PROVE  EventInvs'
<1>1. CurrentInv'
  BY DEF EventInvs, CurrentInv, Registered
<1>2. PathsInv'
  BY DEF EventInvs, PathsInv, Registered
<1>3. CommandsFollowTemplates'
  BY DEF EventInvs, DoneInv, CommandsFollowTemplates, Registered
<1>4. DoneInv'
  BY <1>3 DEF EventInvs, DoneInv, TemplateDone, Registered
<1> QED BY <1>1, <1>2, <1>4 DEF EventInvs

\* A call that is not the last is below the one that it has made.
LEMMA TopIsCalled ==
  ASSUME NEW s, NEW signals, WellFormed(s, signals), s # <<>>,
         Last(s).fn = "generate_templates"
  PROVE  /\ s \in Seq(Range(s)) /\ Len(s) \in Nat /\ Len(s) > 1
         /\ DOMAIN s = 1..Len(s)
         /\ s[Len(s) - 1].fn = "execute_list"
         /\ s[Len(s) - 1].event = s[Len(s)].event
         /\ Last(s) = s[Len(s)]
<1>1. /\ s \in Seq(Range(s)) /\ Len(s) \in Nat /\ Len(s) > 0 /\ DOMAIN s = 1..Len(s)
      /\ Last(s) = s[Len(s)]
  BY SequenceFacts DEF WellFormed
<1>2. Len(s) # 1
  BY <1>1 DEF WellFormed
<1>3. Len(s) - 1 \in 1..Len(s) /\ Len(s) - 1 < Len(s) /\ (Len(s) - 1) + 1 = Len(s)
      /\ Len(s) > 1
  BY <1>1, <1>2
<1>4. MayCall(s[Len(s) - 1], s[Len(s)], signals)
  BY <1>3 DEF WellFormed
<1> QED BY <1>1, <1>3, <1>4 DEF MayCall

LEMMA GenerateTemplatesEndsKeeps ==
  ASSUME EventInvs, StackInv, GenerateTemplatesEnds
  PROVE  EventInvs'
<1>1. /\ stack # <<>> /\ Last(stack).fn = "generate_templates"
      /\ Last(stack).stage = "next" /\ Remaining(Last(stack)) = {}
      /\ template_idx' = 0
      /\ stack' = IF Last(stack).failed THEN Front(Front(stack)) ELSE Front(stack)
      /\ UNCHANGED <<args, phase, templates, generated, done>>
  BY DEF GenerateTemplatesEnds, Running, TemplatesEnd, Top, loadVars
<1> DEFINE N == Len(stack)
<1>2. /\ stack \in Seq(Range(stack)) /\ N \in Nat /\ N > 1 /\ DOMAIN stack = 1..N
      /\ stack[N - 1].fn = "execute_list" /\ stack[N - 1].event = stack[N].event
      /\ Last(stack) = stack[N]
  BY <1>1, TopIsCalled DEF StackInv
<1>3. TemplateInv'
  BY <1>1 DEF TemplateInv
<1>4. /\ Of(Front(stack), OfEvents) = Of(stack, OfEvents) \ {N}
      /\ \A i \in Of(Front(stack), OfEvents) : Front(stack)[i] = stack[i]
  BY <1>1, <1>2, CallsWithoutTop
<1>5. CASE ~ Last(stack).failed
  <2>1. stack' = Front(stack)
    BY <1>1, <1>5
  <2>2. ASSUME NEW n \in Of(stack', OfEvents), IsGenerating(stack, n),
               ~ IsGenerating(stack', n), NEW i \in DOMAIN templates,
               Registered(templates[i], stack[n].event)
        PROVE  TemplateDone(stack[n].event, i)
    <3>1. n + 1 = N
      BY <1>4, <2>1, <2>2 DEF IsGenerating
    <3>2. n = N - 1
      <4>1. n \in 1..N
        BY <1>2, <1>4, <2>1 DEF Of
      <4> QED BY <1>2, <3>1, <4>1
    <3>3. stack[n].event = Last(stack).event
      BY <1>2, <3>2
    <3>4. N \in Of(stack, OfEvents)
      BY <1>1, <1>2 DEF Of, OfEvents
    <3>5. i \in Nat /\ Last(stack).i \in Nat
      <4>1. Call(Last(stack))
        BY <1>1, TopCall DEF StackInv
      <4> QED BY <1>1, <4>1, SequenceFacts DEF StackInv, Call
    <3>6. i <= Last(stack).i
      BY <1>1, <2>2, <3>3, <3>5 DEF Remaining
    <3> QED BY <1>1, <1>2, <1>5, <2>2, <3>3, <3>4, <3>6 DEF EventInvs, DoneInv
  <2> HIDE DEF N
  <2> QED BY <1>1, <1>3, <1>4, <2>1, <2>2, ReturnKeeps
<1>6. CASE Last(stack).failed
  <2> DEFINE t == Front(stack)
  <2>1. stack' = Front(t)
    BY <1>1, <1>6
  <2>2. t \in Seq(Range(t)) /\ Len(t) = N - 1 /\ t # <<>>
    <3>1. t \in Seq(Range(t)) /\ Len(t) = N - 1
      BY <1>1, <1>2, FrontFacts
    <3> HIDE DEF t
    <3> QED BY <1>2, <3>1, SequenceFacts
  <2>3. /\ Of(t, OfEvents) = Of(stack, OfEvents) \ {N}
        /\ \A i \in Of(t, OfEvents) : t[i] = stack[i]
    BY <1>4
  <2> HIDE DEF t, N
  <2>4. /\ Of(stack', OfEvents) = Of(t, OfEvents) \ {N - 1}
        /\ \A i \in Of(stack', OfEvents) : stack'[i] = t[i]
    BY <2>1, <2>2, CallsWithoutTop
  <2>5. /\ Of(stack', OfEvents) = Of(stack, OfEvents) \ {N, N - 1}
        /\ \A i \in Of(stack', OfEvents) : stack'[i] = stack[i]
    BY <2>3, <2>4
  <2>6. ASSUME NEW n \in Of(stack', OfEvents), IsGenerating(stack, n)
        PROVE  IsGenerating(stack', n)
    <3>1. n # N - 1
      BY <2>5
    <3>2. n + 1 # N
      <4>1. n \in 1..N
        BY <1>2, <2>5 DEF Of
      <4> QED BY <1>2, <3>1, <4>1
    <3>3. n + 1 # N - 1
      BY <1>2, <2>6 DEF IsGenerating
    <3> QED BY <2>5, <2>6, <3>2, <3>3 DEF IsGenerating
  <2> QED BY <1>1, <1>3, <2>5, <2>6, ReturnKeeps
<1> QED BY <1>5, <1>6

LEMMA ExecuteListEndsKeeps ==
  ASSUME EventInvs, StackInv, ExecuteListEnds
  PROVE  EventInvs'
<1>1. /\ stack # <<>> /\ Last(stack).fn = "execute_list" /\ stack' = Front(stack)
      /\ UNCHANGED <<args, phase, templates, generated, template_idx, done>>
  BY DEF ExecuteListEnds, Running, Return, Top, loadVars
<1> DEFINE N == Len(stack)
<1>2. /\ stack \in Seq(Range(stack)) /\ Last(stack) = stack[N]
      /\ Of(stack', OfEvents) = Of(stack, OfEvents) \ {N}
      /\ \A i \in Of(stack', OfEvents) : stack'[i] = stack[i]
  BY <1>1, SequenceFacts, CallsWithoutTop DEF StackInv, WellFormed
<1> HIDE DEF N
<1>3. stack[N].fn # "generate_templates"
  BY <1>1, <1>2
<1>4. TemplateInv'
  BY <1>1, <1>2, <1>3 DEF EventInvs, TemplateInv, InTemplates
<1>5. \A n \in Of(stack', OfEvents) : IsGenerating(stack, n) => IsGenerating(stack', n)
  BY <1>2, <1>3 DEF IsGenerating
<1> QED BY <1>1, <1>2, <1>4, <1>5, ReturnKeeps

LEMMA EventInvsStep ==
  ASSUME EventInvs, StackInv, [Next]_vars
  PROVE  EventInvs'
<1>0. StackInv'
  BY StackInvStep
<1>1. CASE LoadTemplate \/ OutputDestroy \/ MatcherIsGone
  BY <1>1, NoStackKeeps
<1>2. CASE UnlockAtExit \/ \E event : TriggerEvent(event) \/ SignalEvent(event)
  BY <1>2, PushKeeps
<1>3. CASE NextTemplate
  BY <1>0, <1>3, NextTemplateKeeps
<1>4. CASE TemplateContinues
  BY <1>0, <1>4, TemplateContinuesKeeps
<1>5. CASE TemplateReturns
  BY <1>0, <1>5, TemplateReturnsKeeps
<1>6. CASE GenerateTemplatesEnds
  BY <1>6, GenerateTemplatesEndsKeeps
<1>7. CASE CommandReturns
  BY <1>7, CommandReturnsKeepsAll
<1>8. CASE ExecuteListEnds
  BY <1>8, ExecuteListEndsKeeps
<1>9. CASE QuietStep
  BY <1>9, QuietKeeps
<1> QED
  BY StepsKeep, <1>1, <1>2, <1>3, <1>4, <1>5, <1>6, <1>7, <1>8, <1>9 DEF EventStep

---------------------------------------------------------------------------
(* The invariant, and the theorems                                         *)

Inv == StackInv /\ CountInv /\ ErrorInv /\ FlagInv /\ LoopVarInv /\ EventInvs

LEMMA InvInit == Init => Inv
<1> SUFFICES ASSUME Init PROVE Inv
  OBVIOUS
<1>1. /\ stack = <<>> /\ res = "none" /\ recursion = 0 /\ recursion_error = FALSE
      /\ no_relative_path = FALSE /\ userVars = args.user_vars /\ template_idx = 0
      /\ templates = <<>> /\ generated = {} /\ done = {} /\ phase = "load"
  BY DEF Init
<1>2. StackInv
  BY StackInvInit
<1>3. CountInv
  <2>1. Alive(<<>>, "none") = 0 /\ Owed(<<>>, "none") = 0
    BY EmptyTotals DEF Alive, Owed, Unwinding, OneIf
  <2>2. MaxRecursion \in Nat /\ Interrupts \in Nat
    BY OutputAssumption DEF Interrupts
  <2> QED BY <1>1, <2>1, <2>2, EmptyTotals DEF CountInv, Counted
<1>4. ErrorInv
  BY <1>1 DEF ErrorInv, Erring
<1>5. FlagInv
  BY <1>1, EmptyVariables DEF FlagInv
<1>6. LoopVarInv
  BY <1>1, EmptyVariables DEF LoopVarInv
<1>7. EventInvs
  BY <1>1, NoCalls DEF EventInvs, TemplateInv, CurrentInv, PathsInv, DoneInv,
                       CommandsFollowTemplates
<1> QED BY <1>2, <1>3, <1>4, <1>5, <1>6, <1>7 DEF Inv

LEMMA InvStep == Inv /\ [Next]_vars => Inv'
BY StackInvStep, CountStep, FlagInvStep, LoopVarInvStep, EventInvsStep DEF Inv

LEMMA Invariance == Spec => []Inv
BY InvInit, InvStep, PTL DEF Spec

LEMMA CallsAreCounted == \A fn : Calls(fn) = Count(stack, fn)
BY DEF Calls, Count, Positions

\* However texts refer to each other and wherever handlers interrupt them, generate
\* nests at most as deep as its limit and a level for each handler, and a path is made
\* relative in at most one of the calls (catcierge_output_generate, catcierge_get_path).
THEOREM NestingIsBounded == Spec => []NestingBounded
<1>1. Inv => NestingBounded
  <2> SUFFICES ASSUME Inv PROVE NestingBounded
    OBVIOUS
  <2>1. Counted(stack, res, recursion, Interrupts)
    BY DEF Inv, CountInv
  <2>2. WellFormed(stack, args.signals)
    BY DEF Inv, StackInv
  <2>3. recursion \in 0..(MaxRecursion + Interrupts)
    <3>1. Texts(stack) \in Nat /\ Open(stack) \in Nat /\ Interrupts \in Nat
          /\ MaxRecursion \in Nat
      BY CountTypes DEF Inv
    <3>2. Open(stack) <= Texts(stack)
      BY <2>2, VariablesHaveTexts
    <3>3. Unwinding(stack, res) =>
            Open(stack) + 1 <= Texts(stack) + OneIf(IsVariableCall(Last(stack)))
      BY <2>2, TextsAndVariables DEF Unwinding
    <3>4. Unwinding(stack, res) => stack # <<>>
      BY DEF Unwinding
    <3>5. Alive(stack, res) >= 0
      BY <3>1, <3>2, <3>3, <3>4 DEF Alive, OneIf
    <3>6. recursion \in Nat /\ recursion + Alive(stack, res) <= MaxRecursion + Interrupts
      BY <2>1 DEF Counted
    <3>7. Alive(stack, res) \in Int
      BY <3>1 DEF Alive, OneIf
    <3> QED BY <3>1, <3>5, <3>6, <3>7
  <2>4. Calls("generate") <= MaxRecursion + Interrupts
    BY <2>1, CallsAreCounted DEF Counted, Texts
  <2>5. Cardinality(Relatives(stack)) <= 1
    <3>1. CASE Relatives(stack) = {}
      BY <3>1, FS_EmptySet
    <3>2. CASE Relatives(stack) # {}
      <4>1. PICK i : Relatives(stack) = {i}
        BY <3>2 DEF Inv, FlagInv
      <4> QED BY <4>1, FS_Singleton
    <3> QED BY <3>1, <3>2
  <2> QED BY <2>3, <2>4, <2>5 DEF NestingBounded, Relatives, IsRelativeCall
<1> QED BY <1>1, Invariance, PTL

\* Between two events no flag, no loop variable and no current template is left, and
\* without handlers no recursion error with a counter at zero, whatever failed in the
\* last event (catcierge_get_path, catcierge_parse_for_loop, catcierge_output_generate).
THEOREM IdleIsAlwaysClean == Spec => []IdleIsClean
<1>1. Inv => IdleIsClean
  <2> SUFFICES ASSUME Inv, Idle PROVE IdleIsClean
    BY DEF IdleIsClean
  <2>1. stack = <<>>
    BY DEF Idle
  <2>2. Relatives(stack) = {} /\ Loops(stack) = {} /\ Of(stack, OfEvents) = {}
    BY <2>1, EmptyVariables, NoCalls
  <2>3. phase \in {"load", "run"} =>
          ~ no_relative_path /\ userVars = args.user_vars /\ template_idx = 0
    BY <2>2 DEF Inv, FlagInv, LoopVarInv, EventInvs, TemplateInv, InTemplates
  <2>4. ~ args.signals /\ recursion_error => recursion > 0
    BY DEF Inv, ErrorInv, Erring
  <2> QED BY <2>3, <2>4 DEF IdleIsClean
<1> QED BY <1>1, Invariance, PTL

\* Without handlers every path that may stand in a command is one of a template of the
\* command's event (catcierge_output_free_generated_paths).
THEOREM PathsAreAlwaysOfThisEvent == Spec => []PathsAreOfThisEvent
<1>1. Inv => PathsAreOfThisEvent
  BY DEF Inv, EventInvs, PathsInv, PathsAreOfThisEvent, Of, OfEvents
<1> QED BY <1>1, Invariance, PTL

\* A command that was run follows every template of its event, wherever handlers
\* interrupt (catcierge_output_execute_list).
THEOREM CommandsAlwaysFollowTemplates == Spec => []CommandsFollowTemplates
<1>1. Inv => CommandsFollowTemplates
  BY DEF Inv, EventInvs, DoneInv
<1> QED BY <1>1, Invariance, PTL

\* A step counts too many variables only if its text fails, or the process dies in it
\* (catcierge_output_generate).
THEOREM CounterLeaksOnlyOnFailure == Spec => LeaksOnlyOnFailure
<1>1. ASSUME Inv, [Next]_vars
      PROVE  recursion' - Pending' > recursion - Pending =>
               res' = "null" \/ phase' = "crashed"
  <2>1. /\ Pending = Owed(stack, res)
        /\ Pending' = Owed(stack', res')
    BY CallsAreCounted DEF Pending, Owed, Open, OneIf, Top, Calls, Count, Positions
  <2>2. Inv' /\ Costless
    BY <1>1, InvStep, CountStep DEF Inv
  <2>3. recursion \in Nat /\ recursion' \in Nat
    BY <1>1, <2>2 DEF Inv, CountInv, Counted
  <2>4. Owed(stack, res) \in Nat /\ Owed(stack', res') \in Nat
    <3>1. stack \in Seq(Range(stack)) /\ stack' \in Seq(Range(stack'))
      BY <1>1, <2>2 DEF Inv, StackInv, WellFormed
    <3>2. Open(stack) \in Nat /\ Open(stack') \in Nat
      BY <3>1, TotalsType
    <3> QED BY <3>2 DEF Owed, OneIf
  <2> QED BY <2>1, <2>2, <2>3, <2>4 DEF Costless
<1> QED BY <1>1, Invariance, PTL DEF Spec, LeaksOnlyOnFailure
=============================================================================
