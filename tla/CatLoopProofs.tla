--------------------------- MODULE CatLoopProofs ---------------------------
(***************************************************************************)
(* The process leaves the door open at its end, and a lockout has its      *)
(* timer, for every number of signals and wherever they come between the   *)
(* writes of the main thread.                                              *)
(***************************************************************************)
EXTENDS CatLoop, SequenceTheorems, TLAPS

-----------------------------------------------------------------------------
(***************************************************************************)
(* The entries of the stack, and what is known of a stack.                 *)
(***************************************************************************)
\* What a state function, a handler or a failed capture puts on the stack.
PlainOp ==
  {"setWaiting", "setMatching", "setKeepopen", "setLockout", "stop", "resetTimer",
   "startTimer", "lock", "unlock", "endSIGUSR1", "endSIGUSR2",
   "deleteSemaphores", "destroyCamera"}

Op ==
  PlainOp
  \cup {"openCamera", "cameraOpened", "queryFrame", "frameReceived", "releaseCamera"}
  \cup {"run", "runState", "while", "exit", "forcedExit"}

\* What can end in a locked door is followed by an unlock or a next iteration.
LocksCovered(stack) ==
  \A i \in DOMAIN stack :
    stack[i] \in {"lock", "runState"} /\ Reached(stack, i) => UnlocksAfter(stack, i)

ExitIsLast(stack) == \A i \in DOMAIN stack : stack[i] = "exit" => i = Len(stack)

\* The two halves of the opening of the camera stay together.
OpeningTogether(stack) ==
  \A i \in DOMAIN stack :
    stack[i] = "openCamera" => i < Len(stack) /\ stack[i + 1] = "cameraOpened"

Sound(stack) == ExitIsLast(stack) /\ OpeningTogether(stack)

-----------------------------------------------------------------------------
\* A stack without its first entry.
LEMMA TailOfStack ==
  ASSUME NEW s \in Seq(Op), s # <<>>
  PROVE  /\ Tail(s) \in Seq(Op)
         /\ DOMAIN Tail(s) = 1..(Len(s) - 1)
         /\ \A i \in 1..(Len(s) - 1) : Tail(s)[i] = s[i + 1]
         /\ Head(s) = s[1]
         /\ Len(s) \in Nat /\ Len(s) > 0 /\ DOMAIN s = 1..Len(s)
BY HeadTailProperties, EmptySeq, LenProperties, SMT

LEMMA TailReached ==
  ASSUME NEW s \in Seq(Op), s # <<>>, s[1] # "forcedExit",
         NEW i \in Nat, i > 0, i < Len(s)
  PROVE  Reached(Tail(s), i) <=> Reached(s, i + 1)
<1> DEFINE t == Tail(s)
<1>0. Len(s) \in Nat /\ \A k \in 1..(Len(s) - 1) : t[k] = s[k + 1]
  BY TailOfStack
<1> HIDE DEF t
<1>1. ASSUME Reached(t, i), NEW j \in 1..(i + 1) PROVE s[j] # "forcedExit"
  <2>1. CASE j = 1
    BY <2>1
  <2>2. CASE j # 1
    <3>1. j - 1 \in 1..i /\ j - 1 \in 1..(Len(s) - 1) /\ (j - 1) + 1 = j
      BY <1>0, <2>2
    <3>2. t[j - 1] = s[j]
      BY <1>0, <3>1
    <3> QED
      BY <1>1, <3>1, <3>2 DEF Reached
  <2> QED
    BY <2>1, <2>2
<1>2. ASSUME Reached(s, i + 1), NEW j \in 1..i PROVE t[j] # "forcedExit"
  <2>1. j + 1 \in 1..(i + 1) /\ j \in 1..(Len(s) - 1)
    BY <1>0
  <2> QED
    BY <1>0, <1>2, <2>1 DEF Reached
<1> QED
  BY <1>1, <1>2 DEF Reached, t

LEMMA TailUnlocks ==
  ASSUME NEW s \in Seq(Op), s # <<>>, s[1] # "forcedExit", NEW n \in Nat,
         UnlocksAfter(s, n + 1)
  PROVE  UnlocksAfter(Tail(s), n)
<1>1. PICK i \in DOMAIN s : i > n + 1 /\ s[i] \in {"while", "unlock"} /\ Reached(s, i)
  BY DEF UnlocksAfter
<1>2. Len(s) \in Nat /\ DOMAIN s = 1..Len(s)
  BY TailOfStack
<1>3. i - 1 \in Nat /\ i - 1 > 0 /\ i - 1 < Len(s) /\ (i - 1) + 1 = i
  BY <1>1, <1>2
<1>4. i - 1 \in 1..(Len(s) - 1)
  BY <1>2, <1>3
<1>5. Tail(s)[i - 1] = s[i] /\ i - 1 \in DOMAIN Tail(s)
  BY <1>3, <1>4, TailOfStack
<1>6. Reached(Tail(s), i - 1)
  BY <1>1, <1>3, TailReached
<1>7. i - 1 > n
  BY <1>1, <1>3
<1> QED
  BY <1>1, <1>5, <1>6, <1>7 DEF UnlocksAfter

\* A stack whose first entry is done keeps what is known of it.
LEMMA TailSound ==
  ASSUME NEW s \in Seq(Op), s # <<>>, Sound(s)
  PROVE  Sound(Tail(s))
<1> DEFINE t == Tail(s)
<1>1. /\ DOMAIN t = 1..(Len(s) - 1) /\ DOMAIN s = 1..Len(s)
      /\ \A i \in 1..(Len(s) - 1) : t[i] = s[i + 1]
      /\ Len(s) \in Nat /\ Len(t) = Len(s) - 1
  BY TailOfStack, HeadTailProperties
<1> HIDE DEF t
<1>2. ExitIsLast(t)
  <2> SUFFICES ASSUME NEW i \in DOMAIN t, t[i] = "exit" PROVE i = Len(t)
    BY DEF ExitIsLast
  <2>1. i \in Nat /\ i + 1 \in DOMAIN s /\ s[i + 1] = "exit"
    BY <1>1
  <2>2. i + 1 = Len(s)
    BY <2>1 DEF Sound, ExitIsLast
  <2> QED
    BY <1>1, <2>1, <2>2
<1>3. OpeningTogether(t)
  <2> SUFFICES ASSUME NEW i \in DOMAIN t, t[i] = "openCamera"
               PROVE  i < Len(t) /\ t[i + 1] = "cameraOpened"
    BY DEF OpeningTogether
  <2>1. i \in Nat /\ i + 1 \in DOMAIN s /\ s[i + 1] = "openCamera"
    BY <1>1
  <2>2. i + 1 < Len(s) /\ s[(i + 1) + 1] = "cameraOpened"
    BY <2>1 DEF Sound, OpeningTogether
  <2>3. i + 1 \in 1..(Len(s) - 1)
    BY <1>1, <2>1, <2>2
  <2> QED
    BY <1>1, <2>2, <2>3
<1> QED
  BY <1>2, <1>3 DEF Sound, t

LEMMA TailCovered ==
  ASSUME NEW s \in Seq(Op), s # <<>>, s[1] # "forcedExit", LocksCovered(s)
  PROVE  LocksCovered(Tail(s))
<1> SUFFICES ASSUME NEW i \in DOMAIN Tail(s), Tail(s)[i] \in {"lock", "runState"},
                    Reached(Tail(s), i)
             PROVE  UnlocksAfter(Tail(s), i)
  BY DEF LocksCovered
<1>1. /\ i \in 1..(Len(s) - 1) /\ Len(s) \in Nat /\ DOMAIN s = 1..Len(s)
      /\ s[i + 1] = Tail(s)[i]
  BY TailOfStack
<1>2. i \in Nat /\ i > 0 /\ i < Len(s) /\ i + 1 \in DOMAIN s
  BY <1>1
<1>3. Reached(s, i + 1)
  BY <1>2, TailReached
<1>4. UnlocksAfter(s, i + 1)
  BY <1>1, <1>2, <1>3 DEF LocksCovered
<1> QED
  BY <1>2, <1>4, TailUnlocks

-----------------------------------------------------------------------------
\* A stack with writes put on it.
LEMMA StackWith ==
  ASSUME NEW w \in Seq(Op), NEW s \in Seq(Op)
  PROVE  /\ w \o s \in Seq(Op)
         /\ Len(w) \in Nat /\ Len(s) \in Nat /\ Len(w \o s) = Len(w) + Len(s)
         /\ DOMAIN w = 1..Len(w) /\ DOMAIN s = 1..Len(s)
         /\ DOMAIN (w \o s) = 1..(Len(w) + Len(s))
         /\ \A i \in 1..Len(w) : (w \o s)[i] = w[i]
         /\ \A i \in 1..Len(s) : (w \o s)[Len(w) + i] = s[i]
<1>1. /\ w \o s \in Seq(Op)
      /\ Len(w \o s) = Len(w) + Len(s)
      /\ \A i \in 1..(Len(w) + Len(s)) :
           (w \o s)[i] = IF i <= Len(w) THEN w[i] ELSE s[i - Len(w)]
  BY ConcatProperties
<1>2. /\ Len(w) \in Nat /\ Len(s) \in Nat
      /\ DOMAIN w = 1..Len(w) /\ DOMAIN s = 1..Len(s)
      /\ DOMAIN (w \o s) = 1..Len(w \o s)
  BY <1>1, LenProperties
<1> DEFINE t == w \o s
           m == Len(w)
           n == Len(s)
<1> HIDE DEF t, m, n
<1>3. m \in Nat /\ n \in Nat
  BY <1>2 DEF m, n
<1>4. \A i \in 1..(m + n) : t[i] = IF i <= m THEN w[i] ELSE s[i - m]
  BY <1>1 DEF t, m, n
<1>5. \A i \in 1..m : t[i] = w[i]
  BY <1>3, <1>4
<1>6. ASSUME NEW i \in 1..n PROVE t[m + i] = s[i]
  <2>1. m + i \in 1..(m + n) /\ ~(m + i <= m) /\ (m + i) - m = i
    BY <1>3
  <2> QED
    BY <1>4, <2>1
<1> QED
  BY <1>1, <1>2, <1>5, <1>6 DEF t, m, n

\* The writes do not end the thread, so that it comes to the stack under them.
LEMMA StackReached ==
  ASSUME NEW w \in Seq(Op), NEW s \in Seq(Op),
         \A i \in DOMAIN w : w[i] # "forcedExit",
         NEW k \in 1..Len(s)
  PROVE  Reached(w \o s, Len(w) + k) <=> Reached(s, k)
<1> DEFINE t == w \o s
           m == Len(w)
           n == Len(s)
<1>1. /\ m \in Nat /\ n \in Nat /\ DOMAIN w = 1..m
      /\ \A i \in 1..m : t[i] = w[i]
      /\ \A i \in 1..n : t[m + i] = s[i]
  BY StackWith
<1> SUFFICES Reached(t, m + k) <=> Reached(s, k)
  OBVIOUS
<1>2. k \in 1..n
  OBVIOUS
<1> HIDE DEF t, m, n
<1>3. ASSUME Reached(t, m + k), NEW j \in 1..k PROVE s[j] # "forcedExit"
  <2>1. j \in 1..n /\ m + j \in 1..(m + k)
    BY <1>1, <1>2
  <2> QED
    BY <1>1, <1>3, <2>1 DEF Reached
<1>4. ASSUME Reached(s, k), NEW j \in 1..(m + k) PROVE t[j] # "forcedExit"
  <2>1. CASE j <= m
    <3>1. j \in 1..m
      BY <1>1, <2>1
    <3> QED
      BY <1>1, <3>1
  <2>2. CASE ~(j <= m)
    <3>1. j - m \in 1..k /\ j - m \in 1..n /\ m + (j - m) = j
      BY <1>1, <1>2, <2>2
    <3>2. t[j] = s[j - m]
      BY <1>1, <3>1
    <3> QED
      BY <1>4, <3>1, <3>2 DEF Reached
  <2> QED
    BY <2>1, <2>2
<1> QED
  BY <1>3, <1>4 DEF Reached

LEMMA StackUnlocks ==
  ASSUME NEW w \in Seq(Op), NEW s \in Seq(Op),
         \A i \in DOMAIN w : w[i] # "forcedExit",
         NEW n \in Nat, UnlocksAfter(s, n)
  PROVE  UnlocksAfter(w \o s, Len(w) + n)
<1>1. PICK i \in DOMAIN s : i > n /\ s[i] \in {"while", "unlock"} /\ Reached(s, i)
  BY DEF UnlocksAfter
<1>2. /\ Len(w) \in Nat /\ i \in 1..Len(s) /\ (w \o s)[Len(w) + i] = s[i]
      /\ Len(s) \in Nat /\ DOMAIN (w \o s) = 1..(Len(w) + Len(s))
  BY StackWith
<1>3. Reached(w \o s, Len(w) + i)
  BY <1>1, <1>2, StackReached
<1>4. Len(w) + i \in DOMAIN (w \o s) /\ Len(w) + i > Len(w) + n
  BY <1>1, <1>2
<1> QED
  BY <1>1, <1>2, <1>3, <1>4 DEF UnlocksAfter

LEMMA StackSound ==
  ASSUME NEW w \in Seq(Op), NEW s \in Seq(Op), Sound(s),
         \A i \in DOMAIN w : w[i] \notin {"exit", "openCamera"}
  PROVE  Sound(w \o s)
<1> DEFINE t == w \o s
           m == Len(w)
           n == Len(s)
<1>1. /\ m \in Nat /\ n \in Nat /\ DOMAIN w = 1..m /\ DOMAIN s = 1..n
      /\ DOMAIN t = 1..(m + n) /\ Len(t) = m + n
      /\ \A i \in 1..m : t[i] = w[i]
      /\ \A i \in 1..n : t[m + i] = s[i]
  BY StackWith
<1>2. /\ \A i \in 1..n : s[i] = "exit" => i = n
      /\ \A i \in 1..n : s[i] = "openCamera" => i < n /\ s[i + 1] = "cameraOpened"
  BY <1>1 DEF Sound, ExitIsLast, OpeningTogether
<1> HIDE DEF t, m, n
<1>3. ASSUME NEW i \in 1..(m + n), t[i] \in {"exit", "openCamera"}
      PROVE  i - m \in 1..n /\ t[i] = s[i - m] /\ m + (i - m) = i
  <2>1. ~(i <= m)
    <3> SUFFICES ASSUME i <= m PROVE FALSE
      OBVIOUS
    <3>1. i \in 1..m
      BY <1>1
    <3> QED
      BY <1>1, <1>3, <3>1
  <2>2. i - m \in 1..n /\ m + (i - m) = i
    BY <1>1, <2>1
  <2> QED
    BY <1>1, <2>2
<1>4. ASSUME NEW i \in 1..(m + n), t[i] = "exit" PROVE i = m + n
  BY <1>1, <1>2, <1>3, <1>4
<1>5. ASSUME NEW i \in 1..(m + n), t[i] = "openCamera"
      PROVE  i < m + n /\ t[i + 1] = "cameraOpened"
  <2>1. i - m \in 1..n /\ s[i - m] = "openCamera" /\ m + (i - m) = i
    BY <1>3, <1>5
  <2>2. i - m < n /\ s[(i - m) + 1] = "cameraOpened"
    BY <1>2, <2>1
  <2>3. (i - m) + 1 \in 1..n /\ m + ((i - m) + 1) = i + 1
    BY <1>1, <2>1, <2>2
  <2> QED
    BY <1>1, <2>2, <2>3
<1> QED
  BY <1>1, <1>4, <1>5 DEF Sound, ExitIsLast, OpeningTogether, t

\* Writes that lock may be put on a stack that unlocks.
LEMMA StackCovered ==
  ASSUME NEW w \in Seq(Op), NEW s \in Seq(Op), LocksCovered(s),
         \A i \in DOMAIN w : w[i] \notin {"forcedExit", "runState"},
         UnlocksAfter(s, 0) \/ \A i \in DOMAIN w : w[i] # "lock"
  PROVE  LocksCovered(w \o s)
<1> DEFINE t == w \o s
           m == Len(w)
           n == Len(s)
<1>1. /\ m \in Nat /\ n \in Nat /\ DOMAIN w = 1..m /\ DOMAIN s = 1..n
      /\ DOMAIN t = 1..(m + n)
      /\ \A i \in 1..m : t[i] = w[i]
      /\ \A i \in 1..n : t[m + i] = s[i]
  BY StackWith
<1>2. \A k \in 1..n : Reached(t, m + k) <=> Reached(s, k)
  BY StackReached
<1>3. \A k \in Nat : UnlocksAfter(s, k) => UnlocksAfter(t, m + k)
  BY StackUnlocks
<1> HIDE DEF t, m, n
<1> SUFFICES ASSUME NEW i \in 1..(m + n), t[i] \in {"lock", "runState"}, Reached(t, i)
             PROVE  UnlocksAfter(t, i)
  BY <1>1 DEF LocksCovered, t
<1>4. CASE i <= m
  <2>1. i \in 1..m /\ w[i] = "lock"
    BY <1>1, <1>4
  <2>2. UnlocksAfter(t, m)
    BY <1>1, <1>3, <2>1
  <2> QED
    BY <1>1, <1>4, <2>2 DEF UnlocksAfter
<1>5. CASE ~(i <= m)
  <2>1. i - m \in 1..n /\ i - m \in Nat /\ m + (i - m) = i
    BY <1>1, <1>5
  <2>2. s[i - m] = t[i] /\ Reached(s, i - m)
    BY <1>1, <1>2, <2>1
  <2>3. UnlocksAfter(s, i - m)
    BY <1>1, <2>1, <2>2 DEF LocksCovered
  <2> QED
    BY <1>3, <2>1, <2>3
<1> QED
  BY <1>4, <1>5

-----------------------------------------------------------------------------
(***************************************************************************)
(* The inductive invariant.                                                *)
(***************************************************************************)

\* A locked door will be unlocked, and so will one that is going to be locked,
\* unless SIGUSR2 came too late or the pin was not written.
DoorWillOpen ==
  "late" \notin mishaps =>
    /\ LocksCovered(todo)
    /\ locked /\ "pin" \notin mishaps => WillUnlock

LoopInv ==
  /\ todo \in Seq(Op)
  /\ state \in LoopState
  /\ Sound(todo)
  /\ DoorWillOpen

-----------------------------------------------------------------------------
(***************************************************************************)
(* The stacks the code starts from, and what is put on them.               *)
(***************************************************************************)
LEMMA IterationIsSound ==
  /\ Iteration \in Seq(Op) /\ Sound(Iteration)
  /\ LocksCovered(Iteration) /\ UnlocksAfter(Iteration, 0)
<1>1. Iteration \in Seq(Op)
  BY DEF Iteration, Op
<1>2. /\ Len(Iteration) = 4
      /\ Iteration[1] = "queryFrame" /\ Iteration[2] = "frameReceived"
      /\ Iteration[3] = "runState" /\ Iteration[4] = "while"
  BY DEF Iteration
<1>3. DOMAIN Iteration = 1..4
  BY <1>1, <1>2, LenProperties
<1>4. \A i \in 1..4 : i = 1 \/ i = 2 \/ i = 3 \/ i = 4
  OBVIOUS
<1>5. Sound(Iteration)
  BY <1>2, <1>3, <1>4 DEF Sound, ExitIsLast, OpeningTogether
<1>6. Reached(Iteration, 4)
  BY <1>2, <1>4 DEF Reached
<1>7. UnlocksAfter(Iteration, 3) /\ UnlocksAfter(Iteration, 0)
  BY <1>2, <1>3, <1>6 DEF UnlocksAfter
<1>8. LocksCovered(Iteration)
  BY <1>2, <1>3, <1>4, <1>7 DEF LocksCovered
<1> QED
  BY <1>1, <1>5, <1>7, <1>8

LEMMA ShutdownIsSound ==
  Shutdown \in Seq(Op) /\ Sound(Shutdown) /\ LocksCovered(Shutdown) /\ UnlocksAfter(Shutdown, 0)
<1>1. Shutdown \in Seq(Op)
  <2>1. <<"releaseCamera", "deleteSemaphores", "destroyCamera">> \in Seq(Op)
    BY DEF Op, PlainOp
  <2>2. <<"unlock", "exit">> \in Seq(Op)
    BY DEF Op, PlainOp
  <2>3. Shutdown = <<"releaseCamera", "deleteSemaphores", "destroyCamera">> \o <<"unlock", "exit">>
    BY DEF Shutdown
  <2> QED
    BY <2>1, <2>2, <2>3, ConcatProperties
<1>2. /\ Len(Shutdown) = 5
      /\ Shutdown[1] = "releaseCamera" /\ Shutdown[2] = "deleteSemaphores"
      /\ Shutdown[3] = "destroyCamera" /\ Shutdown[4] = "unlock" /\ Shutdown[5] = "exit"
  BY DEF Shutdown
<1>3. DOMAIN Shutdown = 1..5
  BY <1>1, <1>2, LenProperties
<1>4. \A i \in 1..5 : i = 1 \/ i = 2 \/ i = 3 \/ i = 4 \/ i = 5
  OBVIOUS
<1>5. Sound(Shutdown)
  BY <1>2, <1>3, <1>4 DEF Sound, ExitIsLast, OpeningTogether
<1>6. Reached(Shutdown, 4)
  BY <1>2, <1>4 DEF Reached
<1>7. UnlocksAfter(Shutdown, 0)
  BY <1>2, <1>3, <1>6 DEF UnlocksAfter
<1>8. LocksCovered(Shutdown)
  BY <1>2, <1>3, <1>4 DEF LocksCovered
<1> QED
  BY <1>1, <1>5, <1>7, <1>8

\* What holds of plain entries put on a stack.
LEMMA PlainOnStack ==
  ASSUME NEW w \in Seq(PlainOp), NEW s \in Seq(Op), Sound(s)
  PROVE  /\ w \o s \in Seq(Op) /\ Sound(w \o s)
         /\ LocksCovered(s) /\ (UnlocksAfter(s, 0) \/ \A i \in DOMAIN w : w[i] # "lock")
              => LocksCovered(w \o s)
         /\ UnlocksAfter(s, 0) => UnlocksAfter(w \o s, 0)
<1>1. w \in Seq(Op)
  <2>1. PlainOp \subseteq Op
    BY DEF Op
  <2> QED
    BY <2>1, SeqMonotonic
<1>2. Len(w) \in Nat /\ DOMAIN w = 1..Len(w)
  BY LenProperties
<1>3. \A i \in DOMAIN w : w[i] \in PlainOp
  BY <1>2, ElementOfSeq
<1>4. \A i \in DOMAIN w : w[i] \notin {"exit", "openCamera", "forcedExit", "runState"}
  BY <1>3 DEF PlainOp
<1>5. w \o s \in Seq(Op)
  BY <1>1, StackWith
<1>6. Sound(w \o s)
  BY <1>1, <1>4, StackSound
<1>7. ASSUME LocksCovered(s), UnlocksAfter(s, 0) \/ \A i \in DOMAIN w : w[i] # "lock"
      PROVE  LocksCovered(w \o s)
  <2>1. \A i \in DOMAIN w : w[i] \notin {"forcedExit", "runState"}
    BY <1>4
  <2> QED
    BY <1>1, <1>7, <2>1, StackCovered
<1>8. ASSUME UnlocksAfter(s, 0) PROVE UnlocksAfter(w \o s, 0)
  <2>1. \A i \in DOMAIN w : w[i] # "forcedExit"
    BY <1>4
  <2>2. UnlocksAfter(w \o s, Len(w) + 0)
    BY <1>1, <1>8, <2>1, StackUnlocks
  <2>3. DOMAIN (w \o s) = 1..(Len(w) + Len(s)) /\ Len(s) \in Nat
    BY <1>1, StackWith
  <2> QED
    BY <1>2, <2>2, <2>3 DEF UnlocksAfter
<1> QED
  BY <1>5, <1>6, <1>7, <1>8

LEMMA EndLockoutIsPlain == EndLockout \in Seq(PlainOp)
BY DEF EndLockout, PlainOp

LEMMA StartLockoutIsPlain == StateTransitionLockout \in Seq(PlainOp)
<1>1. <<"resetTimer", "setLockout", "lock">> \in Seq(PlainOp)
  BY DEF PlainOp
<1>2. <<"resetTimer", "startTimer", "setLockout", "lock">> \in Seq(PlainOp)
  BY DEF PlainOp
<1> QED
  BY <1>1, <1>2 DEF StateTransitionLockout

LEMMA CallsArePlain ==
  ASSUME NEW s \in LoopState, NEW call \in StateCalls[s] \cup {<<>>}
  PROVE  call \in Seq(PlainOp)
<1>1. /\ <<>> \in Seq(PlainOp) /\ <<"setWaiting">> \in Seq(PlainOp)
      /\ <<"stop">> \in Seq(PlainOp) /\ <<"setMatching">> \in Seq(PlainOp)
      /\ <<"startTimer">> \in Seq(PlainOp) /\ <<"unlock", "setKeepopen">> \in Seq(PlainOp)
  BY DEF PlainOp
<1>2. GiveUp \in Seq(PlainOp)
  BY DEF GiveUp, PlainOp
<1>3. <<"startTimer">> \o EndLockout \in Seq(PlainOp)
  BY <1>1, EndLockoutIsPlain, ConcatProperties
<1>4. call \in {<<>>} \cup WaitingCalls \cup MatchingCalls \cup KeepopenCalls \cup LockoutCalls
  BY DEF StateCalls, LoopState
<1> QED
  BY <1>1, <1>2, <1>3, <1>4, EndLockoutIsPlain, StartLockoutIsPlain
  DEF WaitingCalls, MatchingCalls, KeepopenCalls, LockoutCalls

LEMMA LoopInitInv == LoopInit => LoopInv
<1> SUFFICES ASSUME LoopInit PROVE LoopInv
  OBVIOUS
<1>1. todo = Setup \o Iteration
  BY DEF LoopInit
<1>2. Setup \in Seq(Op) /\ Iteration \in Seq(Op)
  BY IterationIsSound DEF Setup, Op, PlainOp
<1>3. /\ Len(Setup) = 4 /\ Setup[1] = "openCamera" /\ Setup[2] = "cameraOpened"
      /\ Setup[3] = "run" /\ Setup[4] = "setWaiting"
  BY DEF Setup
<1>4. /\ todo \in Seq(Op) /\ Len(todo) = 4 + Len(Iteration) /\ Len(Iteration) \in Nat
      /\ \A i \in 1..4 : todo[i] = Setup[i]
      /\ DOMAIN todo = 1..(4 + Len(Iteration))
      /\ \A i \in 1..Len(Iteration) : todo[4 + i] = Iteration[i]
  <2> DEFINE m == Len(Setup)
  <2>1. /\ todo \in Seq(Op) /\ Len(todo) = m + Len(Iteration) /\ Len(Iteration) \in Nat
        /\ \A i \in 1..m : todo[i] = Setup[i]
        /\ DOMAIN todo = 1..(m + Len(Iteration))
        /\ \A i \in 1..Len(Iteration) : todo[m + i] = Iteration[i]
    BY <1>1, <1>2, StackWith
  <2>2. m = 4
    BY <1>3
  <2> HIDE DEF m
  <2> QED
    BY <2>1, <2>2
<1>5. \A i \in DOMAIN Setup : i \in 1..4
  BY <1>2, <1>3, LenProperties
<1>6. \A i \in DOMAIN Setup : Setup[i] \notin {"exit", "forcedExit", "runState", "lock"}
  BY <1>3, <1>5
<1>7. LocksCovered(todo)
  BY <1>1, <1>2, <1>6, IterationIsSound, StackCovered
<1>8. Sound(todo)
  <2>1. Len(Iteration) = 4
    BY DEF Iteration
  <2>2. \A i \in 1..4 : Iteration[i] \notin {"exit", "openCamera"}
    BY DEF Iteration
  <2>3. ASSUME NEW i \in 1..8 PROVE i \in {1, 2, 3, 4} \/ (i - 4 \in 1..4 /\ 4 + (i - 4) = i)
    OBVIOUS
  <2>4. \A i \in 1..8 : todo[i] \notin {"exit", "openCamera"} \/ (i = 1 /\ todo[i] # "exit")
    BY <1>3, <1>4, <2>1, <2>2, <2>3
  <2>5. DOMAIN todo = 1..8 /\ Len(todo) = 8 /\ todo[2] = "cameraOpened"
    BY <1>3, <1>4, <2>1
  <2> QED
    BY <2>4, <2>5 DEF Sound, ExitIsLast, OpeningTogether
<1>9. state \in LoopState /\ locked = FALSE
  BY DEF LoopInit, LoopState
<1> QED
  BY <1>4, <1>7, <1>8, <1>9 DEF LoopInv, DoorWillOpen

-----------------------------------------------------------------------------
(***************************************************************************)
(* The steps.                                                              *)
(***************************************************************************)
\* An entry that does not unlock leaves the unlock there is.
LEMMA TailWillUnlock ==
  ASSUME NEW s \in Seq(Op), s # <<>>, s[1] \notin {"forcedExit", "while", "unlock"},
         UnlocksAfter(s, 0)
  PROVE  UnlocksAfter(Tail(s), 0)
<1>1. DOMAIN s = 1..Len(s) /\ Len(s) \in Nat
  BY TailOfStack
<1>2. UnlocksAfter(s, 0 + 1)
  BY <1>1 DEF UnlocksAfter
<1> QED
  BY <1>2, TailUnlocks

\* The first entry is done.
LEMMA DoneKeeps ==
  ASSUME LoopInv, todo # <<>>, Head(todo) # "forcedExit", Done
  PROVE  /\ todo' \in Seq(Op) /\ Sound(todo')
         /\ LocksCovered(todo) => LocksCovered(todo')
         /\ Head(todo) \notin {"while", "unlock"} /\ WillUnlock => WillUnlock'
<1>1. todo \in Seq(Op) /\ Sound(todo) /\ todo' = Tail(todo) /\ todo[1] = Head(todo)
  BY TailOfStack DEF LoopInv, Done
<1>2. todo' \in Seq(Op) /\ Sound(todo')
  BY <1>1, TailOfStack, TailSound
<1>3. LocksCovered(todo) => LocksCovered(todo')
  BY <1>1, TailCovered
<1>4. ASSUME Head(todo) \notin {"while", "unlock"}, WillUnlock PROVE WillUnlock'
  BY <1>1, <1>4, TailWillUnlock DEF WillUnlock
<1> QED
  BY <1>2, <1>3, <1>4

LEMMA QuietStepInv ==
  ASSUME LoopInv, todo # <<>>, Head(todo) \notin {"forcedExit", "while", "unlock"}, Done,
         UNCHANGED <<locked, mishaps>>, state' \in LoopState
  PROVE  LoopInv'
<1>1. /\ todo' \in Seq(Op) /\ Sound(todo')
      /\ LocksCovered(todo) => LocksCovered(todo')
      /\ WillUnlock => WillUnlock'
  BY DoneKeeps
<1>2. DoorWillOpen'
  BY <1>1 DEF LoopInv, DoorWillOpen
<1> QED
  BY <1>1, <1>2 DEF LoopInv

\* What is going to lock, when it is done, leaves an unlock in the rest.
LEMMA LockIsCovered ==
  ASSUME LoopInv, todo # <<>>, Head(todo) \in {"lock", "runState"}, LocksCovered(todo)
  PROVE  UnlocksAfter(Tail(todo), 0)
<1>1. /\ todo \in Seq(Op) /\ todo[1] = Head(todo)
      /\ Len(todo) \in Nat /\ Len(todo) > 0 /\ DOMAIN todo = 1..Len(todo)
  BY TailOfStack DEF LoopInv
<1>2. Reached(todo, 1)
  BY <1>1 DEF Reached
<1>3. UnlocksAfter(todo, 0 + 1)
  BY <1>1, <1>2 DEF LocksCovered
<1> QED
  BY <1>1, <1>3, TailUnlocks

LEMMA DoorWriteInv == ASSUME LoopInv, DoorWrite PROVE LoopInv'
<1>1. ASSUME NEW op \in PlainOp \cup {"run"}, NEW s \in LoopState, op # "unlock", SetState(op, s)
      PROVE  LoopInv'
  BY <1>1, QuietStepInv DEF SetState, Doing, PlainOp
<1>2. ASSUME NEW op \in PlainOp \cup {"run"}, NEW v, op # "unlock",
             SetRunning(op, v) \/ SetTimer(op, v)
      PROVE  LoopInv'
  BY <1>2, QuietStepInv DEF SetRunning, SetTimer, Doing, PlainOp, LoopInv
<1>3. CASE GpioWrite("lock", TRUE)
  <2>1. /\ todo # <<>> /\ Head(todo) = "lock" /\ Done /\ UNCHANGED state
        /\ "late" \in mishaps' <=> "late" \in mishaps
    BY <1>3 DEF GpioWrite, Doing
  <2>2. todo' \in Seq(Op) /\ Sound(todo') /\ (LocksCovered(todo) => LocksCovered(todo'))
    BY <2>1, DoneKeeps
  <2>3. LocksCovered(todo) => WillUnlock'
    BY <2>1, LockIsCovered DEF WillUnlock, Done
  <2> QED
    BY <2>1, <2>2, <2>3 DEF LoopInv, DoorWillOpen
<1>4. CASE GpioWrite("unlock", FALSE)
  <2>1. /\ todo # <<>> /\ Head(todo) = "unlock" /\ Done /\ UNCHANGED state
        /\ "late" \in mishaps' <=> "late" \in mishaps
        /\ ~locked' \/ "pin" \in mishaps'
    BY <1>4 DEF GpioWrite, Doing
  <2>2. todo' \in Seq(Op) /\ Sound(todo') /\ (LocksCovered(todo) => LocksCovered(todo'))
    BY <2>1, DoneKeeps
  <2> QED
    BY <2>1, <2>2 DEF LoopInv, DoorWillOpen
<1> QED
  BY <1>1, <1>2, <1>3, <1>4 DEF DoorWrite, PlainOp, LoopState

LEMMA CameraCallsInv == ASSUME LoopInv, CameraCalls PROVE LoopInv'
<1>1. ASSUME NEW op \in Op, op \notin {"forcedExit", "while", "unlock"},
             Doing(op), Done, UNCHANGED <<doorVars, mishaps>>
      PROVE  LoopInv'
  BY <1>1, QuietStepInv DEF Doing, LoopInv, doorVars
<1>2. CASE CameraFailed
  <2> DEFINE w == <<"deleteSemaphores", "destroyCamera">>
             t == Tail(todo)
             u == Tail(t)
  <2>1. /\ todo # <<>> /\ Head(todo) = "openCamera" /\ todo' = w \o u
        /\ UNCHANGED <<state, locked, mishaps>>
    BY <1>2 DEF CameraFailed, Doing, doorVars
  <2>2. /\ todo \in Seq(Op) /\ Sound(todo) /\ todo[1] = "openCamera"
        /\ t \in Seq(Op) /\ DOMAIN todo = 1..Len(todo) /\ Len(todo) \in Nat /\ Len(todo) > 0
        /\ \A i \in 1..(Len(todo) - 1) : t[i] = todo[i + 1]
        /\ DOMAIN t = 1..(Len(todo) - 1)
    BY <2>1, TailOfStack DEF LoopInv
  <2>3. 1 < Len(todo) /\ todo[2] = "cameraOpened"
    <3>1. 1 \in DOMAIN todo /\ 1 + 1 = 2
      BY <2>2
    <3> QED
      BY <2>2, <3>1 DEF Sound, OpeningTogether
  <2>4. t[1] = "cameraOpened" /\ t # <<>>
    <3> HIDE DEF t
    <3>1. 1 \in 1..(Len(todo) - 1) /\ 1 + 1 = 2
      BY <2>2, <2>3
    <3>2. t[1] = "cameraOpened"
      BY <2>2, <2>3, <3>1
    <3>3. t # <<>>
      <4>1. 1 \in DOMAIN t
        BY <2>2, <3>1
      <4> QED
        BY <4>1
    <3> QED
      BY <3>2, <3>3
  <2>5. u \in Seq(Op)
    BY <2>2, <2>4, TailOfStack
  <2>6. Sound(t)
    BY <2>1, <2>2, TailSound
  <2>7. Sound(u)
    BY <2>2, <2>4, <2>6, TailSound
  <2>8. LocksCovered(todo) => LocksCovered(u)
    BY <2>1, <2>2, <2>4, TailCovered
  <2>9. UnlocksAfter(todo, 0) => UnlocksAfter(u, 0)
    BY <2>1, <2>2, <2>4, TailWillUnlock
  <2>10. w \in Seq(PlainOp) /\ \A i \in DOMAIN w : w[i] # "lock"
    BY DEF PlainOp
  <2> HIDE DEF w, u, t
  <2>11. /\ todo' \in Seq(Op) /\ Sound(todo')
         /\ LocksCovered(todo) => LocksCovered(todo')
         /\ WillUnlock => WillUnlock'
    BY <2>1, <2>5, <2>7, <2>8, <2>9, <2>10, PlainOnStack DEF WillUnlock
  <2> QED
    BY <2>1, <2>11 DEF LoopInv, DoorWillOpen
<1> QED
  BY <1>1, <1>2 DEF CameraCalls, CameraCall, Op, PlainOp

LEMMA RunStateInv == ASSUME LoopInv, RunState PROVE LoopInv'
<1>1. PICK call \in (IF running THEN StateCalls[state] ELSE {<<>>}) : todo' = call \o Tail(todo)
  BY DEF RunState
<1>2. todo # <<>> /\ Head(todo) = "runState" /\ UNCHANGED <<state, locked, mishaps>>
  BY DEF RunState, Doing, doorVars
<1>3. call \in Seq(PlainOp)
  BY CallsArePlain DEF LoopInv
<1>4. Tail(todo) \in Seq(Op) /\ Sound(Tail(todo)) /\ todo[1] = "runState"
  BY <1>2, TailOfStack, TailSound DEF LoopInv
<1>5. LocksCovered(todo) => LocksCovered(Tail(todo)) /\ UnlocksAfter(Tail(todo), 0)
  BY <1>2, <1>4, LockIsCovered, TailCovered DEF LoopInv
<1>6. /\ todo' \in Seq(Op) /\ Sound(todo')
      /\ LocksCovered(todo) => LocksCovered(todo') /\ WillUnlock'
  BY <1>1, <1>3, <1>4, <1>5, PlainOnStack DEF WillUnlock
<1> QED
  BY <1>2, <1>6 DEF LoopInv, DoorWillOpen

LEMMA WhileInv == ASSUME LoopInv, While PROVE LoopInv'
<1>1. todo' = Iteration \/ todo' = Shutdown
  BY DEF While
<1>2. todo' \in Seq(Op) /\ Sound(todo') /\ LocksCovered(todo') /\ WillUnlock'
  BY <1>1, IterationIsSound, ShutdownIsSound DEF WillUnlock
<1> QED
  BY <1>2 DEF LoopInv, DoorWillOpen, While, doorVars

LEMMA ReturnInv == ASSUME LoopInv, Return PROVE LoopInv'
BY QuietStepInv DEF Return, Doing, LoopInv, doorVars

\* Nothing comes after the end, so that nothing of the rest can unlock.
LEMMA ExitInv == ASSUME LoopInv, Exit PROVE LoopInv'
<1>1. /\ todo \in Seq(Op) /\ todo # <<>> /\ todo' = <<>> /\ UNCHANGED <<state, locked, mishaps>>
      /\ Head(todo) \in {"exit", "forcedExit"}
  BY DEF LoopInv, Exit, Doing, doorVars
<1>2. /\ todo[1] = Head(todo) /\ Len(todo) \in Nat /\ Len(todo) > 0
      /\ DOMAIN todo = 1..Len(todo)
  BY <1>1, TailOfStack
<1>3. ~WillUnlock
  <2> SUFFICES ASSUME NEW i \in DOMAIN todo, todo[i] \in {"while", "unlock"}, Reached(todo, i)
               PROVE  FALSE
    BY DEF WillUnlock, UnlocksAfter
  <2>1. CASE Head(todo) = "exit"
    <3>1. 1 = Len(todo)
      BY <1>2, <2>1 DEF LoopInv, Sound, ExitIsLast
    <3>2. i \in Nat /\ i >= 1 /\ i <= Len(todo)
      BY <1>2
    <3>3. i = 1
      BY <3>1, <3>2
    <3> QED
      BY <1>2, <2>1, <3>3
  <2>2. CASE Head(todo) = "forcedExit"
    <3>1. 1 \in 1..i
      BY <1>2
    <3> QED
      BY <1>2, <2>2, <3>1 DEF Reached
  <2> QED
    BY <1>1, <2>1, <2>2
<1>4. todo' \in Seq(Op) /\ DOMAIN todo' = {}
  BY <1>1
<1>5. Sound(todo') /\ LocksCovered(todo')
  BY <1>4 DEF Sound, ExitIsLast, OpeningTogether, LocksCovered
<1> QED
  BY <1>1, <1>3, <1>4, <1>5 DEF LoopInv, DoorWillOpen

\* The handler of a second SIGINT unlocks the door itself.
LEMMA SigintInv == ASSUME LoopInv, Sigint PROVE LoopInv'
<1> DEFINE w == <<"unlock", "forcedExit">>
<1>1. (todo' = w \o todo \/ todo' = todo) /\ UNCHANGED <<state, locked, mishaps>>
  BY DEF Sigint
<1>2. CASE todo' = todo
  BY <1>1, <1>2 DEF LoopInv, DoorWillOpen, WillUnlock
<1>3. CASE todo' = w \o todo
  <2>1. /\ w \in Seq(Op) /\ w[1] = "unlock" /\ w[2] = "forcedExit" /\ Len(w) = 2
        /\ \A i \in DOMAIN w : w[i] \notin {"exit", "openCamera"}
    BY DEF Op, PlainOp
  <2>2. todo \in Seq(Op) /\ Sound(todo)
    BY DEF LoopInv
  <2> HIDE DEF w
  <2>3. /\ todo' \in Seq(Op) /\ Len(todo) \in Nat /\ DOMAIN todo' = 1..(2 + Len(todo))
        /\ todo'[1] = "unlock" /\ todo'[2] = "forcedExit"
    <3> DEFINE m == Len(w)
    <3>1. /\ todo' \in Seq(Op) /\ Len(todo) \in Nat /\ DOMAIN todo' = 1..(m + Len(todo))
          /\ \A i \in 1..m : todo'[i] = w[i]
      BY <1>3, <2>1, <2>2, StackWith
    <3>2. m = 2
      BY <2>1
    <3> HIDE DEF m
    <3> QED
      BY <2>1, <3>1, <3>2
  <2>4. Sound(todo')
    BY <1>3, <2>1, <2>2, StackSound
  <2>5. WillUnlock'
    <3>1. 1 \in DOMAIN todo' /\ 1 > 0 /\ Reached(todo', 1)
      BY <2>3 DEF Reached
    <3> QED
      BY <2>3, <3>1 DEF WillUnlock, UnlocksAfter
  <2>6. ASSUME NEW i \in DOMAIN todo', Reached(todo', i) PROVE todo'[i] = "unlock"
    <3>1. i \in Nat /\ i > 0
      BY <2>3
    <3>2. ~(2 \in 1..i)
      BY <2>3, <2>6 DEF Reached
    <3>3. i = 1
      BY <3>1, <3>2
    <3> QED
      BY <2>3, <3>3
  <2>7. LocksCovered(todo')
    BY <2>6 DEF LocksCovered
  <2> QED
    BY <1>1, <2>3, <2>4, <2>5, <2>7 DEF LoopInv, DoorWillOpen
<1> QED
  BY <1>1, <1>2, <1>3

LEMMA UserSignalInv ==
  ASSUME LoopInv, NEW handler \in {"endSIGUSR1", "endSIGUSR2"},
         NEW writes \in Seq(PlainOp), UserSignal(handler, writes)
  PROVE  LoopInv'
<1> DEFINE w == writes \o <<handler>>
<1>1. /\ todo' = w \o todo /\ UNCHANGED <<state, locked>>
      /\ "late" \notin mishaps' => "late" \notin mishaps /\ WillUnlock
      /\ "pin" \notin mishaps' => "pin" \notin mishaps
  BY DEF UserSignal, doorVars
<1>2. w \in Seq(PlainOp)
  <2>1. <<handler>> \in Seq(PlainOp)
    BY DEF PlainOp
  <2> QED
    BY <2>1, ConcatProperties
<1> HIDE DEF w
<1>3. /\ todo' \in Seq(Op) /\ Sound(todo')
      /\ LocksCovered(todo) /\ WillUnlock => LocksCovered(todo')
      /\ WillUnlock => WillUnlock'
  BY <1>1, <1>2, PlainOnStack DEF LoopInv, WillUnlock
<1> QED
  BY <1>1, <1>3 DEF LoopInv, DoorWillOpen

LEMMA LoopStepInv == LoopInv /\ [LoopNext]_vars => LoopInv'
<1> SUFFICES ASSUME LoopInv, [LoopNext]_vars PROVE LoopInv'
  OBVIOUS
<1>1. CASE MainStep
  BY <1>1, DoorWriteInv, CameraCallsInv, RunStateInv, WhileInv, ReturnInv, ExitInv DEF MainStep
<1>2. CASE UNCHANGED loopVars
  BY <1>2 DEF loopVars, doorVars, LoopInv, DoorWillOpen, WillUnlock
<1>3. CASE Sigint
  BY <1>3, SigintInv
<1>4. CASE Sigusr1
  BY <1>4, UserSignalInv, EndLockoutIsPlain DEF Sigusr1
<1>5. CASE Sigusr2
  BY <1>5, UserSignalInv, StartLockoutIsPlain DEF Sigusr2
<1> QED
  BY <1>1, <1>2, <1>3, <1>4, <1>5 DEF LoopNext, Driver, vars

\* Wherever SIGINT, SIGUSR1 and SIGUSR2 come between the writes of the main
\* thread, and however often: a process that has ended has left the door open,
\* unless SIGUSR2 came after the last unlock or the pin could not be written
\* (fsm.c:1409-1434, 91-132).
THEOREM DoorOpenAtEnd == LoopSpec => []EndsUnlocked
<1>1. LoopInit => LoopInv
  BY LoopInitInv
<1>2. LoopInv /\ [LoopNext]_vars => LoopInv'
  BY LoopStepInv
<1>3. LoopInv => EndsUnlocked
  <2> SUFFICES ASSUME LoopInv, todo = <<>>, "late" \notin mishaps, "pin" \notin mishaps, locked
               PROVE  FALSE
    BY DEF EndsUnlocked, Exited
  <2>1. WillUnlock
    BY DEF LoopInv, DoorWillOpen
  <2>2. DOMAIN todo = {}
    OBVIOUS
  <2> QED
    BY <2>1, <2>2 DEF WillUnlock, UnlocksAfter
<1> QED
  BY <1>1, <1>2, <1>3, PTL DEF LoopSpec

-----------------------------------------------------------------------------
(***************************************************************************)
(* The timer of a lockout.  With methods 1 and 3 a timer is never reset    *)
(* without being started next, and no lockout begins before that: so far   *)
(* as the stack goes.                                                      *)
(***************************************************************************)
Has(stack, op) == \E i \in DOMAIN stack : stack[i] = op

ResetTogether(stack) ==
  \A i \in DOMAIN stack :
    stack[i] = "resetTimer" => i < Len(stack) /\ stack[i + 1] = "startTimer"

\* The timer is started before each beginning of a lockout.
LockoutTimed(stack) ==
  \A i \in DOMAIN stack :
    stack[i] = "setLockout" => \E j \in DOMAIN stack : j < i /\ stack[j] = "startTimer"

BaseOp == {"queryFrame", "frameReceived", "runState", "while"}

\* The calls of the main loop are below everything else.
BaseLast(stack) ==
  \A i \in DOMAIN stack, j \in DOMAIN stack :
    i < j /\ stack[i] \in BaseOp => stack[j] \in BaseOp

TimerInv ==
  /\ BaseLast(todo)
  /\ method # 2 =>
       /\ ResetTogether(todo)
       /\ timerActive \/ LockoutTimed(todo)
       /\ state = "lockout" /\ todo # <<>> => timerActive \/ Has(todo, "startTimer")

-----------------------------------------------------------------------------
\* The entries of the rest of a stack are those of the stack, but for the first.
LEMMA TailTimed ==
  ASSUME NEW s \in Seq(Op), s # <<>>
  PROVE  /\ BaseLast(s) => BaseLast(Tail(s))
         /\ ResetTogether(s) => ResetTogether(Tail(s))
         /\ LockoutTimed(s) /\ s[1] # "startTimer" => LockoutTimed(Tail(s))
         /\ \A op : Has(s, op) /\ s[1] # op => Has(Tail(s), op)
         /\ s[1] = "resetTimer" /\ ResetTogether(s)
              => LockoutTimed(Tail(s)) /\ Has(Tail(s), "startTimer")
<1> DEFINE t == Tail(s)
           n == Len(s)
<1>1. /\ n \in Nat /\ n > 0 /\ DOMAIN s = 1..n /\ DOMAIN t = 1..(n - 1)
      /\ \A i \in 1..(n - 1) : t[i] = s[i + 1]
      /\ Len(t) = n - 1
  BY TailOfStack, HeadTailProperties
<1> SUFFICES
      /\ BaseLast(s) => BaseLast(t)
      /\ ResetTogether(s) => ResetTogether(t)
      /\ LockoutTimed(s) /\ s[1] # "startTimer" => LockoutTimed(t)
      /\ \A op : Has(s, op) /\ s[1] # op => Has(t, op)
      /\ s[1] = "resetTimer" /\ ResetTogether(s) => LockoutTimed(t) /\ Has(t, "startTimer")
  OBVIOUS
<1>2. ResetTogether(s) <=>
        \A i \in 1..n : s[i] = "resetTimer" => i < n /\ s[i + 1] = "startTimer"
  BY <1>1 DEF ResetTogether
<1> HIDE DEF t, n
<1>3. \A i \in 1..(n - 1) : i \in 1..n /\ i + 1 \in 1..n
  BY <1>1
<1>4. \A i \in 1..n : i # 1 => i - 1 \in 1..(n - 1) /\ (i - 1) + 1 = i
  BY <1>1
<1>5. ASSUME BaseLast(s) PROVE BaseLast(t)
  <2> SUFFICES ASSUME NEW i \in 1..(n - 1), NEW j \in 1..(n - 1), i < j, t[i] \in BaseOp
               PROVE  t[j] \in BaseOp
    BY <1>1 DEF BaseLast
  <2>1. i + 1 < j + 1
    BY <1>1
  <2> QED
    BY <1>1, <1>3, <1>5, <2>1 DEF BaseLast
<1>6. ASSUME ResetTogether(s), NEW i \in 1..(n - 1), t[i] = "resetTimer"
      PROVE  i < n - 1 /\ t[i + 1] = "startTimer"
  <2>1. s[i + 1] = "resetTimer" /\ i + 1 \in 1..n
    BY <1>1, <1>3, <1>6
  <2>2. i + 1 < n /\ s[(i + 1) + 1] = "startTimer"
    BY <1>2, <1>6, <2>1
  <2>3. i + 1 \in 1..(n - 1)
    BY <1>1, <2>2
  <2> QED
    BY <1>1, <2>2, <2>3
<1>7. ASSUME LockoutTimed(s), s[1] # "startTimer" PROVE LockoutTimed(t)
  <2> SUFFICES ASSUME NEW i \in 1..(n - 1), t[i] = "setLockout"
               PROVE  \E j \in 1..(n - 1) : j < i /\ t[j] = "startTimer"
    BY <1>1 DEF LockoutTimed
  <2>1. PICK k \in 1..n : k < i + 1 /\ s[k] = "startTimer"
    BY <1>1, <1>3, <1>7 DEF LockoutTimed
  <2>2. k # 1
    BY <1>7, <2>1
  <2>3. k - 1 \in 1..(n - 1) /\ k - 1 < i /\ t[k - 1] = s[k]
    BY <1>1, <1>4, <2>1, <2>2
  <2> QED
    BY <2>1, <2>3
<1>8. ASSUME NEW op, Has(s, op), s[1] # op PROVE Has(t, op)
  <2>1. PICK k \in 1..n : s[k] = op
    BY <1>1, <1>8 DEF Has
  <2>2. k - 1 \in 1..(n - 1) /\ t[k - 1] = op
    BY <1>1, <1>4, <1>8, <2>1
  <2> QED
    BY <1>1, <2>2 DEF Has
<1>9. ASSUME s[1] = "resetTimer", ResetTogether(s)
      PROVE  LockoutTimed(t) /\ Has(t, "startTimer")
  <2>1. 1 < n /\ s[1 + 1] = "startTimer"
    <3>1. 1 \in 1..n
      BY <1>1
    <3> QED
      BY <1>2, <1>9, <3>1
  <2>2. 1 \in 1..(n - 1) /\ t[1] = "startTimer"
    BY <1>1, <2>1
  <2>3. ASSUME NEW i \in 1..(n - 1), t[i] = "setLockout" PROVE 1 < i
    BY <1>1, <2>2, <2>3
  <2> QED
    BY <1>1, <2>2, <2>3 DEF LockoutTimed, Has
<1>10. ResetTogether(s) => ResetTogether(t)
  BY <1>1, <1>6 DEF ResetTogether
<1> QED
  BY <1>5, <1>7, <1>8, <1>9, <1>10

\* What is put on a stack is timed by itself, and above the calls of the loop.
LEMMA StackTimed ==
  ASSUME NEW w \in Seq(Op), NEW s \in Seq(Op)
  PROVE  /\ BaseLast(s) /\ (\A i \in DOMAIN w : w[i] \notin BaseOp) => BaseLast(w \o s)
         /\ ResetTogether(w) /\ ResetTogether(s) => ResetTogether(w \o s)
         /\ LockoutTimed(w) /\ LockoutTimed(s) => LockoutTimed(w \o s)
         /\ \A op : Has(s, op) => Has(w \o s, op)
<1> DEFINE t == w \o s
           m == Len(w)
           n == Len(s)
<1>1. /\ m \in Nat /\ n \in Nat /\ DOMAIN w = 1..m /\ DOMAIN s = 1..n
      /\ DOMAIN t = 1..(m + n) /\ Len(t) = m + n
      /\ \A i \in 1..m : t[i] = w[i]
      /\ \A i \in 1..n : t[m + i] = s[i]
  BY StackWith
<1>2. /\ ResetTogether(w) <=>
           \A i \in 1..m : w[i] = "resetTimer" => i < m /\ w[i + 1] = "startTimer"
      /\ ResetTogether(s) <=>
           \A i \in 1..n : s[i] = "resetTimer" => i < n /\ s[i + 1] = "startTimer"
      /\ ResetTogether(t) <=>
           \A i \in 1..(m + n) : t[i] = "resetTimer" => i < m + n /\ t[i + 1] = "startTimer"
  BY <1>1 DEF ResetTogether
<1> HIDE DEF t, m, n
<1>3. \A i \in 1..(m + n) :
        \/ i \in 1..m /\ t[i] = w[i]
        \/ i - m \in 1..n /\ m + (i - m) = i /\ t[i] = s[i - m]
  <2> TAKE i \in 1..(m + n)
  <2>1. i \in 1..m \/ (i - m \in 1..n /\ m + (i - m) = i)
    BY <1>1
  <2> QED
    BY <1>1, <2>1
<1>4. \A i \in 1..n : m + i \in 1..(m + n)
  BY <1>1
<1>5. \A i \in 1..m : i \in 1..(m + n)
  BY <1>1
<1>6. ASSUME BaseLast(s), \A i \in 1..m : w[i] \notin BaseOp,
             NEW i \in 1..(m + n), NEW j \in 1..(m + n), i < j, t[i] \in BaseOp
      PROVE  t[j] \in BaseOp
  <2>1. i - m \in 1..n /\ m + (i - m) = i /\ t[i] = s[i - m]
    BY <1>3, <1>6
  <2>2. j - m \in 1..n /\ m + (j - m) = j /\ i - m < j - m
    BY <1>1, <1>6, <2>1
  <2>3. t[j] = s[j - m]
    BY <1>1, <2>2
  <2> QED
    BY <1>1, <1>6, <2>1, <2>2, <2>3 DEF BaseLast
<1>7. ASSUME ResetTogether(w), ResetTogether(s) PROVE ResetTogether(t)
  <2> SUFFICES ASSUME NEW i \in 1..(m + n), t[i] = "resetTimer"
               PROVE  i < m + n /\ t[i + 1] = "startTimer"
    BY <1>2
  <2>1. CASE i \in 1..m /\ t[i] = w[i]
    <3>1. i < m /\ w[i + 1] = "startTimer"
      BY <1>2, <1>7, <2>1
    <3>2. i + 1 \in 1..m /\ i < m + n
      BY <1>1, <2>1, <3>1
    <3> QED
      BY <1>1, <3>1, <3>2
  <2>2. CASE i - m \in 1..n /\ m + (i - m) = i /\ t[i] = s[i - m]
    <3>1. i - m < n /\ s[(i - m) + 1] = "startTimer"
      BY <1>2, <1>7, <2>2
    <3>2. (i - m) + 1 \in 1..n /\ m + ((i - m) + 1) = i + 1 /\ i < m + n
      BY <1>1, <2>2, <3>1
    <3> QED
      BY <1>1, <3>1, <3>2
  <2> QED
    BY <1>3, <2>1, <2>2
<1>8. ASSUME LockoutTimed(w), LockoutTimed(s) PROVE LockoutTimed(t)
  <2> SUFFICES ASSUME NEW i \in 1..(m + n), t[i] = "setLockout"
               PROVE  \E j \in 1..(m + n) : j < i /\ t[j] = "startTimer"
    BY <1>1 DEF LockoutTimed
  <2>1. CASE i \in 1..m /\ t[i] = w[i]
    <3>1. PICK j \in 1..m : j < i /\ w[j] = "startTimer"
      BY <1>1, <1>8, <2>1 DEF LockoutTimed
    <3> QED
      BY <1>1, <1>5, <3>1
  <2>2. CASE i - m \in 1..n /\ m + (i - m) = i /\ t[i] = s[i - m]
    <3>1. PICK j \in 1..n : j < i - m /\ s[j] = "startTimer"
      BY <1>1, <1>8, <2>2 DEF LockoutTimed
    <3>2. m + j < i
      BY <1>1, <2>2, <3>1
    <3> QED
      BY <1>1, <1>4, <3>1, <3>2
  <2> QED
    BY <1>3, <2>1, <2>2
<1>9. ASSUME NEW op, Has(s, op) PROVE Has(t, op)
  <2>1. PICK k \in 1..n : s[k] = op
    BY <1>1, <1>9 DEF Has
  <2> QED
    BY <1>1, <1>4, <2>1 DEF Has
<1>10. BaseLast(s) /\ (\A i \in DOMAIN w : w[i] \notin BaseOp) => BaseLast(t)
  BY <1>1, <1>6 DEF BaseLast
<1> QED
  BY <1>7, <1>8, <1>9, <1>10 DEF t

LEMMA Untimed ==
  ASSUME NEW w, \A i \in DOMAIN w : w[i] \notin {"resetTimer", "setLockout"}
  PROVE  ResetTogether(w) /\ LockoutTimed(w)
BY DEF ResetTogether, LockoutTimed

LEMMA EndLockoutTimed == ResetTogether(EndLockout) /\ LockoutTimed(EndLockout)
<1>1. \A i \in DOMAIN EndLockout : EndLockout[i] \notin {"resetTimer", "setLockout"}
  BY DEF EndLockout
<1> QED
  BY <1>1, Untimed

LEMMA StartLockoutTimed ==
  ASSUME method # 2
  PROVE  ResetTogether(StateTransitionLockout) /\ LockoutTimed(StateTransitionLockout)
<1> DEFINE w == StateTransitionLockout
<1>1. w \in Seq(Op)
  <2>1. PlainOp \subseteq Op
    BY DEF Op
  <2> QED
    BY <2>1, StartLockoutIsPlain, SeqMonotonic
<1>2. /\ Len(w) = 4 /\ w[1] = "resetTimer" /\ w[2] = "startTimer"
      /\ w[3] = "setLockout" /\ w[4] = "lock"
  BY DEF StateTransitionLockout
<1>3. DOMAIN w = 1..4
  BY <1>1, <1>2, LenProperties
<1>4. \A i \in 1..4 : i = 1 \/ i = 2 \/ i = 3 \/ i = 4
  OBVIOUS
<1> HIDE DEF w
<1>5. ResetTogether(w)
  BY <1>2, <1>3, <1>4 DEF ResetTogether
<1>6. LockoutTimed(w)
  BY <1>2, <1>3, <1>4 DEF LockoutTimed
<1> QED
  BY <1>5, <1>6 DEF w

LEMMA CallsTimed ==
  ASSUME NEW s \in LoopState, NEW call \in StateCalls[s] \cup {<<>>}, method # 2
  PROVE  ResetTogether(call) /\ LockoutTimed(call)
<1>1. call \in {<<>>} \cup WaitingCalls \cup MatchingCalls \cup KeepopenCalls \cup LockoutCalls
  BY DEF StateCalls, LoopState
<1>2. call \in {<<>>, <<"stop">>, <<"setMatching">>, <<"setWaiting">>, <<"unlock", "setKeepopen">>,
               GiveUp, EndLockout, StateTransitionLockout}
  BY <1>1 DEF WaitingCalls, MatchingCalls, KeepopenCalls, LockoutCalls
<1>3. ASSUME call \in {<<>>, <<"stop">>, <<"setMatching">>, <<"setWaiting">>,
                      <<"unlock", "setKeepopen">>, GiveUp}
      PROVE  \A i \in DOMAIN call : call[i] \notin {"resetTimer", "setLockout"}
  BY <1>3 DEF GiveUp
<1> QED
  BY <1>2, <1>3, Untimed, EndLockoutTimed, StartLockoutTimed

LEMMA LoopInitTimed == LoopInit => TimerInv
<1> SUFFICES ASSUME LoopInit PROVE TimerInv
  OBVIOUS
<1>1. todo = Setup \o Iteration /\ state = "initial"
  BY DEF LoopInit
<1>2. Setup \in Seq(Op) /\ Iteration \in Seq(Op)
  BY IterationIsSound DEF Setup, Op, PlainOp
<1>3. \A i \in DOMAIN Setup : Setup[i] \notin BaseOp \cup {"resetTimer", "setLockout"}
  BY DEF Setup, BaseOp
<1>4. \A i \in DOMAIN Iteration : Iteration[i] \in BaseOp
  BY DEF Iteration, BaseOp
<1>5. \A i \in DOMAIN Iteration : Iteration[i] \notin {"resetTimer", "setLockout"}
  BY <1>4 DEF BaseOp
<1>6. /\ ResetTogether(Setup) /\ LockoutTimed(Setup)
      /\ ResetTogether(Iteration) /\ LockoutTimed(Iteration) /\ BaseLast(Iteration)
  BY <1>3, <1>4, <1>5, Untimed DEF BaseLast
<1> QED
  BY <1>1, <1>2, <1>3, <1>6, StackTimed DEF TimerInv

\* The first entry is done, and it starts no timer.
LEMMA QuietStepTimed ==
  ASSUME LoopInv, TimerInv, todo # <<>>, Head(todo) # "startTimer", Done,
         UNCHANGED <<method, timerActive>>, state' = "lockout" => state = "lockout"
  PROVE  TimerInv'
<1>1. todo \in Seq(Op) /\ todo' = Tail(todo) /\ todo[1] = Head(todo)
  BY TailOfStack DEF LoopInv, Done
<1>2. /\ BaseLast(todo) => BaseLast(todo')
      /\ ResetTogether(todo) => ResetTogether(todo')
      /\ LockoutTimed(todo) => LockoutTimed(todo')
      /\ Has(todo, "startTimer") => Has(todo', "startTimer")
  BY <1>1, TailTimed
<1> QED
  BY <1>2 DEF TimerInv

\* Writes that are timed may be put on a stack that is.
LEMMA PushTimed ==
  ASSUME TimerInv, NEW w \in Seq(PlainOp), method # 2 => ResetTogether(w) /\ LockoutTimed(w),
         NEW s \in Seq(Op), todo # <<>>, todo' = w \o s,
         BaseLast(todo) => BaseLast(s),
         ResetTogether(todo) => ResetTogether(s),
         LockoutTimed(todo) => LockoutTimed(s),
         Has(todo, "startTimer") => Has(s, "startTimer"),
         UNCHANGED <<method, timerActive, state>>
  PROVE  TimerInv'
<1>1. w \in Seq(Op)
  <2>1. PlainOp \subseteq Op
    BY DEF Op
  <2> QED
    BY <2>1, SeqMonotonic
<1>2. \A i \in DOMAIN w : w[i] \notin BaseOp
  <2>1. \A i \in DOMAIN w : w[i] \in PlainOp
    BY LenProperties, ElementOfSeq
  <2> QED
    BY <2>1 DEF PlainOp, BaseOp
<1>3. /\ BaseLast(todo) => BaseLast(todo')
      /\ ResetTogether(w) /\ ResetTogether(todo) => ResetTogether(todo')
      /\ LockoutTimed(w) /\ LockoutTimed(todo) => LockoutTimed(todo')
      /\ Has(todo, "startTimer") => Has(todo', "startTimer")
  BY <1>1, <1>2, StackTimed
<1> QED
  BY <1>3 DEF TimerInv

\* At a call of the main loop nothing else is left to do.
LEMMA BaseHead ==
  ASSUME LoopInv, TimerInv, todo # <<>>, Head(todo) \in BaseOp
  PROVE  ~Has(todo, "startTimer")
<1>1. /\ todo[1] = Head(todo) /\ Len(todo) \in Nat /\ Len(todo) > 0
      /\ DOMAIN todo = 1..Len(todo)
  BY TailOfStack DEF LoopInv
<1>2. ASSUME NEW i \in DOMAIN todo PROVE todo[i] \in BaseOp
  <2>1. 1 \in DOMAIN todo /\ (i = 1 \/ 1 < i)
    BY <1>1
  <2> QED
    BY <1>1, <2>1 DEF TimerInv, BaseLast
<1> QED
  BY <1>2 DEF Has, BaseOp

LEMMA DoorWriteTimed == ASSUME LoopInv, TimerInv, DoorWrite PROVE TimerInv'
<1>1. todo \in Seq(Op)
  BY DEF LoopInv
<1>2. CASE SetTimer("startTimer", TRUE)
  <2>1. todo # <<>> /\ todo' = Tail(todo) /\ timerActive' = TRUE /\ UNCHANGED method
    BY <1>2 DEF SetTimer, Doing, Done
  <2> QED
    BY <1>1, <2>1, TailTimed DEF TimerInv
<1>3. CASE SetTimer("resetTimer", FALSE)
  <2>1. todo # <<>> /\ Head(todo) = "resetTimer" /\ todo' = Tail(todo) /\ UNCHANGED method
    BY <1>3 DEF SetTimer, Doing, Done
  <2>2. todo[1] = "resetTimer"
    BY <1>1, <2>1, TailOfStack
  <2>3. /\ BaseLast(todo) => BaseLast(todo')
        /\ ResetTogether(todo) => ResetTogether(todo')
        /\ ResetTogether(todo) => LockoutTimed(todo') /\ Has(todo', "startTimer")
    BY <1>1, <2>1, <2>2, TailTimed
  <2> QED
    BY <2>1, <2>3 DEF TimerInv
<1>4. CASE SetState("setLockout", "lockout")
  <2>1. todo # <<>> /\ Head(todo) = "setLockout" /\ todo' = Tail(todo)
        /\ UNCHANGED <<method, timerActive>>
    BY <1>4 DEF SetState, Doing, Done
  <2>2. todo[1] = "setLockout" /\ DOMAIN todo = 1..Len(todo) /\ Len(todo) \in Nat /\ Len(todo) > 0
    BY <1>1, <2>1, TailOfStack
  <2>3. /\ BaseLast(todo) => BaseLast(todo')
        /\ ResetTogether(todo) => ResetTogether(todo')
    BY <1>1, <2>1, TailTimed
  <2>4. ~LockoutTimed(todo)
    <3>1. 1 \in DOMAIN todo /\ \A j \in DOMAIN todo : ~(j < 1)
      BY <2>2
    <3> QED
      BY <2>2, <3>1 DEF LockoutTimed
  <2> QED
    BY <2>1, <2>3, <2>4 DEF TimerInv
<1>5. ASSUME NEW op \in PlainOp, NEW s, op # "startTimer", s # "lockout", SetState(op, s)
      PROVE  TimerInv'
  BY <1>5, QuietStepTimed DEF SetState, Doing
<1>6. ASSUME NEW op \in PlainOp \cup {"run"}, NEW v, op # "startTimer",
             SetRunning(op, v) \/ GpioWrite(op, v)
      PROVE  TimerInv'
  BY <1>6, QuietStepTimed DEF SetRunning, GpioWrite, Doing
<1> QED
  BY <1>2, <1>3, <1>4, <1>5, <1>6 DEF DoorWrite, PlainOp

LEMMA CameraCallsTimed == ASSUME LoopInv, TimerInv, CameraCalls PROVE TimerInv'
<1>1. ASSUME NEW op \in Op, op # "startTimer", Doing(op), Done, UNCHANGED <<method, doorVars>>
      PROVE  TimerInv'
  BY <1>1, QuietStepTimed DEF Doing, doorVars
<1>2. CASE CameraFailed
  <2> DEFINE w == <<"deleteSemaphores", "destroyCamera">>
             t == Tail(todo)
             u == Tail(t)
  <2>1. /\ todo # <<>> /\ Head(todo) = "openCamera" /\ todo' = w \o u
        /\ UNCHANGED <<method, state, timerActive>>
    BY <1>2 DEF CameraFailed, Doing, doorVars
  <2>2. /\ todo \in Seq(Op) /\ Sound(todo) /\ todo[1] = "openCamera"
        /\ t \in Seq(Op) /\ DOMAIN todo = 1..Len(todo) /\ Len(todo) \in Nat /\ Len(todo) > 0
        /\ \A i \in 1..(Len(todo) - 1) : t[i] = todo[i + 1]
        /\ DOMAIN t = 1..(Len(todo) - 1)
    BY <2>1, TailOfStack DEF LoopInv
  <2>3. 1 < Len(todo) /\ todo[2] = "cameraOpened"
    <3>1. 1 \in DOMAIN todo /\ 1 + 1 = 2
      BY <2>2
    <3> QED
      BY <2>2, <3>1 DEF Sound, OpeningTogether
  <2> HIDE DEF t
  <2>4. 1 \in DOMAIN t /\ t[1] = "cameraOpened"
    <3>1. 1 \in 1..(Len(todo) - 1) /\ 1 + 1 = 2
      BY <2>2, <2>3
    <3> QED
      BY <2>2, <2>3, <3>1
  <2>5. t # <<>>
    BY <2>4
  <2>6. u \in Seq(Op)
    BY <2>2, <2>5, TailOfStack
  <2>7. /\ BaseLast(todo) => BaseLast(t)
        /\ ResetTogether(todo) => ResetTogether(t)
        /\ LockoutTimed(todo) => LockoutTimed(t)
        /\ Has(todo, "startTimer") => Has(t, "startTimer")
    BY <2>1, <2>2, TailTimed DEF t
  <2>8. /\ BaseLast(t) => BaseLast(u)
        /\ ResetTogether(t) => ResetTogether(u)
        /\ LockoutTimed(t) => LockoutTimed(u)
        /\ Has(t, "startTimer") => Has(u, "startTimer")
    BY <2>2, <2>4, <2>5, TailTimed
  <2>9. w \in Seq(PlainOp) /\ \A i \in DOMAIN w : w[i] \notin {"resetTimer", "setLockout"}
    BY DEF PlainOp
  <2> HIDE DEF w, u
  <2>10. ResetTogether(w) /\ LockoutTimed(w)
    BY <2>9, Untimed
  <2> QED
    BY <2>1, <2>6, <2>7, <2>8, <2>9, <2>10, PushTimed
<1> QED
  BY <1>1, <1>2 DEF CameraCalls, CameraCall, Op, PlainOp

LEMMA RunStateTimed == ASSUME LoopInv, TimerInv, RunState PROVE TimerInv'
<1>1. PICK call \in (IF running THEN StateCalls[state] ELSE {<<>>}) : todo' = call \o Tail(todo)
  BY DEF RunState
<1>2. /\ todo # <<>> /\ Head(todo) = "runState" /\ UNCHANGED <<method, state, timerActive>>
      /\ todo \in Seq(Op) /\ state \in LoopState
  BY DEF RunState, Doing, doorVars, LoopInv
<1>3. call \in Seq(PlainOp)
  BY <1>2, CallsArePlain
<1>4. method # 2 => ResetTogether(call) /\ LockoutTimed(call)
  BY <1>2, CallsTimed
<1>5. Tail(todo) \in Seq(Op) /\ todo[1] = "runState"
  BY <1>2, TailOfStack
<1>6. /\ BaseLast(todo) => BaseLast(Tail(todo))
      /\ ResetTogether(todo) => ResetTogether(Tail(todo))
      /\ LockoutTimed(todo) => LockoutTimed(Tail(todo))
      /\ Has(todo, "startTimer") => Has(Tail(todo), "startTimer")
  BY <1>2, <1>5, TailTimed
<1> QED
  BY <1>1, <1>2, <1>3, <1>4, <1>5, <1>6, PushTimed

LEMMA WhileTimed == ASSUME LoopInv, TimerInv, While PROVE TimerInv'
<1>1. ~Has(todo, "startTimer")
  BY BaseHead DEF While, Doing, BaseOp
<1>2. /\ todo # <<>> /\ UNCHANGED <<method, state, timerActive>>
      /\ todo' = Iteration \/ todo' = Shutdown
  BY DEF While, Doing, doorVars
<1>3. \A i \in DOMAIN Iteration : Iteration[i] \in BaseOp
  BY DEF Iteration, BaseOp
<1>4. \A i \in DOMAIN Shutdown : Shutdown[i] \notin BaseOp \cup {"resetTimer", "setLockout"}
  BY DEF Shutdown, BaseOp
<1>5. BaseLast(Iteration) /\ BaseLast(Shutdown)
  BY <1>3, <1>4 DEF BaseLast
<1>6. \A i \in DOMAIN Iteration : Iteration[i] \notin {"resetTimer", "setLockout"}
  BY <1>3 DEF BaseOp
<1>7. /\ ResetTogether(Iteration) /\ LockoutTimed(Iteration)
      /\ ResetTogether(Shutdown) /\ LockoutTimed(Shutdown)
  BY <1>4, <1>6, Untimed
<1> QED
  BY <1>1, <1>2, <1>5, <1>7 DEF TimerInv

LEMMA ExitTimed == ASSUME TimerInv, Exit PROVE TimerInv'
<1>1. todo' = <<>>
  BY DEF Exit
<1>2. DOMAIN todo' = {}
  BY <1>1
<1> QED
  BY <1>1, <1>2 DEF TimerInv, BaseLast, ResetTogether, LockoutTimed

LEMMA SigintTimed == ASSUME LoopInv, TimerInv, Sigint PROVE TimerInv'
<1> DEFINE w == <<"unlock", "forcedExit">>
<1>1. /\ todo # <<>> /\ (todo' = w \o todo \/ todo' = todo)
      /\ UNCHANGED <<method, state, timerActive>> /\ todo \in Seq(Op)
  BY DEF Sigint, MaySignal, Exited, LoopInv
<1>2. /\ w \in Seq(Op)
      /\ \A i \in DOMAIN w : w[i] \notin BaseOp \cup {"resetTimer", "setLockout"}
  BY DEF Op, PlainOp, BaseOp
<1> HIDE DEF w
<1>3. ResetTogether(w) /\ LockoutTimed(w)
  BY <1>2, Untimed
<1>4. /\ BaseLast(todo) => BaseLast(w \o todo)
      /\ ResetTogether(todo) => ResetTogether(w \o todo)
      /\ LockoutTimed(todo) => LockoutTimed(w \o todo)
      /\ Has(todo, "startTimer") => Has(w \o todo, "startTimer")
  BY <1>1, <1>2, <1>3, StackTimed
<1> QED
  BY <1>1, <1>4 DEF TimerInv

LEMMA UserSignalTimed ==
  ASSUME LoopInv, TimerInv, NEW handler \in {"endSIGUSR1", "endSIGUSR2"},
         NEW writes \in Seq(PlainOp),
         method # 2 => ResetTogether(writes) /\ LockoutTimed(writes),
         UserSignal(handler, writes)
  PROVE  TimerInv'
<1> DEFINE h == <<handler>>
           w == writes \o h
<1>1. /\ todo # <<>> /\ todo' = w \o todo /\ UNCHANGED <<method, state, timerActive>>
      /\ todo \in Seq(Op)
  BY DEF UserSignal, MaySignal, Exited, doorVars, LoopInv
<1>2. h \in Seq(PlainOp) /\ \A i \in DOMAIN h : h[i] \notin {"resetTimer", "setLockout"}
  BY DEF PlainOp
<1>3. w \in Seq(PlainOp)
  BY <1>2, ConcatProperties
<1> HIDE DEF h
<1>4. writes \in Seq(Op) /\ h \in Seq(Op)
  <2>1. PlainOp \subseteq Op
    BY DEF Op
  <2> QED
    BY <1>2, <2>1, SeqMonotonic
<1>5. ResetTogether(h) /\ LockoutTimed(h)
  BY <1>2, Untimed
<1>6. method # 2 => ResetTogether(w) /\ LockoutTimed(w)
  BY <1>4, <1>5, StackTimed
<1> HIDE DEF w
<1> QED
  BY <1>1, <1>3, <1>6, PushTimed

LEMMA LoopStepTimed == LoopInv /\ TimerInv /\ [LoopNext]_vars => TimerInv'
<1> SUFFICES ASSUME LoopInv, TimerInv, [LoopNext]_vars PROVE TimerInv'
  OBVIOUS
<1>1. CASE Return
  BY <1>1, QuietStepTimed DEF Return, Doing, doorVars
<1>2. CASE MainStep
  BY <1>1, <1>2, DoorWriteTimed, CameraCallsTimed, RunStateTimed, WhileTimed, ExitTimed
  DEF MainStep
<1>3. CASE UNCHANGED loopVars
  BY <1>3 DEF loopVars, doorVars, TimerInv
<1>4. CASE Sigint
  BY <1>4, SigintTimed
<1>5. CASE Sigusr1
  BY <1>5, UserSignalTimed, EndLockoutIsPlain, EndLockoutTimed DEF Sigusr1
<1>6. CASE Sigusr2
  BY <1>6, UserSignalTimed, StartLockoutIsPlain, StartLockoutTimed DEF Sigusr2
<1> QED
  BY <1>2, <1>3, <1>4, <1>5, <1>6 DEF LoopNext, Driver, vars

\* Wherever signals come between the writes of catcierge_state_transition_lockout
\* and of the handlers, and however often: a lockout by methods 1 and 3 has its
\* timer running when the main loop goes on, so that it ends (fsm.c:1357-1378).
THEOREM LockoutTimerRuns == LoopSpec => []LockoutHasTimer
<1>1. LoopInit => LoopInv /\ TimerInv
  BY LoopInitInv, LoopInitTimed
<1>2. LoopInv /\ TimerInv /\ [LoopNext]_vars => (LoopInv /\ TimerInv)'
  BY LoopStepInv, LoopStepTimed
<1>3. LoopInv /\ TimerInv => LockoutHasTimer
  <2> SUFFICES ASSUME LoopInv, TimerInv, BetweenCalls, state = "lockout", method # 2
               PROVE  timerActive
    BY DEF LockoutHasTimer
  <2>1. todo # <<>> /\ Head(todo) \in BaseOp
    BY DEF BetweenCalls, BaseOp
  <2>2. ~Has(todo, "startTimer")
    BY <2>1, BaseHead
  <2> QED
    BY <2>1, <2>2 DEF TimerInv
<1> QED
  BY <1>1, <1>2, <1>3, PTL DEF LoopSpec

-----------------------------------------------------------------------------
(***************************************************************************)
(* The pin and the state.  A change of the door is a row of writes; while  *)
(* nobody interrupts it in one of its gaps, the writes of a row stay       *)
(* together, and after each row the pin and the state agree.  What is      *)
(* under a forced exit, and the rest of the thread once it is going to     *)
(* end, is of no interest.                                                 *)
(***************************************************************************)
Quiet == mishaps \cap {"early", "interrupted"} = {}

Ending(stack) == \E i \in DOMAIN stack : stack[i] \in {"exit", "forcedExit"}

\* What may follow what in a stack: the writes of HalfDone come after the others
\* of their row and are not cut off from them.
Follows(a, b) ==
  /\ b = "setWaiting" => a \in {"unlock", "stop", "run"}
  /\ b \in {"setKeepopen", "stop"} => a = "unlock"
  /\ b = "lock" => a = "setLockout"
  /\ b # "setMatching"
  /\ a = "setLockout" => b = "lock"
  /\ a = "unlock" => b \in {"setWaiting", "setKeepopen", "stop"}

Orderly(stack) ==
  /\ \A i \in 1..(Len(stack) - 1) : Follows(stack[i], stack[i + 1])
  /\ \A i \in 2..Len(stack) : stack[i] = "stop" => i < Len(stack) /\ stack[i + 1] = "setWaiting"

OpeningOp == {"openCamera", "cameraOpened", "deleteSemaphores", "destroyCamera"}

\* Only the camera is opened before the state machine is started.
SetupFirst(stack) ==
  \A i, j \in DOMAIN stack : i < j /\ stack[j] = "run" => stack[i] \in OpeningOp

\* The next write fits the state and the pin, if the pin was written.
HeadFits ==
  /\ Head(todo) = "lock" => state = "lockout"
  /\ Head(todo) = "stop" => state # "lockout" \/ (Len(todo) > 1 /\ todo[2] = "setWaiting")
  /\ "pin" \notin mishaps =>
       /\ Head(todo) \in HalfDone \ {"lock"} => ~locked
       /\ Head(todo) \notin HalfDone => (locked <=> state = "lockout")

AgreeInv ==
  Quiet /\ ~Ending(todo) /\ todo # <<>> =>
    /\ Orderly(todo)
    /\ SetupFirst(todo)
    /\ Has(todo, "run") => state = "initial"
    /\ HeadFits

-----------------------------------------------------------------------------
\* What is known of the rest of a stack.
LEMMA TailOrderly ==
  ASSUME NEW s \in Seq(Op), s # <<>>
  PROVE  /\ Ending(s) /\ s[1] \notin {"exit", "forcedExit"} => Ending(Tail(s))
         /\ Orderly(s) => Orderly(Tail(s))
         /\ SetupFirst(s) => SetupFirst(Tail(s))
         /\ Has(Tail(s), "run") => Has(s, "run") /\ (SetupFirst(s) => s[1] \in OpeningOp)
         /\ Tail(s) # <<>> /\ Orderly(s) =>
              /\ Follows(s[1], Head(Tail(s))) /\ Len(s) > 1 /\ s[2] = Head(Tail(s))
              /\ Head(Tail(s)) = "stop" => Len(Tail(s)) > 1 /\ Tail(s)[2] = "setWaiting"
<1> DEFINE t == Tail(s)
           n == Len(s)
<1>1. /\ t \in Seq(Op) /\ n \in Nat /\ n > 0
      /\ DOMAIN t = 1..(n - 1) /\ DOMAIN s = 1..n
      /\ \A i \in 1..(n - 1) : t[i] = s[i + 1]
      /\ Len(t) = n - 1
  BY TailOfStack, HeadTailProperties
<1>2. t # <<>> => Head(t) = t[1] /\ n > 1
  <2>1. t # <<>> => Head(t) = t[1] /\ Len(t) > 0
    BY <1>1, TailOfStack
  <2> QED BY <1>1, <2>1
<1> HIDE DEF t, n
<1>3. ASSUME NEW i \in 1..(n - 1) PROVE i + 1 \in 1..n /\ i + 1 \in 2..n
  BY <1>1
<1>4. ASSUME Ending(s), s[1] \notin {"exit", "forcedExit"} PROVE Ending(t)
  <2>1. PICK i \in 1..n : s[i] \in {"exit", "forcedExit"}
    BY <1>1, <1>4 DEF Ending
  <2>2. i - 1 \in 1..(n - 1) /\ (i - 1) + 1 = i
    BY <1>1, <1>4, <2>1
  <2> QED BY <1>1, <2>1, <2>2 DEF Ending
<1>5. ASSUME Orderly(s) PROVE Orderly(t)
  <2>1. ASSUME NEW i \in 1..((n - 1) - 1) PROVE Follows(t[i], t[i + 1])
    <3>1. i \in 1..(n - 1) /\ i + 1 \in 1..(n - 1)
      BY <1>1
    <3>2. Follows(s[i + 1], s[(i + 1) + 1])
      BY <1>5, <3>1 DEF Orderly, n
    <3> QED BY <1>1, <3>1, <3>2
  <2>2. ASSUME NEW i \in 2..(n - 1), t[i] = "stop" PROVE i < n - 1 /\ t[i + 1] = "setWaiting"
    <3>1. i \in 1..(n - 1) /\ i + 1 \in 2..n /\ s[i + 1] = "stop"
      BY <1>1, <2>2
    <3>2. i + 1 < n /\ s[(i + 1) + 1] = "setWaiting"
      BY <1>5, <3>1 DEF Orderly, n
    <3>3. i < n - 1 /\ i + 1 \in 1..(n - 1)
      BY <1>1, <3>1, <3>2
    <3> QED BY <1>1, <3>2, <3>3
  <2> QED BY <1>1, <2>1, <2>2 DEF Orderly
<1>6. ASSUME SetupFirst(s) PROVE SetupFirst(t)
  <2> SUFFICES ASSUME NEW i \in 1..(n - 1), NEW j \in 1..(n - 1), i < j, t[j] = "run"
               PROVE  t[i] \in OpeningOp
    BY <1>1 DEF SetupFirst
  <2>1. i + 1 \in 1..n /\ j + 1 \in 1..n /\ i + 1 < j + 1 /\ s[j + 1] = "run"
    BY <1>1
  <2> QED BY <1>1, <1>6, <2>1 DEF SetupFirst
<1>7. ASSUME Has(t, "run") PROVE Has(s, "run") /\ (SetupFirst(s) => s[1] \in OpeningOp)
  <2>1. PICK j \in 1..(n - 1) : t[j] = "run"
    BY <1>1, <1>7 DEF Has
  <2>2. j + 1 \in 1..n /\ s[j + 1] = "run" /\ 1 \in 1..n /\ 1 < j + 1
    BY <1>1, <2>1
  <2> QED BY <1>1, <2>2 DEF Has, SetupFirst
<1>8. ASSUME t # <<>>, Orderly(s)
      PROVE  /\ Follows(s[1], Head(t)) /\ n > 1 /\ s[2] = Head(t)
             /\ Head(t) = "stop" => n - 1 > 1 /\ t[2] = "setWaiting"
  <2>1. 1 \in 1..(n - 1) /\ 1 + 1 = 2 /\ 2 \in 2..n
    BY <1>1, <1>2, <1>8
  <2>2. Head(t) = s[2]
    BY <1>1, <1>2, <1>8, <2>1
  <2>3. Follows(s[1], s[2]) /\ (s[2] = "stop" => 2 < n /\ s[2 + 1] = "setWaiting")
    BY <1>8, <2>1 DEF Orderly, n
  <2>4. 2 < n => 2 \in 1..(n - 1) /\ n - 1 > 1
    BY <1>1
  <2> QED BY <1>1, <1>2, <1>8, <2>2, <2>3, <2>4
<1> QED BY <1>1, <1>4, <1>5, <1>6, <1>7, <1>8 DEF t, n

\* What is known of a stack with a row put on it whose end is not a first half.
LEMMA StackOrderly ==
  ASSUME NEW w \in Seq(Op), NEW s \in Seq(Op), w # <<>>, s # <<>>,
         s[1] \notin HalfDone,
         w[Len(w)] \notin {"setLockout", "unlock"},
         w[Len(w)] = "stop" => Len(w) = 1,
         ~Has(w, "run")
  PROVE  /\ Ending(s) => Ending(w \o s)
         /\ Orderly(w) /\ Orderly(s) => Orderly(w \o s)
         /\ SetupFirst(s) /\ (~Has(s, "run") \/ \A i \in DOMAIN w : w[i] \in OpeningOp)
              => SetupFirst(w \o s)
         /\ Has(w \o s, "run") => Has(s, "run")
         /\ w \o s # <<>> /\ Head(w \o s) = w[1]
         /\ Len(w) > 1 => Len(w \o s) > 1 /\ (w \o s)[2] = w[2]
<1> DEFINE t == w \o s
           m == Len(w)
           n == Len(s)
<1>1. /\ t \in Seq(Op) /\ m \in Nat /\ n \in Nat /\ DOMAIN w = 1..m /\ DOMAIN s = 1..n
      /\ DOMAIN t = 1..(m + n) /\ Len(t) = m + n
      /\ \A i \in 1..m : t[i] = w[i]
      /\ \A i \in 1..n : t[m + i] = s[i]
  BY StackWith
<1>2. m > 0 /\ n > 0
  BY TailOfStack
<1>3. t # <<>> /\ Head(t) = t[1]
  <2>1. t # <<>>
    BY <1>1, <1>2, EmptySeq
  <2> QED BY <1>1, <2>1, TailOfStack
<1> HIDE DEF t, m, n
<1>4. ASSUME NEW i \in 1..(m + n)
      PROVE  i \in 1..m \/ (i - m \in 1..n /\ m + (i - m) = i)
  BY <1>1
<1>5. ASSUME Ending(s) PROVE Ending(t)
  <2>1. PICK i \in 1..n : s[i] \in {"exit", "forcedExit"}
    BY <1>1, <1>5 DEF Ending
  <2>2. m + i \in 1..(m + n) /\ t[m + i] = s[i]
    BY <1>1
  <2> QED BY <1>1, <2>1, <2>2 DEF Ending
<1>6. ASSUME Orderly(w), Orderly(s) PROVE Orderly(t)
  <2>0. /\ \A i \in 1..(m - 1) : Follows(w[i], w[i + 1])
        /\ \A i \in 2..m : w[i] = "stop" => i < m /\ w[i + 1] = "setWaiting"
        /\ \A i \in 1..(n - 1) : Follows(s[i], s[i + 1])
        /\ \A i \in 2..n : s[i] = "stop" => i < n /\ s[i + 1] = "setWaiting"
    BY <1>6 DEF Orderly, m, n
  <2>1. ASSUME NEW i \in 1..((m + n) - 1) PROVE Follows(t[i], t[i + 1])
    <3>1. CASE i < m
      <4>1. i \in 1..(m - 1) /\ i \in 1..m /\ i + 1 \in 1..m
        BY <1>1, <3>1
      <4> QED BY <1>1, <2>0, <4>1
    <3>2. CASE i = m
      <4>1. m \in 1..m /\ 1 \in 1..n
        BY <1>1, <1>2
      <4>2. t[i] = w[m] /\ t[i + 1] = s[1]
        BY <1>1, <3>2, <4>1
      <4>3. w[m] \notin {"setLockout", "unlock"}
        BY DEF m
      <4> QED BY <4>2, <4>3 DEF Follows, HalfDone
    <3>3. CASE i > m
      <4>1. /\ i - m \in 1..(n - 1) /\ i - m \in 1..n /\ (i - m) + 1 \in 1..n
            /\ m + (i - m) = i /\ m + ((i - m) + 1) = i + 1
        BY <1>1, <3>3
      <4>2. t[i] = s[i - m] /\ t[i + 1] = s[(i - m) + 1]
        BY <1>1, <4>1
      <4> QED BY <2>0, <4>1, <4>2
    <3> QED BY <1>1, <3>1, <3>2, <3>3
  <2>2. ASSUME NEW i \in 2..(m + n), t[i] = "stop"
        PROVE  i < m + n /\ t[i + 1] = "setWaiting"
    <3>1. CASE i <= m
      <4>1. i \in 2..m /\ i \in 1..m
        BY <1>1, <3>1
      <4>2. i < m /\ w[i + 1] = "setWaiting"
        BY <1>1, <2>0, <2>2, <4>1
      <4>3. i + 1 \in 1..m /\ i < m + n
        BY <1>1, <4>1, <4>2
      <4> QED BY <1>1, <4>2, <4>3
    <3>2. CASE i = m + 1
      <4>1. 1 \in 1..n
        BY <1>1, <1>2
      <4>2. s[1] = "stop"
        BY <1>1, <2>2, <3>2, <4>1
      <4> QED BY <4>2 DEF HalfDone
    <3>3. CASE i > m + 1
      <4>1. i - m \in 2..n /\ i - m \in 1..n /\ m + (i - m) = i
        BY <1>1, <3>3
      <4>2. i - m < n /\ s[(i - m) + 1] = "setWaiting"
        BY <1>1, <2>0, <2>2, <4>1
      <4>3. (i - m) + 1 \in 1..n /\ m + ((i - m) + 1) = i + 1 /\ i < m + n
        BY <1>1, <4>1, <4>2
      <4> QED BY <1>1, <4>2, <4>3
    <3> QED BY <1>1, <3>1, <3>2, <3>3
  <2> QED BY <1>1, <2>1, <2>2 DEF Orderly
<1>7. ASSUME NEW j \in 1..(m + n), t[j] = "run"
      PROVE  j - m \in 1..n /\ m + (j - m) = j /\ s[j - m] = "run"
  <2>1. j \notin 1..m
    BY <1>1, <1>7 DEF Has
  <2> QED BY <1>1, <1>4, <1>7, <2>1
<1>8. ASSUME SetupFirst(s), ~Has(s, "run") \/ \A i \in DOMAIN w : w[i] \in OpeningOp
      PROVE  SetupFirst(t)
  <2> SUFFICES ASSUME NEW i \in 1..(m + n), NEW j \in 1..(m + n), i < j, t[j] = "run"
               PROVE  t[i] \in OpeningOp
    BY <1>1 DEF SetupFirst
  <2>1. j - m \in 1..n /\ m + (j - m) = j /\ s[j - m] = "run"
    BY <1>7
  <2>2. \A k \in 1..m : w[k] \in OpeningOp
    BY <1>1, <1>8, <2>1 DEF Has
  <2>3. CASE i \in 1..m
    BY <1>1, <2>2, <2>3
  <2>4. CASE i - m \in 1..n /\ m + (i - m) = i
    <3>1. i - m < j - m
      BY <1>1, <2>1, <2>4
    <3>2. s[i - m] \in OpeningOp
      BY <1>1, <1>8, <2>1, <2>4, <3>1 DEF SetupFirst
    <3> QED BY <1>1, <2>4, <3>2
  <2> QED BY <1>4, <2>3, <2>4
<1>9. Has(t, "run") => Has(s, "run")
  BY <1>1, <1>7 DEF Has
<1>10. Head(t) = w[1]
  <2>1. 1 \in 1..m
    BY <1>1, <1>2
  <2> QED BY <1>1, <1>3, <2>1
<1>11. m > 1 => m + n > 1 /\ t[2] = w[2]
  <2>1. m > 1 => 2 \in 1..m /\ m + n > 1
    BY <1>1
  <2> QED BY <1>1, <2>1
<1> QED BY <1>1, <1>3, <1>5, <1>6, <1>8, <1>9, <1>10, <1>11 DEF t, m, n

\* The rows the code writes are orderly, and none ends in a first half.
Row(w) ==
  /\ w \in Seq(Op) /\ w # <<>>
  /\ Orderly(w)
  /\ w[Len(w)] \notin {"setLockout", "unlock"}
  /\ w[Len(w)] = "stop" => Len(w) = 1
  /\ ~Has(w, "run")
  /\ w[1] # "lock"

LEMMA RowsOfOne ==
  ASSUME NEW a \in PlainOp \ {"lock", "setLockout", "unlock"}
  PROVE  Row(<<a>>)
<1> DEFINE w == <<a>>
<1>1. w \in Seq(Op) /\ w # <<>> /\ Len(w) = 1 /\ w[1] = a /\ a # "run"
  BY DEF Op, PlainOp
<1> HIDE DEF w
<1>2. DOMAIN w = 1..1 /\ \A i \in 1..1 : i = 1
  BY <1>1, LenProperties
<1>3. \A i \in 1..(1 - 1) : FALSE
  OBVIOUS
<1>4. \A i \in 2..1 : FALSE
  OBVIOUS
<1>5. Orderly(w)
  BY <1>1, <1>3, <1>4 DEF Orderly
<1>6. ~Has(w, "run")
  BY <1>1, <1>2 DEF Has
<1>7. a \notin {"lock", "setLockout", "unlock"}
  OBVIOUS
<1> QED BY <1>1, <1>5, <1>6, <1>7 DEF Row, w

LEMMA RowsOfTwo ==
  ASSUME NEW a \in PlainOp \ {"lock"}, NEW b \in PlainOp \ {"setLockout", "unlock", "stop"},
         Follows(a, b)
  PROVE  Row(<<a, b>>)
<1> DEFINE w == <<a, b>>
<1>1. /\ w \in Seq(Op) /\ w # <<>> /\ Len(w) = 2 /\ w[1] = a /\ w[2] = b /\ a # "run" /\ b # "run"
  BY DEF Op, PlainOp
<1> HIDE DEF w
<1>2. DOMAIN w = 1..2
  BY <1>1, LenProperties
<1>3. \A i \in 1..(2 - 1) : i = 1 /\ i + 1 = 2
  OBVIOUS
<1>4. (\A i \in 2..2 : i = 2) /\ (\A i \in 1..2 : i = 1 \/ i = 2)
  OBVIOUS
<1>5. Orderly(w)
  BY <1>1, <1>3, <1>4 DEF Orderly
<1>6. ~Has(w, "run")
  BY <1>1, <1>2, <1>4 DEF Has
<1>7. a # "lock" /\ b \notin {"setLockout", "unlock", "stop"}
  OBVIOUS
<1> QED BY <1>1, <1>5, <1>6, <1>7 DEF Row, w

LEMMA RowsOfThree ==
  ASSUME NEW a \in PlainOp \ {"lock"}, NEW b \in PlainOp,
         NEW c \in PlainOp \ {"setLockout", "unlock", "stop"},
         Follows(a, b), Follows(b, c), b = "stop" => c = "setWaiting"
  PROVE  Row(<<a, b, c>>)
<1> DEFINE w == <<a, b, c>>
<1>1. /\ w \in Seq(Op) /\ w # <<>> /\ Len(w) = 3 /\ w[1] = a /\ w[2] = b /\ w[3] = c
      /\ a # "run" /\ b # "run" /\ c # "run"
  BY DEF Op, PlainOp
<1> HIDE DEF w
<1>2. DOMAIN w = 1..3
  BY <1>1, LenProperties
<1>3. \A i \in 1..(3 - 1) : (i = 1 /\ i + 1 = 2) \/ (i = 2 /\ i + 1 = 3)
  OBVIOUS
<1>4. /\ \A i \in 2..3 : i = 3 \/ (i = 2 /\ i < 3 /\ i + 1 = 3)
      /\ \A i \in 1..3 : i = 1 \/ i = 2 \/ i = 3
  OBVIOUS
<1>5. Orderly(w)
  BY <1>1, <1>3, <1>4 DEF Orderly
<1>6. ~Has(w, "run")
  BY <1>1, <1>2, <1>4 DEF Has
<1>7. a # "lock" /\ c \notin {"setLockout", "unlock", "stop"}
  OBVIOUS
<1> QED BY <1>1, <1>5, <1>6, <1>7 DEF Row, w

LEMMA RowsOfFour ==
  ASSUME NEW a \in PlainOp \ {"lock"}, NEW b \in PlainOp \ {"stop"}, NEW c \in PlainOp \ {"stop"},
         NEW d \in PlainOp \ {"setLockout", "unlock", "stop"},
         Follows(a, b), Follows(b, c), Follows(c, d)
  PROVE  Row(<<a, b, c, d>>)
<1> DEFINE w == <<a, b, c, d>>
<1>1. /\ w \in Seq(Op) /\ w # <<>> /\ Len(w) = 4
      /\ w[1] = a /\ w[2] = b /\ w[3] = c /\ w[4] = d
      /\ a # "run" /\ b # "run" /\ c # "run" /\ d # "run"
  BY DEF Op, PlainOp
<1> HIDE DEF w
<1>2. DOMAIN w = 1..4
  BY <1>1, LenProperties
<1>3. \A i \in 1..(4 - 1) : (i = 1 /\ i + 1 = 2) \/ (i = 2 /\ i + 1 = 3) \/ (i = 3 /\ i + 1 = 4)
  OBVIOUS
<1>4. /\ \A i \in 2..4 : i = 2 \/ i = 3 \/ i = 4
      /\ \A i \in 1..4 : i = 1 \/ i = 2 \/ i = 3 \/ i = 4
  OBVIOUS
<1>5. Orderly(w)
  BY <1>1, <1>3, <1>4 DEF Orderly
<1>6. ~Has(w, "run")
  BY <1>1, <1>2, <1>4 DEF Has
<1>7. a # "lock" /\ d \notin {"setLockout", "unlock", "stop"}
  OBVIOUS
<1> QED BY <1>1, <1>5, <1>6, <1>7 DEF Row, w

LEMMA EndLockoutRow == Row(EndLockout) /\ EndLockout[1] = "unlock"
BY RowsOfTwo DEF EndLockout, PlainOp, Follows

LEMMA StartLockoutRow ==
  Row(StateTransitionLockout) /\ StateTransitionLockout[1] = "resetTimer"
<1>1. Row(<<"resetTimer", "setLockout", "lock">>)
  BY RowsOfThree DEF PlainOp, Follows
<1>2. Row(<<"resetTimer", "startTimer", "setLockout", "lock">>)
  BY RowsOfFour DEF PlainOp, Follows
<1> QED BY <1>1, <1>2 DEF StateTransitionLockout

LEMMA GiveUpRow == Row(GiveUp) /\ GiveUp[1] = "unlock"
BY RowsOfThree DEF GiveUp, PlainOp, Follows

\* The calls of a state function begin with a write that fits the state.
LEMMA CallRows ==
  ASSUME NEW s \in LoopState, NEW call \in StateCalls[s] \cup {<<>>}, call # <<>>
  PROVE  Row(call) /\ (call[1] \in HalfDone => s # "lockout")
<1>1. \/ call \in WaitingCalls /\ s = "waiting"
      \/ call \in MatchingCalls \/ (call \in KeepopenCalls /\ s = "keepopen")
      \/ call \in LockoutCalls
  BY DEF StateCalls, LoopState
<1>2. /\ Row(<<"setWaiting">>) /\ Row(<<"stop">>) /\ Row(<<"setMatching">>) /\ Row(<<"startTimer">>)
  BY RowsOfOne DEF PlainOp
<1>3. Row(<<"unlock", "setKeepopen">>)
  BY RowsOfTwo DEF PlainOp, Follows
<1>4. Row(<<"startTimer">> \o EndLockout) /\ (<<"startTimer">> \o EndLockout)[1] = "startTimer"
  <2> DEFINE w == <<"startTimer">>
             e == EndLockout
             r == w \o e
  <2>1. Len(w) = 1 /\ w[1] = "startTimer" /\ Row(w)
    BY <1>2
  <2>2. Len(e) = 2 /\ e[1] = "unlock" /\ e[2] = "setWaiting" /\ Row(e)
    BY EndLockoutRow DEF EndLockout
  <2>3. e[1] \notin HalfDone
    BY <2>2 DEF HalfDone
  <2> HIDE DEF w, e
  <2>4. Orderly(r) /\ ~Has(r, "run") /\ r # <<>> /\ Head(r) = "startTimer"
    BY <2>1, <2>2, <2>3, StackOrderly DEF Row
  <2>5. r \in Seq(Op) /\ Len(r) = 1 + 2 /\ r[1 + 2] = "setWaiting"
    <3>1. \A k \in 1..2 : r[1 + k] = e[k]
      BY <2>1, <2>2, StackWith DEF Row
    <3>2. 2 \in 1..2
      OBVIOUS
    <3> QED BY <2>1, <2>2, <3>1, <3>2, StackWith DEF Row
  <2>6. r[Len(r)] = "setWaiting" /\ r[1] = "startTimer"
    BY <2>4, <2>5, TailOfStack
  <2> QED BY <2>4, <2>5, <2>6 DEF Row, w, e
<1>5. CASE call \in WaitingCalls /\ s = "waiting"
  BY <1>2, <1>5 DEF WaitingCalls
<1>6. CASE call \in MatchingCalls
  <2>1. call = <<"unlock", "setKeepopen">> => call[1] = "unlock"
    OBVIOUS
  <2> QED BY <1>3, <1>6, <2>1, StartLockoutRow, GiveUpRow DEF MatchingCalls, HalfDone
<1>7. CASE call \in KeepopenCalls /\ s = "keepopen"
  BY <1>2, <1>7, StartLockoutRow DEF KeepopenCalls
<1>8. CASE call \in LockoutCalls
  <2>1. call = <<"startTimer">> => call[1] = "startTimer"
    OBVIOUS
  <2> QED BY <1>2, <1>4, <1>8, <2>1, EndLockoutRow DEF LockoutCalls, HalfDone
<1> QED BY <1>1, <1>5, <1>6, <1>7, <1>8

-----------------------------------------------------------------------------
\* The first entry is done, and the thread goes on undisturbed.
LEMMA DoneAgrees ==
  ASSUME LoopInv, AgreeInv, todo # <<>>, Head(todo) \notin {"exit", "forcedExit"}, Done,
         Quiet, ~Ending(todo'), todo' # <<>>
  PROVE  /\ Orderly(todo') /\ SetupFirst(todo')
         /\ HeadFits
         /\ Has(todo', "run") => state = "initial" /\ Head(todo) \in OpeningOp
         /\ Has(todo, "run") => state = "initial"
         /\ Follows(Head(todo), Head(todo'))
         /\ Len(todo) > 1 /\ todo[2] = Head(todo')
         /\ Head(todo') = "stop" => Len(todo') > 1 /\ todo'[2] = "setWaiting"
<1>1. todo \in Seq(Op) /\ todo' = Tail(todo) /\ todo[1] = Head(todo)
  BY TailOfStack DEF LoopInv, Done
<1>2. ~Ending(todo)
  BY <1>1, TailOrderly
<1>3. Orderly(todo) /\ SetupFirst(todo) /\ HeadFits /\ (Has(todo, "run") => state = "initial")
  BY <1>2 DEF AgreeInv
<1> QED BY <1>1, <1>3, TailOrderly

LEMMA RunIsFirst ==
  ASSUME NEW s \in Seq(Op), s # <<>>, s[1] = "run"
  PROVE  Has(s, "run")
<1>1. 1 \in DOMAIN s
  BY TailOfStack
<1> QED BY <1>1 DEF Has

LEMMA DoorWriteAgrees == ASSUME LoopInv, AgreeInv, DoorWrite PROVE AgreeInv'
<1> DEFINE h == Head(todo)
           b == Head(todo')
<1> SUFFICES ASSUME Quiet', ~Ending(todo'), todo' # <<>>
             PROVE  (Orderly(todo) /\ SetupFirst(todo) /\ (Has(todo, "run") => state = "initial")
                     /\ HeadFits)'
  BY DEF AgreeInv
<1>1. todo # <<>> /\ Done /\ h \notin {"exit", "forcedExit"} \cup OpeningOp
  BY DEF DoorWrite, SetState, SetRunning, SetTimer, GpioWrite, Doing, OpeningOp
<1>2. mishaps' \cup {"pin"} = mishaps \cup {"pin"}
  BY DEF DoorWrite, SetState, SetRunning, SetTimer, GpioWrite
<1>3. Quiet
  BY <1>2 DEF Quiet
<1>4. /\ Orderly(todo') /\ SetupFirst(todo') /\ ~Has(todo', "run")
      /\ HeadFits
      /\ Has(todo, "run") => state = "initial"
      /\ Follows(h, b)
      /\ Len(todo) > 1 /\ todo[2] = b
      /\ b = "stop" => Len(todo') > 1 /\ todo'[2] = "setWaiting"
  BY <1>1, <1>3, DoneAgrees
<1> HIDE DEF h, b
<1>5. h = "lock" => state = "lockout"
  BY <1>4 DEF HeadFits, h
<1>6. h = "stop" => state # "lockout" \/ b = "setWaiting"
  BY <1>4 DEF HeadFits, h
<1>7. "pin" \notin mishaps =>
        /\ h \in HalfDone \ {"lock"} => ~locked
        /\ h \notin HalfDone => (locked <=> state = "lockout")
  BY <1>4 DEF HeadFits, h
<1>8. h = "run" => state = "initial"
  <2>1. h = "run" => Has(todo, "run")
    BY <1>1, RunIsFirst, TailOfStack DEF LoopInv, h
  <2> QED BY <1>4, <2>1
<1>9. SUFFICES /\ b = "lock" => state' = "lockout"
               /\ "pin" \notin mishaps' =>
                    /\ b \in HalfDone \ {"lock"} => ~locked'
                    /\ b \notin HalfDone => (locked' <=> state' = "lockout")
  BY <1>4 DEF HeadFits, b
<1>10. ASSUME NEW op \in {"setWaiting", "setMatching", "setKeepopen"}, NEW s,
              s # "lockout", SetState(op, s)
       PROVE  /\ b = "lock" => state' = "lockout"
              /\ "pin" \notin mishaps' =>
                   /\ b \in HalfDone \ {"lock"} => ~locked'
                   /\ b \notin HalfDone => (locked' <=> state' = "lockout")
  <2>1. h = op /\ state' = s /\ locked' = locked /\ mishaps' = mishaps
    BY <1>10 DEF SetState, Doing, h
  <2>2. b \notin HalfDone
    BY <1>4, <2>1 DEF Follows, HalfDone
  <2>3. h \in HalfDone \ {"lock"} /\ state' # "lockout" /\ b # "lock"
    BY <1>10, <2>1, <2>2 DEF HalfDone
  <2>4. "pin" \notin mishaps => ~locked
    BY <1>7, <2>3
  <2> QED BY <2>1, <2>2, <2>3, <2>4
<1>11. CASE SetState("setLockout", "lockout")
  BY <1>4, <1>11 DEF SetState, Doing, h, Follows, HalfDone
<1>12. CASE SetRunning("run", TRUE)
  <2>1. h = "run" /\ UNCHANGED <<locked, state, mishaps>>
    BY <1>12 DEF SetRunning, Doing, h
  <2>2. b \notin HalfDone \ {"setWaiting"}
    BY <1>4, <2>1 DEF Follows, HalfDone
  <2> QED BY <1>7, <1>8, <2>1, <2>2 DEF HalfDone
<1>13. CASE SetRunning("stop", FALSE)
  <2>1. h = "stop" /\ UNCHANGED <<locked, state, mishaps>>
    BY <1>13 DEF SetRunning, Doing, h
  <2>2. b \notin HalfDone \ {"setWaiting"}
    BY <1>4, <2>1 DEF Follows, HalfDone
  <2>3. h \in HalfDone \ {"lock"} /\ b # "lock"
    BY <2>1, <2>2 DEF HalfDone
  <2>4. "pin" \notin mishaps => ~locked
    BY <1>7, <2>3
  <2>5. b \notin HalfDone => state # "lockout"
    BY <1>6, <2>1 DEF HalfDone
  <2> QED BY <2>1, <2>3, <2>4, <2>5
<1>14. ASSUME NEW op \in {"resetTimer", "startTimer"}, NEW v, SetTimer(op, v)
       PROVE  /\ b = "lock" => state' = "lockout"
              /\ "pin" \notin mishaps' =>
                   /\ b \in HalfDone \ {"lock"} => ~locked'
                   /\ b \notin HalfDone => (locked' <=> state' = "lockout")
  <2>1. h = op /\ UNCHANGED <<locked, state, mishaps>>
    BY <1>14 DEF SetTimer, Doing, h
  <2>2. b \notin HalfDone
    BY <1>4, <2>1 DEF Follows, HalfDone
  <2> QED BY <1>7, <2>1, <2>2 DEF HalfDone
<1>15. CASE GpioWrite("lock", TRUE)
  <2>1. h = "lock" /\ state' = state /\ (locked' = TRUE \/ "pin" \in mishaps')
    BY <1>15 DEF GpioWrite, Doing, h
  <2>2. b \notin HalfDone
    BY <1>4, <2>1 DEF Follows, HalfDone
  <2> QED BY <1>5, <2>1, <2>2 DEF HalfDone
<1>16. CASE GpioWrite("unlock", FALSE)
  <2>1. h = "unlock" /\ state' = state /\ (locked' = FALSE \/ "pin" \in mishaps')
    BY <1>16 DEF GpioWrite, Doing, h
  <2>2. b \in HalfDone \ {"lock"}
    BY <1>4, <2>1 DEF Follows, HalfDone
  <2> QED BY <2>1, <2>2
<1> QED
  BY <1>10, <1>11, <1>12, <1>13, <1>14, <1>15, <1>16 DEF DoorWrite

\* An entry that writes nothing of the door, and is no half of a row.
LEMMA QuietStepAgrees ==
  ASSUME LoopInv, AgreeInv, todo # <<>>, Done, UNCHANGED <<state, locked, mishaps>>,
         Head(todo) \notin HalfDone \cup {"exit", "forcedExit", "unlock", "setLockout", "run"}
  PROVE  AgreeInv'
<1> SUFFICES ASSUME Quiet', ~Ending(todo'), todo' # <<>>
             PROVE  (Orderly(todo) /\ SetupFirst(todo) /\ (Has(todo, "run") => state = "initial")
                     /\ HeadFits)'
  BY DEF AgreeInv
<1>1. Quiet
  BY DEF Quiet
<1>2. /\ Orderly(todo') /\ SetupFirst(todo')
      /\ Has(todo', "run") => state = "initial"
      /\ HeadFits
      /\ Follows(Head(todo), Head(todo'))
  BY <1>1, DoneAgrees
<1>3. Head(todo') \notin HalfDone
  BY <1>2 DEF Follows, HalfDone
<1> QED BY <1>2, <1>3 DEF HeadFits, HalfDone

LEMMA StackEnding ==
  ASSUME NEW w \in Seq(Op), NEW s \in Seq(Op), Ending(s)
  PROVE  Ending(w \o s)
<1>1. /\ Len(w) \in Nat /\ Len(s) \in Nat /\ DOMAIN s = 1..Len(s)
      /\ DOMAIN (w \o s) = 1..(Len(w) + Len(s))
      /\ \A i \in 1..Len(s) : (w \o s)[Len(w) + i] = s[i]
  BY StackWith
<1>2. PICK i \in 1..Len(s) : s[i] \in {"exit", "forcedExit"}
  BY <1>1 DEF Ending
<1>3. Len(w) + i \in 1..(Len(w) + Len(s))
  BY <1>1
<1> QED BY <1>1, <1>2, <1>3 DEF Ending

\* A row that begins as fits the state and the pin is put on a stack.
LEMMA PushAgrees ==
  ASSUME NEW w, Row(w), NEW s \in Seq(Op), todo' = w \o s,
         UNCHANGED <<state, locked>>,
         Quiet' /\ ~Ending(s) =>
           /\ Orderly(s) /\ SetupFirst(s)
           /\ s # <<>> => s[1] \notin HalfDone
           /\ Has(s, "run") => state = "initial" /\ \A i \in DOMAIN w : w[i] \in OpeningOp
           /\ w[1] \in HalfDone => state # "lockout"
           /\ "pin" \notin mishaps' => (locked <=> state = "lockout")
  PROVE  AgreeInv'
<1> SUFFICES ASSUME Quiet', ~Ending(todo'), todo' # <<>>
             PROVE  (Orderly(todo) /\ SetupFirst(todo) /\ (Has(todo, "run") => state = "initial")
                     /\ HeadFits)'
  BY DEF AgreeInv
<1>1. w \in Seq(Op) /\ w # <<>> /\ Orderly(w) /\ ~Has(w, "run") /\ w[1] # "lock"
  BY DEF Row
<1>2. ~Ending(s)
  BY <1>1, StackEnding
<1>3. /\ Orderly(s) /\ SetupFirst(s)
      /\ s # <<>> => s[1] \notin HalfDone
      /\ Has(s, "run") => state = "initial" /\ \A i \in DOMAIN w : w[i] \in OpeningOp
      /\ w[1] \in HalfDone => state # "lockout"
      /\ "pin" \notin mishaps' => (locked <=> state = "lockout")
  BY <1>2
<1>4. /\ Orderly(todo') /\ SetupFirst(todo') /\ (Has(todo', "run") => state' = "initial")
      /\ Head(todo') = w[1]
  <2>1. CASE s = <<>>
    <3>1. todo' = w
      BY <1>1, <2>1, ConcatEmptySeq
    <3>2. SetupFirst(w)
      BY <1>1 DEF Has, SetupFirst
    <3> QED BY <1>1, <3>1, <3>2, TailOfStack
  <2>2. CASE s # <<>>
    BY <1>1, <1>3, <2>2, StackOrderly DEF Row
  <2> QED BY <2>1, <2>2
<1>5. HeadFits'
  BY <1>1, <1>3, <1>4 DEF HeadFits, HalfDone
<1> QED BY <1>4, <1>5

LEMMA CameraCallsAgree == ASSUME LoopInv, AgreeInv, CameraCalls PROVE AgreeInv'
<1>1. ASSUME NEW op \in {"openCamera", "cameraOpened", "queryFrame", "frameReceived",
                         "releaseCamera", "deleteSemaphores", "destroyCamera"},
             Doing(op), Done, UNCHANGED <<doorVars, mishaps>>
      PROVE  AgreeInv'
  BY <1>1, QuietStepAgrees DEF Doing, doorVars, HalfDone
<1>2. CASE CameraFailed
  <2> DEFINE w == <<"deleteSemaphores", "destroyCamera">>
             t == Tail(todo)
             u == Tail(t)
  <2>1. /\ todo # <<>> /\ Head(todo) = "openCamera" /\ todo' = w \o u
        /\ UNCHANGED <<state, locked, mishaps>>
    BY <1>2 DEF CameraFailed, Doing, doorVars
  <2>2. /\ todo \in Seq(Op) /\ Sound(todo) /\ todo[1] = "openCamera"
        /\ t \in Seq(Op) /\ DOMAIN todo = 1..Len(todo) /\ Len(todo) \in Nat /\ Len(todo) > 0
        /\ \A i \in 1..(Len(todo) - 1) : t[i] = todo[i + 1]
        /\ DOMAIN t = 1..(Len(todo) - 1)
    BY <2>1, TailOfStack DEF LoopInv
  <2>3. 1 < Len(todo) /\ todo[2] = "cameraOpened"
    <3>1. 1 \in DOMAIN todo /\ 1 + 1 = 2
      BY <2>2
    <3> QED
      BY <2>2, <3>1 DEF Sound, OpeningTogether
  <2>4. t[1] = "cameraOpened" /\ t # <<>>
    <3> HIDE DEF t
    <3>1. 1 \in 1..(Len(todo) - 1) /\ 1 + 1 = 2
      BY <2>2, <2>3
    <3>2. t[1] = "cameraOpened" /\ 1 \in DOMAIN t
      BY <2>2, <2>3, <3>1
    <3> QED BY <3>2
  <2>5. u \in Seq(Op)
    BY <2>2, <2>4, TailOfStack
  <2>6. Row(w) /\ w[1] = "deleteSemaphores" /\ \A i \in DOMAIN w : w[i] \in OpeningOp
    BY RowsOfTwo DEF PlainOp, Follows, OpeningOp
  <2>7. ASSUME Quiet', ~Ending(u)
        PROVE  /\ Orderly(u) /\ SetupFirst(u)
               /\ u # <<>> => u[1] \notin HalfDone
               /\ Has(u, "run") => state = "initial"
               /\ "pin" \notin mishaps' => (locked <=> state = "lockout")
    <3>1. Quiet /\ ~Ending(t) /\ ~Ending(todo)
      BY <2>1, <2>2, <2>4, <2>7, TailOrderly DEF Quiet
    <3>2. /\ Orderly(todo) /\ SetupFirst(todo) /\ (Has(todo, "run") => state = "initial") /\ HeadFits
      BY <2>1, <3>1 DEF AgreeInv
    <3>3. Orderly(t) /\ SetupFirst(t) /\ (Has(t, "run") => Has(todo, "run"))
      BY <2>1, <2>2, <3>2, TailOrderly
    <3>4. /\ Orderly(u) /\ SetupFirst(u) /\ (Has(u, "run") => Has(t, "run"))
          /\ u # <<>> => Follows("cameraOpened", Head(u))
      BY <2>2, <2>4, <3>3, TailOrderly
    <3>5. u # <<>> => u[1] \notin HalfDone
      <4>1. u # <<>> => Head(u) = u[1]
        BY <2>5, TailOfStack
      <4> QED BY <3>4, <4>1 DEF Follows, HalfDone
    <3>6. "pin" \notin mishaps => (locked <=> state = "lockout")
      BY <2>1, <3>2 DEF HeadFits, HalfDone
    <3> QED BY <2>1, <3>2, <3>3, <3>4, <3>5, <3>6
  <2>8. w[1] \notin HalfDone
    BY <2>6 DEF HalfDone
  <2> HIDE DEF w, u
  <2> QED BY <2>1, <2>5, <2>6, <2>7, <2>8, PushAgrees
<1> QED
  BY <1>1, <1>2 DEF CameraCalls, CameraCall

LEMMA RunStateAgrees == ASSUME LoopInv, AgreeInv, RunState PROVE AgreeInv'
<1>1. PICK call \in (IF running THEN StateCalls[state] ELSE {<<>>}) : todo' = call \o Tail(todo)
  BY DEF RunState
<1>2. /\ todo # <<>> /\ Head(todo) = "runState" /\ UNCHANGED <<state, locked, mishaps>>
      /\ todo \in Seq(Op) /\ state \in LoopState
  BY DEF RunState, Doing, doorVars, LoopInv
<1> DEFINE s == Tail(todo)
<1>3. s \in Seq(Op) /\ todo[1] = "runState"
  BY <1>2, TailOfStack
<1>4. CASE call = <<>>
  <2>1. todo' = s
    BY <1>1, <1>3, <1>4, ConcatEmptySeq
  <2> QED BY <1>2, <2>1, QuietStepAgrees DEF Done, HalfDone
<1>5. CASE call # <<>>
  <2>1. Row(call) /\ (call[1] \in HalfDone => state # "lockout")
    BY <1>2, <1>5, CallRows
  <2>2. ASSUME Quiet', ~Ending(s)
        PROVE  /\ Orderly(s) /\ SetupFirst(s)
               /\ s # <<>> => s[1] \notin HalfDone
               /\ ~Has(s, "run")
               /\ "pin" \notin mishaps' => (locked <=> state = "lockout")
    <3>1. Quiet /\ ~Ending(todo)
      BY <1>2, <1>3, <2>2, TailOrderly DEF Quiet
    <3>2. Orderly(todo) /\ SetupFirst(todo) /\ HeadFits
      BY <1>2, <3>1 DEF AgreeInv
    <3>3. /\ Orderly(s) /\ SetupFirst(s) /\ ~Has(s, "run")
          /\ s # <<>> => Follows("runState", Head(s))
      BY <1>2, <1>3, <3>2, TailOrderly DEF OpeningOp
    <3>4. s # <<>> => Head(s) = s[1]
      BY <1>3, TailOfStack
    <3>5. s # <<>> => s[1] \notin HalfDone
      BY <3>3, <3>4 DEF Follows, HalfDone
    <3>6. "pin" \notin mishaps => (locked <=> state = "lockout")
      BY <1>2, <3>2 DEF HeadFits, HalfDone
    <3> QED BY <1>2, <3>3, <3>5, <3>6
  <2> HIDE DEF s
  <2>3. todo' = call \o s
    BY <1>1 DEF s
  <2> QED BY <1>2, <1>3, <2>1, <2>2, <2>3, PushAgrees
<1> QED BY <1>4, <1>5

\* At a call of the main loop the end is not in sight.
LEMMA BaseGoesOn ==
  ASSUME LoopInv, TimerInv, todo # <<>>, Head(todo) \in BaseOp
  PROVE  ~Ending(todo)
<1>1. /\ todo[1] = Head(todo) /\ Len(todo) \in Nat /\ Len(todo) > 0
      /\ DOMAIN todo = 1..Len(todo)
  BY TailOfStack DEF LoopInv
<1>2. ASSUME NEW i \in DOMAIN todo PROVE todo[i] \in BaseOp
  <2>1. 1 \in DOMAIN todo /\ (i = 1 \/ 1 < i)
    BY <1>1
  <2> QED
    BY <1>1, <2>1 DEF TimerInv, BaseLast
<1> QED
  BY <1>2 DEF Ending, BaseOp

LEMMA IterationOrderly ==
  /\ Orderly(Iteration) /\ SetupFirst(Iteration) /\ ~Has(Iteration, "run")
  /\ Iteration # <<>> /\ Head(Iteration) = "queryFrame"
<1>1. /\ Len(Iteration) = 4 /\ Iteration # <<>> /\ Head(Iteration) = "queryFrame"
      /\ Iteration[1] = "queryFrame" /\ Iteration[2] = "frameReceived"
      /\ Iteration[3] = "runState" /\ Iteration[4] = "while"
  BY DEF Iteration
<1>2. DOMAIN Iteration = 1..4
  BY <1>1, IterationIsSound, LenProperties
<1>3. /\ \A i \in 1..4 : i = 1 \/ i = 2 \/ i = 3 \/ i = 4
      /\ \A i \in 2..4 : i = 2 \/ i = 3 \/ i = 4
      /\ \A i \in 1..(4 - 1) : (i = 1 /\ i + 1 = 2) \/ (i = 2 /\ i + 1 = 3) \/ (i = 3 /\ i + 1 = 4)
  OBVIOUS
<1>4. Orderly(Iteration)
  BY <1>1, <1>3 DEF Orderly, Follows
<1>5. ~Has(Iteration, "run")
  BY <1>1, <1>2, <1>3 DEF Has
<1>6. SetupFirst(Iteration)
  BY <1>5 DEF Has, SetupFirst
<1> QED BY <1>1, <1>4, <1>5, <1>6

LEMMA WhileAgrees == ASSUME LoopInv, TimerInv, AgreeInv, While PROVE AgreeInv'
<1>1. /\ todo # <<>> /\ Head(todo) = "while" /\ UNCHANGED <<state, locked, mishaps>>
      /\ todo' = Iteration \/ todo' = Shutdown
  BY DEF While, Doing, doorVars
<1>2. CASE todo' = Iteration
  <2> SUFFICES ASSUME Quiet' PROVE HeadFits'
    BY <1>2, IterationOrderly DEF AgreeInv
  <2>1. ~Ending(todo)
    BY <1>1, BaseGoesOn DEF BaseOp
  <2>2. HeadFits
    BY <1>1, <2>1 DEF AgreeInv, Quiet
  <2>3. "pin" \notin mishaps => (locked <=> state = "lockout")
    BY <1>1, <2>2 DEF HeadFits, HalfDone
  <2> QED BY <1>1, <1>2, <2>3, IterationOrderly DEF HeadFits, HalfDone
<1>3. CASE todo' = Shutdown
  <2>1. Len(Shutdown) = 5 /\ Shutdown[5] = "exit"
    BY DEF Shutdown
  <2>2. DOMAIN Shutdown = 1..5
    BY <2>1, ShutdownIsSound, LenProperties
  <2>3. 5 \in 1..5
    OBVIOUS
  <2> QED BY <1>3, <2>1, <2>2, <2>3 DEF AgreeInv, Ending
<1> QED BY <1>1, <1>2, <1>3

LEMMA SigintAgrees == ASSUME LoopInv, AgreeInv, Sigint PROVE AgreeInv'
<1> DEFINE w == <<"unlock", "forcedExit">>
<1>1. UNCHANGED <<state, locked, mishaps>> /\ (todo' = todo \/ todo' = w \o todo)
  BY DEF Sigint
<1>2. CASE todo' = todo
  BY <1>1, <1>2 DEF AgreeInv, HeadFits, Quiet
<1>3. CASE todo' = w \o todo
  <2>1. w \in Seq(Op) /\ Len(w) = 2 /\ w[2] = "forcedExit"
    BY DEF Op, PlainOp
  <2> HIDE DEF w
  <2>2. /\ DOMAIN (w \o todo) = 1..(2 + Len(todo)) /\ Len(todo) \in Nat
        /\ \A i \in 1..2 : (w \o todo)[i] = w[i]
    <3> DEFINE m == Len(w)
               s == w \o todo
    <3>1. /\ DOMAIN s = 1..(m + Len(todo)) /\ Len(todo) \in Nat
          /\ \A i \in 1..m : s[i] = w[i]
      BY <2>1, StackWith DEF LoopInv
    <3>2. m = 2
      BY <2>1
    <3> HIDE DEF m, s
    <3>3. DOMAIN s = 1..(2 + Len(todo)) /\ Len(todo) \in Nat /\ \A i \in 1..2 : s[i] = w[i]
      BY <3>1, <3>2
    <3> QED BY <3>3 DEF s
  <2>3. 2 \in 1..2 /\ 2 \in 1..(2 + Len(todo))
    BY <2>2
  <2>4. (w \o todo)[2] = "forcedExit" /\ 2 \in DOMAIN (w \o todo)
    BY <2>1, <2>2, <2>3
  <2> QED BY <1>3, <2>4 DEF AgreeInv, Ending
<1> QED BY <1>1, <1>2, <1>3

LEMMA UserSignalAgrees ==
  ASSUME LoopInv, AgreeInv, NEW handler \in {"endSIGUSR1", "endSIGUSR2"},
         NEW writes, Row(writes), writes[1] \in {"unlock", "resetTimer"},
         UserSignal(handler, writes)
  PROVE  AgreeInv'
<1> DEFINE h == <<handler>>
           w == writes \o h
<1>1. /\ todo # <<>> /\ todo \in Seq(Op) /\ todo' = w \o todo /\ UNCHANGED <<state, locked>>
      /\ todo[1] = Head(todo)
  BY TailOfStack DEF UserSignal, MaySignal, Exited, doorVars, LoopInv
<1>2. /\ mishaps \subseteq mishaps' /\ mishaps' \subseteq mishaps \cup {"early", "interrupted", "late"}
      /\ state = "initial" => "early" \in mishaps'
      /\ Head(todo) \in HalfDone => "interrupted" \in mishaps'
  BY DEF UserSignal
<1>3. h \in Seq(Op) /\ h # <<>> /\ Len(h) = 1 /\ h[1] = handler /\ Row(h)
  BY RowsOfOne DEF PlainOp, Op
<1>4. h[1] \notin HalfDone /\ handler \notin {"setLockout", "unlock", "stop"}
  BY <1>3 DEF HalfDone
<1> HIDE DEF h
<1>5. Row(w) /\ w[1] = writes[1]
  <2>1. writes \in Seq(Op) /\ writes # <<>>
    BY DEF Row
  <2>2. Orderly(w) /\ ~Has(w, "run") /\ w # <<>> /\ Head(w) = writes[1]
    BY <1>3, <1>4, StackOrderly DEF Row
  <2> DEFINE m == Len(writes)
  <2>3. w \in Seq(Op) /\ m \in Nat /\ Len(w) = m + 1 /\ \A k \in 1..1 : w[m + k] = h[k]
    BY <1>3, <2>1, StackWith
  <2> HIDE DEF m, w
  <2>4. 1 \in 1..1
    OBVIOUS
  <2>5. w[Len(w)] = handler /\ w[1] = writes[1]
    BY <1>3, <2>2, <2>3, <2>4, TailOfStack
  <2>6. writes[1] # "lock"
    BY DEF Row
  <2> QED BY <1>4, <2>2, <2>3, <2>5, <2>6 DEF Row
<1>6. ASSUME Quiet', ~Ending(todo)
      PROVE  /\ Orderly(todo) /\ SetupFirst(todo)
             /\ todo[1] \notin HalfDone
             /\ ~Has(todo, "run")
             /\ "pin" \notin mishaps' => (locked <=> state = "lockout")
  <2>1. Quiet /\ state # "initial" /\ Head(todo) \notin HalfDone
    BY <1>2, <1>6 DEF Quiet
  <2>2. Orderly(todo) /\ SetupFirst(todo) /\ ~Has(todo, "run") /\ HeadFits
    BY <1>1, <1>6, <2>1 DEF AgreeInv
  <2>3. "pin" \notin mishaps => (locked <=> state = "lockout")
    BY <2>1, <2>2 DEF HeadFits
  <2> QED BY <1>1, <1>2, <2>1, <2>2, <2>3
<1>7. w[1] \notin HalfDone
  BY <1>5 DEF HalfDone
<1> HIDE DEF w
<1> QED BY <1>1, <1>5, <1>6, <1>7, PushAgrees

LEMMA LoopInitAgrees == LoopInit => AgreeInv
<1> SUFFICES ASSUME LoopInit PROVE AgreeInv
  OBVIOUS
<1>1. todo = Setup \o Iteration /\ state = "initial" /\ locked = FALSE
  BY DEF LoopInit
<1>2. Setup \in Seq(Op) /\ Iteration \in Seq(Op)
  BY IterationIsSound DEF Setup, Op, PlainOp
<1>3. /\ Len(Setup) = 4 /\ Setup[1] = "openCamera" /\ Setup[2] = "cameraOpened"
      /\ Setup[3] = "run" /\ Setup[4] = "setWaiting"
      /\ Len(Iteration) = 4 /\ Iteration[1] = "queryFrame" /\ Iteration[2] = "frameReceived"
      /\ Iteration[3] = "runState" /\ Iteration[4] = "while"
  BY DEF Setup, Iteration
<1>4. /\ todo \in Seq(Op) /\ Len(todo) = 4 + 4 /\ DOMAIN todo = 1..(4 + 4)
      /\ \A i \in 1..4 : todo[i] = Setup[i]
      /\ \A i \in 1..4 : todo[4 + i] = Iteration[i]
  <2> DEFINE m == Len(Setup)
             n == Len(Iteration)
  <2>1. /\ todo \in Seq(Op) /\ Len(todo) = m + n /\ DOMAIN todo = 1..(m + n)
        /\ \A i \in 1..m : todo[i] = Setup[i]
        /\ \A i \in 1..n : todo[m + i] = Iteration[i]
    BY <1>1, <1>2, StackWith
  <2>2. m = 4 /\ n = 4
    BY <1>3
  <2> HIDE DEF m, n
  <2> QED BY <2>1, <2>2
<1>5. /\ todo[1] = "openCamera" /\ todo[2] = "cameraOpened" /\ todo[3] = "run"
      /\ todo[4] = "setWaiting" /\ todo[5] = "queryFrame" /\ todo[6] = "frameReceived"
      /\ todo[7] = "runState" /\ todo[8] = "while"
      /\ Len(todo) = 8 /\ DOMAIN todo = 1..8
  <2>1. /\ 1 \in 1..4 /\ 2 \in 1..4 /\ 3 \in 1..4 /\ 4 \in 1..4
        /\ 4 + 1 = 5 /\ 4 + 2 = 6 /\ 4 + 3 = 7 /\ 4 + 4 = 8
    OBVIOUS
  <2> QED BY <1>3, <1>4, <2>1
<1>6. /\ \A i \in 1..(8 - 1) : \/ (i = 1 /\ i + 1 = 2) \/ (i = 2 /\ i + 1 = 3) \/ (i = 3 /\ i + 1 = 4)
                               \/ (i = 4 /\ i + 1 = 5) \/ (i = 5 /\ i + 1 = 6) \/ (i = 6 /\ i + 1 = 7)
                               \/ (i = 7 /\ i + 1 = 8)
      /\ \A i \in 2..8 : i \in {2, 3, 4, 5, 6, 7, 8}
      /\ \A i \in 1..8 : i \in {1, 2, 3, 4, 5, 6, 7, 8}
  OBVIOUS
<1>7. Orderly(todo)
  BY <1>5, <1>6 DEF Orderly, Follows
<1>8. SetupFirst(todo)
  <2> SUFFICES ASSUME NEW i \in 1..8, NEW j \in 1..8, i < j, todo[j] = "run"
               PROVE  todo[i] \in OpeningOp
    BY <1>5 DEF SetupFirst
  <2>1. j = 3
    BY <1>5, <1>6
  <2>2. i = 1 \/ i = 2
    BY <2>1
  <2> QED BY <1>5, <2>2 DEF OpeningOp
<1>9. HeadFits
  <2>1. Head(todo) = "openCamera"
    <3>1. todo # <<>>
      <4>1. Len(todo) # Len(<<>>)
        BY <1>4, Len(<<>>) = 0
      <4> QED BY <4>1
    <3> QED BY <1>4, <1>5, <3>1, TailOfStack
  <2> QED BY <1>1, <2>1 DEF HeadFits, HalfDone
<1> QED BY <1>1, <1>7, <1>8, <1>9 DEF AgreeInv

LEMMA LoopStepAgrees == LoopInv /\ TimerInv /\ AgreeInv /\ [LoopNext]_vars => AgreeInv'
<1> SUFFICES ASSUME LoopInv, TimerInv, AgreeInv, [LoopNext]_vars PROVE AgreeInv'
  OBVIOUS
<1>1. CASE Return
  BY <1>1, QuietStepAgrees DEF Return, Doing, doorVars, HalfDone
<1>2. CASE Exit
  BY <1>2 DEF Exit, AgreeInv
<1>3. CASE MainStep
  BY <1>1, <1>2, <1>3, DoorWriteAgrees, CameraCallsAgree, RunStateAgrees, WhileAgrees
  DEF MainStep
<1>4. CASE UNCHANGED loopVars
  BY <1>4 DEF loopVars, doorVars, AgreeInv, HeadFits, Quiet
<1>5. CASE Sigint
  BY <1>5, SigintAgrees
<1>6. CASE Sigusr1
  BY <1>6, UserSignalAgrees, EndLockoutRow DEF Sigusr1
<1>7. CASE Sigusr2
  BY <1>7, UserSignalAgrees, StartLockoutRow DEF Sigusr2
<1> QED
  BY <1>3, <1>4, <1>5, <1>6, <1>7 DEF LoopNext, Driver, vars

\* For every number of signals and wherever they come, also several handlers one
\* in the other: between two calls of the main loop the pin is locked just when
\* the state is lockout, unless a signal came before catcierge_fsm_start or into
\* one of the gaps of HalfDone, or the last write of the pin failed.
THEOREM PinAgrees == LoopSpec => []DoorAgrees
<1>1. LoopInit => LoopInv /\ TimerInv /\ AgreeInv
  BY LoopInitInv, LoopInitTimed, LoopInitAgrees
<1>2. LoopInv /\ TimerInv /\ AgreeInv /\ [LoopNext]_vars => (LoopInv /\ TimerInv /\ AgreeInv)'
  BY LoopStepInv, LoopStepTimed, LoopStepAgrees
<1>3. LoopInv /\ TimerInv /\ AgreeInv => DoorAgrees
  <2> SUFFICES ASSUME LoopInv, TimerInv, AgreeInv, BetweenCalls, mishaps \subseteq {"late"}
               PROVE  locked <=> state = "lockout"
    BY DEF DoorAgrees
  <2>1. todo # <<>> /\ Head(todo) \in BaseOp /\ Head(todo) \notin HalfDone
    BY DEF BetweenCalls, BaseOp, HalfDone
  <2>2. Quiet /\ "pin" \notin mishaps /\ ~Ending(todo)
    BY <2>1, BaseGoesOn DEF Quiet
  <2>3. HeadFits
    BY <2>1, <2>2 DEF AgreeInv
  <2> QED BY <2>1, <2>2, <2>3 DEF HeadFits
<1> QED
  BY <1>1, <1>2, <1>3, PTL DEF LoopSpec
=============================================================================
