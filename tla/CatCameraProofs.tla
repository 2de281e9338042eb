-------------------------- MODULE CatCameraProofs --------------------------
(***************************************************************************)
(* The hand-over of the picture between the main thread and the callback   *)
(* thread of the camera, for every number of buffers; and that the main    *)
(* loop, with all its signals, uses the camera as CatCamera says.          *)
(***************************************************************************)
EXTENDS CatLoop, TLAPS

-----------------------------------------------------------------------------
(***************************************************************************)
(* The inductive invariant: for each state of the capture, who may run and *)
(* which semaphore is up.                                                  *)
(***************************************************************************)
SemsDown == captureSem = 0 /\ doneSem = 0

NotHeld == callback # "holding"

\* A callback has one of the buffers.
Busy == IF callback = "idle" THEN 0 ELSE 1

\* No buffer is used twice; one post of doneSem per callback.
BufferCount == port + Busy <= NumBuffers

WhileClosed ==
  capture = "none" => callback = "idle" /\ port = 0 /\ SemsDown /\ ~finished

WhileOpening ==
  capture = "opening" =>
    /\ ~finished
    /\ captureSem = 0
    /\ doneSem = IF callback = "holding" THEN 1 ELSE 0

WhileReady == capture = "ready" => callback = "holding" /\ SemsDown /\ ~finished

\* The callback has not noticed the query yet, or is at work, or has answered.
WhileAsked ==
  capture = "asked" =>
    /\ ~finished
    /\ \/ callback = "holding" /\ captureSem = 1 /\ doneSem = 0
       \/ NotHeld /\ SemsDown
       \/ callback = "holding" /\ captureSem = 0 /\ doneSem = 1 /\ fresh

WhileFailed ==
  capture = "failed" =>
    finished /\ callback = "idle" /\ port = 0 /\ captureSem = 1 /\ doneSem = 0

WhileClosing ==
  capture = "closing" =>
    /\ finished
    /\ \/ callback = "holding" /\ captureSem = 1 /\ doneSem = 0
       \/ callback = "returning" /\ SemsDown
       \/ callback = "idle" /\ captureSem = 0 /\ doneSem + port <= NumBuffers

WhenDeleted ==
  capture = "deleted" => finished /\ callback = "idle" /\ captureSem = 0

WhenGone == capture = "gone" => finished /\ callback = "idle" /\ port = 0

CameraInv ==
  /\ CameraTypeOK
  /\ BufferCount
  /\ WhileClosed /\ WhileOpening /\ WhileReady /\ WhileAsked
  /\ WhileFailed /\ WhileClosing /\ WhenDeleted /\ WhenGone

-----------------------------------------------------------------------------
\* The camera has a buffer at least.
LEMMA SomeBuffers == NumBuffers \in Nat /\ NumBuffers > 0
BY CameraAssumption DEF CameraAssumption

\* The invariant holds before the camera is opened.
LEMMA CameraInitInv == CameraInit => CameraInv
<1> SUFFICES ASSUME CameraInit PROVE CameraInv
  OBVIOUS
<1> USE SomeBuffers DEF CameraInit
<1>1. CameraTypeOK
  <2>1. finished \in BOOLEAN /\ fresh \in BOOLEAN
    BY Zenon
  <2> QED
    BY <2>1 DEF CameraTypeOK, Capture, Callback
<1>2. BufferCount
  BY DEF BufferCount, Busy
<1>3. WhileClosed /\ WhileOpening /\ WhileReady /\ WhileAsked
  BY DEF WhileClosed, WhileOpening, WhileReady, WhileAsked, SemsDown
<1>4. WhileFailed /\ WhileClosing /\ WhenDeleted /\ WhenGone
  BY DEF WhileFailed, WhileClosing, WhenDeleted, WhenGone
<1> QED
  BY <1>1, <1>2, <1>3, <1>4 DEF CameraInv

\* What the main thread does with the camera keeps the invariant.
LEMMA MainThreadInv == CameraInv /\ MainThread => CameraInv'
<1> USE SomeBuffers
    DEF CameraInv, CameraTypeOK, BufferCount, Busy, WhileClosed, WhileOpening,
        WhileReady, WhileAsked, WhileFailed, WhileClosing, WhenDeleted, WhenGone,
        SemsDown, NotHeld, Capture, Callback
<1> SUFFICES ASSUME CameraInv, MainThread PROVE CameraInv'
  OBVIOUS
<1>1. CASE OpenCamera        BY <1>1 DEF OpenCamera
<1>2. CASE OpenCameraFails   BY <1>2 DEF OpenCameraFails
<1>3. CASE CameraOpened      BY <1>3 DEF CameraOpened
<1>4. CASE QueryFrame
  <2>1. fresh' \in BOOLEAN
    BY <1>4, Zenon DEF QueryFrame
  <2> QED
    BY <1>4, <2>1 DEF QueryFrame
<1>5. CASE FrameReceived     BY <1>5 DEF FrameReceived
<1>6. CASE ReleaseCapture    BY <1>6 DEF ReleaseCapture
<1>7. CASE DeleteSemaphores  BY <1>7 DEF DeleteSemaphores
<1>8. CASE DestroyCamera     BY <1>8 DEF DestroyCamera
<1> QED
  BY <1>1, <1>2, <1>3, <1>4, <1>5, <1>6, <1>7, <1>8 DEF MainThread

\* So does each step of video_buffer_callback.
LEMMA CallbackThreadInv == CameraInv /\ CallbackThread => CameraInv'
<1> USE SomeBuffers
    DEF CameraInv, CameraTypeOK, BufferCount, Busy, WhileClosed, WhileOpening,
        WhileReady, WhileAsked, WhileFailed, WhileClosing, WhenDeleted, WhenGone,
        SemsDown, NotHeld, Capture, Callback, mainCameraVars
<1> SUFFICES ASSUME CameraInv, CallbackThread PROVE CameraInv'
  OBVIOUS
<1>1. CASE CallbackFinished  BY <1>1 DEF CallbackFinished, CallBack
<1>2. CASE CallbackPicture   BY <1>2 DEF CallbackPicture, CallBack
<1>3. CASE CallbackEmpty     BY <1>3 DEF CallbackEmpty, CallBack
<1>4. CASE PictureCopied     BY <1>4 DEF PictureCopied
<1>5. CASE PictureReleased   BY <1>5 DEF PictureReleased
<1>6. CASE BufferReturned    BY <1>6 DEF BufferReturned
<1> QED
  BY <1>1, <1>2, <1>3, <1>4, <1>5, <1>6 DEF CallbackThread

\* And so does a step that does not touch the camera.
LEMMA CameraUnchangedInv == CameraInv /\ UNCHANGED cameraVars => CameraInv'
BY DEF cameraVars, mainCameraVars, CameraInv, CameraTypeOK, BufferCount, Busy,
   WhileClosed, WhileOpening, WhileReady, WhileAsked, WhileFailed, WhileClosing,
   WhenDeleted, WhenGone, SemsDown, NotHeld

\* The camera keeps its invariant, whatever number of buffers it has and however
\* often the driver fails to take one back.
THEOREM CameraInvariant == CameraSpec => []CameraInv
<1>1. CameraInv /\ [CameraNext]_cameraVars => CameraInv'
  BY MainThreadInv, CallbackThreadInv, CameraUnchangedInv DEF CameraNext
<1> QED
  BY <1>1, CameraInitInv, PTL DEF CameraSpec

-----------------------------------------------------------------------------
\* Every step of the process is a step of the camera or does not touch it: a
\* signal handler, even one that runs while the main thread waits for a picture,
\* never uses the camera (grabber.c:118-156).
THEOREM LoopUsesCamera == LoopSpec => CameraSpec
<1>1. LoopInit => CameraInit
  BY DEF LoopInit
<1>2. [LoopNext]_vars => [CameraNext]_cameraVars
  <2> SUFFICES ASSUME [LoopNext]_vars PROVE [CameraNext]_cameraVars
    OBVIOUS
  <2>1. CASE DoorWrite
    BY <2>1 DEF DoorWrite, SetState, SetRunning, SetTimer, GpioWrite
  <2>2. CASE CameraCalls
    BY <2>2 DEF CameraCalls, CameraCall, CameraFailed, CameraNext, MainThread
  <2>3. CASE RunState \/ While \/ Return \/ Exit
    BY <2>3 DEF RunState, While, Return, Exit
  <2>4. CASE Driver
    BY <2>4 DEF Driver, CameraNext
  <2>5. CASE Sigint
    BY <2>5 DEF Sigint
  <2>6. CASE Sigusr1 \/ Sigusr2
    BY <2>6 DEF Sigusr1, Sigusr2, UserSignal
  <2>7. CASE UNCHANGED vars
    BY <2>7 DEF vars
  <2> QED
    BY <2>1, <2>2, <2>3, <2>4, <2>5, <2>6, <2>7 DEF LoopNext, MainStep
<1> QED
  BY <1>1, <1>2, PTL DEF LoopSpec, CameraSpec

\* The main thread never looks at a picture that is being overwritten.
THEOREM PictureStable == LoopSpec => []PictureIsStable
<1>1. CameraInv => PictureIsStable
  BY DEF CameraInv, WhileReady, PictureIsStable
<1> QED
  BY <1>1, LoopUsesCamera, CameraInvariant, PTL

\* When the semaphores are deleted no callback waits on one of them.
THEOREM NobodyWaits == LoopSpec => []NobodyWaitsOnDeleted
<1>1. CameraInv => NobodyWaitsOnDeleted
  BY DEF CameraInv, WhenDeleted, NobodyWaitsOnDeleted
<1> QED
  BY <1>1, LoopUsesCamera, CameraInvariant, PTL

\* What the two semaphores are for: both of the above.
THEOREM HandoverSafe == LoopSpec => []HandoverIsSafe
<1>1. PictureIsStable /\ NobodyWaitsOnDeleted => HandoverIsSafe
  BY DEF HandoverIsSafe
<1> QED
  BY <1>1, PictureStable, NobodyWaits, PTL

\* A query returns a picture taken after the query was made.
THEOREM QueryAnswered == LoopSpec => QueryIsAnswered
<1>1. CameraInv => (FrameReceived => fresh)
  BY DEF CameraInv, CameraTypeOK, WhileAsked, SemsDown, NotHeld, FrameReceived
<1>2. CameraInv /\ [CameraNext]_cameraVars => [FrameReceived => fresh]_cameraVars
  BY <1>1
<1> QED
  BY <1>2, LoopUsesCamera, CameraInvariant, PTL DEF CameraSpec, QueryIsAnswered
=============================================================================
