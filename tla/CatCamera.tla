----------------------------- MODULE CatCamera -----------------------------
(***************************************************************************)
(* The camera of the Raspberry Pi (raspicam_cv/RaspiCamCV.c).  The camera  *)
(* driver fills buffers and calls back on a thread of its own; the main    *)
(* thread asks for a picture and waits.  Two semaphores hand the picture,  *)
(* of which there is only one copy, back and forth.                        *)
(*                                                                         *)
(* Of the driver only what the code relies on is modelled: it calls back   *)
(* once for each buffer it was sent, one call at a time, and never again   *)
(* after the component is destroyed.                                       *)
(***************************************************************************)
EXTENDS Integers

CONSTANTS
  NumBuffers,    \* video_port->buffer_num_recommended
  CameraFaults   \* TRUE if creation and mmal_port_send_buffer may fail

ASSUME CameraAssumption ==
  /\ NumBuffers \in Nat \ {0}
  /\ CameraFaults \in BOOLEAN

VARIABLES
  capture,      \* what the main thread does with the camera
  callback,     \* what the callback thread does
  port,         \* the number of buffers the driver has
  captureSem,   \* capture_sem: the picture may be overwritten
  doneSem,      \* capture_done_sem: the picture is complete
  finished,     \* state->finished
  fresh         \* the picture was taken after it was asked for

mainCameraVars == <<capture, captureSem, doneSem, finished>>
cameraVars == <<mainCameraVars, callback, port, fresh>>

\* "failed": released by raspiCamCvCreateCameraCaptureEx itself.
Capture == {"none", "opening", "ready", "asked", "closing", "failed", "deleted", "gone"}

Callback == {"idle", "copying", "holding", "returning"}

CameraInit ==
  /\ capture = "none"
  /\ callback = "idle"
  /\ port = 0
  /\ captureSem = 0
  /\ doneSem = 0
  /\ finished = FALSE
  /\ fresh = FALSE

-----------------------------------------------------------------------------
(***************************************************************************)
(* The main thread.                                                        *)
(***************************************************************************)

\* The buffers are sent to the port, those that fail stay behind; then the
\* main thread waits for a first picture.
OpenCamera ==
  /\ capture = "none"
  /\ \E sent \in 0..NumBuffers :
       /\ sent = NumBuffers \/ CameraFaults
       /\ port' = sent
  /\ capture' = "opening"
  /\ UNCHANGED <<callback, captureSem, doneSem, finished, fresh>>

\* The component is not created or does not start to capture: the capture is
\* released before any buffer was sent.
OpenCameraFails ==
  /\ capture = "none"
  /\ CameraFaults
  /\ capture' = "failed"
  /\ finished' = TRUE
  /\ captureSem' = captureSem + 1
  /\ UNCHANGED <<callback, port, doneSem, fresh>>

CameraOpened_Mutant ==
  /\ capture = "opening"
  /\ capture' = "ready"
  /\ UNCHANGED <<callback, port, captureSem, doneSem, finished, fresh>>

CameraOpened ==
  /\ capture = "opening"
  /\ doneSem > 0
  /\ doneSem' = doneSem - 1
  /\ capture' = "ready"
  /\ UNCHANGED <<callback, port, captureSem, finished, fresh>>

\* raspiCamCvQueryFrame up to its wait, and from there.
QueryFrame ==
  /\ capture = "ready"
  /\ captureSem' = captureSem + 1
  /\ capture' = "asked"
  /\ fresh' = FALSE
  /\ UNCHANGED <<callback, port, doneSem, finished>>

FrameReceived ==
  /\ capture = "asked"
  /\ doneSem > 0
  /\ doneSem' = doneSem - 1
  /\ capture' = "ready"
  /\ UNCHANGED <<callback, port, captureSem, finished, fresh>>

\* raspiCamCvReleaseCapture up to its wait; the deletion of the semaphores;
\* the end of the component, which waits for a callback in progress.
ReleaseCapture ==
  /\ capture = "ready"
  /\ finished' = TRUE
  /\ captureSem' = captureSem + 1
  /\ capture' = "closing"
  /\ UNCHANGED <<callback, port, doneSem, fresh>>

DeleteSemaphores_Mutant ==
  /\ capture = "closing"
  /\ capture' = "deleted"
  /\ UNCHANGED <<callback, port, captureSem, doneSem, finished, fresh>>

DeleteSemaphores ==
  /\ capture \in {"closing", "failed"}
  /\ doneSem > 0
  /\ doneSem' = doneSem - 1
  /\ capture' = "deleted"
  /\ UNCHANGED <<callback, port, captureSem, finished, fresh>>

DestroyCamera ==
  /\ capture = "deleted"
  /\ callback = "idle"
  /\ capture' = "gone"
  /\ port' = 0
  /\ UNCHANGED <<callback, captureSem, doneSem, finished, fresh>>

-----------------------------------------------------------------------------
(***************************************************************************)
(* The callback thread: one call of video_buffer_callback per buffer.      *)
(***************************************************************************)
CallBack ==
  /\ callback = "idle"
  /\ port > 0
  /\ port' = port - 1

\* A call that finds the camera finished does not give its buffer back.  A post
\* to a semaphore that is deleted already has no effect.
CallbackFinished ==
  /\ CallBack
  /\ finished
  /\ doneSem' = IF capture = "deleted" THEN doneSem ELSE doneSem + 1
  /\ UNCHANGED <<capture, callback, captureSem, finished, fresh>>

CallbackPicture ==
  /\ CallBack
  /\ ~finished
  /\ callback' = "copying"
  /\ UNCHANGED <<mainCameraVars, fresh>>

\* A buffer of length 0 is given back at once.
CallbackEmpty ==
  /\ CallBack
  /\ ~finished
  /\ callback' = "returning"
  /\ UNCHANGED <<mainCameraVars, fresh>>

\* The picture is handed over; the next copy has to wait for capture_sem.
PictureCopied_Mutant ==
  /\ callback = "copying"
  /\ callback' = "returning"
  /\ doneSem' = doneSem + 1
  /\ fresh' = TRUE
  /\ UNCHANGED <<capture, port, captureSem, finished>>

PictureCopied ==
  /\ callback = "copying"
  /\ callback' = "holding"
  /\ doneSem' = doneSem + 1
  /\ fresh' = TRUE
  /\ UNCHANGED <<capture, port, captureSem, finished>>

PictureReleased ==
  /\ callback = "holding"
  /\ captureSem > 0
  /\ captureSem' = captureSem - 1
  /\ callback' = "returning"
  /\ UNCHANGED <<capture, port, doneSem, finished, fresh>>

\* The buffer goes back to the pool, and from there to the port.
BufferReturned ==
  /\ callback = "returning"
  /\ callback' = "idle"
  /\ \/ port' = port + 1
     \/ CameraFaults /\ port' = port
  /\ UNCHANGED <<mainCameraVars, fresh>>

CallbackThread ==
  \/ CallbackFinished \/ CallbackPicture \/ CallbackEmpty
  \/ PictureCopied \/ PictureReleased \/ BufferReturned

MainThread ==
  \/ OpenCamera \/ OpenCameraFails \/ CameraOpened
  \/ QueryFrame \/ FrameReceived
  \/ ReleaseCapture \/ DeleteSemaphores \/ DestroyCamera

CameraNext == MainThread \/ CallbackThread

CameraSpec == CameraInit /\ [][CameraNext]_cameraVars

-----------------------------------------------------------------------------
(***************************************************************************)
(* Properties.                                                             *)
(***************************************************************************)
CameraTypeOK ==
  /\ capture \in Capture
  /\ callback \in Callback
  /\ port \in 0..NumBuffers
  /\ captureSem \in 0..1
  /\ doneSem \in 0..NumBuffers
  /\ finished \in BOOLEAN
  /\ fresh \in BOOLEAN

\* There is one copy of the picture: the callback must not write it while the
\* main thread looks at it, which is whenever no query is under way.
PictureIsStable == capture = "ready" => callback # "copying"

\* A query returns a picture that was taken for it, not an older one.
QueryIsAnswered == [][FrameReceived => fresh]_cameraVars

\* Once the semaphores are deleted no callback waits for one of them: the end of
\* the component would wait for it for ever.
NobodyWaitsOnDeleted == capture = "deleted" => callback # "holding"

\* What the two semaphores are for.
HandoverIsSafe == PictureIsStable /\ NobodyWaitsOnDeleted

\* The driver has run out of buffers, or was never given one, while the main
\* thread waits for a callback.
CameraStalled ==
  /\ capture \in {"opening", "asked", "closing", "failed"}
  /\ callback = "idle"
  /\ port = 0
  /\ doneSem = 0
=============================================================================
