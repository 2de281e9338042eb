# A verification project for catcierge

catcierge watches a cat door with a camera. A cat that comes in with prey, or an
animal without a known RFID tag, is locked out for a while. This directory holds
TLA+ models of its decision logic and of the parts that logic stands on, the TLC
configurations that check them on small instances, and theorems that TLAPS proves
for every value of the constants.

## The system

| Component | State it keeps | Operations | Talks to |
|---|---|---|---|
| State machine (`catcierge_fsm.c`) | state function, match group, consecutive lockout count, four timers, the door | `state_waiting`, `state_matching`, `state_keepopen`, `state_lockout`, `fsm_start`, `grabber_destroy` | matcher (calls), RFID match (shared state), output (events), GPIO |
| Matchers (`catcierge_haar_matcher.c`, `catcierge_template_matcher.c`, `catcierge_matcher.c`) | classifier, snout images, region of interest | `match` one image, `decide` (veto) a group, `is_obstructed`, back light area | called by the state machine |
| Timers (`catcierge_timer.c`) | start, end, timeout | reset, start, get, timed out | called by the state machine |
| RFID readers (`catcierge_rfid.c`) | a serial port and a read buffer each | open, read, service both | call back `rfid_set_direction` |
| RFID match (`catcierge_fsm.c`) | one match per reader, a direction, "checked" | `rfid_set_direction`, `should_we_rfid_lockout` | state machine |
| Raspberry Pi camera (`raspicam_cv/RaspiCamCV.c`) | one copy of the picture, two semaphores, a pool of buffers | create, query, release; `video_buffer_callback` on a thread of the driver | main loop |
| GPIO (`catcierge_gpio.c`) | levels of the pins | export, set direction, write | called by the state machine |
| Output (`catcierge_output.c`) | templates, variables, recursion counter | generate, generate templates, execute commands | called on every event |
| Utilities (`catcierge_util.c`) | the file system | make a path, relative path, lists | output, settings |
| Grabber (`catcierge_grabber.c`) | process life, pid file | main loop, `sig_handler` | everything |
| Settings (`catcierge_args.c`, `cargo_ini.c`) | the settings record, the words of the config file | read the config file, parse it and the command line | everything |

The main loop services the RFID readers, takes a frame and calls the current state
function, once per frame. Three things run besides the main thread: the handlers of
SIGINT, SIGUSR1 and SIGUSR2, which interrupt it anywhere and change the state and the
pin; the thread of the camera driver, which copies the picture; and other instances
of the program, which share the pid file, the readers and the output directories.
The rest of what makes the program hard is the order of events between two calls of a
state function (RFID callbacks, the wall clock, errors of the matcher in the middle of
a group of four images) and state that one cat leaves to the next (results, timers,
counters, RFID matches).

What makes each component correct:

- State machine: the door is locked exactly during a lockout; a lockout lasts its
  time and ends; a group of images is decided from its own images; cached images are
  released; the program gives up only after the configured number of failed groups
  in a row; it ends with the door open.
- Match decision: prey locks out, a clean cat passes, prey never helps, the order
  of the images does not matter where it should not.
- Main loop and signals: wherever a signal comes, the pin, the state and the timer
  agree again, the process stops when asked, and the door is open at its end.
- Camera: a picture is not overwritten while the main thread looks at it, a query
  returns a picture taken after it, and the release waits for nobody who waits for it.
- RFID: a cat without a tag is locked out, and no passage ends before its time; an
  allowed tag is enough, whenever it is read (it is not: see the findings).
- RFID readers: no tag is taken for an allowed one, both readers are served, and a read
  does not hold up the main loop.
- Output: every event ends in its command; a failing template does not harm later
  ones.
- Grabber: the pid file names the instance that has it; signals force the door as
  documented.
- Utilities: a relative path leads to its target; several callers can make
  directories at once.
- Settings: the config file becomes the command line it says, or stops the start.
- Back light: a region of interest that is accepted can be watched.

## Modules

| Module | What it is |
|---|---|
| `CatMatch` | Both matchers and the group decision as operators. A frame is a record of what a matcher can tell about it (head found, brighter side, prey; correlation of the snouts). Each return code, the direction guess, the success flag, the haar veto and the group decision follow the code; the cleared result of `do_match` is why a frame without a head has direction "in". |
| `MCCatMatch` | Every group of four frames; steps replace a frame or swap two, so that action properties compare neighbouring groups. Part of `MCCatHelpers`. |
| `CatMatchProofs` | Types of the results and of the decision, proved. |
| `MCCatMatchProofs` | The promises of the group decision for every setting of the matchers, proved. |
| `CatFsm` | The state machine. One action per call of a state function, plus RFID reads, signals, start and end of the process, and `Tick` for the clock. |
| `CatDoor` | What the program promises of the door, without matchers, timers or counters. |
| `CatFsmHistory` | `CatFsm` with history variables, for promises over several steps. |
| `MCCatFsm`, `MCCatFsmHistory` | Settings and frames for TLC. |
| `CatFsmProofs` | The theorems about the state machine, with and without its history. |
| `CatCamera` | The camera as an abstract protocol between the main thread and the callback thread: buffers, semaphores, failures. |
| `CatLoop` | The main thread from the GPIO setup to its end, write by write, interrupted by signals between any two writes; it extends `CatCamera` and its steps are steps of it. |
| `MCCatLoop` | Fairness and the states in which the thread may rest, for TLC. |
| `CatLoopProofs` | The door is open at the end, a lockout has its timer, and pin and state agree, proved. |
| `CatCameraProofs` | The main loop implements `CatCamera`, and the hand-over of the picture is safe, proved. |
| `CatOutput` | Templates, text generation, events and commands, as a machine with a call stack. |
| `MCCatOutput` | Template files, commands and output paths for TLC. |
| `CatOutputProofs` | The theorems about the output. |
| `CatPidFile` | The pid file as several instances see it, one system call at a time. |
| `CatRfid` | The RFID readers: serial ports, the service call read by read, the verdict on a tag. |
| `CatGrabber` | `main`: composes `CatPidFile` and `CatRfid` for instances that start, crash and exit. |
| `MCCatGrabber` | Which instances run and which readers send, for TLC. |
| `CatGrabberProofs` | The theorems about the pid file and the readers. |
| `CatPath` | Relative paths over characters; `catcierge_make_path` by several callers, one system call at a time. |
| `CatConfig` | From the config file to a command line, and what stops the start. |
| `CatView` | Where catcierge looks in a frame, as operators: the back light and the obstruction window. |
| `MCCatHelpers` | `CatPath`, `CatConfig`, `MCCatMatch` and `CatView` for TLC, one at a time. |
| `CatHelperProofs` | Theorems about paths, config and back light: every frame and region, every number of callers, paths of any length, config files of any length whose words an `int` can count. |

The state machine is modelled twice, on purpose. `CatFsm` takes a call of a state
function as one step and has the timers, the counters and the matchers in full.
`CatLoop` takes each write as a step and leaves open which call is made, so that a
signal can come in the middle of one. What a call may do in `CatLoop` is every
sequence of writes the corresponding function can make.

How `CatFsm` corresponds to the code:

- `phase` is how far `main` has come; `running`, `state`, `consecutive`, `mg`,
  `matches`, `checkedRfidLock` are the fields of `catcierge_grb_t`; `images` is the
  set of slots whose `img` is not NULL; `locked` is the lockout pin.
- A timer is the time since its start or `TimerInactive`. `TimerHasTimedOut` rounds
  to whole seconds as the code does, so times are ticks, `Res` to a second.
- `args` never changes; it ranges over `Configs`, so one run covers several settings.
- `StateMatching` is the whole of `catcierge_state_matching` with everything it
  calls: the decision, the lock or unlock, the saving and release of the images.
  `MatchingAssertFails` is the call after an error on the fourth image.
- The obstruct image, the step images, descriptions, file names, ZMQ, the preview
  window and the backlight pin are left out; no guard reads them.
- Events and the commands they run do not change the state machine's state; they
  are in `CatOutput`. The door is the pin, so the model is of a door driven by the
  GPIO or by a pair of commands that do the same.
- Signals are handled between two calls of the loop; `CatLoop` has the rest.
- A tag after the first of its reader is dropped (`FirstTag`), an allowed one after a
  refused one too: such a cat is locked out. `CatFsmHistory` knows of the dropped tag
  (`DroppedTag`), `CatGrabber` of how it comes about, and run `rfid_split` shows it.
  The history's `passAge` is the time since the first clear frame of a passage, kept
  apart from the rematch timer.

How `CatLoop` and `CatCamera` correspond to the code:

- `todo` is the stack of the main thread: the writes it still has to make, those of a
  signal handler in front of those of the code it interrupted. `Setup`, `Iteration`
  and `Shutdown` are the parts of `main`; `StateCalls` are the writes a state function
  may make, in their order (`set_state` before `do_lockout`, but `do_unlock` before
  `set_state`).
- A handler puts its writes on the stack. A handler is not interrupted by its own
  signal, but by the others. The first SIGINT clears `running`; any further one, or
  one while the loop does not run, unlocks the door and exits (`forcedExit`).
- That a handler calls functions that are not async-signal-safe, so that the state of the
  C library could be broken by it, is left out; so is a read of an RFID reader that
  waits, which is in `CatGrabber`.
- `gpio_write` may fail (`PinFaults`), and nobody notices.
- `mishaps` records what may set the pin against the state: a user signal before
  `catcierge_fsm_start` ("early"), between the two halves of a change of the door
  ("interrupted"), after the last unlock ("late"), and a pin that was not written
  ("pin"). The code has no defence against them; the properties say that nothing
  else can do it.
- The clock, the counters and the matchers are left out, so is which event is
  triggered. With method 2 the timer may be one of 0 seconds, so that starting it and
  ending the lockout are one call.
- In `CatCamera` the main thread does the parts of `raspiCamCvCreateCameraCaptureEx`,
  `QueryFrame` and `ReleaseCapture` up to and after their waits; the callback thread
  does one call of `video_buffer_callback` per buffer: copy, post, wait, return the
  buffer. Sending a buffer to the port may fail (`CameraFaults`), which loses it.
- A post to a semaphore that was deleted has no effect; that its memory could be
  something else by then is left out. The driver is external: it calls back one call
  at a time, for the buffers it has, and not after the component is destroyed.

How `CatOutput` corresponds to the code:

- `stack` holds one frame per C call in progress: `generate` with the rest of its
  text, `get_path`, `for_loop`, `generate_templates`, `execute_list` and the caller
  that wants an image path. `res` is what the last call returned. The machine is
  needed because `recursion`, `recursion_error`, `no_relative_path`, `template_idx`
  and the user variables live in the output context, shared by all the calls.
- A text is a sequence of tokens: what a variable is (always known, known during a
  match, user variable, path, generated path, block) and not how it is spelled. The
  expansion itself, name prefixes, path operations and ZMQ are left out; whether a
  block parses is part of the token.
- `done` is what the current event has written and run; `generated` which templates
  have a generated path. After `OutputDestroy` the door is unlocked once more, as in
  `main`, and a variable of the matcher is then a null pointer (`MatcherIsGone`).
- A signal may start an event in the middle of another one, in the setup for it only:
  up to `MaxEvents` at once.

How `CatRfid`, `CatPidFile` and `CatGrabber` correspond to the code:

- A serial port is a queue of parts (half a tag, an error reply, an end of line). A
  read returns all that has arrived, so tags are cut and joined in every way that
  matters for the test of 15 bytes and for the comparison with the allowed tags.
- `rfid` holds the file descriptor and state of `catcierge_rfid_t`, `match` the fields
  of `rfid_match_t` (`data_ok`: the data is an allowed tag). `service` is the service
  call in progress; the select and each read are steps of their own, since the
  reader, or another instance at the same port, may act between them.
- A signal whose handler returns interrupts select (`args.signals` of `CatGrabber`).
  select then returns -1, the code looks only for 0, and all the files it asked for
  look ready, as they do when one of them is closed (`service.failed`). A read without
  input waits (`Blocked`); it is begun again after a signal, so only input ends it.
- A port that could not be opened has descriptor -1: `FD_ISSET` of it is undefined and
  either finds nothing or ends the process. A failed `fcntl` leaves the number of a
  closed file, which makes select fail and all readers look ready. That the number is
  used again by another file is left out, so is a pid file on descriptor 0.
- `create_pid_file` is open, lock, truncate and write, one action each; `main` goes on
  whatever it returns. File system and locks are external. Ending a process covers
  crashes, `exit` in the signal handler and every early return.
- `ReadsAreRfidReads` ties `CatRfid` to `CatFsm`: whatever the reads bring, the verdict
  changes by steps of `RfidRead` only.

How `CatPath`, `CatConfig` and `CatView` correspond to the code:

- A path in `CatPath` is its names, each a sequence of characters, and whether it ends
  in a slash, as `catcierge_get_abs_path` makes them; `RelativePath` works on the
  characters, because that is where the common prefix can go wrong. The directories
  are sets of sequences of names. `Stat` and `Mkdir` are the two system calls of
  `catcierge_make_path`, so that others can come in between. A directory that cannot be
  made, for want of permission or space, is one of `denied`. The root, which
  `catcierge_get_abs_path` spells "//", is left out of the relative paths.
- `AliniCb` is the callback of the ini parser, `configArgs` the hash table in the order
  of its iteration. `Words` and `ArgsCount` are the two passes of
  `build_config_commandline`, the filling and the counting, which the code does
  separately. The command line itself, and which options exist, are external to
  `CatConfig`: an option is a flag, one with values, or unknown.
- The number of a flag is what `strtol` makes of it, as a `size_t`: -1 is the largest, and
  text is 0 after an error message. The sum of the counts is an `int` (`AsInt`). Where the
  code goes on to write outside of an array, because that sum is not the number of the
  words or because a key has more values than `vals` holds, the model stops at a stage of
  its own ("argvOverrun", "valsOverrun"). A key that is too long is stored cut and not
  found again (`LongKeys`). `IntLimit` and `SizeLimit` are the sizes of the two types.
- In `CatView` what OpenCV finds is an input: contours with their areas, and a number
  of dark pixels. Regions lie in the frame.

Operators ending in `_Mutant`, `_OffByOne`, `_NoUnlock` or `_StaleTimer` are plausible mistakes in
the operator that follows; replacing the operator by its mutant must break the
property it is listed with.

## Runs

| Run | Question | Result |
|---|---|---|
| `fsm_safety` | Do the safety promises hold, and does the program implement `CatDoor`? | holds |
| `fsm_liveness` | Does every lockout, passage and match group end? | holds |
| `match_count_assert` | Does the assertion on the match count hold? | violated |
| `rfid_stale` | Is a cat without a tag locked out, as the help says? | violated |
| `main_loop` | With signals between any two writes: do pin, state and timer agree, does the process stop and leave the door open, is the picture handed over safely? | holds |
| `output_events` | Do nested, failing and interrupted texts leave the shared state clean, and does every event end? | holds |
| `output_limit` | Does the recursion limit mean that texts nest? | violated |
| `output_exit` | Does the last unlock run its commands? | violated |
| `process_life` | Do the pid file and the reads survive crashes, rivals, signals, cut tags and broken ports? | holds |
| `rfid_split` | Is one correct read of an allowed tag enough? | violated |
| `helpers` | Do the group decisions treat prey, heads and order as they should? Do relative paths reach their target, directories get made, config files mean what they say, and back lights leave something to watch? | holds |
| `path_made` | Is a path that was made a directory? | violated |

`fsm_safety` takes six settings: the three lockout methods, the dummy lockout, RFID
with both readers, the template matcher, with giving up after two lockouts. Two
failed groups give up, so a maximum of 2 shows one lockout that is counted, one that
gives up, and one whose count is reset. Half seconds (`Res = 2`) show the rounding.
`MaxTick` is above every timeout (`BoundAssumption`), so that a timer that has gone
past its timeout only stands still. Three haar frames (passes, fails, error) and two
template frames reach every outcome of a group that the state machine tells apart.

`fsm_liveness` uses two frames and shorter times, because two frames are enough for
groups that pass, fail and end in an error.

`main_loop` takes lockout methods 1 and 2 (3 writes what 1 writes, and ends a lockout
by writes that 2 has too), two SIGINTs (one that ends the loop, one that ends the
process), two user signals (one that interrupts the code, one that interrupts the
handler of the other) and three signals together, so that a SIGINT can meet both.
Two buffers are the least with which the driver has one while the callback holds the
other; a buffer may be lost and the last one too. Camera and pin may fail at any time.

`output_events` takes six setups: ordinary templates with nested loops, a root path
and a command that is given a generated file; texts that fail in every way the code
knows; paths that refer to each other without end; interrupted events; two refused
templates. `MaxRecursion` is the code's 20, so that the off-by-one at the limit shows.
Two events at once show an interrupted and an interrupting one.

`process_life` takes three instances around the pid file alone (one closes, one holds
the old file, one creates a new one: the hand-over race needs three), two with failing
system calls, one instance with both readers, with and without signals, and two instances
at one reader. Two parts in a port are a whole tag or the end of one and the start of the next; three add
the end of the line. Four files are one per instance and one on the path.

`helpers` takes two names of which one begins with the other, paths of up to three
names and two callers, one of which can overtake the other at each level, with one
directory, one regular file or one directory that cannot be made in the way, or none.
Config files of up to three pairs hold every mixture of a key that comes again with
another in between, for two flags, two options, a key that is no option and one that is
too long; each value is one of those `strtol` tells apart. `MaxVals`, `IntLimit` and
`SizeLimit` are scaled down to 2, 8 and 64, so that three pairs reach them: a third value
of a key finds no room, and a number can be too large for an `int`. No file of three pairs
has more words than an `int` counts without such a number, and neither has one in the
program, with 2^31 for 8 (`ConfigAssumption`).
The back lights are all rectangles in a frame of the default resolution of 320 x 240, with
the default minimum area of 10000. The groups are all groups of four of the frames a
matcher can tell apart, under five settings (number of matches needed, direction, prey
method, veto off, both matchers); a fifth frame cannot occur, so this is every group.
One of the four is at work at a time, which makes about 600,000 states. The callers are
alike, and so are the flags and the options (`Alike`): nothing the run checks names one.
`path_made` is the same model.

Fairness in `main_loop`: the main thread goes on when it can (`WF(MainStep)`); the
driver calls back for a buffer it has and its thread goes on (`WF(Driver)`); and it
delivers a picture, not only empty buffers, again and again
(`SF(Driver /\ CallbackPicture)`). Nothing is assumed about signals, and nothing about
buffers that are lost: `StopsWhenAsked` says that a single SIGINT stops the process
unless the camera has stalled, and that a second one stops it in any case.

Fairness in `output_events`: a call that was made goes on (`WF(Continue)`); with
signals an event may be interrupted again and again, so `EventEnds` is stated without
them. In `process_life`: the main loop serves the readers (`WF(ServiceReaders)`), the
readers may fall silent.

Fairness of the state machine: the main loop calls the state function for ever
(`RunState`), leaves the
loop when told to, and time passes (`Tick`). In keepopen and lockout the frame is
clear sooner or later (`StateKeepopen(FALSE)`, `StateLockout(FALSE)`): the cat goes
away. The code relies on this for method 2 and for keepopen, which wait for a clear
frame without a timeout. Nothing is assumed about RFID reads or signals, or that a
cat ever comes. `VisitsEnd` says that passages and match groups end under this
fairness.

Deadlock is not checked where the system may stop: after the end of the process or of
the calls. In `main_loop` it is checked: the thread may come to rest only when the
process has ended or the camera has stalled.

## Findings

- A matcher error on the fourth image ends in a failed assertion
  (`catcierge_fsm.c:896`): run `match_count_assert`.
- RFID matches are never cleared: after one allowed tag no later cat is refused
  (`catcierge_fsm.c:789`): run `rfid_stale`.
- The first piece of a tag decides on it (`catcierge_fsm.c:187`): an allowed tag cut in
  two reads is refused although a later read of it is correct: run `rfid_split`.
- A variable or block that fails leaves the recursion counter too high
  (`catcierge_output.c:2070`); after enough failures no text is generated any more,
  those of the lockout and unlock commands included: run `output_limit`.
- The output context is destroyed before the last unlock (`catcierge_grabber.c:318`),
  so an unlock command with a user variable is not run at the end: run `output_exit`.
- `catcierge_make_path` takes a regular file with the last name of the path for the
  directory it was to make and returns 0, although the comment in that branch says "Not a
  directory, abort" (`catcierge_util.c:180`); its callers give directories without a
  slash at the end: run `path_made`.

Known, and part of the models or carved out of the properties:

- SIGUSR2 after the last unlock leaves the door locked; a user signal before
  `catcierge_fsm_start`, or between the two halves of a change of the door, sets the
  pin against the state until the next change (the `mishaps` of `CatLoop`).
- With lockout method 2, a SIGUSR2 between the look at the frame and the start of the
  timer makes the interrupted call start the timer of the new lockout, although its
  frame is not clear (`catcierge_fsm.c:1335`).
- A camera that cannot be created is released by a wait for a callback that never
  comes: the program hangs until a second SIGINT (`RaspiCamCV.c:482`). A buffer that
  cannot be sent back is lost, and with the last one the main loop stands still
  (`RaspiCamCV.c:213`). Both are `CameraStalled`.
- The release deletes the semaphores before the driver has stopped to call back: a late
  callback may post to a deleted one (`RaspiCamCV.c:542`).
- The haar veto also hits a group with one head going out, because "no head" and "going
  out" share a return code (`catcierge_haar_matcher.c:629`).
- The help describes lockout methods 2 and 3 the wrong way round
  (`catcierge_args.c:45`); `CatFsm` follows the code.
- A signal that comes during select makes the main loop, and with it the door, wait for
  the next input of an idle reader, also with one instance: -1 is not looked for
  (`catcierge_rfid.c:205`). So does a port that `fcntl` failed on. Without these a lone
  instance does not wait (`BlocksOnlyIfSelectFailed`); a second one, which starts although
  the pid file is refused, can make the first wait in any case. A reader whose reads fail
  starves the other (`InputIsServed`).
- `catcierge_make_path` fails for a caller that is overtaken between its stat and its
  mkdir, although the directory is there then (`catcierge_util.c:172`). That not all
  callers fail (`SomeoneMakesIt`, a part of `PathIsMade`) holds only when no directory is
  denied to the one that overtakes.
- An instance that removes the pid file has given up its lock before (`close` comes
  before `unlink`, `catcierge_grabber.c:334`), so the file it removes may be another's by then.
  `OnlyHoldersRemove` says only that who never held the lock removes nothing.
- A relative path from a path without a slash at its end is wrong when the text of that
  path begins the other one (`catcierge_util.c:573`).
- Text for the number of a flag in the config file is complained about, "Not a valid
  integer", and counts as 0 (`cargo_ini.c:198`); the start goes on. The test of such a file
  (`TEST_catcierge_args.c:84`, "haar=broken") has the start refused, but for want of a
  matcher.
- A flag with a large value, or with -1 and another key in the file, is counted by its
  `size_t` in one pass of `build_config_commandline` and as an `int` in the other, and
  words are written behind `config_argv` (`cargo_ini.c:209`). A key with more
  values than `MAX_CONFIG_VAL` is written behind `vals` (`cargo_ini.c:50`).
  `OverrunsAreExplained` says that nothing else leads there.
- A key of more than 1023 characters is stored cut (`cargo_ini.c:44`), so each time it
  comes it makes an entry of its own. No option is as long.
- `--config_rpi` sets the path of the ordinary config (`catcierge_args.c:626`), and an
  option error in the camera's config is returned as success (`catcierge_rpi_args.c`).
- A cat that goes in to the left has the first 30 columns of its head left out of the
  search for prey (`catcierge_haar_matcher.c:414`); no model has this.
- A list with an empty item counts more items than it has (`catcierge_util.c:396`).

## Proofs

The theorems of `CatFsmProofs` are about `CatFsm` for every `Res`, `MaxTick`, set of
settings and set of frames that `FsmAssumption` allows.

- `TypeCorrect`. `TypeOK` bounds the lockout count by the configured maximum, which
  is not inductive: a running program must be strictly below it, since one failure
  adds one. `TypeInv` adds this (`CountBelowMax`) and how the phase, the loop and the
  state go together (`LifeCycle`). The lemmas of `CatMatchProofs` give the type of a
  match and of a decision.
- `DoorFollows` and `EndsUnlocked` need that SIGUSR2 is not sent. `DoorInv` drops the
  phase from `DoorFollowsState` and adds the phases in which the loop does not run:
  the abort keeps the door as the matching state has it, so it is proved unlocked
  only through the state.
- `GivesUpAfterAStreak`, about `CatFsmHistory` for all signals. The lockout count is not
  the history's count of failed groups, since it starts anew with a long pause;
  `StreakInv` says that it never exceeds it.
- `PassesOnThisGroup`, for all signals: the slots of a group are not cleared when the
  next one starts. `GroupInv` says that the remembered slots are the successful ones
  among those taken so far (`GoodSlots`), so that what an earlier group left in the
  others counts for nothing. The decision lets nobody in on fewer than are asked for.
- `PassagesLast`, for all signals, which may cut a passage short themselves. `PassInv`
  says that in a passage the rematch timer is as old as the passage has been clear, so no
  timer of an earlier passage is left in it when it begins: this is what the reset in
  `catcierge_decide_lock_status` is for.
- `LockoutsLast` needs that only SIGINT is sent; the other signals end a lockout early,
  or start one anew. `AgeInv` ties the history's age of a lockout to its timer.
- `ImagesAreReleased` and `DoorImplemented` need that only SIGINT is sent, since
  SIGUSR1 and SIGUSR2 cut a match group short. `DoorImplemented` maps each action to
  one of `CatDoor` or a stutter under `DoorMode`.

`CatLoopProofs` is about `CatLoop` for every bound on the signals, every set of lockout
methods and with or without failures of the pin and the camera.

- `DoorOpenAtEnd`. That the process ends unlocked says nothing while it runs. The
  inductive `LoopInv` is about the stack: a locked door has an unlock, or the end of an
  iteration, left to come to (`WillUnlock`), and so has every `lock` and every call of a
  state function still on the stack (`LocksCovered`), since what they put there may
  lock. Nothing behind a `forcedExit` counts, for the thread never comes to it. A
  handler may then put a lock on the stack because an unlock is under it, and where
  none is it is the mishap "late". `ExitIsLast` and `OpeningTogether` (in `Sound`) say
  that the ends of the process, and of a failed start of the camera, skip no unlock.
  The lemmas on stacks (`Tail...` and `Stack...`) carry each part of this from a stack to
  its rest and to one with more on it; then there is one lemma per action.
- `LockoutTimerRuns`. With methods 1 and 3 a lockout resets its timer, starts it and only
  then sets the state; a handler may come in each gap, and may begin a lockout itself.
  `TimerInv` says that on the stack a reset is followed by its start at once
  (`ResetTogether`), that while the timer is off each lockout that is going to begin
  has a start in front of it (`LockoutTimed`), and that in a lockout without a timer
  the start is still on the stack. The calls of the main loop are below everything
  else (`BaseLast`): when the thread is back at one of them, no start is left, so the
  timer runs. `LoopInv` gives the types and the shape of the stack.

- `PinAgrees`: between two calls of the main loop the pin is locked just when the state
  is lockout, but for the mishaps. Each change of the door is a row of two or three
  writes, and between them pin and state disagree. `AgreeInv` holds while no signal has
  come early or into a gap: the rows on the stack are whole (`Orderly`, by what may
  follow what), nothing comes between the start of the camera and `run`
  (`SetupFirst`), and the next write fits what state and pin are (`HeadFits`). A handler
  puts whole rows on the stack (`Row`), so several handlers, one in the other, are no
  worse than one. A stack with an end of the process in it is left out, since what is
  below is never done; that it is not left out for ever is `BaseGoesOn`.

`CatCameraProofs` extends `CatLoop` as well, for every number of buffers.

- `LoopUsesCamera`: the main loop, with all its signals and failures, implements
  `CameraSpec`. No handler touches the camera, and each step is a step of the protocol
  or leaves it alone. What is proved of `CameraSpec` holds of the loop.
- `HandoverSafe` and `QueryAnswered`. `CameraInv` says for each state of the capture
  which semaphore is up and where the callback may be; `BufferCount` that a buffer is
  used once. The heart of it is `WhileReady`: between two queries the callback holds
  the finished picture and both semaphores are down, so that the next copy needs the
  next query. That callbacks of a finished camera post without waiting, as many as
  there are buffers, is in `WhileClosing`.

`MCCatMatchProofs` is about the groups of `MCCatMatch` for every subset of `MatcherArgs`,
which are all settings of both matchers; `helpers` takes five of them. `GroupInv` says that
every step leaves four frames such as the matcher in use tells apart.

- `PassesWithAnImage`, `PreyIsLockedOut`, `CleanCatIsLetIn`: the result of one image
  (`HaarResult`), and the number of the images that count as a success against
  the number that is asked for: more images with prey than may fail, and as many good
  ones as are asked for, would have an image in common. A group that is judged to go
  out has an image that goes out and counts (`OutNeedsAnImage`).
- `PreyHelpsNobody`: prey seen in one image more can only take that image from the
  good ones, and leaves the direction alone.
- `OrderIsIgnored`, `OrderOnlyWhenTorn`: exchanging two images maps the good ones, and
  those of each direction, one to one to those of the new order (`SwapKeepsSize`), so
  that all counts are the same, and the haar decision looks at nothing but counts. The
  decision of the template matcher takes the direction of the last successful image, the
  same in every order when they all agree.

`CatOutputProofs` is about `CatOutput` for every set of templates, texts and commands,
every `MaxRecursion` and number of handlers that `OutputAssumption` allows. All five
theorems rest on one invariant, `Inv`, for which each action has a lemma for each part:

- `StackInv`: the call stack is one the program can have (`WellFormed`): which call may
  be on top of which (`MayCall`), a handler only on a call that does not wait for a
  result, and a call that waits has its result when it comes to the top again.
- `CountInv`, for `NestingIsBounded`. That the counter is bounded is not inductive: a
  call counts itself only when its text comes to a variable, and fails to count itself
  back when that fails. `Counted` says that the counter is at least what the variables
  in progress owe it (`Owed`), and that with all those that may still be counted once
  more (`Alive`) it stays within the limit; a text that is being given up
  (`Unwinding`) is not counted again.
- `ErrorInv`, `FlagInv`, `LoopVarInv`, for `IdleIsAlwaysClean`: an error flag goes with a
  counter that is too high, so that it is taken back before the counter is at zero;
  the relative path flag with the one `get_path` that has set it; and the user
  variables are the given ones and one for each loop in progress, of different names.
- `EventInvs`, for `PathsAreAlwaysOfThisEvent` and `CommandsAlwaysFollowTemplates`: the
  generated paths are those of the templates the current event has come to, and each
  event on the stack has written the templates it has passed.
- `CounterLeaksOnlyOnFailure` is an action property: in a well-formed stack a step that
  ends a variable takes it out of both counts, unless its text fails.

The theorems of `CatGrabberProofs` are about `CatGrabber` for every set of processes
and of files, all tags and texts; of the constants they use only `PidFileAssumption`,
that the marks for "nobody" and "no file" are not processes or files, and
`GrabberAssumption`, that setups are setups.

- `FileNamesHolder`. That a ready instance holds the lock of the file with its pid is
  not inductive: it says nothing of an instance between its lock and its write, and
  nothing of who else has the file open. `PidInv` adds to the types what each process
  has at each step of `create_pid_file` (`PidOwner`): the lock from the moment it is
  taken, its pid from the moment it is written. The steps of one process then leave
  the others' files alone, since a lock is taken only when free, a file is truncated
  and written only by the holder of its lock, and a new file is one nobody has open.
- `RemoversHeldTheLock` follows from `PidInv`, once each step of the program is shown
  to change the pid file by one call of `CatPidFile` or not at all
  (`PidStepOrStutter`).
- `RefusedOnlyByARival`: `LockInv` says that a lock belongs to a process that runs and
  has come that far with its own file, so nothing that a crash has left can refuse.
- `NothingIsFalselyAccepted`: `PortInv` says that the end of an allowed tag is in a port
  only after the reader has sent the whole of it. Texts are sequences of any length,
  cut and joined by the reads in any way.
- `TextsAreReads` needs only the types of the readers (`ReaderTypeOK`): each way a text
  is taken is one of the verdicts of `RfidRead` or none.
- `BlocksAfterFailedSelect`: with one instance nobody else empties a port between the
  select and the read, so what was found there is there still, or the select of this
  service call failed (`FoundInv`), by a signal or for a closed port.

`CatHelperProofs` has the helpers. Its theorems about `CatView` need no induction; they
are about every frame and region: the window that is watched lies in the region
of interest (`WindowInside`); a region of at least the default minimum area, in a frame
of at most the default size, leaves a window in which the threshold can be reached
(`BackLightCanBeWatched`, and `DefaultLightIsWatched` of the model of the run).

- `PathGetsMade` is about `CatPath` for any set of callers and of names and every depth,
  from the trees of `PathInit` (the root, with one directory or none, and one file or
  none, or a directory that cannot be made). That not all callers fail, when none of them
  is denied a directory, cannot be shown of the end alone.
  `LeaderInv` names the one that goes on: as long as a caller has no file in its way,
  there is one that has not failed and whose next call does not fail either. Who
  overtakes it has made its directory, and can do that only without a file in its own
  way (`MakersAreFree`), so it takes the place. `TreeInv` (nothing is in a file) and
  `PassedInv` (what a caller has passed is there) carry this and `MadeIsThere`.
- `PathsLeadThere` is about the texts of paths of any length. `RelativePath` sees only
  characters; that it leads to the right directory is because a slash in a text is the
  end of a name and nothing else (`TextInv`). So a common prefix that both texts continue
  with a slash is a directory above both (`CutAtSlash`), and the slashes behind it in the
  text one starts from are the levels to go up (`SlashCount`). That the prefix is the
  longest one is not needed: a shorter one would give a longer way, not a wrong one. The
  names are not empty and have no slash in them (`PathAssumption`).
- `ConfigGetsHonoured` is about `CatConfig` for every set of keys, a finite one of flags,
  every `MaxVals`, and every length of the file and sizes of the two types with which the
  file has fewer words than an `int` counts (`ConfigAssumption`). `GatherInv` says that
  `alini_cb` has one entry for each key, unless it is too long; `Gathered`, that its values
  are those of the pairs with its key, in their order; `FromPairs`, that each value is that
  of a pair; and `Measured`, that the values of all the entries together are as many as the
  pairs, the total that the count of the words needs. `StageInv` and `WrittenInv` say what
  each stage has seen: nothing starts past a bad flag or an unknown key, and what is
  written stays as it was built. The two passes of `build_config_commandline` agree because each entry has its own places in the command line (`Built`, `PlaceFacts`), as
  many as it is counted for: an option there is the option of one entry (`OptionAt`), a
  value is one value of one entry (`ValueAt`), and so the words are counted by mapping
  them one to one to keys and pairs (`OptionsAreKeys`, `ValuesArePairs`).
  That nothing is written behind the array but for a flag with a negative or large number
  (`OverrunIsOfAFlag`) is because all other entries together have at most twice as many
  words as there are pairs (`CountFacts`); that the array is full when the `int` is the
  sum of the counts is `CountFits`.

Both need induction, over the length of a path, a file or a command line, and the
induction theorems of the library are out of reach. `Least` finds the least element of a
set of numbers from the well-foundedness of `<`, which the library states without an
operator as parameter, and `SetInduction` is induction over the set of the numbers for
which something holds. `FlattenSeq`, `FoldSeq` and `FoldSet` are recursive functions, which
are values chosen to satisfy their equation: `FlattensExists` and `SumsExist` show that
there is one, `FlattenStep` and `SumsAdd` say what one element more does, in whatever order
the sum is taken, and `FlattenPlaces` where each element is.

With TLC alone stays liveness, which is out of the prover's reach: `LockedIsUnlocked`,
`VisitsEnd`, `InputIsServed`, `EventEnds`, `StopsWhenAsked`.

## Plan

1. Theorems: that `CatFsm` implements an abstract specification of the lockout with its
   timer and its count, as it does `CatDoor`; an abstract specification of an output
   event for `CatOutput`; `PathGetsMade` for trees that somebody else changes.
2. The obstruct image and the step images in `CatFsm`; the clock in `CatLoop`.
3. The table of options with their checks (`catcierge_args.c`) in `CatConfig`.

## Not modelled

- Image processing: its results are inputs. With it the haar cascade wrapper, the step
  images and the preview window.
- The parsing of the command line, which the cargo library does, the table of options
  and the camera's own options: no state but the settings, which are constants of the
  other models.
- The setup of the camera's ports and formats, and the export of GPIO pins: a sequence
  of calls to a driver, of which only the failure matters here.
- Lists, time formats, logging and the spelling of template variables: string
  processing without state.
- The publishing of events over ZMQ, the test programs, and vendored code.
