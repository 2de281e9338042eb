---------------------------- MODULE MCCatHelpers ----------------------------
(***************************************************************************)
(* Model for TLC of what catcierge computes without waiting for anything:  *)
(* the paths (CatPath), the config file (CatConfig), the decision over a   *)
(* group of frames (MCCatMatch) and the back light (CatView), one of them  *)
(* at a time.                                                              *)
(***************************************************************************)
EXTENDS CatPath, CatConfig, MCCatMatch

View == INSTANCE CatView

CONSTANTS
  FrameWidth, FrameHeight,  \* the default resolution
  MinBacklight              \* DEFAULT_MIN_BACKLIGHT

VARIABLES
  helper,  \* the one that is at work
  light    \* the bounding rectangle of the back light; no width: no light

vars == <<pathVars, configVars, matchVars, helper, light>>

NoPaths ==
  /\ path = [c \in Caller |-> [names |-> <<>>, slash |-> TRUE]]
  /\ dirs = {<<>>} /\ files = {} /\ denied = {}
  /\ pc = [c \in Caller |-> "done"]
  /\ level = [c \in Caller |-> FirstLevel]
  /\ ret = [c \in Caller |-> 0]

NoConfig ==
  /\ configPath = "default" /\ skipDefault = TRUE /\ configFile = "missing"
  /\ pairs = <<>> /\ configArgs = <<>> /\ configArgc = 0 /\ configArgv = <<>>
  /\ stage = "done" /\ result = 0

NoGroup ==
  /\ args = Haar
  /\ frames = [i \in Slot |-> [detect |-> FALSE, head |-> FALSE, bright |-> "even", prey |-> FALSE]]

Light(w, h) == [x |-> 0, y |-> 0, width |-> w, height |-> h]

NoLight == Light(0, 0)

Init ==
  \/ helper = "paths" /\ PathInit /\ NoConfig /\ NoGroup /\ light = NoLight
  \/ helper = "config" /\ NoPaths /\ ConfigInit /\ NoGroup /\ light = NoLight
  \/ helper = "decision" /\ NoPaths /\ NoConfig /\ MatchInit /\ light = NoLight
  \/ /\ helper = "light" /\ NoPaths /\ NoConfig /\ NoGroup
     /\ \E w \in 1..FrameWidth, h \in 1..FrameHeight : light = Light(w, h)

Next ==
  /\ \/ helper = "paths" /\ PathNext /\ UNCHANGED <<configVars, matchVars>>
     \/ helper = "config" /\ ConfigNext /\ UNCHANGED <<pathVars, matchVars>>
     \/ helper = "decision" /\ MatchNext /\ UNCHANGED <<pathVars, configVars>>
  /\ UNCHANGED <<helper, light>>

Spec == Init /\ [][Next]_vars

-----------------------------------------------------------------------------
TwoNames == {<<"a">>, <<"a", "b">>}

\* The callers are alike, and so are the flags and the options.
Alike == Permutations(Caller) \cup Permutations(Flags) \cup Permutations(Options)

ConfigIsHonoured == ConfigIsKept /\ BadConfigRefused /\ OverrunsAreExplained

(***************************************************************************)
(* A back light that catcierge_get_back_light_area accepts with the        *)
(* default settings leaves a window in which a cat can be seen: of a       *)
(* smaller region the threshold of catcierge_is_frame_obstructed, which is *)
(* a number of pixels, may ask for more than there are (matcher.c:279),    *)
(* and the cat door would never lock.                                      *)
(***************************************************************************)
BackLightIsWatched ==
  LET contour == [area |-> light.width * light.height, rect |-> light]
  IN  \A roi \in View!GetBackLightArea(<<contour>>, MinBacklight) :
        View!CanBeObstructed(Light(FrameWidth, FrameHeight), roi)
=============================================================================
