------------------------------ MODULE CatDoor ------------------------------
(***************************************************************************)
(* What catcierge promises of the cat door, whatever the matchers, timers  *)
(* and counters do: a cat is checked before it passes or is locked out;    *)
(* the door is locked exactly during a lockout; a cat let through by the   *)
(* camera may still be locked out by the RFID check; the program ends with *)
(* the door open.                                                          *)
(***************************************************************************)
VARIABLES
  mode,     \* what the program does with the cat
  locked,   \* the door
  dummy     \* a dummy lockout never locks the door

doorSpecVars == <<mode, locked, dummy>>

Mode == {"off", "open", "checking", "passing", "lockout", "stopping", "stopped"}

\* The door is as the last process left it.
Init ==
  /\ mode = "off"
  /\ locked \in BOOLEAN
  /\ dummy \in BOOLEAN

\* Start, the end of a lockout, the end of a passage.
Open ==
  /\ mode \in {"off", "lockout", "passing"}
  /\ mode' = "open"
  /\ locked' = FALSE
  /\ UNCHANGED dummy

Check ==
  /\ mode = "open"
  /\ mode' = "checking"
  /\ UNCHANGED <<locked, dummy>>

Pass ==
  /\ mode = "checking"
  /\ mode' = "passing"
  /\ UNCHANGED <<locked, dummy>>

LockOut ==
  /\ mode \in {"checking", "passing"}
  /\ mode' = "lockout"
  /\ locked' = ~dummy
  /\ UNCHANGED dummy

\* The program is asked to stop, or gives up; a lockout is not ended at once.
Stopping ==
  /\ mode \in {"open", "checking", "passing", "lockout"}
  /\ mode' = "stopping"
  /\ UNCHANGED <<locked, dummy>>

Stop ==
  /\ mode \in {"open", "checking", "stopping", "stopped"}
  /\ mode' = "stopped"
  /\ locked' = FALSE
  /\ UNCHANGED dummy

Next == Open \/ Check \/ Pass \/ LockOut \/ Stopping \/ Stop

Spec == Init /\ [][Next]_doorSpecVars
=============================================================================
