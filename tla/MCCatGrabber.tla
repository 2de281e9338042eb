---------------------------- MODULE MCCatGrabber ----------------------------
(***************************************************************************)
(* Model for TLC: who runs and what is connected, for CatGrabber.          *)
(***************************************************************************)
EXTENDS CatGrabber

CONSTANTS p1, p2, p3, A, B

\* Instances that start, crash and exit, with and without failing system calls.
PidFiles(procs, io_errors) ==
  [readers |-> {}, procs |-> procs, sending |-> {}, tags |-> {}, pending |-> 1,
   io_errors |-> io_errors, signals |-> FALSE]

\* One instance and both its readers.
OneInstance(sending, tags, pending, io_errors, signals) ==
  [readers |-> Reader, procs |-> {p1}, sending |-> sending, tags |-> tags,
   pending |-> pending, io_errors |-> io_errors, signals |-> signals]

\* Two instances at one reader.
TwoInstances ==
  [readers |-> {"outer"}, procs |-> {p1, p2}, sending |-> {"outer"}, tags |-> {A},
   pending |-> 1, io_errors |-> FALSE, signals |-> FALSE]

GrabberSetups ==
  {PidFiles(Proc, FALSE), PidFiles({p1, p2}, TRUE),
   OneInstance({"inner"}, {A, B}, 2, TRUE, TRUE),
   OneInstance({"outer"}, {A, B}, 3, TRUE, FALSE),
   OneInstance(Reader, {A}, 2, FALSE, FALSE), TwoInstances}

ReaderSetups == {OneInstance(Reader, {A}, 2, FALSE, FALSE)}
=============================================================================
