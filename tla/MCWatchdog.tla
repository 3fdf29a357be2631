------------------------------ MODULE MCWatchdog ------------------------------
(***************************************************************************)
(* Instances of Watchdog for TLC.  The unit of time is one second; every   *)
(* wait shorter than that (500 ms between ticks, 100 ms between retries)   *)
(* is rounded up to it.                                                    *)
(***************************************************************************)
EXTENDS Watchdog

\* Every failure the code handles, on a machine that stays awake.
Awake == {"hang", "crash", "quit", "createfail"}

\* Sleeping machines, failing system calls and battery saver besides.
Anything == Environment

\* A sleep too short to be noticed, and one that is.
Naps == {2, 4}
==============================================================================
