------------------------------ MODULE Heartbeat ------------------------------
(***************************************************************************)
(* The named shared-memory section Local\Nanoloop_Heartbeat, through which *)
(* the agent tells the watchdog that its control loop is running           *)
(* (shared/heartbeat.hpp).                                                 *)
(*                                                                         *)
(* A section exists for as long as one process holds a handle to it: the   *)
(* agent's HeartbeatWriter or the monitor's HeartbeatReader.  Either side  *)
(* may hold the handle without a view of the memory (MapViewOfFile         *)
(* failed), and is then not valid().                                       *)
(*                                                                         *)
(* Time is relative: where the code stores GetTickCount64() and later      *)
(* subtracts, the model keeps the AGE of the stored value, which the       *)
(* passage of time advances up to Horizon.  Horizon lies beyond every      *)
(* threshold of the code, so saturating there is never observed.           *)
(* tick_counter and agent_pid are left out: nothing reads them.            *)
(***************************************************************************)
EXTENDS Naturals

CONSTANTS
    StaleTimeout,  \* is_alive(5000)
    Horizon        \* ages saturate here; a bound of the model

ASSUME HeartbeatAssumption ==
    /\ StaleTimeout \in Nat \ {0}
    /\ Horizon \in Nat
    /\ StaleTimeout < Horizon

VARIABLES
    writer,   \* what the agent's HeartbeatWriter holds
    reader,   \* what the monitor's HeartbeatReader holds
    ticked,   \* last_tick_time # 0
    tickAge   \* time since last_tick_time was stored

heartbeatVars == <<writer, reader, ticked, tickAge>>

Holding == {"none", "handle", "view"}
Age == 0..Horizon

HeartbeatTypeOK ==
    /\ writer \in Holding
    /\ reader \in Holding
    /\ ticked \in BOOLEAN
    /\ tickAge \in Age

HeartbeatInit ==
    /\ writer = "none"
    /\ reader = "none"
    /\ ticked = FALSE
    /\ tickAge = 0

SectionExists == writer # "none" \/ reader # "none"

(***************************************************************************)
(* Constructor of HeartbeatWriter: create or open the section, map it and  *)
(* reset the counters.  Each of the two system calls may fail.             *)
(***************************************************************************)
WriterOpen ==
    /\ writer' \in Holding
    /\ ticked' = (ticked /\ writer' # "view")
    /\ tickAge' = IF writer' = "view" THEN 0 ELSE tickAge
    /\ UNCHANGED reader

\* HeartbeatWriter::tick: nothing happens without a view.
WriterTick ==
    /\ ticked' = (ticked \/ writer = "view")
    /\ tickAge' = IF writer = "view" THEN 0 ELSE tickAge
    /\ UNCHANGED <<writer, reader>>

\* The contents go when the last handle goes.
Released(other) ==
    /\ ticked' = (ticked /\ other # "none")
    /\ tickAge' = IF other # "none" THEN tickAge ELSE 0

\* The agent's process ends and the system closes its handles.
WriterClose ==
    /\ writer' = "none"
    /\ Released(reader)
    /\ UNCHANGED reader

\* Constructor of HeartbeatReader: opens only a section that exists.
ReaderOpen ==
    /\ reader' \in IF SectionExists THEN Holding ELSE {"none"}
    /\ UNCHANGED <<writer, ticked, tickAge>>

\* Destructor of HeartbeatReader.
ReaderClose ==
    /\ reader' = "none"
    /\ Released(writer)
    /\ UNCHANGED writer

\* is_alive(timeout_ms), the comparison: (now - last_time) < timeout_ms.
Fresh(age) == age < StaleTimeout

\* An age, d time units later, if what it measures is on record.
Later(counting, age, d) ==
    IF ~counting THEN age
    ELSE IF age + d < Horizon THEN age + d ELSE Horizon
==============================================================================
