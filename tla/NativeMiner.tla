------------------------------ MODULE NativeMiner ------------------------------
(***************************************************************************)
(* What the native library promises the process it is loaded into: at most *)
(* one start or stop is under way; a start is only granted while no miner  *)
(* is reported, and the miner is reported in the step that makes it mine;  *)
(* a stop ends the mining first, and the report is taken back before       *)
(* anything else may begin.                                                *)
(***************************************************************************)
CONSTANT Killable \* the process may die and be replaced

VARIABLES
  stage,    \* "idle", "starting" or "stopping"
  mines,    \* a miner mines
  reported  \* the library says so

Init == stage = "idle" /\ mines = FALSE /\ reported = FALSE

\* A start is granted ...
Grant ==
  /\ stage = "idle" /\ ~reported
  /\ stage' = "starting"
  /\ UNCHANGED <<mines, reported>>

\* ... and succeeds or fails.
Started ==
  /\ stage = "starting"
  /\ stage' = "idle"
  /\ mines' \in BOOLEAN
  /\ reported' = mines'

BeginStop ==
  /\ stage = "idle"
  /\ stage' = "stopping"
  /\ mines' = FALSE
  /\ UNCHANGED reported

Stopped ==
  /\ stage = "stopping"
  /\ stage' = "idle"
  /\ reported' = FALSE
  /\ UNCHANGED mines

\* The process dies, and another one loads the library.
Killed ==
  /\ Killable
  /\ stage' = "idle" /\ mines' = FALSE /\ reported' = FALSE

Next == Grant \/ Started \/ BeginStop \/ Stopped \/ Killed

Spec == Init /\ [][Next]_<<stage, mines, reported>>

=============================================================================
