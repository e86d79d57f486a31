------------------------------ MODULE JobStatus ------------------------------
(***************************************************************************)
(* The status a row of the jobs table can have, and the state machine that *)
(* src/core/worker/state-machine.ts declares over it.                      *)
(***************************************************************************)

\* The states a job can still leave (the IN list of cancelJob and of the sweep).
Running == {"queued", "discovering", "verifying"}

\* The states isTerminal recognises.
Terminal == {"completed", "failed", "cancelled"}

\* CHECK jobs_status_chk.
Statuses == Running \cup Terminal

\* The successors state-machine.ts declares for each status.
Transitions ==
    [s \in Statuses |->
        CASE s = "queued"      -> {"discovering", "failed", "cancelled"}
          [] s = "discovering" -> {"verifying", "failed", "cancelled"}
          [] s = "verifying"   -> {"completed", "failed", "cancelled"}
          [] OTHER             -> {}]

\* A status may be set again, and otherwise only moves to a declared successor.
CanTransition(from, to) == from = to \/ to \in Transitions[from]

=============================================================================
