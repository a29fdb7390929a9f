------------------------------ MODULE MCObserver -----------------------------
(* The instance of Observer for TLC; the outlines of the scripts whose      *)
(* samples it is about are evaluated with it.                               *)
EXTENDS Observer, ScriptOutline

\* The values run_absorb_sweep.py goes through by default.
MCSweepValues == <<1, 2, 4, 6, 8>>
=============================================================================
