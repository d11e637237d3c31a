----------------------------- MODULE MCMediaStream -----------------------------
(* MediaStream for TLC: flushes without timers, timers without flushes. *)
EXTENDS MediaStream

None == [gets |-> 2, flushes |-> 0, pauses |-> 0, recoveries |-> 0,
         probes |-> FALSE, pump |-> FALSE, timers |-> FALSE]
Long == [None EXCEPT !.timers = TRUE]

MCBudgets ==
  {[None EXCEPT !.probes = TRUE, !.flushes = 1],
   [None EXCEPT !.probes = TRUE, !.flushes = 1, !.gets = 1, !.pump = TRUE],
   [Long EXCEPT !.recoveries = 1, !.gets = 1],
   [Long EXCEPT !.pauses = 1, !.gets = 1]}
=============================================================================
