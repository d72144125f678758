----------------------------- MODULE MCScheduler -----------------------------
EXTENDS Scheduler

(* Every instant, one instant, another one, and never again.               *)
MCCron == {{0, 1, 2}, {0}, {2}, {}}
=============================================================================
