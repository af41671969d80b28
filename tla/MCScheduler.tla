---------------------------- MODULE MCScheduler ----------------------------
(* Scheduler on small instances; the configurations give the constants.    *)
EXTENDS Scheduler
=============================================================================
