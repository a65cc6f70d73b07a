------------------------------ MODULE MCOutbox ------------------------------
(* The instance of Outbox for TLC: model values for jobs and workers, no   *)
(* symmetry, as the run checks liveness too.                               *)
EXTENDS Outbox
=============================================================================
