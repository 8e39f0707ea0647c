---------------------------- MODULE MCJobStatus -----------------------------
(* Small instances of JobStatus, and RunnerSingle in it, for TLC. *)
EXTENDS JobStatus

\* Tasks without and with a thermalization phase.
MCTarget == [t \in Tasks |-> 2 - t]
MCTherm  == [t \in Tasks |-> t]
=============================================================================
