----------------------------- MODULE MCRunnerPt -----------------------------
(* Small instances of RunnerPt for TLC. *)
EXTENDS RunnerPt

MCTarget == [c \in Chains |-> IF c = 0 THEN 2 ELSE 1]
MCTherm  == [c \in Chains |-> IF c = 0 THEN 1 ELSE 0]

\* One global update is enough.
MCShort  == [c \in Chains |-> 1]
MCNoTherm == [c \in Chains |-> 0]

\* The tasks of a chain agree on pt_sweeps_per_global_update.
MCSpgu   == [t \in Tasks |-> IF ChainOf(t) = 0 THEN 2 ELSE 1]
=============================================================================
