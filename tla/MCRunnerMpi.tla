---------------------------- MODULE MCRunnerMpi ----------------------------
(* Small instances of RunnerMpi for TLC. *)
EXTENDS RunnerMpi, TLC

\* Slaves are interchangeable; used in runs without liveness properties.
SlaveSymmetry == Permutations(Slaves)

\* A task with a thermalization phase and one without.
MCTarget == [t \in Tasks |-> IF t = 0 THEN 2 ELSE 1]
MCTherm  == [t \in Tasks |-> IF t = 0 THEN 1 ELSE 0]
=============================================================================
