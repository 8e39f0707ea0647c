------------------------------ MODULE McSweeps ------------------------------
(***************************************************************************)
(* The sweep counter of a simulation (class mc, src/src/mc.cpp) outside    *)
(* parallel tempering: which sweeps are measured, what the dump file       *)
(* records of the counter, and what reading the dump back gives.           *)
(***************************************************************************)
EXTENDS Integers

AtMost(a, b) == IF a <= b THEN a ELSE b     \* std::min

\* Faulty variants, which the runs must tell from the real definitions.
FirstSweepSkipped(sweep, therm) == sweep > therm
DumpThermTarget(sweep, therm) == [therm |-> therm, sweeps |-> sweep - AtMost(sweep, therm)]
SweepsOnly(d) == d.sweeps

(* mc::is_thermalized with pt_mode_ off: sweep_ counts the update that was *)
(* just done, so sweep number therm is already measured.                   *)
IsThermalized(sweep, therm) == sweep >= therm

(* The two counters mc::_write puts into the dump.                         *)
DumpOf(sweep, therm) ==
  [ therm  |-> AtMost(sweep, therm),
    sweeps |-> sweep - AtMost(sweep, therm) ]

(* mc::_read: the counter a run resumes with.                              *)
SweepOf(d) == d.sweeps + d.therm

-----------------------------------------------------------------------------
(* The number of sweeps in 1..sweep that were measured, in closed form.    *)
MeasuredSweeps(sweep, therm) ==
  IF therm = 0 THEN sweep
  ELSE IF sweep < therm THEN 0 ELSE sweep - therm + 1
=============================================================================
