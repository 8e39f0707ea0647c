------------------------------ MODULE RunStore ------------------------------
(***************************************************************************)
(* What checkpoints promise about one run: a simulation that is saved and  *)
(* loaded as a whole.  Saving is one step; a process that dies loses what  *)
(* it did since the last save and nothing else, and a load gives back the  *)
(* simulation exactly as it was saved, the samples taken so far included.  *)
(***************************************************************************)
EXTENDS Integers, Sequences, FiniteSets

CONSTANTS BinLength, Therm,
          Nothing     \* no process, or nothing saved yet

VARIABLES live,   \* the running simulation: [sweep, filling, samples]
          saved   \* what the files hold of it

vars == <<live, saved>>

Fresh == [sweep |-> 0, filling |-> 0, samples |-> << >>]

\* How many of the first n sweeps are measured: all from number Therm on.
Measured(n) == Cardinality({i \in 1 .. n : i >= Therm})

\* The simulation after one more sweep; a sample is a bin of measured sweeps,
\* named by the last of them.
Advanced(m) ==
  LET n    == Measured(m.sweep + 1)
      isNew == n > Measured(m.sweep)
      fills == m.filling + 1 = BinLength
  IN  [ sweep   |-> m.sweep + 1,
        filling |-> IF ~isNew THEN m.filling ELSE IF fills THEN 0 ELSE m.filling + 1,
        samples |-> IF isNew /\ fills THEN Append(m.samples, n) ELSE m.samples ]

Init == live = Nothing /\ saved = Nothing

Load ==
  /\ live = Nothing
  /\ live' = IF saved = Nothing THEN Fresh ELSE saved
  /\ UNCHANGED saved

Work ==
  /\ live # Nothing
  /\ live' = Advanced(live)
  /\ UNCHANGED saved

Save ==
  /\ live # Nothing
  /\ saved' = live
  /\ UNCHANGED live

Die ==
  /\ live # Nothing
  /\ live' = Nothing
  /\ UNCHANGED saved

Next == Load \/ Work \/ Save \/ Die

Spec == Init /\ [][Next]_vars
=============================================================================
