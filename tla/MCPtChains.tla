----------------------------- MODULE MCPtChains -----------------------------
(* Jobfiles of up to four tasks for TLC. *)
EXTENDS PtChains

MCChainIds  == -1 .. 1
MCPositions == -1 .. 2

\* One setting, and one that differs from it in each respect.
MCSettings ==
  LET usual == [target |-> 1, therm |-> 1, progress |-> 0]
  IN  {usual, [usual EXCEPT !.target = 0], [usual EXCEPT !.therm = 0],
       [usual EXCEPT !.progress = 1]}
=============================================================================
