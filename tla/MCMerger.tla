------------------------------ MODULE MCMerger ------------------------------
(* Small instances of Merger for TLC: a vector and a scalar observable. *)
EXTENDS Merger

MCVectorLength == [o \in Obs |-> IF o = "vector" THEN 2 ELSE 1]

\* Missing, empty, short and long datasets; of the vector also ones that are
\* damaged: a component is missing, or the vector length is.
MCContents ==
  [o \in Obs |-> {Absent} \cup
     IF o = "vector"
     THEN {[vlen |-> 2, size |-> n] : n \in {1, 2, 5, 6}} \cup {[vlen |-> 0, size |-> 4]}
     ELSE {[vlen |-> 1, size |-> n] : n \in {0, 1, 4, 7}}]
=============================================================================
