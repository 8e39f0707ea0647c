----------------------------- MODULE Observable -----------------------------
(***************************************************************************)
(* An observable (src/src/observable.h, observable.cpp): a buffer of bins  *)
(* for the components of a vector, the last bin being filled, and its way  *)
(* into the measurement and dump files.  A value added is named by its     *)
(* measured sweep, and a sum is the sequence of the values added to it.    *)
(***************************************************************************)
EXTENDS Integers, Sequences

\* std::vector::resize of a vector of sums.
Resized(s, n) == [j \in 1 .. n |-> IF j <= Len(s) THEN s[j] ELSE << >>]

LastOnes(s, n) == SubSeq(s, Len(s) - n + 1, Len(s))

\* An observable as register_observable makes it, its vector length not known.
Registered == [vlen |-> 0, bin |-> 0, filling |-> 0, samples |-> << >>]

Sized(o, vlen) ==
  IF o.vlen # 0 THEN o ELSE [o EXCEPT !.vlen = vlen, !.samples = Resized(@, vlen)]

\* observable::add of the vector of sweep n to the bin in hand, and a new bin
\* when it is full.
Added(obs, n, vlen, binLength) ==
  LET o    == Sized(obs, vlen)
      hand == o.bin * vlen + 1 .. (o.bin + 1) * vlen
      sums == [j \in DOMAIN o.samples |->
                 IF j \in hand THEN Append(o.samples[j], n) ELSE o.samples[j]]
  IN  IF o.filling + 1 = binLength
      THEN [o EXCEPT !.bin = @ + 1, !.filling = 0,
                     !.samples = Resized(sums, (o.bin + 2) * vlen)]
      ELSE [o EXCEPT !.filling = @ + 1, !.samples = sums]

HasCompleteBins(o) == Len(o.samples) > o.vlen

\* observable::measurement_write: what it appends to the measurement file ...
CompleteBins(o) ==
  IF HasCompleteBins(o) THEN Resized(o.samples, o.bin * o.vlen) ELSE << >>

\* Faulty variant: current_bin_ is not set back.
EmptiedOnly(o) ==
  IF HasCompleteBins(o) THEN [o EXCEPT !.samples = LastOnes(@, o.vlen)] ELSE o

\* ... and what is left of the observable: the bin in hand.
Emptied(o) ==
  [o EXCEPT !.bin = 0,
            !.samples = IF HasCompleteBins(o) THEN LastOnes(@, o.vlen) ELSE @]

\* The assertions of checkpoint_write.
OneBinLeft(o) == o.bin = 0 /\ Len(o.samples) = o.vlen

\* checkpoint_write and checkpoint_read.
Dumped(o)   == [vlen |-> o.vlen, filling |-> o.filling, samples |-> o.samples]
Restored(d) == [vlen |-> d.vlen, bin |-> 0, filling |-> d.filling, samples |-> d.samples]
=============================================================================
