----------------------------- MODULE Rebinning -----------------------------
(***************************************************************************)
(* How merge() (src/src/merger.cpp) cuts the samples of an observable into *)
(* bins: rebinning_bin_count and rebinning_bin_length for a number of      *)
(* samples and the bin length asked for in the jobfile, 0 for none.        *)
(***************************************************************************)
EXTENDS Integers, FiniteSets, McSweeps

\* Faulty variant of BinCount: rounded up.
BinCountUp(total, asked, atLeast) ==
  IF asked # 0 THEN (total + asked - 1) \div asked ELSE AtMost(total, atLeast)

\* The samples of a file that are left when the first skip are passed over.
AfterSkip(n, skip) == n - AtMost(n, skip)

\* std::cbrt, cut down to a whole number: how many cubes there are up to n.
CubeRoot(n) == Cardinality({k \in 1 .. n : k * k * k <= n})

\* The number of bins; atLeast is min_bin_count.
BinCount(total, asked, atLeast) ==
  IF asked # 0 THEN total \div asked
  ELSE IF total <= atLeast THEN total
  ELSE atLeast + CubeRoot(total - atLeast)

\* The length of each of count > 0 bins.
BinLengthFor(total, count) == total \div count

\* The samples that go into bins; the leftover ones are thrown away.
Used(total, count) == count * BinLengthFor(total, count)
=============================================================================
