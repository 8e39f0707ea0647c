------------------------------- MODULE Merger -------------------------------
(***************************************************************************)
(* merge() (src/src/merger.cpp) for the measurement files of one task, and *)
(* the jackknife of an evalable made from the result (src/src/evalable.cpp)*)
(*                                                                         *)
(* The files are read three times, each time opened anew: to count the     *)
(* samples, to average them, and to average them in bins.  `loadl merge'   *)
(* may do so while the simulation still runs (loadleveller.h:49-52), and   *)
(* every checkpoint puts a longer file in the place of the old one, so a   *)
(* writer takes part.  An entry of a samples dataset is named <<file,      *)
(* index>>, and a sum is the sequence of the entries added to it.          *)
(***************************************************************************)
EXTENDS Integers, Sequences, SequencesExt, Rebinning

CONSTANTS
  NFiles,        \* the number of measurement files of the task
  Obs,           \* names of observables
  VectorLength,  \* observable -> its vector length
  Contents,      \* observable -> the datasets a file may hold of it
  Skips,         \* the values of merge_sample_skip
  RebinLengths,  \* the values of merge_rebin_length; 0: choose
  MinBinCount,   \* min_bin_count, 10 in the code
  MaxReplaced    \* bound: how often a file is replaced while merge() runs

Files == 1 .. NFiles

\* A file's dataset of an observable: its vector_length and extent of samples.
Datasets == [vlen : Nat, size : Nat]
Absent   == [vlen |-> 0, size |-> -1]      \* there is no such group

\* What the first pass counts: not what is empty, nor what it calls corrupted.
\* A group that has lost one of its datasets is not among the contents: the first
\* pass catches what HDF5 throws and goes on, the other two (merger.cpp:124, 173)
\* would end merge() with it.
Sound(d) == d.size > 0 /\ d.vlen # 0 /\ d.size % d.vlen = 0

\* A dataset that is not damaged has the vector length of its observable.
ASSUME MergerAssumption ==
  /\ NFiles \in Nat \ {0}
  /\ VectorLength \in [Obs -> Nat \ {0}]
  /\ \A o \in Obs : Contents[o] \subseteq Datasets \cup {Absent}
  /\ \A o \in Obs : \A d \in Contents[o] : Sound(d) => d.vlen = VectorLength[o]
  /\ Skips \subseteq Nat /\ RebinLengths \subseteq Nat
  /\ MinBinCount \in Nat /\ MaxReplaced \in Nat

VARIABLES
  files,      \* the measurement files, as they are now
  replaced,   \* how often a file was replaced since
  skip, asked,\* sample_skip, rebinning_bin_length
  pass, at,   \* which pass merge() is in, and the file it opens next
  \* res.observables, by observable
  found,      \* the observables there are
  total,      \* total_sample_count
  count,      \* rebinning_bin_count
  length,     \* rebinning_bin_length
  mean,       \* component -> entries added to the mean
  bins,       \* rebinning_means: index -> entries added
  closed,     \* the indices of rebinning_means divided by the length, in order
  \* metadata
  known,      \* the observables that have any
  counter, filling, rebin

inputVars == <<files, replaced, skip, asked>>
metaVars  == <<known, counter, filling, rebin>>
vars == <<inputVars, pass, at, found, total, count, length, mean, bins, closed,
          metaVars>>

Components(o) == 0 .. VectorLength[o] - 1
Slots(o, n)   == 0 .. n * VectorLength[o] - 1       \* of rebinning_means

Init ==
  /\ files \in [Files -> {c \in [Obs -> UNION {Contents[o] : o \in Obs}] :
                            \A o \in Obs : c[o] \in Contents[o]}]
  /\ replaced = 0
  /\ skip \in Skips /\ asked \in RebinLengths
  /\ pass = "collect" /\ at = 1
  /\ found = {} /\ total = [o \in Obs |-> 0]
  /\ count = [o \in Obs |-> 0] /\ length = [o \in Obs |-> 0]
  /\ mean = [o \in Obs |-> [c \in Components(o) |-> << >>]]
  /\ bins = [o \in Obs |-> << >>] /\ closed = [o \in Obs |-> << >>]
  /\ known = {} /\ counter = [o \in Obs |-> 0]
  /\ filling = [o \in Obs |-> 0] /\ rebin = [o \in Obs |-> 0]

\* A checkpoint of the simulation: the file that takes the place of file f has
\* one more sample of some observables.  Damaged datasets are not written to.
Intact(d, o) == d = Absent \/ (d.vlen = VectorLength[o] /\ d.size % d.vlen = 0)
Extended(d, o) ==
  [ vlen |-> VectorLength[o],
    size |-> (IF d = Absent THEN 0 ELSE d.size) + VectorLength[o] ]

Grow(f, longer) ==
  /\ pass # "merged" /\ replaced < MaxReplaced
  /\ \A o \in longer : Intact(files[f][o], o)
  /\ files' = [files EXCEPT ![f] =
       [o \in Obs |-> IF o \in longer THEN Extended(@[o], o) ELSE @[o]]]
  /\ replaced' = replaced + 1
  /\ UNCHANGED <<skip, asked, pass, at, found, total, count, length, mean, bins,
                 closed, metaVars>>

-----------------------------------------------------------------------------
(* merge()                                                                 *)

\* g.exists, or one turn of the loop over the names in a file.
Has(f, o) == files[f][o] # Absent

\* From one file to the next, and from the last one on to what comes then.
Advance(then) ==
  IF at < NFiles THEN at' = at + 1 /\ UNCHANGED pass ELSE at' = 1 /\ pass' = then

\* The first pass, one file.
Collect ==
  /\ pass = "collect"
  /\ LET counted == {o \in Obs : Sound(files[at][o])}
     IN  /\ found' = found \cup counted
         /\ total' = [o \in Obs |-> total[o] +
              IF o \in counted
              THEN AfterSkip(files[at][o].size \div files[at][o].vlen, skip)
              ELSE 0]
  /\ Advance("rebin")
  /\ UNCHANGED <<inputVars, count, length, mean, bins, closed, metaVars>>

\* Choose the bins; an observable without any gets no metadata here.
Rebin ==
  /\ pass = "rebin"
  /\ count' = [o \in Obs |-> BinCount(total[o], asked, MinBinCount)]
  /\ LET binned == {o \in found : count'[o] # 0}
     IN  /\ length' = [o \in Obs |-> IF o \in binned
                                     THEN BinLengthFor(total[o], count'[o]) ELSE 0]
         /\ bins' = [o \in Obs |-> [b \in Slots(o, count'[o]) |-> << >>]]
         /\ known' = binned
  /\ pass' = "mean"
  /\ UNCHANGED <<inputVars, at, found, total, mean, closed, counter, filling, rebin>>

\* Faulty variants of the next definitions.
EntriesFromSample(o) == [j \in 1 .. files[at][o].size - skip |-> skip + j - 1]
FilledAlways(n, c) == n + 1
LookedUpIfBinned == {o \in found : Has(at, o) /\ count[o] # 0}

\* The entries of the file a pass has open that its loop looks at, in order.
Entries(o) ==
  LET first == skip * VectorLength[o]
  IN  [j \in 1 .. files[at][o].size - first |-> first + j - 1]

IsLast(o, i) == i % VectorLength[o] = VectorLength[o] - 1
Component(o, i) == i % VectorLength[o]

\* One turn of the loop of the second pass.
AddToMean(o, acc, i) ==
  IF acc.counter >= count[o] * length[o] THEN acc
  ELSE [ sums    |-> [acc.sums EXCEPT ![Component(o, i)] = Append(@, <<at, i>>)],
         counter |-> acc.counter + IF IsLast(o, i) THEN 1 ELSE 0 ]

MeanOf(o) ==
  IF ~Has(at, o) THEN [sums |-> mean[o], counter |-> counter[o]]
  ELSE FoldLeft(LAMBDA acc, i : AddToMean(o, acc, i),
                [sums |-> mean[o], counter |-> counter[o]], Entries(o))

\* The condition of the loop asks for metadata[obs_name], which creates it.
LookedUp == {o \in found : Has(at, o)}

\* The second pass, one file.
SumMeans ==
  /\ pass = "mean"
  /\ mean' = [o \in Obs |-> IF o \in found THEN MeanOf(o).sums ELSE mean[o]]
  /\ counter' = [o \in Obs |-> IF o \in found THEN MeanOf(o).counter ELSE counter[o]]
  /\ known' = known \cup LookedUp
  /\ Advance("bins")
  /\ UNCHANGED <<inputVars, found, total, count, length, bins, closed, filling, rebin>>

\* current_rebin_filling, from n, when an entry of component c is added.
Filled(n, c) == n + IF c = 0 THEN 1 ELSE 0

\* One turn of the loop of the third pass.
AddToBin(o, acc, i) ==
  LET slot   == acc.rebin * VectorLength[o] + Component(o, i)
      filled == Filled(acc.filling, Component(o, i))
      full   == filled >= length[o]
      next   == full /\ IsLast(o, i)
  IN  IF acc.rebin >= count[o] THEN acc
      ELSE [ bins    |-> [acc.bins EXCEPT ![slot] = Append(@, <<at, i>>)],
             closed  |-> IF full THEN Append(acc.closed, slot) ELSE acc.closed,
             filling |-> IF next THEN 0 ELSE filled,
             rebin   |-> acc.rebin + IF next THEN 1 ELSE 0 ]

BinsOf(o) ==
  LET acc == [ bins |-> bins[o], closed |-> closed[o],
               filling |-> filling[o], rebin |-> rebin[o] ]
  IN  IF ~Has(at, o) THEN acc
      ELSE FoldLeft(LAMBDA a, i : AddToBin(o, a, i), acc, Entries(o))

\* The third pass, one file.  metadata.at throws for an unknown observable.
FillBins ==
  /\ pass = "bins" /\ found \subseteq known
  /\ LET acc == [o \in Obs |-> IF o \in found THEN BinsOf(o) ELSE
                   [ bins |-> bins[o], closed |-> closed[o],
                     filling |-> filling[o], rebin |-> rebin[o] ]]
     IN  /\ bins' = [o \in Obs |-> acc[o].bins]
         /\ closed' = [o \in Obs |-> acc[o].closed]
         /\ filling' = [o \in Obs |-> acc[o].filling]
         /\ rebin' = [o \in Obs |-> acc[o].rebin]
  /\ Advance("merged")
  /\ UNCHANGED <<inputVars, found, total, count, length, mean, known, counter>>

\* The result is returned.
Returned == pass = "merged" /\ UNCHANGED vars

Next ==
  \/ Collect \/ Rebin \/ SumMeans \/ FillBins
  \/ \E f \in Files, longer \in SUBSET Obs \ {{}} : Grow(f, longer)
  \/ Returned

Spec == Init /\ [][Next]_vars

-----------------------------------------------------------------------------
(* evaluator::jackknife, for an evalable made from the observables used.   *)

\* The bins it goes through: as many as the poorest ingredient has, none if one
\* of them is missing.
EvalBins(used) ==
  IF used \subseteq found THEN Min({count[o] : o \in used}) ELSE 0

\* What the estimate is made from, for a component of an ingredient.
CompleteData(used, o, c) ==
  UNION {ToSet(bins[o][k * VectorLength[o] + c]) : k \in 0 .. EvalBins(used) - 1}

\* Faulty variant: components before bins.
JackedTransposed(used, k, o, c) ==
  CompleteData(used, o, c) \ ToSet(bins[o][c * EvalBins(used) + k])

\* The k-th jackknife sample of it: the k-th bin is taken out.
JackedData(used, k, o, c) ==
  CompleteData(used, o, c) \ ToSet(bins[o][k * VectorLength[o] + c])

-----------------------------------------------------------------------------
(* Properties                                                              *)

\* What a file has to offer for component c of o, and all files in their order.
Offered(f, o, c) ==
  LET v == VectorLength[o]
      n == IF Has(f, o) THEN files[f][o].size \div v ELSE 0
  IN  [j \in 1 .. n - AtMost(n, skip) |-> <<f, (skip + j - 1) * v + c>>]

Usable(o, c) == FlattenSeq([f \in Files |-> Offered(f, o, c)])

\* No file is damaged for o.
AllIntact(o) == \A f \in Files : Intact(files[f][o], o)

\* merger.cpp:138-139: up to the leftover samples at the end, which are thrown
\* away, the bins of an observable are consecutive blocks of its samples, across
\* the borders of the files and for each component alike, and the mean is made
\* from just these samples: three passes that each count on their own agree.
SamplesInBlocks ==
  pass = "merged" /\ replaced = 0 => \A o \in {p \in found : AllIntact(p)} :
    \A c \in Components(o) :
      /\ mean[o][c] = SubSeq(Usable(o, c), 1, count[o] * length[o])
      /\ \A k \in 0 .. count[o] - 1 :
           bins[o][k * VectorLength[o] + c] =
             SubSeq(Usable(o, c), k * length[o] + 1, (k + 1) * length[o])

\* metadata.at (merger.cpp:167) finds what it asks for.
MetadataThere == pass = "bins" => found \subseteq known

\* The assertions of merge() (merger.cpp:148, 209) hold even when the simulation
\* goes on writing between the passes or a file is damaged, and the third pass
\* finds the metadata of every observable (merger.cpp:109-113, 129, 167).  Without damage every
\* bin is divided by its length once, when it has as many samples, and no sample
\* is in two bins.
BinsFilled ==
  /\ MetadataThere
  /\ pass \in {"bins", "merged"} => \A o \in found :
       counter[o] = count[o] * length[o]
  /\ pass = "merged" => \A o \in found :
       /\ rebin[o] = count[o]
       /\ AllIntact(o) =>
            /\ closed[o] = [j \in 1 .. count[o] * VectorLength[o] |-> j - 1]
            /\ \A b \in DOMAIN bins[o] :
                 /\ Len(bins[o][b]) = length[o]
                 /\ \A d \in DOMAIN bins[o] \ {b} :
                      ToSet(bins[o][b]) \cap ToSet(bins[o][d]) = {}

\* However the samples are cut into bins, less are thrown away than there are
\* bins, so at least half are used; and bins are not shorter than asked for and
\* less than twice as long (merger.cpp:91-110).
BinsCoverSamples ==
  pass # "collect" /\ pass # "rebin" => \A o \in found :
    /\ asked = 0 /\ total[o] > 0 => count[o] > 0
    /\ count[o] > 0 =>
         /\ length[o] > 0 /\ Used(total[o], count[o]) <= total[o]
         /\ 2 * Used(total[o], count[o]) > total[o]
         /\ asked # 0 => asked <= length[o] /\ length[o] < 2 * asked

\* An evalable is made from the same bins of all its ingredients, as many as each
\* of them has, and each jackknife sample leaves out one bin, so that every sample
\* is left out once (evalable.cpp:44-95); the poorest ingredient gives all the data
\* that its own mean is made from, unless a file of it is damaged.
JackknifeParts ==
  pass = "merged" => \A used \in SUBSET found \ {{}} :
    \A o \in used : \A c \in Components(o) :
    /\ \A e \in CompleteData(used, o, c) :
         Cardinality({k \in 0 .. EvalBins(used) - 1 :
                        e \notin JackedData(used, k, o, c)}) = 1
    /\ replaced = 0 /\ AllIntact(o) /\ EvalBins(used) = count[o] =>
         CompleteData(used, o, c) = ToSet(mean[o][c])
=============================================================================
