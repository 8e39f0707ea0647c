---------------------------- MODULE MergerProofs ----------------------------
(* Bins and metadata in merge(), for any files, observables, skips and bin *)
(* lengths, damaged files and a writing simulation included.  The three    *)
(* loops over the entries of a file are followed place by place, then      *)
(* PassInv takes what they leave from one file and one pass to the next.   *)
EXTENDS Merger, SharedProofs, SequenceTheorems

-----------------------------------------------------------------------------
(* Arithmetic of the bins.                                                 *)

LEMMA Quotient ==
  ASSUME NEW n \in Nat, NEW d \in Nat \ {0}
  PROVE  /\ n \div d \in Nat
         /\ d * (n \div d) <= n /\ n < d * (n \div d) + d
BY Z3

\* Factors can be compared when the products can.
LEMMA Cancel ==
  ASSUME NEW a \in Nat, NEW b \in Nat, NEW d \in Nat \ {0}, d * a < d * b
  PROVE  a < b
<1>1. SUFFICES ASSUME b <= a PROVE FALSE
  OBVIOUS
<1>2. PICK e \in Nat : a = b + e
  <2>1. a - b \in Nat /\ a = b + (a - b)
    BY <1>1
  <2> QED
    BY <2>1
<1>3. d * a = d * b + d * e /\ d * e \in Nat
  BY <1>2
<1> QED
  BY <1>3

LEMMA CubeRootBounds ==
  ASSUME NEW n \in Nat
  PROVE  CubeRoot(n) \in 0 .. n /\ (n > 0 => CubeRoot(n) > 0)
<1> DEFINE S == {k \in 1 .. n : k * k * k <= n}
<1>1. IsFiniteSet(1 .. n) /\ Cardinality(1 .. n) = n
  BY FS_Interval
<1>2. S \in SUBSET (1 .. n)
  OBVIOUS
<1>3. IsFiniteSet(S) /\ Cardinality(S) <= n
  BY <1>1, <1>2, FS_Subset
<1>4. Cardinality(S) \in Nat
  BY <1>3, FS_CardinalityType
<1>5. n > 0 => 1 \in S
  OBVIOUS
<1>6. n > 0 => Cardinality(S) # 0
  BY <1>3, <1>5, FS_EmptySet
<1>7. CubeRoot(n) = Cardinality(S)
  BY DEF CubeRoot
<1> HIDE DEF S
<1> QED
  BY <1>3, <1>4, <1>6, <1>7

\* There are not more bins than samples, and some if no length was asked for.
LEMMA BinCountBounds ==
  ASSUME NEW n \in Nat, NEW wanted \in Nat, NEW atLeast \in Nat
  PROVE  /\ BinCount(n, wanted, atLeast) \in 0 .. n
         /\ wanted = 0 /\ n > 0 => BinCount(n, wanted, atLeast) > 0
<1>1. CASE wanted # 0
  <2> DEFINE q == n \div wanted
  <2>1. q \in Nat /\ wanted * q <= n
    BY <1>1, Quotient
  <2>2. BinCount(n, wanted, atLeast) = q
    BY <1>1 DEF BinCount
  <2> HIDE DEF q
  <2>3. wanted * q = (wanted - 1) * q + q /\ (wanted - 1) * q \in Nat
    BY <1>1, <2>1
  <2> QED
    BY <1>1, <2>1, <2>2, <2>3
<1>2. CASE wanted = 0 /\ n <= atLeast
  BY <1>2 DEF BinCount
<1>3. CASE wanted = 0 /\ n > atLeast
  <2>1. CubeRoot(n - atLeast) \in 1 .. n - atLeast
    BY <1>3, CubeRootBounds
  <2> QED
    BY <1>3, <2>1 DEF BinCount
<1> QED
  BY <1>1, <1>2, <1>3

\* What BinsCoverSamples says of one observable with n samples.
Covered(n, wanted, bs, len) ==
  /\ len > 0 /\ Used(n, bs) <= n /\ 2 * Used(n, bs) > n
  /\ wanted # 0 => wanted <= len /\ len < 2 * wanted

LEMMA BinsCover ==
  ASSUME NEW n \in Nat, NEW wanted \in Nat, NEW atLeast \in Nat,
         BinCount(n, wanted, atLeast) > 0
  PROVE  Covered(n, wanted, BinCount(n, wanted, atLeast),
                 BinLengthFor(n, BinCount(n, wanted, atLeast)))
<1> DEFINE b == BinCount(n, wanted, atLeast)
           l == n \div b
<1>1. b \in 1 .. n
  BY BinCountBounds
<1>2. l \in Nat /\ b * l <= n /\ n < b * l + b
  BY <1>1, Quotient
<1>3. BinLengthFor(n, b) = l /\ Used(n, b) = b * l
  BY DEF BinLengthFor, Used
<1>4. wanted # 0 => b = n \div wanted
  BY DEF BinCount
<1> HIDE DEF b, l
<1>5. l > 0
  BY <1>1, <1>2
<1>6. b * l >= b
  <2>1. b * l = b * (l - 1) + b /\ b * (l - 1) \in Nat
    BY <1>1, <1>2, <1>5
  <2> QED
    BY <1>1, <2>1
<1>7. ASSUME wanted # 0 PROVE wanted <= l /\ l < 2 * wanted
  <2>1. wanted * b <= n /\ n < wanted * b + wanted
    BY <1>4, <1>7, Quotient
  <2>2. b * wanted < b * (l + 1)
    BY <1>1, <1>2, <2>1
  <2>3. wanted < l + 1
    BY <1>1, <1>2, <2>2, Cancel
  <2>4. wanted * b + wanted <= b * (2 * wanted)
    <3>1. wanted * b = wanted * (b - 1) + wanted /\ wanted * (b - 1) \in Nat
      BY <1>1
    <3> QED
      BY <1>1, <3>1
  <2>5. b * l < b * (2 * wanted)
    BY <1>1, <1>2, <2>1, <2>4
  <2>6. l < 2 * wanted
    BY <1>1, <1>2, <2>5, Cancel
  <2> QED
    BY <1>2, <2>3, <2>6
<1>8. Covered(n, wanted, b, l)
  BY <1>1, <1>2, <1>3, <1>5, <1>6, <1>7 DEF Covered
<1> QED
  BY <1>3, <1>8 DEF b

-----------------------------------------------------------------------------
(* What holds in every pass.                                               *)

BinsTyped ==
  /\ asked \in Nat /\ skip \in Nat
  /\ found \in SUBSET Obs /\ total \in [Obs -> Nat]
  /\ files \in [Files -> [Obs -> Datasets \cup {Absent}]]

\* The bins are as Rebin has chosen them.
BinsChosen ==
  pass \notin {"collect", "rebin"} => \A o \in found :
    /\ count[o] = BinCount(total[o], asked, MinBinCount)
    /\ count[o] > 0 => length[o] = BinLengthFor(total[o], count[o])

\* A file with an observable makes its metadata when the second pass comes by.
MetadataToCome ==
  /\ at \in Files
  /\ pass \in {"collect", "rebin"} => \A o \in found : \E f \in Files : Has(f, o)
  /\ pass = "rebin" => at = 1
  /\ pass = "mean" => \A o \in found : o \in known \/ \E f \in at .. NFiles : Has(f, o)
  /\ pass \in {"bins", "merged"} => found \subseteq known

MergeInv == BinsTyped /\ BinsChosen /\ MetadataToCome

LEMMA Constants ==
  /\ NFiles \in Nat \ {0} /\ MinBinCount \in Nat
  /\ Skips \subseteq Nat /\ RebinLengths \subseteq Nat
BY MergerAssumption

LEMMA MergeInvInit == Init => MergeInv
<1> SUFFICES ASSUME Init PROVE MergeInv
  OBVIOUS
<1>1. files \in [Files -> [Obs -> Datasets \cup {Absent}]]
  <2>1. \A f \in Files : files[f] \in [Obs -> UNION {Contents[o] : o \in Obs}]
    BY DEF Init
  <2>2. UNION {Contents[o] : o \in Obs} \subseteq Datasets \cup {Absent}
    BY MergerAssumption
  <2>3. \A f \in Files : files[f] \in [Obs -> Datasets \cup {Absent}]
    BY <2>1, <2>2
  <2> QED
    BY <2>3 DEF Init
<1>2. BinsTyped
  BY <1>1, Constants DEF Init, BinsTyped
<1>3. BinsChosen /\ MetadataToCome
  BY Constants DEF Init, BinsChosen, MetadataToCome, Files
<1> QED
  BY <1>2, <1>3 DEF MergeInv

\* A longer file has all that the shorter one had, and is a file again.
LEMMA GrowKeeps ==
  ASSUME MergeInv, NEW f \in Files, NEW longer \in SUBSET Obs, Grow(f, longer)
  PROVE  MergeInv'
<1>1. \A g \in Files : files'[g] = IF g # f THEN files[g] ELSE
        [o \in Obs |-> IF o \in longer THEN Extended(files[f][o], o) ELSE files[f][o]]
  BY DEF Grow, MergeInv, BinsTyped
<1>2. \A o \in longer : Extended(files[f][o], o) \in Datasets
  BY MergerAssumption DEF Extended, MergeInv, BinsTyped, Datasets, Absent
<1>3. \A g \in Files :
        /\ files'[g] \in [Obs -> Datasets \cup {Absent}]
        /\ \A o \in Obs : files[g][o] # Absent => files'[g][o] # Absent
  <2>1. Absent \notin Datasets
    BY DEF Absent, Datasets
  <2>2. SUFFICES ASSUME NEW g \in Files, files[g] \in [Obs -> Datasets \cup {Absent}]
                 PROVE  /\ files'[g] \in [Obs -> Datasets \cup {Absent}]
                        /\ \A o \in Obs : files[g][o] # Absent => files'[g][o] # Absent
    BY DEF MergeInv, BinsTyped
  <2>3. CASE g # f
    BY <1>1, <2>2, <2>3
  <2>4. CASE g = f
    <3>1. files'[g] = [o \in Obs |->
            IF o \in longer THEN Extended(files[g][o], o) ELSE files[g][o]]
      BY <1>1, <2>4
    <3>2. \A o \in longer : Extended(files[g][o], o) \in Datasets
      BY <1>2, <2>4
    <3> QED
      BY <2>1, <2>2, <3>1, <3>2
  <2> QED
    BY <2>3, <2>4
<1>4. /\ files' \in [Files -> [Obs -> Datasets \cup {Absent}]]
      /\ \A g \in Files, o \in Obs : Has(g, o) => Has(g, o)'
  BY <1>3 DEF Has, Grow, MergeInv, BinsTyped
<1>5. BinsTyped'
  BY <1>4 DEF Grow, MergeInv, BinsTyped
<1>6. BinsChosen'
  BY DEF Grow, MergeInv, BinsChosen
<1>7. MetadataToCome'
  <2>1. at .. NFiles \subseteq Files
    BY Constants DEF Files, MergeInv, MetadataToCome
  <2> QED
    BY <1>4, <2>1 DEF Grow, MergeInv, MetadataToCome, BinsTyped, metaVars
<1> QED
  BY <1>5, <1>6, <1>7 DEF MergeInv

LEMMA CollectKeeps == MergeInv /\ Collect => MergeInv'
<1> SUFFICES ASSUME MergeInv, Collect PROVE MergeInv'
  OBVIOUS
<1>1. \A o \in Obs : Sound(files[at][o]) =>
        AfterSkip(files[at][o].size \div files[at][o].vlen, skip) \in Nat
  <2>1. SUFFICES ASSUME NEW o \in Obs, Sound(files[at][o])
                 PROVE  AfterSkip(files[at][o].size \div files[at][o].vlen, skip) \in Nat
    OBVIOUS
  <2>2. files[at][o].size \in Nat /\ files[at][o].vlen \in Nat \ {0}
    <3>1. files[at][o] \in Datasets \cup {Absent}
      BY DEF MergeInv, MetadataToCome, BinsTyped
    <3> QED
      BY <2>1, <3>1 DEF Sound, Datasets, Absent
  <2>3. files[at][o].size \div files[at][o].vlen \in Nat
    BY <2>2, Quotient
  <2> QED
    BY <2>3 DEF AfterSkip, AtMost, MergeInv, BinsTyped
<1>2. total' \in [Obs -> Nat]
  <2>1. \A o \in Obs : total[o] + (IF Sound(files[at][o])
          THEN AfterSkip(files[at][o].size \div files[at][o].vlen, skip) ELSE 0) \in Nat
    BY <1>1 DEF MergeInv, BinsTyped
  <2> QED
    BY <2>1 DEF Collect
<1>3. BinsTyped'
  BY <1>2 DEF Collect, MergeInv, BinsTyped, inputVars
<1>4. /\ pass' \in {"collect", "rebin"} /\ at' \in Files
      /\ pass' = "rebin" => at' = 1
  BY Constants DEF Collect, Advance, MergeInv, MetadataToCome, Files
<1>5. \A o \in found' : \E f \in Files : Has(f, o)'
  <2>1. \A o \in Obs : Sound(files[at][o]) => files[at][o] # Absent
    BY DEF Sound, Absent
  <2> QED
    BY <2>1 DEF Collect, inputVars, Has, MergeInv, MetadataToCome
<1>6. BinsChosen'
  BY <1>4 DEF BinsChosen
<1>7. MetadataToCome'
  BY <1>4, <1>5 DEF MetadataToCome
<1> QED
  BY <1>3, <1>6, <1>7 DEF MergeInv

LEMMA RebinKeeps == MergeInv /\ Rebin => MergeInv'
<1> SUFFICES ASSUME MergeInv, Rebin PROVE MergeInv'
  OBVIOUS
<1>1. BinsTyped'
  BY DEF Rebin, MergeInv, BinsTyped, inputVars
<1>2. BinsChosen'
  <2>1. SUFFICES ASSUME NEW o \in found
                 PROVE  /\ count'[o] = BinCount(total[o], asked, MinBinCount)
                        /\ count'[o] > 0 =>
                             length'[o] = BinLengthFor(total[o], count'[o])
    BY DEF BinsChosen, Rebin, inputVars
  <2>2. o \in Obs
    BY DEF MergeInv, BinsTyped
  <2>3. count'[o] = BinCount(total[o], asked, MinBinCount)
    BY <2>2 DEF Rebin
  <2>4. count'[o] # 0 => length'[o] = BinLengthFor(total[o], count'[o])
    BY <2>2 DEF Rebin
  <2> QED
    BY <2>3, <2>4
<1>3. MetadataToCome'
  BY Constants DEF MetadataToCome, MergeInv, Rebin, inputVars, Has, Files
<1> QED
  BY <1>1, <1>2, <1>3 DEF MergeInv

LEMMA SumMeansKeeps == MergeInv /\ SumMeans => MergeInv'
<1> SUFFICES ASSUME MergeInv, SumMeans PROVE MergeInv'
  OBVIOUS
<1>1. BinsTyped' /\ BinsChosen'
  BY DEF SumMeans, Advance, MergeInv, BinsTyped, BinsChosen, inputVars
<1>2. \A o \in found : o \in known' \/ \E f \in at + 1 .. NFiles : Has(f, o)
  <2>1. SUFFICES ASSUME NEW o \in found, o \notin known'
                 PROVE  \E f \in at + 1 .. NFiles : Has(f, o)
    OBVIOUS
  <2>2. o \notin known /\ ~Has(at, o)
    BY <2>1 DEF SumMeans, LookedUp
  <2>3. PICK f \in at .. NFiles : Has(f, o)
    BY <2>2 DEF SumMeans, MergeInv, MetadataToCome
  <2>4. f # at
    BY <2>2, <2>3
  <2> QED
    BY <2>3, <2>4, Constants DEF MergeInv, MetadataToCome, Files
<1>3. MetadataToCome'
  <2>1. CASE at < NFiles
    BY <1>2, <2>1, Constants
    DEF SumMeans, Advance, MergeInv, MetadataToCome, inputVars, Has, Files
  <2>2. CASE ~(at < NFiles)
    BY <1>2, <2>2, Constants
    DEF SumMeans, Advance, MergeInv, MetadataToCome, inputVars, Has, Files
  <2> QED
    BY <2>1, <2>2
<1> QED
  BY <1>1, <1>3 DEF MergeInv

LEMMA FillBinsKeeps == MergeInv /\ FillBins => MergeInv'
<1> SUFFICES ASSUME MergeInv, FillBins PROVE MergeInv'
  OBVIOUS
<1>1. BinsTyped' /\ BinsChosen'
  BY DEF FillBins, Advance, MergeInv, BinsTyped, BinsChosen, inputVars
<1>2. MetadataToCome'
  BY Constants DEF FillBins, Advance, MergeInv, MetadataToCome, Files
<1> QED
  BY <1>1, <1>2 DEF MergeInv

LEMMA MergeInvNext == MergeInv /\ [Next]_vars => MergeInv'
<1> SUFFICES ASSUME MergeInv, [Next]_vars PROVE MergeInv'
  OBVIOUS
<1>1. CASE Collect
  BY <1>1, CollectKeeps
<1>2. CASE Rebin
  BY <1>2, RebinKeeps
<1>3. CASE SumMeans
  BY <1>3, SumMeansKeeps
<1>4. CASE FillBins
  BY <1>4, FillBinsKeeps
<1>5. CASE \E f \in Files, longer \in SUBSET Obs \ {{}} : Grow(f, longer)
  BY <1>5, GrowKeeps
<1>6. CASE UNCHANGED vars
  BY <1>6 DEF vars, inputVars, metaVars, MergeInv, BinsTyped, BinsChosen,
              MetadataToCome, Has
<1> QED
  BY <1>1, <1>2, <1>3, <1>4, <1>5, <1>6 DEF Next, Returned

LEMMA MergeInvHolds == Spec => []MergeInv
BY MergeInvInit, MergeInvNext, PTL DEF Spec

LEMMA ChosenBinsCover == MergeInv => BinsCoverSamples
<1> SUFFICES ASSUME MergeInv, pass # "collect", pass # "rebin", NEW o \in found
             PROVE  /\ asked = 0 /\ total[o] > 0 => count[o] > 0
                    /\ count[o] > 0 => Covered(total[o], asked, count[o], length[o])
  BY DEF BinsCoverSamples, Covered
<1>1. total[o] \in Nat /\ asked \in Nat
  BY DEF MergeInv, BinsTyped
<1>2. /\ count[o] = BinCount(total[o], asked, MinBinCount)
      /\ count[o] > 0 => length[o] = BinLengthFor(total[o], count[o])
  BY DEF MergeInv, BinsChosen
<1> QED
  BY <1>1, <1>2, BinCountBounds, BinsCover, Constants

\* However many files there are and whatever is asked for, the bins that merge()
\* chooses fit into the samples, take more than half of them, and are not shorter
\* than asked for and less than twice as long (merger.cpp:91-110).
THEOREM BinsAlwaysCover == Spec => []BinsCoverSamples
BY MergeInvHolds, ChosenBinsCover, PTL

LEMMA MetadataCame == MergeInv => MetadataThere
BY DEF MergeInv, MetadataToCome, MetadataThere

\* The third pass never asks for metadata that nobody has made, although those of
\* an observable without bins only come from being looked up in the second
\* (merger.cpp:109-113, 129, 167): what was found once stays in its file.
THEOREM MetadataAlwaysThere == Spec => []MetadataThere
BY MergeInvHolds, MetadataCame, PTL

-----------------------------------------------------------------------------
(* The loops over the entries of a dataset.  They are folds, of which the  *)
(* library proves nothing.                                                 *)

\* One turn of the loop of the second or of the third pass.
Turn(loop, o, acc, i) == IF loop = "mean" THEN AddToMean(o, acc, i) ELSE AddToBin(o, acc, i)

\* What is left in the accumulator after each turn.
TurnsOf(h, loop, o, base, seq) ==
  /\ h[0] = base
  /\ \A n \in 1 .. Len(seq) : h[n] = Turn(loop, o, h[n - 1], seq[n])

LEMMA LargestExists ==
  ASSUME NEW n \in Nat, NEW s \in SUBSET (1 .. n), s # {}
  PROVE  Max(s) \in s /\ \A y \in s : Max(s) >= y
<1> DEFINE T == {n - x : x \in s}
<1>0. \A x \in s : x \in 1 .. n
  OBVIOUS
<1>1. T \in SUBSET Nat /\ T # {}
  <2>1. \A x \in s : n - x \in Nat
    BY <1>0
  <2> QED
    BY <2>1
<1>2. FirstHit(T) \in T /\ \A j \in T : FirstHit(T) <= j
  BY <1>1, FirstExists
<1>3. PICK x \in s : FirstHit(T) = n - x
  BY <1>2
<1>4. \A y \in s : x >= y
  <2>1. \A y \in s : n - x <= n - y
    BY <1>2, <1>3
  <2>2. \A y \in s : y \in Nat
    BY <1>0
  <2> QED
    BY <2>1, <2>2
<1> QED
  BY <1>4 DEF Max

LEMMA LargestOfInterval ==
  ASSUME NEW n \in Nat \ {0}
  PROVE  Max(1 .. n) = n /\ (1 .. n) \ {n} = 1 .. n - 1
<1>1. n \in 1 .. n /\ n \in Nat
  OBVIOUS
<1>2. Max(1 .. n) \in 1 .. n /\ \A y \in 1 .. n : Max(1 .. n) >= y
  <2> DEFINE s == 1 .. n
  <2>1. s \in SUBSET (1 .. n) /\ s # {}
    BY <1>1
  <2> HIDE DEF s
  <2>2. Max(s) \in s /\ \A y \in s : Max(s) >= y
    BY <1>1, <2>1, LargestExists
  <2> QED
    BY <2>2 DEF s
<1> QED
  BY <1>1, <1>2

\* The function that a fold chooses.
FoldsBy(h, loop, o, base, seq) ==
  h = [s \in SUBSET (1 .. Len(seq)) |->
         IF s = {} THEN base ELSE Turn(loop, o, h[s \ {Max(s)}], seq[Max(s)])]

LEMMA FoldExists ==
  ASSUME NEW loop, NEW o, NEW base, NEW seq, Len(seq) \in Nat
  PROVE  \E h : FoldsBy(h, loop, o, base, seq)
<1> DEFINE S == 1 .. Len(seq)
           next(h, s) == IF s = {} THEN base ELSE Turn(loop, o, h[s \ {Max(s)}], seq[Max(s)])
           upTo(h, n) == \A s \in SUBSET S : Cardinality(s) <= n => h[s] = next(h, s)
           T == {n \in Nat : \E h : upTo(h, n)}
<1>0. IsFiniteSet(S)
  BY FS_Interval
<1>1. \A s \in SUBSET S : /\ Cardinality(s) \in Nat
                          /\ s = {} <=> Cardinality(s) = 0
  BY <1>0, FS_Subset, FS_CardinalityType, FS_EmptySet
<1>2. ASSUME NEW s \in SUBSET S, s # {}
      PROVE  /\ s \ {Max(s)} \in SUBSET S
             /\ Cardinality(s \ {Max(s)}) = Cardinality(s) - 1
  BY <1>0, <1>2, LargestExists, FS_Subset, FS_RemoveElement
<1>3. 0 \in T
  <2>1. upTo([s \in SUBSET S |-> base], 0)
    BY <1>1
  <2> QED
    BY <2>1
<1>4. ASSUME NEW n \in T
      PROVE  n + 1 \in T
  <2>1. n \in Nat
    OBVIOUS
  <2>2. PICK h : upTo(h, n)
    OBVIOUS
  <2> DEFINE g == [s \in SUBSET S |-> IF Cardinality(s) <= n THEN h[s] ELSE next(h, s)]
  <2>3. ASSUME NEW s \in SUBSET S, Cardinality(s) <= n + 1
        PROVE  g[s] = next(g, s)
    <3>1. g[s] = next(h, s)
      BY <2>2
    <3>2. CASE s = {}
      BY <3>1, <3>2
    <3>3. CASE s # {}
      <4>1. g[s \ {Max(s)}] = h[s \ {Max(s)}]
        BY <1>1, <1>2, <2>1, <2>3, <3>3
      <4> QED
        BY <3>1, <3>3, <4>1
    <3> QED
      BY <3>2, <3>3
  <2>4. upTo(g, n + 1)
    BY <2>3
  <2> HIDE DEF upTo, g
  <2> QED
    BY <2>1, <2>4
<1> HIDE DEF upTo
<1>5. T = Nat
  <2>1. T \in SUBSET Nat
    OBVIOUS
  <2> HIDE DEF T
  <2> QED
    BY <1>3, <1>4, <2>1, NatSetInduction
<1>6. Cardinality(S) \in T
  BY <1>0, <1>1, <1>5
<1>7. PICK h : upTo(h, Cardinality(S))
  BY <1>6
<1>8. \A s \in SUBSET S : h[s] = next(h, s)
  <2>1. \A s \in SUBSET S : Cardinality(s) <= Cardinality(S)
    BY <1>0, FS_Subset
  <2> QED
    BY <1>7, <2>1 DEF upTo
<1> DEFINE g == [s \in SUBSET S |-> h[s]]
<1>9. \A s \in SUBSET S : next(g, s) = next(h, s)
  <2>1. \A s \in SUBSET S : s # {} => g[s \ {Max(s)}] = h[s \ {Max(s)}]
    BY <1>2
  <2> QED
    BY <2>1
<1>10. g = [s \in SUBSET S |-> next(g, s)]
  <2> HIDE DEF next
  <2> QED
    BY <1>8, <1>9
<1> QED
  BY <1>10 DEF FoldsBy

LEMMA FoldTurns ==
  ASSUME NEW loop, NEW o, NEW base, NEW seq, Len(seq) \in Nat,
         NEW h, FoldsBy(h, loop, o, base, seq)
  PROVE  \E g : TurnsOf(g, loop, o, base, seq) /\ g[Len(seq)] = h[1 .. Len(seq)]
<1> DEFINE next(s) == IF s = {} THEN base ELSE Turn(loop, o, h[s \ {Max(s)}], seq[Max(s)])
           g == [n \in 0 .. Len(seq) |-> h[1 .. n]]
<1>1. \A s \in SUBSET (1 .. Len(seq)) : h[s] = next(s)
  <2>1. h = [s \in SUBSET (1 .. Len(seq)) |-> next(s)]
    BY DEF FoldsBy
  <2> HIDE DEF next
  <2> QED
    BY <2>1
<1>2. g[0] = base
  <2>1. 1 .. 0 = {} /\ 0 \in 0 .. Len(seq)
    OBVIOUS
  <2>2. g[0] = h[{}]
    BY <2>1
  <2> QED
    BY <1>1, <2>2
<1>3. ASSUME NEW n \in 1 .. Len(seq)
      PROVE  g[n] = Turn(loop, o, g[n - 1], seq[n])
  <2>1. n \in Nat \ {0} /\ n \in 0 .. Len(seq) /\ n - 1 \in 0 .. Len(seq)
    OBVIOUS
  <2>2. Max(1 .. n) = n /\ (1 .. n) \ {n} = 1 .. n - 1
    BY <2>1, LargestOfInterval
  <2>3. 1 .. n \in SUBSET (1 .. Len(seq)) /\ 1 .. n # {}
    OBVIOUS
  <2>4. h[1 .. n] = Turn(loop, o, h[1 .. n - 1], seq[n])
    BY <1>1, <2>2, <2>3
  <2> QED
    BY <2>1, <2>4
<1>4. g[Len(seq)] = h[1 .. Len(seq)]
  OBVIOUS
<1> HIDE DEF g
<1>5. TurnsOf(g, loop, o, base, seq)
  BY <1>2, <1>3 DEF TurnsOf
<1> QED
  BY <1>4, <1>5

-----------------------------------------------------------------------------
(* All samples of an observable, from one file to the next.                 *)

\* How many samples file f has to offer of o.
Share(f, o) ==
  LET n == IF Has(f, o) THEN files[f][o].size \div VectorLength[o] ELSE 0
  IN  n - AtMost(n, skip)

\* The number of samples in the files up to f.
Borders(N, o) ==
  /\ N \in [0 .. NFiles -> Nat] /\ N[0] = 0
  /\ \A f \in Files : N[f] = N[f - 1] + Share(f, o)

\* Component c of the m-th sample of file f.
Sample(f, o, m, c) == <<f, (skip + m - 1) * VectorLength[o] + c>>

FilesTyped ==
  /\ skip \in Nat /\ files \in [Files -> [Obs -> Datasets \cup {Absent}]]

LEMMA ShareIsNat ==
  ASSUME FilesTyped, NEW f \in Files, NEW o \in Obs
  PROVE  Share(f, o) \in Nat
<1> DEFINE n == IF Has(f, o) THEN files[f][o].size \div VectorLength[o] ELSE 0
<1>1. VectorLength[o] \in Nat \ {0} /\ skip \in Nat
  BY MergerAssumption DEF FilesTyped
<1>2. Has(f, o) => files[f][o].size \in Nat
  BY DEF FilesTyped, Has, Datasets
<1>3. n \in Nat
  <2>1. Has(f, o) => files[f][o].size \div VectorLength[o] \in Nat
    BY <1>1, <1>2
  <2> QED
    BY <2>1
<1>4. Share(f, o) = n - AtMost(n, skip)
  BY DEF Share
<1> HIDE DEF n
<1> QED
  BY <1>1, <1>3, <1>4 DEF AtMost

LEMMA BordersExist ==
  ASSUME FilesTyped, NEW o \in Obs
  PROVE  \E N : Borders(N, o)
<1> DEFINE upTo(N, n) == /\ N \in [0 .. NFiles -> Nat] /\ N[0] = 0
                         /\ \A f \in Files : f <= n => N[f] = N[f - 1] + Share(f, o)
           T == {n \in Nat : \E N : upTo(N, n)}
<1>0. NFiles \in Nat \ {0} /\ \A f \in Files : f \in 1 .. NFiles /\ Share(f, o) \in Nat
  BY ShareIsNat, MergerAssumption DEF Files
<1>1. 0 \in T
  <2>1. upTo([f \in 0 .. NFiles |-> 0], 0)
    BY <1>0
  <2> QED
    BY <2>1
<1>2. ASSUME NEW n \in T
      PROVE  n + 1 \in T
  <2>1. n \in Nat
    OBVIOUS
  <2>2. PICK N : upTo(N, n)
    OBVIOUS
  <2>3. CASE n + 1 \in Files
    <3> DEFINE M == [N EXCEPT ![n + 1] = N[n] + Share(n + 1, o)]
    <3>1. n \in 0 .. NFiles /\ n + 1 \in 0 .. NFiles /\ N[n] \in Nat /\ Share(n + 1, o) \in Nat
      BY <1>0, <2>1, <2>2, <2>3
    <3>2. M \in [0 .. NFiles -> Nat] /\ M[0] = 0
      BY <2>1, <2>2, <3>1
    <3>3. ASSUME NEW f \in Files, f <= n + 1
          PROVE  M[f] = M[f - 1] + Share(f, o)
      <4>1. f \in 0 .. NFiles /\ f - 1 \in 0 .. NFiles /\ f - 1 # n + 1 /\ f \in Nat
        BY <1>0, <2>1, <3>3
      <4>2. M[f - 1] = N[f - 1]
        BY <2>2, <4>1
      <4>3. CASE f = n + 1
        <5>1. M[f] = N[n] + Share(n + 1, o)
          BY <2>2, <4>1, <4>3
        <5>2. f - 1 = n
          BY <2>1, <4>3
        <5> QED
          BY <4>2, <4>3, <5>1, <5>2
      <4>4. CASE f # n + 1
        <5>1. M[f] = N[f] /\ f <= n
          BY <2>1, <2>2, <3>3, <4>1, <4>4
        <5> QED
          BY <2>2, <4>2, <5>1
      <4> QED
        BY <4>3, <4>4
    <3>4. upTo(M, n + 1)
      BY <3>2, <3>3
    <3> HIDE DEF upTo, M
    <3> QED
      BY <2>1, <3>4
  <2>4. CASE n + 1 \notin Files
    <3>1. upTo(N, n + 1)
      <4>1. \A f \in Files : f <= n + 1 => f <= n
        BY <1>0, <2>1, <2>4
      <4> QED
        BY <2>2, <4>1
    <3> HIDE DEF upTo
    <3> QED
      BY <2>1, <3>1
  <2> QED
    BY <2>3, <2>4
<1>3. T = Nat
  <2>1. T \in SUBSET Nat
    OBVIOUS
  <2> HIDE DEF T
  <2> QED
    BY <1>1, <1>2, <2>1, NatSetInduction
<1>4. PICK N : upTo(N, NFiles)
  <2>1. NFiles \in T
    BY <1>0, <1>3
  <2> QED
    BY <2>1
<1>5. Borders(N, o)
  BY <1>0, <1>4 DEF Borders
<1> QED
  BY <1>5

LEMMA BordersRise ==
  ASSUME NEW o, NEW N, Borders(N, o), FilesTyped, o \in Obs,
         NEW f \in Files
  PROVE  /\ f - 1 \in 0 .. NFiles /\ f \in 0 .. NFiles /\ NFiles \in Nat \ {0}
         /\ N[f - 1] \in Nat /\ N[f] \in Nat /\ Share(f, o) \in Nat
         /\ N[f] = N[f - 1] + Share(f, o)
<1>1. NFiles \in Nat \ {0} /\ f \in 1 .. NFiles
  BY MergerAssumption DEF Files
<1>2. f - 1 \in 0 .. NFiles /\ f \in 0 .. NFiles
  BY <1>1
<1> QED
  BY <1>1, <1>2, ShareIsNat DEF Borders

\* A sum only grows from one file to the next.
LEMMA Rising ==
  ASSUME NEW h \in [0 .. NFiles -> Int], \A f \in Files : h[f - 1] <= h[f],
         NEW f \in 0 .. NFiles, NEW g \in 0 .. NFiles, f <= g
  PROVE  h[f] <= h[g]
<1> DEFINE T == {k \in Nat : f <= k /\ k <= g => h[f] <= h[k]}
<1>0. NFiles \in Nat /\ f \in Nat /\ g \in Nat
  BY MergerAssumption
<1>1. 0 \in T
  <2>1. f <= 0 => f = 0
    BY <1>0
  <2> QED
    BY <1>0, <2>1
<1>2. ASSUME NEW k \in T PROVE k + 1 \in T
  <2>1. k \in Nat /\ (f <= k /\ k <= g => h[f] <= h[k])
    OBVIOUS
  <2>2. SUFFICES ASSUME f <= k + 1, k + 1 <= g PROVE h[f] <= h[k + 1]
    BY <2>1
  <2>3. CASE f = k + 1
    BY <2>3
  <2>4. CASE f # k + 1
    <3>1. f <= k /\ k <= g /\ k + 1 \in Files /\ (k + 1) - 1 = k /\ k \in 0 .. NFiles
          /\ k + 1 \in 0 .. NFiles
      BY <1>0, <2>1, <2>2, <2>4 DEF Files
    <3>2. h[k] <= h[k + 1]
      BY <3>1
    <3>3. h[f] \in Int /\ h[k] \in Int /\ h[k + 1] \in Int
      BY <3>1
    <3> QED
      BY <2>1, <3>1, <3>2, <3>3
  <2> QED
    BY <2>3, <2>4
<1>3. T = Nat
  <2>1. T \in SUBSET Nat
    OBVIOUS
  <2> HIDE DEF T
  <2> QED
    BY <1>1, <1>2, <2>1, NatSetInduction
<1> QED
  BY <1>0, <1>3

LEMMA BordersMonotone ==
  ASSUME FilesTyped, NEW o \in Obs, NEW N, Borders(N, o),
         NEW f \in 0 .. NFiles, NEW g \in 0 .. NFiles, f <= g
  PROVE  N[f] <= N[g]
<1>1. N \in [0 .. NFiles -> Int]
  <2>1. N \in [0 .. NFiles -> Nat]
    BY DEF Borders
  <2> QED
    BY <2>1
<1>2. ASSUME NEW k \in Files PROVE N[k - 1] <= N[k]
  BY BordersRise
<1> QED
  BY <1>1, <1>2, Rising

-----------------------------------------------------------------------------
(* Usable(o, c), which flattens the sequence of what the files offer.       *)

FlattensBy(h, seqs) ==
  h = [i \in 1 .. Len(seqs) |-> IF i = 1 THEN seqs[i] ELSE h[i - 1] \o seqs[i]]

LEMMA FlattenExists ==
  ASSUME NEW seqs, Len(seqs) \in Nat
  PROVE  \E h : FlattensBy(h, seqs)
<1> DEFINE S == 1 .. Len(seqs)
           next(h, i) == IF i = 1 THEN seqs[i] ELSE h[i - 1] \o seqs[i]
           upTo(h, n) == \A i \in S : i <= n => h[i] = next(h, i)
           T == {n \in Nat : \E h : upTo(h, n)}
<1>1. 0 \in T
  <2>1. upTo(<< >>, 0)
    OBVIOUS
  <2> QED
    BY <2>1
<1>2. ASSUME NEW n \in T
      PROVE  n + 1 \in T
  <2>1. n \in Nat
    OBVIOUS
  <2>2. PICK h : upTo(h, n)
    OBVIOUS
  <2> DEFINE g == [i \in S |-> IF i <= n THEN h[i] ELSE next(h, i)]
  <2>3. ASSUME NEW i \in S, i <= n + 1
        PROVE  g[i] = next(g, i)
    <3>1. g[i] = next(h, i)
      BY <2>2
    <3>2. CASE i = 1
      BY <3>1, <3>2
    <3>3. CASE i # 1
      <4>1. i - 1 \in S /\ i - 1 <= n
        BY <2>1, <2>3, <3>3
      <4>2. g[i - 1] = h[i - 1]
        BY <4>1
      <4> QED
        BY <3>1, <3>3, <4>2
    <3> QED
      BY <3>2, <3>3
  <2>4. upTo(g, n + 1)
    BY <2>3
  <2> HIDE DEF upTo, g
  <2> QED
    BY <2>1, <2>4
<1>3. T = Nat
  <2>1. T \in SUBSET Nat
    OBVIOUS
  <2> HIDE DEF T
  <2> QED
    BY <1>1, <1>2, <2>1, NatSetInduction
<1>4. PICK h : upTo(h, Len(seqs))
  BY <1>3
<1> DEFINE g == [i \in S |-> h[i]]
<1>5. \A i \in S : g[i] = next(g, i)
  <2>1. \A i \in S : h[i] = next(h, i)
    BY <1>4
  <2>2. \A i \in S : i # 1 => i - 1 \in S
    OBVIOUS
  <2> QED
    BY <2>1, <2>2
<1>6. g = [i \in S |-> next(g, i)]
  <2>1. \A i \in S : g[i] = next(g, i)
    BY <1>5
  <2>2. g = [i \in S |-> g[i]]
    OBVIOUS
  <2> HIDE DEF g, next
  <2> QED
    BY <2>1, <2>2
<1> QED
  BY <1>6 DEF FlattensBy

LEMMA FlattenSteps ==
  ASSUME NEW seqs, Len(seqs) \in Nat \ {0}
  PROVE  \E h : /\ h[1] = seqs[1]
                /\ \A i \in 2 .. Len(seqs) : h[i] = h[i - 1] \o seqs[i]
                /\ FlattenSeq(seqs) = h[Len(seqs)]
<1> DEFINE n == Len(seqs)
           next(h, i) == IF i = 1 THEN seqs[i] ELSE h[i - 1] \o seqs[i]
           flat == CHOOSE h : h = [i \in 1 .. n |-> next(h, i)]
<1>1. FlattenSeq(seqs) = flat[n]
  BY DEF FlattenSeq
<1>2. \A h : FlattensBy(h, seqs) <=> h = [i \in 1 .. n |-> next(h, i)]
  BY DEF FlattensBy
<1>3. \E h : FlattensBy(h, seqs)
  BY FlattenExists
<1>4. flat = [i \in 1 .. n |-> next(flat, i)]
  <2> HIDE DEF next
  <2> QED
    BY <1>2, <1>3
<1> HIDE DEF flat
<1>5. \A i \in 1 .. n : flat[i] = next(flat, i)
  <2> HIDE DEF next
  <2> QED
    BY <1>4
<1>6. flat[1] = seqs[1] /\ \A i \in 2 .. n : flat[i] = flat[i - 1] \o seqs[i]
  <2>1. 1 \in 1 .. n /\ \A i \in 2 .. n : i \in 1 .. n /\ i # 1
    OBVIOUS
  <2>2. flat[1] = seqs[1]
    BY <1>5, <2>1
  <2>3. \A i \in 2 .. n : flat[i] = flat[i - 1] \o seqs[i]
    BY <1>5, <2>1
  <2> QED
    BY <2>2, <2>3
<1> QED
  BY <1>1, <1>6

Named == Files \X Nat

LEMMA OfferedShape ==
  ASSUME FilesTyped, NEW f \in Files, NEW o \in Obs, NEW c \in Components(o)
  PROVE  /\ Offered(f, o, c) \in Seq(Named) /\ Len(Offered(f, o, c)) = Share(f, o)
         /\ \A m \in 1 .. Share(f, o) : Offered(f, o, c)[m] = Sample(f, o, m, c)
<1> DEFINE n == Share(f, o)
           e(m) == Sample(f, o, m, c)
           s == [m \in 1 .. n |-> e(m)]
<1>1. n \in Nat
  BY ShareIsNat
<1>2. Offered(f, o, c) = s
  BY DEF Offered, Share, Sample
<1>3. \A m \in 1 .. n : e(m) \in Named
  <2>1. VectorLength[o] \in Nat \ {0} /\ skip \in Nat /\ c \in Nat
    BY MergerAssumption DEF FilesTyped, Components
  <2>2. \A m \in 1 .. n : (skip + m - 1) * VectorLength[o] + c \in Nat
    <3> HIDE DEF n
    <3>1. \A m \in 1 .. n : skip + m - 1 \in Nat
      BY <1>1, <2>1
    <3>2. \A a, b \in Nat : a * b \in Nat
      OBVIOUS
    <3> QED
      BY <2>1, <3>1, <3>2
  <2> QED
    BY <2>2 DEF Sample, Named
<1>4. s \in Seq(Named)
  <2> HIDE DEF n, e
  <2> QED
    BY <1>1, <1>3, IsASeq
<1>5. Len(s) = n
  <2>1. Len(s) \in Nat /\ DOMAIN s = 1 .. Len(s)
    BY <1>4, LenProperties
  <2> DEFINE k == Len(s)
  <2>2. 1 .. k = 1 .. n
    BY <2>1
  <2>3. k \in Nat
    BY <2>1
  <2> HIDE DEF k, n
  <2>4. Cardinality(1 .. k) = k
    BY <2>3, FS_Interval
  <2>5. Cardinality(1 .. n) = n
    BY <1>1, FS_Interval
  <2> QED
    BY <2>2, <2>4, <2>5 DEF k
<1>6. \A m \in 1 .. n : s[m] = e(m)
  OBVIOUS
<1> HIDE DEF s
<1> QED
  BY <1>2, <1>4, <1>5, <1>6

\* The samples up to file f, as FlattenSeq puts them together.
ShapedUpTo(u, N, f, o, c) ==
  /\ u \in Seq(Named) /\ Len(u) = N[f]
  /\ \A g \in 1 .. f : \A m \in 1 .. Share(g, o) : u[N[g - 1] + m] = Sample(g, o, m, c)

LEMMA AppendShape ==
  ASSUME FilesTyped, NEW o \in Obs, NEW c \in Components(o), NEW N, Borders(N, o),
         NEW f \in Files, f > 1, NEW u, ShapedUpTo(u, N, f - 1, o, c)
  PROVE  ShapedUpTo(u \o Offered(f, o, c), N, f, o, c)
<1> DEFINE s == Offered(f, o, c)
           w == u \o s
<1>1. /\ N[f - 1] \in Nat /\ Share(f, o) \in Nat /\ N[f] = N[f - 1] + Share(f, o)
      /\ f \in Nat /\ NFiles \in Nat
  BY BordersRise, MergerAssumption DEF Files
<1>2. s \in Seq(Named) /\ Len(s) = Share(f, o) /\ u \in Seq(Named) /\ Len(u) = N[f - 1]
  BY OfferedShape DEF ShapedUpTo
<1>3. \A m \in 1 .. Share(f, o) : s[m] = Sample(f, o, m, c)
  BY OfferedShape
<1> HIDE DEF s
<1>4. w \in Seq(Named) /\ Len(w) = Len(u) + Len(s)
  BY <1>2, ConcatProperties
<1>5. \A i \in 1 .. Len(u) + Len(s) : w[i] = IF i <= Len(u) THEN u[i] ELSE s[i - Len(u)]
  BY <1>2, ConcatProperties
<1> HIDE DEF w
<1>6. ASSUME NEW g \in 1 .. f, NEW m \in 1 .. Share(g, o)
      PROVE  w[N[g - 1] + m] = Sample(g, o, m, c)
  <2>1. g \in Files
    BY <1>1 DEF Files
  <2>2. N[g - 1] \in Nat /\ Share(g, o) \in Nat /\ N[g] = N[g - 1] + Share(g, o)
    BY <2>1, BordersRise
  <2>3. CASE g = f
    <3>1. N[g - 1] + m \in 1 .. Len(u) + Len(s) /\ ~(N[g - 1] + m <= Len(u))
      BY <1>1, <1>2, <2>2, <2>3
    <3>2. w[N[g - 1] + m] = s[(N[g - 1] + m) - Len(u)]
      <4> DEFINE i == N[g - 1] + m
      <4>1. i \in 1 .. Len(u) + Len(s) /\ ~(i <= Len(u))
        BY <3>1
      <4> HIDE DEF i
      <4>2. w[i] = s[i - Len(u)]
        BY <1>5, <4>1
      <4> QED
        BY <4>2 DEF i
    <3>3. (N[g - 1] + m) - Len(u) = m
      BY <1>1, <1>2, <2>2, <2>3
    <3> QED
      BY <1>3, <2>3, <3>2, <3>3
  <2>4. CASE g # f
    <3>1. g \in 1 .. f - 1
      BY <1>1, <2>4
    <3>2. u[N[g - 1] + m] = Sample(g, o, m, c)
      BY <3>1 DEF ShapedUpTo
    <3>3. N[g] <= N[f - 1]
      <4>1. g \in 0 .. NFiles /\ f - 1 \in 0 .. NFiles /\ g <= f - 1
        BY <1>1, <3>1 DEF Files
      <4> QED
        BY <4>1, BordersMonotone
    <3>4. N[g - 1] + m \in 1 .. Len(u)
      BY <1>1, <1>2, <2>2, <3>3
    <3> QED
      BY <1>2, <1>5, <3>2, <3>4
  <2> QED
    BY <2>3, <2>4
<1> QED
  BY <1>1, <1>2, <1>4, <1>6 DEF ShapedUpTo, w, s

LEMMA UsableShape ==
  ASSUME FilesTyped, NEW o \in Obs, NEW c \in Components(o), NEW N, Borders(N, o)
  PROVE  ShapedUpTo(Usable(o, c), N, NFiles, o, c)
<1> DEFINE seqs == [f \in Files |-> Offered(f, o, c)]
<1>0. NFiles \in Nat \ {0}
  BY MergerAssumption
<1>1. Len(seqs) = NFiles
  <2>1. \A f \in 1 .. NFiles : Offered(f, o, c) \in Seq(Named)
    BY OfferedShape DEF Files
  <2>2. seqs \in [1 .. NFiles -> Seq(Named)]
    BY <2>1 DEF Files
  <2> HIDE DEF seqs
  <2>3. seqs \in Seq(Seq(Named))
    BY <1>0, <2>2, SeqDef
  <2> DEFINE k == Len(seqs)
  <2>4. k \in Nat /\ DOMAIN seqs = 1 .. k
    BY <2>3, LenProperties
  <2>5. 1 .. k = 1 .. NFiles
    BY <2>2, <2>4
  <2> HIDE DEF k
  <2>6. Cardinality(1 .. k) = k
    BY <2>4, FS_Interval
  <2>7. Cardinality(1 .. NFiles) = NFiles
    BY <1>0, FS_Interval
  <2> QED
    BY <2>5, <2>6, <2>7 DEF k
<1>2. \A f \in Files : seqs[f] = Offered(f, o, c)
  OBVIOUS
<1>3. Usable(o, c) = FlattenSeq(seqs)
  BY DEF Usable
<1> HIDE DEF seqs
<1>4. PICK h : /\ h[1] = seqs[1]
               /\ \A i \in 2 .. NFiles : h[i] = h[i - 1] \o seqs[i]
               /\ FlattenSeq(seqs) = h[NFiles]
  BY <1>0, <1>1, FlattenSteps
<1> DEFINE T == {f \in Nat : f + 1 \in Files => ShapedUpTo(h[f + 1], N, f + 1, o, c)}
<1>5. 0 \in T
  <2>1. 1 \in Files /\ h[1] = Offered(1, o, c)
    BY <1>0, <1>2, <1>4 DEF Files
  <2>2. N[0] = 0 /\ N[1] = Share(1, o) /\ Share(1, o) \in Nat
    <3>1. 1 - 1 = 0
      OBVIOUS
    <3>2. N[1] = N[1 - 1] + Share(1, o) /\ Share(1, o) \in Nat
      BY <2>1, BordersRise
    <3>3. N[0] = 0
      BY DEF Borders
    <3> QED
      BY <3>1, <3>2, <3>3
  <2>3. \A g \in 1 .. 1 : g = 1 /\ N[g - 1] = 0
    BY <2>2
  <2>4. ShapedUpTo(h[1], N, 1, o, c)
    <3>1. h[1] \in Seq(Named) /\ Len(h[1]) = N[1]
      BY <2>1, <2>2, OfferedShape
    <3>2. ASSUME NEW g \in 1 .. 1, NEW m \in 1 .. Share(g, o)
          PROVE  h[1][N[g - 1] + m] = Sample(g, o, m, c)
      <4>1. g = 1 /\ N[g - 1] = 0 /\ 0 + m = m
        BY <2>2, <2>3
      <4>2. Offered(1, o, c)[m] = Sample(1, o, m, c)
        BY <2>1, <4>1, OfferedShape
      <4> QED
        BY <2>1, <4>1, <4>2
    <3> QED
      BY <3>1, <3>2 DEF ShapedUpTo
  <2> QED
    BY <2>4
<1>6. ASSUME NEW f \in T PROVE f + 1 \in T
  <2>1. f \in Nat /\ (f + 1 \in Files => ShapedUpTo(h[f + 1], N, f + 1, o, c))
    OBVIOUS
  <2> DEFINE k == (f + 1) + 1
  <2>2. SUFFICES ASSUME k \in Files PROVE ShapedUpTo(h[k], N, k, o, c)
    BY <2>1
  <2>3. f + 1 \in Files /\ k > 1 /\ k \in 2 .. NFiles /\ k - 1 = f + 1
    BY <1>0, <2>1, <2>2 DEF Files
  <2>4. ShapedUpTo(h[k - 1], N, k - 1, o, c)
    BY <2>1, <2>3
  <2>5. h[k] = h[k - 1] \o Offered(k, o, c)
    BY <1>2, <1>4, <2>2, <2>3
  <2> HIDE DEF k
  <2> QED
    BY <2>2, <2>3, <2>4, <2>5, AppendShape
<1>7. T = Nat
  <2>1. T \in SUBSET Nat
    OBVIOUS
  <2> HIDE DEF T
  <2> QED
    BY <1>5, <1>6, <2>1, NatSetInduction
<1>8. NFiles - 1 \in T /\ (NFiles - 1) + 1 = NFiles /\ NFiles \in Files
  <2>1. NFiles - 1 \in Nat /\ (NFiles - 1) + 1 = NFiles /\ NFiles \in Files
    BY <1>0 DEF Files
  <2> HIDE DEF T
  <2> QED
    BY <1>7, <2>1
<1>9. ShapedUpTo(h[NFiles], N, NFiles, o, c)
  BY <1>8
<1> QED
  BY <1>3, <1>4, <1>9

-----------------------------------------------------------------------------
(* Places in a row of vectors of length v: w vectors and c components.     *)

LEMMA Products ==
  ASSUME NEW a \in Nat, NEW b \in Nat, NEW v \in Nat
  PROVE  /\ a * v \in Nat /\ (a + b) * v = a * v + b * v /\ (a + 1) * v = a * v + v
         /\ a <= b => a * v <= b * v
<1>1. a * v \in Nat /\ (a + b) * v = a * v + b * v /\ (a + 1) * v = a * v + v
  BY Z3
<1>2. ASSUME a <= b PROVE a * v <= b * v
  <2>1. b - a \in Nat /\ b = a + (b - a)
    BY <1>2
  <2>2. PICK e \in Nat : b = a + e
    BY <2>1
  <2>3. b * v = a * v + e * v /\ e * v \in Nat /\ a * v \in Nat
    BY <2>2, Z3
  <2> QED
    BY <2>3
<1> QED
  BY <1>1, <1>2

LEMMA PlaceIsOne ==
  ASSUME NEW v \in Nat \ {0}, NEW a \in Nat, NEW b \in Nat,
         NEW c \in 0 .. v - 1, NEW d \in 0 .. v - 1, a * v + c = b * v + d
  PROVE  a = b /\ c = d
<1>1. a * v \in Nat /\ b * v \in Nat
  BY Products
<1>2. ~(a < b)
  <2>1. SUFFICES ASSUME a < b PROVE FALSE
    OBVIOUS
  <2>2. (a + 1) * v <= b * v /\ (a + 1) * v = a * v + v
    BY <2>1, Products
  <2> QED
    BY <1>1, <2>2
<1>3. ~(b < a)
  <2>1. SUFFICES ASSUME b < a PROVE FALSE
    OBVIOUS
  <2>2. (b + 1) * v <= a * v /\ (b + 1) * v = b * v + v
    BY <2>1, Products
  <2> QED
    BY <1>1, <2>2
<1>4. a = b
  BY <1>2, <1>3
<1> QED
  BY <1>1, <1>4

LEMMA PlaceExists ==
  ASSUME NEW n \in Nat, NEW v \in Nat \ {0}
  PROVE  \E a \in Nat, c \in 0 .. v - 1 : n \div v = a /\ n % v = c /\ n = a * v + c
<1>1. n \div v \in Nat /\ v * (n \div v) <= n /\ n < v * (n \div v) + v
  BY Quotient
<1>2. n % v = n - v * (n \div v)
  BY Z3
<1>3. PICK a \in Nat : n \div v = a /\ v * a <= n /\ n < v * a + v
  BY <1>1, Zenon
<1>4. n % v = n - v * a
  BY <1>2, <1>3, Zenon
<1>5. PICK c : n % v = c /\ c = n - v * a
  BY <1>4
<1>6. v * a = a * v /\ v * a \in Nat
  OBVIOUS
<1>7. c \in 0 .. v - 1 /\ n = a * v + c
  BY <1>3, <1>5, <1>6
<1> QED
  BY <1>3, <1>5, <1>7, Zenon

LEMMA PlaceRest ==
  ASSUME NEW v \in Nat \ {0}, NEW a \in Nat, NEW c \in 0 .. v - 1
  PROVE  (a * v + c) % v = c /\ (a * v + c) \div v = a
<1> DEFINE n == a * v + c
<1>1. n \in Nat
  BY Products
<1>2. n = a * v + c
  OBVIOUS
<1> HIDE DEF n
<1>3. PICK b \in Nat, d \in 0 .. v - 1 : n \div v = b /\ n % v = d /\ n = b * v + d
  BY <1>1, PlaceExists
<1>4. a * v + c = b * v + d
  BY <1>2, <1>3, Zenon
<1>5. a = b /\ c = d
  BY <1>4, PlaceIsOne
<1> QED
  BY <1>3, <1>5 DEF n

\* Going through a row place by place.
LEMMA RowInduction ==
  ASSUME NEW v \in Nat \ {0}, NEW G, <<0, 0>> \in G,
         \A w \in Nat, c \in 0 .. v - 1 : <<w, c>> \in G =>
           /\ c = v - 1 => <<w + 1, 0>> \in G
           /\ c # v - 1 => <<w, c + 1>> \in G
  PROVE  \A w \in Nat, c \in 0 .. v - 1 : <<w, c>> \in G
<1> DEFINE T == {w \in Nat : <<w, 0>> \in G}
<1>1. ASSUME NEW w \in T
      PROVE  \A c \in 0 .. v - 1 : <<w, c>> \in G
  <2> DEFINE S == {c \in Nat : c <= v - 1 => <<w, c>> \in G}
  <2>1. 0 \in S
    OBVIOUS
  <2>2. ASSUME NEW c \in S PROVE c + 1 \in S
    <3>1. c \in Nat /\ (c <= v - 1 => <<w, c>> \in G) /\ w \in Nat
      OBVIOUS
    <3>2. SUFFICES ASSUME c + 1 <= v - 1 PROVE <<w, c + 1>> \in G
      BY <3>1
    <3>3. c \in 0 .. v - 1 /\ c # v - 1 /\ <<w, c>> \in G
      BY <3>1, <3>2
    <3> QED
      BY <3>1, <3>3
  <2>3. S = Nat
    <3>1. S \in SUBSET Nat
      OBVIOUS
    <3> HIDE DEF S
    <3> QED
      BY <2>1, <2>2, <3>1, NatSetInduction
  <2> QED
    BY <2>3
<1>2. 0 \in T
  OBVIOUS
<1>3. ASSUME NEW w \in T PROVE w + 1 \in T
  <2>1. v - 1 \in 0 .. v - 1 /\ w \in Nat
    OBVIOUS
  <2>2. <<w, v - 1>> \in G
    BY <1>1, <2>1
  <2>3. <<w + 1, 0>> \in G
    BY <2>1, <2>2
  <2> QED
    BY <2>1, <2>3
<1>4. T = Nat
  <2>1. T \in SUBSET Nat
    OBVIOUS
  <2> HIDE DEF T
  <2> QED
    BY <1>2, <1>3, <2>1, NatSetInduction
<1> QED
  BY <1>1, <1>4

\* The number of entries that a loop over file f looks at.
Looked(f, o) ==
  LET n == files[f][o].size - skip * VectorLength[o] IN IF n >= 0 THEN n ELSE 0

LEMMA EntriesShape ==
  ASSUME FilesTyped, at \in Files, NEW o \in Obs, Has(at, o)
  PROVE  /\ Looked(at, o) \in Nat /\ Len(Entries(o)) = Looked(at, o)
         /\ DOMAIN Entries(o) = 1 .. Looked(at, o)
         /\ \A j \in 1 .. Looked(at, o) :
              Entries(o)[j] = skip * VectorLength[o] + j - 1
<1> DEFINE v == VectorLength[o]
           first == skip * v
           n == Looked(at, o)
           size == files[at][o].size
<1>1. v \in Nat \ {0} /\ skip \in Nat /\ size \in Nat
  BY MergerAssumption DEF FilesTyped, Has, Datasets
<1>2. first \in Nat
  BY <1>1, Products
<1>3. n \in Nat /\ 1 .. size - first = 1 .. n
  <2>1. n = IF size - first >= 0 THEN size - first ELSE 0
    BY DEF Looked
  <2> HIDE DEF n, size, first
  <2> QED
    BY <1>1, <1>2, <2>1
<1>4. Entries(o) = [j \in 1 .. size - first |-> first + j - 1]
  BY DEF Entries
<1> HIDE DEF n, first, size
<1> DEFINE e(j) == first + j - 1
<1>5. Entries(o) = [j \in 1 .. n |-> e(j)]
  BY <1>3, <1>4
<1>6. \A j \in 1 .. n : e(j) \in Nat
  BY <1>2, <1>3
<1>7. Entries(o) \in Seq(Nat)
  <2> HIDE DEF e
  <2>1. [j \in 1 .. n |-> e(j)] \in Seq(Nat)
    BY <1>3, <1>6, IsASeq
  <2> QED
    BY <1>5, <2>1
<1>8. DOMAIN Entries(o) = 1 .. n /\ \A j \in 1 .. n : Entries(o)[j] = e(j)
  BY <1>5
<1>9. Len(Entries(o)) = n
  <2> DEFINE k == Len(Entries(o))
  <2>1. k \in Nat /\ 1 .. k = 1 .. n
    BY <1>7, <1>8, LenProperties
  <2> HIDE DEF k
  <2>2. Cardinality(1 .. k) = k
    BY <2>1, FS_Interval
  <2>3. Cardinality(1 .. n) = n
    BY <1>3, FS_Interval
  <2> QED
    BY <2>1, <2>2, <2>3 DEF k
<1> QED
  BY <1>3, <1>8, <1>9 DEF n, first

\* They are Share(f, o) vectors and, of a damaged dataset, a part of one more.
LEMMA LookedShape ==
  ASSUME FilesTyped, NEW f \in Files, NEW o \in Obs, Has(f, o)
  PROVE  \E c \in Components(o) :
           /\ Looked(f, o) = Share(f, o) * VectorLength[o] + c
           /\ Intact(files[f][o], o) => c = 0
<1> DEFINE v == VectorLength[o]
           size == files[f][o].size
<1>1. v \in Nat \ {0} /\ skip \in Nat /\ size \in Nat
  BY MergerAssumption DEF FilesTyped, Has, Datasets
<1>2. PICK a \in Nat, b \in 0 .. v - 1 : size \div v = a /\ size % v = b /\ size = a * v + b
  BY <1>1, PlaceExists
<1>3. Share(f, o) = a - AtMost(a, skip)
  BY <1>2 DEF Share
<1>4. Looked(f, o) = IF size - skip * v >= 0 THEN size - skip * v ELSE 0
  BY DEF Looked
<1>5. Intact(files[f][o], o) => b = 0
  BY <1>2 DEF Intact, Has
<1>6. Components(o) = 0 .. v - 1
  BY DEF Components
<1> HIDE DEF v, size
<1>7. skip * v \in Nat /\ a * v \in Nat
  BY <1>1, <1>2, Products
<1>8. CASE skip <= a
  <2> DEFINE e == a - skip
  <2>1. e \in Nat /\ a = skip + e
    BY <1>1, <1>2, <1>8
  <2> HIDE DEF e
  <2>2. a * v = skip * v + e * v /\ e * v \in Nat
    BY <1>1, <2>1, Products
  <2>3. Share(f, o) = e
    BY <1>1, <1>2, <1>3, <1>8, <2>1 DEF AtMost
  <2>4. Looked(f, o) = e * v + b
    BY <1>2, <1>4, <1>7, <2>2
  <2> QED
    BY <1>2, <1>5, <1>6, <2>3, <2>4 DEF v
<1>9. CASE ~(skip <= a)
  <2>1. Share(f, o) = 0
    BY <1>1, <1>2, <1>3, <1>9 DEF AtMost
  <2>2. (a + 1) * v <= skip * v /\ (a + 1) * v = a * v + v
    BY <1>1, <1>2, <1>9, Products
  <2>3. Looked(f, o) = 0
    BY <1>1, <1>2, <1>4, <1>7, <2>2
  <2>4. 0 \in 0 .. v - 1 /\ 0 * v + 0 = 0
    BY <1>1
  <2> QED
    BY <1>6, <2>1, <2>3, <2>4 DEF v
<1> QED
  BY <1>8, <1>9

\* The entry at place <<w, c>> of the open file.
LEMMA EntryAt ==
  ASSUME FilesTyped, at \in Files, NEW o \in Obs, Has(at, o),
         NEW w \in Nat, NEW c \in Components(o),
         w * VectorLength[o] + c < Looked(at, o)
  PROVE  /\ w * VectorLength[o] + c + 1 \in 1 .. Len(Entries(o))
         /\ Entries(o)[w * VectorLength[o] + c + 1] = (skip + w) * VectorLength[o] + c
         /\ (skip + w) * VectorLength[o] + c \in Nat
         /\ Component(o, (skip + w) * VectorLength[o] + c) = c
         /\ IsLast(o, (skip + w) * VectorLength[o] + c) <=> c = VectorLength[o] - 1
         /\ Sample(at, o, w + 1, c) = <<at, (skip + w) * VectorLength[o] + c>>
<1> DEFINE v == VectorLength[o]
           j == w * v + c + 1
           i == (skip + w) * v + c
<1>1. v \in Nat \ {0} /\ skip \in Nat /\ c \in 0 .. v - 1
  BY MergerAssumption DEF FilesTyped, Components
<1>2. w * v \in Nat /\ skip * v \in Nat /\ (skip + w) * v = skip * v + w * v
  BY <1>1, Products
<1>3. Looked(at, o) \in Nat /\ Len(Entries(o)) = Looked(at, o)
  BY EntriesShape
<1>4. j \in 1 .. Looked(at, o) /\ w * v + c < Looked(at, o)
  <2> DEFINE p == w * v
  <2>1. p \in Nat /\ c \in Nat /\ p + c < Looked(at, o) /\ j = p + c + 1
    BY <1>1, <1>2
  <2> HIDE DEF p, j, v
  <2> QED
    BY <1>3, <2>1 DEF p, v
<1>5. Entries(o)[j] = skip * v + j - 1
  BY <1>4, EntriesShape
<1>6. i \in Nat /\ i = skip * v + j - 1
  BY <1>1, <1>2
<1>7. i % v = c
  BY <1>1, PlaceRest
<1>8. Component(o, i) = c /\ (IsLast(o, i) <=> c = v - 1)
  BY <1>7 DEF Component, IsLast
<1>9. Sample(at, o, w + 1, c) = <<at, i>>
  <2>1. skip + (w + 1) - 1 = skip + w
    BY <1>1
  <2>2. skip + (w + 1 - 1) = skip + w
    BY <1>1
  <2> QED
    BY <1>1, <2>1, <2>2 DEF Sample
<1> QED
  BY <1>3, <1>4, <1>5, <1>6, <1>8, <1>9

\* The place after <<w, c>>.
LEMMA NextPlace ==
  ASSUME NEW o \in Obs, NEW w \in Nat, NEW c \in Components(o)
  PROVE  /\ w * VectorLength[o] + c \in Nat /\ w + 1 \in Nat /\ 0 \in Components(o)
         /\ c = VectorLength[o] - 1 =>
              (w + 1) * VectorLength[o] + 0 = (w * VectorLength[o] + c) + 1
         /\ c # VectorLength[o] - 1 =>
              /\ c + 1 \in Components(o)
              /\ w * VectorLength[o] + (c + 1) = (w * VectorLength[o] + c) + 1
<1> DEFINE v == VectorLength[o]
           p == w * v
<1>1. v \in Nat \ {0} /\ c \in 0 .. v - 1 /\ Components(o) = 0 .. v - 1
  BY MergerAssumption DEF Components
<1>2. p \in Nat /\ (w + 1) * v = p + v
  BY <1>1, Products
<1> HIDE DEF v, p
<1>3. /\ p + c \in Nat /\ w + 1 \in Nat /\ 0 \in 0 .. v - 1
      /\ c = v - 1 => (w + 1) * v + 0 = (p + c) + 1
      /\ c # v - 1 => c + 1 \in 0 .. v - 1 /\ p + (c + 1) = (p + c) + 1
  BY <1>1, <1>2
<1> QED
  BY <1>1, <1>3 DEF v, p

\* What a loop over the open file leaves, place by place.
LEMMA RowTurns ==
  ASSUME FilesTyped, at \in Files, NEW o \in Obs, Has(at, o),
         NEW loop, NEW base, NEW g, TurnsOf(g, loop, o, base, Entries(o))
  PROVE  /\ g[0 * VectorLength[o] + 0] = base
         /\ \A w \in Nat, c \in Components(o) :
              w * VectorLength[o] + c < Looked(at, o) =>
                g[(w * VectorLength[o] + c) + 1] =
                  Turn(loop, o, g[w * VectorLength[o] + c],
                       (skip + w) * VectorLength[o] + c)
<1>1. g[0 * VectorLength[o] + 0] = base
  <2>1. VectorLength[o] \in Nat
    BY MergerAssumption
  <2>2. 0 * VectorLength[o] + 0 = 0
    BY <2>1
  <2> QED
    BY <2>2 DEF TurnsOf
<1>2. ASSUME NEW w \in Nat, NEW c \in Components(o),
             w * VectorLength[o] + c < Looked(at, o)
      PROVE  g[(w * VectorLength[o] + c) + 1] =
               Turn(loop, o, g[w * VectorLength[o] + c], (skip + w) * VectorLength[o] + c)
  <2> DEFINE j == w * VectorLength[o] + c
             i == (skip + w) * VectorLength[o] + c
  <2>1. j + 1 \in 1 .. Len(Entries(o)) /\ Entries(o)[j + 1] = i
    BY <1>2, EntryAt
  <2>2. j \in Nat
    BY NextPlace
  <2> HIDE DEF j, i
  <2>3. g[j + 1] = Turn(loop, o, g[(j + 1) - 1], Entries(o)[j + 1])
    BY <2>1 DEF TurnsOf
  <2>4. (j + 1) - 1 = j
    BY <2>2
  <2> QED
    BY <2>1, <2>3, <2>4 DEF i, j
<1> QED
  BY <1>1, <1>2

\* Of what holds at the first place and, if it holds at a place, at the next.
LEMMA RowHolds ==
  ASSUME NEW o \in Obs, NEW last \in Nat, NEW G, <<0, 0>> \in G,
         \A w \in Nat, c \in Components(o) :
           w * VectorLength[o] + c < last /\ <<w, c>> \in G =>
             /\ c = VectorLength[o] - 1 => <<w + 1, 0>> \in G
             /\ c # VectorLength[o] - 1 => <<w, c + 1>> \in G
  PROVE  \A w \in Nat, c \in Components(o) :
           w * VectorLength[o] + c <= last => <<w, c>> \in G
<1> DEFINE v == VectorLength[o]
           H == {p \in Nat \X Components(o) : p[1] * v + p[2] <= last => p \in G}
<1>1. v \in Nat \ {0} /\ Components(o) = 0 .. v - 1
  BY MergerAssumption DEF Components
<1>2. <<0, 0>> \in H
  BY <1>1
<1>3. ASSUME NEW w \in Nat, NEW c \in 0 .. v - 1, <<w, c>> \in H
      PROVE  /\ c = v - 1 => <<w + 1, 0>> \in H
             /\ c # v - 1 => <<w, c + 1>> \in H
  <2>1. w * v + c <= last => <<w, c>> \in G
    BY <1>3
  <2>2. /\ w * v + c \in Nat /\ w + 1 \in Nat /\ 0 \in Components(o)
        /\ c = v - 1 => (w + 1) * v + 0 = (w * v + c) + 1
        /\ c # v - 1 => c + 1 \in Components(o) /\ w * v + (c + 1) = (w * v + c) + 1
    BY <1>1, NextPlace
  <2>3. ASSUME c = v - 1 PROVE <<w + 1, 0>> \in H
    <3>1. ASSUME (w + 1) * v + 0 <= last PROVE <<w + 1, 0>> \in G
      <4>1. w * v + c < last
        BY <2>2, <2>3, <3>1
      <4>2. <<w, c>> \in G
        BY <2>1, <2>2, <4>1
      <4> QED
        BY <1>1, <2>3, <4>1, <4>2, Zenon
    <3> QED
      BY <2>2, <3>1
  <2>4. ASSUME c # v - 1 PROVE <<w, c + 1>> \in H
    <3>1. ASSUME w * v + (c + 1) <= last PROVE <<w, c + 1>> \in G
      <4>1. w * v + c < last
        BY <2>2, <2>4, <3>1
      <4>2. <<w, c>> \in G
        BY <2>1, <2>2, <4>1
      <4> QED
        BY <1>1, <2>4, <4>1, <4>2, Zenon
    <3> QED
      BY <2>2, <2>4, <3>1
  <2> QED
    BY <2>3, <2>4
<1> HIDE DEF H
<1>4. \A w \in Nat, c \in 0 .. v - 1 : <<w, c>> \in H
  BY <1>1, <1>2, <1>3, RowInduction
<1> QED
  BY <1>1, <1>4 DEF H

-----------------------------------------------------------------------------
(* The loop of the second pass.                                            *)

\* Entries lo + 1 to hi of a component.
Block(u, lo, hi) == [j \in 1 .. hi - lo |-> u[lo + j]]

LEMMA BlockShape ==
  ASSUME NEW u \in [Nat -> Named], NEW lo \in Nat, NEW hi \in Int
  PROVE  /\ Block(u, lo, hi) \in Seq(Named)
         /\ lo <= hi => /\ Len(Block(u, lo, hi)) = hi - lo
                        /\ Append(Block(u, lo, hi), u[hi + 1]) = Block(u, lo, hi + 1)
         /\ hi <= lo => Block(u, lo, hi) = << >>
<1> DEFINE e(j) == u[lo + j]
           n == hi - lo
           s == [j \in 1 .. n |-> e(j)]
           t == [j \in 1 .. n + 1 |-> e(j)]
<1>1. \A j \in Nat : e(j) \in Named
  OBVIOUS
<1>2. n \in Int /\ (lo <= hi => n \in Nat) /\ (hi <= lo => 1 .. n = {})
  OBVIOUS
<1>3. Block(u, lo, hi) = s
  BY DEF Block
<1>4. Block(u, lo, hi + 1) = t
  <2>1. (hi + 1) - lo = n + 1
    OBVIOUS
  <2> QED
    BY <2>1 DEF Block
<1>5. lo <= hi => u[hi + 1] = e(n + 1)
  <2>1. lo + (n + 1) = hi + 1
    OBVIOUS
  <2> QED
    BY <2>1
<1> HIDE DEF e, n
<1>6. ASSUME NEW m \in Nat
      PROVE  /\ [j \in 1 .. m |-> e(j)] \in Seq(Named)
             /\ Len([j \in 1 .. m |-> e(j)]) = m
  <2> DEFINE r == [j \in 1 .. m |-> e(j)]
  <2>1. r \in Seq(Named)
    BY <1>1, IsASeq
  <2>2. DOMAIN r = 1 .. m
    OBVIOUS
  <2> HIDE DEF r
  <2> DEFINE k == Len(r)
  <2>3. k \in Nat /\ 1 .. k = 1 .. m
    BY <2>1, <2>2, LenProperties
  <2> HIDE DEF k
  <2>4. Cardinality(1 .. k) = k
    BY <2>3, FS_Interval
  <2>5. Cardinality(1 .. m) = m
    BY FS_Interval
  <2>6. k = m
    BY <2>3, <2>4, <2>5
  <2> QED
    BY <2>1, <2>6 DEF k, r
<1>7. hi <= lo => s = << >>
  <2>1. SUFFICES ASSUME hi <= lo PROVE s = << >>
    OBVIOUS
  <2>2. 1 .. n = {}
    BY <1>2, <2>1
  <2>3. s = [j \in {} |-> e(j)]
    BY <2>2
  <2> QED
    BY <2>3, EmptySeq, SeqEqual
<1>8. ASSUME lo <= hi PROVE s \in Seq(Named) /\ Len(s) = n
  BY <1>2, <1>6, <1>8
<1>9. ASSUME lo <= hi PROVE Append(s, e(n + 1)) = t
  <2>1. n \in Nat /\ n + 1 \in Nat
    BY <1>2, <1>9
  <2>2. t \in Seq(Named) /\ Len(t) = n + 1
    BY <1>6, <2>1
  <2>3. s \in Seq(Named) /\ Len(s) = n /\ \A j \in 1 .. n : s[j] = e(j)
    BY <1>8, <1>9
  <2>4. \A j \in 1 .. n + 1 : t[j] = e(j)
    OBVIOUS
  <2>5. e(n + 1) \in Named
    BY <1>1, <2>1
  <2> HIDE DEF s, t
  <2>6. /\ Append(s, e(n + 1)) \in Seq(Named) /\ Len(Append(s, e(n + 1))) = n + 1
        /\ \A j \in 1 .. n + 1 : Append(s, e(n + 1))[j] = e(j)
    <3>1. /\ Append(s, e(n + 1)) \in Seq(Named)
          /\ Len(Append(s, e(n + 1))) = n + 1
          /\ \A j \in 1 .. n : Append(s, e(n + 1))[j] = s[j]
          /\ Append(s, e(n + 1))[n + 1] = e(n + 1)
      BY <2>3, <2>5, AppendProperties
    <3> QED
      BY <2>1, <2>3, <3>1
  <2> QED
    BY <2>2, <2>4, <2>6, SeqEqual
<1>10. s \in Seq(Named)
  <2>1. CASE lo <= hi
    BY <1>8, <2>1
  <2>2. CASE hi <= lo
    BY <1>7, <2>2, EmptySeq
  <2> QED
    BY <2>1, <2>2
<1> QED
  BY <1>3, <1>4, <1>5, <1>7, <1>8, <1>9, <1>10 DEF n

\* The samples that go into bins.
Binned(o) == count[o] * length[o]

\* acc after n vectors and c components of the next one, the samples being U.
MeanState(acc, o, U, n, c) ==
  /\ acc.counter = AtMost(n, Binned(o))
  /\ acc.sums = [d \in Components(o) |->
       Block(U[d], 0, AtMost(n + (IF d < c THEN 1 ELSE 0), Binned(o)))]

LEMMA CounterTurn ==
  ASSUME NEW o \in Obs, Binned(o) \in Nat, NEW n \in Nat, NEW c \in Components(o),
         NEW i, IsLast(o, i) <=> c = VectorLength[o] - 1,
         NEW acc, acc.counter = AtMost(n, Binned(o))
  PROVE  /\ c = VectorLength[o] - 1 =>
              AddToMean(o, acc, i).counter = AtMost(n + 1, Binned(o))
         /\ c # VectorLength[o] - 1 =>
              AddToMean(o, acc, i).counter = AtMost(n, Binned(o))
<1>1. CASE n >= Binned(o)
  <2>1. acc.counter = Binned(o)
    BY <1>1 DEF AtMost
  <2>2. AddToMean(o, acc, i) = acc
    BY <2>1 DEF AddToMean, Binned
  <2> QED
    BY <1>1, <2>1, <2>2 DEF AtMost
<1>2. CASE n < Binned(o)
  <2>1. acc.counter = n
    BY <1>2 DEF AtMost
  <2>2. AddToMean(o, acc, i).counter = n + IF IsLast(o, i) THEN 1 ELSE 0
    BY <1>2, <2>1 DEF AddToMean, Binned
  <2> QED
    BY <1>2, <2>2 DEF AtMost
<1> QED
  BY <1>1, <1>2

\* How many samples of d are there, after c components of sample n + 1.
Upto(n, d, c) == n + IF d < c THEN 1 ELSE 0

LEMMA UptoNext ==
  ASSUME NEW o \in Obs, NEW n \in Nat, NEW c \in Components(o), NEW d \in Components(o)
  PROVE  /\ Upto(n, d, c) \in Nat /\ Upto(n, c, c) = n
         /\ c = VectorLength[o] - 1 =>
              Upto(n + 1, d, 0) = IF d = c THEN n + 1 ELSE Upto(n, d, c)
         /\ c # VectorLength[o] - 1 =>
              Upto(n, d, c + 1) = IF d = c THEN n + 1 ELSE Upto(n, d, c)
<1> DEFINE v == VectorLength[o]
<1>1. v \in Nat \ {0} /\ c \in 0 .. v - 1 /\ d \in 0 .. v - 1
  BY MergerAssumption DEF Components
<1> HIDE DEF v
<1>2. /\ Upto(n, d, c) \in Nat /\ Upto(n, c, c) = n
      /\ c = v - 1 => Upto(n + 1, d, 0) = IF d = c THEN n + 1 ELSE Upto(n, d, c)
      /\ c # v - 1 => Upto(n, d, c + 1) = IF d = c THEN n + 1 ELSE Upto(n, d, c)
  BY <1>1 DEF Upto
<1> QED
  BY <1>2 DEF v

LEMMA SumsTurn ==
  ASSUME NEW o \in Obs, Binned(o) \in Nat, NEW n \in Nat, NEW c \in Components(o),
         NEW U \in [Components(o) -> [Nat -> Named]],
         NEW i, Component(o, i) = c, <<at, i>> = U[c][n + 1],
         NEW acc, MeanState(acc, o, U, n, c)
  PROVE  AddToMean(o, acc, i).sums = [d \in Components(o) |->
           Block(U[d], 0, AtMost(IF d = c THEN n + 1 ELSE Upto(n, d, c), Binned(o)))]
<1> DEFINE B == Binned(o)
           S(d) == Block(U[d], 0, AtMost(Upto(n, d, c), B))
           T(d) == Block(U[d], 0, AtMost(IF d = c THEN n + 1 ELSE Upto(n, d, c), B))
<1>1. acc.sums = [d \in Components(o) |-> S(d)] /\ acc.counter = AtMost(n, B)
  BY DEF MeanState, Upto
<1>2. Upto(n, c, c) = n /\ B \in Nat
  BY UptoNext
<1>3. CASE n >= B
  <2>1. acc.counter = B
    BY <1>1, <1>2, <1>3 DEF AtMost
  <2>2. AddToMean(o, acc, i) = acc
    BY <1>2, <2>1 DEF AddToMean, Binned
  <2>3. \A d \in Components(o) : S(d) = T(d)
    <3>1. AtMost(n, B) = AtMost(n + 1, B)
      BY <1>2, <1>3 DEF AtMost
    <3> QED
      BY <1>2, <3>1
  <2> HIDE DEF S, T
  <2>4. acc.sums = [d \in Components(o) |-> T(d)]
    BY <1>1, <2>3
  <2> QED
    BY <2>2, <2>4 DEF T
<1>4. CASE n < B
  <2>1. acc.counter = n
    BY <1>1, <1>2, <1>4 DEF AtMost
  <2>2. AddToMean(o, acc, i).sums = [acc.sums EXCEPT ![c] = Append(acc.sums[c], <<at, i>>)]
    BY <1>2, <1>4, <2>1 DEF AddToMean, Binned
  <2>3. Append(S(c), <<at, i>>) = T(c)
    <3>1. AtMost(n, B) = n /\ AtMost(n + 1, B) = n + 1
      BY <1>2, <1>4 DEF AtMost
    <3>2. S(c) = Block(U[c], 0, n) /\ T(c) = Block(U[c], 0, n + 1)
      BY <1>2, <3>1
    <3>3. Append(Block(U[c], 0, n), U[c][n + 1]) = Block(U[c], 0, n + 1)
      <4> DEFINE u == U[c]
      <4>1. u \in [Nat -> Named] /\ 0 \in Nat /\ n \in Int /\ 0 <= n
        OBVIOUS
      <4> HIDE DEF u
      <4>2. Append(Block(u, 0, n), u[n + 1]) = Block(u, 0, n + 1)
        BY <4>1, BlockShape
      <4> QED
        BY <4>2 DEF u
    <3>4. <<at, i>> = U[c][n + 1]
      OBVIOUS
    <3> HIDE DEF S, T
    <3> QED
      BY <3>2, <3>3, <3>4
  <2>4. \A d \in Components(o) : d # c => S(d) = T(d)
    OBVIOUS
  <2> HIDE DEF S, T
  <2>5. [acc.sums EXCEPT ![c] = Append(acc.sums[c], <<at, i>>)]
          = [d \in Components(o) |-> T(d)]
    BY <1>1, <2>3, <2>4
  <2> QED
    BY <2>2, <2>5 DEF T
<1> QED
  BY <1>2, <1>3, <1>4

LEMMA MeanTurn ==
  ASSUME NEW o \in Obs, Binned(o) \in Nat, NEW n \in Nat, NEW c \in Components(o),
         NEW U \in [Components(o) -> [Nat -> Named]],
         NEW i, Component(o, i) = c, <<at, i>> = U[c][n + 1],
         IsLast(o, i) <=> c = VectorLength[o] - 1,
         NEW acc, MeanState(acc, o, U, n, c)
  PROVE  /\ c = VectorLength[o] - 1 => MeanState(AddToMean(o, acc, i), o, U, n + 1, 0)
         /\ c # VectorLength[o] - 1 => MeanState(AddToMean(o, acc, i), o, U, n, c + 1)
<1> DEFINE new == AddToMean(o, acc, i)
           T(d) == Block(U[d], 0, AtMost(IF d = c THEN n + 1 ELSE Upto(n, d, c), Binned(o)))
<1>1. new.sums = [d \in Components(o) |-> T(d)]
  BY SumsTurn
<1>2. acc.counter = AtMost(n, Binned(o))
  BY DEF MeanState
<1>3. ASSUME c = VectorLength[o] - 1 PROVE MeanState(new, o, U, n + 1, 0)
  <2>1. new.counter = AtMost(n + 1, Binned(o))
    BY <1>2, <1>3, CounterTurn
  <2> DEFINE S(d) == Block(U[d], 0, AtMost(Upto(n + 1, d, 0), Binned(o)))
  <2>2. \A d \in Components(o) : T(d) = S(d)
    BY <1>3, UptoNext
  <2> HIDE DEF T, S, new
  <2>3. new.sums = [d \in Components(o) |-> S(d)]
    BY <1>1, <2>2
  <2> QED
    BY <2>1, <2>3 DEF MeanState, S, Upto
<1>4. ASSUME c # VectorLength[o] - 1 PROVE MeanState(new, o, U, n, c + 1)
  <2>1. new.counter = AtMost(n, Binned(o))
    BY <1>2, <1>4, CounterTurn
  <2> DEFINE S(d) == Block(U[d], 0, AtMost(Upto(n, d, c + 1), Binned(o)))
  <2>2. \A d \in Components(o) : T(d) = S(d)
    BY <1>4, UptoNext
  <2> HIDE DEF T, S, new
  <2>3. new.sums = [d \in Components(o) |-> S(d)]
    BY <1>1, <2>2
  <2> QED
    BY <2>1, <2>3 DEF MeanState, S, Upto
<1> QED
  BY <1>3, <1>4

LEMMA MeanOfTurns ==
  ASSUME FilesTyped, at \in Files, NEW o \in Obs, Has(at, o)
  PROVE  \E g : /\ TurnsOf(g, "mean", o, [sums |-> mean[o], counter |-> counter[o]], Entries(o))
                /\ MeanOf(o) = g[Looked(at, o)]
<1> DEFINE base == [sums |-> mean[o], counter |-> counter[o]]
<1>1. Looked(at, o) \in Nat /\ Len(Entries(o)) = Looked(at, o)
      /\ DOMAIN Entries(o) = 1 .. Looked(at, o)
  BY EntriesShape
<1>2. Len(Entries(o)) \in Nat /\ DOMAIN Entries(o) = 1 .. Len(Entries(o))
  BY <1>1
<1> DEFINE seq == Entries(o)
           S == 1 .. Len(seq)
           e(h, s) == IF s = {} THEN base ELSE AddToMean(o, h[s \ {Max(s)}], seq[Max(s)])
           fold == CHOOSE h : h = [s \in SUBSET S |-> e(h, s)]
<1>3. MeanOf(o) = fold[S]
  <2>1. DOMAIN seq = S
    BY <1>2
  <2> QED
    BY <2>1 DEF MeanOf, FoldLeft, MapThenFoldSet
<1>4. \A h : FoldsBy(h, "mean", o, base, seq) <=> h = [s \in SUBSET S |-> e(h, s)]
  BY DEF FoldsBy, Turn
<1> HIDE DEF e, base, seq
<1>5. FoldsBy(fold, "mean", o, base, seq)
  <2>1. \E h : FoldsBy(h, "mean", o, base, seq)
    BY <1>2, FoldExists DEF seq
  <2> QED
    BY <1>4, <2>1
<1> HIDE DEF fold
<1>6. PICK g : TurnsOf(g, "mean", o, base, seq) /\ g[Len(seq)] = fold[S]
  BY <1>2, <1>5, FoldTurns DEF seq
<1>7. TurnsOf(g, "mean", o, base, Entries(o)) /\ MeanOf(o) = g[Looked(at, o)]
  BY <1>1, <1>3, <1>6 DEF seq
<1> QED
  BY <1>7 DEF base

\* The second pass counts the vectors of a file, damaged or not.
LEMMA MeanCounts ==
  ASSUME FilesTyped, at \in Files, NEW o \in Obs, Binned(o) \in Nat,
         counter[o] \in Nat, counter[o] <= Binned(o)
  PROVE  MeanOf(o).counter = AtMost(counter[o] + Share(at, o), Binned(o))
<1> DEFINE base == [sums |-> mean[o], counter |-> counter[o]]
           n == counter[o]
           B == Binned(o)
<1>1. CASE ~Has(at, o)
  <2>1. Share(at, o) = 0
    BY <1>1 DEF Share, AtMost, FilesTyped
  <2>2. MeanOf(o).counter = n
    BY <1>1 DEF MeanOf
  <2> QED
    BY <2>1, <2>2 DEF AtMost
<1>2. CASE Has(at, o)
  <2>1. Looked(at, o) \in Nat /\ Len(Entries(o)) = Looked(at, o)
        /\ DOMAIN Entries(o) = 1 .. Looked(at, o)
    BY <1>2, EntriesShape
  <2>2. PICK g : TurnsOf(g, "mean", o, base, Entries(o)) /\ MeanOf(o) = g[Looked(at, o)]
    BY <1>2, MeanOfTurns
  <2>3. MeanOf(o) = g[Looked(at, o)]
    BY <2>2
  <2> DEFINE v == VectorLength[o]
             G == {p \in Nat \X Components(o) : g[p[1] * v + p[2]].counter = AtMost(n + p[1], B)}
  <2>4. TurnsOf(g, "mean", o, base, Entries(o))
    BY <2>2
  <2>5. /\ g[0 * v + 0] = base
        /\ \A w \in Nat, c \in Components(o) : w * v + c < Looked(at, o) =>
             g[(w * v + c) + 1] =
               Turn("mean", o, g[w * v + c], (skip + w) * v + c)
    BY <1>2, <2>4, RowTurns
  <2>6. <<0, 0>> \in G
    <3>1. 0 \in Components(o)
      BY MergerAssumption DEF Components
    <3>2. g[0 * v + 0].counter = AtMost(n + 0, B)
      BY <2>5 DEF AtMost
    <3> QED
      BY <3>1, <3>2
  <2>7. ASSUME NEW w \in Nat, NEW c \in Components(o),
               w * v + c < Looked(at, o), <<w, c>> \in G
        PROVE  /\ c = v - 1 => <<w + 1, 0>> \in G
               /\ c # v - 1 => <<w, c + 1>> \in G
    <3> DEFINE i == (skip + w) * v + c
               old == g[w * v + c]
    <3>1. IsLast(o, i) <=> c = v - 1
      BY <1>2, <2>7, EntryAt
    <3>2. g[(w * v + c) + 1] = AddToMean(o, old, i)
      BY <2>5, <2>7 DEF Turn
    <3>3. old.counter = AtMost(n + w, B) /\ n + w \in Nat
      BY <2>7
    <3> HIDE DEF i, old
    <3>4. /\ c = v - 1 => AddToMean(o, old, i).counter = AtMost((n + w) + 1, B)
          /\ c # v - 1 => AddToMean(o, old, i).counter = AtMost(n + w, B)
      BY <3>1, <3>3, CounterTurn
    <3>5. ASSUME c = v - 1 PROVE <<w + 1, 0>> \in G
      <4>1. (w + 1) * v + 0 = (w * v + c) + 1 /\ 0 \in Components(o) /\ w + 1 \in Nat
        BY <3>5, NextPlace
      <4>2. g[(w + 1) * v + 0].counter = AtMost((n + w) + 1, B)
        BY <3>2, <3>4, <3>5, <4>1
      <4>3. (n + w) + 1 = n + (w + 1)
        OBVIOUS
      <4> QED
        BY <4>1, <4>2, <4>3
    <3>6. ASSUME c # v - 1 PROVE <<w, c + 1>> \in G
      <4>1. w * v + (c + 1) = (w * v + c) + 1 /\ c + 1 \in Components(o)
        BY <3>6, NextPlace
      <4>2. g[w * v + (c + 1)].counter = AtMost(n + w, B)
        BY <3>2, <3>4, <3>6, <4>1
      <4> QED
        BY <4>1, <4>2
    <3> QED
      BY <3>5, <3>6
  <2>8. \A w \in Nat, c \in Components(o) : w * v + c <= Looked(at, o) => <<w, c>> \in G
    <3> HIDE DEF G
    <3> QED
      BY <2>1, <2>6, <2>7, RowHolds
  <2>9. PICK c \in Components(o) : Looked(at, o) = Share(at, o) * v + c
    BY <1>2, LookedShape
  <2>10. Share(at, o) \in Nat
    BY ShareIsNat
  <2>11. <<Share(at, o), c>> \in G
    BY <2>1, <2>8, <2>9, <2>10
  <2> QED
    BY <2>3, <2>9, <2>11
<1> QED
  BY <1>1, <1>2

LEMMA RowWithin ==
  ASSUME NEW o \in Obs, NEW w \in Nat, NEW c \in Components(o), NEW s \in Nat,
         w * VectorLength[o] + c < s * VectorLength[o]
  PROVE  w + 1 \in 1 .. s
<1> DEFINE v == VectorLength[o]
<1>1. v \in Nat /\ c \in Nat
  BY MergerAssumption DEF Components
<1>2. SUFFICES ASSUME s <= w PROVE FALSE
  OBVIOUS
<1>3. s * v <= w * v /\ w * v \in Nat /\ s * v \in Nat
  BY <1>1, <1>2, Products
<1> QED
  BY <1>1, <1>3

\* The samples of the open file are the next ones of U.
Continued(o, U, n) ==
  \A d \in Components(o) : \A m \in 1 .. Share(at, o) : U[d][n + m] = Sample(at, o, m, d)

\* The second pass goes on with the samples of an undamaged file.
LEMMA MeanTakes ==
  ASSUME FilesTyped, at \in Files, NEW o \in Obs, Binned(o) \in Nat,
         Intact(files[at][o], o), NEW n \in Nat,
         NEW U \in [Components(o) -> [Nat -> Named]], Continued(o, U, n),
         MeanState([sums |-> mean[o], counter |-> counter[o]], o, U, n, 0)
  PROVE  MeanState(MeanOf(o), o, U, n + Share(at, o), 0)
<1> DEFINE base == [sums |-> mean[o], counter |-> counter[o]]
<1>0. Share(at, o) \in Nat
  BY ShareIsNat
<1>1. CASE ~Has(at, o)
  <2>1. Share(at, o) = 0
    BY <1>1 DEF Share, AtMost, FilesTyped
  <2>2. MeanOf(o) = base /\ n + Share(at, o) = n
    BY <1>1, <2>1 DEF MeanOf
  <2> QED
    BY <2>2
<1>2. CASE Has(at, o)
  <2> DEFINE v == VectorLength[o]
  <2>1. Looked(at, o) \in Nat /\ Looked(at, o) = Share(at, o) * v
    <3>1. PICK c \in Components(o) : Looked(at, o) = Share(at, o) * v + c /\ c = 0
      BY <1>2, LookedShape
    <3>2. v \in Nat
      BY MergerAssumption
    <3>3. Share(at, o) * v \in Nat
      BY <1>0, <3>2, Products
    <3> QED
      BY <3>1, <3>3
  <2>2. PICK g : TurnsOf(g, "mean", o, base, Entries(o)) /\ MeanOf(o) = g[Looked(at, o)]
    BY <1>2, MeanOfTurns
  <2> DEFINE G == {p \in Nat \X Components(o) :
                     MeanState(g[p[1] * v + p[2]], o, U, n + p[1], p[2])}
  <2>3. /\ g[0 * v + 0] = base
        /\ \A w \in Nat, c \in Components(o) : w * v + c < Looked(at, o) =>
             g[(w * v + c) + 1] =
               Turn("mean", o, g[w * v + c], (skip + w) * v + c)
    BY <1>2, <2>2, RowTurns
  <2>4. 0 \in Components(o)
    BY MergerAssumption DEF Components
  <2>5. <<0, 0>> \in G
    <3>1. n + 0 = n
      OBVIOUS
    <3>2. MeanState(g[0 * v + 0], o, U, n + 0, 0)
      BY <2>3, <3>1
    <3> QED
      BY <2>4, <3>2
  <2>6. ASSUME NEW w \in Nat, NEW c \in Components(o),
               w * v + c < Looked(at, o), <<w, c>> \in G
        PROVE  /\ c = v - 1 => <<w + 1, 0>> \in G
               /\ c # v - 1 => <<w, c + 1>> \in G
    <3> DEFINE i == (skip + w) * v + c
               old == g[w * v + c]
    <3>1. /\ IsLast(o, i) <=> c = v - 1
          /\ Component(o, i) = c
          /\ Sample(at, o, w + 1, c) = <<at, i>>
      BY <1>2, <2>6, EntryAt
    <3>2. g[(w * v + c) + 1] = AddToMean(o, old, i)
      BY <2>3, <2>6 DEF Turn
    <3>3. MeanState(old, o, U, n + w, c) /\ n + w \in Nat
      BY <2>6
    <3>4. w + 1 \in 1 .. Share(at, o)
      BY <1>0, <2>1, <2>6, RowWithin
    <3>5. <<at, i>> = U[c][(n + w) + 1]
      <4>1. n + (w + 1) = (n + w) + 1
        OBVIOUS
      <4>2. U[c][n + (w + 1)] = Sample(at, o, w + 1, c)
        BY <3>4 DEF Continued
      <4> QED
        BY <3>1, <4>1, <4>2
    <3> HIDE DEF i, old
    <3>6. /\ c = v - 1 => MeanState(AddToMean(o, old, i), o, U, (n + w) + 1, 0)
          /\ c # v - 1 => MeanState(AddToMean(o, old, i), o, U, n + w, c + 1)
      BY <3>1, <3>3, <3>5, MeanTurn
    <3>7. ASSUME c = v - 1 PROVE <<w + 1, 0>> \in G
      <4>1. (w + 1) * v + 0 = (w * v + c) + 1 /\ 0 \in Components(o) /\ w + 1 \in Nat
        BY <3>7, NextPlace
      <4>2. (n + w) + 1 = n + (w + 1)
        OBVIOUS
      <4>3. MeanState(g[(w + 1) * v + 0], o, U, n + (w + 1), 0)
        BY <3>2, <3>6, <3>7, <4>1, <4>2
      <4> QED
        BY <4>1, <4>3
    <3>8. ASSUME c # v - 1 PROVE <<w, c + 1>> \in G
      <4>1. w * v + (c + 1) = (w * v + c) + 1 /\ c + 1 \in Components(o)
        BY <3>8, NextPlace
      <4>2. MeanState(g[w * v + (c + 1)], o, U, n + w, c + 1)
        BY <3>2, <3>6, <3>8, <4>1
      <4> QED
        BY <4>1, <4>2
    <3> QED
      BY <3>7, <3>8
  <2>7. \A w \in Nat, c \in Components(o) : w * v + c <= Looked(at, o) => <<w, c>> \in G
    <3> HIDE DEF G
    <3> QED
      BY <2>1, <2>5, <2>6, RowHolds
  <2>8. Share(at, o) * v + 0 = Looked(at, o)
    BY <2>1
  <2>9. <<Share(at, o), 0>> \in G
    BY <1>0, <2>1, <2>4, <2>7, <2>8
  <2> QED
    BY <2>2, <2>8, <2>9
<1> QED
  BY <1>1, <1>2

-----------------------------------------------------------------------------
(* The loop of the third pass.                                             *)

LEMMA BinsOfTurns ==
  ASSUME FilesTyped, at \in Files, NEW o \in Obs, Has(at, o)
  PROVE  \E g : /\ TurnsOf(g, "bins", o,
                     [bins |-> bins[o], closed |-> closed[o],
                      filling |-> filling[o], rebin |-> rebin[o]], Entries(o))
                /\ BinsOf(o) = g[Looked(at, o)]
<1> DEFINE base == [bins |-> bins[o], closed |-> closed[o],
                    filling |-> filling[o], rebin |-> rebin[o]]
           seq == Entries(o)
           S == 1 .. Len(seq)
           e(h, s) == IF s = {} THEN base ELSE AddToBin(o, h[s \ {Max(s)}], seq[Max(s)])
           fold == CHOOSE h : h = [s \in SUBSET S |-> e(h, s)]
<1>1. Looked(at, o) \in Nat /\ Len(Entries(o)) = Looked(at, o)
      /\ DOMAIN Entries(o) = 1 .. Looked(at, o)
  BY EntriesShape
<1>2. Len(Entries(o)) \in Nat /\ DOMAIN Entries(o) = 1 .. Len(Entries(o))
  BY <1>1
<1>3. BinsOf(o) = fold[S]
  <2>1. DOMAIN seq = S
    BY <1>2
  <2> QED
    BY <2>1 DEF BinsOf, FoldLeft, MapThenFoldSet
<1>4. \A h : FoldsBy(h, "bins", o, base, seq) <=> h = [s \in SUBSET S |-> e(h, s)]
  BY DEF FoldsBy, Turn
<1> HIDE DEF e, base, seq
<1>5. FoldsBy(fold, "bins", o, base, seq)
  <2>1. \E h : FoldsBy(h, "bins", o, base, seq)
    BY <1>2, FoldExists DEF seq
  <2> QED
    BY <1>4, <2>1
<1> HIDE DEF fold
<1>6. PICK g : TurnsOf(g, "bins", o, base, seq) /\ g[Len(seq)] = fold[S]
  BY <1>2, <1>5, FoldTurns DEF seq
<1>7. TurnsOf(g, "bins", o, base, Entries(o)) /\ BinsOf(o) = g[Looked(at, o)]
  BY <1>1, <1>3, <1>6 DEF seq
<1> QED
  BY <1>7 DEF base

\* Read before the entry i of the open file.
ReadBefore(e, i) == e[1] < at \/ (e[1] = at /\ e[2] < i)

\* The bins hold entries read before, each of them in one.
BinsApart(b, o, i) ==
  /\ b \in [Slots(o, count[o]) -> Seq(Named)]
  /\ \A x \in Slots(o, count[o]) : \A e \in ToSet(b[x]) : ReadBefore(e, i)
  /\ \A x, y \in Slots(o, count[o]) : x # y => ToSet(b[x]) \cap ToSet(b[y]) = {}

LEMMA ToSetAppend ==
  ASSUME NEW S, NEW s \in Seq(S), NEW e \in S
  PROVE  ToSet(Append(s, e)) = ToSet(s) \cup {e}
<1> DEFINE t == Append(s, e)
           n == Len(s)
<1>1. /\ t \in Seq(S) /\ Len(t) = n + 1 /\ t[n + 1] = e /\ \A i \in 1 .. n : t[i] = s[i]
      /\ DOMAIN t = 1 .. Len(t) /\ DOMAIN s = 1 .. n /\ n \in Nat
  BY AppendProperties, LenProperties
<1> HIDE DEF t, n
<1>2. DOMAIN t = 1 .. n \cup {n + 1}
  BY <1>1
<1>3. {t[i] : i \in DOMAIN t} = {s[i] : i \in DOMAIN s} \cup {e}
  BY <1>1, <1>2
<1> QED
  BY <1>3 DEF ToSet, t

LEMMA SlotThere ==
  ASSUME NEW o \in Obs, NEW n \in Nat, NEW k \in 0 .. n - 1, NEW c \in Components(o)
  PROVE  k * VectorLength[o] + c \in Slots(o, n)
<1> DEFINE v == VectorLength[o]
<1>1. v \in Nat \ {0} /\ c \in 0 .. v - 1 /\ k \in Nat /\ k + 1 <= n
  BY MergerAssumption DEF Components
<1>2. (k + 1) * v <= n * v /\ (k + 1) * v = k * v + v /\ k * v \in Nat /\ n * v \in Nat
  <2>1. k + 1 \in Nat
    BY <1>1
  <2> QED
    BY <1>1, <2>1, Products
<1> DEFINE p == k * v
           q == n * v
<1>3. p \in Nat /\ q \in Nat /\ p + v <= q
  BY <1>2
<1> HIDE DEF p, q, v
<1>4. p + c \in 0 .. q - 1
  BY <1>1, <1>3
<1> QED
  BY <1>4 DEF Slots, p, q, v

LEMMA ApartTurn ==
  ASSUME NEW o \in Obs, count[o] \in Nat, at \in Files, NEW i \in Nat,
         Component(o, i) \in Components(o),
         NEW acc, acc.rebin \in 0 .. count[o], BinsApart(acc.bins, o, i)
  PROVE  BinsApart(AddToBin(o, acc, i).bins, o, i + 1)
<1> DEFINE K == count[o]
           z == Slots(o, K)
           e == <<at, i>>
           slot == acc.rebin * VectorLength[o] + Component(o, i)
           new == [acc.bins EXCEPT ![slot] = Append(acc.bins[slot], e)]
<1>0. \A x : ReadBefore(x, i) => ReadBefore(x, i + 1) \/ x[2] \notin Nat
  BY DEF ReadBefore
<1>1. \A x \in Named : ReadBefore(x, i) => ReadBefore(x, i + 1)
  BY <1>0 DEF Named
<1>2. acc.bins \in [z -> Seq(Named)]
  BY DEF BinsApart
<1>3. \A x \in z : ToSet(acc.bins[x]) \subseteq Named
  <2>1. \A s \in Seq(Named) : ToSet(s) \subseteq Named
    BY LenProperties, ElementOfSeq DEF ToSet
  <2> QED
    BY <1>2, <2>1
<1>4. CASE acc.rebin >= K
  <2>1. AddToBin(o, acc, i) = acc
    BY <1>4 DEF AddToBin
  <2> QED
    BY <1>1, <1>3, <2>1 DEF BinsApart
<1>5. CASE acc.rebin < K
  <2>1. AddToBin(o, acc, i).bins = new
    BY <1>5 DEF AddToBin
  <2>2. slot \in z
    <3>1. acc.rebin \in 0 .. K - 1
      BY <1>5
    <3> QED
      BY <3>1, SlotThere
  <2>3. e \in Named /\ ReadBefore(e, i + 1) /\ ~ReadBefore(e, i)
    BY DEF Named, ReadBefore, Files
  <2> HIDE DEF slot, e, z
  <2>4. \A x \in z : new[x] = IF x = slot THEN Append(acc.bins[slot], e) ELSE acc.bins[x]
    BY <1>2
  <2>5. acc.bins[slot] \in Seq(Named) /\ ToSet(Append(acc.bins[slot], e)) = ToSet(acc.bins[slot]) \cup {e}
        /\ Append(acc.bins[slot], e) \in Seq(Named)
    BY <1>2, <2>2, <2>3, ToSetAppend, AppendProperties
  <2>6. new \in [z -> Seq(Named)]
    BY <1>2, <2>2, <2>5
  <2> HIDE DEF new
  <2>7. \A x \in z : ToSet(new[x]) = ToSet(acc.bins[x]) \cup (IF x = slot THEN {e} ELSE {})
    BY <2>4, <2>5
  <2>8. \A x \in z : e \notin ToSet(acc.bins[x])
    BY <2>3 DEF BinsApart, z
  <2>9. \A x \in z : \A y \in ToSet(new[x]) : ReadBefore(y, i + 1)
    <3>1. \A x \in z : \A y \in ToSet(acc.bins[x]) : ReadBefore(y, i + 1)
      BY <1>1, <1>3 DEF BinsApart, z
    <3> QED
      BY <2>3, <2>7, <3>1
  <2>10. \A x, y \in z : x # y => ToSet(new[x]) \cap ToSet(new[y]) = {}
    <3>1. \A x, y \in z : x # y => ToSet(acc.bins[x]) \cap ToSet(acc.bins[y]) = {}
      BY DEF BinsApart, z
    <3> QED
      BY <2>7, <2>8, <3>1
  <2> QED
    BY <2>1, <2>6, <2>9, <2>10 DEF BinsApart, z
<1> QED
  BY <1>4, <1>5

\* At least m vectors have gone into bins or were left over, filling and rebin
\* being after c components of the next one.
BinsCount(acc, o, m, c) ==
  /\ acc.rebin \in 0 .. count[o] /\ acc.filling \in Nat
  /\ acc.rebin < count[o] =>
       /\ c > 0 => acc.filling > 0
       /\ m <= acc.rebin * length[o]
                 + AtMost(acc.filling - (IF c > 0 THEN 1 ELSE 0), length[o] - 1)

LEMMA CountTurn ==
  ASSUME NEW o \in Obs, count[o] \in Nat, length[o] \in Nat,
         count[o] > 0 => length[o] > 0,
         NEW m \in Nat, NEW c \in Components(o),
         NEW i, Component(o, i) = c, IsLast(o, i) <=> c = VectorLength[o] - 1,
         NEW acc, BinsCount(acc, o, m, c)
  PROVE  /\ c = VectorLength[o] - 1 => BinsCount(AddToBin(o, acc, i), o, m + 1, 0)
         /\ c # VectorLength[o] - 1 => BinsCount(AddToBin(o, acc, i), o, m, c + 1)
<1> DEFINE v == VectorLength[o]
           K == count[o]
           L == length[o]
           q == acc.rebin
           filled == Filled(acc.filling, c)
           p == filled - 1
           new == AddToBin(o, acc, i)
<1>1. v \in Nat \ {0} /\ c \in 0 .. v - 1
  BY MergerAssumption DEF Components
<1>2. q \in 0 .. K /\ acc.filling \in Nat
  BY DEF BinsCount
<1>3. CASE q = K
  <2>1. new = acc
    BY <1>3 DEF AddToBin
  <2> QED
    BY <1>3, <2>1 DEF BinsCount
<1>4. CASE q < K
  <2>1. L > 0 /\ filled \in Nat /\ p \in Nat /\ p = acc.filling - (IF c > 0 THEN 1 ELSE 0)
    BY <1>1, <1>2, <1>4 DEF BinsCount, Filled
  <2>2. m <= q * L + AtMost(p, L - 1)
    BY <1>4, <2>1 DEF BinsCount
  <2>3. /\ new.filling = IF filled >= L /\ IsLast(o, i) THEN 0 ELSE filled
        /\ new.rebin = q + IF filled >= L /\ IsLast(o, i) THEN 1 ELSE 0
    BY <1>2, <1>4 DEF AddToBin
  <2>0. q \in Nat
    BY <1>2
  <2>4. q * L \in Nat /\ (q + 1) * L = q * L + L
    BY <1>2, Products
  <2> DEFINE r == q * L
  <2> HIDE DEF K, L, q, filled, new, v
  <2>5. ASSUME c = v - 1 PROVE BinsCount(new, o, m + 1, 0)
    <3>1. CASE filled >= L
      <4>1. new.filling = 0 /\ new.rebin = q + 1
        BY <2>3, <2>5, <3>1 DEF v
      <4>2. AtMost(p, L - 1) = L - 1
        BY <2>1, <3>1 DEF AtMost, L
      <4>3. new.rebin * L = r + L
        BY <2>4, <4>1
      <4> HIDE DEF r
      <4>4. m + 1 <= r + L
        BY <2>1, <2>2, <2>4, <4>2 DEF r, L
      <4>5. AtMost(0 - 0, L - 1) = 0
        BY <2>1 DEF AtMost, L
      <4>6. new.rebin \in 0 .. K /\ new.filling \in Nat
        BY <1>2, <1>4, <4>1 DEF K, q
      <4>7. m + 1 <= new.rebin * L + AtMost(new.filling - (IF 0 > 0 THEN 1 ELSE 0), L - 1)
        BY <2>4, <4>1, <4>3, <4>4, <4>5 DEF r, L
      <4> QED
        BY <4>6, <4>7 DEF BinsCount, K, L
    <3>2. CASE filled < L
      <4>1. new.filling = p + 1 /\ new.rebin = q
        BY <2>0, <2>1, <2>3, <3>2 DEF L
      <4>2. AtMost(p, L - 1) = p /\ AtMost(p + 1, L - 1) = p + 1
        BY <2>1, <3>2 DEF AtMost, L
      <4>3. m + 1 <= q * L + (p + 1)
        <5> HIDE DEF p
        <5>1. m <= r + p /\ r \in Nat
          BY <2>2, <2>4, <4>2
        <5> HIDE DEF r
        <5>2. m + 1 <= r + (p + 1)
          BY <2>1, <5>1
        <5> QED
          BY <5>2 DEF r
      <4>4. new.filling - (IF 0 > 0 THEN 1 ELSE 0) = p + 1
        BY <2>1, <4>1
      <4>5. new.rebin \in 0 .. K /\ new.filling \in Nat
        BY <1>2, <2>1, <4>1 DEF K, q
      <4> HIDE DEF p
      <4> QED
        BY <4>1, <4>2, <4>3, <4>4, <4>5 DEF BinsCount, K, L
    <3> QED
      BY <2>1, <3>1, <3>2 DEF L
  <2>6. ASSUME c # v - 1 PROVE BinsCount(new, o, m, c + 1)
    <3>1. new.filling = filled /\ new.rebin = q
      BY <2>0, <2>3, <2>6 DEF v
    <3>2. c + 1 > 0 /\ filled > 0 /\ filled - (IF c + 1 > 0 THEN 1 ELSE 0) = p
      BY <1>1, <2>1 DEF v
    <3>3. new.rebin \in 0 .. K /\ new.filling \in Nat
      BY <1>2, <2>1, <3>1 DEF K, q
    <3> HIDE DEF p
    <3> QED
      BY <2>2, <3>1, <3>2, <3>3 DEF BinsCount, K, L
  <2> QED
    BY <2>5, <2>6 DEF v, new
<1> QED
  BY <1>2, <1>3, <1>4

\* What slot b holds of the first m samples of its component.
BinPart(o, U, b, m) ==
  LET v == VectorLength[o]
  IN  Block(U[b % v], (b \div v) * length[o], AtMost(m, (b \div v) * length[o] + length[o]))

\* The first m slots.
Firsts(m) == [j \in 1 .. m |-> j - 1]

\* acc after n vectors and c components of the next one, the samples being U:
\* the contents of the bins, and where the next entry goes.
ContentIs(acc, o, U, n, c) ==
  acc.bins = [b \in Slots(o, count[o]) |-> BinPart(o, U, b, Upto(n, b % VectorLength[o], c))]

PlaceAt(q, filled, done, o, n, c) ==
  LET qL == q * length[o]
      qv == q * VectorLength[o]
  IN  /\ q \in 0 .. count[o]
      /\ n < Binned(o) =>
           /\ q < count[o] /\ qL <= n /\ n < qL + length[o]
           /\ filled = (n - qL) + (IF c > 0 THEN 1 ELSE 0)
           /\ done = Firsts(qv + (IF n + 1 = qL + length[o] THEN c ELSE 0))
      /\ n >= Binned(o) => q = count[o] /\ filled = 0 /\ done = Firsts(qv)

PlaceIs(acc, o, n, c) == PlaceAt(acc.rebin, acc.filling, acc.closed, o, n, c)

LEMMA FirstsAppend ==
  ASSUME NEW m \in Nat
  PROVE  Append(Firsts(m), m) = Firsts(m + 1) /\ Firsts(0) = << >>
<1> DEFINE e(j) == j - 1
           s == [j \in 1 .. m |-> e(j)]
           t == [j \in 1 .. m + 1 |-> e(j)]
<1>1. \A j \in Nat \ {0} : e(j) \in Nat
  OBVIOUS
<1>2. e(m + 1) = m /\ m + 1 \in Nat
  OBVIOUS
<1>3. Firsts(m) = s /\ Firsts(m + 1) = t
  BY DEF Firsts
<1> HIDE DEF e
<1>4. ASSUME NEW k \in Nat
      PROVE  [j \in 1 .. k |-> e(j)] \in Seq(Nat) /\ Len([j \in 1 .. k |-> e(j)]) = k
  <2> DEFINE r == [j \in 1 .. k |-> e(j)]
  <2>1. r \in Seq(Nat)
    <3>1. \A j \in 1 .. k : e(j) \in Nat
      BY <1>1
    <3> QED
      BY <3>1, IsASeq
  <2>2. DOMAIN r = 1 .. k
    OBVIOUS
  <2> HIDE DEF r
  <2> DEFINE l == Len(r)
  <2>3. l \in Nat /\ 1 .. l = 1 .. k
    BY <2>1, <2>2, LenProperties
  <2> HIDE DEF l
  <2>4. Cardinality(1 .. l) = l
    BY <2>3, FS_Interval
  <2>5. Cardinality(1 .. k) = k
    BY FS_Interval
  <2>6. l = k
    BY <2>3, <2>4, <2>5
  <2> QED
    BY <2>1, <2>6 DEF l, r
<1>5. t \in Seq(Nat) /\ Len(t) = m + 1 /\ \A j \in 1 .. m + 1 : t[j] = e(j)
  BY <1>2, <1>4
<1>6. s \in Seq(Nat) /\ Len(s) = m /\ \A j \in 1 .. m : s[j] = e(j)
  BY <1>4
<1> HIDE DEF s, t
<1>7. /\ Append(s, m) \in Seq(Nat) /\ Len(Append(s, m)) = m + 1
      /\ \A j \in 1 .. m + 1 : Append(s, m)[j] = e(j)
  <2>1. /\ Append(s, m) \in Seq(Nat) /\ Len(Append(s, m)) = m + 1
        /\ \A j \in 1 .. m : Append(s, m)[j] = s[j]
        /\ Append(s, m)[m + 1] = m
    BY <1>6, AppendProperties
  <2> QED
    BY <1>2, <1>6, <2>1
<1>8. Append(s, m) = t
  BY <1>5, <1>7, SeqEqual
<1>9. Firsts(0) = << >>
  <2>1. 1 .. 0 = {}
    OBVIOUS
  <2>2. Firsts(0) = [j \in {} |-> j - 1]
    BY <2>1 DEF Firsts
  <2> QED
    BY <2>2, EmptySeq, SeqEqual
<1> QED
  BY <1>3, <1>8, <1>9

LEMMA ContentTurn ==
  ASSUME NEW o \in Obs, count[o] \in Nat, length[o] \in Nat,
         NEW n \in Nat, NEW c \in Components(o),
         NEW U \in [Components(o) -> [Nat -> Named]],
         NEW i, Component(o, i) = c, <<at, i>> = U[c][n + 1],
         NEW acc, ContentIs(acc, o, U, n, c), PlaceIs(acc, o, n, c)
  PROVE  AddToBin(o, acc, i).bins = [b \in Slots(o, count[o]) |->
           BinPart(o, U, b, IF b % VectorLength[o] = c THEN n + 1
                            ELSE Upto(n, b % VectorLength[o], c))]
<1> DEFINE v == VectorLength[o]
           K == count[o]
           L == length[o]
           q == acc.rebin
           z == Slots(o, K)
           slot == q * v + c
           S(b) == BinPart(o, U, b, Upto(n, b % v, c))
           T(b) == BinPart(o, U, b, IF b % v = c THEN n + 1 ELSE Upto(n, b % v, c))
<1>1. v \in Nat \ {0} /\ c \in 0 .. v - 1 /\ Components(o) = 0 .. v - 1
  BY MergerAssumption DEF Components
<1>2. acc.bins = [b \in z |-> S(b)] /\ q \in 0 .. K
  BY DEF ContentIs, PlaceIs, PlaceAt
<1>3. ASSUME NEW b \in z
      PROVE  \E k \in 0 .. K - 1, d \in Components(o) :
               b \div v = k /\ b % v = d /\ b = k * v + d
  <2>1. b \in Nat /\ b < K * v
    <3>1. K * v \in Nat
      BY <1>1, Products
    <3> QED
      BY <3>1 DEF Slots
  <2>2. PICK k \in Nat, d \in 0 .. v - 1 : b \div v = k /\ b % v = d /\ b = k * v + d
    BY <1>1, <2>1, PlaceExists
  <2>3. k + 1 \in 1 .. K
    BY <1>1, <2>1, <2>2, RowWithin
  <2>4. k \in 0 .. K - 1
    BY <2>3
  <2> QED
    BY <1>1, <2>2, <2>4, Zenon
<1>4. ASSUME NEW b \in z, b % v # c PROVE S(b) = T(b)
  BY <1>4
\* What is below or above the bin that is being filled does not change.
<1>5. ASSUME NEW b \in z, NEW k \in Nat, b \div v = k, b % v = c,
             k * L + L <= n \/ n + 1 <= k * L
      PROVE  S(b) = T(b)
  <2> DEFINE u == U[c]
             lo == k * L
  <2>1. lo \in Nat /\ u \in [Nat -> Named]
    BY Products
  <2>2. S(b) = Block(u, lo, AtMost(n, lo + L)) /\ T(b) = Block(u, lo, AtMost(n + 1, lo + L))
    <3>1. Upto(n, b % v, c) = n
      BY <1>5, UptoNext
    <3> QED
      BY <1>5, <3>1 DEF BinPart
  <2>3. lo + L <= n \/ n + 1 <= lo
    BY <1>5
  <2> HIDE DEF S, T, lo, u
  <2>4. CASE lo + L <= n
    <3>1. AtMost(n, lo + L) = AtMost(n + 1, lo + L)
      BY <2>1, <2>4 DEF AtMost
    <3> QED
      BY <2>2, <3>1
  <2>5. CASE n + 1 <= lo
    <3>1. /\ AtMost(n, lo + L) \in Int /\ AtMost(n, lo + L) <= lo
          /\ AtMost(n + 1, lo + L) \in Int /\ AtMost(n + 1, lo + L) <= lo
      BY <2>1, <2>5 DEF AtMost
    <3>2. Block(u, lo, AtMost(n, lo + L)) = << >>
      BY <2>1, <3>1, BlockShape
    <3>3. Block(u, lo, AtMost(n + 1, lo + L)) = << >>
      BY <2>1, <3>1, BlockShape
    <3> QED
      BY <2>2, <3>2, <3>3
  <2> QED
    BY <2>3, <2>4, <2>5
<1>6. CASE n >= Binned(o)
  <2>1. q = K
    BY <1>6 DEF PlaceIs, PlaceAt
  <2>2. AddToBin(o, acc, i) = acc
    BY <2>1 DEF AddToBin
  <2>3. ASSUME NEW b \in z PROVE S(b) = T(b)
    <3>1. PICK k \in 0 .. K - 1, d \in Components(o) : b \div v = k /\ b % v = d
      BY <1>3
    <3>2. k * L + L <= n
      <4>1. k \in Nat /\ k + 1 \in Nat /\ k + 1 <= K
        BY <3>1
      <4>2. (k + 1) * L <= K * L /\ (k + 1) * L = k * L + L /\ k * L \in Nat /\ K * L \in Nat
        BY <4>1, Products
      <4>3. K * L <= n
        BY <1>6, <4>2 DEF Binned
      <4> QED
        BY <4>2, <4>3
    <3>3. k \in Nat
      OBVIOUS
    <3> QED
      BY <1>4, <1>5, <3>1, <3>2, <3>3
  <2> HIDE DEF S, T
  <2>4. acc.bins = [b \in z |-> T(b)]
    BY <1>2, <2>3
  <2> QED
    BY <2>2, <2>4 DEF T
<1>7. CASE n < Binned(o)
  <2>1. q \in Nat /\ q < K /\ q * L \in Nat /\ q * L <= n /\ n < q * L + L
    <3>1. q \in Nat
      BY <1>2
    <3> QED
      BY <1>7, <3>1, Products DEF PlaceIs, PlaceAt
  <2>2. AddToBin(o, acc, i).bins = [acc.bins EXCEPT ![slot] = Append(acc.bins[slot], <<at, i>>)]
    BY <2>1 DEF AddToBin
  <2>3. slot \in z /\ slot % v = c /\ slot \div v = q
    <3>1. q \in 0 .. K - 1
      BY <2>1
    <3>2. slot \in z
      BY <3>1, SlotThere
    <3>3. slot % v = c /\ slot \div v = q
      BY <1>1, <2>1, PlaceRest
    <3> QED
      BY <3>2, <3>3
  <2> HIDE DEF slot
  <2>4. Append(S(slot), <<at, i>>) = T(slot)
    <3> DEFINE u == U[c]
               lo == q * L
    <3>1. lo \in Nat /\ u \in [Nat -> Named] /\ lo <= n /\ n < lo + L
      BY <2>1
    <3>2. S(slot) = Block(u, lo, AtMost(n, lo + L)) /\ T(slot) = Block(u, lo, AtMost(n + 1, lo + L))
      <4>1. Upto(n, c, c) = n
        BY UptoNext
      <4> QED
        BY <2>3, <4>1 DEF BinPart
    <3>3. <<at, i>> = u[n + 1]
      OBVIOUS
    <3> HIDE DEF S, T, lo, u
    <3>4. AtMost(n, lo + L) = n /\ AtMost(n + 1, lo + L) = n + 1
      BY <3>1 DEF AtMost
    <3>5. Append(Block(u, lo, n), u[n + 1]) = Block(u, lo, n + 1)
      <4>1. n \in Int /\ lo \in Nat /\ u \in [Nat -> Named] /\ lo <= n
        BY <3>1
      <4> QED
        BY <4>1, BlockShape
    <3> QED
      BY <3>2, <3>3, <3>4, <3>5
  <2>5. ASSUME NEW b \in z, b # slot PROVE S(b) = T(b)
    <3>1. PICK k \in 0 .. K - 1, d \in Components(o) : b \div v = k /\ b % v = d /\ b = k * v + d
      BY <1>3
    <3>2. CASE d # c
      BY <1>4, <3>1, <3>2
    <3>3. CASE d = c
      <4>1. k # q
        BY <2>5, <3>1, <3>3 DEF slot
      <4>0. k \in Nat
        OBVIOUS
      <4>2. k * L \in Nat
        BY <4>0, Products
      <4>3. CASE k < q
        <5>1. (k + 1) * L <= q * L /\ (k + 1) * L = k * L + L
          <6>1. k + 1 \in Nat /\ k + 1 <= q
            BY <2>1, <4>0, <4>2, <4>3
          <6> QED
            BY <2>1, <4>0, <4>2, <6>1, Products
        <5>2. k * L + L <= n
          BY <2>1, <4>2, <5>1
        <5> QED
          BY <1>5, <3>1, <3>3, <4>0, <4>2, <5>2
      <4>4. CASE k > q
        <5>1. (q + 1) * L <= k * L /\ (q + 1) * L = q * L + L
          <6>1. q + 1 \in Nat /\ q + 1 <= k
            BY <2>1, <4>0, <4>2, <4>4
          <6> QED
            BY <2>1, <4>0, <4>2, <6>1, Products
        <5>2. n + 1 <= k * L
          BY <2>1, <4>2, <5>1
        <5> QED
          BY <1>5, <3>1, <3>3, <4>0, <4>2, <5>2
      <4> QED
        BY <2>1, <4>0, <4>1, <4>3, <4>4
    <3> QED
      BY <3>2, <3>3
  <2> HIDE DEF S, T
  <2>6. [acc.bins EXCEPT ![slot] = Append(acc.bins[slot], <<at, i>>)] = [b \in z |-> T(b)]
    BY <1>2, <2>3, <2>4, <2>5
  <2> QED
    BY <2>2, <2>6 DEF T
<1> QED
  <2>1. Binned(o) \in Nat
    BY Products DEF Binned
  <2> QED
    BY <1>6, <1>7, <2>1

LEMMA PlaceTurn ==
  ASSUME NEW o \in Obs, count[o] \in Nat, length[o] \in Nat,
         count[o] > 0 => length[o] > 0,
         NEW n \in Nat, NEW c \in Components(o),
         NEW i, Component(o, i) = c, IsLast(o, i) <=> c = VectorLength[o] - 1,
         NEW acc, PlaceIs(acc, o, n, c)
  PROVE  /\ c = VectorLength[o] - 1 => PlaceIs(AddToBin(o, acc, i), o, n + 1, 0)
         /\ c # VectorLength[o] - 1 => PlaceIs(AddToBin(o, acc, i), o, n, c + 1)
<1> DEFINE v == VectorLength[o]
           K == count[o]
           L == length[o]
           B == Binned(o)
           q == acc.rebin
           qL == q * L
           qv == q * v
           new == AddToBin(o, acc, i)
<1>1. v \in Nat \ {0} /\ c \in 0 .. v - 1
  BY MergerAssumption DEF Components
<1>2. q \in 0 .. K /\ q \in Nat
  BY DEF PlaceIs, PlaceAt
<1>3. B = K * L /\ B \in Nat /\ qL \in Nat /\ qv \in Nat
      /\ (q + 1) * L = qL + L /\ (q + 1) * v = qv + v
  BY <1>1, <1>2, Products DEF Binned
<1>4. CASE n >= B
  <2>1. q = K /\ acc.filling = 0 /\ acc.closed = Firsts(qv)
    BY <1>4 DEF PlaceIs, PlaceAt
  <2>2. new = acc
    BY <2>1 DEF AddToBin
  <2>3. n + 1 >= B /\ ~(n < B) /\ ~(n + 1 < B)
    BY <1>3, <1>4
  <2> QED
    BY <1>2, <1>4, <2>1, <2>2, <2>3 DEF PlaceIs, PlaceAt
<1>5. CASE n < B
  <2> DEFINE filled == Filled(acc.filling, c)
             full == n + 1 = qL + L
  <2>1. /\ q < K /\ qL <= n /\ n < qL + L
        /\ acc.filling = (n - qL) + (IF c > 0 THEN 1 ELSE 0)
        /\ acc.closed = Firsts(qv + (IF full THEN c ELSE 0))
    BY <1>5 DEF PlaceIs, PlaceAt
  <2>2. filled = (n + 1) - qL /\ (filled >= L <=> full) /\ L > 0
    <3> HIDE DEF qL
    <3>1. filled = (n + 1) - qL
      BY <1>1, <1>3, <2>1 DEF Filled
    <3> HIDE DEF filled
    <3> QED
      BY <1>2, <1>3, <2>1, <3>1
  <2>3. /\ new.closed = IF full THEN Append(acc.closed, qv + c) ELSE acc.closed
        /\ new.filling = IF full /\ c = v - 1 THEN 0 ELSE filled
        /\ new.rebin = q + IF full /\ c = v - 1 THEN 1 ELSE 0
    <3>1. /\ new.closed = IF filled >= L THEN Append(acc.closed, qv + c) ELSE acc.closed
          /\ new.filling = IF filled >= L /\ IsLast(o, i) THEN 0 ELSE filled
          /\ new.rebin = q + IF filled >= L /\ IsLast(o, i) THEN 1 ELSE 0
      BY <1>2, <2>1 DEF AddToBin
    <3> HIDE DEF new, filled, full, qL, qv, q
    <3> QED
      BY <2>2, <3>1
  <2>4. new.closed = IF full THEN Firsts((qv + c) + 1) ELSE Firsts(qv)
    <3>1. CASE full
      <4>1. acc.closed = Firsts(qv + c) /\ qv + c \in Nat
        BY <1>1, <1>3, <2>1, <3>1
      <4>2. new.closed = Append(acc.closed, qv + c)
        BY <2>3, <3>1
      <4> HIDE DEF qv, new, full, qL
      <4>3. Append(Firsts(qv + c), qv + c) = Firsts((qv + c) + 1)
        BY <4>1, FirstsAppend
      <4> QED
        BY <3>1, <4>1, <4>2, <4>3
    <3>2. CASE ~full
      <4>1. qv + 0 = qv
        BY <1>3
      <4> QED
        BY <2>1, <2>3, <3>2, <4>1
    <3> QED
      BY <3>1, <3>2
  <2> HIDE DEF new, filled
  <2>5. ASSUME c # v - 1 PROVE PlaceIs(new, o, n, c + 1)
    <3>1. new.rebin = q /\ new.filling = filled
      BY <1>2, <2>3, <2>5
    <3>2. new.filling = (n - qL) + (IF c + 1 > 0 THEN 1 ELSE 0)
      BY <1>1, <1>3, <2>2, <3>1
    <3>3. new.closed = Firsts(qv + (IF full THEN c + 1 ELSE 0))
      <4>1. qv + 0 = qv /\ (qv + c) + 1 = qv + (c + 1)
        BY <1>1, <1>3
      <4> QED
        BY <2>4, <4>1
    <3> QED
      BY <1>2, <1>5, <2>1, <3>1, <3>2, <3>3 DEF PlaceIs, PlaceAt
  <2>6. ASSUME c = v - 1 PROVE PlaceIs(new, o, n + 1, 0)
    <3>1. CASE ~full
      <4>1. new.rebin = q /\ new.filling = filled
        BY <1>2, <2>3, <2>6, <3>1
      <4>2. qL <= n + 1 /\ n + 1 < qL + L
        <5>1. qL \in Nat /\ n < qL + L /\ qL <= n /\ n + 1 # qL + L
          BY <1>3, <2>1, <3>1
        <5> HIDE DEF qL
        <5> QED
          BY <5>1
      <4>3. n + 1 < B
        <5>1. q + 1 \in Nat /\ q + 1 <= K
          BY <1>2, <2>1
        <5>2. (q + 1) * L <= K * L
          BY <5>1, Products
        <5> HIDE DEF qL
        <5> QED
          BY <1>3, <4>2, <5>2
      <4>4. new.filling = ((n + 1) - qL) + (IF 0 > 0 THEN 1 ELSE 0)
        BY <1>3, <2>2, <4>1
      <4>5. new.closed = Firsts(qv + (IF (n + 1) + 1 = qL + L THEN 0 ELSE 0))
        <5>1. qv + 0 = qv
          BY <1>3
        <5> QED
          BY <2>4, <3>1, <5>1
      <4>6. q \in 0 .. K /\ q < K /\ ~(n + 1 >= B)
        BY <1>2, <1>3, <2>1, <4>3
      <4>7. PlaceAt(q, new.filling, new.closed, o, n + 1, 0)
        BY <4>2, <4>3, <4>4, <4>5, <4>6 DEF PlaceAt
      <4> QED
        BY <4>1, <4>7 DEF PlaceIs, PlaceAt
    <3>2. CASE full
      <4>1. new.rebin = q + 1 /\ new.filling = 0
        BY <1>2, <2>3, <2>6, <3>2
      <4>2. n + 1 = (q + 1) * L
        BY <1>3, <3>2
      <4>3. new.closed = Firsts((q + 1) * v)
        <5>1. (qv + c) + 1 = (q + 1) * v
          BY <1>1, <1>3, <2>6
        <5> QED
          BY <2>4, <3>2, <5>1
      <4>4. CASE q + 1 = K
        <5>1. n + 1 = B
          BY <1>3, <4>2, <4>4
        <5>2. ~(n + 1 < B)
          BY <1>3, <5>1
        <5>3. new.rebin \in 0 .. K
          BY <1>2, <4>1, <4>4
        <5> QED
          BY <4>1, <4>3, <4>4, <5>2, <5>3 DEF PlaceIs, PlaceAt
      <4>5. CASE q + 1 # K
        <5>1. q + 1 \in Nat /\ q + 1 < K /\ (q + 1) + 1 \in Nat /\ (q + 1) + 1 <= K
          <6>1. q \in Nat /\ q < K /\ q + 1 # K
            BY <1>2, <2>1, <4>5
          <6> HIDE DEF q, K
          <6> QED
            BY <6>1 DEF K
        <5>2. ((q + 1) + 1) * L <= K * L /\ ((q + 1) + 1) * L = (q + 1) * L + L
              /\ (q + 1) * L \in Nat /\ (q + 1) * v \in Nat
          BY <1>1, <5>1, Products
        <5>3. n + 1 < B /\ n + 1 < (q + 1) * L + L
          BY <1>3, <2>2, <4>2, <5>2
        <5>4. new.filling = ((n + 1) - (q + 1) * L) + (IF 0 > 0 THEN 1 ELSE 0)
          BY <4>1, <4>2, <5>2
        <5>5. new.closed = Firsts((q + 1) * v +
                (IF (n + 1) + 1 = (q + 1) * L + L THEN 0 ELSE 0))
          <6>1. (q + 1) * v + 0 = (q + 1) * v
            BY <5>2
          <6> QED
            BY <4>3, <6>1
        <5>6. new.rebin \in 0 .. K /\ (q + 1) * L <= n + 1
          BY <1>2, <4>1, <4>2, <5>1, <5>2
        <5>7. PlaceAt(q + 1, new.filling, new.closed, o, n + 1, 0)
          <6>1. ~(n + 1 >= B) /\ q + 1 \in 0 .. K /\ q + 1 < K
            BY <1>3, <4>1, <5>1, <5>3, <5>6
          <6> QED
            BY <5>3, <5>4, <5>5, <5>6, <6>1 DEF PlaceAt
        <5> QED
          BY <4>1, <5>7 DEF PlaceIs, PlaceAt
      <4> QED
        BY <4>4, <4>5
    <3> QED
      BY <3>1, <3>2
  <2> QED
    BY <2>5, <2>6 DEF new
<1> QED
  BY <1>3, <1>4, <1>5

LEMMA BinTurn ==
  ASSUME NEW o \in Obs, count[o] \in Nat, length[o] \in Nat,
         count[o] > 0 => length[o] > 0,
         NEW n \in Nat, NEW c \in Components(o),
         NEW U \in [Components(o) -> [Nat -> Named]],
         NEW i, Component(o, i) = c, <<at, i>> = U[c][n + 1],
         IsLast(o, i) <=> c = VectorLength[o] - 1,
         NEW acc, ContentIs(acc, o, U, n, c), PlaceIs(acc, o, n, c)
  PROVE  /\ c = VectorLength[o] - 1 =>
              /\ ContentIs(AddToBin(o, acc, i), o, U, n + 1, 0)
              /\ PlaceIs(AddToBin(o, acc, i), o, n + 1, 0)
         /\ c # VectorLength[o] - 1 =>
              /\ ContentIs(AddToBin(o, acc, i), o, U, n, c + 1)
              /\ PlaceIs(AddToBin(o, acc, i), o, n, c + 1)
<1> DEFINE v == VectorLength[o]
           new == AddToBin(o, acc, i)
           z == Slots(o, count[o])
           T(b) == BinPart(o, U, b, IF b % v = c THEN n + 1 ELSE Upto(n, b % v, c))
<1>1. new.bins = [b \in z |-> T(b)]
  BY ContentTurn
<1>2. \A b \in z : b % v \in Components(o)
  <2>1. v \in Nat \ {0} /\ Components(o) = 0 .. v - 1
    BY MergerAssumption DEF Components
  <2>2. \A b \in z : b \in Nat
    BY DEF Slots
  <2>3. ASSUME NEW b \in z PROVE b % v \in 0 .. v - 1
    <3>1. b \in Nat
      BY <2>2
    <3> QED
      BY <2>1, <3>1, PlaceExists
  <2> QED
    BY <2>1, <2>3
<1>3. /\ c = v - 1 => PlaceIs(new, o, n + 1, 0)
      /\ c # v - 1 => PlaceIs(new, o, n, c + 1)
  BY PlaceTurn
<1>4. ASSUME c = v - 1 PROVE ContentIs(new, o, U, n + 1, 0)
  <2> DEFINE S(b) == BinPart(o, U, b, Upto(n + 1, b % v, 0))
  <2>1. ASSUME NEW d \in Components(o)
        PROVE  Upto(n + 1, d, 0) = IF d = c THEN n + 1 ELSE Upto(n, d, c)
    BY <1>4, UptoNext
  <2>2. \A b \in z : T(b) = S(b)
    BY <1>2, <2>1
  <2> HIDE DEF T, S, new
  <2>3. new.bins = [b \in z |-> S(b)]
    BY <1>1, <2>2
  <2> QED
    BY <2>3 DEF ContentIs, S
<1>5. ASSUME c # v - 1 PROVE ContentIs(new, o, U, n, c + 1)
  <2> DEFINE S(b) == BinPart(o, U, b, Upto(n, b % v, c + 1))
  <2>1. ASSUME NEW d \in Components(o)
        PROVE  Upto(n, d, c + 1) = IF d = c THEN n + 1 ELSE Upto(n, d, c)
    BY <1>5, UptoNext
  <2>2. \A b \in z : T(b) = S(b)
    BY <1>2, <2>1
  <2> HIDE DEF T, S, new
  <2>3. new.bins = [b \in z |-> S(b)]
    BY <1>1, <2>2
  <2> QED
    BY <2>3 DEF ContentIs, S
<1> QED
  BY <1>3, <1>4, <1>5

BinsBase(o) == [bins |-> bins[o], closed |-> closed[o],
                filling |-> filling[o], rebin |-> rebin[o]]

\* The bins of an observable hold entries of files before the open one, each of
\* them in one.
BinsBefore(b, o, f) ==
  /\ b \in [Slots(o, count[o]) -> Seq(Named)]
  /\ \A x \in Slots(o, count[o]) : \A e \in ToSet(b[x]) : e[1] < f
  /\ \A x, y \in Slots(o, count[o]) : x # y => ToSet(b[x]) \cap ToSet(b[y]) = {}

\* Any file, damaged or not, fills the bins with as many vectors as it has, and
\* every entry goes into one bin.
LEMMA BinsGoOn ==
  ASSUME FilesTyped, at \in Files, NEW o \in Obs,
         count[o] \in Nat, length[o] \in Nat, count[o] > 0 => length[o] > 0,
         NEW m \in Nat, BinsCount(BinsBase(o), o, m, 0), BinsBefore(bins[o], o, at)
  PROVE  /\ BinsCount(BinsOf(o), o, m + Share(at, o), 0)
         /\ BinsBefore(BinsOf(o).bins, o, at + 1)
<1> DEFINE v == VectorLength[o]
           base == BinsBase(o)
           z == Slots(o, count[o])
<1>0. /\ Share(at, o) \in Nat /\ v \in Nat \ {0} /\ skip \in Nat /\ at \in Nat
      /\ 0 \in Components(o) /\ Components(o) = 0 .. v - 1
  BY ShareIsNat, MergerAssumption DEF FilesTyped, Components, Files
<1>1. CASE ~Has(at, o)
  <2>1. Share(at, o) = 0
    BY <1>1 DEF Share, AtMost, FilesTyped
  <2>2. BinsOf(o) = base /\ m + Share(at, o) = m
    BY <1>1, <2>1 DEF BinsOf, BinsBase
  <2>3. BinsOf(o).bins = bins[o]
    BY <2>2 DEF BinsBase
  <2>4. \A x \in z : \A e \in ToSet(bins[o][x]) : e[1] < at + 1
    <3>1. ASSUME NEW x \in z, NEW e \in ToSet(bins[o][x]) PROVE e[1] < at + 1
      <4>1. bins[o][x] \in Seq(Named)
        BY DEF BinsBefore
      <4>2. e \in Named
        BY <4>1, LenProperties, ElementOfSeq DEF ToSet
      <4>3. e[1] < at /\ e[1] \in Nat
        BY <4>2 DEF BinsBefore, Named, Files
      <4> QED
        BY <1>0, <4>3
    <3> QED
      BY <3>1
  <2> QED
    BY <2>2, <2>3, <2>4 DEF BinsBefore
<1>2. CASE Has(at, o)
  <2>1. PICK g : TurnsOf(g, "bins", o, base, Entries(o)) /\ BinsOf(o) = g[Looked(at, o)]
    BY <1>2, BinsOfTurns DEF BinsBase
  <2>2. /\ g[0 * v + 0] = base
        /\ \A w \in Nat, c \in Components(o) : w * v + c < Looked(at, o) =>
             g[(w * v + c) + 1] =
               Turn("bins", o, g[w * v + c], (skip + w) * v + c)
    BY <1>2, <2>1, RowTurns
  <2>3. Looked(at, o) \in Nat
    BY <1>2, EntriesShape
  <2> DEFINE Fine(w, c) ==
               /\ BinsCount(g[w * v + c], o, m + w, c)
               /\ BinsApart(g[w * v + c].bins, o, (skip + w) * v + c)
             G == {p \in Nat \X Components(o) : Fine(p[1], p[2])}
  <2>4. <<0, 0>> \in G
    <3>1. BinsApart(bins[o], o, (skip + 0) * v + 0)
      BY DEF BinsApart, BinsBefore, ReadBefore
    <3>2. base.bins = bins[o] /\ m + 0 = m
      BY DEF BinsBase
    <3>3. Fine(0, 0)
      BY <2>2, <3>1, <3>2
    <3> HIDE DEF Fine
    <3> QED
      BY <1>0, <3>3
  <2>5. ASSUME NEW w \in Nat, NEW c \in Components(o),
               w * v + c < Looked(at, o), <<w, c>> \in G
        PROVE  /\ c = v - 1 => <<w + 1, 0>> \in G
               /\ c # v - 1 => <<w, c + 1>> \in G
    <3> DEFINE i == (skip + w) * v + c
               old == g[w * v + c]
    <3>1. i \in Nat /\ Component(o, i) = c /\ (IsLast(o, i) <=> c = v - 1)
      BY <1>2, <2>5, EntryAt
    <3>2. g[(w * v + c) + 1] = AddToBin(o, old, i)
      BY <2>2, <2>5 DEF Turn
    <3>3. Fine(w, c)
      BY <2>5
    <3>4. BinsCount(old, o, m + w, c) /\ BinsApart(old.bins, o, i) /\ m + w \in Nat
      BY <3>3
    <3> HIDE DEF i, old, Fine
    <3>5. /\ c = v - 1 => BinsCount(AddToBin(o, old, i), o, (m + w) + 1, 0)
          /\ c # v - 1 => BinsCount(AddToBin(o, old, i), o, m + w, c + 1)
      BY <3>1, <3>4, CountTurn
    <3>6. BinsApart(AddToBin(o, old, i).bins, o, i + 1)
      <4>1. old.rebin \in 0 .. count[o]
        BY <3>4 DEF BinsCount
      <4> QED
        BY <3>1, <3>4, <4>1, ApartTurn
    <3>7. ASSUME c = v - 1 PROVE <<w + 1, 0>> \in G
      <4>1. (w + 1) * v + 0 = (w * v + c) + 1 /\ 0 \in Components(o) /\ w + 1 \in Nat
        BY <3>7, NextPlace
      <4>2. (m + w) + 1 = m + (w + 1)
        OBVIOUS
      <4>3. (skip + (w + 1)) * v + 0 = i + 1
        <5>1. skip + w \in Nat /\ skip + (w + 1) = (skip + w) + 1
          BY <1>0
        <5>2. ((skip + w) + 1) * v + 0 = ((skip + w) * v + c) + 1
          BY <3>7, <5>1, NextPlace
        <5> QED
          BY <5>1, <5>2 DEF i
      <4>4. Fine(w + 1, 0)
        BY <3>2, <3>5, <3>6, <3>7, <4>1, <4>2, <4>3 DEF Fine
      <4> QED
        BY <4>1, <4>4
    <3>8. ASSUME c # v - 1 PROVE <<w, c + 1>> \in G
      <4>1. w * v + (c + 1) = (w * v + c) + 1 /\ c + 1 \in Components(o)
        BY <3>8, NextPlace
      <4>2. (skip + w) * v + (c + 1) = i + 1
        <5>1. skip + w \in Nat
          BY <1>0
        <5> QED
          BY <3>8, <5>1, NextPlace DEF i
      <4>3. Fine(w, c + 1)
        BY <3>2, <3>5, <3>6, <3>8, <4>1, <4>2 DEF Fine
      <4> QED
        BY <4>1, <4>3
    <3> QED
      BY <3>7, <3>8
  <2>6. \A w \in Nat, c \in Components(o) : w * v + c <= Looked(at, o) => <<w, c>> \in G
    <3> HIDE DEF G
    <3> QED
      BY <2>3, <2>4, <2>5, RowHolds
  <2>7. PICK c \in Components(o) : Looked(at, o) = Share(at, o) * v + c
    BY <1>2, LookedShape
  <2>8. Fine(Share(at, o), c)
    <3>1. <<Share(at, o), c>> \in G
      <4> HIDE DEF G
      <4> QED
        BY <1>0, <2>3, <2>6, <2>7
    <3> HIDE DEF Fine
    <3> QED
      BY <3>1
  <2> DEFINE acc == BinsOf(o)
             n == m + Share(at, o)
  <2>9. BinsCount(acc, o, n, c) /\ BinsApart(acc.bins, o, (skip + Share(at, o)) * v + c)
    BY <2>1, <2>7, <2>8
  <2> HIDE DEF Fine, acc
  <2>10. BinsCount(acc, o, n, 0)
    <3> DEFINE L == length[o]
               rL == acc.rebin * L
    <3>1. acc.rebin \in 0 .. count[o] /\ acc.filling \in Nat /\ c \in Nat /\ n \in Nat
      BY <1>0, <2>9 DEF BinsCount
    <3>2. rL \in Nat
      <4>1. acc.rebin \in Nat
        BY <3>1
      <4> QED
        BY <4>1, Products
    <3>3. acc.rebin < count[o] => n <= rL + AtMost(acc.filling - 0, L - 1)
      <4>1. SUFFICES ASSUME acc.rebin < count[o]
                     PROVE  n <= rL + AtMost(acc.filling - 0, L - 1)
        OBVIOUS
      <4>2. n <= rL + AtMost(acc.filling - (IF c > 0 THEN 1 ELSE 0), L - 1)
        BY <2>9, <4>1 DEF BinsCount
      <4> HIDE DEF rL, L, n
      <4> QED
        BY <3>1, <3>2, <4>2 DEF AtMost, L
    <3> QED
      BY <3>1, <3>3 DEF BinsCount
  <2>11. BinsBefore(acc.bins, o, at + 1)
    <3>1. ASSUME NEW x \in z, NEW e \in ToSet(acc.bins[x]) PROVE e[1] < at + 1
      <4>1. acc.bins[x] \in Seq(Named)
        BY <2>9 DEF BinsApart
      <4>2. e \in Named
        BY <4>1, LenProperties, ElementOfSeq DEF ToSet
      <4>3. (e[1] < at \/ e[1] = at) /\ e[1] \in Nat
        BY <2>9, <4>2 DEF BinsApart, ReadBefore, Named, Files
      <4> QED
        BY <1>0, <4>3
    <3> QED
      BY <2>9, <3>1 DEF BinsApart, BinsBefore
  <2> QED
    BY <2>10, <2>11 DEF acc
<1> QED
  BY <1>1, <1>2

\* The third pass goes on with the samples of an undamaged file.
LEMMA BinsTake ==
  ASSUME FilesTyped, at \in Files, NEW o \in Obs,
         count[o] \in Nat, length[o] \in Nat, count[o] > 0 => length[o] > 0,
         Intact(files[at][o], o), NEW n \in Nat,
         NEW U \in [Components(o) -> [Nat -> Named]], Continued(o, U, n),
         ContentIs(BinsBase(o), o, U, n, 0), PlaceIs(BinsBase(o), o, n, 0)
  PROVE  /\ ContentIs(BinsOf(o), o, U, n + Share(at, o), 0)
         /\ PlaceIs(BinsOf(o), o, n + Share(at, o), 0)
<1> DEFINE base == BinsBase(o)
           Fits(acc, m, c) == ContentIs(acc, o, U, m, c) /\ PlaceIs(acc, o, m, c)
<1>0. Share(at, o) \in Nat
  BY ShareIsNat
<1>1. CASE ~Has(at, o)
  <2>1. Share(at, o) = 0
    BY <1>1 DEF Share, AtMost, FilesTyped
  <2>2. BinsOf(o) = base /\ n + Share(at, o) = n
    BY <1>1, <2>1 DEF BinsOf, BinsBase
  <2> QED
    BY <2>2
<1>2. CASE Has(at, o)
  <2> DEFINE v == VectorLength[o]
  <2>1. Looked(at, o) \in Nat /\ Looked(at, o) = Share(at, o) * v
    <3>1. PICK c \in Components(o) : Looked(at, o) = Share(at, o) * v + c /\ c = 0
      BY <1>2, LookedShape
    <3>2. v \in Nat
      BY MergerAssumption
    <3>3. Share(at, o) * v \in Nat
      BY <1>0, <3>2, Products
    <3> QED
      BY <3>1, <3>3
  <2>2. PICK g : TurnsOf(g, "bins", o, base, Entries(o)) /\ BinsOf(o) = g[Looked(at, o)]
    BY <1>2, BinsOfTurns DEF BinsBase
  <2> DEFINE G == {p \in Nat \X Components(o) : Fits(g[p[1] * v + p[2]], n + p[1], p[2])}
  <2>3. /\ g[0 * v + 0] = base
        /\ \A w \in Nat, c \in Components(o) : w * v + c < Looked(at, o) =>
             g[(w * v + c) + 1] =
               Turn("bins", o, g[w * v + c], (skip + w) * v + c)
    BY <1>2, <2>2, RowTurns
  <2>4. 0 \in Components(o)
    BY MergerAssumption DEF Components
  <2>5. <<0, 0>> \in G
    <3>1. n + 0 = n /\ Fits(base, n, 0)
      OBVIOUS
    <3> HIDE DEF Fits, base
    <3>2. Fits(g[0 * v + 0], n + 0, 0)
      BY <2>3, <3>1
    <3> QED
      BY <2>4, <3>2
  <2>6. ASSUME NEW w \in Nat, NEW c \in Components(o),
               w * v + c < Looked(at, o), <<w, c>> \in G
        PROVE  /\ c = v - 1 => <<w + 1, 0>> \in G
               /\ c # v - 1 => <<w, c + 1>> \in G
    <3> DEFINE i == (skip + w) * v + c
               old == g[w * v + c]
    <3>1. /\ IsLast(o, i) <=> c = v - 1
          /\ Component(o, i) = c
          /\ Sample(at, o, w + 1, c) = <<at, i>>
      BY <1>2, <2>6, EntryAt
    <3>2. g[(w * v + c) + 1] = AddToBin(o, old, i)
      BY <2>3, <2>6 DEF Turn
    <3>3. Fits(old, n + w, c) /\ n + w \in Nat
      <4> HIDE DEF Fits
      <4> QED
        BY <2>6
    <3>4. w + 1 \in 1 .. Share(at, o)
      BY <1>0, <2>1, <2>6, RowWithin
    <3>5. <<at, i>> = U[c][(n + w) + 1]
      <4>1. n + (w + 1) = (n + w) + 1
        OBVIOUS
      <4>2. U[c][n + (w + 1)] = Sample(at, o, w + 1, c)
        BY <3>4 DEF Continued
      <4> QED
        BY <3>1, <4>1, <4>2
    <3> HIDE DEF i, old
    <3>6. /\ c = v - 1 => Fits(AddToBin(o, old, i), (n + w) + 1, 0)
          /\ c # v - 1 => Fits(AddToBin(o, old, i), n + w, c + 1)
      BY <3>1, <3>3, <3>5, BinTurn
    <3> HIDE DEF Fits
    <3>7. ASSUME c = v - 1 PROVE <<w + 1, 0>> \in G
      <4>1. (w + 1) * v + 0 = (w * v + c) + 1 /\ 0 \in Components(o) /\ w + 1 \in Nat
        BY <3>7, NextPlace
      <4>2. (n + w) + 1 = n + (w + 1)
        OBVIOUS
      <4>3. Fits(g[(w + 1) * v + 0], n + (w + 1), 0)
        BY <3>2, <3>6, <3>7, <4>1, <4>2
      <4> QED
        BY <4>1, <4>3
    <3>8. ASSUME c # v - 1 PROVE <<w, c + 1>> \in G
      <4>1. w * v + (c + 1) = (w * v + c) + 1 /\ c + 1 \in Components(o)
        BY <3>8, NextPlace
      <4>2. Fits(g[w * v + (c + 1)], n + w, c + 1)
        BY <3>2, <3>6, <3>8, <4>1
      <4> QED
        BY <4>1, <4>2
    <3> QED
      BY <3>7, <3>8
  <2>7. \A w \in Nat, c \in Components(o) : w * v + c <= Looked(at, o) => <<w, c>> \in G
    <3> HIDE DEF G
    <3> QED
      BY <2>1, <2>5, <2>6, RowHolds
  <2>8. Share(at, o) * v + 0 = Looked(at, o)
    BY <2>1
  <2> HIDE DEF Fits
  <2>9. <<Share(at, o), 0>> \in G
    BY <1>0, <2>1, <2>4, <2>7, <2>8
  <2>10. Fits(BinsOf(o), n + Share(at, o), 0)
    BY <2>2, <2>8, <2>9
  <2> QED
    BY <2>10 DEF Fits
<1> QED
  BY <1>1, <1>2

\* The samples of an observable as the files are now, by component.
AllSamples(o) ==
  [d \in Components(o) |->
    [m \in Nat |-> IF m \in 1 .. Len(Usable(o, d)) THEN Usable(o, d)[m] ELSE <<1, 0>>]]

LEMMA SamplesAre ==
  ASSUME FilesTyped, NEW o \in Obs, NEW N, Borders(N, o)
  PROVE  /\ AllSamples(o) \in [Components(o) -> [Nat -> Named]]
         /\ \A d \in Components(o) :
              /\ Usable(o, d) \in Seq(Named) /\ Len(Usable(o, d)) = N[NFiles]
              /\ \A m \in 1 .. N[NFiles] : AllSamples(o)[d][m] = Usable(o, d)[m]
         /\ at \in Files => Continued(o, AllSamples(o), N[at - 1])
<1>0. NFiles \in Nat \ {0} /\ NFiles \in 0 .. NFiles /\ N[NFiles] \in Nat
  <2>1. NFiles \in Nat \ {0} /\ NFiles \in 0 .. NFiles
    BY MergerAssumption
  <2> QED
    BY <2>1 DEF Borders
<1>1. ASSUME NEW d \in Components(o)
      PROVE  ShapedUpTo(Usable(o, d), N, NFiles, o, d)
  BY UsableShape
<1>2. ASSUME NEW d \in Components(o)
      PROVE  Usable(o, d) \in Seq(Named) /\ Len(Usable(o, d)) = N[NFiles]
  BY <1>1 DEF ShapedUpTo
<1>3. ASSUME NEW d \in Components(o), NEW m \in 1 .. N[NFiles]
      PROVE  AllSamples(o)[d][m] = Usable(o, d)[m]
  <2>1. m \in Nat /\ m \in 1 .. Len(Usable(o, d))
    BY <1>0, <1>2
  <2> QED
    BY <2>1 DEF AllSamples
<1>4. AllSamples(o) \in [Components(o) -> [Nat -> Named]]
  <2>1. ASSUME NEW d \in Components(o), NEW m \in Nat
        PROVE  (IF m \in 1 .. Len(Usable(o, d)) THEN Usable(o, d)[m] ELSE <<1, 0>>) \in Named
    <3>1. <<1, 0>> \in Named
      BY <1>0 DEF Named, Files
    <3>2. ASSUME m \in 1 .. Len(Usable(o, d)) PROVE Usable(o, d)[m] \in Named
      BY <1>2, <3>2, ElementOfSeq
    <3> QED
      BY <3>1, <3>2
  <2> QED
    BY <2>1 DEF AllSamples
<1>5. ASSUME at \in Files, NEW d \in Components(o), NEW m \in 1 .. Share(at, o)
      PROVE  AllSamples(o)[d][N[at - 1] + m] = Sample(at, o, m, d)
  <2>1. /\ at \in 0 .. NFiles /\ N[at - 1] \in Nat /\ Share(at, o) \in Nat
        /\ N[at] = N[at - 1] + Share(at, o) /\ N[at] \in Nat /\ at \in 1 .. NFiles
        /\ at <= NFiles
    <3>1. at \in 1 .. NFiles /\ at <= NFiles
      BY <1>0, <1>5 DEF Files
    <3> QED
      BY <1>5, <3>1, BordersRise
  <2>2. N[at] <= N[NFiles]
    BY <1>0, <2>1, BordersMonotone
  <2>3. N[at - 1] + m \in 1 .. N[NFiles]
    BY <1>0, <2>1, <2>2
  <2>4. Usable(o, d)[N[at - 1] + m] = Sample(at, o, m, d)
    BY <1>1, <2>1 DEF ShapedUpTo
  <2> DEFINE p == N[at - 1] + m
  <2> HIDE DEF p
  <2>5. AllSamples(o)[d][p] = Usable(o, d)[p]
    BY <1>3, <2>3 DEF p
  <2> QED
    BY <2>4, <2>5 DEF p
<1> QED
  BY <1>2, <1>3, <1>4, <1>5 DEF Continued

-----------------------------------------------------------------------------
(* Files that grow.                                                        *)

LEMMA QuotientGrows ==
  ASSUME NEW a \in Nat, NEW b \in Nat, NEW v \in Nat \ {0}, a <= b
  PROVE  a \div v \in Nat /\ b \div v \in Nat /\ a \div v <= b \div v
<1>1. PICK x \in Nat, c \in 0 .. v - 1 : a \div v = x /\ a = x * v + c
  BY PlaceExists
<1>2. PICK y \in Nat, d \in 0 .. v - 1 : b \div v = y /\ b = y * v + d
  BY PlaceExists
<1>3. ~(y < x)
  <2>1. SUFFICES ASSUME y < x PROVE FALSE
    OBVIOUS
  <2>2. y + 1 \in Nat /\ y + 1 <= x
    BY <2>1
  <2>3. (y + 1) * v <= x * v /\ (y + 1) * v = y * v + v /\ y * v \in Nat /\ x * v \in Nat
    BY <2>2, Products
  <2> QED
    BY <1>1, <1>2, <2>3
<1> QED
  BY <1>1, <1>2, <1>3

LEMMA ShareGrows ==
  ASSUME FilesTyped, NEW f \in Files, NEW longer \in SUBSET Obs, Grow(f, longer),
         NEW g \in Files, NEW o \in Obs
  PROVE  /\ Share(g, o) \in Nat /\ Share(g, o)' \in Nat
         /\ Share(g, o) <= Share(g, o)'
<1> DEFINE v == VectorLength[o]
           d == files[g][o]
           e == files'[g][o]
           n == IF d # Absent THEN d.size \div v ELSE 0
           m == IF e # Absent THEN e.size \div v ELSE 0
<1>1. v \in Nat \ {0} /\ skip \in Nat /\ skip' = skip /\ d \in Datasets \cup {Absent}
  BY MergerAssumption DEF FilesTyped, Grow
<1>2. e = d \/ (e = Extended(d, o) /\ Intact(d, o))
  <2>1. files'[g] = IF g # f THEN files[g] ELSE
          [p \in Obs |-> IF p \in longer THEN Extended(files[f][p], p) ELSE files[f][p]]
    BY DEF Grow, FilesTyped
  <2>2. \A p \in longer : Intact(files[f][p], p)
    BY DEF Grow
  <2> QED
    BY <2>1, <2>2
<1>3. Share(g, o) = n - AtMost(n, skip) /\ Share(g, o)' = m - AtMost(m, skip)
  <2>1. Share(g, o) = n - AtMost(n, skip)
    BY DEF Share, Has
  <2>2. Share(g, o)' = m - AtMost(m, skip')
    BY DEF Share, Has
  <2> QED
    BY <1>1, <2>1, <2>2
<1>4. n \in Nat /\ m \in Nat /\ n <= m
  <2>1. CASE e = d
    <3>1. d # Absent => d.size \in Nat
      BY <1>1 DEF Datasets
    <3>2. d # Absent => d.size \div v \in Nat
      BY <1>1, <3>1, QuotientGrows
    <3> QED
      BY <2>1, <3>2
  <2>2. CASE e = Extended(d, o)
    <3> DEFINE s == IF d = Absent THEN 0 ELSE d.size
    <3>1. e.size = s + v
      BY <2>2 DEF Extended
    <3>2. s \in Nat /\ s + v \in Nat /\ s <= s + v
      BY <1>1 DEF Datasets
    <3>3. e # Absent
      BY <1>1, <3>1, <3>2 DEF Absent
    <3>4. d # Absent => s = d.size
      OBVIOUS
    <3> HIDE DEF s, d, e, v
    <3>5. s \div v \in Nat /\ (s + v) \div v \in Nat /\ s \div v <= (s + v) \div v
      BY <1>1, <3>2, QuotientGrows
    <3>6. m = (s + v) \div v
      BY <3>1, <3>3
    <3>7. n = s \div v \/ n = 0
      BY <3>4
    <3> QED
      BY <3>5, <3>6, <3>7
  <2> QED
    BY <1>2, <2>1, <2>2
<1> HIDE DEF n, m, d, e, v
<1> QED
  BY <1>1, <1>3, <1>4 DEF AtMost

\* Then every stretch of files has at least as many samples as before.
LEMMA BordersGrow ==
  ASSUME FilesTyped, NEW f \in Files, NEW longer \in SUBSET Obs, Grow(f, longer),
         NEW o \in Obs, NEW M, Borders(M, o)'
  PROVE  \E N : /\ Borders(N, o)
                /\ \A g \in 0 .. NFiles : N[g] <= M[g] /\ N[g] \in Nat /\ M[g] \in Nat
                /\ \A g \in 0 .. NFiles : N[NFiles] - N[g] <= M[NFiles] - M[g]
<1>0. NFiles \in Nat \ {0} /\ 0 \in 0 .. NFiles /\ NFiles \in 0 .. NFiles
  BY MergerAssumption
<1>1. PICK N : Borders(N, o)
  BY BordersExist
<1>2. /\ N \in [0 .. NFiles -> Nat] /\ N[0] = 0
      /\ M \in [0 .. NFiles -> Nat] /\ M[0] = 0
      /\ \A g \in Files : N[g] = N[g - 1] + Share(g, o)
      /\ \A g \in Files : M[g] = M[g - 1] + Share(g, o)'
  BY <1>1 DEF Borders
<1> DEFINE d(g) == M[g] - N[g]
           h == [g \in 0 .. NFiles |-> d(g)]
<1>3. h \in [0 .. NFiles -> Int]
  <2>1. \A g \in 0 .. NFiles : d(g) \in Int
    BY <1>2
  <2> HIDE DEF d
  <2> QED
    BY <2>1
<1>4. ASSUME NEW g \in Files PROVE h[g - 1] <= h[g]
  <2>1. g - 1 \in 0 .. NFiles /\ g \in 0 .. NFiles
    BY <1>0 DEF Files
  <2>2. Share(g, o) \in Nat /\ Share(g, o)' \in Nat /\ Share(g, o) <= Share(g, o)'
    BY ShareGrows
  <2>3. N[g - 1] \in Nat /\ M[g - 1] \in Nat
    BY <1>2, <2>1
  <2>4. N[g] = N[g - 1] + Share(g, o) /\ M[g] = M[g - 1] + Share(g, o)'
    BY <1>2
  <2> QED
    BY <2>1, <2>2, <2>3, <2>4
<1>5. \A g \in 0 .. NFiles : h[g] = d(g)
  OBVIOUS
<1>6. ASSUME NEW g \in 0 .. NFiles
      PROVE  /\ N[g] <= M[g] /\ N[g] \in Nat /\ M[g] \in Nat
             /\ N[NFiles] - N[g] <= M[NFiles] - M[g]
  <2>1. 0 <= g /\ g <= NFiles
    BY <1>0
  <2> HIDE DEF h
  <2>2. h[0] <= h[g]
    BY <1>0, <1>3, <1>4, <2>1, Rising
  <2>3. h[g] <= h[NFiles]
    BY <1>0, <1>3, <1>4, <2>1, Rising
  <2>4. /\ h[0] = M[0] - N[0] /\ h[g] = M[g] - N[g] /\ h[NFiles] = M[NFiles] - N[NFiles]
    BY <1>0, <1>5
  <2>5. N[g] \in Nat /\ M[g] \in Nat /\ N[NFiles] \in Nat /\ M[NFiles] \in Nat
        /\ N[0] = 0 /\ M[0] = 0
    BY <1>0, <1>2
  <2> QED
    BY <2>2, <2>3, <2>4, <2>5
<1> QED
  BY <1>1, <1>6

-----------------------------------------------------------------------------
(* The inductive invariant of the passes.                                  *)

PassesTyped ==
  /\ pass \in {"collect", "rebin", "mean", "bins", "merged"}
  /\ count \in [Obs -> Nat] /\ length \in [Obs -> Nat] /\ replaced \in Nat
  /\ \A f \in Files : \A o \in Obs : Sound(files[f][o]) => files[f][o].vlen = VectorLength[o]

\* What was counted is in the files that were read, or in all.
Tallied(o) ==
  \A N : Borders(N, o) =>
    /\ pass = "collect" => total[o] <= N[at - 1]
    /\ pass # "collect" => total[o] <= N[NFiles]

\* What a later pass makes is not there before.
Untouched(o) ==
  /\ pass \in {"collect", "rebin"} =>
       counter[o] = 0 /\ mean[o] = [c \in Components(o) |-> << >>]
  /\ pass \in {"collect", "rebin", "mean"} =>
       filling[o] = 0 /\ rebin[o] = 0 /\ closed[o] = << >>
  /\ pass = "mean" => bins[o] = [b \in Slots(o, count[o]) |-> << >>]

\* The files that the second or the third pass has not read yet have as many
\* samples as it still needs.
Counted(o) ==
  /\ pass = "mean" =>
       /\ counter[o] \in Nat /\ counter[o] <= Binned(o)
       /\ \A N : Borders(N, o) => Binned(o) <= counter[o] + (N[NFiles] - N[at - 1])
  /\ pass \in {"bins", "merged"} => counter[o] = Binned(o)
  /\ pass = "bins" =>
       /\ BinsBefore(bins[o], o, at)
       /\ \E m \in Nat :
            /\ BinsCount(BinsBase(o), o, m, 0)
            /\ \A N : Borders(N, o) => Binned(o) <= m + (N[NFiles] - N[at - 1])
  /\ pass = "merged" => rebin[o] = count[o] /\ BinsBefore(bins[o], o, NFiles + 1)

\* Of undamaged files: which samples they have taken, and the bins are blocks of
\* whatever samples there were.
Taken(o) ==
  /\ pass = "mean" /\ replaced = 0 => \A N : Borders(N, o) =>
       /\ counter[o] = AtMost(N[at - 1], Binned(o))
       /\ mean[o] = [d \in Components(o) |->
            Block(AllSamples(o)[d], 0, AtMost(N[at - 1], Binned(o)))]
  /\ pass \in {"bins", "merged"} /\ replaced = 0 =>
       mean[o] = [d \in Components(o) |-> Block(AllSamples(o)[d], 0, Binned(o))]
  /\ pass \in {"bins", "merged"} =>
       \E U \in [Components(o) -> [Nat -> Named]], n \in Nat :
         /\ ContentIs(BinsBase(o), o, U, n, 0) /\ PlaceIs(BinsBase(o), o, n, 0)
         /\ replaced = 0 =>
              /\ U = AllSamples(o)
              /\ pass = "bins" => \A N : Borders(N, o) => n = N[at - 1]

PassInv ==
  /\ MergeInv /\ PassesTyped
  /\ \A o \in Obs : Tallied(o) /\ Untouched(o)
  /\ \A o \in found : Counted(o) /\ (AllIntact(o) => Taken(o))

LEMMA PassInvTypes ==
  ASSUME PassInv
  PROVE  /\ FilesTyped /\ at \in Files /\ found \subseteq Obs
         /\ NFiles \in Nat \ {0} /\ at \in 1 .. NFiles
         /\ at - 1 \in 0 .. NFiles /\ at \in 0 .. NFiles
         /\ 0 \in 0 .. NFiles /\ NFiles \in 0 .. NFiles
<1>1. NFiles \in Nat \ {0} /\ at \in Files /\ FilesTyped /\ found \subseteq Obs
  BY Constants DEF PassInv, MergeInv, BinsTyped, MetadataToCome, FilesTyped
<1> QED
  BY <1>1 DEF Files

LEMMA BinsWell ==
  ASSUME PassInv, pass \notin {"collect", "rebin"}, NEW o \in found
  PROVE  /\ o \in Obs /\ count[o] \in Nat /\ length[o] \in Nat
         /\ count[o] > 0 => length[o] > 0
         /\ Binned(o) \in Nat /\ Binned(o) <= total[o] /\ total[o] \in Nat
         /\ Binned(o) = count[o] * length[o]
         /\ Binned(o) = 0 => count[o] = 0
<1>1. o \in Obs /\ total[o] \in Nat /\ asked \in Nat
  BY DEF PassInv, MergeInv, BinsTyped
<1>2. count[o] \in Nat /\ length[o] \in Nat
  BY <1>1 DEF PassInv, PassesTyped
<1>3. /\ count[o] = BinCount(total[o], asked, MinBinCount)
      /\ count[o] > 0 => length[o] = BinLengthFor(total[o], count[o])
  BY DEF PassInv, MergeInv, BinsChosen
<1>4. Binned(o) = count[o] * length[o] /\ Binned(o) \in Nat
  BY <1>2, Products DEF Binned
<1>5. CASE count[o] > 0
  <2>1. Covered(total[o], asked, count[o], length[o])
    BY <1>1, <1>3, <1>5, BinsCover, Constants
  <2>2. length[o] > 0 /\ count[o] * length[o] <= total[o]
    BY <1>3, <1>5, <2>1 DEF Covered, Used
  <2>3. Binned(o) # 0
    <3>1. 1 <= count[o] /\ 1 \in Nat /\ 1 * length[o] = length[o]
      BY <1>2, <1>5
    <3>2. 1 * length[o] <= count[o] * length[o]
      BY <1>2, <3>1, Products
    <3> QED
      BY <1>2, <1>4, <2>2, <3>1, <3>2
  <2> QED
    BY <1>1, <1>2, <1>4, <1>5, <2>2, <2>3
<1>6. CASE count[o] = 0
  <2>1. Binned(o) = 0
    BY <1>2, <1>4, <1>6
  <2> QED
    BY <1>1, <1>2, <1>4, <1>6, <2>1
<1> QED
  BY <1>2, <1>5, <1>6

\* Only a checkpoint changes what the files have.
LEMMA FilesStay ==
  ASSUME files' = files, skip' = skip, NEW o \in Obs
  PROVE  /\ \A N : Borders(N, o)' <=> Borders(N, o)
         /\ AllSamples(o)' = AllSamples(o)
         /\ AllIntact(o)' <=> AllIntact(o)
         /\ FilesTyped' <=> FilesTyped
<1>1. \A f \in Files : Share(f, o)' = Share(f, o)
  BY DEF Share, Has
<1>2. \A N : Borders(N, o)' <=> Borders(N, o)
  BY <1>1 DEF Borders
<1>3. \A d : Usable(o, d)' = Usable(o, d)
  BY DEF Usable, Offered, Has
<1>4. AllSamples(o)' = AllSamples(o)
  BY <1>3 DEF AllSamples
<1> QED
  BY <1>2, <1>4 DEF AllIntact, FilesTyped

LEMMA PassInvInit == Init => PassInv
<1> SUFFICES ASSUME Init PROVE PassInv
  OBVIOUS
<1>1. MergeInv
  BY MergeInvInit
<1>2. PassesTyped
  <2>1. ASSUME NEW f \in Files, NEW o \in Obs, Sound(files[f][o])
        PROVE  files[f][o].vlen = VectorLength[o]
    <3>1. files[f][o] \in Contents[o]
      BY DEF Init
    <3> QED
      BY <2>1, <3>1, MergerAssumption
  <2>2. \A f \in Files : \A o \in Obs : Sound(files[f][o]) => files[f][o].vlen = VectorLength[o]
    BY <2>1
  <2>3. /\ pass = "collect" /\ count \in [Obs -> Nat] /\ length \in [Obs -> Nat]
        /\ replaced \in Nat
    BY DEF Init
  <2> QED
    BY <2>2, <2>3 DEF PassesTyped
<1>3. ASSUME NEW o \in Obs PROVE Tallied(o)
  <2>1. pass = "collect" /\ at = 1 /\ total[o] = 0
    BY DEF Init
  <2>2. SUFFICES ASSUME NEW N, Borders(N, o) PROVE total[o] <= N[at - 1]
    BY <2>1 DEF Tallied
  <2>3. N[0] = 0 /\ at - 1 = 0
    BY <2>1, <2>2 DEF Borders
  <2> QED
    BY <2>1, <2>3
<1>4. ASSUME NEW o \in Obs PROVE Untouched(o)
  BY DEF Init, Untouched
<1>5. found = {}
  BY DEF Init
<1> QED
  BY <1>1, <1>2, <1>3, <1>4, <1>5 DEF PassInv

-----------------------------------------------------------------------------
(* The first pass.                                                         *)

LEMMA CollectTallies ==
  ASSUME PassInv, Collect, NEW o \in Obs
  PROVE  Tallied(o)'
<1>1. FilesTyped /\ at \in Files /\ at \in 1 .. NFiles /\ NFiles \in Nat \ {0}
  BY PassInvTypes
<1>2. files' = files /\ skip' = skip /\ pass = "collect"
      /\ ((at < NFiles /\ at' = at + 1 /\ pass' = "collect")
            \/ (at = NFiles /\ at' = 1 /\ pass' = "rebin"))
  BY <1>1 DEF Collect, Advance, inputVars
<1>3. SUFFICES ASSUME NEW N, Borders(N, o)
               PROVE  /\ pass' = "collect" => total'[o] <= N[at' - 1]
                      /\ pass' # "collect" => total'[o] <= N[NFiles]
  BY <1>2, FilesStay DEF Tallied
<1>4. total[o] <= N[at - 1] /\ total[o] \in Nat
  BY <1>2, <1>3 DEF PassInv, Tallied, MergeInv, BinsTyped
<1>5. N[at - 1] \in Nat /\ N[at] \in Nat /\ Share(at, o) \in Nat
      /\ N[at] = N[at - 1] + Share(at, o)
  BY <1>1, <1>3, BordersRise
<1> DEFINE d == files[at][o]
           more == IF Sound(d) THEN AfterSkip(d.size \div d.vlen, skip) ELSE 0
<1>6. total'[o] = total[o] + more
  BY DEF Collect
<1>7. more \in Nat /\ more <= Share(at, o)
  <2>1. CASE Sound(d)
    <3>1. d.vlen = VectorLength[o]
      BY <1>1, <2>1 DEF PassInv, PassesTyped
    <3>2. Has(at, o)
      BY <2>1 DEF Has, Sound, Absent
    <3>3. more = Share(at, o)
      BY <2>1, <3>1, <3>2 DEF Share, AfterSkip
    <3> QED
      BY <1>5, <3>3
  <2>2. CASE ~Sound(d)
    BY <1>5, <2>2
  <2> QED
    BY <2>1, <2>2
<1> HIDE DEF more
<1>8. total'[o] <= N[at]
  BY <1>4, <1>5, <1>6, <1>7
<1>9. CASE at < NFiles
  <2>1. at' - 1 = at /\ pass' = "collect"
    BY <1>1, <1>2, <1>9
  <2> QED
    BY <1>8, <2>1
<1>10. CASE at = NFiles
  <2>1. pass' = "rebin" /\ total'[o] <= N[NFiles]
    BY <1>1, <1>2, <1>8, <1>10
  <2> QED
    BY <2>1
<1>11. at < NFiles \/ at = NFiles
  BY <1>1
<1> QED
  BY <1>9, <1>10, <1>11

LEMMA CollectPasses ==
  ASSUME PassInv, Collect
  PROVE  PassInv'
<1>1. FilesTyped /\ at \in Files /\ at \in 1 .. NFiles /\ NFiles \in Nat \ {0}
  BY PassInvTypes
<1>2. files' = files /\ skip' = skip /\ pass = "collect" /\ pass' \in {"collect", "rebin"}
  BY <1>1 DEF Collect, Advance, inputVars
<1>3. MergeInv'
  BY CollectKeeps DEF PassInv
<1>4. PassesTyped'
  BY <1>2 DEF PassInv, PassesTyped, Collect, inputVars
<1>5. \A o \in Obs : Tallied(o)'
  BY CollectTallies
<1>6. ASSUME NEW o \in Obs PROVE Untouched(o)'
  <2>1. Untouched(o)
    BY DEF PassInv
  <2> QED
    BY <1>2, <2>1 DEF Untouched, Collect, metaVars
<1>7. \A o \in Obs : Counted(o)' /\ Taken(o)'
  BY <1>2 DEF Counted, Taken
<1>8. found' \subseteq Obs
  BY DEF Collect, PassInv, MergeInv, BinsTyped
<1> QED
  BY <1>3, <1>4, <1>5, <1>6, <1>7, <1>8 DEF PassInv

-----------------------------------------------------------------------------
(* The choice of bins.                                                     *)

LEMMA RebinPasses ==
  ASSUME PassInv, Rebin
  PROVE  PassInv'
<1>1. FilesTyped /\ at \in Files /\ NFiles \in Nat \ {0} /\ 0 \in 0 .. NFiles
      /\ NFiles \in 0 .. NFiles
  BY PassInvTypes
<1>2. /\ files' = files /\ skip' = skip /\ asked' = asked /\ pass = "rebin" /\ pass' = "mean"
      /\ at' = at /\ at = 1 /\ found' = found /\ total' = total /\ mean' = mean
      /\ counter' = counter /\ filling' = filling /\ rebin' = rebin /\ closed' = closed
  BY DEF Rebin, inputVars, PassInv, MergeInv, MetadataToCome
<1>3. MergeInv'
  BY RebinKeeps DEF PassInv
<1>4. ASSUME NEW o \in Obs
      PROVE  count'[o] \in Nat /\ length'[o] \in Nat /\ count'[o] * length'[o] \in Nat
             /\ (o \in found => count'[o] * length'[o] <= total[o])
  <2>1. total[o] \in Nat /\ asked \in Nat /\ MinBinCount \in Nat
    BY Constants DEF PassInv, MergeInv, BinsTyped
  <2>2. count'[o] = BinCount(total[o], asked, MinBinCount)
    BY DEF Rebin
  <2>3. count'[o] \in Nat
    <3>1. BinCount(total[o], asked, MinBinCount) \in 0 .. total[o]
      BY <2>1, BinCountBounds
    <3> QED
      BY <2>1, <2>2, <3>1
  <2>4. length'[o] = IF o \in found /\ count'[o] # 0
                     THEN BinLengthFor(total[o], count'[o]) ELSE 0
    BY DEF Rebin, PassInv, MergeInv, BinsTyped
  <2>5. CASE count'[o] > 0 /\ o \in found
    <3>1. Covered(total[o], asked, count'[o], BinLengthFor(total[o], count'[o]))
      BY <2>1, <2>2, <2>5, BinsCover
    <3>2. length'[o] = BinLengthFor(total[o], count'[o])
      BY <2>4, <2>5
    <3>3. count'[o] * length'[o] <= total[o]
      BY <3>1, <3>2 DEF Covered, Used
    <3>4. length'[o] \in Nat
      BY <2>1, <2>3, <2>5, <3>2, Quotient DEF BinLengthFor
    <3> QED
      BY <2>3, <3>3, <3>4, Products
  <2>6. CASE ~(count'[o] > 0 /\ o \in found)
    <3>1. length'[o] = 0
      BY <2>3, <2>4, <2>6
    <3>2. count'[o] * length'[o] = 0
      BY <2>3, <3>1
    <3> QED
      BY <2>1, <2>3, <3>1, <3>2
  <2> QED
    BY <2>5, <2>6
<1>5. PassesTyped'
  <2>1. count' \in [Obs -> Nat] /\ length' \in [Obs -> Nat]
    <3>1. \A o \in Obs : count'[o] \in Nat /\ length'[o] \in Nat
      BY <1>4
    <3> QED
      BY <3>1 DEF Rebin
  <2> QED
    BY <1>2, <2>1 DEF PassInv, PassesTyped, Rebin, inputVars
<1>6. ASSUME NEW o \in Obs PROVE Tallied(o)'
  <2>1. Tallied(o) /\ \A N : Borders(N, o)' <=> Borders(N, o)
    BY <1>2, FilesStay DEF PassInv
  <2> QED
    BY <1>2, <2>1 DEF Tallied
<1>7. ASSUME NEW o \in Obs PROVE Untouched(o)'
  <2>1. Untouched(o)
    BY DEF PassInv
  <2>2. bins'[o] = [b \in Slots(o, count'[o]) |-> << >>]
    BY DEF Rebin
  <2> QED
    BY <1>2, <2>1, <2>2 DEF Untouched
<1>8. ASSUME NEW o \in found PROVE Counted(o)'
  <2>1. o \in Obs
    BY PassInvTypes
  <2>2. counter'[o] = 0
    BY <1>2, <2>1 DEF PassInv, Untouched
  <2> DEFINE B == count'[o] * length'[o]
  <2>3. B \in Nat /\ B <= total[o]
    BY <1>4, <2>1
  <2>4. ASSUME NEW N, Borders(N, o) PROVE B <= 0 + (N[NFiles] - N[at' - 1])
    <3>1. at' - 1 = 0 /\ N[0] = 0
      BY <1>2, <2>4 DEF Borders
    <3>2. total[o] <= N[NFiles]
      BY <1>2, <2>1, <2>4 DEF PassInv, Tallied
    <3>3. N[NFiles] \in Nat /\ total[o] \in Nat
      BY <1>1, <2>1, <2>4 DEF Borders, PassInv, MergeInv, BinsTyped
    <3> HIDE DEF B
    <3> QED
      BY <2>3, <3>1, <3>2, <3>3
  <2>5. Binned(o)' = B
    BY DEF Binned
  <2> HIDE DEF B
  <2>6. \A N : Borders(N, o)' <=> Borders(N, o)
    BY <1>2, <2>1, FilesStay
  <2>7. pass' = "mean" /\ 0 <= B
    BY <1>2, <2>3
  <2> QED
    BY <2>2, <2>4, <2>5, <2>6, <2>7 DEF Counted
<1>9. ASSUME NEW o \in found PROVE Taken(o)'
  <2>1. o \in Obs
    BY PassInvTypes
  <2>2. counter'[o] = 0 /\ mean'[o] = [c \in Components(o) |-> << >>]
    BY <1>2, <2>1 DEF PassInv, Untouched
  <2> DEFINE B == count'[o] * length'[o]
             A == AllSamples(o)
  <2>3. B \in Nat /\ AtMost(0, B) = 0
    <3>1. B \in Nat
      BY <1>4, <2>1
    <3> HIDE DEF B
    <3> QED
      BY <3>1 DEF AtMost
  <2>4. ASSUME NEW N, Borders(N, o)
        PROVE  /\ 0 = AtMost(N[at' - 1], B)
               /\ [c \in Components(o) |-> << >>]
                    = [d \in Components(o) |-> Block(A[d], 0, AtMost(N[at' - 1], B))]
    <3>1. N[at' - 1] = 0
      BY <1>2, <2>4 DEF Borders
    <3>2. A \in [Components(o) -> [Nat -> Named]]
      BY <1>1, <2>1, <2>4, SamplesAre
    <3> HIDE DEF A, B
    <3>3. ASSUME NEW d \in Components(o) PROVE Block(A[d], 0, 0) = << >>
      <4>1. A[d] \in [Nat -> Named]
        BY <3>2
      <4> QED
        BY <4>1, BlockShape
    <3> QED
      BY <2>3, <3>1, <3>3
  <2>5. Binned(o)' = B
    BY DEF Binned
  <2>6. (\A N : Borders(N, o)' <=> Borders(N, o)) /\ AllSamples(o)' = A
    BY <1>2, <2>1, FilesStay
  <2> HIDE DEF A, B
  <2> QED
    BY <1>2, <2>2, <2>4, <2>5, <2>6 DEF Taken
<1> QED
  BY <1>2, <1>3, <1>5, <1>6, <1>7, <1>8, <1>9 DEF PassInv

-----------------------------------------------------------------------------
(* A checkpoint between two steps.                                         *)

LEMMA GrowTyped ==
  ASSUME PassInv, NEW f \in Files, NEW longer \in SUBSET Obs, Grow(f, longer)
  PROVE  /\ PassesTyped'
         /\ \A o \in Obs : AllIntact(o)' => AllIntact(o)
<1>1. FilesTyped /\ \A o \in Obs : VectorLength[o] \in Nat \ {0}
  BY PassInvTypes, MergerAssumption
<1>2. ASSUME NEW g \in Files, NEW o \in Obs
      PROVE  files'[g][o] = files[g][o]
             \/ (files'[g][o] = Extended(files[g][o], o) /\ Intact(files[g][o], o))
  <2>1. files'[g] = IF g # f THEN files[g] ELSE
          [p \in Obs |-> IF p \in longer THEN Extended(files[f][p], p) ELSE files[f][p]]
    BY <1>1 DEF Grow, FilesTyped
  <2>2. \A p \in longer : Intact(files[f][p], p)
    BY DEF Grow
  <2> QED
    BY <2>1, <2>2
<1>3. ASSUME NEW g \in Files, NEW o \in Obs, Sound(files'[g][o])
      PROVE  files'[g][o].vlen = VectorLength[o]
  <2>1. CASE files'[g][o] = files[g][o]
    BY <1>3, <2>1 DEF PassInv, PassesTyped
  <2>2. CASE files'[g][o] = Extended(files[g][o], o)
    BY <2>2 DEF Extended
  <2> QED
    BY <1>2, <2>1, <2>2
<1>4. PassesTyped'
  BY <1>3 DEF Grow, PassInv, PassesTyped
<1>5. ASSUME NEW o \in Obs, AllIntact(o)' PROVE AllIntact(o)
  <2>1. SUFFICES ASSUME NEW g \in Files PROVE Intact(files[g][o], o)
    BY DEF AllIntact
  <2>2. Intact(files'[g][o], o)
    BY <1>5 DEF AllIntact
  <2> QED
    BY <1>2, <2>2
<1> QED
  BY <1>4, <1>5

LEMMA GrowPasses ==
  ASSUME PassInv, NEW f \in Files, NEW longer \in SUBSET Obs, Grow(f, longer)
  PROVE  PassInv'
<1>1. FilesTyped /\ at \in Files /\ at - 1 \in 0 .. NFiles /\ NFiles \in 0 .. NFiles
      /\ found \subseteq Obs
  BY PassInvTypes
<1>2. /\ pass' = pass /\ pass # "merged" /\ replaced' # 0 /\ at' = at /\ found' = found
      /\ total' = total /\ count' = count /\ length' = length /\ mean' = mean
      /\ bins' = bins /\ closed' = closed /\ counter' = counter /\ filling' = filling
      /\ rebin' = rebin
  <2>1. replaced \in Nat
    BY DEF PassInv, PassesTyped
  <2> QED
    BY <2>1 DEF Grow, metaVars
<1>3. MergeInv'
  BY GrowKeeps DEF PassInv
<1>4. PassesTyped' /\ \A o \in Obs : AllIntact(o)' => AllIntact(o)
  BY GrowTyped
<1>5. ASSUME NEW o \in Obs PROVE Tallied(o)'
  <2>1. SUFFICES ASSUME NEW M, Borders(M, o)'
                 PROVE  /\ pass = "collect" => total[o] <= M[at - 1]
                        /\ pass # "collect" => total[o] <= M[NFiles]
    BY <1>2 DEF Tallied
  <2>2. PICK N : /\ Borders(N, o)
                 /\ \A g \in 0 .. NFiles : N[g] <= M[g] /\ N[g] \in Nat /\ M[g] \in Nat
    BY <1>1, <2>1, BordersGrow
  <2>3. /\ pass = "collect" => total[o] <= N[at - 1]
        /\ pass # "collect" => total[o] <= N[NFiles]
    BY <2>2 DEF PassInv, Tallied
  <2>4. total[o] \in Nat
    BY DEF PassInv, MergeInv, BinsTyped
  <2> QED
    BY <1>1, <2>2, <2>3, <2>4
<1>6. ASSUME NEW o \in Obs PROVE Untouched(o)'
  BY <1>2 DEF PassInv, Untouched
<1>7. ASSUME NEW o \in found PROVE Counted(o)'
  <2>1. Counted(o) /\ o \in Obs
    BY <1>1 DEF PassInv
  <2>2. Binned(o)' = Binned(o)
    BY <1>2 DEF Binned
  <2>3. ASSUME pass \notin {"collect", "rebin"}, NEW m \in Nat,
               \A N : Borders(N, o) => Binned(o) <= m + (N[NFiles] - N[at - 1])
        PROVE  \A M : Borders(M, o)' => Binned(o) <= m + (M[NFiles] - M[at - 1])
    <3>1. SUFFICES ASSUME NEW M, Borders(M, o)'
                   PROVE  Binned(o) <= m + (M[NFiles] - M[at - 1])
      OBVIOUS
    <3>2. PICK N : /\ Borders(N, o)
                   /\ \A g \in 0 .. NFiles : N[g] <= M[g] /\ N[g] \in Nat /\ M[g] \in Nat
                   /\ \A g \in 0 .. NFiles : N[NFiles] - N[g] <= M[NFiles] - M[g]
      BY <1>1, <2>1, <3>1, BordersGrow
    <3>3. Binned(o) <= m + (N[NFiles] - N[at - 1])
      BY <2>3, <3>2
    <3>4. Binned(o) \in Nat
      BY <2>3, BinsWell
    <3>5. /\ N[NFiles] \in Nat /\ M[NFiles] \in Nat /\ N[at - 1] \in Nat /\ M[at - 1] \in Nat
          /\ N[NFiles] - N[at - 1] <= M[NFiles] - M[at - 1]
      BY <1>1, <3>2
    <3> QED
      BY <3>3, <3>4, <3>5
  <2>4. CASE pass = "mean"
    <3>1. /\ counter[o] \in Nat /\ counter[o] <= Binned(o)
          /\ \A N : Borders(N, o) => Binned(o) <= counter[o] + (N[NFiles] - N[at - 1])
      BY <2>1, <2>4 DEF Counted
    <3>2. \A M : Borders(M, o)' => Binned(o) <= counter[o] + (M[NFiles] - M[at - 1])
      BY <2>3, <2>4, <3>1
    <3> QED
      BY <1>2, <2>2, <2>4, <3>1, <3>2 DEF Counted
  <2>5. CASE pass = "bins"
    <3>1. counter[o] = Binned(o) /\ BinsBefore(bins[o], o, at)
      BY <2>1, <2>5 DEF Counted
    <3>2. PICK m \in Nat :
            /\ BinsCount(BinsBase(o), o, m, 0)
            /\ \A N : Borders(N, o) => Binned(o) <= m + (N[NFiles] - N[at - 1])
      BY <2>1, <2>5 DEF Counted
    <3>3. \A M : Borders(M, o)' => Binned(o) <= m + (M[NFiles] - M[at - 1])
      BY <2>3, <2>5, <3>2
    <3>4. BinsBefore(bins[o], o, at)' /\ BinsCount(BinsBase(o), o, m, 0)'
      BY <1>2, <3>1, <3>2 DEF BinsBefore, BinsCount, BinsBase
    <3> QED
      BY <1>2, <2>2, <2>5, <3>1, <3>3, <3>4 DEF Counted
  <2>6. CASE pass \in {"collect", "rebin"}
    BY <1>2, <2>6 DEF Counted
  <2> QED
    BY <1>2, <2>4, <2>5, <2>6 DEF PassInv, PassesTyped
<1>8. ASSUME NEW o \in found, AllIntact(o)' PROVE Taken(o)'
  <2>1. Taken(o)
    BY <1>1, <1>4, <1>8 DEF PassInv
  <2>2. SUFFICES ASSUME pass = "bins"
                 PROVE  \E U \in [Components(o) -> [Nat -> Named]], n \in Nat :
                          ContentIs(BinsBase(o), o, U, n, 0)' /\ PlaceIs(BinsBase(o), o, n, 0)'
    BY <1>2 DEF Taken
  <2>3. PICK U \in [Components(o) -> [Nat -> Named]], n \in Nat :
          ContentIs(BinsBase(o), o, U, n, 0) /\ PlaceIs(BinsBase(o), o, n, 0)
    BY <2>1, <2>2 DEF Taken
  <2>4. ContentIs(BinsBase(o), o, U, n, 0)'
    BY <1>2, <2>3 DEF ContentIs, BinsBase, BinPart
  <2>5. PlaceIs(BinsBase(o), o, n, 0)'
    BY <1>2, <2>3 DEF PlaceIs, PlaceAt, BinsBase, Binned
  <2> QED
    BY <2>4, <2>5
<1> QED
  BY <1>1, <1>2, <1>3, <1>4, <1>5, <1>6, <1>7, <1>8 DEF PassInv

-----------------------------------------------------------------------------
(* The second pass.                                                        *)

\* Between two vectors.
LEMMA MeanStateIs ==
  ASSUME NEW o \in Obs, NEW n \in Nat, NEW acc, NEW U
  PROVE  MeanState(acc, o, U, n, 0) <=>
           /\ acc.counter = AtMost(n, Binned(o))
           /\ acc.sums = [d \in Components(o) |-> Block(U[d], 0, AtMost(n, Binned(o)))]
<1>1. \A d \in Components(o) : n + (IF d < 0 THEN 1 ELSE 0) = n
  BY MergerAssumption DEF Components
<1>2. [d \in Components(o) |->
         Block(U[d], 0, AtMost(n + (IF d < 0 THEN 1 ELSE 0), Binned(o)))]
      = [d \in Components(o) |-> Block(U[d], 0, AtMost(n, Binned(o)))]
  BY <1>1
<1> QED
  BY <1>2 DEF MeanState

\* Empty bins, before the third pass.
LEMMA BinsStart ==
  ASSUME NEW o \in Obs, count[o] \in Nat, length[o] \in Nat, count[o] > 0 => length[o] > 0,
         Binned(o) \in Nat, Binned(o) = 0 => count[o] = 0,
         bins[o] = [b \in Slots(o, count[o]) |-> << >>],
         filling[o] = 0, rebin[o] = 0, closed[o] = << >>
  PROVE  /\ BinsBefore(bins[o], o, 1) /\ BinsCount(BinsBase(o), o, 0, 0)
         /\ \A U \in [Components(o) -> [Nat -> Named]] : ContentIs(BinsBase(o), o, U, 0, 0)
         /\ PlaceIs(BinsBase(o), o, 0, 0)
<1> DEFINE v == VectorLength[o]
           L == length[o]
<1>0. v \in Nat \ {0} /\ Components(o) = 0 .. v - 1
  BY MergerAssumption DEF Components
<1>1. 0 * L = 0 /\ 0 * v = 0
  BY <1>0
<1>2. BinsBefore(bins[o], o, 1)
  <2>1. ToSet(<< >>) = {}
    BY DEF ToSet
  <2> QED
    BY <2>1 DEF BinsBefore
<1>3. BinsCount(BinsBase(o), o, 0, 0)
  <2>1. count[o] > 0 => 0 <= 0 * L + AtMost(0 - (IF 0 > 0 THEN 1 ELSE 0), L - 1)
    BY <1>1 DEF AtMost
  <2>2. BinsBase(o).rebin = 0 /\ BinsBase(o).filling = 0
    BY DEF BinsBase
  <2> QED
    BY <2>1, <2>2 DEF BinsCount, L
<1>4. ASSUME NEW U \in [Components(o) -> [Nat -> Named]]
      PROVE  ContentIs(BinsBase(o), o, U, 0, 0)
  <2>1. ASSUME NEW b \in Slots(o, count[o])
        PROVE  BinPart(o, U, b, Upto(0, b % v, 0)) = << >>
    <3>1. b \in Nat
      BY DEF Slots
    <3>2. PICK k \in Nat, d \in 0 .. v - 1 : b \div v = k /\ b % v = d
      BY <1>0, <3>1, PlaceExists
    <3>3. Upto(0, d, 0) = 0
      BY <1>0, <3>2 DEF Upto
    <3> DEFINE kL == k * L
    <3>4. kL \in Nat /\ kL + L \in Nat
      BY <3>2, Products
    <3>5. U[d] \in [Nat -> Named]
      BY <1>0, <3>2
    <3>6. BinPart(o, U, b, 0) = Block(U[d], kL, AtMost(0, kL + L))
      BY <3>2 DEF BinPart
    <3> HIDE DEF kL, L
    <3>7. AtMost(0, kL + L) = 0
      BY <3>4 DEF AtMost
    <3>8. Block(U[d], kL, 0) = << >>
      BY <3>4, <3>5, BlockShape
    <3> QED
      BY <3>2, <3>3, <3>6, <3>7, <3>8
  <2>2. BinsBase(o).bins = [b \in Slots(o, count[o]) |-> << >>]
    BY DEF BinsBase
  <2> QED
    BY <2>1, <2>2 DEF ContentIs, v
<1>5. PlaceIs(BinsBase(o), o, 0, 0)
  <2> HIDE DEF v, L
  <2>1. << >> = Firsts(0) /\ 0 * v + (IF 0 + 1 = 0 * L + L THEN 0 ELSE 0) = 0
    BY <1>1, FirstsAppend
  <2>2. 0 < Binned(o) => /\ 0 < count[o] /\ 0 * L <= 0 /\ 0 < 0 * L + L
                         /\ 0 = (0 - 0 * L) + (IF 0 > 0 THEN 1 ELSE 0)
                         /\ << >> = Firsts(0 * v + (IF 0 + 1 = 0 * L + L THEN 0 ELSE 0))
    <3>1. ASSUME 0 < Binned(o) PROVE 0 < count[o] /\ 0 < L
      BY <3>1 DEF Binned, L
    <3>2. L \in Nat
      BY DEF L
    <3>3. << >> = Firsts(0 * v + (IF 0 + 1 = 0 * L + L THEN 0 ELSE 0))
      BY <2>1
    <3>4. 0 = (0 - 0 * L) + (IF 0 > 0 THEN 1 ELSE 0) /\ 0 * L <= 0
      BY <1>1
    <3>5. 0 < L => 0 < 0 * L + L
      BY <1>1, <3>2
    <3> QED
      BY <3>1, <3>3, <3>4, <3>5
  <2>3. 0 >= Binned(o) => 0 = count[o] /\ << >> = Firsts(0 * v)
    BY <1>1, <2>1
  <2>4. PlaceAt(0, 0, << >>, o, 0, 0)
    BY <2>2, <2>3 DEF PlaceAt, v, L
  <2> QED
    BY <2>4 DEF PlaceIs, BinsBase
<1> QED
  BY <1>2, <1>3, <1>4, <1>5

LEMMA SumMeansCounts ==
  ASSUME PassInv, SumMeans, NEW o \in found
  PROVE  Counted(o)'
<1> DEFINE B == Binned(o)
           n == counter[o]
           s == Share(at, o)
<1>1. FilesTyped /\ at \in Files /\ at \in 1 .. NFiles /\ NFiles \in Nat \ {0}
      /\ at - 1 \in 0 .. NFiles /\ at \in 0 .. NFiles /\ NFiles \in 0 .. NFiles
  BY PassInvTypes
<1>2. /\ files' = files /\ skip' = skip /\ pass = "mean"
      /\ ((at < NFiles /\ at' = at + 1 /\ pass' = "mean")
            \/ (at = NFiles /\ at' = 1 /\ pass' = "bins"))
      /\ count' = count /\ length' = length /\ bins' = bins /\ closed' = closed
      /\ filling' = filling /\ rebin' = rebin
  BY <1>1 DEF SumMeans, Advance, inputVars
<1>3. /\ o \in Obs /\ count[o] \in Nat /\ length[o] \in Nat /\ total[o] \in Nat
      /\ count[o] > 0 => length[o] > 0
      /\ B \in Nat /\ B <= total[o] /\ (B = 0 => count[o] = 0)
  BY <1>2, BinsWell
<1>4. /\ n \in Nat /\ n <= B
      /\ \A N : Borders(N, o) => B <= n + (N[NFiles] - N[at - 1])
  BY <1>2 DEF PassInv, Counted
<1>5. counter'[o] = AtMost(n + s, B)
  <2>1. counter'[o] = MeanOf(o).counter
    BY <1>3 DEF SumMeans
  <2> QED
    BY <1>1, <1>3, <1>4, <2>1, MeanCounts
<1>6. B' = B /\ \A N : Borders(N, o)' <=> Borders(N, o)
  BY <1>2, <1>3, FilesStay DEF Binned
<1>7. s \in Nat
  BY <1>1, <1>3, ShareIsNat
<1> HIDE DEF B, n, s
<1>8. CASE at < NFiles
  <2>1. counter'[o] \in Nat /\ counter'[o] <= B
    BY <1>3, <1>4, <1>5, <1>7 DEF AtMost
  <2>2. ASSUME NEW N, Borders(N, o)
        PROVE  B <= counter'[o] + (N[NFiles] - N[at' - 1])
    <3>1. at' - 1 = at
      BY <1>1, <1>2, <1>8
    <3>2. /\ N[at - 1] \in Nat /\ N[at] \in Nat /\ N[at] = N[at - 1] + s
      BY <1>1, <1>3, <2>2, BordersRise DEF s
    <3>3. N[NFiles] \in Nat /\ N[at] <= N[NFiles]
      <4>1. N[NFiles] \in Nat /\ at <= NFiles
        BY <1>1, <2>2 DEF Borders
      <4> QED
        BY <1>1, <1>3, <2>2, <4>1, BordersMonotone
    <3>4. B <= n + (N[NFiles] - N[at - 1])
      BY <1>4, <2>2
    <3> QED
      BY <1>3, <1>4, <1>5, <1>7, <3>1, <3>2, <3>3, <3>4 DEF AtMost
  <2>3. pass' = "mean"
    BY <1>1, <1>2, <1>8
  <2> QED
    BY <1>6, <2>1, <2>2, <2>3 DEF Counted, B
<1>9. CASE at = NFiles
  <2>1. pass' = "bins" /\ at' = 1
    BY <1>1, <1>2, <1>9
  <2>2. counter'[o] = B
    <3>1. PICK N : Borders(N, o)
      BY <1>1, <1>3, BordersExist
    <3>2. /\ N[at - 1] \in Nat /\ N[at] \in Nat /\ N[at] = N[at - 1] + s
      BY <1>1, <1>3, <3>1, BordersRise DEF s
    <3>3. B <= n + (N[at] - N[at - 1])
      BY <1>4, <1>9, <3>1
    <3> QED
      BY <1>3, <1>4, <1>5, <1>7, <3>2, <3>3 DEF AtMost
  <2>3. /\ bins[o] = [b \in Slots(o, count[o]) |-> << >>]
        /\ filling[o] = 0 /\ rebin[o] = 0 /\ closed[o] = << >>
    BY <1>2, <1>3 DEF PassInv, Untouched
  <2>4. BinsBefore(bins[o], o, 1) /\ BinsCount(BinsBase(o), o, 0, 0)
    BY <1>3, <2>3, BinsStart DEF B
  <2>5. BinsBefore(bins[o], o, at)' /\ BinsCount(BinsBase(o), o, 0, 0)'
    BY <1>2, <2>1, <2>4 DEF BinsBefore, BinsCount, BinsBase
  <2>6. ASSUME NEW N, Borders(N, o) PROVE B <= 0 + (N[NFiles] - N[at' - 1])
    <3>1. total[o] <= N[NFiles]
      BY <1>2, <1>3, <2>6 DEF PassInv, Tallied
    <3>2. N[at' - 1] = 0 /\ N[NFiles] \in Nat
      BY <1>1, <2>1, <2>6 DEF Borders
    <3> QED
      BY <1>3, <3>1, <3>2
  <2> QED
    BY <1>6, <2>1, <2>2, <2>5, <2>6 DEF Counted, B
<1> QED
  BY <1>1, <1>8, <1>9

LEMMA SumMeansTakes ==
  ASSUME PassInv, SumMeans, NEW o \in found, AllIntact(o)
  PROVE  Taken(o)'
<1> DEFINE B == Binned(o)
           U == AllSamples(o)
<1>1. FilesTyped /\ at \in Files /\ at \in 1 .. NFiles /\ NFiles \in Nat \ {0}
      /\ at - 1 \in 0 .. NFiles /\ at \in 0 .. NFiles /\ NFiles \in 0 .. NFiles
  BY PassInvTypes
<1>2. /\ files' = files /\ skip' = skip /\ pass = "mean" /\ replaced' = replaced
      /\ ((at < NFiles /\ at' = at + 1 /\ pass' = "mean")
            \/ (at = NFiles /\ at' = 1 /\ pass' = "bins"))
      /\ count' = count /\ length' = length /\ bins' = bins /\ closed' = closed
      /\ filling' = filling /\ rebin' = rebin
  BY <1>1 DEF SumMeans, Advance, inputVars
<1>3. /\ o \in Obs /\ count[o] \in Nat /\ length[o] \in Nat /\ total[o] \in Nat
      /\ count[o] > 0 => length[o] > 0
      /\ B \in Nat /\ B <= total[o] /\ (B = 0 => count[o] = 0)
  BY <1>2, BinsWell
<1>4. B' = B /\ (\A N : Borders(N, o)' <=> Borders(N, o)) /\ AllSamples(o)' = U
  BY <1>2, <1>3, FilesStay DEF Binned
<1>5. ASSUME replaced = 0, NEW N, Borders(N, o)
      PROVE  /\ counter'[o] = AtMost(N[at], B)
             /\ mean'[o] = [d \in Components(o) |-> Block(U[d], 0, AtMost(N[at], B))]
  <2> DEFINE acc == [sums |-> mean[o], counter |-> counter[o]]
             n == N[at - 1]
  <2>1. n \in Nat /\ N[at] = n + Share(at, o) /\ N[at] \in Nat
    BY <1>1, <1>3, <1>5, BordersRise
  <2>2. U \in [Components(o) -> [Nat -> Named]] /\ Continued(o, U, n)
    BY <1>1, <1>3, <1>5, SamplesAre
  <2>3. /\ acc.counter = AtMost(n, B)
        /\ acc.sums = [d \in Components(o) |-> Block(U[d], 0, AtMost(n, B))]
    BY <1>2, <1>5 DEF PassInv, Taken
  <2> HIDE DEF U, B, n
  <2>4. MeanState(acc, o, U, n, 0)
    BY <1>3, <2>1, <2>3, MeanStateIs DEF B
  <2>5. Intact(files[at][o], o)
    BY <1>1 DEF AllIntact
  <2>6. MeanState(MeanOf(o), o, U, N[at], 0)
    BY <1>1, <1>3, <2>1, <2>2, <2>4, <2>5, MeanTakes DEF B
  <2>7. mean'[o] = MeanOf(o).sums /\ counter'[o] = MeanOf(o).counter
    BY <1>3 DEF SumMeans
  <2> QED
    BY <1>3, <2>1, <2>6, <2>7, MeanStateIs DEF B
<1>6. CASE at < NFiles
  <2>1. pass' = "mean" /\ at' - 1 = at
    BY <1>1, <1>2, <1>6
  <2> HIDE DEF U, B
  <2> QED
    BY <1>2, <1>4, <1>5, <2>1 DEF Taken, B
<1>7. CASE at = NFiles
  <2>1. pass' = "bins" /\ at' = 1
    BY <1>1, <1>2, <1>7
  <2>2. PICK N : Borders(N, o)
    BY <1>1, <1>3, BordersExist
  <2>3. U \in [Components(o) -> [Nat -> Named]]
    BY <1>1, <1>3, <2>2, SamplesAre
  <2> HIDE DEF U, B
  <2>4. replaced = 0 => mean'[o] = [d \in Components(o) |-> Block(U[d], 0, B)]
    <3>1. N[NFiles] \in Nat /\ total[o] <= N[NFiles]
      BY <1>1, <1>2, <1>3, <2>2 DEF PassInv, Tallied, Borders
    <3>2. AtMost(N[NFiles], B) = B
      BY <1>3, <3>1 DEF AtMost
    <3> QED
      BY <1>5, <1>7, <2>2, <3>2
  <2>5. /\ bins[o] = [b \in Slots(o, count[o]) |-> << >>]
        /\ filling[o] = 0 /\ rebin[o] = 0 /\ closed[o] = << >>
    BY <1>2, <1>3 DEF PassInv, Untouched
  <2>6. PICK V \in [Components(o) -> [Nat -> Named]] : V = U
    BY <2>3
  <2>7. ContentIs(BinsBase(o), o, V, 0, 0) /\ PlaceIs(BinsBase(o), o, 0, 0)
    BY <1>3, <2>5, BinsStart DEF B
  <2>8. ContentIs(BinsBase(o), o, V, 0, 0)'
    BY <1>2, <2>7 DEF ContentIs, BinsBase, BinPart
  <2>9. PlaceIs(BinsBase(o), o, 0, 0)'
    BY <1>2, <2>7 DEF PlaceIs, PlaceAt, BinsBase, Binned
  <2>10. \A M : Borders(M, o) => 0 = M[at' - 1]
    BY <2>1 DEF Borders
  <2> QED
    <3>1. replaced' = 0 => mean'[o] = [d \in Components(o) |->
                             Block(AllSamples(o)'[d], 0, Binned(o)')]
      BY <1>2, <1>4, <2>4 DEF B
    <3>2. /\ ContentIs(BinsBase(o), o, V, 0, 0)' /\ PlaceIs(BinsBase(o), o, 0, 0)'
          /\ replaced' = 0 =>
               /\ V = AllSamples(o)'
               /\ pass' = "bins" => \A M : Borders(M, o)' => 0 = M[at' - 1]
      BY <1>4, <2>6, <2>8, <2>9, <2>10
    <3>3. 0 \in Nat
      OBVIOUS
    <3> QED
      BY <2>1, <2>6, <3>1, <3>2, <3>3 DEF Taken
<1> QED
  BY <1>1, <1>6, <1>7

LEMMA SumMeansPasses ==
  ASSUME PassInv, SumMeans
  PROVE  PassInv'
<1>1. /\ files' = files /\ skip' = skip /\ replaced' = replaced /\ pass = "mean"
      /\ pass' \in {"mean", "bins"} /\ found' = found /\ total' = total
      /\ count' = count /\ length' = length /\ bins' = bins /\ closed' = closed
      /\ filling' = filling /\ rebin' = rebin
  BY DEF SumMeans, Advance, inputVars
<1>2. found \subseteq Obs
  BY PassInvTypes
<1>3. MergeInv'
  BY SumMeansKeeps DEF PassInv
<1>4. PassesTyped'
  BY <1>1 DEF PassInv, PassesTyped
<1>5. ASSUME NEW o \in Obs PROVE Tallied(o)'
  <2>1. Tallied(o) /\ \A N : Borders(N, o)' <=> Borders(N, o)
    BY <1>1, FilesStay DEF PassInv
  <2> QED
    BY <1>1, <2>1 DEF Tallied
<1>6. ASSUME NEW o \in Obs PROVE Untouched(o)'
  <2>1. Untouched(o)
    BY DEF PassInv
  <2> QED
    BY <1>1, <2>1 DEF Untouched
<1>7. \A o \in found : Counted(o)'
  BY SumMeansCounts
<1>8. ASSUME NEW o \in found, AllIntact(o)' PROVE Taken(o)'
  <2>1. AllIntact(o)
    BY <1>1, <1>2, <1>8, FilesStay
  <2> QED
    BY <2>1, SumMeansTakes
<1> QED
  BY <1>1, <1>3, <1>4, <1>5, <1>6, <1>7, <1>8 DEF PassInv

-----------------------------------------------------------------------------
(* The third pass.                                                         *)

\* The parts of a step that concern one observable.
LEMMA FillBinsStep ==
  ASSUME PassInv, FillBins, NEW o \in found
  PROVE  /\ files' = files /\ skip' = skip /\ replaced' = replaced /\ pass = "bins"
         /\ ((at < NFiles /\ at' = at + 1 /\ pass' = "bins")
               \/ (at = NFiles /\ at' = 1 /\ pass' = "merged"))
         /\ count' = count /\ length' = length /\ mean' = mean /\ counter' = counter
         /\ bins'[o] = BinsOf(o).bins /\ closed'[o] = BinsOf(o).closed
         /\ filling'[o] = BinsOf(o).filling /\ rebin'[o] = BinsOf(o).rebin
<1>1. at \in 1 .. NFiles /\ NFiles \in Nat \ {0} /\ o \in Obs
  BY PassInvTypes
<1> QED
  BY <1>1 DEF FillBins, Advance, inputVars

LEMMA FillBinsCounts ==
  ASSUME PassInv, FillBins, NEW o \in found
  PROVE  Counted(o)'
<1> DEFINE B == Binned(o)
           K == count[o]
           L == length[o]
           s == Share(at, o)
           acc == BinsOf(o)
<1>1. FilesTyped /\ at \in Files /\ at \in 1 .. NFiles /\ NFiles \in Nat \ {0}
      /\ at - 1 \in 0 .. NFiles /\ at \in 0 .. NFiles /\ NFiles \in 0 .. NFiles
  BY PassInvTypes
<1>2. /\ files' = files /\ skip' = skip /\ pass = "bins"
      /\ ((at < NFiles /\ at' = at + 1 /\ pass' = "bins")
            \/ (at = NFiles /\ at' = 1 /\ pass' = "merged"))
      /\ count' = count /\ length' = length /\ counter' = counter
      /\ bins'[o] = acc.bins /\ closed'[o] = acc.closed
      /\ filling'[o] = acc.filling /\ rebin'[o] = acc.rebin
  BY FillBinsStep
<1>3. /\ o \in Obs /\ K \in Nat /\ L \in Nat /\ (K > 0 => L > 0)
      /\ B \in Nat /\ B = K * L
  BY <1>2, BinsWell
<1>4. PICK m \in Nat :
        /\ BinsCount(BinsBase(o), o, m, 0)
        /\ \A N : Borders(N, o) => B <= m + (N[NFiles] - N[at - 1])
  BY <1>2 DEF PassInv, Counted
<1>5. counter[o] = B /\ BinsBefore(bins[o], o, at)
  BY <1>2 DEF PassInv, Counted
<1>6. BinsCount(acc, o, m + s, 0) /\ BinsBefore(acc.bins, o, at + 1)
  BY <1>1, <1>3, <1>4, <1>5, BinsGoOn
<1>7. B' = B /\ \A N : Borders(N, o)' <=> Borders(N, o)
  BY <1>2, <1>3, FilesStay DEF Binned
<1>8. s \in Nat
  BY <1>1, <1>3, ShareIsNat
<1> HIDE DEF s, acc
<1>9. CASE at < NFiles
  <2>1. pass' = "bins" /\ at' = at + 1 /\ at' - 1 = at
    BY <1>1, <1>2, <1>9
  <2> HIDE DEF B
  <2>2. ASSUME NEW N, Borders(N, o)
        PROVE  B <= (m + s) + (N[NFiles] - N[at' - 1])
    <3>1. /\ N[at - 1] \in Nat /\ N[at] \in Nat /\ N[at] = N[at - 1] + s
      BY <1>1, <1>3, <2>2, BordersRise DEF s
    <3>2. N[NFiles] \in Nat
      BY <1>1, <2>2 DEF Borders
    <3>3. B <= m + (N[NFiles] - N[at - 1])
      BY <1>4, <2>2
    <3> QED
      BY <1>3, <1>8, <2>1, <3>1, <3>2, <3>3
  <2>3. PICK r \in Nat : r = m + s
    BY <1>8
  <2>4. BinsCount(BinsBase(o), o, r, 0)'
    BY <1>2, <1>6, <2>3 DEF BinsCount, BinsBase
  <2>5. BinsBefore(bins[o], o, at)'
    BY <1>2, <1>6, <2>1 DEF BinsBefore
  <2>6. counter'[o] = Binned(o)'
    BY <1>2, <1>5, <1>7 DEF B
  <2>7. \A N : Borders(N, o)' => Binned(o)' <= r + (N[NFiles] - N[at' - 1])
    BY <1>7, <2>2, <2>3 DEF B
  <2> QED
    BY <2>1, <2>4, <2>5, <2>6, <2>7 DEF Counted
<1>10. CASE at = NFiles
  <2>1. pass' = "merged" /\ at + 1 = NFiles + 1
    BY <1>1, <1>2, <1>10
  <2>2. B <= m + s
    <3>1. PICK N : Borders(N, o)
      BY <1>1, <1>3, BordersExist
    <3>2. N[at - 1] \in Nat /\ N[at] \in Nat /\ N[at] = N[at - 1] + s
      BY <1>1, <1>3, <3>1, BordersRise DEF s
    <3>3. B <= m + (N[at] - N[at - 1])
      BY <1>4, <1>10, <3>1
    <3> HIDE DEF B
    <3> QED
      BY <1>3, <1>8, <3>2, <3>3
  <2>3. acc.rebin = K
    <3> DEFINE q == acc.rebin
               qL == q * L
    <3>1. q \in 0 .. K /\ acc.filling \in Nat
      BY <1>6 DEF BinsCount
    <3>2. SUFFICES ASSUME q < K PROVE FALSE
      BY <1>3, <3>1
    <3>3. m + s <= qL + AtMost(acc.filling - (IF 0 > 0 THEN 1 ELSE 0), L - 1)
      BY <1>6, <3>2 DEF BinsCount
    <3>4. /\ qL \in Nat /\ (q + 1) * L = qL + L /\ (q + 1) * L <= K * L
      <4>1. q \in Nat /\ q + 1 \in Nat /\ q + 1 <= K
        BY <1>3, <3>1, <3>2
      <4> HIDE DEF q
      <4> QED
        BY <1>3, <4>1, Products
    <3> HIDE DEF B, qL
    <3>5. qL + L <= B
      BY <1>3, <3>4
    <3>6. AtMost(acc.filling - (IF 0 > 0 THEN 1 ELSE 0), L - 1) <= L - 1
      BY <1>3, <3>1 DEF AtMost
    <3>7. AtMost(acc.filling - (IF 0 > 0 THEN 1 ELSE 0), L - 1) \in Int
      BY <1>3, <3>1 DEF AtMost
    <3> QED
      BY <1>3, <1>8, <2>2, <3>3, <3>4, <3>5, <3>6, <3>7
  <2>4. BinsBefore(bins[o], o, NFiles + 1)'
    BY <1>2, <1>6, <2>1 DEF BinsBefore
  <2>5. rebin'[o] = count'[o] /\ counter'[o] = Binned(o)'
    BY <1>2, <1>5, <1>7, <2>3
  <2> QED
    BY <2>1, <2>4, <2>5 DEF Counted
<1> QED
  BY <1>1, <1>9, <1>10

\* Only the first n samples matter.
LEMMA ContentExtends ==
  ASSUME NEW o \in Obs, length[o] \in Nat, NEW n \in Nat,
         NEW U \in [Components(o) -> [Nat -> Named]],
         NEW V \in [Components(o) -> [Nat -> Named]],
         \A d \in Components(o) : \A m \in 1 .. n : V[d][m] = U[d][m],
         NEW acc, ContentIs(acc, o, U, n, 0)
  PROVE  ContentIs(acc, o, V, n, 0)
<1> DEFINE v == VectorLength[o]
           L == length[o]
<1>0. v \in Nat \ {0} /\ Components(o) = 0 .. v - 1
  BY MergerAssumption DEF Components
<1>1. ASSUME NEW b \in Slots(o, count[o])
      PROVE  BinPart(o, U, b, Upto(n, b % v, 0)) = BinPart(o, V, b, Upto(n, b % v, 0))
  <2>1. b \in Nat
    BY DEF Slots
  <2>2. PICK k \in Nat, d \in 0 .. v - 1 : b \div v = k /\ b % v = d
    BY <1>0, <2>1, PlaceExists
  <2>3. Upto(n, d, 0) = n
    BY <1>0, <2>2 DEF Upto
  <2> DEFINE kL == k * L
             hi == AtMost(n, kL + L)
  <2>4. kL \in Nat /\ kL + L \in Nat
    BY <2>2, Products
  <2>5. /\ BinPart(o, U, b, n) = Block(U[d], kL, hi)
        /\ BinPart(o, V, b, n) = Block(V[d], kL, hi)
    BY <2>2 DEF BinPart
  <2>6. Block(U[d], kL, hi) = Block(V[d], kL, hi)
    <3> HIDE DEF kL, L
    <3>1. hi \in Nat /\ hi <= n
      BY <2>4 DEF AtMost
    <3> HIDE DEF hi
    <3>2. ASSUME NEW j \in 1 .. hi - kL PROVE V[d][kL + j] = U[d][kL + j]
      <4>1. kL + j \in 1 .. n
        BY <2>4, <3>1, <3>2
      <4> QED
        BY <1>0, <2>2, <4>1
    <3> QED
      BY <3>2 DEF Block
  <2> QED
    BY <2>2, <2>3, <2>5, <2>6
<1> QED
  BY <1>1 DEF ContentIs

LEMMA FillBinsTakes ==
  ASSUME PassInv, FillBins, NEW o \in found, AllIntact(o)
  PROVE  Taken(o)'
<1> DEFINE B == Binned(o)
           A == AllSamples(o)
           s == Share(at, o)
<1>1. FilesTyped /\ at \in Files /\ at \in 1 .. NFiles /\ NFiles \in Nat \ {0}
      /\ at - 1 \in 0 .. NFiles /\ at \in 0 .. NFiles /\ NFiles \in 0 .. NFiles
  BY PassInvTypes
<1>2. /\ files' = files /\ skip' = skip /\ replaced' = replaced /\ pass = "bins"
      /\ ((at < NFiles /\ at' = at + 1 /\ pass' = "bins")
            \/ (at = NFiles /\ at' = 1 /\ pass' = "merged"))
      /\ count' = count /\ length' = length /\ mean' = mean
      /\ bins'[o] = BinsOf(o).bins /\ closed'[o] = BinsOf(o).closed
      /\ filling'[o] = BinsOf(o).filling /\ rebin'[o] = BinsOf(o).rebin
  BY FillBinsStep
<1>3. /\ o \in Obs /\ count[o] \in Nat /\ length[o] \in Nat
      /\ count[o] > 0 => length[o] > 0
  BY <1>2, BinsWell
<1>4. B' = B /\ (\A N : Borders(N, o)' <=> Borders(N, o)) /\ AllSamples(o)' = A
  BY <1>2, <1>3, FilesStay DEF Binned
<1>5. replaced = 0 => mean[o] = [d \in Components(o) |-> Block(A[d], 0, B)]
  BY <1>2 DEF PassInv, Taken
<1>6. PICK U \in [Components(o) -> [Nat -> Named]], n \in Nat :
        /\ ContentIs(BinsBase(o), o, U, n, 0) /\ PlaceIs(BinsBase(o), o, n, 0)
        /\ replaced = 0 => U = A /\ \A N : Borders(N, o) => n = N[at - 1]
  BY <1>2 DEF PassInv, Taken
<1>7. Intact(files[at][o], o)
  BY <1>1 DEF AllIntact
<1>8. s \in Nat
  BY <1>1, <1>3, ShareIsNat
<1> HIDE DEF A, B
<1>9. \E V \in [Components(o) -> [Nat -> Named]] :
        /\ Continued(o, V, n) /\ ContentIs(BinsBase(o), o, V, n, 0)
        /\ replaced = 0 => V = A
  <2>1. CASE replaced = 0
    <3>1. PICK N : Borders(N, o)
      BY <1>1, <1>3, BordersExist
    <3>2. Continued(o, U, n)
      BY <1>1, <1>3, <1>6, <2>1, <3>1, SamplesAre DEF A
    <3> QED
      BY <1>6, <2>1, <3>2
  <2>2. CASE replaced # 0
    <3> DEFINE V == [d \in Components(o) |-> [m \in Nat |->
                       IF m <= n THEN U[d][m] ELSE Sample(at, o, m - n, d)]]
    <3>1. V \in [Components(o) -> [Nat -> Named]]
      <4>1. ASSUME NEW d \in Components(o), NEW m \in Nat, ~(m <= n)
            PROVE  Sample(at, o, m - n, d) \in Named
        <5>1. VectorLength[o] \in Nat /\ d \in Nat /\ skip + (m - n) - 1 \in Nat
          BY <1>1, <1>3, <4>1, MergerAssumption DEF Components, FilesTyped
        <5> DEFINE w == skip + (m - n) - 1
        <5> HIDE DEF w
        <5>2. w * VectorLength[o] \in Nat
          BY <5>1, Products DEF w
        <5>3. w * VectorLength[o] + d \in Nat
          BY <5>1, <5>2
        <5> QED
          BY <1>1, <5>3 DEF Sample, Named, w
      <4>2. \A d \in Components(o), m \in Nat : U[d][m] \in Named
        OBVIOUS
      <4> QED
        BY <4>1, <4>2
    <3>2. Continued(o, V, n)
      <4>1. ASSUME NEW d \in Components(o), NEW m \in 1 .. Share(at, o)
            PROVE  V[d][n + m] = Sample(at, o, m, d)
        <5>1. n + m \in Nat /\ ~(n + m <= n) /\ (n + m) - n = m
          BY <1>8
        <5> QED
          BY <5>1
      <4> QED
        BY <4>1 DEF Continued
    <3>3. \A d \in Components(o) : \A m \in 1 .. n : V[d][m] = U[d][m]
      OBVIOUS
    <3> HIDE DEF V
    <3>4. ContentIs(BinsBase(o), o, V, n, 0)
      BY <1>3, <1>6, <3>1, <3>3, ContentExtends
    <3> QED
      BY <2>2, <3>1, <3>2, <3>4
  <2> QED
    BY <2>1, <2>2
<1>10. PICK V \in [Components(o) -> [Nat -> Named]] :
         /\ Continued(o, V, n) /\ ContentIs(BinsBase(o), o, V, n, 0)
         /\ replaced = 0 => V = A
  BY <1>9
<1>11. PICK r \in Nat : r = n + s
  BY <1>8
<1>12. ContentIs(BinsOf(o), o, V, r, 0) /\ PlaceIs(BinsOf(o), o, r, 0)
  BY <1>1, <1>3, <1>6, <1>7, <1>10, <1>11, BinsTake
<1>13. ContentIs(BinsBase(o), o, V, r, 0)'
  BY <1>2, <1>12 DEF ContentIs, BinsBase, BinPart
<1>14. PlaceIs(BinsBase(o), o, r, 0)'
  BY <1>2, <1>12 DEF PlaceIs, PlaceAt, BinsBase, Binned
<1>15. ASSUME replaced = 0, pass' = "bins", NEW N, Borders(N, o)
       PROVE  r = N[at' - 1]
  <2>1. at' - 1 = at
    BY <1>1, <1>2, <1>15
  <2>2. n = N[at - 1] /\ N[at] = N[at - 1] + s
    BY <1>1, <1>3, <1>6, <1>15, BordersRise
  <2> QED
    BY <1>11, <2>1, <2>2
<1>16. replaced' = 0 => mean'[o] = [d \in Components(o) |->
                          Block(AllSamples(o)'[d], 0, Binned(o)')]
  BY <1>2, <1>4, <1>5 DEF B
<1>17. /\ ContentIs(BinsBase(o), o, V, r, 0)' /\ PlaceIs(BinsBase(o), o, r, 0)'
       /\ replaced' = 0 =>
            /\ V = AllSamples(o)'
            /\ pass' = "bins" => \A N : Borders(N, o)' => r = N[at' - 1]
  BY <1>2, <1>4, <1>10, <1>13, <1>14, <1>15
<1>18. pass' \in {"bins", "merged"} /\ pass' # "mean"
  BY <1>2
<1> QED
  BY <1>16, <1>17, <1>18 DEF Taken

LEMMA FillBinsPasses ==
  ASSUME PassInv, FillBins
  PROVE  PassInv'
<1>1. /\ files' = files /\ skip' = skip /\ replaced' = replaced /\ pass = "bins"
      /\ pass' \in {"bins", "merged"} /\ found' = found /\ total' = total
      /\ count' = count /\ length' = length
  BY DEF FillBins, Advance, inputVars
<1>2. found \subseteq Obs
  BY PassInvTypes
<1>3. MergeInv'
  BY FillBinsKeeps DEF PassInv
<1>4. PassesTyped'
  BY <1>1 DEF PassInv, PassesTyped
<1>5. ASSUME NEW o \in Obs PROVE Tallied(o)'
  <2>1. Tallied(o) /\ \A N : Borders(N, o)' <=> Borders(N, o)
    BY <1>1, FilesStay DEF PassInv
  <2> QED
    BY <1>1, <2>1 DEF Tallied
<1>6. \A o \in Obs : Untouched(o)'
  BY <1>1 DEF Untouched
<1>7. \A o \in found : Counted(o)'
  BY FillBinsCounts
<1>8. ASSUME NEW o \in found, AllIntact(o)' PROVE Taken(o)'
  <2>1. AllIntact(o)
    BY <1>1, <1>2, <1>8, FilesStay
  <2> QED
    BY <2>1, FillBinsTakes
<1> QED
  BY <1>1, <1>3, <1>4, <1>5, <1>6, <1>7, <1>8 DEF PassInv

-----------------------------------------------------------------------------
(* All steps.                                                              *)

LEMMA PassInvStay ==
  ASSUME PassInv, UNCHANGED vars
  PROVE  PassInv'
<1>1. /\ files' = files /\ replaced' = replaced /\ skip' = skip /\ asked' = asked
      /\ pass' = pass /\ at' = at /\ found' = found /\ total' = total /\ count' = count
      /\ length' = length /\ mean' = mean /\ bins' = bins /\ closed' = closed
      /\ counter' = counter /\ filling' = filling /\ rebin' = rebin
  BY DEF vars, inputVars, metaVars
<1>2. MergeInv'
  BY MergeInvNext DEF PassInv
<1>3. PassesTyped'
  BY <1>1 DEF PassInv, PassesTyped
<1>4. found \subseteq Obs
  BY PassInvTypes
<1>5. ASSUME NEW o \in Obs PROVE Tallied(o)' /\ Untouched(o)'
  <2>1. Tallied(o) /\ Untouched(o) /\ \A N : Borders(N, o)' <=> Borders(N, o)
    BY <1>1, FilesStay DEF PassInv
  <2>2. Tallied(o)'
    BY <1>1, <2>1 DEF Tallied
  <2>3. Untouched(o)'
    BY <1>1, <2>1 DEF Untouched
  <2> QED
    BY <2>2, <2>3
<1>6. ASSUME NEW o \in found PROVE Counted(o)' /\ (AllIntact(o)' => Taken(o)')
  <2>1. Counted(o) /\ (AllIntact(o) => Taken(o))
    BY DEF PassInv
  <2>2. /\ \A N : Borders(N, o)' <=> Borders(N, o)
        /\ AllSamples(o)' = AllSamples(o) /\ (AllIntact(o)' <=> AllIntact(o))
    BY <1>1, <1>4, FilesStay
  <2>3. Binned(o)' = Binned(o)
    BY <1>1 DEF Binned
  <2>4. /\ \A f : BinsBefore(bins[o], o, f)' <=> BinsBefore(bins[o], o, f)
        /\ \A m : BinsCount(BinsBase(o), o, m, 0)' <=> BinsCount(BinsBase(o), o, m, 0)
    BY <1>1 DEF BinsBefore, BinsCount, BinsBase
  <2>5. BinsBefore(bins[o], o, at)' <=> BinsBefore(bins[o], o, at)
    BY <1>1 DEF BinsBefore
  <2>6. /\ \A U, n : ContentIs(BinsBase(o), o, U, n, 0)' <=> ContentIs(BinsBase(o), o, U, n, 0)
        /\ \A n : PlaceIs(BinsBase(o), o, n, 0)' <=> PlaceIs(BinsBase(o), o, n, 0)
    BY <1>1 DEF ContentIs, BinPart, PlaceIs, PlaceAt, BinsBase, Binned
  <2>7. Counted(o)'
    BY <1>1, <2>1, <2>2, <2>3, <2>4, <2>5 DEF Counted
  <2>8. ASSUME Taken(o) PROVE Taken(o)'
    BY <1>1, <2>2, <2>3, <2>6, <2>8 DEF Taken
  <2> QED
    BY <2>1, <2>2, <2>7, <2>8
<1> QED
  BY <1>1, <1>2, <1>3, <1>5, <1>6 DEF PassInv

LEMMA PassInvNext == PassInv /\ [Next]_vars => PassInv'
<1> SUFFICES ASSUME PassInv, [Next]_vars PROVE PassInv'
  OBVIOUS
<1>1. CASE Collect
  BY <1>1, CollectPasses
<1>2. CASE Rebin
  BY <1>2, RebinPasses
<1>3. CASE SumMeans
  BY <1>3, SumMeansPasses
<1>4. CASE FillBins
  BY <1>4, FillBinsPasses
<1>5. ASSUME NEW f \in Files, NEW longer \in SUBSET Obs \ {{}}, Grow(f, longer)
      PROVE  PassInv'
  BY <1>5, GrowPasses
<1>6. CASE Returned
  BY <1>6, PassInvStay DEF Returned
<1>7. CASE UNCHANGED vars
  BY <1>7, PassInvStay
<1> QED
  BY <1>1, <1>2, <1>3, <1>4, <1>5, <1>6, <1>7 DEF Next

LEMMA PassInvHolds == Spec => []PassInv
BY PassInvInit, PassInvNext, PTL DEF Spec

-----------------------------------------------------------------------------
(* When merge() returns.                                                   *)

LEMMA SlotIs ==
  ASSUME NEW o \in Obs, NEW n \in Nat, NEW b \in Slots(o, n)
  PROVE  \E k \in 0 .. n - 1, d \in Components(o) :
           /\ b \div VectorLength[o] = k /\ b % VectorLength[o] = d
           /\ b = k * VectorLength[o] + d
<1> DEFINE v == VectorLength[o]
           nv == n * v
<1>0. v \in Nat \ {0} /\ Components(o) = 0 .. v - 1
  BY MergerAssumption DEF Components
<1>1. nv \in Nat /\ nv = v * n
  BY <1>0, Products
<1>2. b \in Nat /\ b < nv
  <2>1. b \in 0 .. nv - 1
    BY DEF Slots
  <2> HIDE DEF nv
  <2> QED
    BY <1>1, <2>1
<1>3. PICK k \in Nat, d \in 0 .. v - 1 : b \div v = k /\ b % v = d /\ b = k * v + d
  BY <1>0, <1>2, PlaceExists
<1>4. k < n
  <2>1. k * v \in Nat /\ k * v = v * k
    <3> HIDE DEF v
    <3>1. k * v \in Nat
      BY <1>0, <1>3, Products
    <3> QED
      BY <1>0, <1>3, <3>1
  <2> DEFINE kv == k * v
  <2> HIDE DEF nv, kv
  <2>2. kv < nv
    BY <1>0, <1>1, <1>2, <1>3, <2>1 DEF kv
  <2>3. v * k < v * n
    BY <1>1, <2>1, <2>2 DEF kv, nv
  <2> QED
    BY <1>0, <1>3, <2>3, Cancel
<1>5. k \in 0 .. n - 1 /\ d \in Components(o)
  BY <1>0, <1>3, <1>4
<1> QED
  BY <1>3, <1>5

\* The bins of an observable without damaged files: full, and blocks of samples.
LEMMA BinsAre ==
  ASSUME PassInv, pass = "merged", NEW o \in found, AllIntact(o)
  PROVE  /\ closed[o] = Firsts(count[o] * VectorLength[o])
         /\ \E U \in [Components(o) -> [Nat -> Named]] :
              /\ replaced = 0 => U = AllSamples(o)
              /\ \A k \in 0 .. count[o] - 1, d \in Components(o) :
                   bins[o][k * VectorLength[o] + d] =
                     Block(U[d], k * length[o], k * length[o] + length[o])
<1> DEFINE v == VectorLength[o]
           K == count[o]
           L == length[o]
           B == Binned(o)
<1>0. v \in Nat \ {0} /\ Components(o) = 0 .. v - 1
  <2>1. o \in Obs
    BY BinsWell
  <2> QED
    BY <2>1, MergerAssumption DEF Components
<1>1. o \in Obs /\ K \in Nat /\ L \in Nat /\ B \in Nat /\ B = K * L
  BY BinsWell
<1>2. rebin[o] = K
  BY DEF PassInv, Counted
<1>3. PICK U \in [Components(o) -> [Nat -> Named]], n \in Nat :
        /\ ContentIs(BinsBase(o), o, U, n, 0) /\ PlaceIs(BinsBase(o), o, n, 0)
        /\ replaced = 0 => U = AllSamples(o)
  BY DEF PassInv, Taken
<1>4. PlaceAt(K, filling[o], closed[o], o, n, 0)
  BY <1>2, <1>3 DEF PlaceIs, BinsBase
<1>5. n >= B
  <2>1. n < B => K < K
    BY <1>4 DEF PlaceAt
  <2> HIDE DEF B, K
  <2> QED
    BY <1>1, <2>1
<1>6. closed[o] = Firsts(K * v)
  BY <1>4, <1>5 DEF PlaceAt
<1>7. ASSUME NEW k \in 0 .. K - 1, NEW d \in Components(o)
      PROVE  bins[o][k * v + d] = Block(U[d], k * L, k * L + L)
  <2> DEFINE b == k * v + d
             kL == k * L
  <2>1. k \in Nat /\ k + 1 \in Nat /\ k + 1 <= K
    BY <1>1
  <2>2. kL \in Nat /\ kL + L = (k + 1) * L /\ (k + 1) * L <= K * L
    BY <1>1, <2>1, Products
  <2>3. b % v = d /\ b \div v = k
    <3>1. d \in 0 .. v - 1
      BY <1>0
    <3> HIDE DEF v
    <3> QED
      BY <1>0, <2>1, <3>1, PlaceRest
  <2>4. b \in Slots(o, K)
    BY <1>1, SlotThere
  <2>5. Upto(n, d, 0) = n
    BY <1>0 DEF Upto
  <2>6. bins[o] = [x \in Slots(o, K) |-> BinPart(o, U, x, Upto(n, x % v, 0))]
    BY <1>3 DEF ContentIs, BinsBase
  <2> HIDE DEF b
  <2>7. bins[o][b] = BinPart(o, U, b, n)
    BY <2>3, <2>4, <2>5, <2>6
  <2>8. BinPart(o, U, b, n) = Block(U[d], kL, AtMost(n, kL + L))
    BY <2>3 DEF BinPart
  <2>9. AtMost(n, kL + L) = kL + L
    <3>1. kL + L <= B
      BY <1>1, <2>2
    <3> HIDE DEF kL, B, L
    <3> QED
      BY <1>1, <1>5, <2>2, <3>1 DEF AtMost
  <2> QED
    BY <2>7, <2>8, <2>9 DEF b
<1> QED
  BY <1>3, <1>6, <1>7

LEMMA MeanIs ==
  ASSUME PassInv, pass = "merged", replaced = 0, NEW o \in found, AllIntact(o),
         NEW c \in Components(o)
  PROVE  mean[o][c] = Block(AllSamples(o)[c], 0, Binned(o))
<1>1. mean[o] = [d \in Components(o) |-> Block(AllSamples(o)[d], 0, Binned(o))]
  BY DEF PassInv, Taken
<1> QED
  BY <1>1

LEMMA BlockIsSubSeq ==
  ASSUME NEW s \in Seq(Named), NEW u \in [Nat -> Named],
         \A m \in 1 .. Len(s) : u[m] = s[m],
         NEW lo \in Nat, NEW hi \in Nat, lo <= hi, hi <= Len(s)
  PROVE  SubSeq(s, lo + 1, hi) = Block(u, lo, hi)
<1>1. Len(s) \in Nat
  BY LenProperties
<1>2. \A i \in lo + 1 .. hi : s[i] \in Named
  <2>1. ASSUME NEW i \in lo + 1 .. hi PROVE i \in 1 .. Len(s)
    BY <1>1
  <2> QED
    BY <2>1, ElementOfSeq
<1> DEFINE a == lo + 1
<1>3. a \in Int /\ hi \in Int /\ hi - a + 1 = hi - lo
  OBVIOUS
<1> HIDE DEF a
<1>4. /\ SubSeq(s, a, hi) \in Seq(Named)
      /\ Len(SubSeq(s, a, hi)) = IF a <= hi THEN hi - a + 1 ELSE 0
      /\ \A i \in 1 .. hi - a + 1 : SubSeq(s, a, hi)[i] = s[a + i - 1]
  BY <1>2, <1>3, SubSeqProperties DEF a
<1>5. Len(SubSeq(s, a, hi)) = hi - lo
  BY <1>3, <1>4 DEF a
<1>6. Block(u, lo, hi) \in Seq(Named) /\ Len(Block(u, lo, hi)) = hi - lo
  BY BlockShape
<1>7. ASSUME NEW i \in 1 .. hi - lo PROVE SubSeq(s, a, hi)[i] = Block(u, lo, hi)[i]
  <2>1. SubSeq(s, a, hi)[i] = s[a + i - 1] /\ a + i - 1 = lo + i
    BY <1>3, <1>4 DEF a
  <2>2. lo + i \in 1 .. Len(s)
    BY <1>1
  <2>3. Block(u, lo, hi)[i] = u[lo + i]
    BY DEF Block
  <2> QED
    BY <2>1, <2>2, <2>3
<1> QED
  BY <1>4, <1>5, <1>6, <1>7, SeqEqual DEF a

LEMMA PassesMakeBlocks == PassInv => SamplesInBlocks
<1> SUFFICES ASSUME PassInv, pass = "merged", replaced = 0,
                    NEW o \in found, AllIntact(o), NEW c \in Components(o)
             PROVE  /\ mean[o][c] = SubSeq(Usable(o, c), 1, count[o] * length[o])
                    /\ \A k \in 0 .. count[o] - 1 :
                         bins[o][k * VectorLength[o] + c] =
                           SubSeq(Usable(o, c), k * length[o] + 1, (k + 1) * length[o])
  BY DEF SamplesInBlocks
<1> DEFINE K == count[o]
           L == length[o]
           B == Binned(o)
           s == Usable(o, c)
           u == AllSamples(o)[c]
<1>1. /\ o \in Obs /\ K \in Nat /\ L \in Nat /\ B \in Nat /\ B = K * L
      /\ B <= total[o] /\ total[o] \in Nat
  BY BinsWell
<1>2. FilesTyped /\ NFiles \in 0 .. NFiles
  BY PassInvTypes
<1>3. PICK N : Borders(N, o)
  BY <1>1, <1>2, BordersExist
<1>4. /\ s \in Seq(Named) /\ Len(s) = N[NFiles]
      /\ u \in [Nat -> Named] /\ \A m \in 1 .. Len(s) : u[m] = s[m]
  <2>1. /\ AllSamples(o) \in [Components(o) -> [Nat -> Named]]
        /\ s \in Seq(Named) /\ Len(s) = N[NFiles]
        /\ \A m \in 1 .. N[NFiles] : u[m] = s[m]
    BY <1>1, <1>2, <1>3, SamplesAre
  <2> QED
    BY <2>1
<1>5. N[NFiles] \in Nat /\ total[o] <= N[NFiles]
  BY <1>1, <1>2, <1>3 DEF PassInv, Tallied, Borders
<1>6. B <= Len(s) /\ Len(s) \in Nat
  <2> HIDE DEF B
  <2> QED
    BY <1>1, <1>4, <1>5
<1>7. mean[o][c] = SubSeq(s, 1, K * L)
  <2>1. mean[o][c] = Block(u, 0, B)
    BY MeanIs
  <2> HIDE DEF s, u, B
  <2>2. SubSeq(s, 0 + 1, B) = Block(u, 0, B)
    <3>1. 0 \in Nat /\ B \in Nat /\ 0 <= B /\ B <= Len(s)
      BY <1>1, <1>6
    <3> QED
      BY <1>4, <3>1, BlockIsSubSeq, Zenon
  <2> QED
    BY <1>1, <2>1, <2>2
<1>8. ASSUME NEW k \in 0 .. K - 1
      PROVE  bins[o][k * VectorLength[o] + c] = SubSeq(s, k * L + 1, (k + 1) * L)
  <2> DEFINE lo == k * L
             hi == (k + 1) * L
  <2>1. k \in Nat /\ k + 1 \in Nat /\ k + 1 <= K
    BY <1>1
  <2>2. lo \in Nat /\ hi \in Nat /\ hi = lo + L /\ hi <= K * L
    BY <1>1, <2>1, Products
  <2>3. bins[o][k * VectorLength[o] + c] = Block(u, lo, lo + L)
    BY BinsAre
  <2>4. hi <= B
    BY <1>1, <2>2
  <2> HIDE DEF s, u, B, lo, hi, L
  <2>5. SubSeq(s, lo + 1, hi) = Block(u, lo, hi)
    <3>1. lo \in Nat /\ hi \in Nat /\ lo <= hi /\ hi <= Len(s)
      BY <1>1, <1>6, <2>2, <2>4
    <3> QED
      BY <1>4, <3>1, BlockIsSubSeq, Zenon
  <2>6. bins[o][k * VectorLength[o] + c] = SubSeq(s, lo + 1, hi)
    BY <2>2, <2>3, <2>5
  <2> QED
    BY <2>6 DEF lo, hi
<1> QED
  BY <1>7, <1>8

LEMMA PassesFillBins == PassInv => BinsFilled
<1> SUFFICES ASSUME PassInv PROVE BinsFilled
  OBVIOUS
<1>1. MetadataThere
  BY MetadataCame DEF PassInv
<1>2. ASSUME pass \in {"bins", "merged"}, NEW o \in found
      PROVE  counter[o] = count[o] * length[o]
  BY <1>2 DEF PassInv, Counted, Binned
<1>3. ASSUME pass = "merged", NEW o \in found
      PROVE  rebin[o] = count[o] /\ BinsBefore(bins[o], o, NFiles + 1)
  BY <1>3 DEF PassInv, Counted
<1>4. ASSUME pass = "merged", NEW o \in found, AllIntact(o)
      PROVE  /\ closed[o] = [j \in 1 .. count[o] * VectorLength[o] |-> j - 1]
             /\ \A b \in DOMAIN bins[o] :
                  /\ Len(bins[o][b]) = length[o]
                  /\ \A d \in DOMAIN bins[o] \ {b} :
                       ToSet(bins[o][b]) \cap ToSet(bins[o][d]) = {}
  <2> DEFINE L == length[o]
  <2>1. o \in Obs /\ count[o] \in Nat /\ L \in Nat
    BY <1>4, BinsWell
  <2>2. closed[o] = [j \in 1 .. count[o] * VectorLength[o] |-> j - 1]
    BY <1>4, BinsAre DEF Firsts
  <2>3. PICK U \in [Components(o) -> [Nat -> Named]] :
          \A k \in 0 .. count[o] - 1, d \in Components(o) :
            bins[o][k * VectorLength[o] + d] = Block(U[d], k * L, k * L + L)
    BY <1>4, BinsAre
  <2>4. /\ DOMAIN bins[o] = Slots(o, count[o])
        /\ \A x, y \in Slots(o, count[o]) :
             x # y => ToSet(bins[o][x]) \cap ToSet(bins[o][y]) = {}
    BY <1>3, <1>4 DEF BinsBefore
  <2>5. ASSUME NEW b \in Slots(o, count[o]) PROVE Len(bins[o][b]) = L
    <3>1. PICK k \in 0 .. count[o] - 1, d \in Components(o) : b = k * VectorLength[o] + d
      BY <2>1, SlotIs
    <3> DEFINE kL == k * L
    <3>2. k \in Nat /\ kL \in Nat
      BY <2>1, Products
    <3>3. bins[o][b] = Block(U[d], kL, kL + L)
      BY <2>3, <3>1
    <3>4. U[d] \in [Nat -> Named]
      OBVIOUS
    <3> HIDE DEF kL, L
    <3>5. Len(Block(U[d], kL, kL + L)) = (kL + L) - kL
      BY <2>1, <3>2, <3>4, BlockShape
    <3> QED
      BY <2>1, <3>2, <3>3, <3>5
  <2> QED
    BY <2>2, <2>4, <2>5
<1> QED
  BY <1>1, <1>2, <1>3, <1>4 DEF BinsFilled

LEMMA LeastExists ==
  ASSUME NEW S \in SUBSET Nat, S # {}
  PROVE  Min(S) \in S /\ \A j \in S : Min(S) <= j
<1>1. FirstHit(S) \in S /\ \A j \in S : FirstHit(S) <= j
  BY FirstExists
<1> DEFINE P(x) == \A y \in S : x =< y
<1>2. \E x \in S : P(x)
  BY <1>1
<1>3. Min(S) = CHOOSE x \in S : P(x)
  BY DEF Min
<1> QED
  BY <1>2, <1>3

\* No ingredient has less bins than the jackknife goes through.
LEMMA EvalBinsBound ==
  ASSUME PassInv, pass \notin {"collect", "rebin"}, NEW used \in SUBSET found,
         NEW o \in used
  PROVE  EvalBins(used) \in Nat /\ EvalBins(used) <= count[o]
<1> DEFINE S == {count[p] : p \in used}
<1>1. S \in SUBSET Nat /\ count[o] \in S
  BY BinsWell
<1>2. EvalBins(used) = Min(S)
  BY DEF EvalBins
<1> HIDE DEF S
<1>3. Min(S) \in S /\ Min(S) <= count[o]
  BY <1>1, LeastExists
<1> QED
  BY <1>1, <1>2, <1>3

\* Every sample is left out once.
LEMMA LeftOutOnce ==
  ASSUME PassInv, pass = "merged", NEW used \in SUBSET found, NEW o \in used,
         NEW c \in Components(o), NEW e \in CompleteData(used, o, c)
  PROVE  Cardinality({k \in 0 .. EvalBins(used) - 1 : e \notin JackedData(used, k, o, c)}) = 1
<1> DEFINE v == VectorLength[o]
           n == EvalBins(used)
           Bin(k) == ToSet(bins[o][k * v + c])
<1>1. n \in Nat /\ n <= count[o] /\ o \in Obs /\ count[o] \in Nat
  BY EvalBinsBound, BinsWell
<1>2. v \in Nat \ {0} /\ Components(o) = 0 .. v - 1
  BY <1>1, MergerAssumption DEF Components
<1>3. PICK k \in 0 .. n - 1 : e \in Bin(k)
  BY DEF CompleteData
<1>4. \A x, y \in Slots(o, count[o]) : x # y => ToSet(bins[o][x]) \cap ToSet(bins[o][y]) = {}
  BY DEF PassInv, Counted, BinsBefore
<1> HIDE DEF n
<1>5. ASSUME NEW j \in 0 .. n - 1, e \in Bin(j) PROVE j = k
  <2>1. j \in 0 .. count[o] - 1 /\ k \in 0 .. count[o] - 1 /\ j \in Nat /\ k \in Nat
    BY <1>1
  <2>2. j * v + c \in Slots(o, count[o]) /\ k * v + c \in Slots(o, count[o])
    BY <1>1, <2>1, SlotThere
  <2>3. j * v + c = k * v + c
    BY <1>3, <1>4, <1>5, <2>2
  <2> HIDE DEF v
  <2> QED
    BY <1>2, <2>1, <2>3, PlaceIsOne
<1>6. \A j : e \notin JackedData(used, j, o, c) <=> e \in Bin(j)
  BY DEF JackedData
<1> HIDE DEF Bin
<1>7. {j \in 0 .. n - 1 : e \notin JackedData(used, j, o, c)} = {k}
  BY <1>3, <1>5, <1>6
<1>8. Cardinality({k}) = 1
  BY FS_Singleton
<1> QED
  BY <1>7, <1>8 DEF n

LEMMA BlockHas ==
  ASSUME NEW u, NEW lo \in Nat, NEW hi \in Nat
  PROVE  \A e : e \in ToSet(Block(u, lo, hi)) <=> \E m \in lo + 1 .. hi : e = u[m]
<1> DEFINE s == Block(u, lo, hi)
<1>1. DOMAIN s = 1 .. hi - lo /\ \A j \in 1 .. hi - lo : s[j] = u[lo + j]
  BY DEF Block
<1>2. \A e : e \in ToSet(s) <=> \E j \in 1 .. hi - lo : e = s[j]
  BY <1>1 DEF ToSet
<1> HIDE DEF s
<1>3. ASSUME NEW e, e \in ToSet(s) PROVE \E m \in lo + 1 .. hi : e = u[m]
  <2>1. PICK j \in 1 .. hi - lo : e = s[j]
    BY <1>2, <1>3
  <2>2. lo + j \in lo + 1 .. hi /\ e = u[lo + j]
    BY <1>1, <2>1
  <2> QED
    BY <2>2
<1>4. ASSUME NEW m \in lo + 1 .. hi PROVE u[m] \in ToSet(s)
  <2>1. m - lo \in 1 .. hi - lo /\ lo + (m - lo) = m
    OBVIOUS
  <2>2. u[m] = s[m - lo]
    BY <1>1, <2>1
  <2> QED
    BY <1>2, <2>1, <2>2
<1> QED
  BY <1>3, <1>4 DEF s

\* Blocks one after the other leave nothing out.
LEMMA BlocksCover ==
  ASSUME NEW u, NEW K \in Nat, NEW L \in Nat
  PROVE  UNION {ToSet(Block(u, k * L, k * L + L)) : k \in 0 .. K - 1}
           = ToSet(Block(u, 0, K * L))
<1> DEFINE KL == K * L
           Part(k) == ToSet(Block(u, k * L, k * L + L))
<1>1. KL \in Nat
  BY Products
<1>2. ASSUME NEW k \in 0 .. K - 1
      PROVE  /\ k * L \in Nat /\ k * L + L <= KL
             /\ \A e : e \in Part(k) <=> \E m \in k * L + 1 .. k * L + L : e = u[m]
  <2>1. k \in Nat /\ k + 1 \in Nat /\ k + 1 <= K
    OBVIOUS
  <2>2. k * L \in Nat /\ (k + 1) * L = k * L + L /\ (k + 1) * L <= K * L
    BY <2>1, Products
  <2> DEFINE kL == k * L
  <2> HIDE DEF kL
  <2>3. \A e : e \in ToSet(Block(u, kL, kL + L)) <=> \E m \in kL + 1 .. kL + L : e = u[m]
    <3>1. kL \in Nat /\ kL + L \in Nat
      BY <2>2 DEF kL
    <3> QED
      BY <3>1, BlockHas
  <2> QED
    BY <2>2, <2>3 DEF kL
<1>3. \A e : e \in ToSet(Block(u, 0, KL)) <=> \E m \in 1 .. KL : e = u[m]
  <2> HIDE DEF KL
  <2>1. \A e : e \in ToSet(Block(u, 0, KL)) <=> \E m \in 0 + 1 .. KL : e = u[m]
    BY <1>1, BlockHas
  <2> QED
    BY <2>1
<1>4. ASSUME NEW k \in 0 .. K - 1, NEW e \in Part(k) PROVE e \in ToSet(Block(u, 0, KL))
  <2> DEFINE kL == k * L
  <2>1. kL \in Nat /\ kL + L <= KL
    BY <1>2
  <2>2. PICK m \in kL + 1 .. kL + L : e = u[m]
    BY <1>2
  <2> HIDE DEF kL, KL
  <2>3. m \in 1 .. KL
    BY <1>1, <2>1
  <2> QED
    BY <1>3, <2>2, <2>3
<1>5. ASSUME NEW m \in 1 .. KL PROVE \E k \in 0 .. K - 1 : u[m] \in Part(k)
  <2>1. L \in Nat \ {0}
    <3>1. L = 0 => KL = 0
      OBVIOUS
    <3> HIDE DEF KL
    <3> QED
      BY <3>1
  <2>2. m - 1 \in Nat
    BY <1>1
  <2>3. PICK k \in Nat, r \in 0 .. L - 1 : m - 1 = k * L + r
    BY <2>1, <2>2, PlaceExists
  <2> DEFINE kL == k * L
  <2>4. kL \in Nat /\ kL = L * k /\ KL = L * K
    <3>1. kL \in Nat
      BY <2>3, Products
    <3> QED
      BY <2>3, <3>1
  <2> HIDE DEF kL, KL
  <2>5. kL < KL /\ m \in kL + 1 .. kL + L
    BY <1>1, <2>1, <2>3, <2>4 DEF kL
  <2>6. k < K
    <3>1. L * k < L * K
      BY <2>4, <2>5
    <3> QED
      BY <2>1, <2>3, <3>1, Cancel
  <2>7. k \in 0 .. K - 1
    BY <2>3, <2>6
  <2>8. u[m] \in Part(k)
    BY <1>2, <2>5, <2>7 DEF kL
  <2> QED
    BY <2>7, <2>8
<1> HIDE DEF Part
<1>6. UNION {Part(k) : k \in 0 .. K - 1} = ToSet(Block(u, 0, KL))
  <2>1. ASSUME NEW e \in ToSet(Block(u, 0, KL))
        PROVE  \E k \in 0 .. K - 1 : e \in Part(k)
    BY <1>3, <1>5, <2>1
  <2> HIDE DEF KL
  <2> QED
    BY <1>4, <2>1
<1> QED
  BY <1>6 DEF Part

LEMMA PassesPart == PassInv => JackknifeParts
<1> SUFFICES ASSUME PassInv, pass = "merged", NEW used \in SUBSET found \ {{}},
                    NEW o \in used, NEW c \in Components(o)
             PROVE  /\ \A e \in CompleteData(used, o, c) :
                         Cardinality({k \in 0 .. EvalBins(used) - 1 :
                                        e \notin JackedData(used, k, o, c)}) = 1
                    /\ replaced = 0 /\ AllIntact(o) /\ EvalBins(used) = count[o] =>
                         CompleteData(used, o, c) = ToSet(mean[o][c])
  BY DEF JackknifeParts
<1>1. \A e \in CompleteData(used, o, c) :
        Cardinality({k \in 0 .. EvalBins(used) - 1 : e \notin JackedData(used, k, o, c)}) = 1
  BY LeftOutOnce
<1>2. ASSUME replaced = 0, AllIntact(o), EvalBins(used) = count[o]
      PROVE  CompleteData(used, o, c) = ToSet(mean[o][c])
  <2> DEFINE K == count[o]
             L == length[o]
             u == AllSamples(o)[c]
             Bin(k) == ToSet(bins[o][k * VectorLength[o] + c])
             Part(k) == ToSet(Block(u, k * L, k * L + L))
  <2>1. o \in found /\ o \in Obs /\ K \in Nat /\ L \in Nat /\ Binned(o) = K * L
    BY BinsWell
  <2>2. \A k \in 0 .. K - 1 : Bin(k) = Part(k)
    BY <1>2, <2>1, BinsAre
  <2>3. mean[o][c] = Block(u, 0, K * L)
    BY <1>2, <2>1, MeanIs
  <2>4. CompleteData(used, o, c) = UNION {Bin(k) : k \in 0 .. K - 1}
    BY <1>2 DEF CompleteData
  <2>5. UNION {Part(k) : k \in 0 .. K - 1} = ToSet(Block(u, 0, K * L))
    <3> HIDE DEF u, K, L
    <3> QED
      BY <2>1, BlocksCover
  <2> HIDE DEF Bin, Part, K, L, u
  <2>6. {Bin(k) : k \in 0 .. K - 1} = {Part(k) : k \in 0 .. K - 1}
    BY <2>2
  <2> QED
    BY <2>3, <2>4, <2>5, <2>6
<1> QED
  BY <1>1, <1>2

\* Three passes that each open the files anew and count on their own cut the
\* samples alike: whatever the numbers of files, observables and samples are, what
\* merge() returns of undamaged files that nobody wrote to meanwhile are bins that
\* are consecutive blocks of the samples, across the borders of the files and for
\* each component, and a mean over just these samples (merger.cpp:117-209).
THEOREM SamplesAlwaysInBlocks == Spec => []SamplesInBlocks
BY PassInvHolds, PassesMakeBlocks, PTL

\* The assertions of merge() hold (merger.cpp:148, 209) although the simulation may
\* replace any file by a longer one between any two steps and files may be damaged,
\* and every bin of undamaged files is closed once, full, and shares no sample with
\* another.
THEOREM BinsAlwaysFilled == Spec => []BinsFilled
BY PassInvHolds, PassesFillBins, PTL

\* The jackknife of an evalable leaves every sample it is made from out of exactly
\* one of its estimates, whichever observables it uses, and the poorest of them gives
\* it just the samples of its own mean (evalable.cpp:44-95).
THEOREM JackknifeAlwaysParts == Spec => []JackknifeParts
BY PassInvHolds, PassesPart, PTL
=============================================================================
