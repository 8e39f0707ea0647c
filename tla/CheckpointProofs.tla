-------------------------- MODULE CheckpointProofs --------------------------
(***************************************************************************)
(* The files of a run, for any bin length, vector length, thermalization,  *)
(* number of sweeps and of launches.                                       *)
(***************************************************************************)
EXTENDS Checkpoint, SequenceTheorems, FiniteSetTheorems, TLAPS

\* The measured sweeps of the running simulation, and of a dump.
Now == MeasuredSweeps(sweep, Therm)
SweepsIn(d) == MeasuredSweeps(SweepOf(d), Therm)

\* The first k bins.
Bins(k) == [j \in 1 .. k * VectorLength |->
              [i \in 1 .. BinLength |-> ((j - 1) \div VectorLength) * BinLength + i]]

\* The observable after n measured sweeps of which the first k bins are in a file.
Sums(n, k) == [j \in 1 .. (n \div BinLength - k + 1) * VectorLength |->
                 SweepsOfBin(k + (j - 1) \div VectorLength, n)]
Grown(n, k) == [ vlen    |-> VectorLength, bin |-> n \div BinLength - k,
                 filling |-> n % BinLength, samples |-> Sums(n, k) ]
Held(n, k) == IF n = 0 THEN Registered ELSE Grown(n, k)

\* Dump d is that of the simulation as it was at its sweep.
DumpRight(d) ==
  d \in DumpFiles /\ d.obs = Dumped(Held(SweepsIn(d), SweepsIn(d) \div BinLength))

Behind == {"write_dump", "rename_dump", "rename_meas"}

\* What can be in the files.
FileTypes ==
  /\ pc \in WriteSteps \cup {"down", "run"} /\ sweep \in Nat
  /\ meas \in MeasFiles \cup {None} /\ measTmp \in MeasFiles \cup {None, Corrupt}
  /\ pc \in Behind => measTmp \in MeasFiles
  /\ dump # None => DumpRight(dump)
  /\ pc = "rename_dump" => DumpRight(dumpTmp) /\ SweepOf(dumpTmp) = sweep
  /\ pc = "rename_meas" => dump # None /\ SweepOf(dump) = sweep

\* The observable holds the bins from some bin on.
Buffered ==
  /\ pc # "down" => /\ obs.bin \in 0 .. Now \div BinLength
                    /\ obs = Held(Now, Now \div BinLength - obs.bin)
  /\ pc \in Behind => obs.bin = 0

Inv == FileTypes /\ Buffered

\* The measurement file holds the bins before those, and those of the dump.
Appends ==
  /\ pc \in {"run", "copy_meas", "append_meas"} =>
       Content(meas) = Bins(Now \div BinLength - obs.bin)
  /\ pc = "append_meas" /\ measTmp # Corrupt => Content(measTmp) = Content(meas)
  /\ pc \in Behind => measTmp = Bins(Now \div BinLength)
  /\ dump # None /\ pc # "rename_meas" =>
       meas # None /\ meas = Bins(SweepsIn(dump) \div BinLength)

\* Without a measurement file nothing was swept, and there are no bins to append to.
FirstCheckpoint ==
  /\ dump = None => meas = None
  /\ meas = None => /\ measTmp \in {None, Corrupt, << >>}
                    /\ pc # "run" /\ (pc # "down" => sweep = 0)

FilesInv == Appends /\ FirstCheckpoint

-----------------------------------------------------------------------------
(* Arithmetic.                                                             *)

LEMMA DivMod ==
  ASSUME NEW n \in Nat, NEW b \in Nat \ {0}
  PROVE  /\ n \div b \in Nat /\ n % b \in 0 .. b - 1
         /\ n = (n \div b) * b + (n % b)
OBVIOUS

LEMMA DivUnique ==
  ASSUME NEW b \in Nat \ {0}, NEW q \in Nat, NEW r \in 0 .. b - 1,
         NEW n \in Nat, n = q * b + r
  PROVE  n \div b = q /\ n % b = r
OBVIOUS

LEMMA DivExact ==
  ASSUME NEW b \in Nat \ {0}, NEW q \in Nat, NEW n \in Nat, n = q * b
  PROVE  n \div b = q /\ n % b = 0
OBVIOUS

\* Counting on by one fills the bin in hand or starts the next.
LEMMA DivNext ==
  ASSUME NEW n \in Nat, NEW b \in Nat \ {0}
  PROVE  /\ (n % b) + 1 = b => (n + 1) \div b = n \div b + 1 /\ (n + 1) % b = 0
         /\ (n % b) + 1 # b => (n + 1) \div b = n \div b /\ (n + 1) % b = (n % b) + 1
<1> DEFINE q == n \div b
           r == n % b
<1>1. q \in Nat /\ r \in 0 .. b - 1 /\ n = q * b + r
  BY DivMod
<1> HIDE DEF q, r
<1>2. CASE r + 1 = b
  <2>1. n + 1 = (q + 1) * b
    BY <1>1, <1>2
  <2>2. 0 \in 0 .. b - 1 /\ q + 1 \in Nat /\ n + 1 \in Nat
    BY <1>1
  <2>3. (n + 1) \div b = q + 1 /\ (n + 1) % b = 0
    BY <2>1, <2>2, DivExact
  <2> QED
    BY <1>2, <2>3 DEF q, r
<1>3. CASE r + 1 # b
  <2>1. n + 1 = q * b + (r + 1) /\ r + 1 \in 0 .. b - 1 /\ n + 1 \in Nat
    BY <1>1, <1>3
  <2>2. (n + 1) \div b = q /\ (n + 1) % b = r + 1
    BY <1>1, <2>1, DivUnique
  <2> QED
    BY <1>3, <2>2 DEF q, r
<1> QED
  BY <1>2, <1>3, Zenon DEF q, r

\* Component j of the buffer belongs to bin (j-1) \div v.
LEMMA BinOf ==
  ASSUME NEW v \in Nat \ {0}, NEW k \in Nat, NEW j \in Nat \ {0}
  PROVE  LET q == (j - 1) \div v
         IN  /\ q \in Nat
             /\ j <= k * v <=> q < k
             /\ (j + k * v - 1) \div v = q + k
<1> DEFINE i == j - 1
           q == i \div v
           r == i % v
<1>0. i \in Nat
  OBVIOUS
<1> HIDE DEF i
<1>1. q \in Nat /\ r \in 0 .. v - 1 /\ i = q * v + r
  BY <1>0, DivMod
<1> HIDE DEF q, r
<1>2. /\ j + k * v - 1 = (q + k) * v + r /\ q + k \in Nat
      /\ j + k * v - 1 \in Nat
  BY <1>1 DEF i
<1>3. (j + k * v - 1) \div v = q + k
  BY <1>1, <1>2, DivUnique
<1>4. CASE q < k
  <2>1. q + 1 <= k
    BY <1>1, <1>4
  <2>2. (q + 1) * v <= k * v
    BY <1>1, <2>1
  <2> QED
    BY <1>1, <1>3, <1>4, <2>2 DEF q, i
<1>5. CASE ~(q < k)
  <2>1. k * v <= q * v
    BY <1>1, <1>5
  <2> QED
    BY <1>1, <1>3, <1>5, <2>1 DEF q, i
<1> QED
  BY <1>4, <1>5

-----------------------------------------------------------------------------
(* The bins of an observable.                                              *)

\* The first m sweeps of bin b.
Part(b, m) == [i \in 1 .. m |-> b * BinLength + i]

LEMMA PartIsSeq ==
  ASSUME NEW b \in Nat, NEW m \in Nat
  PROVE  Part(b, m) \in Seq(Nat) /\ Len(Part(b, m)) = m
BY CheckpointAssumption DEF Part

\* Bins before the one in hand are complete.
LEMMA BinSums ==
  ASSUME NEW n \in Nat, NEW b \in 0 .. n \div BinLength
  PROVE  SweepsOfBin(b, n)
           = Part(b, IF b < n \div BinLength THEN BinLength ELSE n % BinLength)
<1> DEFINE q == n \div BinLength
           r == n % BinLength
<1>1. BinLength \in Nat \ {0}
  BY CheckpointAssumption
<1>2. q \in Nat /\ r \in 0 .. BinLength - 1 /\ n = q * BinLength + r
  BY <1>1, DivMod
<1> HIDE DEF q, r
<1>3. b \in 0 .. q
  BY DEF q
<1>4. CASE b < q
  <2>1. (b + 1) * BinLength <= q * BinLength
    BY <1>1, <1>2, <1>3, <1>4
  <2>2. n - b * BinLength >= BinLength
    BY <1>1, <1>2, <1>3, <2>1
  <2>3. AtMost(BinLength, n - b * BinLength) = BinLength
    BY <2>2 DEF AtMost
  <2> QED
    BY <1>4, <2>3 DEF SweepsOfBin, Part, q
<1>5. CASE b = q
  <2>1. n - b * BinLength = r
    BY <1>1, <1>2, <1>5
  <2>2. AtMost(BinLength, n - b * BinLength) = r
    BY <1>1, <1>2, <2>1 DEF AtMost
  <2> QED
    BY <1>2, <1>5, <2>2 DEF SweepsOfBin, Part, q, r
<1> QED
  BY <1>2, <1>3, <1>4, <1>5

\* One more sweep in the bin in hand.
LEMMA PartGrows ==
  ASSUME NEW b \in Nat, NEW m \in Nat, NEW e \in Nat, e = b * BinLength + m + 1
  PROVE  Append(Part(b, m), e) = Part(b, m + 1)
<1>1. Part(b, m) \in Seq(Nat) /\ Len(Part(b, m)) = m
  BY PartIsSeq
<1>2. Part(b, m + 1) \in Seq(Nat) /\ Len(Part(b, m + 1)) = m + 1
  BY m + 1 \in Nat, PartIsSeq
<1>3. /\ Append(Part(b, m), e) \in Seq(Nat) /\ Len(Append(Part(b, m), e)) = m + 1
      /\ Append(Part(b, m), e)[m + 1] = e
      /\ \A i \in 1 .. m : Append(Part(b, m), e)[i] = Part(b, m)[i]
  BY <1>1, AppendProperties
<1>4. \A i \in 1 .. m + 1 : Append(Part(b, m), e)[i] = Part(b, m + 1)[i]
  <2> TAKE i \in 1 .. m + 1
  <2>1. CASE i = m + 1
    BY <1>3, <2>1, CheckpointAssumption DEF Part
  <2>2. CASE i \in 1 .. m
    BY <1>3, <2>2 DEF Part
  <2>3. i = m + 1 \/ i \in 1 .. m
    OBVIOUS
  <2> QED
    BY <2>1, <2>2, <2>3, Zenon
<1> QED
  BY <1>2, <1>3, <1>4, SeqEqual

\* The component that the bin in hand starts with, and the one behind it.
LEMMA InHand ==
  ASSUME NEW q \in Nat, NEW k \in 0 .. q, NEW j \in 1 .. (q - k + 1) * VectorLength
  PROVE  /\ k + (j - 1) \div VectorLength \in 0 .. q
         /\ j \in (q - k) * VectorLength + 1 .. (q - k + 1) * VectorLength
              <=> k + (j - 1) \div VectorLength = q
<1> DEFINE b == (j - 1) \div VectorLength
<1>1. /\ VectorLength \in Nat \ {0} /\ j \in Nat \ {0}
      /\ q - k \in Nat /\ q - k + 1 \in Nat
      /\ (q - k) * VectorLength \in Nat /\ (q - k + 1) * VectorLength \in Nat
  BY CheckpointAssumption
<1>2. b \in Nat /\ \A m \in Nat : j <= m * VectorLength <=> b < m
  BY <1>1, BinOf
<1> HIDE DEF b
<1>3. b < q - k + 1 /\ (j <= (q - k) * VectorLength <=> b < q - k)
  BY <1>1, <1>2
<1> QED
  BY <1>1, <1>2, <1>3 DEF b

\* An observable that is not sized yet is the one of no sweeps.
LEMMA SizedHeld ==
  ASSUME NEW n \in Nat, NEW k \in 0 .. n \div BinLength
  PROVE  Sized(Held(n, k), VectorLength) = Grown(n, k)
<1> USE CheckpointAssumption
<1>1. CASE n # 0
  BY <1>1 DEF Held, Grown, Sized
<1>2. CASE n = 0
  <2>1. 0 \div BinLength = 0 /\ 0 % BinLength = 0 /\ k = 0
    BY <1>2, DivExact, 0 = 0 * BinLength
  <2>2. (0 \div BinLength - 0 + 1) * VectorLength = VectorLength
    BY <2>1
  <2>3. \A j \in 1 .. VectorLength : SweepsOfBin(0 + (j - 1) \div VectorLength, 0) = << >>
    <3> TAKE j \in 1 .. VectorLength
    <3>1. (j - 1) \div VectorLength = 0
      BY DivUnique, j - 1 = 0 * VectorLength + (j - 1), j - 1 \in Nat
    <3>2. SweepsOfBin(0, 0) = Part(0, 0)
      BY <2>1, BinSums
    <3> QED
      BY <3>1, <3>2 DEF Part
  <2>4. Resized(<< >>, VectorLength) = [j \in 1 .. VectorLength |-> << >>]
    BY DEF Resized
  <2>5. Sums(0, 0) = [j \in 1 .. VectorLength |-> << >>]
    BY <2>2, <2>3 DEF Sums
  <2>6. Sized(Registered, VectorLength)
          = [vlen |-> VectorLength, bin |-> 0, filling |-> 0,
             samples |-> Resized(<< >>, VectorLength)]
    BY DEF Sized, Registered
  <2>7. Grown(0, 0) = [vlen |-> VectorLength, bin |-> 0, filling |-> 0, samples |-> Sums(0, 0)]
    BY <2>1 DEF Grown
  <2> QED
    BY <1>2, <2>1, <2>4, <2>5, <2>6, <2>7 DEF Held
<1> QED
  BY <1>1, <1>2

LEMMA SumsIsSeq ==
  ASSUME NEW n \in Nat, NEW k \in 0 .. n \div BinLength
  PROVE  /\ Sums(n, k) \in Seq(Seq(Nat))
         /\ Len(Sums(n, k)) = (n \div BinLength - k + 1) * VectorLength
         /\ (n \div BinLength - k + 1) * VectorLength \in Nat \ {0}
         /\ DOMAIN Sums(n, k) = 1 .. (n \div BinLength - k + 1) * VectorLength
<1> DEFINE q == n \div BinLength
           m == (q - k + 1) * VectorLength
<1>1. q \in Nat /\ n % BinLength \in 0 .. BinLength - 1 /\ BinLength \in Nat \ {0}
  BY CheckpointAssumption, DivMod
<1>2. m \in Nat \ {0} /\ k \in 0 .. q
  <2>1. q - k + 1 \in Nat \ {0} /\ VectorLength \in Nat \ {0} /\ k \in 0 .. q
    BY <1>1, CheckpointAssumption
  <2> QED
    BY <2>1
<1>3. \A j \in 1 .. m : SweepsOfBin(k + (j - 1) \div VectorLength, n) \in Seq(Nat)
  <2> TAKE j \in 1 .. m
  <2> DEFINE b == k + (j - 1) \div VectorLength
  <2>1. b \in 0 .. q
    BY <1>1, <1>2, InHand
  <2> HIDE DEF b
  <2>2. SweepsOfBin(b, n) = Part(b, IF b < q THEN BinLength ELSE n % BinLength)
    BY <2>1, BinSums
  <2>3. b \in Nat /\ (IF b < q THEN BinLength ELSE n % BinLength) \in Nat
    BY <1>1, <2>1
  <2>4. SweepsOfBin(b, n) \in Seq(Nat)
    BY <2>2, <2>3, PartIsSeq
  <2> QED
    BY <2>4 DEF b
<1>4. Sums(n, k) = [j \in 1 .. m |-> SweepsOfBin(k + (j - 1) \div VectorLength, n)]
  BY DEF Sums
<1> HIDE DEF m
<1>5. Sums(n, k) \in Seq(Seq(Nat)) /\ Len(Sums(n, k)) = m /\ DOMAIN Sums(n, k) = 1 .. m
  BY <1>2, <1>3, <1>4
<1> QED
  BY <1>2, <1>5 DEF m

\* observable::add of sweep n + 1 makes the observable that of n + 1 sweeps.
LEMMA AddedHeld ==
  ASSUME NEW n \in Nat, NEW k \in 0 .. n \div BinLength
  PROVE  /\ Added(Held(n, k), n + 1, VectorLength, BinLength) = Held(n + 1, k)
         /\ k \in 0 .. (n + 1) \div BinLength
<1> DEFINE q  == n \div BinLength
           r  == n % BinLength
           q1 == (n + 1) \div BinLength
           r1 == (n + 1) % BinLength
           m  == (q - k + 1) * VectorLength
           hand == (q - k) * VectorLength + 1 .. (q - k + 1) * VectorLength
           sums == [j \in 1 .. m |->
                      IF j \in hand THEN Append(Sums(n, k)[j], n + 1) ELSE Sums(n, k)[j]]
<1>0. BinLength \in Nat \ {0} /\ VectorLength \in Nat \ {0} /\ n + 1 \in Nat
  BY CheckpointAssumption
<1>a. q \in Nat /\ r \in 0 .. BinLength - 1 /\ n = q * BinLength + r
  BY <1>0, DivMod
<1>b. q1 \in Nat /\ r1 \in 0 .. BinLength - 1
  BY <1>0, DivMod
<1>c. /\ r + 1 = BinLength => q1 = q + 1 /\ r1 = 0
      /\ r + 1 # BinLength => q1 = q /\ r1 = r + 1
  BY <1>0, DivNext
<1>d. k \in 0 .. q
  OBVIOUS
<1> HIDE DEF q, r, q1, r1
<1>1. /\ BinLength \in Nat \ {0} /\ VectorLength \in Nat \ {0} /\ n + 1 \in Nat
      /\ q \in Nat /\ r \in 0 .. BinLength - 1 /\ n = q * BinLength + r
      /\ q1 \in Nat /\ r1 \in 0 .. BinLength - 1
      /\ r + 1 = BinLength => q1 = q + 1 /\ r1 = 0
      /\ r + 1 # BinLength => q1 = q /\ r1 = r + 1
  BY <1>0, <1>a, <1>b, <1>c, Zenon
<1>2. k \in 0 .. q /\ k \in 0 .. q1 /\ n + 1 = q * BinLength + r + 1
  BY <1>d, <1>1
<1>3. Added(Held(n, k), n + 1, VectorLength, BinLength)
        = IF r + 1 = BinLength
          THEN [Grown(n, k) EXCEPT !.bin = @ + 1, !.filling = 0,
                                   !.samples = Resized(sums, (q - k + 2) * VectorLength)]
          ELSE [Grown(n, k) EXCEPT !.filling = @ + 1, !.samples = sums]
  <2>1. Sized(Held(n, k), VectorLength) = Grown(n, k)
    BY SizedHeld
  <2>2. DOMAIN Grown(n, k).samples = 1 .. m
    BY SumsIsSeq DEF Grown, q
  <2> QED
    BY <2>1, <2>2 DEF Added, Grown, q, r
<1>4. \A j \in 1 .. m : sums[j] = SweepsOfBin(k + (j - 1) \div VectorLength, n + 1)
  <2> TAKE j \in 1 .. m
  <2> DEFINE b == k + (j - 1) \div VectorLength
  <2>1. b \in 0 .. q /\ (j \in hand <=> b = q)
    BY <1>1, <1>2, InHand
  <2>2. Sums(n, k)[j] = SweepsOfBin(b, n)
    BY DEF Sums, q
  <2> HIDE DEF b
  <2>3. CASE b = q
    <3>1. SweepsOfBin(b, n) = Part(q, r)
      BY <1>1, <2>1, <2>3, BinSums DEF q, r
    <3>2. Append(Part(q, r), n + 1) = Part(q, r + 1)
      <4>1. r \in Nat
        BY <1>1
      <4> QED
        BY <1>1, <1>2, <4>1, PartGrows
    <3>3. SweepsOfBin(q, n + 1) = Part(q, IF q < q1 THEN BinLength ELSE r1)
      <4>1. q \in 0 .. q1
        BY <1>1
      <4> QED
        BY <1>1, <4>1, BinSums DEF q1, r1
    <3>4. (IF q < q1 THEN BinLength ELSE r1) = r + 1
      BY <1>1
    <3>5. sums[j] = Append(Sums(n, k)[j], n + 1)
      BY <2>1, <2>3
    <3>6. sums[j] = Part(q, r + 1)
      BY <2>2, <3>1, <3>2, <3>5
    <3> QED
      BY <2>3, <3>3, <3>4, <3>6 DEF b
  <2>4. CASE b < q
    <3>1. SweepsOfBin(b, n) = Part(b, BinLength)
      BY <2>1, <2>4, BinSums DEF q
    <3>2. SweepsOfBin(b, n + 1) = Part(b, BinLength)
      <4>1. b \in 0 .. q1 /\ b < q1
        BY <1>1, <2>1, <2>4
      <4> QED
        BY <1>1, <4>1, BinSums DEF q1
    <3>3. sums[j] = Sums(n, k)[j]
      BY <1>1, <2>1, <2>4
    <3> QED
      BY <2>2, <3>1, <3>2, <3>3 DEF b
  <2> QED
    BY <1>1, <2>1, <2>3, <2>4
<1> HIDE DEF sums, hand
<1>5. CASE r + 1 = BinLength
  <2>1. q1 = q + 1 /\ r1 = 0 /\ q1 - k = q - k + 1 /\ q1 - k + 1 = q - k + 2
    BY <1>1, <1>2, <1>5
  <2>2. Resized(sums, (q - k + 2) * VectorLength) = Sums(n + 1, k)
    <3>1. /\ (q - k + 2) * VectorLength = m + VectorLength /\ m \in Nat
          /\ (q1 - k + 1) * VectorLength = m + VectorLength
      BY <1>1, <1>2, <2>1
    <3>2. Len(sums) = m
      BY <3>1 DEF sums
    <3>3. \A j \in 1 .. m + VectorLength : ~(j <= m) =>
             SweepsOfBin(k + (j - 1) \div VectorLength, n + 1) = << >>
      <4> TAKE j \in 1 .. m + VectorLength
      <4> HAVE ~(j <= m)
      <4> DEFINE b == (j - 1) \div VectorLength
      <4>1. /\ j \in Nat \ {0} /\ q - k + 1 \in Nat /\ q - k + 2 \in Nat
            /\ j <= (q - k + 2) * VectorLength
        BY <1>1, <1>2, <3>1
      <4>2. b \in Nat /\ b < q - k + 2 /\ ~(b < q - k + 1)
        BY <1>1, <4>1, BinOf
      <4> HIDE DEF b
      <4>3. k + b = q1
        BY <1>1, <1>2, <2>1, <4>2
      <4>4. SweepsOfBin(q1, n + 1) = Part(q1, r1)
        <5>1. q1 \in 0 .. q1 /\ ~(q1 < q1)
          BY <1>1
        <5> QED
          BY <1>1, <5>1, BinSums DEF q1, r1
      <4>5. Part(q1, r1) = << >>
        BY <2>1 DEF Part
      <4> QED
        BY <4>3, <4>4, <4>5 DEF b
    <3>4. \A j \in 1 .. m + VectorLength :
            (IF j <= m THEN sums[j] ELSE << >>)
              = SweepsOfBin(k + (j - 1) \div VectorLength, n + 1)
      <4> TAKE j \in 1 .. m + VectorLength
      <4>1. CASE j <= m
        <5>1. j \in 1 .. m
          BY <3>1, <4>1
        <5> QED
          BY <1>4, <4>1, <5>1
      <4>2. CASE ~(j <= m)
        BY <3>3, <4>2
      <4> QED
        BY <4>1, <4>2
    <3> HIDE DEF m
    <3> QED
      BY <3>1, <3>2, <3>4 DEF Resized, Sums, q1
  <2>3. Added(Held(n, k), n + 1, VectorLength, BinLength)
          = [vlen |-> VectorLength, bin |-> q1 - k, filling |-> r1, samples |-> Sums(n + 1, k)]
    BY <1>3, <1>5, <2>1, <2>2 DEF Grown, q
  <2> QED
    BY <1>1, <2>3 DEF Held, Grown, q1, r1
<1>6. CASE r + 1 # BinLength
  <2>1. q1 = q /\ r1 = r + 1
    BY <1>1, <1>6
  <2>2. sums = Sums(n + 1, k)
    BY <1>4, <2>1 DEF Sums, sums, q1
  <2>3. Added(Held(n, k), n + 1, VectorLength, BinLength)
          = [vlen |-> VectorLength, bin |-> q1 - k, filling |-> r1, samples |-> Sums(n + 1, k)]
    BY <1>3, <1>6, <2>1, <2>2 DEF Grown, q, r
  <2> QED
    BY <1>1, <2>3 DEF Held, Grown, q1, r1
<1> QED
  BY <1>2, <1>5, <1>6 DEF q1

\* Component j of what is held belongs to bin k + (j-1) \div VectorLength.
LEMMA SumsOfBin ==
  ASSUME NEW n \in Nat, NEW k \in 0 .. n \div BinLength,
         NEW j \in 1 .. (n \div BinLength - k + 1) * VectorLength
  PROVE  LET b == k + (j - 1) \div VectorLength
         IN  /\ b \in 0 .. n \div BinLength
             /\ b < n \div BinLength <=> j <= (n \div BinLength - k) * VectorLength
             /\ Sums(n, k)[j] = Part(b, IF b < n \div BinLength THEN BinLength
                                        ELSE n % BinLength)
<1> DEFINE q == n \div BinLength
           b == k + (j - 1) \div VectorLength
<1>1. q \in Nat /\ k \in 0 .. q /\ (q - k) * VectorLength \in Nat
      /\ j \in 1 .. (q - k + 1) * VectorLength
  <2>1. q \in Nat /\ k \in 0 .. q /\ j \in 1 .. (q - k + 1) * VectorLength
    BY CheckpointAssumption, DivMod
  <2>2. q - k \in Nat /\ VectorLength \in Nat
    BY <2>1, CheckpointAssumption
  <2> QED
    BY <2>1, <2>2
<1>2. Sums(n, k)[j] = SweepsOfBin(b, n)
  BY DEF Sums
<1> HIDE DEF q
<1>3. /\ b \in 0 .. q
      /\ j \in (q - k) * VectorLength + 1 .. (q - k + 1) * VectorLength <=> b = q
  BY <1>1, InHand
<1> HIDE DEF b
<1>4. b < q <=> j <= (q - k) * VectorLength
  BY <1>1, <1>3
<1>5. SweepsOfBin(b, n) = Part(b, IF b < q THEN BinLength ELSE n % BinLength)
  BY <1>3, BinSums DEF q
<1> QED
  BY <1>2, <1>3, <1>4, <1>5 DEF b, q

\* As BufferFits wants it.
LEMMA HeldFits ==
  ASSUME NEW n \in Nat, NEW k \in 0 .. n \div BinLength
  PROVE  LET o == Held(n, k)
         IN  /\ Len(o.samples) = (o.bin + 1) * o.vlen
             /\ \A j \in DOMAIN o.samples :
                  Len(o.samples[j]) = IF j <= o.bin * o.vlen THEN BinLength ELSE o.filling
<1> DEFINE q == n \div BinLength
           m == (q - k + 1) * VectorLength
<1>1. CASE n = 0
  BY <1>1 DEF Held, Registered
<1>2. CASE n # 0
  <2>1. /\ Held(n, k).vlen = VectorLength /\ Held(n, k).bin = q - k
        /\ Held(n, k).filling = n % BinLength /\ Held(n, k).samples = Sums(n, k)
    BY <1>2 DEF Held, Grown
  <2>2. Len(Sums(n, k)) = m /\ DOMAIN Sums(n, k) = 1 .. m
    BY SumsIsSeq
  <2>3. \A j \in 1 .. m : Len(Sums(n, k)[j])
           = IF j <= (q - k) * VectorLength THEN BinLength ELSE n % BinLength
    <3> TAKE j \in 1 .. m
    <3> DEFINE b == k + (j - 1) \div VectorLength
    <3>1. /\ b \in 0 .. q /\ (b < q <=> j <= (q - k) * VectorLength)
          /\ Sums(n, k)[j] = Part(b, IF b < q THEN BinLength ELSE n % BinLength)
      BY SumsOfBin
    <3> HIDE DEF b
    <3>2. b \in Nat /\ BinLength \in Nat /\ n % BinLength \in Nat
      BY <3>1, CheckpointAssumption, DivMod
    <3> QED
      BY <3>1, <3>2, PartIsSeq
  <2> QED
    BY <2>1, <2>2, <2>3
<1> QED
  BY <1>1, <1>2

LEMMA BinsIsSeq ==
  ASSUME NEW k \in Nat
  PROVE  /\ Bins(k) \in Seq(Seq(Nat)) /\ Len(Bins(k)) = k * VectorLength
         /\ k * VectorLength \in Nat
         /\ \A j \in 1 .. k * VectorLength :
              Bins(k)[j] = Part((j - 1) \div VectorLength, BinLength)
<1>1. k * VectorLength \in Nat /\ VectorLength \in Nat \ {0} /\ BinLength \in Nat
  BY CheckpointAssumption
<1>2. \A j \in 1 .. k * VectorLength : (j - 1) \div VectorLength \in Nat
  BY <1>1, BinOf
<1>3. Bins(k) = [j \in 1 .. k * VectorLength |-> Part((j - 1) \div VectorLength, BinLength)]
  BY DEF Bins, Part
<1>4. \A j \in 1 .. k * VectorLength : Part((j - 1) \div VectorLength, BinLength) \in Seq(Nat)
  BY <1>1, <1>2, PartIsSeq
<1> QED
  BY <1>1, <1>3, <1>4

\* measurement_write appends what is missing, ...
LEMMA CompleteHeld ==
  ASSUME NEW n \in Nat, NEW k \in 0 .. n \div BinLength
  PROVE  Bins(k) \o CompleteBins(Held(n, k)) = Bins(n \div BinLength)
<1> DEFINE q == n \div BinLength
           o == Held(n, k)
<1>1. /\ VectorLength \in Nat \ {0} /\ BinLength \in Nat \ {0} /\ q \in Nat /\ k \in 0 .. q
      /\ k \in Nat /\ q - k \in Nat
  BY CheckpointAssumption, DivMod
<1>2. CASE n = 0
  <2>1. CompleteBins(o) = << >>
    BY <1>2 DEF CompleteBins, HasCompleteBins, Held, Registered
  <2>2. q = 0 /\ k = 0
    BY <1>1, <1>2, DivExact, 0 = 0 * BinLength
  <2> QED
    BY <1>1, <2>1, <2>2, BinsIsSeq
<1>3. CASE n # 0
  <2>1. o.vlen = VectorLength /\ o.bin = q - k /\ o.samples = Sums(n, k)
    BY <1>3 DEF Held, Grown
  <2>2. Len(Sums(n, k)) = (q - k + 1) * VectorLength
    BY SumsIsSeq
  <2> DEFINE m == (q - k) * VectorLength
  <2>3. m \in Nat /\ Len(Sums(n, k)) = m + VectorLength
    BY <1>1, <2>2
  <2>4. CompleteBins(o) = [j \in 1 .. m |-> Sums(n, k)[j]]
    <3>1. HasCompleteBins(o) <=> m > 0
      BY <1>1, <2>1, <2>3 DEF HasCompleteBins
    <3>2. CASE m > 0
      BY <2>1, <2>3, <3>1, <3>2, <1>1 DEF CompleteBins, Resized
    <3>3. CASE m = 0
      BY <3>1, <3>3 DEF CompleteBins
    <3> QED
      BY <2>3, <3>2, <3>3
  <2>5. \A j \in 1 .. m : Sums(n, k)[j] = Part(k + (j - 1) \div VectorLength, BinLength)
    <3> TAKE j \in 1 .. m
    <3>1. j \in 1 .. (q - k + 1) * VectorLength
      BY <2>2, <2>3, <1>1
    <3> QED
      BY <3>1, SumsOfBin
  <2>6. /\ CompleteBins(o) \in Seq(Seq(Nat)) /\ Len(CompleteBins(o)) = m
        /\ \A j \in 1 .. m :
             CompleteBins(o)[j] = Part(k + (j - 1) \div VectorLength, BinLength)
    <3> HIDE DEF m
    <3>1. \A j \in 1 .. m : k + (j - 1) \div VectorLength \in Nat
      <4> TAKE j \in 1 .. m
      <4>1. j \in Nat \ {0}
        BY <2>3
      <4>2. (j - 1) \div VectorLength \in Nat
        BY <1>1, <4>1, BinOf
      <4> QED
        BY <1>1, <4>2
    <3>2. \A j \in 1 .. m : Sums(n, k)[j] \in Seq(Nat)
      <4>1. \A b \in Nat : Part(b, BinLength) \in Seq(Nat)
        BY <1>1, PartIsSeq
      <4> QED
        BY <2>5, <3>1, <4>1
    <3> QED
      BY <2>3, <2>4, <2>5, <3>2
  <2> HIDE DEF m, o
  <2>7. /\ Bins(k) \in Seq(Seq(Nat)) /\ Len(Bins(k)) = k * VectorLength
        /\ k * VectorLength \in Nat
        /\ \A j \in 1 .. k * VectorLength :
             Bins(k)[j] = Part((j - 1) \div VectorLength, BinLength)
    BY <1>1, BinsIsSeq
  <2>8. /\ Bins(q) \in Seq(Seq(Nat)) /\ Len(Bins(q)) = q * VectorLength
        /\ \A j \in 1 .. q * VectorLength :
             Bins(q)[j] = Part((j - 1) \div VectorLength, BinLength)
    BY <1>1, BinsIsSeq
  <2>9. q * VectorLength = k * VectorLength + m
    BY <1>1 DEF m
  <2>10. \A j \in 1 .. k * VectorLength + m : (Bins(k) \o CompleteBins(o))[j] = Bins(q)[j]
    <3> TAKE j \in 1 .. k * VectorLength + m
    <3> DEFINE l == k * VectorLength
    <3>1. CASE j <= l
      BY <2>3, <2>6, <2>7, <2>8, <2>9, <3>1
    <3>2. CASE j > l
      <4>1. /\ j - l \in 1 .. m /\ j - l \in Nat \ {0}
            /\ (Bins(k) \o CompleteBins(o))[j] = CompleteBins(o)[j - l]
        BY <2>3, <2>6, <2>7, <3>2
      <4>2. ((j - l) + k * VectorLength - 1) \div VectorLength
              = (j - l - 1) \div VectorLength + k
        BY <1>1, <4>1, BinOf
      <4>3. (j - l) + k * VectorLength - 1 = j - 1
        BY <2>3, <2>7, <4>1
      <4>4. (j - l - 1) \div VectorLength \in Nat
        BY <1>1, <4>1, BinOf
      <4>5. CompleteBins(o)[j - l] = Part(k + (j - l - 1) \div VectorLength, BinLength)
        BY <2>6, <4>1
      <4> QED
        BY <1>1, <2>8, <2>9, <4>1, <4>2, <4>3, <4>4, <4>5
    <3>3. j <= l \/ j > l
      BY <2>3, <2>7
    <3> QED
      BY <3>1, <3>2, <3>3, Zenon
  <2>11. /\ Bins(k) \o CompleteBins(o) \in Seq(Seq(Nat))
         /\ Len(Bins(k) \o CompleteBins(o)) = k * VectorLength + m
    BY <2>6, <2>7, ConcatProperties
  <2>12. Bins(k) \o CompleteBins(o) = Bins(q)
    BY <2>8, <2>9, <2>10, <2>11, SeqEqual
  <2> QED
    BY <2>12 DEF q, o
<1> QED
  BY <1>2, <1>3

\* Observables, in memory.
Observables == [vlen : Nat, bin : Nat, filling : Nat, samples : MeasFiles]

LEMMA HeldTyped ==
  ASSUME NEW n \in Nat, NEW k \in 0 .. n \div BinLength
  PROVE  Held(n, k) \in Observables
<1>1. CASE n = 0
  BY <1>1 DEF Held, Registered, Observables, MeasFiles
<1>2. CASE n # 0
  <2>1. /\ VectorLength \in Nat /\ n % BinLength \in Nat /\ n \div BinLength - k \in Nat
        /\ Sums(n, k) \in MeasFiles
    <3>1. /\ VectorLength \in Nat /\ n \div BinLength \in Nat
          /\ n % BinLength \in Nat
      BY CheckpointAssumption, DivMod
    <3>2. n \div BinLength - k \in Nat
      BY <3>1
    <3>3. Sums(n, k) \in MeasFiles
      BY SumsIsSeq DEF MeasFiles
    <3> QED
      BY <3>1, <3>2, <3>3
  <2> QED
    BY <1>2, <2>1 DEF Held, Grown, Observables
<1> QED
  BY <1>1, <1>2

LEMMA EmptiedFields ==
  ASSUME NEW o \in Observables
  PROVE  /\ HasCompleteBins(o) =>
              Emptied(o) = [o EXCEPT !.bin = 0, !.samples = LastOnes(o.samples, o.vlen)]
         /\ ~HasCompleteBins(o) => Emptied(o) = [o EXCEPT !.bin = 0]
BY DEF Emptied, Observables

\* ... and keeps the bin in hand.
LEMMA EmptiedHeld ==
  ASSUME NEW n \in Nat, NEW k \in 0 .. n \div BinLength
  PROVE  Emptied(Held(n, k)) = Held(n, n \div BinLength)
<1> DEFINE q == n \div BinLength
           o == Held(n, k)
           v == VectorLength
<1>1. v \in Nat \ {0} /\ q \in Nat /\ k \in 0 .. q /\ q - k \in Nat /\ q \in 0 .. q
  BY CheckpointAssumption, DivMod
<1>2. CASE n = 0
  <2>1. ~HasCompleteBins(Registered)
    BY DEF HasCompleteBins, Registered
  <2>2. Emptied(o) = [o EXCEPT !.bin = 0] /\ o = Registered
    BY <1>2, <2>1, EmptiedFields, HeldTyped DEF Held
  <2> QED
    BY <1>2, <2>2 DEF Held, Registered
<1>3. CASE n # 0
  <2>0. o \in Observables
    BY HeldTyped
  <2>1. o = Grown(n, k) /\ o.vlen = v /\ o.samples = Sums(n, k)
    BY <1>3 DEF Held, Grown
  <2>2. /\ Sums(n, k) \in Seq(Seq(Nat)) /\ Len(Sums(n, k)) = (q - k + 1) * v
        /\ DOMAIN Sums(n, k) = 1 .. (q - k + 1) * v
    BY SumsIsSeq
  <2>3. /\ Sums(n, q) \in Seq(Seq(Nat)) /\ Len(Sums(n, q)) = (q - q + 1) * v
    BY <1>1, SumsIsSeq
  <2> DEFINE m == (q - k) * v
  <2> HIDE DEF q, o, v
  <2>4. m \in Nat /\ (q - k + 1) * v = m + v /\ (q - q + 1) * v = v
    BY <1>1
  <2> HIDE DEF m
  <2>5. \A j \in 1 .. v : Sums(n, k)[m + j] = Sums(n, q)[j]
    <3> TAKE j \in 1 .. v
    <3>1. /\ m + j \in 1 .. (q - k + 1) * v /\ ~(m + j <= m) /\ j \in 1 .. (q - q + 1) * v
          /\ q \in 0 .. q /\ k \in 0 .. q /\ ~(q < q)
      BY <1>1, <2>4
    <3>2. Sums(n, k)[m + j] = Part(q, n % BinLength)
      <4> DEFINE i == m + j
                 b == k + (i - 1) \div VectorLength
      <4> HIDE DEF i
      <4>1. i \in 1 .. (q - k + 1) * v
        BY <3>1 DEF i
      <4>2. /\ b \in 0 .. q /\ (b < q <=> i <= (q - k) * v)
            /\ Sums(n, k)[i] = Part(b, IF b < q THEN BinLength ELSE n % BinLength)
        BY <3>1, <4>1, SumsOfBin DEF q, v
      <4> HIDE DEF b
      <4>3. b = q
        BY <1>1, <3>1, <4>2 DEF m, i
      <4> QED
        BY <1>1, <4>2, <4>3 DEF i
    <3>3. Sums(n, q)[j] = Part(q, n % BinLength)
      <4> DEFINE b == q + (j - 1) \div VectorLength
      <4>1. /\ b \in 0 .. q
            /\ Sums(n, q)[j] = Part(b, IF b < q THEN BinLength ELSE n % BinLength)
        BY <3>1, SumsOfBin DEF q, v
      <4>2. (j - 1) \div VectorLength \in Nat
        BY <1>1, <2>4, <3>1, BinOf DEF v
      <4>3. b = q
        BY <1>1, <4>1, <4>2
      <4> QED
        BY <1>1, <4>1, <4>3
    <3> QED
      BY <3>2, <3>3
  <2>6. LastOnes(Sums(n, k), v) = Sums(n, q)
    <3>1. /\ LastOnes(Sums(n, k), v) \in Seq(Seq(Nat)) /\ Len(LastOnes(Sums(n, k), v)) = v
          /\ \A j \in 1 .. v : LastOnes(Sums(n, k), v)[j] = Sums(n, k)[m + j]
      <4>1. \A i \in m + 1 .. m + v : Sums(n, k)[i] \in Seq(Nat)
        BY <1>1, <2>2, <2>4
      <4>2. LastOnes(Sums(n, k), v) = SubSeq(Sums(n, k), m + 1, m + v)
        <5>1. Len(Sums(n, k)) = m + v /\ m + v - v + 1 = m + 1
          BY <1>1, <2>2, <2>4
        <5> QED
          BY <5>1, <1>1, <2>4 DEF LastOnes
      <4>3. /\ SubSeq(Sums(n, k), m + 1, m + v) \in Seq(Seq(Nat))
            /\ Len(SubSeq(Sums(n, k), m + 1, m + v)) = v
            /\ \A j \in 1 .. v : SubSeq(Sums(n, k), m + 1, m + v)[j] = Sums(n, k)[m + 1 + j - 1]
        <5> DEFINE a == m + 1
                   z == m + v
        <5>1. a \in Int /\ z \in Int /\ a <= z /\ z - a + 1 = v
          BY <1>1, <2>4
        <5> HIDE DEF a, z
        <5>2. \A i \in a .. z : Sums(n, k)[i] \in Seq(Nat)
          BY <4>1 DEF a, z
        <5>3. /\ SubSeq(Sums(n, k), a, z) \in Seq(Seq(Nat))
              /\ Len(SubSeq(Sums(n, k), a, z)) = v
              /\ \A j \in 1 .. v : SubSeq(Sums(n, k), a, z)[j] = Sums(n, k)[a + j - 1]
          BY <5>1, <5>2, SubSeqProperties
        <5> QED
          BY <5>3 DEF a, z
      <4>4. \A j \in 1 .. v : m + 1 + j - 1 = m + j
        BY <1>1, <2>4
      <4> QED
        BY <4>2, <4>3, <4>4
    <3> QED
      BY <2>3, <2>4, <2>5, <3>1, SeqEqual
  <2>7. ~HasCompleteBins(o) => q = k
    BY <1>1, <2>1, <2>2, <2>4 DEF HasCompleteBins, m
  <2>8. q - q = 0
    BY <1>1
  <2>9. Emptied(o) = [vlen |-> v, bin |-> 0, filling |-> n % BinLength, samples |-> Sums(n, q)]
    <3>1. o = [vlen |-> v, bin |-> q - k, filling |-> n % BinLength, samples |-> Sums(n, k)]
      BY <2>1 DEF Grown, q, v
    <3>2. CASE HasCompleteBins(o)
      BY <2>0, <2>6, <3>1, <3>2, EmptiedFields
    <3>3. CASE ~HasCompleteBins(o)
      BY <2>0, <2>7, <3>1, <3>3, EmptiedFields
    <3> QED
      BY <3>2, <3>3
  <2> QED
    BY <1>3, <2>8, <2>9 DEF Held, Grown, q, o, v
<1> QED
  BY <1>2, <1>3

LEMMA BinsUpToIsBins ==
  ASSUME NEW n \in Nat
  PROVE  BinsUpTo(n) = Bins(n \div BinLength)
<1> DEFINE q == n \div BinLength
<1>1. q \in Nat /\ VectorLength \in Nat \ {0} /\ q * VectorLength \in Nat
  BY CheckpointAssumption, DivMod
<1>2. \A j \in 1 .. q * VectorLength :
        SweepsOfBin((j - 1) \div VectorLength, n) = Part((j - 1) \div VectorLength, BinLength)
  <2> TAKE j \in 1 .. q * VectorLength
  <2> DEFINE b == (j - 1) \div VectorLength
  <2> HIDE DEF q
  <2>1. j \in Nat \ {0} /\ j <= q * VectorLength
    BY <1>1
  <2>2. b \in Nat /\ b < q
    BY <1>1, <2>1, BinOf
  <2> HIDE DEF b
  <2>3. SweepsOfBin(b, n) = Part(b, BinLength)
    BY <1>1, <2>2, BinSums DEF q
  <2> QED
    BY <2>3 DEF b
<1> QED
  BY <1>2 DEF BinsUpTo, Bins, Part

\* Bin b of a file ends with sweep (b + 1) * BinLength, which names it.
LEMMA NamesOfBins ==
  ASSUME NEW k \in Nat
  PROVE  Names(Bins(k)) = [b \in 1 .. k |-> b * BinLength]
<1> DEFINE v == VectorLength
<1>1. v \in Nat \ {0} /\ BinLength \in Nat \ {0}
  BY CheckpointAssumption
<1>2. Len(Bins(k)) = k * v /\ k * v \in Nat
      /\ \A j \in 1 .. k * v : Bins(k)[j] = Part((j - 1) \div v, BinLength)
  BY BinsIsSeq
<1>3. (k * v) \div v = k
  BY <1>1, <1>2, DivExact
<1>4. \A b \in 1 .. k : Bins(k)[b * v][Len(Bins(k)[b * v])] = b * BinLength
  <2> TAKE b \in 1 .. k
  <2> HIDE DEF v
  <2>1. b - 1 \in Nat /\ v - 1 \in 0 .. v - 1 /\ b * v - 1 \in Nat
        /\ b * v - 1 = (b - 1) * v + (v - 1)
    BY <1>1
  <2>2. (b * v - 1) \div v = b - 1
    BY <1>1, <2>1, DivUnique
  <2>3. b * v \in 1 .. k * v
    <3>1. b * v <= k * v /\ b * v \in Int
      BY <1>1
    <3>2. b * v >= 1 /\ k * v \in Int
      BY <1>2, <2>1, <3>1
    <3> QED
      BY <3>1, <3>2
  <2>4. Bins(k)[b * v] = Part(b - 1, BinLength)
    BY <1>2, <2>2, <2>3
  <2>5. Len(Part(b - 1, BinLength)) = BinLength
    BY <1>1, <2>1, PartIsSeq
  <2>6. Part(b - 1, BinLength)[BinLength] = (b - 1) * BinLength + BinLength
    BY <1>1 DEF Part
  <2>7. (b - 1) * BinLength + BinLength = b * BinLength
    BY <1>1
  <2> QED
    BY <2>4, <2>5, <2>6, <2>7
<1> QED
  BY <1>2, <1>3, <1>4 DEF Names

-----------------------------------------------------------------------------
(* The observable and the files, step by step.                             *)

LEMMA InitInv == ASSUME Init PROVE Inv
BY DEF Init, Inv, FileTypes, Buffered, Behind

LEMMA NowIsNat ==
  ASSUME NEW s \in Nat
  PROVE  /\ MeasuredSweeps(s, Therm) \in Nat
         /\ MeasuredSweeps(s, Therm) \div BinLength \in Nat
         /\ MeasuredSweeps(s + 1, Therm)
              = MeasuredSweeps(s, Therm) + IF IsThermalized(s + 1, Therm) THEN 1 ELSE 0
<1>1. MeasuredSweeps(s, Therm) \in Nat
  BY CheckpointAssumption DEF MeasuredSweeps
<1> QED
  BY <1>1, CheckpointAssumption, DivMod DEF MeasuredSweeps, IsThermalized

\* A dump is read as what was dumped.
LEMMA Redump ==
  ASSUME NEW n \in Nat
  PROVE  LET o == Held(n, n \div BinLength)
         IN  Restored(Dumped(o)) = o /\ o.bin = 0
<1>1. n \div BinLength \in Nat
  BY CheckpointAssumption, DivMod
<1> QED
  BY <1>1 DEF Restored, Dumped, Held, Grown, Registered

\* Reading the dump.
LEMMA ReadKeeps ==
  ASSUME Inv, StartRead
  PROVE  /\ Inv' /\ sweep' = SweepOf(dump) /\ sweep' \in Nat
         /\ Now' = SweepsIn(dump) /\ obs'.bin = 0
<1>1. DumpRight(dump) /\ dump \in DumpFiles
  BY DEF Inv, FileTypes, StartRead, DumpRight
<1>2. sweep' = SweepOf(dump) /\ SweepOf(dump) \in Nat
  BY <1>1 DEF StartRead, SweepOf, DumpFiles
<1>3. Now' = SweepsIn(dump) /\ SweepsIn(dump) \in Nat
  BY <1>2, NowIsNat DEF Now, SweepsIn
<1>4. obs' = Held(SweepsIn(dump), SweepsIn(dump) \div BinLength) /\ obs'.bin = 0
  BY <1>1, <1>3, Redump DEF StartRead, DumpRight
<1>5. SweepsIn(dump) \div BinLength \in Nat
  BY <1>3, CheckpointAssumption, DivMod
<1>6. FileTypes'
  BY <1>2 DEF Inv, FileTypes, StartRead, fileVars, Behind
<1>7. Buffered'
  BY <1>3, <1>4, <1>5 DEF Buffered, StartRead, Behind
<1> QED
  BY <1>2, <1>3, <1>4, <1>6, <1>7 DEF Inv

LEMMA NothingHeld ==
  /\ MeasuredSweeps(0, Therm) = 0
  /\ 0 \div BinLength = 0 /\ Held(0, 0) = Registered
<1>1. 0 \div BinLength = 0
  BY CheckpointAssumption, DivExact, 0 = 0 * BinLength
<1> QED
  BY <1>1, CheckpointAssumption DEF MeasuredSweeps, Held

LEMMA StartInitKeeps == ASSUME Inv, StartInit PROVE Inv'
<1>1. /\ sweep' = 0 /\ obs' = Registered /\ obs'.bin = 0 /\ Now' = 0
      /\ pc' \in {"copy_meas", "run"}
  BY NothingHeld DEF StartInit, Registered, Now
<1>2. FileTypes'
  BY <1>1 DEF Inv, FileTypes, StartInit, fileVars, Behind, WriteSteps
<1>3. Buffered'
  BY <1>1, NothingHeld DEF Buffered, Behind
<1> QED
  BY <1>2, <1>3 DEF Inv

LEMMA UpdateKeeps ==
  ASSUME Inv, Update
  PROVE  /\ Inv' /\ Now \in Nat /\ Now' \div BinLength - obs'.bin = Now \div BinLength - obs.bin
         /\ Now' = Now + IF IsThermalized(sweep + 1, Therm) THEN 1 ELSE 0
<1> DEFINE k == Now \div BinLength - obs.bin
<1>1. /\ sweep \in Nat /\ sweep' = sweep + 1 /\ pc = "run" /\ pc' = "run"
      /\ obs = Held(Now, k) /\ obs.bin \in 0 .. Now \div BinLength
  BY DEF Inv, FileTypes, Buffered, Update
<1>2. /\ Now \in Nat /\ Now \div BinLength \in Nat /\ k \in 0 .. Now \div BinLength
      /\ Now' = Now + IF IsThermalized(sweep + 1, Therm) THEN 1 ELSE 0
  BY <1>1, NowIsNat DEF Now
<1>3. obs' = Held(Now', k) /\ k \in 0 .. Now' \div BinLength
  <2>1. CASE IsThermalized(sweep + 1, Therm)
    <3>1. Now' = Now + 1 /\ MeasuredSweeps(sweep + 1, Therm) = Now + 1
      BY <1>1, <1>2, <2>1 DEF Now
    <3>2. obs' = Added(Held(Now, k), Now + 1, VectorLength, BinLength)
      BY <1>1, <2>1, <3>1 DEF Update
    <3> HIDE DEF k
    <3> QED
      BY <1>2, <3>1, <3>2, AddedHeld
  <2>2. CASE ~IsThermalized(sweep + 1, Therm)
    BY <1>1, <1>2, <2>2 DEF Update
  <2> QED
    BY <2>1, <2>2
<1>4. Now' \in Nat /\ Now' \div BinLength \in Nat
  <2>1. Now' \in Nat
    BY <1>2
  <2> QED
    BY <2>1, CheckpointAssumption, DivMod
<1> HIDE DEF k
<1>5. obs'.bin = Now' \div BinLength - k
  <2>1. CASE Now' = 0
    <3>1. k = 0
      BY <1>3, <2>1, NothingHeld
    <3> QED
      BY <1>3, <2>1, <3>1, NothingHeld DEF Registered
  <2>2. CASE Now' # 0
    BY <1>3, <2>2 DEF Held, Grown
  <2> QED
    BY <2>1, <2>2
<1>6. Now' \div BinLength - obs'.bin = k /\ obs'.bin \in 0 .. Now' \div BinLength
  BY <1>3, <1>4, <1>5
<1>7. FileTypes'
  BY <1>1 DEF Inv, FileTypes, Update, fileVars, Behind
<1>8. Buffered'
  BY <1>1, <1>3, <1>6 DEF Buffered, Behind
<1> QED
  BY <1>2, <1>6, <1>7, <1>8 DEF Inv, k

LEMMA AppendKeeps ==
  ASSUME Inv, AppendMeas
  PROVE  /\ Inv' /\ Now' = Now /\ obs'.bin = 0
         /\ measTmp' = Content(measTmp) \o CompleteBins(obs)
<1> DEFINE k == Now \div BinLength - obs.bin
<1>1. /\ sweep \in Nat /\ obs = Held(Now, k) /\ obs.bin \in 0 .. Now \div BinLength
      /\ measTmp \in MeasFiles \cup {None}
  BY DEF Inv, FileTypes, Buffered, AppendMeas, Behind
<1>2. Now \in Nat /\ Now \div BinLength \in Nat /\ k \in 0 .. Now \div BinLength
  BY <1>1, NowIsNat DEF Now
<1> HIDE DEF k
<1>3. /\ obs' = Held(Now, Now \div BinLength) /\ obs'.bin = 0
      /\ UNCHANGED <<sweep, dump, dumpTmp, meas>> /\ pc' = "write_dump"
  BY <1>1, <1>2, EmptiedHeld, Redump DEF AppendMeas
<1>4. measTmp' = Content(measTmp) \o CompleteBins(obs)
  BY DEF AppendMeas, InsertBack, Content
<1>5. CompleteBins(obs) \in MeasFiles
  <2>1. obs.samples \in MeasFiles /\ obs.bin * obs.vlen \in Nat
    BY <1>1, <1>2, HeldTyped DEF Observables
  <2>2. \A j \in 1 .. obs.bin * obs.vlen : j <= Len(obs.samples) => obs.samples[j] \in Seq(Nat)
    BY <2>1 DEF MeasFiles
  <2>3. Resized(obs.samples, obs.bin * obs.vlen) \in MeasFiles
    <3> DEFINE m == obs.bin * obs.vlen
    <3>1. \A j \in 1 .. m : (IF j <= Len(obs.samples) THEN obs.samples[j] ELSE << >>) \in Seq(Nat)
      BY <2>2
    <3>2. m \in Nat
      BY <2>1
    <3> HIDE DEF m
    <3>3. Resized(obs.samples, m) \in MeasFiles
      BY <3>1, <3>2 DEF Resized, MeasFiles
    <3> QED
      BY <3>3 DEF m
  <2> QED
    BY <2>3 DEF CompleteBins, MeasFiles
<1>6. Content(measTmp) \in MeasFiles
  BY <1>1 DEF Content, MeasFiles
<1>7. measTmp' \in MeasFiles
  BY <1>4, <1>5, <1>6, ConcatProperties DEF MeasFiles
<1>8. FileTypes'
  BY <1>3, <1>7 DEF Inv, FileTypes, Behind, WriteSteps
<1>9. Buffered'
  BY <1>2, <1>3 DEF Buffered, Behind, Now
<1> QED
  BY <1>3, <1>4, <1>8, <1>9 DEF Inv, Now

LEMMA WriteKeeps == ASSUME Inv, WriteDump PROVE Inv'
<1>1. /\ sweep \in Nat /\ obs = Held(Now, Now \div BinLength) /\ obs.bin = 0 /\ pc = "write_dump"
      /\ UNCHANGED <<sweep, obs, dump, meas, measTmp>> /\ pc' = "rename_dump"
  BY NowIsNat DEF Inv, FileTypes, Buffered, WriteDump, Behind, memVars, Now
<1> DEFINE d == dumpTmp'
<1>2. d = [ therm |-> DumpOf(sweep, Therm).therm, sweeps |-> DumpOf(sweep, Therm).sweeps,
            obs |-> Dumped(obs) ]
  BY DEF WriteDump
<1>3. /\ DumpOf(sweep, Therm).therm \in Nat /\ DumpOf(sweep, Therm).sweeps \in Nat
      /\ SweepOf(d) = sweep
  BY <1>1, <1>2, CheckpointAssumption DEF DumpOf, SweepOf, AtMost
<1>4. Dumped(obs) \in [vlen : Nat, filling : Nat, samples : Seq(Seq(Nat))]
  <2>1. obs \in Observables
    <3>1. Now \in Nat /\ Now \div BinLength \in 0 .. Now \div BinLength
      BY <1>1, NowIsNat DEF Now
    <3> QED
      BY <1>1, <3>1, HeldTyped
  <2> QED
    BY <2>1 DEF Dumped, Observables, MeasFiles
<1>5. d \in DumpFiles
  BY <1>2, <1>3, <1>4 DEF DumpFiles
<1>6. SweepsIn(d) = Now /\ d.obs = Dumped(obs)
  BY <1>2, <1>3 DEF SweepsIn, Now
<1>7. DumpRight(d)
  BY <1>1, <1>5, <1>6 DEF DumpRight
<1> HIDE DEF d
<1>8. FileTypes'
  BY <1>1, <1>3, <1>7 DEF Inv, FileTypes, Behind, WriteSteps, d
<1>9. Buffered'
  BY <1>1 DEF Inv, Buffered, Behind, Now
<1> QED
  BY <1>8, <1>9 DEF Inv

LEMMA RenameDumpKeeps ==
  ASSUME Inv, RenameDump
  PROVE  Inv' /\ dump' \in DumpFiles /\ dump' # None /\ SweepsIn(dump') = Now
<1>1. DumpRight(dumpTmp) /\ SweepOf(dumpTmp) = sweep /\ dumpTmp # None
  BY CheckpointAssumption DEF Inv, FileTypes, RenameDump, DumpRight
<1>2. FileTypes'
  BY <1>1 DEF Inv, FileTypes, RenameDump, Behind, WriteSteps, memVars
<1>3. Buffered'
  BY DEF Inv, Buffered, RenameDump, Behind, memVars, Now
<1> QED
  BY <1>1, <1>2, <1>3 DEF Inv, RenameDump, DumpRight, SweepsIn, Now

\* The steps that leave the observable and its place in the files.
LEMMA OthersKeep ==
  ASSUME Inv, \/ BeginCheckpoint \/ CopyMeas \/ AppendFails \/ RenameMeas \/ Crash
              \/ UNCHANGED vars
  PROVE  Inv' /\ UNCHANGED <<sweep, obs>> /\ Now' = Now
<1> USE DEF BeginCheckpoint, CopyMeas, CopiedMeas, AppendFails, RenameMeas, Crash, vars,
            memVars, fileVars
<1>1. UNCHANGED <<sweep, obs>> /\ Now' = Now
  BY DEF Now
<1>2. FileTypes'
  BY DEF Inv, FileTypes, Behind, WriteSteps
<1>3. Buffered'
  BY <1>1 DEF Inv, Buffered, Behind
<1> QED
  BY <1>1, <1>2, <1>3 DEF Inv

LEMMA InvNext == ASSUME Inv, [Next]_vars PROVE Inv'
BY ReadKeeps, StartInitKeeps, UpdateKeeps, AppendKeeps, WriteKeeps, RenameDumpKeeps,
   OthersKeep DEF Next

\* Types and the observable, wherever the process dies and whether or not a new run
\* is saved at once.
THEOREM InvHolds == Spec => []Inv
<1>1. Init => Inv
  BY InitInv
<1>2. Inv /\ [Next]_vars => Inv'
  BY InvNext
<1> QED
  BY <1>1, <1>2, PTL DEF Spec

\* The buffer of the observable always holds its complete bins and the one in hand,
\* with as many sweeps as it says, and just that one when the dump is written.
THEOREM BufferAlwaysFits == Spec => []BufferFits
<1>1. Inv => BufferFits
  <2> SUFFICES ASSUME Inv, pc # "down"
               PROVE  /\ Len(obs.samples) = (obs.bin + 1) * obs.vlen
                      /\ \A j \in DOMAIN obs.samples :
                           Len(obs.samples[j])
                             = IF j <= obs.bin * obs.vlen THEN BinLength ELSE obs.filling
                      /\ pc = "write_dump" => OneBinLeft(obs)
    BY DEF BufferFits
  <2> DEFINE k == Now \div BinLength - obs.bin
  <2>1. Now \in Nat /\ k \in 0 .. Now \div BinLength /\ obs = Held(Now, k)
    BY NowIsNat DEF Inv, FileTypes, Buffered, Now
  <2> HIDE DEF k
  <2>2. /\ Len(obs.samples) = (obs.bin + 1) * obs.vlen
        /\ \A j \in DOMAIN obs.samples :
             Len(obs.samples[j]) = IF j <= obs.bin * obs.vlen THEN BinLength ELSE obs.filling
    BY <2>1, HeldFits
  <2>3. pc = "write_dump" => OneBinLeft(obs)
    <3>1. obs.vlen \in Nat
      BY <2>1, HeldTyped DEF Observables
    <3> QED
      BY <2>2, <3>1 DEF Inv, Buffered, Behind, OneBinLeft
  <2> QED
    BY <2>2, <2>3
<1> QED
  BY <1>1, InvHolds, PTL

\* Neither file is ever replaced by one cut short, wherever the process dies.
THEOREM FilesNeverTorn == Spec => []NeverTorn
<1>1. Inv => NeverTorn
  BY CheckpointAssumption DEF Inv, FileTypes, DumpRight, NeverTorn
<1> QED
  BY <1>1, InvHolds, PTL

-----------------------------------------------------------------------------
(* The measurement file beside the dump, when a run is saved before its    *)
(* first sweep and the process does not die between the two renames.       *)

Guarded == InitialCheckpoint /\ "rename_meas" \notin CrashPoints

LEMMA NoBins == Bins(0) = << >>
BY CheckpointAssumption, BinsIsSeq

LEMMA FilesInit == ASSUME Init PROVE FilesInv
BY DEF Init, FilesInv, Appends, FirstCheckpoint, Behind

LEMMA FilesStart ==
  ASSUME Inv, FilesInv, Guarded, StartRead \/ StartInit
  PROVE  FilesInv'
<1> USE DEF FilesInv, Appends, FirstCheckpoint, fileVars, Behind
<1>1. CASE StartRead
  <2>1. meas # None /\ meas = Bins(SweepsIn(dump) \div BinLength)
    BY <1>1 DEF StartRead
  <2>2. Now' = SweepsIn(dump) /\ obs'.bin = 0 /\ SweepsIn(dump) \div BinLength \in Nat
    <3>1. SweepOf(dump) \in Nat
      BY <1>1, ReadKeeps
    <3> QED
      BY <1>1, <3>1, ReadKeeps, NowIsNat DEF SweepsIn
  <2>3. Content(meas) = Bins(Now' \div BinLength - obs'.bin)
    BY <2>1, <2>2 DEF Content
  <2> QED
    BY <1>1, <2>1, <2>3 DEF StartRead, Content
<1>2. CASE StartInit
  <2>1. /\ sweep' = 0 /\ obs'.bin = 0 /\ Now' = 0 /\ meas = None /\ dump = None
        /\ pc' = "copy_meas" /\ UNCHANGED <<dump, dumpTmp, meas, measTmp>>
    BY <1>2, NothingHeld DEF StartInit, Now, Registered, Guarded
  <2>2. Content(meas) = Bins(Now' \div BinLength - obs'.bin)
    BY <2>1, NothingHeld, NoBins DEF Content
  <2> QED
    BY <2>1, <2>2 DEF Content
<1> QED
  BY <1>1, <1>2

LEMMA FilesUpdate == ASSUME Inv, FilesInv, Update PROVE FilesInv'
<1>1. Now' \div BinLength - obs'.bin = Now \div BinLength - obs.bin
  BY UpdateKeeps
<1>2. pc = "run" /\ pc' = "run" /\ UNCHANGED <<dump, dumpTmp, meas, measTmp>>
  BY DEF Update, fileVars
<1>3. Content(meas') = Bins(Now' \div BinLength - obs'.bin)
  BY <1>1, <1>2 DEF FilesInv, Appends
<1> QED
  BY <1>2, <1>3 DEF FilesInv, Appends, FirstCheckpoint, Behind, Content

LEMMA FilesCopy == ASSUME Inv, FilesInv, BeginCheckpoint \/ CopyMeas PROVE FilesInv'
<1>1. Now' = Now /\ obs' = obs
  BY OthersKeep
<1>2. CASE BeginCheckpoint
  BY <1>1, <1>2 DEF BeginCheckpoint, FilesInv, Appends, FirstCheckpoint, Behind, Content,
                    fileVars, memVars
<1>3. CASE CopyMeas
  <2>1. /\ pc = "copy_meas" /\ pc' = "append_meas" /\ UNCHANGED <<sweep, dump, dumpTmp, meas>>
        /\ measTmp' = IF meas # None THEN meas ELSE measTmp
    BY <1>3 DEF CopyMeas, CopiedMeas, memVars
  <2>2. measTmp' # Corrupt => Content(measTmp') = Content(meas)
    BY <2>1 DEF FilesInv, FirstCheckpoint, Content
  <2> QED
    BY <1>1, <2>1, <2>2 DEF FilesInv, Appends, FirstCheckpoint, Behind, Content
<1> QED
  BY <1>2, <1>3

LEMMA FilesAppend ==
  ASSUME Inv, FilesInv, AppendMeas
  PROVE  /\ FilesInv' /\ Content(meas) \o CompleteBins(obs) = Bins(Now \div BinLength)
         /\ measTmp' = Bins(Now \div BinLength) /\ CompleteBins(obs') = << >>
<1> DEFINE k == Now \div BinLength - obs.bin
<1>1. /\ pc = "append_meas" /\ pc' = "write_dump" /\ measTmp # Corrupt
      /\ UNCHANGED <<sweep, dump, dumpTmp, meas>> /\ sweep \in Nat
      /\ obs.bin \in 0 .. Now \div BinLength /\ obs = Held(Now, k)
  BY DEF AppendMeas, Inv, FileTypes, Buffered
<1>2. Now \in Nat /\ Now \div BinLength \in Nat /\ k \in 0 .. Now \div BinLength
  BY <1>1, NowIsNat DEF Now
<1>3. Content(measTmp) = Bins(k) /\ Content(meas) = Bins(k)
  BY <1>1 DEF FilesInv, Appends
<1> HIDE DEF k
<1>4. Bins(k) \o CompleteBins(obs) = Bins(Now \div BinLength)
  BY <1>1, <1>2, CompleteHeld
<1>5. /\ measTmp' = Bins(Now \div BinLength) /\ Now' = Now /\ obs'.bin = 0
  BY <1>3, <1>4, AppendKeeps
<1>6. CompleteBins(obs') = << >>
  <2>1. Inv'
    BY AppendKeeps
  <2>2. Len(obs'.samples) = (obs'.bin + 1) * obs'.vlen /\ obs'.vlen \in Nat
    <3>1. Now \div BinLength \in 0 .. Now \div BinLength
      BY <1>2
    <3>2. obs' = Held(Now, Now \div BinLength)
      BY <1>1, <1>2, <1>5, <2>1 DEF Inv, Buffered
    <3> QED
      BY <1>2, <3>1, <3>2, HeldFits, HeldTyped DEF Observables
  <2> QED
    BY <1>5, <2>2 DEF CompleteBins, HasCompleteBins
<1>7. meas = None => Now \div BinLength = 0 /\ sweep = 0
  BY <1>1, NothingHeld DEF FilesInv, FirstCheckpoint, Now
<1>8. FilesInv'
  BY <1>1, <1>5, <1>7, NoBins DEF FilesInv, Appends, FirstCheckpoint, Behind
<1> QED
  BY <1>3, <1>4, <1>5, <1>6, <1>8

LEMMA FilesRename ==
  ASSUME Inv, FilesInv, WriteDump \/ RenameDump \/ RenameMeas
  PROVE  FilesInv'
<1>1. CASE WriteDump
  BY <1>1 DEF WriteDump, FilesInv, Appends, FirstCheckpoint, Behind, memVars, Now
<1>2. CASE RenameDump
  <2>1. dump' # None
    BY <1>2, RenameDumpKeeps
  <2> QED
    BY <1>2, <2>1 DEF RenameDump, FilesInv, Appends, FirstCheckpoint, Behind, memVars, Now
<1>3. CASE RenameMeas
  <2>1. /\ SweepOf(dump) = sweep /\ measTmp \in MeasFiles /\ dump # None /\ obs.bin = 0
        /\ pc = "rename_meas" /\ pc' = "run" /\ meas' = measTmp
        /\ UNCHANGED <<sweep, obs, dump>> /\ sweep \in Nat
    BY <1>3 DEF RenameMeas, Inv, FileTypes, Buffered, Behind, memVars
  <2>2. Now' = Now /\ SweepsIn(dump) = Now /\ Now \div BinLength \in Nat /\ meas' # None
    BY <2>1, NowIsNat, CheckpointAssumption DEF Now, SweepsIn
  <2>3. meas' = Bins(Now \div BinLength) /\ Now \div BinLength - obs.bin = Now \div BinLength
    BY <2>1, <2>2 DEF FilesInv, Appends, Behind
  <2> QED
    BY <2>1, <2>2, <2>3 DEF FilesInv, Appends, FirstCheckpoint, Behind, Content, SweepsIn
<1> QED
  BY <1>1, <1>2, <1>3

LEMMA FilesDown ==
  ASSUME Inv, FilesInv, Guarded, AppendFails \/ Crash
  PROVE  FilesInv'
<1>1. /\ pc' = "down" /\ pc # "rename_meas" /\ UNCHANGED <<dump, meas>>
      /\ measTmp' \in {measTmp, Corrupt}
  BY DEF AppendFails, Crash, fileVars, Guarded
<1> QED
  BY <1>1 DEF FilesInv, Appends, FirstCheckpoint, Behind

LEMMA FilesNext ==
  ASSUME Inv, FilesInv, Guarded, [Next]_vars
  PROVE  FilesInv'
<1>1. CASE UNCHANGED vars
  BY <1>1 DEF vars, memVars, fileVars, FilesInv, Appends, FirstCheckpoint, Behind, Content,
              Now
<1> QED
  BY <1>1, FilesStart, FilesUpdate, FilesCopy, FilesAppend, FilesRename, FilesDown DEF Next

LEMMA FilesHold == Guarded => (Spec => [](Inv /\ FilesInv))
<1> SUFFICES ASSUME Guarded PROVE Spec => [](Inv /\ FilesInv)
  OBVIOUS
<1>1. Init => FilesInv
  BY FilesInit
<1>2. Inv /\ FilesInv /\ [Next]_vars => FilesInv'
  BY FilesNext
<1> QED
  BY <1>1, <1>2, InvHolds, PTL DEF Spec

\* Whenever the process could be restarted or merged from its files, the measurement
\* file holds all complete bins of the dumped simulation, once and in order, and the
\* dump the bin that is left: resuming loses and repeats nothing.
THEOREM FilesStayConsistent == Guarded => (Spec => []FilesConsistent)
<1>1. Inv /\ FilesInv => FilesConsistent
  <2> SUFFICES ASSUME Inv, FilesInv, dump # None, pc # "rename_meas"
               PROVE  Consistent(meas, dump)
    BY DEF FilesConsistent
  <2> DEFINE n == SweepsIn(dump)
             q == n \div BinLength
  <2>1. dump \in DumpFiles /\ dump.obs = Dumped(Held(n, q))
    BY DEF Inv, FileTypes, DumpRight
  <2>2. n \in Nat /\ q \in Nat /\ q \in 0 .. q
    <3>1. SweepOf(dump) \in Nat
      BY <2>1 DEF DumpFiles, SweepOf
    <3> QED
      BY <3>1, NowIsNat DEF SweepsIn
  <2> HIDE DEF n
  <2>3. Content(meas) = BinsUpTo(n)
    BY <2>2, BinsUpToIsBins DEF FilesInv, Appends, Content, n
  <2>4. dump.obs.filling = n % BinLength
    <3>1. 0 % BinLength = 0
      BY CheckpointAssumption
    <3> QED
      BY <2>1, <3>1 DEF Dumped, Held, Grown, Registered
  <2>5. \A j \in DOMAIN dump.obs.samples : dump.obs.samples[j] = SweepsOfBin(q, n)
    <3>1. CASE n = 0
      BY <2>1, <3>1 DEF Dumped, Held, Registered
    <3>2. CASE n # 0
      <4>1. dump.obs.samples = Sums(n, q)
        BY <2>1, <3>2 DEF Dumped, Held, Grown
      <4>2. VectorLength \in Nat \ {0} /\ q - q + 1 = 1 /\ (q - q + 1) * VectorLength = VectorLength
        BY <2>2, CheckpointAssumption
      <4>3. DOMAIN Sums(n, q) = 1 .. VectorLength
        BY <2>2, <4>2, SumsIsSeq
      <4>4. \A j \in 1 .. VectorLength : q + (j - 1) \div VectorLength = q
        <5> TAKE j \in 1 .. VectorLength
        <5>1. j - 1 \in 0 .. VectorLength - 1 /\ j - 1 \in Nat /\ j - 1 = 0 * VectorLength + (j - 1)
          BY <4>2
        <5>2. (j - 1) \div VectorLength = 0
          BY <4>2, <5>1, DivUnique
        <5> QED
          BY <2>2, <5>2
      <4> HIDE DEF q
      <4> QED
        BY <4>1, <4>2, <4>3, <4>4 DEF Sums, q
    <3> QED
      BY <3>1, <3>2
  <2> QED
    BY <2>3, <2>4, <2>5 DEF Consistent, n, SweepsIn
<1> QED
  BY <1>1, FilesHold, PTL

-----------------------------------------------------------------------------
(* Seen from the scheduler.                                                *)

\* The simulation after s sweeps, as RunStore has it.
Simulation(s) ==
  LET n == MeasuredSweeps(s, Therm)
  IN  [ sweep |-> s, filling |-> n % BinLength,
        samples |-> [b \in 1 .. n \div BinLength |-> b * BinLength] ]

LEMMA SimulationTyped ==
  ASSUME NEW s \in Nat
  PROVE  Simulation(s) \in Simulations /\ Simulation(s) # None
<1> DEFINE n == MeasuredSweeps(s, Therm)
           q == n \div BinLength
<1>1. q \in Nat /\ n % BinLength \in Nat
  BY NowIsNat, CheckpointAssumption, DivMod
<1>2. \A b \in 1 .. q : b * BinLength \in Nat
  BY <1>1, CheckpointAssumption
<1> HIDE DEF n, q
<1>3. [b \in 1 .. q |-> b * BinLength] \in Seq(Nat)
  BY <1>1, <1>2
<1>4. Simulation(s) \in Simulations
  BY <1>1, <1>3 DEF Simulation, Simulations, n, q
<1> QED
  BY <1>4, CheckpointAssumption

\* How many sweeps are measured, counted and in closed form.
LEMMA MeasuredCounts ==
  ASSUME NEW n \in Nat
  PROVE  Store!Measured(n) = MeasuredSweeps(n, Therm)
<1> DEFINE first == IF Therm = 0 THEN 1 ELSE Therm
<1>1. Therm \in Nat /\ first \in Int
  BY CheckpointAssumption
<1>2. {i \in 1 .. n : i >= Therm} = first .. n
  BY <1>1
<1>3. Cardinality(first .. n) = IF first > n THEN 0 ELSE n - first + 1
  BY <1>1, FS_Interval
<1>4. Store!Measured(n) = Cardinality(first .. n)
  <2>1. Store!Measured(n) = Cardinality({i \in 1 .. n : i >= Therm})
    BY DEF Store!Measured, Store!Cardinality, Cardinality
  <2> QED
    BY <1>2, <2>1, Zenon
<1> QED
  BY <1>1, <1>3, <1>4 DEF MeasuredSweeps

\* One more sweep is one step of work.
LEMMA SimulationAdvances ==
  ASSUME NEW s \in Nat
  PROVE  Store!Advanced(Simulation(s)) = Simulation(s + 1)
<1> DEFINE n  == MeasuredSweeps(s, Therm)
           n1 == MeasuredSweeps(s + 1, Therm)
           q  == n \div BinLength
           r  == n % BinLength
           q1 == n1 \div BinLength
           r1 == n1 % BinLength
           names(k) == [b \in 1 .. k |-> b * BinLength]
<1>1. /\ BinLength \in Nat \ {0} /\ n \in Nat /\ n1 \in Nat /\ (n1 = n \/ n1 = n + 1)
      /\ Store!Measured(s) = n /\ Store!Measured(s + 1) = n1
  BY NowIsNat, MeasuredCounts, CheckpointAssumption
<1>2. Simulation(s) = [sweep |-> s, filling |-> r, samples |-> names(q)]
  BY DEF Simulation
<1>3. Simulation(s + 1) = [sweep |-> s + 1, filling |-> r1, samples |-> names(q1)]
  BY DEF Simulation
<1>0. r \in 0 .. BinLength - 1
  BY <1>1, DivMod
<1> HIDE DEF n, n1, q, r, q1, r1, names
<1>4. Store!Advanced(Simulation(s))
        = [ sweep   |-> s + 1,
            filling |-> IF ~(n1 > n) THEN r ELSE IF r + 1 = BinLength THEN 0 ELSE r + 1,
            samples |-> IF n1 > n /\ r + 1 = BinLength THEN Append(names(q), n1) ELSE names(q) ]
  BY <1>1, <1>2 DEF Store!Advanced
<1>5. CASE n1 = n
  BY <1>1, <1>3, <1>4, <1>5 DEF q, q1, r, r1
<1>6. CASE n1 = n + 1
  <2>1. /\ r + 1 = BinLength => q1 = q + 1 /\ r1 = 0
        /\ r + 1 # BinLength => q1 = q /\ r1 = r + 1
    BY <1>1, <1>6, DivNext DEF q, r, q1, r1
  <2>2. q \in Nat /\ r \in 0 .. BinLength - 1 /\ n = q * BinLength + r
    BY <1>1, DivMod DEF q, r
  <2>3. CASE r + 1 = BinLength
    <3>1. n1 = (q + 1) * BinLength
      BY <1>1, <1>6, <2>2, <2>3
    <3>2. \A k \in Nat : names(k) \in Seq(Nat) /\ Len(names(k)) = k
      <4> TAKE k \in Nat
      <4>1. \A b \in 1 .. k : b * BinLength \in Nat
        BY <1>1
      <4> QED
        BY <4>1 DEF names
    <3>3. /\ names(q) \in Seq(Nat) /\ Len(names(q)) = q
          /\ names(q + 1) \in Seq(Nat) /\ Len(names(q + 1)) = q + 1
      BY <2>2, <3>2
    <3>4. /\ \A b \in 1 .. q : names(q)[b] = names(q + 1)[b]
          /\ names(q + 1)[q + 1] = n1
      BY <2>2, <3>1 DEF names
    <3>5. /\ Append(names(q), n1) \in Seq(Nat) /\ Len(Append(names(q), n1)) = q + 1
          /\ \A b \in 1 .. q : Append(names(q), n1)[b] = names(q)[b]
          /\ Append(names(q), n1)[q + 1] = n1
      BY <1>1, <3>3, AppendProperties
    <3>6. \A b \in 1 .. q + 1 : Append(names(q), n1)[b] = names(q + 1)[b]
      <4> TAKE b \in 1 .. q + 1
      <4>1. b \in 1 .. q \/ b = q + 1
        BY <2>2
      <4> QED
        BY <3>4, <3>5, <4>1
    <3>7. Append(names(q), n1) = names(q + 1)
      BY <3>3, <3>5, <3>6, SeqEqual
    <3> QED
      BY <1>1, <1>3, <1>4, <1>6, <2>1, <2>3, <3>7
  <2>4. CASE r + 1 # BinLength
    BY <1>1, <1>3, <1>4, <1>6, <2>1, <2>4
  <2> QED
    BY <2>3, <2>4
<1> QED
  BY <1>1, <1>5, <1>6

\* What the store holds: the running simulation and the one of the dump.
StoreMap ==
  /\ Live = IF pc = "down" THEN None ELSE Simulation(sweep)
  /\ Saved = IF dump = None THEN None ELSE Simulation(SweepOf(dump))
  /\ sweep \in Nat /\ (dump # None => SweepOf(dump) \in Nat)

LEMMA StoreHolds == ASSUME Inv, FilesInv PROVE StoreMap
<1> DEFINE n == Now
           q == n \div BinLength
<1>1. sweep \in Nat /\ n \in Nat /\ q \in Nat
  BY NowIsNat DEF Inv, FileTypes, Now
<1>2. ASSUME pc # "down"
      PROVE  Live = Simulation(sweep)
  <2> DEFINE k == q - obs.bin
  <2>1. k \in 0 .. q /\ obs = Held(n, k)
    BY <1>1, <1>2 DEF Inv, Buffered
  <2> HIDE DEF k
  <2>2. Content(Extended) \o CompleteBins(obs) = Bins(q)
    <3>1. CASE pc \in {"run", "copy_meas", "append_meas"}
      <4>1. Content(Extended) = Bins(k)
        BY <3>1 DEF FilesInv, Appends, Extended, k
      <4> QED
        BY <1>1, <2>1, <4>1, CompleteHeld
    <3>2. CASE pc \in Behind
      <4>1. measTmp = Bins(q) /\ measTmp # None
        BY <3>2, CheckpointAssumption DEF FilesInv, Appends, Inv, FileTypes
      <4>2. Content(Extended) = Bins(q)
        BY <3>2, <4>1 DEF Extended, Behind, Content
      <4>3. k = q
        BY <1>1, <3>2 DEF Inv, Buffered, k
      <4> QED
        BY <1>1, <2>1, <4>2, <4>3, CompleteHeld
    <3> QED
      BY <1>2, <3>1, <3>2 DEF Inv, FileTypes, WriteSteps, Behind
  <2>3. Names(Content(Extended) \o CompleteBins(obs)) = [b \in 1 .. q |-> b * BinLength]
    BY <1>1, <2>2, NamesOfBins
  <2>4. obs.filling = n % BinLength
    <3>1. 0 % BinLength = 0
      BY CheckpointAssumption
    <3> QED
      BY <2>1, <3>1 DEF Held, Grown, Registered
  <2> QED
    BY <1>2, <2>3, <2>4 DEF Live, Simulation, Now
<1>3. ASSUME dump # None
      PROVE  Saved = Simulation(SweepOf(dump)) /\ SweepOf(dump) \in Nat
  <2> DEFINE m == SweepsIn(dump)
             p == m \div BinLength
  <2>1. dump \in DumpFiles /\ dump.obs = Dumped(Held(m, p))
    BY <1>3 DEF Inv, FileTypes, DumpRight
  <2>2. SweepOf(dump) \in Nat /\ m \in Nat /\ p \in Nat
    <3>1. SweepOf(dump) \in Nat
      BY <2>1 DEF DumpFiles, SweepOf
    <3> QED
      BY <3>1, NowIsNat DEF SweepsIn
  <2>3. Content(Committed) = Bins(p)
    <3>1. CASE pc = "rename_meas"
      <4>1. SweepsIn(dump) = Now
        BY <3>1 DEF Inv, FileTypes, SweepsIn, Now
      <4>2. measTmp = Bins(p) /\ measTmp # None
        BY <3>1, <4>1, CheckpointAssumption
           DEF FilesInv, Appends, Behind, Inv, FileTypes
      <4> QED
        BY <3>1, <4>2 DEF Committed, Content
    <3>2. CASE pc # "rename_meas"
      BY <1>3, <3>2 DEF FilesInv, Appends, Committed, Content
    <3> QED
      BY <3>1, <3>2
  <2>4. Names(Content(Committed)) = [b \in 1 .. p |-> b * BinLength]
    BY <2>2, <2>3, NamesOfBins
  <2>5. dump.obs.filling = m % BinLength
    <3>1. 0 % BinLength = 0
      BY CheckpointAssumption
    <3> QED
      BY <2>1, <3>1 DEF Dumped, Held, Grown, Registered
  <2> QED
    BY <1>3, <2>2, <2>4, <2>5 DEF Saved, Simulation, SweepsIn
<1> QED
  BY <1>1, <1>2, <1>3 DEF Live, Saved, StoreMap

\* Every step is one of the store or stutters.
LEMMA StoreStep ==
  ASSUME Inv, Guarded, StoreMap, StoreMap', [Next]_vars
  PROVE  [Store!Next]_<<Live, Saved>>
<1>1. /\ Live = IF pc = "down" THEN None ELSE Simulation(sweep)
      /\ Saved = IF dump = None THEN None ELSE Simulation(SweepOf(dump))
      /\ sweep \in Nat /\ (dump # None => SweepOf(dump) \in Nat)
  BY DEF StoreMap
<1>2. /\ Live' = IF pc' = "down" THEN None ELSE Simulation(sweep')
      /\ Saved' = IF dump' = None THEN None ELSE Simulation(SweepOf(dump'))
  BY DEF StoreMap, Simulation
<1>3. \A s \in Nat : Simulation(s) # None
  BY SimulationTyped
<1>4. CASE StartRead
  <2>1. pc = "down" /\ pc' = "run" /\ dump # None /\ dump' = dump /\ sweep' = SweepOf(dump)
    BY <1>4 DEF StartRead, fileVars
  <2>2. Store!Load
    BY <1>1, <1>2, <1>3, <2>1 DEF Store!Load
  <2> QED
    BY <2>2 DEF Store!Next
<1>5. CASE StartInit
  <2>1. pc = "down" /\ pc' # "down" /\ dump = None /\ dump' = dump /\ sweep' = 0
    BY <1>5 DEF StartInit, fileVars
  <2>2. Simulation(0) = Store!Fresh
    <3>1. 0 % BinLength = 0
      BY CheckpointAssumption
    <3> QED
      BY <3>1, NothingHeld DEF Simulation, Store!Fresh
  <2>3. Store!Load
    BY <1>1, <1>2, <2>1, <2>2 DEF Store!Load
  <2> QED
    BY <2>3 DEF Store!Next
<1>6. CASE Update
  <2>1. pc = "run" /\ pc' = "run" /\ dump' = dump /\ sweep' = sweep + 1
    BY <1>6 DEF Update, fileVars
  <2>2. Store!Advanced(Live) = Live'
    BY <1>1, <1>2, <2>1, SimulationAdvances
  <2>3. Store!Work
    BY <1>1, <1>2, <1>3, <2>1, <2>2 DEF Store!Work
  <2> QED
    BY <2>3 DEF Store!Next
<1>7. CASE BeginCheckpoint \/ CopyMeas \/ AppendMeas \/ WriteDump \/ RenameMeas
           \/ UNCHANGED vars
  <2>1. (pc = "down" <=> pc' = "down") /\ dump' = dump /\ sweep' = sweep
    BY <1>7 DEF BeginCheckpoint, CopyMeas, AppendMeas, WriteDump, RenameMeas, vars,
                memVars, fileVars
  <2> QED
    BY <1>1, <1>2, <2>1
<1>8. CASE RenameDump
  <2>1. /\ pc # "down" /\ pc' # "down" /\ sweep' = sweep /\ dump' # None
        /\ SweepOf(dump') = sweep
    BY <1>8, RenameDumpKeeps DEF RenameDump, memVars, Inv, FileTypes
  <2>2. Store!Save
    BY <1>1, <1>2, <1>3, <2>1 DEF Store!Save
  <2> QED
    BY <2>2 DEF Store!Next
<1>9. CASE AppendFails \/ Crash
  <2>1. pc # "down" /\ pc' = "down" /\ dump' = dump
    BY <1>9, CheckpointAssumption DEF AppendFails, Crash, fileVars, WriteSteps
  <2>2. Store!Die
    BY <1>1, <1>2, <1>3, <2>1 DEF Store!Die
  <2> QED
    BY <2>2 DEF Store!Next
<1> QED
  BY <1>4, <1>5, <1>6, <1>7, <1>8, <1>9 DEF Next

\* For the scheduler a checkpoint is one step: a process that dies loses what it did
\* since the last one and nothing else, and a restart gets back exactly the
\* simulation that was saved, its samples included.
THEOREM StoreImplemented == Guarded => (Spec => ImplementsStore)
<1> SUFFICES ASSUME Guarded PROVE Spec => ImplementsStore
  OBVIOUS
<1>1. Init => Store!Init
  BY DEF Init, Store!Init, Live, Saved
<1>2. Inv /\ StoreMap /\ StoreMap' /\ [Next]_vars => [Store!Next]_<<Live, Saved>>
  BY StoreStep
<1>3. Inv /\ FilesInv => StoreMap
  BY StoreHolds
<1>4. Spec => [](Inv /\ FilesInv)
  BY FilesHold
<1> QED
  BY <1>1, <1>2, <1>3, <1>4, PTL DEF Spec, ImplementsStore, Store!Spec, Store!vars
=============================================================================
