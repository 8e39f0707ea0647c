----------------------------- MODULE Checkpoint -----------------------------
(***************************************************************************)
(* The files of one run, runNNNN.dump.h5 and runNNNN.meas.h5, and the      *)
(* steps in which mc::_write and mc::_write_finalize (src/src/mc.cpp)      *)
(* bring them from one checkpoint to the next, with a crash of the process *)
(* before, during or after any of them, and the restart from mc::_read.    *)
(*                                                                         *)
(* One vector observable is followed, with its buffer as in Observable.  A *)
(* measurement file is the array of sums in its samples dataset, so the    *)
(* right content is known for every sweep.                                 *)
(***************************************************************************)
EXTENDS Integers, Sequences, McSweeps, Observable

CONSTANTS
  BinLength,          \* bin_length_ of the observable
  VectorLength,       \* the length of the vectors added to it
  Therm,              \* thermalization sweeps
  InitialCheckpoint,  \* whether a new run is saved at once: runner.cpp and
                      \* runner_pt.cpp do, runner_single.cpp does not
  CrashPoints,        \* the values of pc at which the process may die
  MaxSweep,           \* bound: sweeps of the run
  MaxLaunches,        \* bound: how often the process is started
  None,               \* there is no such file
  Corrupt             \* a file cut short; HDF5 refuses to open it

WriteSteps == {"copy_meas", "append_meas", "write_dump", "rename_dump",
               "rename_meas"}

\* What a measurement file and a dump file can hold, and the simulation in a store.
MeasFiles == Seq(Seq(Nat))
DumpFiles == [ therm : Nat, sweeps : Nat,
               obs : [vlen : Nat, filling : Nat, samples : Seq(Seq(Nat))] ]
Simulations == [sweep : Nat, filling : Nat, samples : Seq(Nat)]

ASSUME CheckpointAssumption ==
  /\ BinLength \in Nat \ {0} /\ VectorLength \in Nat \ {0} /\ Therm \in Nat
  /\ InitialCheckpoint \in BOOLEAN
  /\ CrashPoints \subseteq WriteSteps \cup {"run"}
  /\ MaxSweep \in Nat /\ MaxLaunches \in Nat
  /\ None # Corrupt
  /\ {None, Corrupt} \cap (MeasFiles \cup DumpFiles \cup Simulations) = {}

VARIABLES
  pc,        \* "down", "run", or the step of the checkpoint that comes next
  launches,
  \* mc and its observable
  sweep,     \* sweep_
  obs,       \* the observable
  \* files: None, Corrupt, or their content
  dump, dumpTmp,
  meas, measTmp

memVars  == <<sweep, obs>>
fileVars == <<dump, dumpTmp, meas, measTmp>>
vars == <<pc, launches, memVars, fileVars>>

Init ==
  /\ pc = "down" /\ launches = 0
  /\ sweep = 0 /\ obs = Registered
  /\ dump = None /\ dumpTmp = None /\ meas = None /\ measTmp = None

\* mc::_read: there is a dump, resume from it.
StartRead ==
  /\ pc = "down" /\ launches < MaxLaunches /\ launches' = launches + 1
  /\ dump # None
  /\ sweep' = SweepOf(dump) /\ obs' = Restored(dump.obs)
  /\ pc' = "run"
  /\ UNCHANGED fileVars

\* mc::_init: no dump, a new simulation.
StartInit ==
  /\ pc = "down" /\ launches < MaxLaunches /\ launches' = launches + 1
  /\ dump = None
  /\ sweep' = 0 /\ obs' = Registered
  /\ pc' = IF InitialCheckpoint THEN "copy_meas" ELSE "run"
  /\ UNCHANGED fileVars

\* One sweep, measured if the simulation is thermalized.
Update ==
  /\ pc = "run" /\ sweep < MaxSweep
  /\ sweep' = sweep + 1
  /\ obs' = IF IsThermalized(sweep + 1, Therm)
            THEN Added(obs, MeasuredSweeps(sweep + 1, Therm), VectorLength, BinLength)
            ELSE obs
  /\ UNCHANGED <<pc, launches, fileVars>>

\* The scheduler calls checkpoint_write.
BeginCheckpoint ==
  /\ pc = "run"
  /\ pc' = "copy_meas"
  /\ UNCHANGED <<launches, memVars, fileVars>>

\* Faulty variants of the next steps: the temporary file is not refreshed; an
\* error on opening it is passed over.
NeverCopied == measTmp
AppendErrorIgnored ==
  /\ pc = "append_meas" /\ measTmp = Corrupt
  /\ pc' = "write_dump"
  /\ UNCHANGED <<launches, memVars, fileVars>>

\* copy_file, overwriting; that there is nothing to copy is not an error, and
\* leaves a measurement file of an earlier attempt where it is.
CopiedMeas == IF meas # None THEN meas ELSE measTmp

CopyMeas ==
  /\ pc = "copy_meas"
  /\ measTmp' = CopiedMeas
  /\ pc' = "append_meas"
  /\ UNCHANGED <<launches, memVars, dump, dumpTmp, meas>>

\* iodump's insert_back: append to a dataset, which is made if need be.
InsertBack(file, data) == (IF file = None THEN << >> ELSE file) \o data

\* open_readwrite and samples_write: the complete bins move from memory to the
\* end of the temporary measurement file, which is created if need be.
AppendMeas ==
  /\ pc = "append_meas" /\ measTmp # Corrupt
  /\ measTmp' = InsertBack(measTmp, CompleteBins(obs))
  /\ obs' = Emptied(obs)
  /\ pc' = "write_dump"
  /\ UNCHANGED <<launches, sweep, dump, dumpTmp, meas>>

\* H5Fopen fails on a damaged temporary file: the exception ends the process.
AppendFails ==
  /\ pc = "append_meas" /\ measTmp = Corrupt
  /\ pc' = "down"
  /\ UNCHANGED <<launches, memVars, fileVars>>

WriteDump ==
  /\ pc = "write_dump"
  /\ dumpTmp' = [ therm   |-> DumpOf(sweep, Therm).therm,
                  sweeps  |-> DumpOf(sweep, Therm).sweeps,
                  obs     |-> Dumped(obs) ]
  /\ pc' = "rename_dump"
  /\ UNCHANGED <<launches, memVars, dump, meas, measTmp>>

\* mc::_write_finalize, first and second rename.
RenameDump ==
  /\ pc = "rename_dump"
  /\ dump' = dumpTmp /\ dumpTmp' = None
  /\ pc' = "rename_meas"
  /\ UNCHANGED <<launches, memVars, meas, measTmp>>

RenameMeas ==
  /\ pc = "rename_meas"
  /\ meas' = measTmp /\ measTmp' = None
  /\ pc' = "run"
  /\ UNCHANGED <<launches, memVars, dump, dumpTmp>>

\* The process dies.  A file it was writing may be left cut short.
Crash ==
  /\ pc \in CrashPoints
  /\ pc' = "down"
  /\ measTmp' \in {measTmp} \cup
       (IF pc = "append_meas" \/ (pc = "copy_meas" /\ meas # None)
        THEN {Corrupt} ELSE {})
  /\ dumpTmp' \in {dumpTmp} \cup (IF pc = "write_dump" THEN {Corrupt} ELSE {})
  /\ UNCHANGED <<launches, memVars, dump, meas>>

Next ==
  \/ StartRead \/ StartInit \/ Update \/ BeginCheckpoint
  \/ CopyMeas \/ AppendMeas \/ AppendFails \/ WriteDump
  \/ RenameDump \/ RenameMeas
  \/ Crash

Spec == Init /\ [][Next]_vars

-----------------------------------------------------------------------------
(* Properties                                                              *)

\* The buffer always holds the complete bins and the one in hand, to which as
\* many sweeps were added as current_bin_filling_ says (observable.h:53-86), also
\* when it comes from a dump; and at every checkpoint the complete bins
\* have left it before the dump is written (the assertions of observable.cpp:19, 22).
BufferFits ==
  pc # "down" =>
    /\ Len(obs.samples) = (obs.bin + 1) * obs.vlen
    /\ \A j \in DOMAIN obs.samples :
         Len(obs.samples[j]) = IF j <= obs.bin * obs.vlen THEN BinLength ELSE obs.filling
    /\ pc = "write_dump" => OneBinLeft(obs)

\* The samples of n measured sweeps: the sums of the complete bins, component by
\* component, and those of the bin that is left.
SweepsOfBin(b, n) == [i \in 1 .. AtMost(BinLength, n - b * BinLength) |-> b * BinLength + i]
BinsUpTo(n) == [j \in 1 .. (n \div BinLength) * VectorLength |->
                  SweepsOfBin((j - 1) \div VectorLength, n)]

\* What a merge reads from measurement file m.
Content(m) == IF m = None THEN << >> ELSE m

\* Measurement file m and dump file d belong together: m holds every complete
\* bin of the sweeps d stands for, once and in order, and d holds the bin that
\* is left.
Consistent(m, d) ==
  LET n == MeasuredSweeps(SweepOf(d), Therm)
  IN  /\ Content(m) = BinsUpTo(n)
      /\ d.obs.filling = n % BinLength
      /\ \A j \in DOMAIN d.obs.samples :
           d.obs.samples[j] = SweepsOfBin(n \div BinLength, n)

\* The plan of observable.cpp:16-18: whenever the process could be restarted or
\* merged from its files, the measurement file has all complete bins of the
\* dumped simulation and no others, so that resuming loses and repeats nothing.
\* Between the two renames the new measurement file still has its old name.
FilesConsistent ==
  dump # None /\ pc # "rename_meas" => Consistent(meas, dump)

\* Neither file is ever replaced by one that was not completely written
\* (mc.cpp:107), wherever the process dies: the next start can read them.
NeverTorn == dump # Corrupt /\ meas # Corrupt

\* The measurement file of the last checkpoint that took effect: the first
\* rename commits it.
Committed == IF pc = "rename_meas" THEN measTmp ELSE meas

\* The measurement file that the bins in memory continue.
Extended == IF pc \in {"write_dump", "rename_dump", "rename_meas"}
            THEN measTmp ELSE meas

\* RunStore names a bin by its last sweep.
Names(sums) ==
  [b \in 1 .. Len(sums) \div VectorLength |->
     sums[b * VectorLength][Len(sums[b * VectorLength])]]

\* The running simulation and the saved one as RunStore has them.
Live ==
  IF pc = "down" THEN None
  ELSE [ sweep |-> sweep, filling |-> obs.filling,
         samples |-> Names(Content(Extended) \o CompleteBins(obs)) ]
Saved ==
  IF dump = None THEN None
  ELSE [ sweep |-> SweepOf(dump), filling |-> dump.obs.filling,
         samples |-> Names(Content(Committed)) ]

Store == INSTANCE RunStore WITH Nothing <- None, live <- Live, saved <- Saved

\* Seen from the scheduler a checkpoint is one step, and what a restart gets is
\* the simulation as it was at the last one.
ImplementsStore == Store!Spec
=============================================================================
