# Specifications of loadleveller

loadleveller runs Monte Carlo simulations under MPI. A job has *tasks* (parameter
sets), each is simulated in one or more *runs*, and a scheduler hands runs to ranks
until every task has enough measured sweeps. Jobs outlive launches: at the end of
its runtime, or when it is killed, the program is started again on the files it
left. These TLA+ modules describe the schedulers, the checkpoints they rely on, the
searches they share, the averaging of what was measured and the tools that look at a
job from outside. TLC checks them on small instances, and TLAPS proves the
main safety properties of the MPI scheduler, the protocol of parallel tempering, checkpoints, the
tools and the choice of bins, for any number of ranks, tasks, sweeps, launches and samples. Source paths are relative to `src/src/`.

## The system

| part | state | operations | talks to |
|---|---|---|---|
| MPI master (`runner.cpp`) | sweeps and scheduled runs of each task, active ranks, task found last | answer a status, find the next task, read the progress of the dumps | slaves, under one tag each for status, action and job |
| MPI slave (`runner.cpp`) | task, run, simulation, sweeps since the last report | ask, load or initialise, sweep, checkpoint, report, merge | master; files of its run |
| single-core scheduler (`runner_single.cpp`) | as both of the above, in one process | the same, one task after the other | files of run 1 |
| parallel tempering scheduler (`runner_pt.cpp`) | chains of tasks, chain runs, their positions; own dump | as MPI for whole rank sets, and global updates | slaves, under one tag; files of all ranks of a set |
| simulation base class (`mc.cpp`) | sweep counter, observables | update, measure, `_read`, `_init`, `_write`, `_write_finalize` | dump and measurement file of a run |
| observables, measurements | filling of the current bin, complete bins | add, write out | `mc` |
| job information (`jobinfo.cpp`) | jobfile, directories | read the progress of a task, merge a task, join all results | files of a task |
| entry point (`loadleveller.h`) | none | run a scheduler, or the merge command, then join all results | schedulers, `jobinfo` |
| merger (`merger.cpp`) | sums, bins and counters by observable, over three passes | count, average, bin the samples of a task | measurement files, which a running simulation replaces |
| evalables, results | none | jackknife over the bins; `results.json` | merger |
| HDF5 wrapper (`iodump.cpp`) | open files | create, open, read, append | file system |
| Python tools (`../python`) | none | status, restart and merge decisions | files of the job and their times |

What is hard about it:

* **Concurrency.** Slaves report, leave and ask in any order. A run id is taken from
  a counter that also goes down, and it names files; the decision who merges a task
  is taken from the same counter.
* **One word, two meanings.** `A_NEW_JOB` answers two questions and means something
  else for each; every receive must find the message it was written for.
* **Time.** Each rank reads its own clock, so a task is worked on by ranks of which
  some leave and some stay.
* **Crashes and restarts.** What a launch knows is rebuilt from the dump files; a
  checkpoint writes two files in five steps and the process can die between any two.
* **Sets of ranks.** In parallel tempering the ranks of a set exchange tasks under way,
  all kinds of messages share one tag, and collectives of the set mix with messages to
  the master. A weight is asked for in one function and used in another, and each works
  out the pairs by itself. The files of a chain belong together but are written by
  several ranks.
* **Off by one.** Which sweep is the first measured one, and whether the dump counts
  it, decides whether a job is complete.
* **Commands from outside.** `loadl merge` may be given while the job runs, and both write
  the same results; `loadl status` reads whatever files there are at that moment.
* **Three passes.** The merger counts, averages and bins in separate passes that
  keep their own counters, over files that may be damaged and may have grown from one
  pass to the next.

`PROJECT.json` lists these hazards at their lines.

## Modules

| shared | the component | checked with | promise | proofs |
|---|---|---|---|---|
| `McSweeps`, `TaskScan` | `RunnerMpi` | `MCRunnerMpi` | `RunLeases` | `SharedProofs`, `RunnerMpiProofs` |
| `McSweeps`, `TaskScan`, `PtSwap` | `RunnerPt` | `MCRunnerPt` | `RunLeases` | `SharedProofs`, `RunnerPtSetProofs`, `RunnerPtRunProofs` |
| | `PtChains` | `MCPtChains` | | `PtChainsProofs` |
| `McSweeps`, `TaskScan` | `RunnerSingle`, in `JobStatus` | `MCJobStatus` | | `SharedProofs`, `JobStatusProofs` |
| `McSweeps`, `Observable` | `Checkpoint` | | `RunStore` | `CheckpointProofs` |
| `McSweeps`, `Rebinning` | `Merger` | `MCMerger` | | `MergerProofs` |

**McSweeps** holds what the schedulers and the checkpoint share of class `mc`: which
sweep is measured (`is_thermalized`), what the dump says of the counter, and what
reading it gives back.

**TaskScan** is `get_new_task_id`: go round the tasks from the one after the last,
take the first that is not done. Task ids are 0-based as in the code, `NoTask` is -1.

**RunnerMpi** is the MPI scheduler. `Assign`, `Dismiss`, `ReactBusy` and `ReactTimeUp`
are the branches of `runner_master::react`; `pc[s]` says where slave `s` is in
`runner_slave::start` and `what_is_next`, and each slave action runs from one place at
which another rank or a crash can come between to the next. Messages are sequences
per slave and tag (MPI keeps the order of messages between two ranks under one tag). The status of
a busy slave and its sweep count are two messages in the code, received together by
`react`, and one here. `Relaunch` rebuilds the master's memory from the dump files as
`runner_master::read` does. The clock is a free choice that stays up once it is up;
the checkpoint interval is a free choice after every sweep. A simulation is its sweep
counter and its unsaved measured sweeps. The code's own task and run
ids, and its files, are kept: `dump[t][r]` and `meas[t][r]` are the files of run `r`.
`meas` counts measured sweeps, those of the bin that is being filled included, which
the code keeps in the dump file until the bin is complete.

**RunLeases** says what the scheduler promises without any message or counter: runs of
open tasks are leased, no run twice; a release closes the task; the release that
leaves no lease on it starts its one merge. `ImplementsLeases` in RunnerMpi maps a
slave's lease to the job on its way to it, the run it works on, or the report that
was not answered yet. In RunnerPt the leaseholders are the rank sets and the tasks are the
chains; a set that has finished a chain gets the next one in the same breath, which is
`HandOver`.

**PtSwap** is the index arithmetic of a global update: `PartnerPos` and `Skips` as `react`
computes them, `TriedPairs`, `Moved` and `SwitchPartners` as `pt_global_update` does.

**RunnerPt** is the parallel tempering scheduler. The master is at one of three places
(`mode`): giving the first chains to the sets, in `react`, or inside `react` waiting for the
weights of one set, when it hears nobody else. `pc[r]` is where rank `r` is in
`runner_pt_slave`. The sweeps up to the next global update are one step, since nothing else
sees them. Which pairs are accepted depends on the weights and a random number: every
subset of the tried pairs is possible. Broadcast and barriers of `chain_comm_` are
modelled as such: `bcast[r]` is the result of `negotiate_timeout` that rank `r` has not
received yet, and `Barrier` lets the ranks of a set pass when each has called *a* barrier,
the one of the global update or the one of a checkpoint, because MPI would not tell them
apart. A checkpoint is `WriteTemporary`, the barrier, and the renames of each rank;
temporary files that no rename follows are not kept (Checkpoint looks at those).
`of` in `sys[r].buf` and in `meas[t][k]` is the set of tasks whose parameters the
measurements were made at, and follows them through exchanges into files.
`rc` is what the master returns; the program does not hand it on (see the findings).
`CrashWindows` says in which two places a kill that is known to do lasting damage
may happen: between the renames of the ranks of a set, and while the master writes its own dump.

**PtChains** is `construct_pt_chains`: the loop over the tasks of a jobfile, one turn per
step, then the checks of the finished chains. The jobfile is chosen as it is read,
negative, doubled and missing places included.

**Checkpoint** opens up the one step that a checkpoint is in the schedulers: copy the
measurement file, append the complete bins, write the dump, rename the dump, rename
the measurement file, with a crash before, during or after each. It follows one vector
observable. **Observable** is its buffer as `observable.h` has it, a flat vector of sums with the
bin in hand at the end, and what it writes and reads back. A measured value is
named by its sweep and a sum is the sequence of the values in it, so that the right content
of a file is known.
**RunStore** is the abstract store, with `Save` as one step; `ImplementsStore` maps a
checkpoint to `Save` at the rename of the dump.

**RunnerSingle** is the single-core scheduler, with the same abstractions as RunnerMpi
and only run 1. It does not save a run right after `_init`. Because a merge command may look at the
files at any moment, a checkpoint is two steps here (`WriteTemporary`, then `Checkpoint`, the renames)
and so is the writing of `results.json` (`OpenResults` empties it, `Merge` writes it). A kill between the
two steps of a checkpoint is left to Checkpoint; a kill with `results.json` open leaves it empty (`Torn`).

RunnerSingle is checked as a part of **JobStatus**, which adds what is around a scheduler: `StartJoin` and `Join` are
`concatenate_results` at the end of `run_mc`; the merge command is a second process (`StartMerge`; `ReadTask`, `OpenTask` and
`WriteTask` for each task; `StartFinish` and `FinishMerge` for `concatenate_results`) that may be started at any time and
killed at any time, also with a file open; `NeedMerge` and
`NeedRestart` are the answers of `loadl status`. When both processes have one file open, the text of the one that
writes last lies over what the other has written: `Written` lets the outcome be the whole text or a
spoilt one. Of the times of change of files, only the
order matters in which a measurement file and `JOBNAME.results.json` were written last: `newer` is the
set of tasks with the newer measurement file. A rename keeps the time at which the temporary file was written, so
`Checkpoint` makes a measurement file newer only if no results file was written since `WriteTemporary`
(`tmpNewer`). Results are numbers of measured sweeps; reading a
missing `results.json` into the results file stops the output there, which is
`Reached`. `Halfway` says that the scheduler has written temporary files it has not renamed, or has a file of
results open. `killed`, `overlap` (the scheduler was halfway at some moment of the command that is running) and `meddled`
(so it was of some command, or a command was killed) are history variables that the
properties need and no action reads. `KillsJoining` says whether a kill can cut the results
file short.

**Merger** is `merge()` for the files of one task. An entry of a samples dataset is named
`<<file, index>>`, and a sum is the sequence of the entries that were added to it, so that a
property can say which samples a mean or bin is made of, and in which order. `Collect`, `SumMeans` and
`FillBins` are the passes, one file per step, and `Rebin` is the choice of bins between
the first and the second. `Grow` is a checkpoint of a running simulation, which puts a longer file
in the place of one. Absent, empty and damaged datasets are among the
contents; a group that lost one of its two datasets is not (the second and the third pass would end with an exception). Squares and
roots are left out: error and autocorrelation time go over the same entries as the bins. The
lookups `metadata[...]` inside the two `assert`s also create entries; they are not modelled, as a release build does
not have them. `CompleteData` and `JackedData` are the sums that `evaluator::jackknife` makes of
the bins. **Rebinning** has the arithmetic of bin counts and lengths.

Definitions named as faulty variants are never used by the specifications. They are
the ways in which the definition after them could be wrong that the runs are shown
to notice.

## What is checked

| run | instance | shows |
|---|---|---|
| `mpi_restart` | 2 slaves, 2 tasks (one thermalizes), 2 launches, kills and time limits, fairness | counted sweeps are on disk, files agree, no run is rolled back; the barrier is quiet, exit code and results are right; every launch ends, and a job that is neither killed nor short of time completes |
| `mpi_contention` | 3 slaves, 1 task, time limits | run ids are exclusive, `scheduled_runs` counts the holders, one slave merges and merges alone; refinement of RunLeases |
| `pt_restart` | 1 set of 3 ranks, 2 launches, kills and time limits, kills inside the master's dump, fairness | ranks and master agree on who has which parameters; messages and collectives match; files agree, hold only what was measured at their parameters, and can be resumed from; no run is rolled back; every launch ends; a job with enough time completes, the master returns 0 |
| `pt_sets` | 2 sets of 2 ranks, 2 chains, time limits | no two ranks write the same files; when a task is merged, all that can be missing is the last rename of ranks of other sets; refinement of RunLeases |
| `pt_chains` | jobfiles of up to 4 tasks with 3 chain ids, 4 positions, 4 settings, 1 to 4 ranks | accepted exactly if sound, and then every task at its place |
| `checkpoint_atomic` | vectors of 2, bins of 2 sweeps, 7 sweeps, 3 starts, crashes except between the renames | refinement of RunStore; buffer and files belong together; no damaged file takes the place of a good one |
| `job_restart` | single-core scheduler, 2 tasks, thermalization 0 and 1, 3 launches, kills and time limits, 2 merge commands, fairness | progress counting, exit code and results at the end of a launch; what `loadl status` says is true where nothing was killed and no command ran while the scheduler was halfway; a merge command during which it was never halfway repairs everything; launches and commands end |
| `merger` | 2 files, a vector and a scalar observable, skip 0 and 1, bin length 0 (choose), 2 and 3, 2 replaced files | bins are consecutive blocks of samples across files; bins are full and disjoint even when files grow between passes; half of the samples at least are used; the jackknife leaves out each bin once |
| `mpi_durable`, `mpi_merged`, `checkpoint_renames`, `job_merged` | | the findings below |

**Bounds.** `MaxLaunches`, `MaxSweep` in Checkpoint, `MaxMerges` in JobStatus and
`MaxReplaced` in Merger are the only bounds on behaviours; everything else is finite because a master that has seen a task's target stops
it. Two launches are one restart on whatever a launch can leave; the third start in Checkpoint and
JobStatus is a restart on files that a restarted process left. Three
slaves are needed for a release between two others and for a run id
that is taken while a lower one is free. Targets of 1 and 2 with thermalization 0 and 1 let a
task end in the first report, in a later one, and while another
rank is still thermalizing. Seven sweeps are three bins and a part. The symmetry of
slaves is used where no liveness is checked.

A chain of three is the shortest in which a rank is skipped at either end, pairs of both
parities exist, and a rank can wander over the whole chain; a target of two global updates after
one of thermalization gives a launch both parities. Two sets of two ranks on two chains, each
done after one update, have sets arrive at a chain that another set works on, finish it
first or last, and go on to the other chain. Two sets and three ranks per set at once are
beyond TLC; sets meet only at the master, which does not look at positions when it
assigns chains. Four tasks are two chains of two, or one with a doubled,
skipped or late place; `MCSettings` differs in one respect at a time.

Two merge commands are one after another, or one in each of two launches. In Merger, two files
have a border for a bin to cross, files of lengths up to 3 vectors and 7 scalars give bins of many
lengths with and without leftover samples, `MinBinCount` is 2 instead of 10 so that the cube root
matters with few samples, and two replaced files let a file grow in one pass and another one
in a later pass. What the choice of bins says of larger numbers is proved.

**Deadlock** is checked in all runs but those of Checkpoint, where a process that
crashed in its last launch stays down. Elsewhere one action stands for having nothing left to
do: `Stopped`, after the last launch (in RunnerPt also when a launch has refused its
files), `Decided` in PtChains, `AllDone` in JobStatus, `Returned` in Merger. So a `metadata.at` that throws
in the merger shows as a deadlock too.

**Fairness.** `mpi_restart` assumes weak fairness of each slave's next
step, of the master's reaction to each slave, and of the barrier. Every rank is a
process that the operating system runs and its receives are matched by arrived
messages; `MPI_Recv` from any source does not pass over a sender for ever. `pt_restart` assumes the same of every rank and of the
barrier of each set, and of the master only that it goes on serving somebody. There is no fairness
on `Crash` and `Relaunch`. `job_restart` assumes weak fairness of the scheduler's process and of the merge command's,
which the operating system runs, and none on kills, restarts or the start of a command. `Completes` is stated
for behaviours without a kill and without a rank that has left for lack of time; nothing is
assumed of the clocks otherwise.

## What is proved

The theorems on the MPI scheduler are about `Spec` of RunnerMpi for any finite nonempty set of
slaves, any number of tasks, targets, thermalizations and launches, with or without crashes and
time limits (`SlavesAssumption`, `TasksAssumption`, `LaunchAssumption`).

* `GetNewTaskIdCorrect` (SharedProofs): the search returns a task that is not done, and
  -1 exactly when there is none. It rests on two lemmas about going round with `%`. The rest of
  SharedProofs is about sums over finite sets, which progress and measurement files are: the sum is shown
  to be the one number that every way of adding up leads to (`TotalIs`, by induction over finite
  sets from the well-foundedness of `<`), natural, monotonic, and changed by a change of one
  summand as expected (`TotalWritten`, `TotalMonotone`). The model's folds are instances of it
  (`ReadDumpProgressIs`, `MeasuredIs`, `ReportedIs`).
* `TypeCorrect`, `ProtocolHolds` (RunnerMpiProofs). `Protocol` gives, for each place of a
  slave, what may be in its three channels. It makes every later argument local: a
  message at the master tells where its sender is (`Sender`), a step of one slave leaves
  the others alone (`Frame`).
* `RunsNotShared`, `ScheduledCounts`, `MergesAlone`, `LeasesImplemented`
  (RunnerMpiProofs). First every step is shown to grant a lease, free one, start
  afresh, or keep all (`LeaseStepHolds`). Over these four, `LeaseInv` is inductive:
  `NoSharedRun` alone is not, because a run id could already be in use above the counter.
  `RunsNumbered` excludes that for open tasks (and only for them:
  after a release, a higher run id may be held while the counter is lower, which is harmless because nothing
  of a done task is handed out), and `HoldersCounted` keeps the counter natural. For
  the merge, the last release finds the counter at one, so the releasing slave was the
  only holder.
* `InvariantHolds`, `BarrierIsQuiet`, `ExitCodeRight` (RunnerMpiProofs). `ActiveCounted`
  says whom `num_active_ranks_` counts, so at the barrier every slave is finished and its
  channels are empty. `ScanMeaning` ties `current_task_id_`, from which the exit code is
  read, to the progress: the task found last may be stale, but as long as all is
  done and the search has not said so, some slave will still ask.
* `FilesAlwaysAgree`, `RunsNeverRollBack` (RunnerMpiProofs). What a rank has in memory
  continues the files of its run (`MemoryContinues`). Another rank's checkpoint could break
  this, and does not because runs are not shared.
* `CountedSweepsAreSaved` (RunnerMpiProofs) is `CountedOnDisk` for any number of slaves and kills. The
  inductive invariant `Covered` says of each task that what the master has counted, together
  with what its slaves' reports on the way and to come will say, is at most the sum of the
  measurement files. The step that matters is a checkpoint: it adds to the file what the slave
  then owes the master.
* `ResultsAreFresh` (RunnerMpiProofs) is `FreshResults`. As long as a task's results are not those of its
  measurement files, somebody still has to merge it: a slave holds a run of it, or the slave that does the merge is
  on its way (`MergeToCome`). At the barrier nobody is left who could, so the results are right.

The theorems on the other parts:

* `CountsAreRight`, `EndingIsMerged`, `RestartIsNoticed`, `MergeCommandRepairs` (JobStatusProofs), for any number
  of tasks, launches, kills and merge commands. The inductive invariants tie the scheduler's
  counter to the samples on disk and in memory (`SchedulerInv`), and each step of the merge command to the tasks that
  it has done so far (`MergesFaithfully`). Whoever opens a file while the other process has none open finds it empty when it
  writes (`OpenedIsEmpty`), so that what it writes is what the file holds; the exceptions of the properties are the
  moments at which both could be writing, or one could read what the other has not finished.
  `CalmJobIsMerged` rests on four more facts (`CalmInv`): what was measured is merged or in hand, no task before one that
  was worked on lacks results, a measurement file about to be put in its place is newer than the results file of the job, and what is
  not newer than that file is in it. It has a hypothesis, `Positive`: every task asks for a sweep. A task that
  asks for none is never worked on and so never merged (see below).
* `BufferAlwaysFits`, `FilesNeverTorn` (CheckpointProofs), for vectors, bins and targets of any
  size. `FilesStayConsistent` and `StoreImplemented` (the refinement of RunStore) have the hypothesis `Guarded`: a
  new run is saved at once, as the parallel schedulers do, and no kill comes between the two renames. Both are
  needed: without them the runs and the findings below show how bins get lost or doubled.
* `AskedIffTried`, `MovedPermutes`, `PartnersAgree` (RunnerPtSetProofs), for chains of any length:
  the sign in `react` picks the same pairs as the loop in `pt_global_update`; changing
  places is its own inverse, so positions stay a permutation and partners name each other.
* `BinsAlwaysCover`, `MetadataAlwaysThere` (MergerProofs), for any files, observables, skips,
  bin lengths and number of replaced files (`MergerAssumption`). The arithmetic is in four lemmas: `cbrt(n)`
  is at most `n`, so there are not more bins than samples, and a length rounded down
  loses less than one sample per bin. The inductive invariant `MergeInv` adds to the types that
  count and length of every observable found are those of `total` (`BinsChosen`), and that in the second
  pass an observable without metadata was in no file opened so far, but is in one that is still to come
  (`MetadataToCome`): the file that it was found in only ever grows.
* `SamplesAlwaysInBlocks`, `BinsAlwaysFilled`, `JackknifeAlwaysParts` (MergerProofs), for the same. The passes are folds over the
  entries of a file; that a fold is its turns one after the other is proved first (`FoldTurns`; the folds
  in question are recursive functions on finite sets, so this is an induction over the natural numbers). Entry
  `w * VectorLength[o] + c` is component `c` of vector `w`, and each loop is followed place by place (`RowHolds`). A loop state
  is described by the number of vectors so far and the component that is next: the mean has a block of each component's samples
  (`MeanState`), a bin has its block as far as the samples go (`ContentIs`), and the bin being filled, its filling and
  the bins closed are a quotient and a rest (`PlaceIs`). Damaged files need two weaker facts: how many vectors there were at least
  (`BinsCount`, so that the bins get full) and that an entry is in one bin (`BinsApart`). The inductive invariant
  `PassInv` takes this from file to file and from pass to pass. A file may be replaced at any time, so it says of the samples still to come
  that there are enough (`Counted`), which longer files only help, and of undamaged files that the bins are
  blocks of some sequence of samples (`Taken`): the one the files have, if none was replaced.
  What the three properties say is then read off at the end.
* `ChainsAlwaysDecided` (PtChainsProofs) is `DecidesRight` for any number of tasks, chains and positions, in any
  order. The chains built hold the tasks read so far, each at its place; every place they have, and their last
  one, was asked for by some task. So when all tasks are read, a chain that has as many places as there are
  tasks for it has one task for each, which is counting and is done with library facts on finite sets.
* `WeightsAlwaysForPairs` (RunnerPtSetProofs), for any number of sets, chains, updates and
  launches (`ShapeAssumption`). The inductive invariant `PosInv` carries the permutations and
  the types of `swap_odd` in memory and in the master's dump, because a restart combines
  the one that was saved with positions that were not.
* `SetsInStep` (RunnerPtSetProofs), and from it `PositionsAlwaysAgree`, `MessagesAlwaysFit`, `CollectivesAlwaysMatch`,
  `FilesNeverShared`, `DumpsAlwaysConsistent`, `MergesLate`, `ChainLeasesImplemented` (RunnerPtRunProofs), for any number of sets, chains, ranks per set, targets, launches and
  kills. With one tag for everything and one communicator for all collectives, nothing can be said of a rank by
  itself: what it may receive next depends on what the others of its set have done, and the master may be several
  messages ahead. `SetIn` says that since the last barrier the ranks of a set walk along one *path*: how the stretch began
  (a launch, a fresh run, a report, the end of the time, a global update), what the master has sent since (an
  action, a job, the tasks of an update, who is to answer, the tasks of the next update), and where it leads
  (sweeps, a checkpoint, the exit). A rank's place, task, run, simulation and flags follow from the path and from how
  far it has come (`Placed`, `Works`, `Simulates`, `CountsTo`), what is in its channel is the rest of the path (`Queue`),
  and chain rank 0 limits how far the path is known. There is always such a path; that is the invariant, with three
  facts on all sets together: dumps of a run agree while no rank renames them (`FilesInv`), a run that is being renamed
  is nobody else's (`RenameInv`), `scheduled_runs` counts the sets that have a run (`LeaseInv`). The path is not a
  variable: each step's proof names the new one.
  From it the properties follow, `MessagesFit` with the count of active ranks (`ActiveInv`), `ConsistentDumps`
  with what a launch accepts. For the leases every step is shown to grant one to a set, free one (or change it for
  another), start afresh, or keep all (`LeaseStep`); over these a chain that is merged stays done and without a set
  (`MergeInv`), which gives `LateRenamesOnly` and the refinement of RunLeases.
  The hypothesis `Together` is that tasks of one chain have one `pt_sweeps_per_global_update`, and that no kill comes between
  the renames of the ranks of a set. Both are needed; what happens without them is described under the findings.
* `FilesAlwaysAgree`, `RunsOnlyGrow` (RunnerPtRunProofs), with the same hypothesis. A rank sweeps with measurements in
  memory that it hands to another rank when they change tasks, in two halves between which neither has what belongs to its
  task. Ranks that change tasks come in pairs that leave the update together and are at the same sweep of the same run
  (`MateInv`). What a rank has in memory completes the file of the run, where between the two halves the memory counts for the
  task its partner has got (`MemInv`, with `OfTask`). Both files of a run agree (`DiskInv`), because nobody else
  has measurements for a file that is being renamed (`WritesApart`). A checkpoint then replaces the files by ones that continue
  them.

Only model-checked: the liveness properties, which are out of the prover's reach.

## Findings

1. **A complete job asks for a restart** (`mpi_durable`). The sweep whose number equals the
   thermalization is measured and reported, but the dump counts from the one after it
   (`mc.cpp:98` against `147`). A launch that stopped `due to completion' leaves dumps that are below the
   target, so `loadl status --need-restart` says `Needs restart!' and another launch works on.
2. **Done and never merged** (`mpi_merged`). A slave that leaves at the end of its runtime
   does not give back its run (`runner.cpp:127`). If another slave finishes the task,
   `scheduled_runs` stays above zero, nobody merges, the exit code is 0, and no later launch
   hands the task out again.
3. **Bins lost between two renames** (`checkpoint_renames`). The dump is renamed first
   (`mc.cpp:110`). After a crash before the second rename the dump is ahead of the
   measurement file, and the next checkpoint copies over the file that had the bins.
4. **`Job already merged' when it is not** (`job_merged`). `need_merge` compares
  the measurement files with `JOBNAME.results.json` (`jobstatus.py:65`), which `run_mc` writes anew at the end of
  every launch (`loadleveller.h:56`) from the `results.json` files there are, merged lately or not. After a kill behind
  a checkpoint, a launch whose runtime is over at once makes the results file the newest, without the
  samples of that checkpoint.

More that the models show, or that was met while writing them, and for which there is no run:

* **A chain with a gap is accepted.** The check for gaps looks at chain ids, which
  are never -1 (`runner_pt.cpp:222`, `runner_pt.h:9`), and not at positions. A place without a
  task has task id -1, which tells its rank to quit while the rest of the set waits for it.
  `DecidesRight` without its exception `GapFree` is violated.
* **Tasks of a chain drift apart.** Tasks of one chain may differ in
  `pt_sweeps_per_global_update`; a rank that changes task follows the new one's but keeps
  its counter. After a stop the dumps disagree and the next launch refuses them. `ConsistentDumps` is
  violated when `Spgu` differs between tasks of a chain.
* **Bins counted twice.** With no measurement file yet, `_write` appends to
  the temporary one that an interrupted first checkpoint left (`mc.cpp:77`; Checkpoint with
  `InitialCheckpoint = FALSE`, as in the single-core scheduler). If that
  file is damaged instead, every later start fails on it until it is removed by
  hand. The MPI scheduler saves a run before its first sweep, so what it finds there holds no bins.
* **Merged too early.** The report of a set comes from its rank 0 after its own renames
  (`runner_pt.cpp:774`, 745-750), and the barrier lies before the renames. With two sets on one
  chain, the second can be told to merge while another rank of the first has not
  renamed its last files (RunnerPt with the final files of every task required to be in its
  results, two sets, one chain).
* **Dumps of a chain that disagree.** A kill between the renames of two ranks leaves a chain
  that no later launch accepts (`CrashWindows = {"rename"}` breaks `ConsistentDumps`), against
  the intention of `mc.cpp:108`. If it is the chain's first checkpoint, no task has made any progress and the
  next launch does accept it: some ranks of the set then find a dump and sweep on while the
  others write a first one, and the barrier of the one's global update pairs with the barrier of the
  other's checkpoint (`CollectivesMatch` is violated).
* **Parallel tempering always exits with 0.** `runner_mpi_start` calls `runner_pt_start`, drops what it returns and
  returns 0 (`runner.cpp:25-28`), which `run_mc` hands on (`loadleveller.h:54-57`). Without parallel tempering the exit code is
  1 for a job that is not complete. `Completes` of RunnerPt therefore speaks of the value that the master returns.
* **A merge command beside a running job** (JobStatus without the exceptions for `meddled` and `overlap`
  violates `EndsMerged`, `MergedIfCalm` and `MergeCommandWorks`, kills or not).
  The source expects such commands (`loadleveller.h:49-52`).
  `results.json` and `JOBNAME.results.json` are emptied and rewritten in place (`results.cpp:33-34`, `jobinfo.cpp:115`), so a
  command whose `concatenate_results` comes while the scheduler has a `results.json` open gets an empty or cut entry. And a
  rename keeps the time at which `meas.h5.tmp` was written (`mc.cpp:80-83`, 111): a command that ends between the writing and
  the renaming leaves a results file that is newer than a measurement file it has never read, and `need_merge` says `Job
  already merged'. A later merge command repairs both, but status does not ask for one.
* **A task of no sweeps.** With `sweeps: 0` a task counts as done from the start, is never worked on and
  has no `results.json`; `concatenate_results` stops at it, so `JOBNAME.results.json` lacks all tasks from
  there on, and the job counts as merged (JobStatus with a `Target` of 0 violates `MergedIfCalm`).
* **A cut-short `pt_master.dump.h5`.** It is written in place; a kill at that
  moment stops the job for good. `ConsistentDumps` is stated with this exception.
* **A damaged dataset is not skipped** although the message says so
  (`merger.cpp:71`): only the first pass skips it; the others read it when another file has
  the observable. Then bins may start in the middle of a vector and have samples in the wrong component, so `SamplesInBlocks` asks for
  undamaged files. The bins also fill sooner than the mean counts, so that an evalable is not made of the data its
  ingredient's mean is made of (`JackknifeParts` asks for undamaged files there).
* **An observable without bins** (`merge_rebin_length` longer than its samples) is reported with mean 0 and an
  error that is not a number (`merger.cpp:149` leaves before the division, the last loop does not), and an evalable of one bin divides
  by zero (`evalable.cpp:87`).
* **Measurement files behind a missing run** are not looked at by `need_merge`, which stops at the
  first run id without a file (`jobstatus.py:65-71`).
* `--need-restart` and `--need-merge` return 0 for yes and 1 for no, while their help
  says the opposite (`jobstatus.py:80-81`, 87-91, 98-103).

A crash during `write_json` leaves a cut-short `results.json`. A task that was not done
gets a new one when it is merged; a task that was done does not.

## Not modelled, and the plan

* Parallel tempering: parameter optimization is floating point and is left out, with the statistics
  files and the random number generator in the master's dump. One thing to know of it: the master saves
  the histogram before it clears it (`runner_pt.cpp:452-454`), so a restart after it takes up rejections
  that were counted at the old parameters.
* `parse_duration`, the checks of observable names, and the creation of directories: pure functions of
  strings, or I/O.
* The exchange of buffers between two ranks (`measurements::mpi_sendrecv`) is one step of
  RunnerPt. Both ranks are assumed to have the same observables, as `measurements.h` demands.
* Left out: floating-point statistics (averages, jackknife, parameter optimization),
  random numbers, JSON and HDF5 encoding, logging, profiling.
