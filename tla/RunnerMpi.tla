----------------------------- MODULE RunnerMpi -----------------------------
(***************************************************************************)
(* The MPI scheduler of loadleveller (src/src/runner.cpp): rank 0 runs     *)
(* runner_master, every other rank a runner_slave.  A launch is one        *)
(* `mpirun' of the program; it ends at the MPI_Barrier of runner_mpi_start *)
(* or by a crash of the whole MPI job, and the user may launch again on    *)
(* the files the launch left behind.                                       *)
(*                                                                         *)
(* A checkpoint is one step here: the steps inside mc::_write and          *)
(* mc::_write_finalize, and crashes between them, are module Checkpoint.   *)
(* What a simulation computes is abstracted to its sweep counter and the   *)
(* number of its measured sweeps.                                          *)
(***************************************************************************)
EXTENDS Integers, Sequences, FiniteSets, FiniteSetsExt, TaskScan, McSweeps

CONSTANTS
  Slaves,          \* the ranks other than 0
  NTasks,          \* the number of tasks in the jobfile
  Target,          \* task -> "sweeps"
  Therm,           \* task -> "thermalization"
  MaxLaunches,     \* bound: how often the program is launched
  RuntimeLimited,  \* whether mc_runtime can run out
  MayCrash         \* whether a launch can be killed

Tasks == 0 .. NTasks - 1

ASSUME SlavesAssumption  == Slaves # {} /\ IsFiniteSet(Slaves)
ASSUME TasksAssumption   == /\ NTasks \in Nat
                            /\ Target \in [Tasks -> Nat]
                            /\ Therm \in [Tasks -> Nat]
ASSUME LaunchAssumption  == /\ MaxLaunches \in Nat \ {0}
                            /\ RuntimeLimited \in BOOLEAN
                            /\ MayCrash \in BOOLEAN

VARIABLES
  phase,      \* "running", "ended" (past the barrier) or "crashed"
  rc,         \* exit code of rank 0
  launches,   \* launches so far
  \* runner_master
  numActive,  \* num_active_ranks_
  sweeps,     \* tasks_[t].sweeps
  scheduled,  \* tasks_[t].scheduled_runs
  current,    \* current_task_id_
  \* runner_slave
  pc,         \* where slave s is in runner_slave::start / what_is_next
  task, run,  \* task_id_, run_id_
  since,      \* sweeps_since_last_query_
  before,     \* sweeps_before_communication_
  timeUp,     \* what time_is_up() answered last
  sys,        \* the simulation: its sweep_ and the measured sweeps not yet
              \* written to the measurement file
  \* MPI: in-order channels between the master and slave s, one per tag
  statusCh,   \* T_STATUS
  actionCh,   \* T_ACTION
  jobCh,      \* T_NEW_JOB
  \* files, as functions of the run ids they exist for
  dump,       \* runNNNN.dump.h5: the two sweep counters
  meas,       \* runNNNN.meas.h5: how many measured sweeps are in it, counting
              \* those of the bin being filled, which the dump file keeps
  results,    \* results.json: the measurement files it was merged from
  \* history: the tasks handed out in this launch
  assigned

launchVars == <<phase, rc, launches>>
masterVars == <<numActive, sweeps, scheduled, current>>
slaveVars  == <<pc, task, run, since, before, timeUp, sys>>
netVars    == <<statusCh, actionCh, jobCh>>
diskVars   == <<dump, meas, results>>
vars == <<launchVars, masterVars, slaveVars, netVars, diskVars, assigned>>

NoRuns == [r \in {} |-> 0]
NoSys  == [sweep |-> 0, unsaved |-> 0]
NoResults == [r \in {-1} |-> 0]  \* there is no results.json
Torn      == [r \in {0} |-> 0]   \* a results.json cut short by a crash

IdleMsg           == [type |-> "idle"]
BusyMsg(t, n)     == [type |-> "busy", task |-> t, sweeps |-> n]
TimeUpMsg         == [type |-> "timeup"]
JobMsg(t, r, n)   == [task |-> t, run |-> r, before |-> n]

Push(ch, s, m) == [ch EXCEPT ![s] = Append(@, m)]
Pop(ch, s)     == [ch EXCEPT ![s] = Tail(@)]

\* The file named after run r, written over or added to the directory.
WriteRun(dir, r, content) ==
  [q \in DOMAIN dir \cup {r} |-> IF q = r THEN content ELSE dir[q]]

-----------------------------------------------------------------------------
(* Launching.                                                              *)

\* jobinfo::read_dump_progress: what the dump files of task t add up to.
ReadDumpProgress(t) ==
  MapThenSumSet(LAMBDA r : dump[t][r].sweeps, DOMAIN dump[t])

\* The state of all ranks when the program starts.
RanksStart ==
  /\ numActive' = Cardinality(Slaves) + 1
  /\ scheduled' = [t \in Tasks |-> 0]
  /\ current' = NoTask
  /\ pc' = [s \in Slaves |-> "start"]
  /\ task' = [s \in Slaves |-> NoTask]
  /\ run' = [s \in Slaves |-> -1]
  /\ since' = [s \in Slaves |-> 0]
  /\ before' = [s \in Slaves |-> 0]
  /\ timeUp' = [s \in Slaves |-> FALSE]
  /\ sys' = [s \in Slaves |-> NoSys]
  /\ statusCh' = [s \in Slaves |-> << >>]
  /\ actionCh' = [s \in Slaves |-> << >>]
  /\ jobCh' = [s \in Slaves |-> << >>]
  /\ assigned' = {}

Init ==
  /\ phase = "running" /\ rc = 0 /\ launches = 1
  /\ numActive = Cardinality(Slaves) + 1
  /\ sweeps = [t \in Tasks |-> 0]
  /\ scheduled = [t \in Tasks |-> 0]
  /\ current = NoTask
  /\ pc = [s \in Slaves |-> "start"]
  /\ task = [s \in Slaves |-> NoTask]
  /\ run = [s \in Slaves |-> -1]
  /\ since = [s \in Slaves |-> 0]
  /\ before = [s \in Slaves |-> 0]
  /\ timeUp = [s \in Slaves |-> FALSE]
  /\ sys = [s \in Slaves |-> NoSys]
  /\ statusCh = [s \in Slaves |-> << >>]
  /\ actionCh = [s \in Slaves |-> << >>]
  /\ jobCh = [s \in Slaves |-> << >>]
  /\ dump = [t \in Tasks |-> NoRuns]
  /\ meas = [t \in Tasks |-> NoRuns]
  /\ results = [t \in Tasks |-> NoResults]
  /\ assigned = {}

\* The whole MPI job dies: memory and messages are gone.  A slave killed
\* inside results::write_json leaves a cut-short results.json.
Crash ==
  /\ MayCrash
  /\ phase = "running"
  /\ phase' = "crashed"
  /\ \E cut \in SUBSET {task[s] : s \in {q \in Slaves : pc[q] = "merge"}} :
       results' = [t \in Tasks |-> IF t \in cut THEN Torn ELSE results[t]]
  /\ UNCHANGED <<rc, launches, masterVars, slaveVars, netVars, dump, meas,
                 assigned>>

\* The program is started again; runner_master::read.
Relaunch ==
  /\ phase # "running"
  /\ launches < MaxLaunches
  /\ phase' = "running" /\ rc' = 0 /\ launches' = launches + 1
  /\ sweeps' = [t \in Tasks |-> ReadDumpProgress(t)]
  /\ RanksStart
  /\ UNCHANGED diskVars

-----------------------------------------------------------------------------
(* runner_master                                                           *)

\* runner_task::is_done
IsDone(target, n) == n >= target

DoneTasks == {t \in Tasks : IsDone(Target[t], sweeps[t])}

\* Faulty variants of the next definitions.
AskedTooLittle(t) == Target[t] - AtMost(Target[t], sweeps[t] + 1)
ReleasedAlways(n, done) == n - 1
ReleasedButLast(n, done) == IF done /\ n > 1 THEN n - 1 ELSE n
MergeEarly(done, left) ==
  IF ~done THEN "continue" ELSE IF left > 1 THEN "new_job" ELSE "process"
MergeNever(done, left) == IF ~done THEN "continue" ELSE "new_job"

\* How many measured sweeps a slave is asked for before it reports.
SweepsUntilComm(t) == 1 + Target[t] - AtMost(Target[t], sweeps[t])

\* scheduled_runs after a report: the run of a finished task is over.
Released(n, done) == IF done THEN n - 1 ELSE n

\* What the master answers to a report once a task has n sweeps and left
\* runs still scheduled after this one.
Verdict(done, left) ==
  IF ~done THEN "continue" ELSE IF left > 0 THEN "new_job" ELSE "process"

Receives(s, type) ==
  /\ phase = "running"
  /\ numActive > 1
  /\ statusCh[s] # << >>
  /\ Head(statusCh[s]).type = type
  /\ statusCh' = Pop(statusCh, s)

\* react(), S_IDLE, a task is left: hand it out as its next run.
Assign(s) ==
  /\ Receives(s, "idle")
  /\ LET t == GetNewTaskId(current, NTasks, DoneTasks)
     IN  /\ t # NoTask
         /\ current' = t
         /\ scheduled' = [scheduled EXCEPT ![t] = @ + 1]
         /\ actionCh' = Push(actionCh, s, "new_job")
         /\ jobCh' = Push(jobCh, s,
                          JobMsg(t, scheduled'[t], SweepsUntilComm(t)))
         /\ assigned' = assigned \cup {t}
  /\ UNCHANGED <<launchVars, numActive, sweeps, slaveVars, diskVars>>

\* react(), S_IDLE, everything done: dismiss the slave.
Dismiss(s) ==
  /\ Receives(s, "idle")
  /\ GetNewTaskId(current, NTasks, DoneTasks) = NoTask
  /\ current' = NoTask
  /\ actionCh' = Push(actionCh, s, "exit")
  /\ numActive' = numActive - 1
  /\ UNCHANGED <<launchVars, sweeps, scheduled, slaveVars, jobCh, diskVars,
                 assigned>>

\* react(), S_BUSY: count the sweeps; a run of a finished task is released,
\* and the slave that releases the last one is told to merge.
ReactBusy(s) ==
  /\ Receives(s, "busy")
  /\ LET m    == Head(statusCh[s])
         n    == sweeps[m.task] + m.sweeps
         done == IsDone(Target[m.task], n)
     IN  /\ sweeps' = [sweeps EXCEPT ![m.task] = n]
         /\ scheduled' = [scheduled EXCEPT ![m.task] = Released(@, done)]
         /\ actionCh' = Push(actionCh, s, Verdict(done, scheduled'[m.task]))
  /\ UNCHANGED <<launchVars, numActive, current, slaveVars, jobCh, diskVars,
                 assigned>>

\* react(), S_TIMEUP: the slave has left; its run stays scheduled.
ReactTimeUp(s) ==
  /\ Receives(s, "timeup")
  /\ numActive' = numActive - 1
  /\ UNCHANGED <<launchVars, sweeps, scheduled, current, slaveVars, actionCh,
                 jobCh, diskVars, assigned>>

\* Faulty variant: the master does not wait at the barrier.
FinalizeAtOnce ==
  /\ phase = "running"
  /\ numActive <= 1
  /\ phase' = "ended"
  /\ rc' = IF current < 0 THEN 0 ELSE 1
  /\ UNCHANGED <<launches, masterVars, slaveVars, netVars, diskVars, assigned>>

\* All ranks pass the barrier: the master has left its loop and every slave
\* its own.  The exit code says whether the last scan found a task.
Finalize ==
  /\ phase = "running"
  /\ numActive <= 1
  /\ \A s \in Slaves : pc[s] \in {"exited", "left"}
  /\ phase' = "ended"
  /\ rc' = IF current < 0 THEN 0 ELSE 1
  /\ UNCHANGED <<launches, masterVars, slaveVars, netVars, diskVars, assigned>>

-----------------------------------------------------------------------------
(* runner_slave                                                            *)

Working == {"load", "sweep", "checkpoint", "report"}

\* What time_is_up() may answer: once past the runtime it stays past it.
ClockReads(s) ==
  IF timeUp[s] THEN {TRUE} ELSE IF RuntimeLimited THEN BOOLEAN ELSE {FALSE}

\* Faulty variants of the next definitions: no checkpoint before the report; an
\* empty set of samples leaves the measurement file alone; the measurement file
\* is not copied before it is written to.
EnterLoopUnsaved(n, limit) == IF n < limit THEN "sweep" ELSE "report"
CheckpointSkipsEmpty(t, r, m) ==
  /\ dump' = [dump EXCEPT ![t] = WriteRun(@, r, DumpOf(m.sweep, Therm[t]))]
  /\ meas' = IF m.unsaved = 0 THEN meas
             ELSE [meas EXCEPT ![t] =
               WriteRun(@, r, m.unsaved + IF r \in DOMAIN @ THEN @[r] ELSE 0)]
CheckpointOverwrites(t, r, m) ==
  /\ dump' = [dump EXCEPT ![t] = WriteRun(@, r, DumpOf(m.sweep, Therm[t]))]
  /\ meas' = [meas EXCEPT ![t] = WriteRun(@, r, m.unsaved)]

\* The head of the sweep loop: while(since < before).
EnterLoop(n, limit) == IF n < limit THEN "sweep" ELSE "checkpoint"

SendStatus(s, m) == statusCh' = Push(statusCh, s, m)

\* what_is_next(S_IDLE) at the top of start().
SendIdle(s) ==
  /\ phase = "running" /\ pc[s] = "start"
  /\ SendStatus(s, IdleMsg)
  /\ pc' = [pc EXCEPT ![s] = "await_action"]
  /\ UNCHANGED <<launchVars, masterVars, task, run, since, before, timeUp, sys,
                 actionCh, jobCh, diskVars, assigned>>

\* what_is_next(S_IDLE): the answer to S_IDLE.
RecvAction(s) ==
  /\ phase = "running" /\ pc[s] = "await_action" /\ actionCh[s] # << >>
  /\ pc' = [pc EXCEPT ![s] = IF Head(actionCh[s]) = "exit"
                             THEN "exited" ELSE "await_job"]
  /\ actionCh' = Pop(actionCh, s)
  /\ UNCHANGED <<launchVars, masterVars, task, run, since, before, timeUp, sys,
                 statusCh, jobCh, diskVars, assigned>>

\* what_is_next(S_IDLE): the job that follows A_NEW_JOB.
RecvJob(s) ==
  /\ phase = "running" /\ pc[s] = "await_job" /\ jobCh[s] # << >>
  /\ LET m == Head(jobCh[s])
     IN  /\ task' = [task EXCEPT ![s] = m.task]
         /\ run' = [run EXCEPT ![s] = m.run]
         /\ before' = [before EXCEPT ![s] = m.before]
  /\ jobCh' = Pop(jobCh, s)
  /\ pc' = [pc EXCEPT ![s] = "load"]
  /\ UNCHANGED <<launchVars, masterVars, since, timeUp, sys, statusCh, actionCh,
                 diskVars, assigned>>

\* mc::_read of an existing run.
LoadRead(s) ==
  /\ phase = "running" /\ pc[s] = "load"
  /\ run[s] \in DOMAIN dump[task[s]]
  /\ sys' = [sys EXCEPT ![s] = [sweep |-> SweepOf(dump[task[s]][run[s]]),
                                unsaved |-> 0]]
  /\ pc' = [pc EXCEPT ![s] = EnterLoop(since[s], before[s])]
  /\ UNCHANGED <<launchVars, masterVars, task, run, since, before, timeUp,
                 netVars, diskVars, assigned>>

\* checkpoint_write of system m as run r of task t: the measured sweeps in
\* memory are added to a copy of the measurement file, which then replaces it.
CheckpointOf(t, r, m) ==
  /\ dump' = [dump EXCEPT ![t] = WriteRun(@, r, DumpOf(m.sweep, Therm[t]))]
  /\ meas' = [meas EXCEPT ![t] =
       WriteRun(@, r, m.unsaved + IF r \in DOMAIN @ THEN @[r] ELSE 0)]

\* No dump of this run yet: mc::_init, and a first checkpoint at once.
LoadInit(s) ==
  /\ phase = "running" /\ pc[s] = "load"
  /\ run[s] \notin DOMAIN dump[task[s]]
  /\ sys' = [sys EXCEPT ![s] = NoSys]
  /\ CheckpointOf(task[s], run[s], NoSys)
  /\ pc' = [pc EXCEPT ![s] = EnterLoop(since[s], before[s])]
  /\ UNCHANGED <<launchVars, masterVars, task, run, since, before, timeUp,
                 netVars, results, assigned>>

\* One turn of the sweep loop.  It ends early when the runtime or the
\* checkpoint interval is over, which the clock may say after any sweep.
Sweep(s) ==
  /\ phase = "running" /\ pc[s] = "sweep"
  /\ \E up \in ClockReads(s), checkpointTime \in BOOLEAN :
       LET n        == sys[s].sweep + 1
           measured == IF IsThermalized(n, Therm[task[s]]) THEN 1 ELSE 0
       IN  /\ sys' = [sys EXCEPT ![s] = [sweep |-> n,
                                         unsaved |-> @.unsaved + measured]]
           /\ since' = [since EXCEPT ![s] = @ + measured]
           /\ timeUp' = [timeUp EXCEPT ![s] = up]
           /\ pc' = [pc EXCEPT ![s] = IF up \/ checkpointTime
                                      THEN "checkpoint"
                                      ELSE EnterLoop(since'[s], before[s])]
  /\ UNCHANGED <<launchVars, masterVars, task, run, before, netVars, diskVars,
                 assigned>>

\* checkpoint_write after the loop.
Checkpoint(s) ==
  /\ phase = "running" /\ pc[s] = "checkpoint"
  /\ CheckpointOf(task[s], run[s], sys[s])
  /\ sys' = [sys EXCEPT ![s].unsaved = 0]
  /\ pc' = [pc EXCEPT ![s] = "report"]
  /\ UNCHANGED <<launchVars, masterVars, task, run, since, before, timeUp,
                 netVars, results, assigned>>

\* what_is_next(S_BUSY): report the measured sweeps and wait for the verdict.
ReportBusy(s) ==
  /\ phase = "running" /\ pc[s] = "report"
  /\ FALSE \in ClockReads(s)
  /\ SendStatus(s, BusyMsg(task[s], since[s]))
  /\ since' = [since EXCEPT ![s] = 0]
  /\ pc' = [pc EXCEPT ![s] = "verdict"]
  /\ UNCHANGED <<launchVars, masterVars, task, run, before, timeUp, sys,
                 actionCh, jobCh, diskVars, assigned>>

\* what_is_next(S_TIMEUP): leave; what was measured since the last report is
\* on disk but is not reported.
ReportTimeUp(s) ==
  /\ phase = "running" /\ pc[s] = "report"
  /\ TRUE \in ClockReads(s)
  /\ timeUp' = [timeUp EXCEPT ![s] = TRUE]
  /\ SendStatus(s, TimeUpMsg)
  /\ pc' = [pc EXCEPT ![s] = "left"]
  /\ UNCHANGED <<launchVars, masterVars, task, run, since, before, sys,
                 actionCh, jobCh, diskVars, assigned>>

\* what_is_next(S_BUSY): continue the run, or ask for a new one, which for
\* the slave that is to merge happens after merge_measurements.
RecvVerdict(s) ==
  /\ phase = "running" /\ pc[s] = "verdict" /\ actionCh[s] # << >>
  /\ actionCh' = Pop(actionCh, s)
  /\ LET a == Head(actionCh[s])
     IN  /\ statusCh' = IF a = "new_job" THEN Push(statusCh, s, IdleMsg)
                        ELSE statusCh
         /\ pc' = [pc EXCEPT ![s] =
                     IF a = "new_job" THEN "await_action"
                     ELSE IF a = "process" THEN "merge"
                     ELSE EnterLoop(since[s], before[s])]
  /\ UNCHANGED <<launchVars, masterVars, task, run, since, before, timeUp, sys,
                 jobCh, diskVars, assigned>>

\* merge_measurements, then what_is_next(S_IDLE).
MergeMeasurements(s) ==
  /\ phase = "running" /\ pc[s] = "merge"
  /\ results' = [results EXCEPT ![task[s]] = meas[task[s]]]
  /\ SendStatus(s, IdleMsg)
  /\ pc' = [pc EXCEPT ![s] = "await_action"]
  /\ UNCHANGED <<launchVars, masterVars, task, run, since, before, timeUp, sys,
                 actionCh, jobCh, dump, meas, assigned>>

-----------------------------------------------------------------------------
\* Every launch the bound allows is over.
Stopped ==
  /\ phase # "running"
  /\ launches = MaxLaunches
  /\ UNCHANGED vars

MasterStep(s) == Assign(s) \/ Dismiss(s) \/ ReactBusy(s) \/ ReactTimeUp(s)

SlaveStep(s) ==
  \/ SendIdle(s) \/ RecvAction(s) \/ RecvJob(s)
  \/ LoadRead(s) \/ LoadInit(s) \/ Sweep(s) \/ Checkpoint(s)
  \/ ReportBusy(s) \/ ReportTimeUp(s) \/ RecvVerdict(s)
  \/ MergeMeasurements(s)

Next ==
  \/ \E s \in Slaves : MasterStep(s) \/ SlaveStep(s)
  \/ Finalize
  \/ Crash
  \/ Relaunch
  \/ Stopped

Spec == Init /\ [][Next]_vars

\* The operating system runs every rank and MPI delivers; MPI_Recv from any
\* source serves whoever sent.  Nothing forces a crash or another launch.
Fairness ==
  /\ \A s \in Slaves : WF_vars(SlaveStep(s)) /\ WF_vars(MasterStep(s))
  /\ WF_vars(Finalize)

FairSpec == Spec /\ Fairness

-----------------------------------------------------------------------------
(* Properties                                                              *)

StatusMsgs == [type : {"idle", "timeup"}]
                \cup [type : {"busy"}, task : Tasks, sweeps : Nat]
Actions    == {"exit", "continue", "new_job", "process"}
JobMsgs    == [task : Tasks, run : Int, before : Nat]
Dumps      == [therm : Nat, sweeps : Nat]

\* The places of a slave, and those in which it has a task.
Owning == Working \cup {"verdict", "merge", "left"}
Places == Owning \cup {"start", "await_action", "await_job", "exited"}

\* The types of runner.h's members, of the messages under each tag, and of the
\* files: a run has both of its files or none.
TypeOK ==
  /\ phase \in {"running", "ended", "crashed"} /\ rc \in {0, 1}
  /\ launches \in 1 .. MaxLaunches
  /\ numActive \in Int
  /\ sweeps \in [Tasks -> Nat] /\ scheduled \in [Tasks -> Int]
  /\ current \in Tasks \cup {NoTask}
  /\ pc \in [Slaves -> Places]
  /\ task \in [Slaves -> Tasks \cup {NoTask}] /\ run \in [Slaves -> Int]
  /\ \A s \in Slaves : pc[s] \in Owning => task[s] \in Tasks
  /\ since \in [Slaves -> Nat] /\ before \in [Slaves -> Nat]
  /\ timeUp \in [Slaves -> BOOLEAN]
  /\ sys \in [Slaves -> [sweep : Nat, unsaved : Nat]]
  /\ statusCh \in [Slaves -> Seq(StatusMsgs)]
  /\ actionCh \in [Slaves -> Seq(Actions)]
  /\ jobCh \in [Slaves -> Seq(JobMsgs)]
  /\ DOMAIN dump = Tasks /\ DOMAIN meas = Tasks /\ DOMAIN results = Tasks
  /\ \A t \in Tasks :
       /\ DOMAIN meas[t] = DOMAIN dump[t] /\ IsFiniteSet(DOMAIN dump[t])
       /\ \A r \in DOMAIN dump[t] : dump[t][r] \in Dumps /\ meas[t][r] \in Nat
  /\ assigned \subseteq Tasks

NoLease == <<NoTask, 0>>     \* as in RunLeases

\* The task and run slave s was given and has not been released from: on its
\* way to s, being worked on, reported but not yet counted or to be continued,
\* or abandoned by a slave that left because its time was up.
LeaseOf(s) ==
  IF jobCh[s] # << >> THEN <<Head(jobCh[s]).task, Head(jobCh[s]).run>>
  ELSE IF \/ pc[s] \in Working \cup {"left"}
          \/ pc[s] = "verdict" /\ actionCh[s] \in {<< >>, <<"continue">>}
  THEN <<task[s], run[s]>>
  ELSE NoLease

Holders(t) == {s \in Slaves : LeaseOf(s)[1] = t}

\* No two slaves ever own the same run, so no two ranks write the same
\* runNNNN files: run ids are taken from scheduled_runs, which goes down again
\* (runner.cpp:92-99, 113).
NoSharedRun ==
  \A s, q \in Slaves :
    s # q /\ LeaseOf(s) # NoLease => LeaseOf(s) # LeaseOf(q)

\* scheduled_runs counts the slaves that hold a run of the task, whatever the
\* order in which they report, are released or leave (runner.cpp:92, 113, 127).
ScheduledExact ==
  phase = "running" =>
    \A t \in Tasks : scheduled[t] = Cardinality(Holders(t))

\* While a slave merges a task, no other rank holds or writes a run of it
\* (runner.cpp:115-122, 265-270): merge_task reads files nobody changes.
MergeExclusive ==
  \A s \in Slaves : phase = "running" /\ pc[s] = "merge" =>
    /\ Holders(task[s]) = {}
    /\ \A q \in Slaves \ {s} :
         pc[q] \in Working \cup {"merge"} => task[q] # task[s]

\* The measured sweeps the files of task t hold.
MeasuredOnDisk(t) == MapThenSumSet(LAMBDA r : meas[t][r], DOMAIN meas[t])

Reported(s, t) ==
  IF statusCh[s] # << >> /\ Head(statusCh[s]).type = "busy"
                         /\ Head(statusCh[s]).task = t
  THEN Head(statusCh[s]).sweeps ELSE 0

\* Every sweep the master has counted, or is about to count from a report in
\* flight, is already in the files of a run (runner.cpp:187, 195, 232): a
\* crash never takes back progress that a decision was based on.
CountedOnDisk ==
  phase = "running" => \A t \in Tasks :
    sweeps[t] + MapThenSumSet(LAMBDA s : Reported(s, t), Slaves)
      <= MeasuredOnDisk(t)

\* The two files of a run agree, across launches and crashes: they hold exactly
\* the measured sweeps that the dump's counter stands for (mc.cpp:97-98, 133,
\* 147), none lost and none twice.
FilesAgree ==
  \A t \in Tasks : \A r \in DOMAIN dump[t] :
    meas[t][r] = MeasuredSweeps(SweepOf(dump[t][r]), Therm[t])

\* Nothing is left in a channel when the ranks meet at the barrier before
\* MPI_Finalize (runner.cpp:44-45): every message sent was received.
QuietBarrier ==
  phase = "ended" =>
    \A s \in Slaves : /\ statusCh[s] = << >> /\ actionCh[s] = << >>
                       /\ jobCh[s] = << >>

\* Exit code 0 is given exactly when the master has counted enough sweeps for
\* every task (runner.cpp:62-65), even if some slave ran out of time.
ExitCodeExact ==
  phase = "ended" => (rc = 0 <=> DoneTasks = Tasks)

\* A launch that completes with every slave dismissed leaves, for each task it
\* worked on, results merged from the final measurement files
\* (runner.cpp:111-122): no run of the task is written after its merge.
FreshResults ==
  phase = "ended" /\ rc = 0 /\ (\A s \in Slaves : pc[s] = "exited") =>
    \A t \in assigned : results[t] = meas[t]

\* No checkpoint ever takes a run back: a run file, once there, stays and its
\* sweep counter never decreases (mc.cpp:114-139, runner.cpp:161-164), over
\* restarts that give the same run id to another rank included.
NoRollback ==
  [][\A t \in Tasks : \A r \in DOMAIN dump[t] :
       /\ r \in DOMAIN dump'[t]
       /\ SweepOf(dump'[t][r]) >= SweepOf(dump[t][r])
       /\ meas'[t][r] >= meas[t][r]]_vars

\* Every launch comes to an end: no rank waits forever for a message, and the
\* sweeps a slave is asked for always bring the target closer
\* (runner.cpp:58-60, 94-96, 175).
LaunchEnds == [](phase = "running" => <>(phase # "running"))

\* A job that is neither killed nor short of time completes: exit code 0, and
\* results for every task with sweeps to do.
Completes ==
  [](phase # "crashed" /\ \A s \in Slaves : ~timeUp[s]) =>
  <>(/\ phase = "ended" /\ rc = 0
     /\ \A t \in Tasks : Target[t] > 0 => results[t] = meas[t])

\* Slaves that merge or have been told to.
Mergers ==
  {s \in Slaves : \/ pc[s] = "merge"
                  \/ pc[s] = "verdict" /\ actionCh[s] = <<"process">>}

\* The scheduler keeps the promise of RunLeases: message passing, the order of
\* reports, slaves that leave, crashes and restarts included.
Leases == INSTANCE RunLeases WITH
  Runs    <- 1 .. Cardinality(Slaves),
  lease   <- [s \in Slaves |-> LeaseOf(s)],
  closed  <- DoneTasks,
  merging <- {task[s] : s \in Mergers},
  launch  <- launches

ImplementsLeases == Leases!Spec

-----------------------------------------------------------------------------
(* The inductive invariant behind the properties of a launch.              *)

Quiet(s) == statusCh[s] = << >> /\ actionCh[s] = << >> /\ jobCh[s] = << >>

\* Who may speak: a slave and the master never have more than one question or
\* answer between them, and it fits the place the slave is in.
InProtocol(s) ==
  /\ pc[s] \in Working \cup {"start", "merge", "exited"} => Quiet(s)
  /\ pc[s] = "await_action" =>
       \/ statusCh[s] = <<IdleMsg>> /\ actionCh[s] = << >> /\ jobCh[s] = << >>
       \/ statusCh[s] = << >> /\ actionCh[s] = <<"exit">> /\ jobCh[s] = << >>
       \/ /\ statusCh[s] = << >> /\ actionCh[s] = <<"new_job">>
          /\ jobCh[s] # << >> /\ Tail(jobCh[s]) = << >>
  /\ pc[s] = "await_job" =>
       /\ statusCh[s] = << >> /\ actionCh[s] = << >>
       /\ jobCh[s] # << >> /\ Tail(jobCh[s]) = << >>
  /\ pc[s] = "verdict" =>
       /\ jobCh[s] = << >>
       /\ \/ /\ actionCh[s] = << >>
             /\ statusCh[s] # << >> /\ Tail(statusCh[s]) = << >>
             /\ Head(statusCh[s]).type = "busy"
             /\ Head(statusCh[s]).task = task[s]
          \/ /\ statusCh[s] = << >>
             /\ actionCh[s] \in {<<"continue">>, <<"new_job">>, <<"process">>}
  /\ pc[s] = "left" =>
       /\ actionCh[s] = << >> /\ jobCh[s] = << >>
       /\ statusCh[s] \in {<< >>, <<TimeUpMsg>>}

Protocol == \A s \in Slaves : InProtocol(s)

\* Runs of an open task are numbered within scheduled_runs.
RunsNumbered ==
  \A s \in Slaves : LeaseOf(s) # NoLease =>
    /\ LeaseOf(s)[2] >= 1
    /\ LeaseOf(s)[1] \notin DoneTasks => LeaseOf(s)[2] <= scheduled[LeaseOf(s)[1]]

\* A merger's task is done and held by nobody, and no two mergers share it.
MergersAlone ==
  \A s \in Mergers :
    /\ task[s] \in DoneTasks /\ Holders(task[s]) = {}
    /\ \A q \in Mergers \ {s} : task[q] # task[s]

\* num_active_ranks_ counts the master and the slaves it still has to hear of.
Finished(s) ==
  \/ pc[s] = "exited"
  \/ actionCh[s] = <<"exit">>
  \/ pc[s] = "left" /\ statusCh[s] = << >>

ActiveCounted == numActive = 1 + Cardinality({s \in Slaves : ~Finished(s)})

\* The slaves that have asked for a task, or will without doing any more work.
Asking(s) ==
  \/ pc[s] \in {"start", "merge"}
  \/ pc[s] = "await_action" /\ statusCh[s] # << >>
  \/ pc[s] = "verdict" /\ actionCh[s] \in {<<"new_job">>, <<"process">>}

\* What current_task_id_ tells: -1 means that every task is done, unless no
\* slave has been answered yet; and once all are done someone will be told.
ScanMeaning ==
  /\ current = NoTask => \/ DoneTasks = Tasks
                         \/ \A s \in Slaves : Asking(s)
  /\ current # NoTask /\ DoneTasks = Tasks => \E s \in Slaves : Asking(s)

HoldersCounted == \A t \in Tasks : scheduled[t] = Cardinality(Holders(t))

\* The run ids, the counter they are taken from and the mergers.
LeaseInv == NoSharedRun /\ RunsNumbered /\ HoldersCounted /\ MergersAlone

IInv == TypeOK /\ Protocol /\ LeaseInv /\ ActiveCounted /\ ScanMeaning

-----------------------------------------------------------------------------
(* What the documentation says and the code does not do; see README.md.    *)

\* A launch that stops "due to completion" with exit code 0 leaves nothing for
\* a restart: the dumps, from which the next launch and jobstatus.py compute
\* progress, show every task at its target.
CompletionIsDurable ==
  phase = "ended" /\ rc = 0 => \A t \in Tasks : ReadDumpProgress(t) >= Target[t]

\* README.rst: after everything is done, measurements are averaged and merged.
DoneIsMerged ==
  phase = "ended" /\ rc = 0 => \A t \in Tasks : results[t] = meas[t]
=============================================================================
