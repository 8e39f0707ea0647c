---------------------------- MODULE RunnerSingle ----------------------------
(***************************************************************************)
(* The single-core scheduler (src/src/runner_single.cpp): the tasks are    *)
(* worked on one after the other, each in its run 1, until it is done or   *)
(* the runtime is over.  The process may be killed and started again on    *)
(* its files.  JobStatus puts its steps together with what happens around  *)
(* it, where other processes look at the files meanwhile: so what a        *)
(* checkpoint writes aside and what it renames are two steps, and so are   *)
(* the opening of results.json, which empties it, and the writing.  A kill *)
(* in the middle of a checkpoint is the subject of Checkpoint, not of this *)
(* module.                                                                 *)
(***************************************************************************)
EXTENDS Integers, TaskScan, McSweeps

CONSTANTS
  NTasks,          \* the number of tasks in the jobfile
  Target,          \* task -> "sweeps"
  Therm,           \* task -> "thermalization"
  MaxLaunches,     \* bound: how often the program is started
  RuntimeLimited,  \* whether mc_runtime can run out
  MayCrash         \* whether the process can be killed

Tasks == 0 .. NTasks - 1

ASSUME SingleAssumption ==
  /\ NTasks \in Nat
  /\ Target \in [Tasks -> Nat] /\ Therm \in [Tasks -> Nat]
  /\ MaxLaunches \in Nat \ {0}
  /\ RuntimeLimited \in BOOLEAN /\ MayCrash \in BOOLEAN

VARIABLES
  pc,        \* where start() is; "ended" with exit code rc, or "crashed"
  rc, launches,
  sweeps,    \* tasks_[t].sweeps
  taskId,    \* task_id_
  timeUp,    \* what time_is_up() answered last
  sys,       \* the simulation: sweep_, measured sweeps not yet saved
  dump,      \* run0001.dump.h5 of each task, or NoDump
  meas,      \* the measured sweeps its files hold
  results,   \* results.json: meas at the time of the merge, Torn, or -1
  worked     \* history: the tasks loaded in this launch

taskVars == <<sweeps, taskId>>
diskVars == <<dump, meas, results>>
vars == <<pc, rc, launches, taskVars, timeUp, sys, diskVars, worked>>

NoDump == [therm |-> 0, sweeps |-> 0, exists |-> FALSE]
NoSys  == [sweep |-> 0, unsaved |-> 0]
Torn   == -2                 \* a results.json that is empty, cut short or mixed

Init ==
  /\ pc = "start" /\ rc = 0 /\ launches = 1
  /\ sweeps = [t \in Tasks |-> 0] /\ taskId = NoTask
  /\ timeUp = FALSE /\ sys = NoSys
  /\ dump = [t \in Tasks |-> NoDump]
  /\ meas = [t \in Tasks |-> 0]
  /\ results = [t \in Tasks |-> -1]
  /\ worked = {}

\* runner_task::is_done
IsDone(target, n) == n >= target
DoneTasks == {t \in Tasks : IsDone(Target[t], sweeps[t])}

NextTask == GetNewTaskId(taskId, NTasks, DoneTasks)

ClockReads == IF timeUp THEN {TRUE} ELSE IF RuntimeLimited THEN BOOLEAN ELSE {FALSE}

\* start(): the first task.
Start ==
  /\ pc = "start"
  /\ taskId' = NextTask
  /\ pc' = "loop"
  /\ UNCHANGED <<rc, launches, sweeps, timeUp, sys, diskVars, worked>>

\* The head of the outer loop fails: nothing left, or the runtime is over.
End ==
  /\ pc = "loop"
  /\ \/ taskId = NoTask /\ UNCHANGED timeUp
     \/ taskId # NoTask /\ TRUE \in ClockReads /\ timeUp' = TRUE
  /\ pc' = "ended"
  /\ rc' = IF taskId < 0 THEN 0 ELSE 1
  /\ UNCHANGED <<launches, taskVars, sys, diskVars, worked>>

\* mc::_read, or mc::_init without a checkpoint.
Load ==
  /\ pc = "loop" /\ taskId # NoTask /\ FALSE \in ClockReads
  /\ sys' = IF dump[taskId].exists
            THEN [sweep |-> SweepOf(dump[taskId]), unsaved |-> 0]
            ELSE NoSys
  /\ worked' = worked \cup {taskId}
  /\ pc' = "sweep"
  /\ UNCHANGED <<rc, launches, taskVars, timeUp, diskVars>>

\* One turn of the inner loop; the checkpoint interval may be over after it.
Sweep ==
  /\ pc = "sweep" /\ taskId \notin DoneTasks /\ FALSE \in ClockReads
  /\ LET n        == sys.sweep + 1
         measured == IF IsThermalized(n, Therm[taskId]) THEN 1 ELSE 0
     IN  /\ sys' = [sweep |-> n, unsaved |-> sys.unsaved + measured]
         /\ sweeps' = [sweeps EXCEPT ![taskId] = @ + measured]
  /\ pc' \in {"sweep", "checkpoint"}
  /\ UNCHANGED <<rc, launches, taskId, timeUp, diskVars, worked>>

\* The inner loop ends: the task is done or the runtime is over.
LeaveLoop ==
  /\ pc = "sweep"
  /\ \/ taskId \in DoneTasks /\ UNCHANGED timeUp
     \/ taskId \notin DoneTasks /\ TRUE \in ClockReads /\ timeUp' = TRUE
  /\ pc' = "last_checkpoint"
  /\ UNCHANGED <<rc, launches, taskVars, sys, diskVars, worked>>

\* After a checkpoint in the loop, and after the one behind it.
AfterCheckpoint(p) == IF p = "rename" THEN "sweep" ELSE "merge"

\* checkpointing(), inside the loop and after it: write the temporary files ...
WriteTemporary ==
  /\ pc \in {"checkpoint", "last_checkpoint"}
  /\ pc' = IF pc = "checkpoint" THEN "rename" ELSE "last_rename"
  /\ UNCHANGED <<rc, launches, taskVars, timeUp, sys, diskVars, worked>>

Renaming == pc \in {"rename", "last_rename"}

\* ... and rename them.  The samples count as unsaved until then.
Saved(m, therm) == [ therm  |-> DumpOf(m.sweep, therm).therm,
                     sweeps |-> DumpOf(m.sweep, therm).sweeps,
                     exists |-> TRUE ]

Checkpoint ==
  /\ Renaming
  /\ dump' = [dump EXCEPT ![taskId] = Saved(sys, Therm[taskId])]
  /\ meas' = [meas EXCEPT ![taskId] = @ + sys.unsaved]
  /\ sys' = [sys EXCEPT !.unsaved = 0]
  /\ pc' = AfterCheckpoint(pc)
  /\ UNCHANGED <<rc, launches, taskVars, timeUp, results, worked>>

\* merge_measurements(), done or not: read and evaluate, and open results.json.
OpenResults ==
  /\ pc = "merge"
  /\ results' = [results EXCEPT ![taskId] = Torn]
  /\ pc' = "write_results"
  /\ UNCHANGED <<rc, launches, taskVars, timeUp, sys, dump, meas, worked>>

\* What a file holds that was opened anew, and so emptied, when a text has been
\* written to it.  If another process has the file open as well and has written
\* something else since, one text lies over the other.
Written(now, text, empty) == IF now \in {empty, text} THEN {text} ELSE {text, empty}

\* Write the results, and go on to the next task.
Merge ==
  /\ pc = "write_results"
  /\ results' \in {[results EXCEPT ![taskId] = x] :
                     x \in Written(results[taskId], meas[taskId], Torn)}
  /\ taskId' = NextTask
  /\ pc' = "loop"
  /\ UNCHANGED <<rc, launches, sweeps, timeUp, sys, dump, meas, worked>>

\* The process is killed, but not between the two steps of a checkpoint.
Crash ==
  /\ MayCrash /\ pc \notin {"ended", "crashed"} /\ ~Renaming
  /\ pc' = "crashed"
  /\ UNCHANGED <<rc, launches, taskVars, timeUp, sys, diskVars, worked>>

\* jobinfo::read_dump_progress, with run 1 as the only run of a task.
ReadDumpProgress(t) == dump[t].sweeps

\* The program is started again; read().
Relaunch ==
  /\ pc \in {"ended", "crashed"} /\ launches < MaxLaunches
  /\ pc' = "start" /\ rc' = 0 /\ launches' = launches + 1
  /\ sweeps' = [t \in Tasks |-> ReadDumpProgress(t)]
  /\ taskId' = NoTask
  /\ timeUp' = FALSE /\ sys' = NoSys /\ worked' = {}
  /\ UNCHANGED diskVars

\* Every launch the bound allows is over.
Stopped ==
  /\ pc \in {"ended", "crashed"} /\ launches = MaxLaunches
  /\ UNCHANGED vars

Work ==
  \/ Start \/ End \/ Load \/ Sweep \/ LeaveLoop
  \/ WriteTemporary \/ Checkpoint \/ OpenResults \/ Merge

-----------------------------------------------------------------------------
(* Properties                                                              *)

\* The progress the scheduler counts never runs ahead of what was measured, on
\* disk or in memory, and falls behind by at most the one sweep that the dump of
\* a thermalized run leaves out (runner_single.cpp:37-40, 84; mc.cpp:98, 147),
\* however many crashes and restarts there were.
CountTracksSamples ==
  pc \notin {"ended", "crashed"} => \A t \in Tasks :
    LET taken == meas[t] + IF t = taskId THEN sys.unsaved ELSE 0
    IN  sweeps[t] <= taken /\ taken <= sweeps[t] + 1
=============================================================================
