--------------------------- MODULE JobStatusProofs ---------------------------
(***************************************************************************)
(* A job with the single-core scheduler, merge commands and kills, for any *)
(* number of tasks, launches and commands: what the scheduler counts, what *)
(* is merged, and what `loadl status' says.                                *)
(***************************************************************************)
EXTENDS JobStatus, SharedProofs

AtWork == pc \in {"sweep", "checkpoint", "rename", "last_checkpoint", "last_rename",
                  "merge", "write_results"}

\* Types, and what goes with a place of the scheduler.
JobTypes ==
  /\ pc \in {"start", "loop", "sweep", "checkpoint", "rename", "last_checkpoint",
             "last_rename", "merge", "write_results", "ended", "crashed"}
  /\ rc \in {0, 1} /\ launches \in Nat
  /\ sweeps \in [Tasks -> Nat] /\ taskId \in Tasks \cup {NoTask}
  /\ timeUp \in BOOLEAN
  /\ sys \in [sweep : Nat, unsaved : Nat]
  /\ dump \in [Tasks -> [therm : Nat, sweeps : Nat, exists : BOOLEAN]]
  /\ meas \in [Tasks -> Nat]
  /\ results \in [Tasks -> Nat \cup {-1, Torn}]
  /\ worked \in SUBSET Tasks
  /\ AtWork => taskId \in Tasks
  /\ pc = "start" => taskId = NoTask
  /\ pc \in {"start", "loop", "merge", "write_results"} => sys.unsaved = 0

\* The counters of a dump are those of some sweep.
DumpsFit ==
  \A t \in Tasks : /\ dump[t].therm <= Therm[t]
                   /\ dump[t].sweeps > 0 => dump[t].therm = Therm[t]
                   /\ ~dump[t].exists => dump[t] = NoDump

\* The files of a run agree, and the simulation in memory continues them.
Continues ==
  /\ \A t \in Tasks : meas[t] = MeasuredSweeps(SweepOf(dump[t]), Therm[t])
  /\ AtWork =>
       meas[taskId] + sys.unsaved = MeasuredSweeps(sys.sweep, Therm[taskId])

\* The scheduler counts no less than the dumps, those it will write included.
CountsDumped ==
  /\ \A t \in Tasks : dump[t].sweeps <= sweeps[t]
  /\ AtWork => DumpOf(sys.sweep, Therm[taskId]).sweeps <= sweeps[taskId]

\* The task in hand is what is left to do, and the exit code says if there is one.
Answered ==
  /\ pc = "loop" => /\ taskId = NoTask <=> DoneTasks = Tasks
                    /\ taskId \notin DoneTasks
  /\ pc = "ended" => /\ rc = 0 <=> DoneTasks = Tasks
                     /\ rc = 1 => taskId \in Tasks \ DoneTasks

SchedulerInv ==
  JobTypes /\ DumpsFit /\ Continues /\ CountTracksSamples /\ CountsDumped /\ Answered

\* Where the results file and the merge command are.
MergeTypes ==
  /\ joining \in {"no", "due", "writing"}
  /\ joined \in [exists : BOOLEAN, list : Seq(Nat \cup {-1, Torn})]
  /\ newer \in SUBSET Tasks /\ tmpNewer \in BOOLEAN
  /\ mergeAt \in Tasks \cup {Idle, NTasks} /\ inHand \in Nat \cup {Nothing}
  /\ opened \in BOOLEAN
  /\ killed \in BOOLEAN /\ overlap \in BOOLEAN /\ meddled \in BOOLEAN
  /\ joining # "no" => pc = "ended"
  /\ inHand # Nothing => mergeAt \in Tasks
  /\ opened => mergeAt # Idle /\ (mergeAt \in Tasks => inHand # Nothing)

\* A merge command during which the scheduler was never halfway has up to date what
\* it has read and written, and the file it has open is still empty.
MergesFaithfully ==
  /\ Halfway /\ mergeAt # Idle => overlap
  /\ overlap => meddled
  /\ ~overlap /\ mergeAt # Idle =>
       /\ inHand # Nothing => inHand = meas[mergeAt]
       /\ opened /\ mergeAt \in Tasks => results[mergeAt] = Torn
       /\ opened /\ mergeAt = NTasks => joined.list = << >>
       /\ \A t \in Tasks : t < mergeAt => results[t] = meas[t]

\* So is the one that the scheduler has open.
OpenedIsEmpty ==
  ~meddled => /\ pc = "write_results" => results[taskId] = Torn
              /\ joining = "writing" => joined.list = << >>

\* What a launch has worked on is merged when it goes on to the next task.
WorkedMerged ==
  ~meddled /\ pc # "crashed" => \A t \in worked :
    results[t] = meas[t] \/ (t = taskId /\ AtWork) \/ (opened /\ t = mergeAt)

MergingInv == MergeTypes /\ MergesFaithfully /\ OpenedIsEmpty /\ WorkedMerged

Calm == ~killed /\ ~meddled

\* In a calm job, all that was measured is merged, or is being worked on; ...
MeasuredMerged ==
  Calm => \A t \in Tasks : meas[t] > 0 =>
    results[t] = meas[t] \/ (t = taskId /\ AtWork) \/ (opened /\ t = mergeAt)

\* ... no task before one that was worked on is without results; ...
NoneBefore ==
  Calm => \A t, u \in Tasks :
    u < t /\ (meas[t] > 0 \/ t = taskId) => results[u] # -1

\* ... a measurement file put in its place is newer than the job's results file; ...
TmpIsNewer == Calm /\ Renaming => tmpNewer

\* ... and what is not newer than the job's results file is in it.
FileKeepsUp ==
  /\ Calm /\ joined.exists
  /\ joining # "writing" /\ ~(opened /\ mergeAt = NTasks)
  => \A t \in Tasks \ newer :
       meas[t] > 0 => t + 1 \in DOMAIN joined.list /\ joined.list[t + 1] = meas[t]

CalmInv ==
  /\ pc = "crashed" => killed
  /\ MeasuredMerged /\ NoneBefore /\ TmpIsNewer /\ FileKeepsUp

-----------------------------------------------------------------------------
(* Arithmetic of the sweep counters.                                       *)

\* Going one sweep on, the counters of mc go on as is_thermalized says.
LEMMA OneSweep ==
  ASSUME NEW n \in Nat, NEW therm \in Nat
  PROVE  LET m == IF IsThermalized(n + 1, therm) THEN 1 ELSE 0
         IN  /\ MeasuredSweeps(n + 1, therm) = MeasuredSweeps(n, therm) + m
             /\ DumpOf(n + 1, therm).sweeps <= DumpOf(n, therm).sweeps + m
BY DEF IsThermalized, MeasuredSweeps, DumpOf, AtMost

\* A dump holds the counter it was written with, and what it counts is what was
\* measured or one sweep less.
LEMMA DumpFits ==
  ASSUME NEW n \in Nat, NEW therm \in Nat
  PROVE  LET d == DumpOf(n, therm)
         IN  /\ d.therm \in Nat /\ d.sweeps \in Nat
             /\ SweepOf(d) = n /\ d.therm <= therm
             /\ d.sweeps > 0 => d.therm = therm
             /\ d.sweeps <= MeasuredSweeps(n, therm)
             /\ MeasuredSweeps(n, therm) <= d.sweeps + 1
BY DEF MeasuredSweeps, DumpOf, SweepOf, AtMost

\* The same of a dump that was read.
LEMMA ReadFits ==
  ASSUME NEW d \in [therm : Nat, sweeps : Nat, exists : BOOLEAN], NEW therm \in Nat,
         d.therm <= therm, d.sweeps > 0 => d.therm = therm
  PROVE  /\ SweepOf(d) \in Nat
         /\ DumpOf(SweepOf(d), therm).sweeps = d.sweeps
         /\ d.sweeps <= MeasuredSweeps(SweepOf(d), therm)
         /\ MeasuredSweeps(SweepOf(d), therm) <= d.sweeps + 1
BY DEF MeasuredSweeps, DumpOf, SweepOf, AtMost

LEMMA NothingMeasured == ASSUME NEW therm \in Nat PROVE MeasuredSweeps(0, therm) = 0
BY DEF MeasuredSweeps

\* The next task is one that is left to do; there is none when all are done.
LEMMA NextTaskCorrect ==
  ASSUME NTasks \in Nat, taskId \in Tasks \cup {NoTask}
  PROVE  /\ NextTask \in Tasks \cup {NoTask}
         /\ NextTask \notin DoneTasks
         /\ NextTask = NoTask <=> DoneTasks = Tasks
<1>1. taskId \in -1 .. NTasks - 1
  BY DEF Tasks, NoTask
<1>2. DoneTasks \in SUBSET (0 .. NTasks - 1)
  BY DEF DoneTasks, Tasks
<1>3. NoTask \notin DoneTasks
  BY <1>2 DEF NoTask
<1> QED
  BY <1>1, <1>2, <1>3, GetNewTaskIdCorrect DEF NextTask, Tasks

-----------------------------------------------------------------------------
(* The scheduler.                                                          *)

schedulerVars ==
  <<pc, rc, launches, sweeps, taskId, timeUp, sys, dump, meas, worked>>

\* What happens around the scheduler only touches results.
LEMMA SchedulerFrame ==
  ASSUME SchedulerInv, UNCHANGED schedulerVars,
         results' \in [Tasks -> Nat \cup {-1, Torn}]
  PROVE  SchedulerInv'
BY DEF SchedulerInv, schedulerVars, JobTypes, DumpsFit, Continues, CountTracksSamples,
       CountsDumped, Answered, AtWork, DoneTasks

LEMMA SchedulerInit == ASSUME Init PROVE SchedulerInv
<1> USE SingleAssumption DEF Init
<1>1. JobTypes
  BY DEF JobTypes, AtWork, NoSys, NoDump, NoTask
<1>2. DumpsFit /\ CountsDumped
  BY DEF DumpsFit, CountsDumped, AtWork, NoDump
<1>3. Continues
  BY NothingMeasured DEF Continues, AtWork, NoDump, SweepOf
<1>4. CountTracksSamples /\ Answered
  BY DEF CountTracksSamples, Answered, NoSys
<1> QED
  BY <1>1, <1>2, <1>3, <1>4 DEF SchedulerInv

LEMMA StartKeeps == ASSUME SchedulerInv, Start PROVE SchedulerInv'
<1> USE SingleAssumption DEF SchedulerInv, Start
<1>1. /\ taskId' \in Tasks \cup {NoTask} /\ taskId' \notin DoneTasks
      /\ taskId' = NoTask <=> DoneTasks = Tasks
  BY NextTaskCorrect DEF JobTypes
<1>2. JobTypes'
  BY <1>1 DEF JobTypes, AtWork, diskVars
<1>3. DumpsFit' /\ Continues' /\ CountsDumped'
  BY DEF DumpsFit, Continues, CountsDumped, AtWork, diskVars
<1>4. CountTracksSamples'
  BY DEF CountTracksSamples, JobTypes, diskVars
<1>5. Answered'
  BY <1>1 DEF Answered, DoneTasks
<1> QED
  BY <1>2, <1>3, <1>4, <1>5

LEMMA EndKeeps == ASSUME SchedulerInv, End PROVE SchedulerInv'
<1> USE SingleAssumption DEF SchedulerInv, End
<1>1. JobTypes'
  BY DEF JobTypes, AtWork, diskVars, taskVars
<1>2. DumpsFit' /\ Continues' /\ CountsDumped' /\ CountTracksSamples'
  BY DEF DumpsFit, Continues, CountsDumped, CountTracksSamples, AtWork, diskVars, taskVars
<1>3. taskId < 0 <=> taskId = NoTask
  BY DEF JobTypes, Tasks, NoTask
<1>4. Answered'
  BY <1>3 DEF Answered, DoneTasks, taskVars, JobTypes
<1> QED
  BY <1>1, <1>2, <1>4

LEMMA LoadKeeps == ASSUME SchedulerInv, Load PROVE SchedulerInv'
<1> USE SingleAssumption DEF SchedulerInv, Load
<1>1. taskId \in Tasks
  BY DEF JobTypes
<1>2. /\ sys' \in [sweep : Nat, unsaved : Nat] /\ sys'.unsaved = 0
      /\ sys'.sweep = IF dump[taskId].exists THEN SweepOf(dump[taskId]) ELSE 0
  BY <1>1 DEF JobTypes, SweepOf, NoSys
<1>3. JobTypes'
  BY <1>1, <1>2 DEF JobTypes, AtWork, diskVars, taskVars
<1>4. DumpsFit' /\ Answered'
  BY DEF DumpsFit, Answered, diskVars
<1>5. MeasuredSweeps(sys'.sweep, Therm[taskId]) = meas[taskId]
  BY <1>1, <1>2, NothingMeasured DEF Continues, JobTypes, DumpsFit, NoDump, SweepOf
<1>6. Continues'
  BY <1>1, <1>2, <1>5 DEF Continues, JobTypes, diskVars, taskVars
<1>7. CountTracksSamples'
  BY <1>1, <1>2 DEF CountTracksSamples, JobTypes, diskVars, taskVars
<1>8. DumpOf(sys'.sweep, Therm[taskId]).sweeps <= sweeps[taskId]
  <2>1. CASE dump[taskId].exists
    BY <1>1, <1>2, <2>1, ReadFits DEF CountsDumped, JobTypes, DumpsFit
  <2>2. CASE ~dump[taskId].exists
    BY <1>1, <1>2, <2>2 DEF JobTypes, DumpOf, AtMost
  <2> QED
    BY <2>1, <2>2
<1>9. CountsDumped'
  BY <1>1, <1>8 DEF CountsDumped, diskVars, taskVars
<1> QED
  BY <1>3, <1>4, <1>6, <1>7, <1>9

LEMMA SweepKeeps == ASSUME SchedulerInv, Sweep PROVE SchedulerInv'
<1> USE SingleAssumption DEF SchedulerInv
<1> DEFINE m == IF IsThermalized(sys.sweep + 1, Therm[taskId]) THEN 1 ELSE 0
<1>1. /\ taskId \in Tasks /\ AtWork /\ Therm[taskId] \in Nat
      /\ sys.sweep \in Nat /\ sys.unsaved \in Nat /\ meas[taskId] \in Nat
  BY DEF Sweep, JobTypes, AtWork
<1>2. /\ sys' = [sweep |-> sys.sweep + 1, unsaved |-> sys.unsaved + m]
      /\ sweeps' = [sweeps EXCEPT ![taskId] = @ + m]
      /\ pc' \in {"sweep", "checkpoint"} /\ m \in {0, 1}
      /\ UNCHANGED <<rc, launches, taskId, timeUp, dump, meas, results, worked>>
  BY DEF Sweep, diskVars
<1> HIDE DEF m
<1>3. JobTypes'
  BY <1>1, <1>2 DEF JobTypes, AtWork
<1>4. DumpsFit' /\ Answered'
  BY <1>2 DEF DumpsFit, Answered
<1>5. /\ MeasuredSweeps(sys.sweep + 1, Therm[taskId])
           = MeasuredSweeps(sys.sweep, Therm[taskId]) + m
      /\ DumpOf(sys.sweep + 1, Therm[taskId]).sweeps
           <= DumpOf(sys.sweep, Therm[taskId]).sweeps + m
  BY <1>1, OneSweep DEF m
<1>6. meas[taskId] + sys.unsaved + m = MeasuredSweeps(sys.sweep + 1, Therm[taskId])
  BY <1>1, <1>5 DEF Continues
<1>7. Continues'
  BY <1>1, <1>2, <1>6 DEF Continues
<1>8. CountTracksSamples'
  BY <1>1, <1>2 DEF CountTracksSamples, JobTypes, AtWork
<1>9. DumpOf(sys.sweep, Therm[taskId]).sweeps \in Nat
  BY <1>1, DumpFits
<1>10. DumpOf(sys.sweep + 1, Therm[taskId]).sweeps \in Nat
  BY <1>1, DumpFits
<1>11. CountsDumped'
  BY <1>1, <1>2, <1>5, <1>9, <1>10 DEF CountsDumped, JobTypes
<1> QED
  BY <1>3, <1>4, <1>7, <1>8, <1>11

LEMMA LeaveLoopKeeps == ASSUME SchedulerInv, LeaveLoop PROVE SchedulerInv'
BY DEF SchedulerInv, LeaveLoop, JobTypes, DumpsFit, Continues, CountTracksSamples,
       CountsDumped, Answered, AtWork, taskVars, diskVars

LEMMA WriteTemporaryKeeps == ASSUME SchedulerInv, WriteTemporary PROVE SchedulerInv'
BY DEF SchedulerInv, WriteTemporary, JobTypes, DumpsFit, Continues, CountTracksSamples,
       CountsDumped, Answered, AtWork, taskVars, diskVars

LEMMA CheckpointKeeps == ASSUME SchedulerInv, Checkpoint PROVE SchedulerInv'
<1> USE SingleAssumption DEF SchedulerInv
<1> DEFINE d == Saved(sys, Therm[taskId])
<1>1. /\ taskId \in Tasks /\ AtWork /\ Therm[taskId] \in Nat
      /\ sys.sweep \in Nat /\ sys.unsaved \in Nat /\ meas[taskId] \in Nat
  BY DEF Checkpoint, Renaming, JobTypes, AtWork
<1>2. /\ dump' = [dump EXCEPT ![taskId] = d]
      /\ meas' = [meas EXCEPT ![taskId] = @ + sys.unsaved]
      /\ sys' = [sys EXCEPT !.unsaved = 0]
      /\ pc' \in {"sweep", "merge"}
      /\ UNCHANGED <<rc, launches, sweeps, taskId, timeUp, results, worked>>
  BY DEF Checkpoint, AfterCheckpoint, taskVars
<1>3. /\ d \in [therm : Nat, sweeps : Nat, exists : BOOLEAN] /\ d.exists
      /\ SweepOf(d) = sys.sweep /\ d.therm <= Therm[taskId]
      /\ d.sweeps > 0 => d.therm = Therm[taskId]
      /\ d.sweeps = DumpOf(sys.sweep, Therm[taskId]).sweeps
  BY <1>1, DumpFits DEF Saved, SweepOf
<1> HIDE DEF d
<1>4. JobTypes'
  BY <1>1, <1>2, <1>3 DEF JobTypes, AtWork
<1>5. DumpsFit' /\ Answered'
  BY <1>1, <1>2, <1>3 DEF DumpsFit, Answered, JobTypes
<1>6. Continues'
  BY <1>1, <1>2, <1>3 DEF Continues, JobTypes, AtWork
<1>7. CountTracksSamples'
  BY <1>1, <1>2 DEF CountTracksSamples, JobTypes, AtWork
<1>8. CountsDumped'
  BY <1>1, <1>2, <1>3 DEF CountsDumped, JobTypes, AtWork
<1> QED
  BY <1>4, <1>5, <1>6, <1>7, <1>8

LEMMA OpenResultsKeeps == ASSUME SchedulerInv, OpenResults PROVE SchedulerInv'
BY DEF SchedulerInv, OpenResults, JobTypes, DumpsFit, Continues, CountTracksSamples,
       CountsDumped, Answered, AtWork, taskVars

\* A file is written whole, or spoilt by somebody else's writing.
LEMMA WrittenIs ==
  ASSUME NEW now, NEW text, NEW empty
  PROVE  /\ Written(now, text, empty) \subseteq {text, empty}
         /\ now = empty => Written(now, text, empty) = {text}
BY DEF Written

LEMMA MergeKeeps == ASSUME SchedulerInv, Merge PROVE SchedulerInv'
<1> USE SingleAssumption DEF SchedulerInv, Merge
<1>1. /\ taskId' \in Tasks \cup {NoTask} /\ taskId' \notin DoneTasks
      /\ taskId' = NoTask <=> DoneTasks = Tasks
  BY NextTaskCorrect DEF JobTypes
<1>2. results' \in [Tasks -> Nat \cup {-1, Torn}]
  <2>1. taskId \in Tasks /\ meas[taskId] \in Nat
    BY DEF JobTypes, AtWork
  <2>2. PICK x \in {meas[taskId], Torn} : results' = [results EXCEPT ![taskId] = x]
    BY WrittenIs
  <2> QED
    BY <2>1, <2>2 DEF JobTypes
<1>3. JobTypes'
  BY <1>1, <1>2 DEF JobTypes, AtWork
<1>4. DumpsFit' /\ Continues' /\ CountsDumped'
  BY DEF DumpsFit, Continues, CountsDumped, AtWork
<1>5. CountTracksSamples'
  BY DEF CountTracksSamples, JobTypes
<1>6. Answered'
  BY <1>1 DEF Answered, DoneTasks
<1> QED
  BY <1>3, <1>4, <1>5, <1>6

LEMMA CrashKeeps == ASSUME SchedulerInv, Crash PROVE SchedulerInv'
BY DEF SchedulerInv, Crash, JobTypes, DumpsFit, Continues, CountTracksSamples,
       CountsDumped, Answered, AtWork, taskVars, diskVars

LEMMA RelaunchKeeps == ASSUME SchedulerInv, Relaunch PROVE SchedulerInv'
<1> USE SingleAssumption DEF SchedulerInv, Relaunch
<1>1. /\ sweeps' = [t \in Tasks |-> dump[t].sweeps] /\ taskId' = NoTask
      /\ sys' = [sweep |-> 0, unsaved |-> 0]
      /\ UNCHANGED <<dump, meas, results>>
  BY DEF ReadDumpProgress, NoSys, diskVars
<1>2. pc' = "start" /\ ~AtWork'
  BY DEF AtWork
<1>3. JobTypes'
  <2>1. /\ rc' = 0 /\ launches' = launches + 1 /\ timeUp' = FALSE /\ worked' = {}
        /\ sweeps' \in [Tasks -> Nat]
    BY <1>1 DEF JobTypes
  <2>2. launches' \in Nat /\ worked' \in SUBSET Tasks
    BY <2>1 DEF JobTypes
  <2>3. sys' \in [sweep : Nat, unsaved : Nat] /\ sys'.unsaved = 0
    BY <1>1
  <2>4. /\ dump' \in [Tasks -> [therm : Nat, sweeps : Nat, exists : BOOLEAN]]
        /\ meas' \in [Tasks -> Nat]
        /\ results' \in [Tasks -> Nat \cup {-1, Torn}]
    BY <1>1 DEF JobTypes
  <2> QED
    BY <1>1, <1>2, <2>1, <2>2, <2>3, <2>4 DEF JobTypes
<1>4. DumpsFit' /\ Continues'
  BY <1>1, <1>2 DEF DumpsFit, Continues
<1>5. CountsDumped' /\ Answered'
  BY <1>1, <1>2 DEF CountsDumped, Answered, JobTypes
<1>6. \A t \in Tasks : dump[t].sweeps <= meas[t] /\ meas[t] <= dump[t].sweeps + 1
  <2> TAKE t \in Tasks
  <2>1. /\ dump[t] \in [therm : Nat, sweeps : Nat, exists : BOOLEAN] /\ Therm[t] \in Nat
        /\ dump[t].therm <= Therm[t]
        /\ dump[t].sweeps > 0 => dump[t].therm = Therm[t]
    BY DEF JobTypes, DumpsFit
  <2> QED
    BY <2>1, ReadFits DEF Continues
<1>7. CountTracksSamples'
  BY <1>1, <1>6 DEF CountTracksSamples, JobTypes, NoTask, Tasks
<1> QED
  BY <1>3, <1>4, <1>5, <1>7

-----------------------------------------------------------------------------
(* The results file of the job and the merge command.                      *)

\* The results file of the job takes the tasks up to the first one without results.
LEMMA ReachedCorrect ==
  /\ Reached \in 0 .. NTasks
  /\ Unmerged \cap 0 .. Reached - 1 = {}
  /\ Reached \in Unmerged \cup {NTasks}
<1> DEFINE S == Unmerged \cup {NTasks}
           n == FirstHit(S)
<1>1. S \in SUBSET Nat /\ S # {}
  BY SingleAssumption DEF Unmerged, Tasks
<1>2. n \in S /\ \A j \in S : n <= j
  BY <1>1, FirstExists
<1>3. n \in 0 .. NTasks /\ Unmerged \cap 0 .. n - 1 = {}
  BY <1>1, <1>2, SingleAssumption
<1> HIDE DEF n
<1> QED
  BY <1>2, <1>3 DEF Reached

\* Writing the file, as far as any task, makes it a file of results.
LEMMA ConcatenateTyped ==
  ASSUME JobTypes, NEW n \in 0 .. NTasks, Concatenate(n)
  PROVE  /\ joined' \in [exists : BOOLEAN, list : Seq(Nat \cup {-1, Torn})]
         /\ newer' \in SUBSET Tasks /\ tmpNewer' \in BOOLEAN
<1>1. \A i \in 1 .. n : i - 1 \in Tasks
  BY SingleAssumption DEF Tasks
<1>2. [i \in 1 .. n |-> results[i - 1]] \in Seq(Nat \cup {-1, Torn})
  BY <1>1 DEF JobTypes
<1>3. << >> \in Seq(Nat \cup {-1, Torn})
  OBVIOUS
<1> DEFINE all == [i \in 1 .. n |-> results[i - 1]]
<1>4. PICK list \in Written(joined.list, all, << >>) :
        joined' = [exists |-> TRUE, list |-> list]
  BY DEF Concatenate
<1>5. newer' = {} /\ tmpNewer' = FALSE
  BY DEF Concatenate
<1> HIDE DEF all
<1>6. list \in {all, << >>}
  BY <1>4, WrittenIs
<1>7. all \in Seq(Nat \cup {-1, Torn})
  BY <1>2 DEF all
<1>8. list \in Seq(Nat \cup {-1, Torn})
  BY <1>3, <1>6, <1>7
<1> QED
  BY <1>4, <1>5, <1>8

\* If nobody else has written to the file, it holds what was written.
LEMMA ConcatenateExact ==
  ASSUME NEW n \in Nat, Concatenate(n), joined.list = << >>
  PROVE  joined' = [exists |-> TRUE, list |-> [i \in 1 .. n |-> results[i - 1]]]
<1> DEFINE all == [i \in 1 .. n |-> results[i - 1]]
<1>1. PICK list \in Written(joined.list, all, << >>) :
        joined' = [exists |-> TRUE, list |-> list]
  BY DEF Concatenate
<1> HIDE DEF all
<1>2. list = all
  BY <1>1, WrittenIs
<1> QED
  BY <1>1, <1>2 DEF all

\* A step of the scheduler keeps its invariant.
LEMMA WorkKeeps == ASSUME SchedulerInv, Work PROVE SchedulerInv'
BY StartKeeps, EndKeeps, LoadKeeps, SweepKeeps, LeaveLoopKeeps, WriteTemporaryKeeps,
   CheckpointKeeps, OpenResultsKeeps, MergeKeeps DEF Work

\* So does every step of a job.
LEMMA SchedulerInvNext ==
  ASSUME SchedulerInv, MergeTypes, [JobNext]_<<vars, jobVars>>
  PROVE  SchedulerInv'
<1> USE DEF taskVars, diskVars, vars, schedulerVars
<1>0. results \in [Tasks -> Nat \cup {-1, Torn}]
  BY DEF SchedulerInv, JobTypes
<1>1. CASE Schedule
  BY <1>1, WorkKeeps DEF Schedule
<1>2. CASE StartJoin \/ Join
  BY <1>0, <1>2, SchedulerFrame DEF StartJoin, Join
<1>3. CASE Kill
  BY <1>0, <1>3, CrashKeeps, SchedulerFrame DEF Kill
<1>4. CASE StartAgain
  BY <1>4, RelaunchKeeps DEF StartAgain
<1>5. CASE StartMerge
  BY <1>0, <1>5, SchedulerFrame DEF StartMerge
<1>6. CASE ReadTask
  BY <1>0, <1>6, SchedulerFrame DEF ReadTask
<1>7. CASE OpenTask
  <2>1. results' \in [Tasks -> Nat \cup {-1, Torn}]
    BY <1>0, <1>7 DEF OpenTask
  <2> QED
    BY <1>7, <2>1, SchedulerFrame DEF OpenTask
<1>8. CASE WriteTask
  <2>1. mergeAt \in Tasks /\ inHand \in Nat
    BY <1>8 DEF WriteTask, MergeTypes
  <2>2. PICK x \in {inHand, Torn} : results' = [results EXCEPT ![mergeAt] = x]
    BY <1>8, WrittenIs DEF WriteTask
  <2>3. results' \in [Tasks -> Nat \cup {-1, Torn}]
    BY <1>0, <2>1, <2>2
  <2> QED
    BY <1>8, <2>3, SchedulerFrame DEF WriteTask
<1>9. CASE StartFinish \/ FinishMerge
  BY <1>0, <1>9, SchedulerFrame DEF StartFinish, FinishMerge
<1>10. CASE KillMerge
  BY <1>0, <1>10, SchedulerFrame DEF KillMerge
<1>11. CASE AllDone \/ UNCHANGED <<vars, jobVars>>
  BY <1>0, <1>11, SchedulerFrame DEF AllDone, Stopped
<1> QED
  BY <1>1, <1>2, <1>3, <1>4, <1>5, <1>6, <1>7, <1>8, <1>9, <1>10, <1>11
     DEF JobNext, JobWork, MergeWork

LEMMA MergeTypesInit == ASSUME JobInit PROVE MergeTypes
<1>1. << >> \in Seq(Nat \cup {-1, Torn})
  OBVIOUS
<1> QED
  BY <1>1 DEF JobInit, MergeTypes, Idle, Nothing

\* Where the results file and the merge command are, after every step of a job.
LEMMA MergeTypesNext ==
  ASSUME SchedulerInv, MergeTypes, [JobNext]_<<vars, jobVars>>
  PROVE  MergeTypes'
<1> USE SingleAssumption DEF MergeTypes
<1> DEFINE Lists == [exists : BOOLEAN, list : Seq(Nat \cup {-1, Torn})]
<1>0. JobTypes /\ Reached \in 0 .. NTasks
  BY ReachedCorrect DEF SchedulerInv
<1>a. ASSUME NEW n \in 0 .. Reached, Concatenate(n)
      PROVE  joined' \in Lists /\ newer' \in SUBSET Tasks /\ tmpNewer' \in BOOLEAN
  <2>1. n \in 0 .. NTasks
    BY <1>0
  <2> QED
    BY <1>0, <1>a, <2>1, ConcatenateTyped
<1>b. Concatenate(Reached) =>
        joined' \in Lists /\ newer' \in SUBSET Tasks /\ tmpNewer' \in BOOLEAN
  BY <1>0, <1>a
<1>c. ASSUME OpenJoined
      PROVE  joined' \in Lists /\ newer' \in SUBSET Tasks /\ tmpNewer' \in BOOLEAN
  <2>1. << >> \in Seq(Nat \cup {-1, Torn})
    OBVIOUS
  <2>2. joined' = [exists |-> TRUE, list |-> << >>] /\ newer' = {} /\ tmpNewer' = FALSE
    BY <1>c DEF OpenJoined
  <2> QED
    BY <2>1, <2>2
<1> HIDE DEF Lists
<1>d. joined' \in Lists <=> joined' \in [exists : BOOLEAN, list : Seq(Nat \cup {-1, Torn})]
  BY DEF Lists
<1>1. CASE Schedule
  <2>1. /\ joining = "no" /\ joining' \in {"no", "due", "writing"}
        /\ joining' # "no" => pc' = "ended"
    BY <1>1 DEF Schedule
  <2>2. newer' \in SUBSET Tasks /\ tmpNewer' \in BOOLEAN
    BY <1>0, <1>1 DEF Schedule, JobTypes, Renaming, AtWork
  <2>3. overlap' \in BOOLEAN /\ meddled' \in BOOLEAN
    BY <1>1 DEF Schedule, NoteOverlap
  <2> QED
    BY <1>1, <2>1, <2>2, <2>3 DEF Schedule, mergeVars
<1>2. CASE StartJoin
  <2>1. overlap' \in BOOLEAN /\ meddled' \in BOOLEAN
    BY <1>2 DEF StartJoin, NoteOverlap
  <2>2. joining = "due" /\ joining' = "writing" /\ UNCHANGED <<pc, mergeVars, killed>>
    BY <1>2 DEF StartJoin, vars
  <2> QED
    BY <1>2, <1>c, <1>d, <2>1, <2>2 DEF StartJoin, mergeVars
<1>3. CASE Join
  BY <1>3, <1>b, <1>d DEF Join, mergeVars, historyVars
<1>4. CASE Kill
  <2>1. joining' = "no"
    BY <1>4 DEF Kill, Crash
  <2>2. joined' \in Lists /\ newer' \in SUBSET Tasks /\ tmpNewer' \in BOOLEAN
    BY <1>4, <1>a, <1>d DEF Kill, fileVars
  <2> QED
    BY <1>4, <1>d, <2>1, <2>2 DEF Kill, mergeVars
<1>5. CASE StartAgain
  BY <1>5 DEF StartAgain, jobVars, fileVars, mergeVars, historyVars
<1>6. CASE StartMerge
  <2>1. /\ mergeAt = Idle /\ mergeAt' = 0 /\ overlap' = Halfway
        /\ meddled' = (meddled \/ Halfway)
        /\ UNCHANGED <<pc, joining, joined, newer, tmpNewer, inHand, opened, killed>>
    BY <1>6 DEF StartMerge, fileVars, vars
  <2>2. Idle \notin Tasks /\ 0 \in Tasks \cup {NTasks}
    BY DEF Idle, Tasks
  <2>3. Halfway \in BOOLEAN
    BY DEF Halfway, Renaming
  <2> QED
    BY <2>1, <2>2, <2>3
<1>7. CASE ReadTask
  BY <1>0, <1>7 DEF ReadTask, fileVars, historyVars, vars, JobTypes, Nothing
<1>8. CASE OpenTask
  BY <1>8 DEF OpenTask, fileVars, historyVars, Tasks, Idle
<1>9. CASE WriteTask
  <2>1. mergeAt \in Tasks /\ inHand' = Nothing /\ opened' = FALSE /\ mergeAt' = mergeAt + 1
    BY <1>9 DEF WriteTask
  <2>2. mergeAt' \in Tasks \cup {Idle, NTasks}
    BY <2>1 DEF Tasks
  <2>3. Nothing \in Nat \cup {Nothing} /\ FALSE \in BOOLEAN
    OBVIOUS
  <2>4. UNCHANGED <<pc, joining, joined, newer, tmpNewer, killed, overlap, meddled>>
    BY <1>9 DEF WriteTask, fileVars, historyVars
  <2> QED
    BY <2>1, <2>2, <2>3, <2>4
<1>10. CASE StartFinish \/ FinishMerge
  <2>1. NTasks \notin Tasks /\ NTasks # Idle
    BY DEF Tasks, Idle
  <2> QED
    BY <1>10, <1>b, <1>c, <1>d, <2>1 DEF StartFinish, FinishMerge, vars, historyVars
<1>11. CASE KillMerge
  <2>1. joined' \in Lists /\ newer' \in SUBSET Tasks /\ tmpNewer' \in BOOLEAN
    BY <1>11, <1>a, <1>d DEF KillMerge, fileVars
  <2> QED
    BY <1>11, <1>d, <2>1 DEF KillMerge, vars
<1>12. CASE AllDone \/ UNCHANGED <<vars, jobVars>>
  BY <1>12 DEF AllDone, Stopped, vars, jobVars, fileVars, mergeVars, historyVars
<1> QED
  BY <1>1, <1>2, <1>3, <1>4, <1>5, <1>6, <1>7, <1>8, <1>9, <1>10, <1>11, <1>12
     DEF JobNext, JobWork, MergeWork

LEMMA Scheduled == JobSpec => [](SchedulerInv /\ MergeTypes)
<1>1. JobInit => SchedulerInv /\ MergeTypes
  BY SchedulerInit, MergeTypesInit DEF JobInit
<1>2. (SchedulerInv /\ MergeTypes) /\ [JobNext]_<<vars, jobVars>>
        => (SchedulerInv /\ MergeTypes)'
  BY SchedulerInvNext, MergeTypesNext
<1> QED
  BY <1>1, <1>2, PTL DEF JobSpec

-----------------------------------------------------------------------------
(* What a launch has merged, and a merge command nothing comes in between. *)

LEMMA MergingInit ==
  ASSUME JobInit
  PROVE  MergesFaithfully /\ OpenedIsEmpty /\ WorkedMerged
BY DEF JobInit, Init, MergesFaithfully, OpenedIsEmpty, WorkedMerged

\* A scheduler that is not halfway, before a step and after it, leaves the files alone.
LEMMA QuietWork ==
  ASSUME Work, ~Halfway, ~Halfway'
  PROVE  UNCHANGED <<meas, results>>
BY DEF Work, Start, End, Load, Sweep, LeaveLoop, WriteTemporary, Checkpoint, OpenResults,
       Merge, Halfway, Renaming, diskVars

\* When no merge command runs, or only while the scheduler was never halfway ...
LEMMA NotMeddled ==
  ASSUME MergesFaithfully, ~meddled, mergeAt # Idle
  PROVE  ~overlap /\ ~Halfway /\ ~Renaming /\ pc # "write_results" /\ joining # "writing"
BY DEF MergesFaithfully, Halfway

LEMMA FaithfulNext ==
  ASSUME JobTypes, MergeTypes, MergesFaithfully, [JobNext]_<<vars, jobVars>>
  PROVE  MergesFaithfully'
<1> USE DEF MergesFaithfully, vars, diskVars, historyVars, mergeVars
<1>1. CASE Schedule
  <2>1. /\ overlap' = (overlap \/ (mergeAt # Idle /\ Halfway'))
        /\ meddled' = (meddled \/ (mergeAt # Idle /\ Halfway'))
        /\ UNCHANGED <<joined, mergeAt, inHand, opened>> /\ Work
    BY <1>1 DEF Schedule, NoteOverlap
  <2>2. ASSUME ~overlap', mergeAt # Idle
        PROVE  UNCHANGED <<meas, results>> /\ ~overlap
    <3>1. ~Halfway' /\ ~overlap /\ ~Halfway
      BY <2>1, <2>2
    <3> QED
      BY <2>1, <3>1, QuietWork
  <2> QED
    BY <2>1, <2>2
<1>2. CASE StartJoin
  <2>1. Halfway'
    BY <1>2 DEF StartJoin, Halfway
  <2>2. /\ overlap' = (overlap \/ (mergeAt # Idle /\ Halfway'))
        /\ meddled' = (meddled \/ (mergeAt # Idle /\ Halfway'))
        /\ UNCHANGED mergeAt
    BY <1>2 DEF StartJoin, NoteOverlap
  <2> QED
    BY <2>1, <2>2
<1>3. CASE Join
  <2>1. Halfway /\ ~Halfway'
    BY <1>3 DEF Join, Halfway, Renaming, MergeTypes
  <2> QED
    BY <1>3, <2>1 DEF Join
<1>4. CASE Kill
  <2>1. ~Halfway'
    BY <1>4 DEF Kill, Crash, Halfway, Renaming, MergeTypes
  <2>2. UNCHANGED <<meas, results, mergeVars, overlap, meddled>>
    BY <1>4 DEF Kill, Crash
  <2>3. joined' = joined \/ Halfway
    BY <1>4 DEF Kill, Halfway, fileVars
  <2> QED
    BY <2>1, <2>2, <2>3
<1>5. CASE StartAgain
  <2>1. ~Halfway'
    BY <1>5 DEF StartAgain, Relaunch, Halfway, Renaming, jobVars
  <2> QED
    BY <1>5, <2>1 DEF StartAgain, Relaunch, jobVars, fileVars
<1>6. CASE StartMerge
  <2>1. Halfway' <=> Halfway
    BY <1>6 DEF StartMerge, Halfway, Renaming
  <2>2. mergeAt = Idle /\ inHand = Nothing /\ ~opened /\ mergeAt' = 0
    BY <1>6 DEF StartMerge, MergeTypes, Tasks, Idle
  <2>3. \A t \in Tasks : ~(t < 0)
    BY SingleAssumption DEF Tasks
  <2> QED
    BY <1>6, <2>1, <2>2, <2>3 DEF StartMerge
<1>7. CASE ReadTask
  <2>1. Halfway' <=> Halfway
    BY <1>7 DEF ReadTask, Halfway, Renaming
  <2> QED
    BY <1>7, <2>1 DEF ReadTask, fileVars, MergeTypes
<1>8. CASE OpenTask
  <2>1. Halfway' <=> Halfway
    BY <1>8 DEF OpenTask, Halfway, Renaming
  <2>2. mergeAt \in Tasks /\ mergeAt \in Nat /\ NTasks \notin Tasks
    BY <1>8, SingleAssumption DEF OpenTask, Tasks
  <2>3. \A t \in Tasks : t < mergeAt => t # mergeAt
    BY <2>2 DEF Tasks
  <2> QED
    BY <1>8, <2>1, <2>2, <2>3 DEF OpenTask, JobTypes
<1>9. CASE WriteTask
  <2>1. Halfway' <=> Halfway
    BY <1>9 DEF WriteTask, Halfway, Renaming
  <2>2. mergeAt \in Tasks /\ mergeAt' = mergeAt + 1 /\ mergeAt \in Nat /\ mergeAt # Idle
    BY <1>9, SingleAssumption DEF WriteTask, Tasks, Idle
  <2>3. \A t \in Tasks : t < mergeAt + 1 => t < mergeAt \/ t = mergeAt
    BY <2>2, SingleAssumption DEF Tasks
  <2>4. ~overlap => results' = [results EXCEPT ![mergeAt] = inHand]
    BY <1>9, <2>2, WrittenIs DEF WriteTask
  <2>5. ~overlap => inHand = meas[mergeAt]
    BY <1>9, <2>2 DEF MergeTypes, WriteTask
  <2>6. /\ inHand' = Nothing /\ ~opened'
        /\ UNCHANGED <<meas, overlap, meddled>>
    BY <1>9 DEF WriteTask
  <2> QED
    BY <2>1, <2>2, <2>3, <2>4, <2>5, <2>6 DEF JobTypes
<1>10. CASE StartFinish
  <2>1. Halfway' <=> Halfway
    BY <1>10 DEF StartFinish, Halfway, Renaming
  <2>2. NTasks \notin Tasks
    BY SingleAssumption DEF Tasks
  <2> QED
    BY <1>10, <2>1, <2>2 DEF StartFinish, OpenJoined
<1>11. CASE FinishMerge \/ KillMerge
  BY <1>11 DEF FinishMerge, KillMerge
<1>12. CASE AllDone \/ UNCHANGED <<vars, jobVars>>
  <2>1. UNCHANGED <<vars, joined, joining, mergeAt, inHand, opened, overlap, meddled>>
    BY <1>12 DEF AllDone, Stopped, jobVars, fileVars
  <2>2. Halfway' <=> Halfway
    BY <2>1 DEF Halfway, Renaming
  <2> QED
    BY <2>1, <2>2
<1> QED
  BY <1>1, <1>2, <1>3, <1>4, <1>5, <1>6, <1>7, <1>8, <1>9, <1>10, <1>11, <1>12
     DEF JobNext, JobWork, MergeWork

LEMMA OpenedNext ==
  ASSUME JobTypes, MergeTypes, MergesFaithfully, OpenedIsEmpty,
         [JobNext]_<<vars, jobVars>>
  PROVE  OpenedIsEmpty'
<1> USE DEF OpenedIsEmpty, vars, diskVars, historyVars, mergeVars, taskVars
<1>1. CASE Schedule
  <2>1. joining' # "writing" /\ Work
    BY <1>1 DEF Schedule
  <2>2. pc' = "write_results" =>
          taskId \in Tasks /\ taskId' = taskId /\ results' = [results EXCEPT ![taskId] = Torn]
    BY <2>1 DEF Work, Start, End, Load, Sweep, LeaveLoop, WriteTemporary, Checkpoint,
                AfterCheckpoint, OpenResults, Merge, JobTypes, AtWork
  <2> QED
    BY <2>1, <2>2 DEF JobTypes
<1>2. CASE StartJoin
  BY <1>2 DEF StartJoin, OpenJoined, MergeTypes
<1>3. CASE Join
  BY <1>3 DEF Join
<1>4. CASE Kill
  BY <1>4 DEF Kill, Crash, MergeTypes
<1>5. CASE StartAgain
  BY <1>5 DEF StartAgain, Relaunch, jobVars, fileVars
<1>6. CASE StartMerge
  BY <1>6 DEF StartMerge, fileVars, MergeTypes
<1>7. CASE ReadTask
  BY <1>7 DEF ReadTask, fileVars
<1>8. CASE OpenTask \/ WriteTask \/ StartFinish
  <2>1. mergeAt # Idle /\ UNCHANGED <<pc, joining, meddled>>
    BY <1>8, SingleAssumption DEF OpenTask, WriteTask, StartFinish, Tasks, Idle
  <2> QED
    BY <2>1, NotMeddled
<1>9. CASE FinishMerge
  <2>1. mergeAt # Idle /\ UNCHANGED <<pc, joining, meddled>>
    BY <1>9, SingleAssumption DEF FinishMerge, Tasks, Idle
  <2> QED
    BY <2>1, NotMeddled
<1>10. CASE KillMerge
  BY <1>10 DEF KillMerge
<1>11. CASE AllDone \/ UNCHANGED <<vars, jobVars>>
  BY <1>11 DEF AllDone, Stopped, jobVars, fileVars
<1> QED
  BY <1>1, <1>2, <1>3, <1>4, <1>5, <1>6, <1>7, <1>8, <1>9, <1>10, <1>11
     DEF JobNext, JobWork, MergeWork

\* A scheduler nobody has meddled with merges the task in hand.
LEMMA MergesTask ==
  ASSUME JobTypes, OpenedIsEmpty, ~meddled, Merge
  PROVE  taskId \in Tasks /\ results' = [results EXCEPT ![taskId] = meas[taskId]]
BY WrittenIs DEF Merge, OpenedIsEmpty, JobTypes, AtWork

LEMMA WorkedNext ==
  ASSUME JobTypes, MergeTypes, MergesFaithfully, OpenedIsEmpty, WorkedMerged,
         [JobNext]_<<vars, jobVars>>
  PROVE  WorkedMerged'
<1> USE DEF vars, diskVars, historyVars, mergeVars, taskVars
<1>1. CASE Schedule
  <2>1. /\ Work /\ pc # "crashed" /\ (~meddled' => ~meddled)
        /\ UNCHANGED <<mergeAt, opened>>
    BY <1>1 DEF Schedule, NoteOverlap, Work, Start, End, Load, Sweep, LeaveLoop,
                WriteTemporary, Checkpoint, Renaming, OpenResults, Merge, MergeTypes
  <2>2. CASE Start \/ End \/ LeaveLoop \/ WriteTemporary
    <3>1. UNCHANGED <<meas, results, worked>> /\ pc' # "crashed"
      BY <2>2 DEF Start, End, LeaveLoop, WriteTemporary
    <3>2. ~AtWork \/ (taskId' = taskId /\ AtWork')
      BY <2>2 DEF Start, End, LeaveLoop, WriteTemporary, AtWork
    <3> QED
      BY <2>1, <3>1, <3>2 DEF WorkedMerged
  <2>3. CASE Load
    BY <2>1, <2>3 DEF Load, WorkedMerged, AtWork
  <2>4. CASE Sweep
    BY <2>1, <2>4 DEF Sweep, WorkedMerged, AtWork
  <2>5. CASE Checkpoint
    BY <2>1, <2>5 DEF Checkpoint, Renaming, AfterCheckpoint, WorkedMerged, AtWork, JobTypes
  <2>6. CASE OpenResults
    BY <2>1, <2>6 DEF OpenResults, WorkedMerged, AtWork, JobTypes
  <2>7. CASE Merge
    <3>1. ~meddled => taskId \in Tasks /\ results' = [results EXCEPT ![taskId] = meas[taskId]]
      BY <2>7, MergesTask
    <3>2. UNCHANGED <<meas, worked>> /\ pc' = "loop"
      BY <2>7 DEF Merge
    <3> QED
      BY <2>1, <3>1, <3>2 DEF WorkedMerged, AtWork, JobTypes
  <2> QED
    BY <2>1, <2>2, <2>3, <2>4, <2>5, <2>6, <2>7 DEF Work
<1>2. CASE StartJoin \/ Join
  BY <1>2 DEF StartJoin, Join, NoteOverlap, WorkedMerged, AtWork, MergeTypes
<1>3. CASE Kill
  BY <1>3 DEF Kill, WorkedMerged, Crash, AtWork
<1>4. CASE StartAgain
  BY <1>4 DEF StartAgain, Relaunch, jobVars, WorkedMerged
<1>5. CASE StartMerge
  BY <1>5 DEF StartMerge, WorkedMerged, AtWork, MergeTypes
<1>6. CASE ReadTask
  BY <1>6 DEF ReadTask, WorkedMerged, AtWork
<1>7. CASE OpenTask
  BY <1>7 DEF OpenTask, WorkedMerged, AtWork, JobTypes
<1>8. CASE WriteTask
  <2>1. ~meddled => /\ inHand = meas[mergeAt]
                    /\ results' = [results EXCEPT ![mergeAt] = inHand]
    BY <1>8, NotMeddled, WrittenIs DEF WriteTask, MergesFaithfully, MergeTypes, Tasks, Idle
  <2> QED
    BY <1>8, <2>1 DEF WriteTask, WorkedMerged, AtWork, JobTypes
<1>9. CASE StartFinish \/ FinishMerge
  <2>1. mergeAt \notin Tasks
    BY <1>9, SingleAssumption DEF StartFinish, FinishMerge, Tasks
  <2>2. worked \subseteq Tasks
    BY DEF JobTypes
  <2>3. UNCHANGED <<pc, results, meas, taskId, worked, meddled>>
    BY <1>9 DEF StartFinish, FinishMerge
  <2> QED
    BY <2>1, <2>2, <2>3 DEF WorkedMerged, AtWork
<1>10. CASE KillMerge
  BY <1>10 DEF KillMerge, WorkedMerged
<1>11. CASE AllDone \/ UNCHANGED <<vars, jobVars>>
  BY <1>11 DEF AllDone, Stopped, jobVars, WorkedMerged, AtWork
<1> QED
  BY <1>1, <1>2, <1>3, <1>4, <1>5, <1>6, <1>7, <1>8, <1>9, <1>10, <1>11
     DEF JobNext, JobWork, MergeWork

Inv == SchedulerInv /\ MergingInv

LEMMA InvHolds == JobSpec => []Inv
<1>1. JobInit => MergesFaithfully /\ OpenedIsEmpty /\ WorkedMerged
  BY MergingInit
<1>2. SchedulerInv /\ MergeTypes /\ MergesFaithfully /\ OpenedIsEmpty /\ WorkedMerged
        /\ [JobNext]_<<vars, jobVars>>
        => (MergesFaithfully /\ OpenedIsEmpty /\ WorkedMerged)'
  BY FaithfulNext, OpenedNext, WorkedNext DEF SchedulerInv
<1> QED
  BY <1>1, <1>2, Scheduled, PTL DEF JobSpec, Inv, MergingInv

\* The scheduler's counters follow the samples: never ahead of what was measured,
\* on disk or in memory, and behind by at most the sweep that the dump of a
\* thermalized run leaves out, however many launches were killed.
THEOREM CountsAreRight == JobSpec => []CountTracksSamples
<1>1. Inv => CountTracksSamples
  BY DEF Inv, SchedulerInv
<1> QED
  BY <1>1, InvHolds, PTL

\* A launch that ends by itself has merged every task it worked on, unless a merge
\* command ran while the scheduler was halfway or was killed, and exits with 0 just
\* when every task is done.
THEOREM EndingIsMerged == JobSpec => []EndsMerged
<1>1. Inv => EndsMerged
  BY DEF Inv, SchedulerInv, MergingInv, Answered, WorkedMerged, AtWork, EndsMerged
<1> QED
  BY <1>1, InvHolds, PTL

\* A launch that did not get everything done leaves a task of which `loadl status'
\* reads too few sweeps: no job stops half-way and passes for finished.
THEOREM RestartIsNoticed == JobSpec => []AsksForRestart
<1>1. ASSUME Inv, pc = "ended", rc = 1
      PROVE  NeedRestart
  <2>1. taskId \in Tasks /\ ~(sweeps[taskId] >= Target[taskId])
    BY <1>1 DEF Inv, SchedulerInv, Answered, DoneTasks, IsDone
  <2>2. /\ dump[taskId].sweeps <= sweeps[taskId] /\ dump[taskId].sweeps \in Nat
        /\ sweeps[taskId] \in Nat /\ Target[taskId] \in Nat
    BY <1>1, <2>1, SingleAssumption DEF Inv, SchedulerInv, CountsDumped, JobTypes
  <2>3. dump[taskId].sweeps < Target[taskId]
    BY <2>1, <2>2
  <2> QED
    BY <2>1, <2>3 DEF NeedRestart, StatusSweeps
<1>2. Inv => AsksForRestart
  BY <1>1 DEF AsksForRestart
<1> QED
  BY <1>2, InvHolds, PTL

\* When every task has results, the results file of the job takes them all.
LEMMA AllReached ==
  ASSUME \A t \in Tasks : results[t] # -1
  PROVE  Reached = NTasks
BY ReachedCorrect DEF Unmerged

\* A merge command during which the scheduler was never halfway leaves a results
\* file with all that was measured of every task, whatever there was before it, and
\* the job counts as merged.
THEOREM MergeCommandRepairs == JobSpec => MergeCommandWorks
<1>1. ASSUME Inv, FinishMerge, ~overlap
      PROVE  joined'.list = [i \in 1 .. NTasks |-> meas[i - 1]] /\ ~NeedMerge'
  <2>1. mergeAt = NTasks /\ opened /\ NTasks \in Nat /\ mergeAt # Idle
    BY <1>1, SingleAssumption DEF FinishMerge, Idle
  <2>2. \A t \in Tasks : results[t] = meas[t] /\ meas[t] \in Nat
    BY <1>1, <2>1 DEF Inv, MergingInv, SchedulerInv, JobTypes, MergesFaithfully, Tasks
  <2>3. joined.list = << >>
    BY <1>1, <2>1 DEF Inv, MergingInv, MergesFaithfully
  <2>4. Reached = NTasks
    BY <2>2, AllReached
  <2>5. Concatenate(NTasks)
    BY <1>1, <2>4 DEF FinishMerge
  <2>6. /\ joined' = [exists |-> TRUE, list |-> [i \in 1 .. NTasks |-> results[i - 1]]]
        /\ newer' = {}
    BY <2>1, <2>3, <2>5, ConcatenateExact DEF Concatenate
  <2>7. \A i \in 1 .. NTasks : results[i - 1] = meas[i - 1]
    BY <2>1, <2>2 DEF Tasks
  <2> QED
    BY <2>6, <2>7 DEF NeedMerge
<1>2. Inv /\ [JobNext]_<<vars, jobVars>> =>
        [FinishMerge /\ ~overlap =>
           /\ joined'.list = [i \in 1 .. NTasks |-> meas[i - 1]]
           /\ ~NeedMerge']_<<vars, jobVars>>
  BY <1>1
<1> QED
  BY <1>2, InvHolds, PTL DEF JobSpec, MergeCommandWorks

-----------------------------------------------------------------------------
(* A job that was never killed, and whose merge commands never ran while   *)
(* the scheduler was halfway.                                              *)

\* Every task asks for a sweep.  Without it a task may be done before it has any
\* files, stay without results and cut off the results file of the job.
Positive == \A t \in Tasks : Target[t] > 0

\* What is done has been measured.
LEMMA DoneIsMeasured ==
  ASSUME SchedulerInv, Positive, NEW t \in DoneTasks,
         pc \in {"start", "loop", "merge", "write_results"}
  PROVE  meas[t] > 0
<1>1. /\ t \in Tasks /\ sweeps[t] >= Target[t] /\ Target[t] > 0
      /\ sweeps[t] \in Nat /\ Target[t] \in Nat /\ meas[t] \in Nat
  BY SingleAssumption DEF DoneTasks, IsDone, Positive, SchedulerInv, JobTypes
<1>2. sys.unsaved = 0
  BY DEF SchedulerInv, JobTypes
<1>3. sweeps[t] <= meas[t]
  BY <1>1, <1>2 DEF SchedulerInv, CountTracksSamples
<1> QED
  BY <1>1, <1>3

\* The tasks that the search for the next one passes over are done.
LEMMA PassedAreDone ==
  ASSUME JobTypes, NEW u \in Tasks, taskId < u, u < NextTask
  PROVE  u \in DoneTasks
<1>1. /\ NTasks \in Nat /\ taskId \in -1 .. NTasks - 1 /\ u \in 0 .. NTasks - 1
      /\ DoneTasks \in SUBSET (0 .. NTasks - 1)
  BY SingleAssumption DEF JobTypes, DoneTasks, Tasks, NoTask
<1> QED
  BY <1>1, NothingSkipped DEF NextTask

LEMMA CalmInit == ASSUME JobInit PROVE CalmInv
BY DEF JobInit, Init, CalmInv, MeasuredMerged, NoneBefore, TmpIsNewer, Renaming,
       FileKeepsUp, NoTask, Tasks

\* A new task has everything before it done, and merged.
LEMMA NoneBeforeNext ==
  ASSUME SchedulerInv, MergeTypes, MergesFaithfully, Positive,
         MeasuredMerged, NoneBefore, Calm,
         pc \in {"start", "write_results"}, NEW u \in Tasks, u < NextTask, u # taskId
  PROVE  results[u] # -1
<1>1. /\ taskId \in Tasks \cup {NoTask} /\ NTasks \in Nat
      /\ NextTask \in Tasks \cup {NoTask}
  BY NextTaskCorrect, SingleAssumption DEF SchedulerInv, JobTypes
<1>2. CASE u < taskId
  BY <1>1, <1>2 DEF NoneBefore, Tasks, NoTask
<1>3. CASE taskId < u
  <2>1. meas[u] > 0 /\ meas[u] \in Nat
    BY <1>3, PassedAreDone, DoneIsMeasured DEF SchedulerInv, JobTypes
  <2>2. results[u] = meas[u] \/ (opened /\ u = mergeAt)
    BY <2>1 DEF MeasuredMerged
  <2>3. ASSUME opened, u = mergeAt
        PROVE  results[u] = Torn
    <3>1. mergeAt # Idle /\ ~meddled
      BY <2>3 DEF MergeTypes, Calm
    <3> QED
      BY <2>3, <3>1, NotMeddled DEF MergesFaithfully
  <2> QED
    BY <2>1, <2>2, <2>3 DEF Torn
<1> QED
  BY <1>1, <1>2, <1>3 DEF Tasks, NoTask

LEMMA CalmWork ==
  ASSUME SchedulerInv, MergeTypes, MergesFaithfully, OpenedIsEmpty, CalmInv, Positive,
         Schedule
  PROVE  CalmInv'
<1> USE SingleAssumption DEF CalmInv
<1>1. /\ Work /\ UNCHANGED <<joined, mergeAt, opened>> /\ (Calm' => Calm)
      /\ joining' # "writing" /\ joining # "writing"
      /\ tmpNewer' = Renaming'
      /\ newer' = IF ~Renaming THEN newer
                  ELSE IF tmpNewer THEN newer \cup {taskId} ELSE newer \ {taskId}
  BY DEF Schedule, NoteOverlap, Calm, mergeVars, MergeTypes
<1>2. pc' # "crashed" /\ TmpIsNewer'
  BY <1>1 DEF TmpIsNewer, Work, Start, End, Load, Sweep, LeaveLoop, WriteTemporary,
              Checkpoint, AfterCheckpoint, OpenResults, Merge
<1>3. CASE Start
  <2>1. UNCHANGED <<meas, results>> /\ ~Renaming /\ pc = "start"
    BY <1>3 DEF Start, Renaming, diskVars
  <2>2. MeasuredMerged' /\ FileKeepsUp'
    BY <1>1, <2>1 DEF MeasuredMerged, FileKeepsUp, AtWork
  <2>3. taskId' = NextTask /\ taskId = NoTask
    BY <1>3 DEF Start, SchedulerInv, JobTypes
  <2>4. NoneBefore'
    BY <1>1, <2>1, <2>3, NoneBeforeNext DEF NoneBefore, Tasks, NoTask
  <2> QED
    BY <1>2, <2>2, <2>4
<1>4. CASE End \/ Load \/ Sweep \/ LeaveLoop \/ WriteTemporary
  <2>1. UNCHANGED <<taskId, meas, results>> /\ ~Renaming /\ (AtWork => AtWork')
    BY <1>4 DEF End, Load, Sweep, LeaveLoop, WriteTemporary, Renaming, AtWork, taskVars,
                diskVars
  <2> QED
    BY <1>1, <1>2, <2>1 DEF MeasuredMerged, NoneBefore, FileKeepsUp
<1>5. CASE Checkpoint
  <2>1. /\ taskId \in Tasks /\ Renaming /\ AtWork /\ AtWork' /\ UNCHANGED <<taskId, results>>
        /\ \A t \in Tasks : t # taskId => meas'[t] = meas[t]
    BY <1>5 DEF Checkpoint, AfterCheckpoint, Renaming, AtWork, SchedulerInv, JobTypes,
                taskVars
  <2>2. MeasuredMerged'
    BY <1>1, <2>1 DEF MeasuredMerged
  <2>3. NoneBefore'
    BY <1>1, <2>1 DEF NoneBefore
  <2>4. FileKeepsUp'
    <3>1. Calm' => newer' = newer \cup {taskId}
      BY <1>1, <2>1 DEF TmpIsNewer
    <3> QED
      BY <1>1, <2>1, <3>1 DEF FileKeepsUp
  <2> QED
    BY <1>2, <2>2, <2>3, <2>4
<1>6. CASE OpenResults
  <2>1. /\ taskId \in Tasks /\ ~Renaming /\ AtWork /\ AtWork' /\ UNCHANGED <<taskId, meas>>
        /\ results' = [results EXCEPT ![taskId] = Torn]
        /\ results \in [Tasks -> Nat \cup {-1, Torn}]
    BY <1>6 DEF OpenResults, Renaming, AtWork, SchedulerInv, JobTypes, taskVars
  <2>2. MeasuredMerged' /\ FileKeepsUp'
    BY <1>1, <2>1 DEF MeasuredMerged, FileKeepsUp
  <2>3. NoneBefore'
    BY <1>1, <2>1 DEF NoneBefore, Torn
  <2> QED
    BY <1>2, <2>2, <2>3
<1>7. CASE Merge
  <2>1. /\ taskId' = NextTask /\ meas' = meas /\ ~Renaming /\ ~AtWork'
        /\ pc = "write_results"
    BY <1>7 DEF Merge, Renaming, AtWork
  <2>2. Calm => /\ taskId \in Tasks /\ meas[taskId] \in Nat
                /\ results' = [results EXCEPT ![taskId] = meas[taskId]]
    BY <1>7, MergesTask DEF Calm, SchedulerInv, JobTypes
  <2>3. results \in [Tasks -> Nat \cup {-1, Torn}]
    BY DEF SchedulerInv, JobTypes
  <2>4. MeasuredMerged'
    BY <1>1, <2>1, <2>2, <2>3 DEF MeasuredMerged
  <2>5. FileKeepsUp'
    BY <1>1, <2>1 DEF FileKeepsUp
  <2>6. NoneBefore'
    BY <1>1, <2>1, <2>2, <2>3, NoneBeforeNext DEF NoneBefore
  <2> QED
    BY <1>2, <2>4, <2>5, <2>6
<1> QED
  BY <1>1, <1>3, <1>4, <1>5, <1>6, <1>7 DEF Work

\* What concatenate_results writes to an empty file is everything that was measured,
\* when that is merged and nothing before it is missing.
LEMMA FileIsComplete ==
  ASSUME JobTypes, Concatenate(Reached), joined.list = << >>,
         \A t \in Tasks : meas[t] > 0 => results[t] = meas[t],
         \A t, u \in Tasks : u < t /\ meas[t] > 0 => results[u] # -1,
         NEW t \in Tasks, meas[t] > 0
  PROVE  t + 1 \in DOMAIN joined'.list /\ joined'.list[t + 1] = meas[t]
<1>1. /\ NTasks \in Nat /\ t \in 0 .. NTasks - 1 /\ meas[t] \in Nat
      /\ Reached \in 0 .. NTasks /\ Reached \in Unmerged \cup {NTasks}
  BY SingleAssumption, ReachedCorrect DEF Tasks, JobTypes
<1>2. t < Reached
  BY <1>1 DEF Unmerged
<1>3. joined'.list = [i \in 1 .. Reached |-> results[i - 1]]
  <2>1. Reached \in Nat
    BY <1>1
  <2>2. joined' = [exists |-> TRUE, list |-> [i \in 1 .. Reached |-> results[i - 1]]]
    BY <2>1, ConcatenateExact
  <2> QED
    BY <2>2
<1> QED
  BY <1>1, <1>2, <1>3

LEMMA CalmNext ==
  ASSUME Inv, CalmInv, Positive, [JobNext]_<<vars, jobVars>>
  PROVE  CalmInv'
<1> USE DEF CalmInv, vars, taskVars, diskVars, mergeVars, historyVars, fileVars
<1>0. /\ SchedulerInv /\ JobTypes /\ MergeTypes /\ MergesFaithfully /\ OpenedIsEmpty
      /\ NTasks \in Nat /\ NTasks \notin Tasks /\ NTasks # Idle /\ Idle \notin Tasks
  BY SingleAssumption DEF Inv, SchedulerInv, MergingInv, Tasks, Idle
<1>1. CASE Schedule
  BY <1>0, <1>1, CalmWork
<1>2. CASE StartJoin
  <2>1. /\ pc = "ended" /\ joining' = "writing" /\ (Calm' => Calm)
        /\ UNCHANGED <<pc, taskId, meas, results, killed, mergeAt, opened>>
    BY <1>0, <1>2 DEF StartJoin, NoteOverlap, MergeTypes, Calm
  <2> QED
    BY <2>1 DEF MeasuredMerged, NoneBefore, TmpIsNewer, Renaming, FileKeepsUp, AtWork
<1>3. CASE Join
  <2>1. /\ pc = "ended" /\ joining = "writing" /\ Concatenate(Reached)
        /\ UNCHANGED <<pc, taskId, meas, results, killed, meddled, mergeAt, opened>>
    BY <1>0, <1>3 DEF Join, MergeTypes
  <2>2. MeasuredMerged' /\ NoneBefore' /\ TmpIsNewer'
    BY <2>1 DEF MeasuredMerged, NoneBefore, TmpIsNewer, Renaming, Calm, AtWork
  <2>3. FileKeepsUp'
    <3> SUFFICES ASSUME Calm, NEW t \in Tasks, meas[t] > 0
                 PROVE  t + 1 \in DOMAIN joined'.list /\ joined'.list[t + 1] = meas[t]
      BY <2>1 DEF FileKeepsUp, Calm
    <3>1. joined.list = << >> /\ ~opened
      BY <1>0, <2>1 DEF Calm, OpenedIsEmpty, MergesFaithfully, MergeTypes, Halfway
    <3>2. \A u \in Tasks : meas[u] > 0 => results[u] = meas[u]
      BY <2>1, <3>1 DEF MeasuredMerged, AtWork
    <3>3. \A v, u \in Tasks : u < v /\ meas[v] > 0 => results[u] # -1
      BY DEF NoneBefore
    <3> QED
      BY <1>0, <2>1, <3>1, <3>2, <3>3, FileIsComplete
  <2> QED
    BY <2>1, <2>2, <2>3
<1>4. CASE Kill
  BY <1>4 DEF Kill, Calm, MeasuredMerged, NoneBefore, TmpIsNewer, FileKeepsUp
<1>5. CASE StartAgain
  BY <1>5 DEF StartAgain, Relaunch, jobVars, MeasuredMerged, NoneBefore, FileKeepsUp,
              TmpIsNewer, Renaming, Calm, NoTask, Tasks, AtWork
<1>6. CASE StartMerge
  <2>1. ~opened
    BY <1>0, <1>6 DEF StartMerge, MergeTypes
  <2>2. /\ (Calm' => Calm) /\ ~opened'
        /\ UNCHANGED <<pc, taskId, meas, results, killed, joined, joining, newer, tmpNewer>>
    BY <1>6, <2>1 DEF StartMerge, Calm
  <2> QED
    BY <2>1, <2>2 DEF MeasuredMerged, NoneBefore, TmpIsNewer, Renaming, FileKeepsUp, AtWork
<1>7. CASE ReadTask
  BY <1>7 DEF ReadTask, MeasuredMerged, NoneBefore, TmpIsNewer, Renaming, FileKeepsUp,
              Calm, AtWork
<1>8. CASE OpenTask
  <2>1. /\ mergeAt \in Tasks /\ ~opened /\ opened'
        /\ results' = [results EXCEPT ![mergeAt] = Torn]
        /\ UNCHANGED <<pc, taskId, meas, joined, joining, newer, tmpNewer, mergeAt,
                       killed, meddled>>
    BY <1>8 DEF OpenTask
  <2>2. results \in [Tasks -> Nat \cup {-1, Torn}]
    BY <1>0 DEF JobTypes
  <2>3. MeasuredMerged' /\ NoneBefore'
    BY <2>1, <2>2 DEF MeasuredMerged, NoneBefore, Calm, AtWork, Torn
  <2>4. TmpIsNewer' /\ FileKeepsUp'
    BY <1>0, <2>1 DEF TmpIsNewer, Renaming, FileKeepsUp, Calm
  <2> QED
    BY <2>1, <2>3, <2>4
<1>9. CASE WriteTask
  <2>1. /\ mergeAt \in Tasks /\ ~opened' /\ mergeAt # NTasks
        /\ UNCHANGED <<pc, taskId, meas, joined, joining, newer, tmpNewer, killed, meddled>>
    BY <1>0, <1>9 DEF WriteTask
  <2>2. Calm => /\ results' = [results EXCEPT ![mergeAt] = inHand]
                /\ inHand = meas[mergeAt] /\ inHand # -1
    <3>1. mergeAt # Idle /\ opened /\ inHand # Nothing
      BY <1>0, <1>9 DEF WriteTask, MergeTypes
    <3>2. Calm => ~overlap
      BY <1>0, <3>1, NotMeddled DEF Calm
    <3> QED
      BY <1>0, <1>9, <2>1, <3>1, <3>2, WrittenIs
         DEF WriteTask, MergesFaithfully, Nothing
  <2>3. results \in [Tasks -> Nat \cup {-1, Torn}]
    BY <1>0 DEF JobTypes
  <2>4. MeasuredMerged' /\ NoneBefore'
    BY <2>1, <2>2, <2>3 DEF MeasuredMerged, NoneBefore, Calm, AtWork
  <2>5. TmpIsNewer' /\ FileKeepsUp'
    BY <2>1 DEF TmpIsNewer, Renaming, FileKeepsUp, Calm
  <2> QED
    BY <2>1, <2>4, <2>5
<1>10. CASE StartFinish
  <2>1. /\ mergeAt = NTasks /\ mergeAt # Idle /\ ~opened /\ opened'
        /\ UNCHANGED <<pc, taskId, meas, results, joining, mergeAt, killed, meddled>>
    BY <1>0, <1>10 DEF StartFinish
  <2>2. MeasuredMerged' /\ NoneBefore' /\ FileKeepsUp'
    BY <1>0, <2>1 DEF MeasuredMerged, NoneBefore, FileKeepsUp, Calm, AtWork
  <2>3. TmpIsNewer'
    BY <1>0, <2>1, NotMeddled DEF TmpIsNewer, Renaming, Calm
  <2> QED
    BY <2>1, <2>2, <2>3
<1>11. CASE FinishMerge
  <2>1. /\ mergeAt = NTasks /\ mergeAt # Idle /\ opened /\ ~opened' /\ Concatenate(Reached)
        /\ UNCHANGED <<pc, taskId, meas, results, joining, killed, meddled>>
    BY <1>0, <1>11 DEF FinishMerge
  <2>2. MeasuredMerged' /\ NoneBefore'
    BY <1>0, <2>1 DEF MeasuredMerged, NoneBefore, Calm, AtWork
  <2>3. TmpIsNewer'
    BY <1>0, <2>1, NotMeddled DEF TmpIsNewer, Renaming, Calm
  <2>4. FileKeepsUp'
    <3> SUFFICES ASSUME Calm, NEW t \in Tasks, meas[t] > 0
                 PROVE  t + 1 \in DOMAIN joined'.list /\ joined'.list[t + 1] = meas[t]
      BY <2>1 DEF FileKeepsUp, Calm
    <3>1. ~overlap
      BY <1>0, <2>1, NotMeddled DEF Calm
    <3>2. joined.list = << >>
      BY <1>0, <2>1, <3>1 DEF MergesFaithfully
    <3>3. \A u \in Tasks : results[u] = meas[u] /\ meas[u] \in Nat
      BY <1>0, <2>1, <3>1 DEF MergesFaithfully, JobTypes, Tasks
    <3> QED
      BY <1>0, <2>1, <3>2, <3>3, FileIsComplete
  <2> QED
    BY <2>1, <2>2, <2>3, <2>4
<1>12. CASE KillMerge
  BY <1>12 DEF KillMerge, Calm, MeasuredMerged, NoneBefore, TmpIsNewer, FileKeepsUp
<1>13. CASE AllDone \/ UNCHANGED <<vars, jobVars>>
  BY <1>13 DEF AllDone, Stopped, jobVars, MeasuredMerged, NoneBefore, TmpIsNewer, Renaming,
               FileKeepsUp, Calm, AtWork
<1> QED
  BY <1>1, <1>2, <1>3, <1>4, <1>5, <1>6, <1>7, <1>8, <1>9, <1>10, <1>11, <1>12, <1>13
     DEF JobNext, JobWork, MergeWork

\* In a calm job whose tasks all ask for a sweep, `Job already merged' is true
\* whenever no merge command runs and the scheduler is not just writing the results
\* file of the job, however launches and commands alternate.
THEOREM CalmJobIsMerged == Positive => (JobSpec => []MergedIfCalm)
<1> SUFFICES ASSUME Positive PROVE JobSpec => []MergedIfCalm
  OBVIOUS
<1>1. JobInit => CalmInv
  BY CalmInit
<1>2. Inv /\ CalmInv /\ [JobNext]_<<vars, jobVars>> => CalmInv'
  BY CalmNext
<1>3. Inv /\ CalmInv => MergedIfCalm
  <2>1. MergeTypes /\ mergeAt = Idle => ~opened
    BY DEF MergeTypes
  <2> QED
    BY <2>1 DEF Inv, MergingInv, CalmInv, FileKeepsUp, MergedIfCalm, ResultsCurrent,
                NeedMerge, Calm
<1> QED
  BY <1>1, <1>2, <1>3, InvHolds, PTL DEF JobSpec
=============================================================================
