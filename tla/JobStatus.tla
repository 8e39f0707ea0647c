------------------------------ MODULE JobStatus ------------------------------
(***************************************************************************)
(* A job from outside: the results file of the whole job, the `loadl merge'*)
(* command (merge_only in src/src/loadleveller.h) and the questions that   *)
(* `loadl status' answers (src/python/loadleveller/jobstatus.py), around   *)
(* the single-core scheduler of RunnerSingle.  The command may be given at *)
(* any time, while the scheduler runs or after.                            *)
(*                                                                         *)
(* Of the times of change of the files it only matters which measurement   *)
(* files were written after the results file of the job; a rename leaves   *)
(* them as they are.  results.json and the results file of the job are     *)
(* opened, which empties them, and written in two steps.                   *)
(***************************************************************************)
EXTENDS RunnerSingle, Sequences

CONSTANTS
  MaxMerges,    \* bound: how often the merge command is given
  KillsJoining  \* whether a kill can cut the results file of the job short

ASSUME StatusAssumption == MaxMerges \in Nat /\ KillsJoining \in BOOLEAN

VARIABLES
  joining,  \* run_mc's concatenate_results: "due" after the scheduler, "writing"
            \* while the results file of the job is open, or "no"
  joined,   \* JOBNAME.results.json: whether it exists, and the results in it
  newer,    \* the tasks whose measurement file is newer than it
  tmpNewer, \* whether there is a temporary measurement file, newer than it
  mergeAt,  \* the task the merge command comes to next, or Idle
  inHand,   \* what it has read of that task, or Nothing
  opened,   \* whether it has opened the file it writes next
  merges,   \* how often it was given
  killed,   \* history: the scheduler was killed
  overlap,  \* history: the scheduler was halfway (see Halfway) at some moment of
            \* the merge command that is running
  meddled   \* history: so it was of some command, or a command was killed

fileVars == <<joined, newer, tmpNewer>>
mergeVars == <<mergeAt, inHand, opened, merges>>
historyVars == <<killed, overlap, meddled>>
jobVars == <<joining, fileVars, mergeVars, historyVars>>

Idle == -1
Nothing == -1

JobInit ==
  /\ Init
  /\ joining = "no"
  /\ joined = [exists |-> FALSE, list |-> << >>]
  /\ newer = {} /\ tmpNewer = FALSE
  /\ mergeAt = Idle /\ inHand = Nothing /\ opened = FALSE /\ merges = 0
  /\ killed = FALSE /\ overlap = FALSE /\ meddled = FALSE

-----------------------------------------------------------------------------
(* run_mc                                                                  *)

\* The tasks without results.json: reading it gives no buffer to print.
Unmerged == {t \in Tasks : results[t] = -1}

\* Faulty variant of the next definition: the last task is left out.
ReachedShort == IF NTasks = 0 THEN 0 ELSE NTasks - 1

\* How many tasks get into the file: printing no buffer spoils the stream, and
\* nothing after it is written.
Reached == CHOOSE n \in 0 .. NTasks :
             /\ Unmerged \cap 0 .. n - 1 = {}
             /\ n \in Unmerged \cup {NTasks}

\* concatenate_results opens the results file of the job ...
OpenJoined ==
  /\ joined' = [exists |-> TRUE, list |-> << >>]
  /\ newer' = {} /\ tmpNewer' = FALSE

\* ... and writes the results of the first n tasks to it.
Concatenate(n) ==
  /\ joined' \in {[exists |-> TRUE, list |-> list] :
       list \in Written(joined.list, [i \in 1 .. n |-> results[i - 1]], << >>)}
  /\ newer' = {} /\ tmpNewer' = FALSE

\* The scheduler has written temporary files and not renamed them all yet, or has
\* a file of results open.  A merge command should not run at that moment.
Halfway == Renaming \/ pc = "write_results" \/ joining = "writing"

NoteOverlap ==
  /\ overlap' = (overlap \/ (mergeAt # Idle /\ Halfway'))
  /\ meddled' = (meddled \/ (mergeAt # Idle /\ Halfway'))

\* A step of the scheduler.  The measurement file gets the time at which its
\* temporary one was written.
Schedule ==
  /\ joining = "no"
  /\ Work
  /\ joining' = IF pc' = "ended" THEN "due" ELSE "no"
  /\ tmpNewer' = Renaming'
  /\ newer' = IF ~Renaming THEN newer
              ELSE IF tmpNewer THEN newer \cup {taskId} ELSE newer \ {taskId}
  /\ NoteOverlap
  /\ UNCHANGED <<joined, mergeVars, killed>>

\* After the scheduler has returned.
StartJoin ==
  /\ joining = "due" /\ joining' = "writing"
  /\ OpenJoined
  /\ UNCHANGED <<vars, mergeVars, killed>>
  /\ NoteOverlap

Join ==
  /\ joining = "writing" /\ joining' = "no"
  /\ Concatenate(Reached)
  /\ UNCHANGED <<vars, mergeVars, historyVars>>

\* The process is killed, before the end of the scheduler or after, when it may
\* have written a part of the results file.
Kill ==
  /\ MayCrash
  /\ \/ Crash /\ UNCHANGED <<joining, fileVars>>
     \/ joining = "due" /\ joining' = "no" /\ UNCHANGED <<vars, fileVars>>
     \/ /\ KillsJoining /\ joining = "writing" /\ joining' = "no"
        /\ \E n \in 0 .. Reached : Concatenate(n)
        /\ UNCHANGED vars
  /\ killed' = TRUE
  /\ UNCHANGED <<mergeVars, overlap, meddled>>

StartAgain ==
  /\ joining = "no"
  /\ Relaunch
  /\ UNCHANGED jobVars

-----------------------------------------------------------------------------
(* `loadl merge': run_mc with merge_only as the starter.                   *)

StartMerge ==
  /\ mergeAt = Idle /\ merges < MaxMerges
  /\ mergeAt' = 0 /\ merges' = merges + 1
  /\ overlap' = Halfway /\ meddled' = (meddled \/ Halfway)
  /\ UNCHANGED <<vars, joining, fileVars, inHand, opened, killed>>

\* jobinfo::merge_task for the next task, with or without run files: read them,
ReadTask ==
  /\ mergeAt \in Tasks /\ inHand = Nothing
  /\ inHand' = meas[mergeAt]
  /\ UNCHANGED <<vars, joining, fileVars, mergeAt, opened, merges, historyVars>>

\* open results.json
OpenTask ==
  /\ mergeAt \in Tasks /\ inHand # Nothing /\ ~opened
  /\ results' = [results EXCEPT ![mergeAt] = Torn]
  /\ opened' = TRUE
  /\ UNCHANGED <<pc, rc, launches, taskVars, timeUp, sys, dump, meas, worked,
                 joining, fileVars, mergeAt, inHand, merges, historyVars>>

\* and write it.
WriteTask ==
  /\ mergeAt \in Tasks /\ opened
  /\ results' \in {[results EXCEPT ![mergeAt] = x] :
                     x \in Written(results[mergeAt], inHand, Torn)}
  /\ inHand' = Nothing /\ opened' = FALSE /\ mergeAt' = mergeAt + 1
  /\ UNCHANGED <<pc, rc, launches, taskVars, timeUp, sys, dump, meas, worked,
                 joining, fileVars, merges, historyVars>>

\* concatenate_results after the last one.
StartFinish ==
  /\ mergeAt = NTasks /\ ~opened
  /\ opened' = TRUE
  /\ OpenJoined
  /\ UNCHANGED <<vars, joining, mergeAt, inHand, merges, historyVars>>

FinishMerge ==
  /\ mergeAt = NTasks /\ opened
  /\ Concatenate(Reached)
  /\ mergeAt' = Idle /\ opened' = FALSE /\ overlap' = FALSE
  /\ UNCHANGED <<vars, joining, inHand, merges, killed, meddled>>

\* The command is killed; a file that it has open stays cut short.
KillMerge ==
  /\ MayCrash /\ mergeAt # Idle
  /\ \/ ~(opened /\ mergeAt = NTasks) /\ UNCHANGED fileVars
     \/ /\ KillsJoining /\ opened /\ mergeAt = NTasks
        /\ \E n \in 0 .. Reached : Concatenate(n)
  /\ mergeAt' = Idle /\ inHand' = Nothing /\ opened' = FALSE
  /\ overlap' = FALSE /\ meddled' = TRUE
  /\ UNCHANGED <<vars, joining, merges, killed>>

AllDone ==
  /\ joining = "no" /\ mergeAt = Idle /\ Stopped
  /\ UNCHANGED jobVars

JobWork == Schedule \/ StartJoin \/ Join

MergeWork == ReadTask \/ OpenTask \/ WriteTask \/ StartFinish \/ FinishMerge

JobNext ==
  \/ JobWork \/ Kill \/ StartAgain
  \/ StartMerge \/ MergeWork \/ KillMerge
  \/ AllDone

JobSpec == JobInit /\ [][JobNext]_<<vars, jobVars>>

\* The operating system runs both processes.
FairJobSpec ==
  JobSpec /\ WF_<<vars, jobVars>>(JobWork) /\ WF_<<vars, jobVars>>(MergeWork)

-----------------------------------------------------------------------------
(* `loadl status'                                                          *)

\* Faulty variants of the next definitions.
NeedMergeIfMissing == ~joined.exists
TotalSweeps(t) == SweepOf(dump[t])

\* job_need_merge, with run 1 as the only run of a task.
NeedMerge == ~joined.exists \/ newer # {}

\* The progress of a task as JobProgress reads it.
StatusSweeps(t) == dump[t].sweeps

\* JobProgress.need_restart
NeedRestart == \E t \in Tasks : StatusSweeps(t) < Target[t]

-----------------------------------------------------------------------------
(* Properties                                                              *)

\* All that was measured, and saved, of each task is in the job's results file.
ResultsCurrent ==
  \A t \in Tasks : meas[t] > 0 =>
    t + 1 \in DOMAIN joined.list /\ joined.list[t + 1] = meas[t]

\* A launch that ends by itself has saved and merged every task it worked on,
\* the one the end of the runtime interrupted included, unless a merge command
\* ran while the scheduler was halfway or was killed; a command that has the file
\* open puts the same results back.  The exit code says whether all tasks are done
\* (runner_single.cpp:47-53, jobinfo.cpp:134-147).
EndsMerged ==
  pc = "ended" =>
    /\ ~meddled => \A t \in worked : results[t] = meas[t] \/ (opened /\ t = mergeAt)
    /\ rc = 0 <=> DoneTasks = Tasks

\* `Job already merged' is true of a job whose tasks all ask for a sweep, in which
\* nothing was killed and no merge command ran while the scheduler was halfway,
\* whenever the results file of the job is not just being written and no merge
\* command runs, however launches and commands alternate: the scheduler merges
\* what it saves before that file gets newer than it (runner_single.cpp:46-49,
\* mc.cpp:80-83, 109-112, loadleveller.h:54-57, jobstatus.py:53-74).
MergedIfCalm ==
  ~killed /\ ~meddled /\ mergeAt = Idle /\ joining # "writing" /\ ~NeedMerge =>
    ResultsCurrent

\* A merge command during which the scheduler was never halfway repairs whatever
\* earlier kills have left, missing and cut-short results and a cut-off results
\* file, and the job counts as merged, though the scheduler may go on sweeping or
\* be killed meanwhile (loadleveller.h:11-31, jobinfo.cpp:114-150).
MergeCommandWorks ==
  [][FinishMerge /\ ~overlap =>
       /\ joined'.list = [i \in 1 .. NTasks |-> meas[i - 1]]
       /\ ~NeedMerge']_<<vars, jobVars>>

\* Every launch ends, by completion, at the end of the runtime or by a kill, its
\* results file included; and so does every merge command.
LaunchEnds ==
  /\ [](pc = "start" => <>(pc = "crashed" \/ (pc = "ended" /\ joining = "no")))
  /\ [](mergeAt # Idle => <>(mergeAt = Idle))

\* A launch that did not get everything done is noticed: status asks for a
\* restart, although it reads other counters than the scheduler
\* (runner_single.cpp:50-54, jobstatus.py:25-43).
AsksForRestart == pc = "ended" /\ rc = 1 => NeedRestart

-----------------------------------------------------------------------------
(* What the code says and does not do; see README.md.                      *)

\* jobstatus.py:81, 90: `Job already merged' is said when the merged results are
\* not older than the raw data.  (Not while the file is just being written.)
MergedMeansCurrent ==
  mergeAt = Idle /\ joining # "writing" /\ ~NeedMerge => ResultsCurrent
=============================================================================
