------------------------------ MODULE TaskScan ------------------------------
(***************************************************************************)
(* get_new_task_id, shared by the three schedulers (src/src/runner.cpp,    *)
(* src/src/runner_single.cpp): the first unfinished task met when the      *)
(* cyclic order of the tasks 0..n-1 is walked from the one after old_id,   *)
(* or -1 when every task is done.                                          *)
(***************************************************************************)
EXTENDS Integers

NoTask == -1

\* Faulty variant: the scan stops one short of coming back to oldId.
HitStepsShort(oldId, n, done) == {i \in 1 .. n - 1 : (oldId + i) % n \notin done}

(* The step counts i of the loop that meet an unfinished task.             *)
HitSteps(oldId, n, done) == {i \in 1..n : (oldId + i) % n \notin done}

FirstHit(hits) == CHOOSE i \in hits : \A j \in hits : i <= j

\* Faulty variant: stay with the old task when every task is done.
KeepsOldTask(oldId, n, done) ==
  LET hits == HitSteps(oldId, n, done)
  IN  IF hits = {} THEN oldId ELSE (oldId + FirstHit(hits)) % n

GetNewTaskId(oldId, n, done) ==
  LET hits == HitSteps(oldId, n, done)
  IN  IF hits = {} THEN NoTask ELSE (oldId + FirstHit(hits)) % n
=============================================================================
