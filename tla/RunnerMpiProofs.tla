-------------------------- MODULE RunnerMpiProofs --------------------------
(***************************************************************************)
(* Safety of the MPI scheduler for any number of slaves, tasks, sweeps and *)
(* launches: first the protocol of master and slaves, then who owns which  *)
(* run, from which it follows that the scheduler implements RunLeases, and *)
(* then what a launch leaves behind.                                       *)
(***************************************************************************)
EXTENDS RunnerMpi, SharedProofs, FiniteSetTheorems

\* The next task to hand out is a task that is not done; there is none exactly
\* when every task is done.
LEMMA NextTaskCorrect ==
  ASSUME TypeOK
  PROVE  LET t == GetNewTaskId(current, NTasks, DoneTasks)
         IN  /\ t \in Tasks \cup {NoTask}
             /\ t # NoTask => t \notin DoneTasks
             /\ t = NoTask <=> DoneTasks = Tasks
<1>1. current \in -1 .. NTasks - 1
  BY TasksAssumption DEF TypeOK, Tasks, NoTask
<1>2. DoneTasks \in SUBSET (0 .. NTasks - 1)
  BY DEF DoneTasks, Tasks
<1> QED
  BY <1>1, <1>2, GetNewTaskIdCorrect, TasksAssumption DEF Tasks

LEMMA SweepsUntilCommType ==
  ASSUME TypeOK, NEW t \in Tasks
  PROVE  SweepsUntilComm(t) \in Nat \ {0}
BY TasksAssumption DEF TypeOK, SweepsUntilComm, AtMost

LEMMA DumpOfType ==
  ASSUME NEW n \in Nat, NEW therm \in Nat
  PROVE  /\ DumpOf(n, therm) \in Dumps
         /\ SweepOf(DumpOf(n, therm)) = n
BY DEF DumpOf, SweepOf, Dumps, AtMost

\* What a channel with a message received or sent holds.
LEMMA MessageTypes ==
  ASSUME TypeOK, NEW s \in Slaves
  PROVE  /\ statusCh[s] # << >> => Head(statusCh[s]) \in StatusMsgs
         /\ actionCh[s] # << >> => Head(actionCh[s]) \in Actions
         /\ jobCh[s] # << >> => Head(jobCh[s]) \in JobMsgs
BY DEF TypeOK

LEMMA ChannelTypes ==
  ASSUME NEW M, NEW ch \in [Slaves -> Seq(M)], NEW s \in Slaves
  PROVE  /\ ch[s] # << >> => Pop(ch, s) \in [Slaves -> Seq(M)]
         /\ \A m \in M : Push(ch, s, m) \in [Slaves -> Seq(M)]
BY DEF Pop, Push

LEMMA TypeInit == Init => TypeOK
<1> SUFFICES ASSUME Init PROVE TypeOK
  OBVIOUS
<1>1. Cardinality(Slaves) \in Nat
  BY SlavesAssumption, FS_CardinalityType
<1>2. IsFiniteSet(DOMAIN NoRuns)
  BY FS_EmptySet DEF NoRuns
<1> QED
  BY <1>1, <1>2, LaunchAssumption
  DEF Init, TypeOK, NoRuns, NoResults, NoSys, Owning, Working, Places, NoTask

LEMMA CheckpointType ==
  ASSUME TypeOK, NEW t \in Tasks, NEW r \in Int,
         NEW m \in [sweep : Nat, unsaved : Nat], CheckpointOf(t, r, m)
  PROVE  /\ DOMAIN dump' = Tasks /\ DOMAIN meas' = Tasks
         /\ \A u \in Tasks :
              /\ DOMAIN meas'[u] = DOMAIN dump'[u] /\ IsFiniteSet(DOMAIN dump'[u])
              /\ \A q \in DOMAIN dump'[u] :
                   dump'[u][q] \in Dumps /\ meas'[u][q] \in Nat
<1> DEFINE d == DumpOf(m.sweep, Therm[t])
           n == m.unsaved + IF r \in DOMAIN meas[t] THEN meas[t][r] ELSE 0
<1>1. d \in Dumps
  BY DumpOfType, TasksAssumption
<1>2. n \in Nat
  BY DEF TypeOK
<1>3. /\ dump' = [dump EXCEPT ![t] = WriteRun(dump[t], r, d)]
      /\ meas' = [meas EXCEPT ![t] = WriteRun(meas[t], r, n)]
  BY DEF CheckpointOf, TypeOK
<1> HIDE DEF d, n
<1>4. ASSUME NEW u \in Tasks, u # t
      PROVE  dump'[u] = dump[u] /\ meas'[u] = meas[u]
  BY <1>3, <1>4 DEF TypeOK
<1>5. dump'[t] = WriteRun(dump[t], r, d) /\ meas'[t] = WriteRun(meas[t], r, n)
  BY <1>3 DEF TypeOK
<1>6. /\ DOMAIN meas'[t] = DOMAIN dump'[t]
      /\ \A q \in DOMAIN dump'[t] : dump'[t][q] \in Dumps /\ meas'[t][q] \in Nat
  BY <1>1, <1>2, <1>5 DEF TypeOK, WriteRun
<1>7. DOMAIN dump' = Tasks /\ DOMAIN meas' = Tasks
  BY <1>3 DEF TypeOK
<1>8. IsFiniteSet(DOMAIN dump'[t])
  <2>1. DOMAIN dump'[t] = DOMAIN dump[t] \cup {r}
    BY <1>5 DEF WriteRun
  <2>2. IsFiniteSet(DOMAIN dump[t])
    BY DEF TypeOK
  <2> QED
    BY <2>1, <2>2, FS_AddElement
<1> QED
  BY <1>4, <1>6, <1>7, <1>8 DEF TypeOK

\* What the folds of the library compute is a sum.  jobinfo::read_dump_progress
\* adds up the counters of the dumps.
ProgressIn(t) == [r \in DOMAIN dump[t] |-> dump[t][r].sweeps]

LEMMA ReadDumpProgressIs ==
  ASSUME TypeOK, NEW t \in Tasks
  PROVE  ReadDumpProgress(t) = Total(ProgressIn(t), DOMAIN dump[t])
<1> DEFINE S == DOMAIN dump[t]
           f == ProgressIn(t)
           e(j, s) == IF s = {} THEN 0
                      ELSE dump[t][Choice(s)].sweeps + j[s \ {Choice(s)}]
           d(j, s) == IF s = {} THEN 0 ELSE f[Choice(s)] + j[s \ {Choice(s)}]
           fold == CHOOSE j : j = [s \in SUBSET S |-> e(j, s)]
<1>1. ReadDumpProgress(t) = fold[S]
  BY DEF ReadDumpProgress, MapThenSumSet, MapThenFoldSet, Choice
<1>2. \A j : \A s \in SUBSET S : e(j, s) = d(j, s)
  BY ChoiceIn DEF ProgressIn
<1>3. \A j : SumsOf(j, f, S) <=> j = [s \in SUBSET S |-> d(j, s)]
  BY DEF SumsOf
<1>4. IsFiniteSet(S)
  BY DEF TypeOK
<1>5. \E j : SumsOf(j, f, S)
  <2> HIDE DEF f
  <2> QED
    BY <1>4, SumsExist
<1> HIDE DEF S, f, e, d
<1>6. \A j : SumsOf(j, f, S) <=> j = [s \in SUBSET S |-> e(j, s)]
  <2>1. \A j : j = [s \in SUBSET S |-> d(j, s)] <=> j = [s \in SUBSET S |-> e(j, s)]
    BY <1>2
  <2> QED
    BY <1>3, <2>1
<1>7. SumsOf(fold, f, S)
  BY <1>5, <1>6
<1>8. fold[S] = Total(f, S)
  BY <1>4, <1>7, TotalUnique
<1> QED
  BY <1>1, <1>8 DEF S, f

LEMMA ReadDumpProgressIsNat ==
  ASSUME TypeOK, NEW t \in Tasks
  PROVE  ReadDumpProgress(t) \in Nat
<1>1. IsFiniteSet(DOMAIN dump[t]) /\ \A r \in DOMAIN dump[t] : ProgressIn(t)[r] \in Nat
  BY DEF TypeOK, Dumps, ProgressIn
<1> QED
  BY <1>1, TotalIsNat, ReadDumpProgressIs

LEMMA TypeStep == TypeOK /\ [Next]_vars => TypeOK'
<1> SUFFICES ASSUME TypeOK, [Next]_vars PROVE TypeOK'
  OBVIOUS
<1> USE DEF launchVars, masterVars, slaveVars, netVars, diskVars
<1>1. ASSUME NEW s \in Slaves, Assign(s) PROVE TypeOK'
  <2> DEFINE t == GetNewTaskId(current, NTasks, DoneTasks)
  <2>1. t \in Tasks
    BY <1>1, NextTaskCorrect DEF Assign
  <2>2. scheduled' \in [Tasks -> Int] /\ scheduled'[t] \in Int
    BY <1>1, <2>1 DEF Assign, TypeOK
  <2>3. JobMsg(t, scheduled'[t], SweepsUntilComm(t)) \in JobMsgs
    BY <2>1, <2>2, SweepsUntilCommType DEF JobMsg, JobMsgs
  <2>4. jobCh' \in [Slaves -> Seq(JobMsgs)]
    BY <1>1, <2>3, ChannelTypes DEF Assign, TypeOK
  <2>5. actionCh' \in [Slaves -> Seq(Actions)]
    BY <1>1, ChannelTypes DEF Assign, TypeOK, Actions
  <2>6. statusCh' \in [Slaves -> Seq(StatusMsgs)]
    BY <1>1, ChannelTypes DEF Assign, Receives, TypeOK
  <2> QED
    BY <1>1, <2>1, <2>2, <2>4, <2>5, <2>6 DEF Assign, TypeOK
<1>2. ASSUME NEW s \in Slaves, Dismiss(s) PROVE TypeOK'
  <2>1. actionCh' \in [Slaves -> Seq(Actions)]
    BY <1>2, ChannelTypes DEF Dismiss, TypeOK, Actions
  <2>2. statusCh' \in [Slaves -> Seq(StatusMsgs)]
    BY <1>2, ChannelTypes DEF Dismiss, Receives, TypeOK
  <2> QED
    BY <1>2, <2>1, <2>2 DEF Dismiss, TypeOK
<1>3. ASSUME NEW s \in Slaves, ReactBusy(s) PROVE TypeOK'
  <2> DEFINE m == Head(statusCh[s])
             n == sweeps[m.task] + m.sweeps
             done == IsDone(Target[m.task], n)
  <2>1. m \in [type : {"busy"}, task : Tasks, sweeps : Nat]
    BY <1>3, MessageTypes DEF ReactBusy, Receives, StatusMsgs
  <2>2. m.task \in Tasks /\ n \in Nat
    <3>1. m.task \in Tasks /\ m.sweeps \in Nat
      BY <2>1
    <3>2. sweeps[m.task] \in Nat
      BY <3>1 DEF TypeOK
    <3> QED
      BY <3>1, <3>2
  <2>3. /\ sweeps' = [sweeps EXCEPT ![m.task] = n]
        /\ scheduled' = [scheduled EXCEPT ![m.task] = Released(@, done)]
        /\ actionCh' = Push(actionCh, s, Verdict(done, scheduled'[m.task]))
    BY <1>3 DEF ReactBusy
  <2>4. /\ sweeps' \in [Tasks -> Nat] /\ scheduled' \in [Tasks -> Int]
        /\ actionCh' \in [Slaves -> Seq(Actions)]
    <3> HIDE DEF m, n, done
    <3>1. scheduled[m.task] \in Int
      BY <2>2 DEF TypeOK
    <3>2. Released(scheduled[m.task], done) \in Int
      BY <3>1 DEF Released
    <3>3. Verdict(done, scheduled'[m.task]) \in Actions
      BY DEF Verdict, Actions
    <3>4. sweeps' \in [Tasks -> Nat]
      BY <2>2, <2>3 DEF TypeOK
    <3>5. scheduled' \in [Tasks -> Int]
      BY <2>2, <2>3, <3>2 DEF TypeOK
    <3>6. actionCh' \in [Slaves -> Seq(Actions)]
      BY <2>3, <3>3, ChannelTypes DEF TypeOK
    <3> QED
      BY <3>4, <3>5, <3>6
  <2>5. statusCh' \in [Slaves -> Seq(StatusMsgs)]
    BY <1>3, ChannelTypes DEF ReactBusy, Receives, TypeOK
  <2> QED
    BY <1>3, <2>4, <2>5 DEF ReactBusy, TypeOK
<1>4. ASSUME NEW s \in Slaves, ReactTimeUp(s) PROVE TypeOK'
  <2>1. statusCh' \in [Slaves -> Seq(StatusMsgs)]
    BY <1>4, ChannelTypes DEF ReactTimeUp, Receives, TypeOK
  <2> QED
    BY <1>4, <2>1 DEF ReactTimeUp, TypeOK
<1>5. ASSUME NEW s \in Slaves, SendIdle(s) PROVE TypeOK'
  <2>1. statusCh' \in [Slaves -> Seq(StatusMsgs)]
    BY <1>5, ChannelTypes DEF SendIdle, SendStatus, TypeOK, StatusMsgs, IdleMsg
  <2> QED
    BY <1>5, <2>1 DEF SendIdle, TypeOK, Places, Owning, Working
<1>6. ASSUME NEW s \in Slaves, RecvAction(s) PROVE TypeOK'
  <2>1. actionCh' \in [Slaves -> Seq(Actions)]
    BY <1>6, ChannelTypes DEF RecvAction, TypeOK
  <2> QED
    BY <1>6, <2>1 DEF RecvAction, TypeOK, Places, Owning, Working
<1>7. ASSUME NEW s \in Slaves, RecvJob(s) PROVE TypeOK'
  <2>1. jobCh' \in [Slaves -> Seq(JobMsgs)]
    BY <1>7, ChannelTypes DEF RecvJob, TypeOK
  <2>2. Head(jobCh[s]) \in JobMsgs
    BY <1>7, MessageTypes DEF RecvJob
  <2>3. /\ task' \in [Slaves -> Tasks \cup {NoTask}] /\ task'[s] \in Tasks
        /\ run' \in [Slaves -> Int] /\ before' \in [Slaves -> Nat]
    BY <1>7, <2>2 DEF RecvJob, TypeOK, JobMsgs
  <2> QED
    BY <1>7, <2>1, <2>3 DEF RecvJob, TypeOK, Places, Owning, Working
<1>8. ASSUME NEW s \in Slaves, LoadRead(s) PROVE TypeOK'
  <2>1. SweepOf(dump[task[s]][run[s]]) \in Nat
    BY <1>8 DEF LoadRead, TypeOK, SweepOf, Dumps, Owning, Working
  <2> QED
    BY <1>8, <2>1 DEF LoadRead, TypeOK, EnterLoop, Places, Owning, Working
<1>9. ASSUME NEW s \in Slaves, LoadInit(s) PROVE TypeOK'
  <2>1. task[s] \in Tasks /\ run[s] \in Int /\ NoSys \in [sweep : Nat, unsaved : Nat]
    BY <1>9 DEF LoadInit, TypeOK, Owning, Working, NoSys
  <2>2. CheckpointOf(task[s], run[s], NoSys)
    BY <1>9 DEF LoadInit
  <2> QED
    BY <1>9, <2>1, <2>2, CheckpointType
    DEF LoadInit, TypeOK, EnterLoop, Places, Owning, Working
<1>10. ASSUME NEW s \in Slaves, Sweep(s) PROVE TypeOK'
  <2>1. PICK up \in ClockReads(s), checkpointTime \in BOOLEAN :
          LET n        == sys[s].sweep + 1
              measured == IF IsThermalized(n, Therm[task[s]]) THEN 1 ELSE 0
          IN  /\ sys' = [sys EXCEPT ![s] = [sweep |-> n,
                                            unsaved |-> @.unsaved + measured]]
              /\ since' = [since EXCEPT ![s] = @ + measured]
              /\ timeUp' = [timeUp EXCEPT ![s] = up]
              /\ pc' = [pc EXCEPT ![s] = IF up \/ checkpointTime
                                         THEN "checkpoint"
                                         ELSE EnterLoop(since'[s], before[s])]
    BY <1>10 DEF Sweep
  <2>2. up \in BOOLEAN
    BY DEF ClockReads
  <2>3. pc[s] = "sweep" /\ task[s] \in Tasks
    BY <1>10 DEF Sweep, TypeOK, Owning, Working
  <2>4. pc' \in [Slaves -> Places]
        /\ \A q \in Slaves : pc'[q] \in Owning => task[q] \in Tasks
    BY <2>1, <2>3 DEF TypeOK, EnterLoop, Places, Owning, Working
  <2>5. sys' \in [Slaves -> [sweep : Nat, unsaved : Nat]]
    BY <2>1 DEF TypeOK
  <2>6. since' \in [Slaves -> Nat]
    BY <2>1 DEF TypeOK
  <2> QED
    BY <1>10, <2>1, <2>2, <2>4, <2>5, <2>6 DEF Sweep, TypeOK
<1>11. ASSUME NEW s \in Slaves, Checkpoint(s) PROVE TypeOK'
  <2>1. task[s] \in Tasks /\ run[s] \in Int /\ sys[s] \in [sweep : Nat, unsaved : Nat]
    BY <1>11 DEF Checkpoint, TypeOK, Owning, Working
  <2>2. CheckpointOf(task[s], run[s], sys[s])
    BY <1>11 DEF Checkpoint
  <2> QED
    BY <1>11, <2>1, <2>2, CheckpointType
    DEF Checkpoint, TypeOK, Places, Owning, Working
<1>12. ASSUME NEW s \in Slaves, ReportBusy(s) PROVE TypeOK'
  <2>1. BusyMsg(task[s], since[s]) \in StatusMsgs
    BY <1>12 DEF ReportBusy, TypeOK, StatusMsgs, BusyMsg, Owning, Working
  <2>2. statusCh' \in [Slaves -> Seq(StatusMsgs)]
    BY <1>12, <2>1, ChannelTypes DEF ReportBusy, SendStatus, TypeOK
  <2> QED
    BY <1>12, <2>2 DEF ReportBusy, TypeOK, Places, Owning, Working
<1>13. ASSUME NEW s \in Slaves, ReportTimeUp(s) PROVE TypeOK'
  <2>1. statusCh' \in [Slaves -> Seq(StatusMsgs)]
    BY <1>13, ChannelTypes
    DEF ReportTimeUp, SendStatus, TypeOK, StatusMsgs, TimeUpMsg
  <2> QED
    BY <1>13, <2>1 DEF ReportTimeUp, TypeOK, Places, Owning, Working
<1>14. ASSUME NEW s \in Slaves, RecvVerdict(s) PROVE TypeOK'
  <2>1. actionCh' \in [Slaves -> Seq(Actions)]
    BY <1>14, ChannelTypes DEF RecvVerdict, TypeOK
  <2>2. statusCh' \in [Slaves -> Seq(StatusMsgs)]
    BY <1>14, ChannelTypes DEF RecvVerdict, TypeOK, StatusMsgs, IdleMsg
  <2> QED
    BY <1>14, <2>1, <2>2 DEF RecvVerdict, TypeOK, EnterLoop, Places, Owning, Working
<1>15. ASSUME NEW s \in Slaves, MergeMeasurements(s) PROVE TypeOK'
  <2>1. statusCh' \in [Slaves -> Seq(StatusMsgs)]
    BY <1>15, ChannelTypes
    DEF MergeMeasurements, SendStatus, TypeOK, StatusMsgs, IdleMsg
  <2> QED
    BY <1>15, <2>1 DEF MergeMeasurements, TypeOK, Places, Owning, Working
<1>16. CASE Finalize
  BY <1>16 DEF Finalize, TypeOK
<1>17. CASE Crash
  BY <1>17 DEF Crash, TypeOK
<1>18. CASE Relaunch
  <2>1. Cardinality(Slaves) \in Nat
    BY SlavesAssumption, FS_CardinalityType
  <2>2. launches' \in 1 .. MaxLaunches
    BY <1>18, LaunchAssumption DEF Relaunch, TypeOK
  <2>3. sweeps' \in [Tasks -> Nat]
    BY <1>18, ReadDumpProgressIsNat DEF Relaunch
  <2> QED
    BY <1>18, <2>1, <2>2, <2>3
    DEF Relaunch, RanksStart, TypeOK, NoSys, Places, Owning, Working, NoTask
<1>19. CASE UNCHANGED vars
  BY <1>19 DEF vars, TypeOK
<1> QED
  BY <1>1, <1>2, <1>3, <1>4, <1>5, <1>6, <1>7, <1>8, <1>9, <1>10, <1>11, <1>12,
     <1>13, <1>14, <1>15, <1>16, <1>17, <1>18, <1>19
  DEF Next, MasterStep, SlaveStep, Stopped

\* Every variable keeps its type: no counter underflows its size_t, no message
\* of a wrong kind is sent under a tag, and the two files of a run exist
\* together (runner.h, runner.cpp:94-102, mc.cpp:109-112).
THEOREM TypeCorrect == Spec => []TypeOK
BY TypeInit, TypeStep, PTL DEF Spec

-----------------------------------------------------------------------------
(* The protocol between the master and one slave.                          *)

\* A step of or for slave s leaves the other slaves and their channels alone.
LEMMA Frame ==
  ASSUME TypeOK, NEW s \in Slaves, MasterStep(s) \/ SlaveStep(s),
         NEW q \in Slaves, q # s
  PROVE  /\ pc'[q] = pc[q] /\ task'[q] = task[q] /\ run'[q] = run[q]
         /\ statusCh'[q] = statusCh[q] /\ actionCh'[q] = actionCh[q]
         /\ jobCh'[q] = jobCh[q]
<1> USE DEF slaveVars
<1>1. CASE MasterStep(s)
  BY <1>1 DEF TypeOK, MasterStep, Assign, Dismiss, ReactBusy, ReactTimeUp,
              Receives, Push, Pop
<1>2. CASE SlaveStep(s)
  <2>1. CASE SendIdle(s) \/ RecvAction(s) \/ RecvJob(s)
    BY <2>1 DEF TypeOK, SendIdle, RecvAction, RecvJob, SendStatus, Push, Pop
  <2>2. CASE LoadRead(s) \/ LoadInit(s) \/ Sweep(s) \/ Checkpoint(s)
    BY <2>2 DEF TypeOK, LoadRead, LoadInit, Sweep, Checkpoint, netVars
  <2>3. CASE ReportBusy(s) \/ ReportTimeUp(s) \/ RecvVerdict(s) \/ MergeMeasurements(s)
    BY <2>3 DEF TypeOK, ReportBusy, ReportTimeUp, RecvVerdict, MergeMeasurements,
                SendStatus, Push, Pop
  <2> QED
    BY <1>2, <2>1, <2>2, <2>3 DEF SlaveStep
<1> QED
  BY <1>1, <1>2

\* Channels of one message.
LEMMA Single ==
  ASSUME NEW x
  PROVE  /\ Append(<< >>, x) = <<x>> /\ <<x>> # << >>
         /\ Head(<<x>>) = x /\ Tail(<<x>>) = << >>
OBVIOUS

LEMMA Sent ==
  ASSUME NEW ch, DOMAIN ch = Slaves, NEW s \in Slaves, ch[s] = << >>, NEW m
  PROVE  Push(ch, s, m)[s] = <<m>>
BY Single DEF Push

LEMMA Taken ==
  ASSUME NEW ch, DOMAIN ch = Slaves, NEW s \in Slaves, Tail(ch[s]) = << >>
  PROVE  Pop(ch, s)[s] = << >>
BY DEF Pop

LEMMA ChannelDomains ==
  ASSUME TypeOK
  PROVE  DOMAIN statusCh = Slaves /\ DOMAIN actionCh = Slaves /\ DOMAIN jobCh = Slaves
BY DEF TypeOK

LEMMA MessageKinds ==
  /\ IdleMsg.type = "idle" /\ TimeUpMsg.type = "timeup"
  /\ \A t, n : BusyMsg(t, n).type = "busy" /\ BusyMsg(t, n).task = t
BY DEF IdleMsg, TimeUpMsg, BusyMsg

\* Which slave a message found at the master comes from.
LEMMA Sender ==
  ASSUME TypeOK, Protocol, NEW s \in Slaves, NEW type, Receives(s, type)
  PROVE  /\ type = "idle" => pc[s] = "await_action"
         /\ type = "busy" => /\ pc[s] = "verdict" /\ Head(statusCh[s]).task = task[s]
                            /\ task[s] \in Tasks
         /\ type = "timeup" => pc[s] = "left"
         /\ actionCh[s] = << >> /\ jobCh[s] = << >>
         /\ statusCh[s] # << >> /\ statusCh'[s] = << >>
<1>1. InProtocol(s) /\ pc[s] \in Places
  BY DEF Protocol, TypeOK
<1>2. statusCh[s] # << >> /\ Head(statusCh[s]).type = type /\ statusCh' = Pop(statusCh, s)
  BY DEF Receives
<1>3. pc[s] \in {"await_action", "verdict", "left"}
  BY <1>1, <1>2 DEF InProtocol, Quiet, Places, Owning
<1>4. CASE pc[s] = "await_action"
  <2>1. statusCh[s] = <<IdleMsg>> /\ actionCh[s] = << >> /\ jobCh[s] = << >>
    BY <1>1, <1>2, <1>4 DEF InProtocol
  <2> QED
    BY <1>2, <1>4, <2>1, Single, MessageKinds, Taken, ChannelDomains
<1>5. CASE pc[s] = "verdict"
  <2>1. /\ actionCh[s] = << >> /\ jobCh[s] = << >> /\ Tail(statusCh[s]) = << >>
        /\ Head(statusCh[s]).type = "busy" /\ Head(statusCh[s]).task = task[s]
    BY <1>1, <1>2, <1>5 DEF InProtocol
  <2>2. task[s] \in Tasks
    BY <1>5 DEF TypeOK, Owning
  <2> QED
    BY <1>2, <1>5, <2>1, <2>2, Taken, ChannelDomains
<1>6. CASE pc[s] = "left"
  <2>1. statusCh[s] = <<TimeUpMsg>> /\ actionCh[s] = << >> /\ jobCh[s] = << >>
    BY <1>1, <1>2, <1>6 DEF InProtocol
  <2> QED
    BY <1>2, <1>6, <2>1, Single, MessageKinds, Taken, ChannelDomains
<1> QED
  BY <1>3, <1>4, <1>5, <1>6

LEMMA ProtocolInit == Init => Protocol
BY DEF Init, Protocol, InProtocol, Quiet, Working

LEMMA ProtocolStep == TypeOK /\ Protocol /\ [Next]_vars => Protocol'
<1> SUFFICES ASSUME TypeOK, Protocol, [Next]_vars PROVE Protocol'
  OBVIOUS
<1>0. TypeOK'
  BY TypeStep
<1>1. ASSUME NEW s \in Slaves, MasterStep(s) \/ SlaveStep(s), InProtocol(s)'
      PROVE  Protocol'
  <2>1. ASSUME NEW q \in Slaves, q # s PROVE InProtocol(q)'
    <3>1. InProtocol(q)
      BY DEF Protocol
    <3> QED
      BY <1>1, <2>1, <3>1, Frame DEF InProtocol, Quiet
  <2> QED
    BY <1>1, <2>1 DEF Protocol
<1> USE DEF Owning, Working, Places
<1>2. ASSUME NEW s \in Slaves, Assign(s) PROVE InProtocol(s)'
  <2>1. Receives(s, "idle") /\ pc' = pc
    BY <1>2 DEF Assign, slaveVars
  <2>2. actionCh[s] = << >> /\ jobCh[s] = << >>
    BY <2>1, Sender
  <2>3. /\ actionCh'[s] = <<"new_job">>
        /\ jobCh'[s] # << >> /\ Tail(jobCh'[s]) = << >>
    <3>1. actionCh' = Push(actionCh, s, "new_job") /\ \E j : jobCh' = Push(jobCh, s, j)
      BY <1>2 DEF Assign
    <3>2. PICK j : jobCh' = Push(jobCh, s, j)
      BY <3>1
    <3>3. actionCh'[s] = <<"new_job">>
      BY <3>1, <2>2, Sent, ChannelDomains
    <3>4. jobCh'[s] = <<j>>
      BY <3>2, <2>2, Sent, ChannelDomains
    <3> QED
      BY <3>3, <3>4, Single
  <2> QED
    BY <2>1, <2>3, Sender DEF InProtocol
<1>3. ASSUME NEW s \in Slaves, Dismiss(s) PROVE InProtocol(s)'
  <2>1. Receives(s, "idle") /\ pc' = pc /\ jobCh' = jobCh
    BY <1>3 DEF Dismiss, slaveVars
  <2>2. actionCh'[s] = <<"exit">>
    BY <1>3, <2>1, Sender, Sent, ChannelDomains DEF Dismiss
  <2> QED
    BY <2>1, <2>2, Sender DEF InProtocol
<1>4. ASSUME NEW s \in Slaves, ReactBusy(s) PROVE InProtocol(s)'
  <2>1. Receives(s, "busy") /\ pc' = pc /\ jobCh' = jobCh
    BY <1>4 DEF ReactBusy, slaveVars
  <2>2. actionCh'[s] \in {<<"continue">>, <<"new_job">>, <<"process">>}
    BY <1>4, <2>1, Sender, Sent, ChannelDomains DEF ReactBusy, Verdict
  <2> QED
    BY <2>1, <2>2, Sender DEF InProtocol
<1>5. ASSUME NEW s \in Slaves, ReactTimeUp(s) PROVE InProtocol(s)'
  <2>1. Receives(s, "timeup") /\ pc' = pc /\ jobCh' = jobCh /\ actionCh' = actionCh
    BY <1>5 DEF ReactTimeUp, slaveVars
  <2> QED
    BY <2>1, Sender DEF InProtocol
<1>6. ASSUME NEW s \in Slaves, SendIdle(s) PROVE InProtocol(s)'
  <2>1. Quiet(s)
    BY <1>6 DEF SendIdle, Protocol, InProtocol
  <2>2. statusCh'[s] = <<IdleMsg>> /\ pc'[s] = "await_action"
    BY <1>6, <2>1, Sent, ChannelDomains DEF SendIdle, SendStatus, Quiet, TypeOK
  <2> QED
    BY <1>6, <2>1, <2>2 DEF SendIdle, InProtocol, Quiet
<1>7. ASSUME NEW s \in Slaves, RecvAction(s) PROVE InProtocol(s)'
  <2>1. InProtocol(s) /\ pc[s] = "await_action" /\ actionCh[s] # << >>
        /\ statusCh' = statusCh /\ jobCh' = jobCh
    BY <1>7 DEF RecvAction, Protocol
  <2>2. statusCh[s] = << >> /\ Tail(actionCh[s]) = << >>
        /\ \/ actionCh[s] = <<"exit">> /\ jobCh[s] = << >>
           \/ actionCh[s] = <<"new_job">> /\ jobCh[s] # << >> /\ Tail(jobCh[s]) = << >>
    BY <2>1, Single DEF InProtocol
  <2>3. actionCh'[s] = << >>
    BY <1>7, <2>2, Taken, ChannelDomains DEF RecvAction
  <2>4. \/ actionCh[s] = <<"exit">> /\ pc'[s] = "exited"
        \/ actionCh[s] = <<"new_job">> /\ pc'[s] = "await_job"
    BY <1>7, <2>2, Single DEF RecvAction, TypeOK
  <2> QED
    BY <2>1, <2>2, <2>3, <2>4, Single DEF InProtocol, Quiet
<1>8. ASSUME NEW s \in Slaves, RecvJob(s) PROVE InProtocol(s)'
  BY <1>8 DEF RecvJob, Pop, TypeOK, Protocol, InProtocol, Quiet
<1>9. ASSUME NEW s \in Slaves, LoadRead(s) \/ LoadInit(s) \/ Sweep(s) \/ Checkpoint(s)
      PROVE  InProtocol(s)'
  <2>1. /\ pc[s] \in Working /\ netVars' = netVars
        /\ \E p \in Working : pc' = [pc EXCEPT ![s] = p]
    BY <1>9 DEF LoadRead, LoadInit, Sweep, Checkpoint, EnterLoop
  <2> QED
    BY <2>1 DEF TypeOK, Protocol, InProtocol, Quiet, netVars
<1>10. ASSUME NEW s \in Slaves, ReportBusy(s) PROVE InProtocol(s)'
  <2>1. /\ statusCh'[s] = <<BusyMsg(task[s], since[s])>>
        /\ actionCh'[s] = << >> /\ jobCh'[s] = << >> /\ pc'[s] = "verdict"
        /\ task' = task
    <3>1. Quiet(s)
      BY <1>10 DEF ReportBusy, Protocol, InProtocol
    <3> QED
      BY <1>10, <3>1, Sent, ChannelDomains DEF ReportBusy, SendStatus, Quiet, TypeOK
  <2> QED
    BY <2>1, Single, MessageKinds DEF InProtocol
<1>11. ASSUME NEW s \in Slaves, ReportTimeUp(s) PROVE InProtocol(s)'
  <2>1. Quiet(s)
    BY <1>11 DEF ReportTimeUp, Protocol, InProtocol
  <2>2. statusCh'[s] = <<TimeUpMsg>> /\ pc'[s] = "left"
    BY <1>11, <2>1, Sent, ChannelDomains DEF ReportTimeUp, SendStatus, Quiet, TypeOK
  <2> QED
    BY <1>11, <2>1, <2>2 DEF ReportTimeUp, InProtocol, Quiet
<1>12. ASSUME NEW s \in Slaves, RecvVerdict(s) PROVE InProtocol(s)'
  <2>1. /\ statusCh[s] = << >> /\ jobCh[s] = << >>
        /\ actionCh[s] \in {<<"continue">>, <<"new_job">>, <<"process">>}
        /\ actionCh'[s] = << >> /\ jobCh' = jobCh
    <3>1. InProtocol(s) /\ pc[s] = "verdict" /\ actionCh[s] # << >>
      BY <1>12 DEF RecvVerdict, Protocol
    <3>2. /\ statusCh[s] = << >> /\ jobCh[s] = << >>
          /\ actionCh[s] \in {<<"continue">>, <<"new_job">>, <<"process">>}
      BY <3>1 DEF InProtocol
    <3>3. Tail(actionCh[s]) = << >>
      BY <3>2, Single
    <3> QED
      BY <1>12, <3>2, <3>3, Taken, ChannelDomains DEF RecvVerdict
  <2>2. CASE Head(actionCh[s]) = "new_job"
    <3>1. pc'[s] = "await_action" /\ statusCh'[s] = <<IdleMsg>>
      BY <1>12, <2>1, <2>2, Sent, ChannelDomains DEF RecvVerdict, TypeOK
    <3> QED
      BY <2>1, <3>1 DEF InProtocol
  <2>3. CASE Head(actionCh[s]) # "new_job"
    <3>1. pc'[s] \in Working \cup {"merge"} /\ statusCh'[s] = << >>
      BY <1>12, <2>1, <2>3 DEF RecvVerdict, EnterLoop, TypeOK
    <3> QED
      BY <2>1, <3>1 DEF InProtocol, Quiet
  <2> QED
    BY <2>2, <2>3
<1>13. ASSUME NEW s \in Slaves, MergeMeasurements(s) PROVE InProtocol(s)'
  <2>1. Quiet(s)
    BY <1>13 DEF MergeMeasurements, Protocol, InProtocol
  <2>2. statusCh'[s] = <<IdleMsg>> /\ pc'[s] = "await_action"
    BY <1>13, <2>1, Sent, ChannelDomains DEF MergeMeasurements, SendStatus, Quiet, TypeOK
  <2> QED
    BY <1>13, <2>1, <2>2 DEF MergeMeasurements, InProtocol, Quiet
<1>14. CASE Finalize \/ Crash \/ UNCHANGED vars
  <2>1. UNCHANGED <<pc, task, statusCh, actionCh, jobCh>>
    BY <1>14 DEF Finalize, Crash, vars, slaveVars, netVars
  <2> QED
    BY <2>1 DEF Protocol, InProtocol, Quiet
<1>15. CASE Relaunch
  BY <1>15 DEF Relaunch, RanksStart, Protocol, InProtocol, Quiet
<1>16. ASSUME NEW s \in Slaves, MasterStep(s) PROVE Protocol'
  BY <1>1, <1>2, <1>3, <1>4, <1>5, <1>16 DEF MasterStep
<1>17. ASSUME NEW s \in Slaves, SlaveStep(s) PROVE Protocol'
  BY <1>1, <1>6, <1>7, <1>8, <1>9, <1>10, <1>11, <1>12, <1>13, <1>17 DEF SlaveStep
<1> QED
  BY <1>14, <1>15, <1>16, <1>17 DEF Next, Stopped

\* A slave and the master never have more than one question or answer between
\* them: each MPI_Recv finds the message it was written for (runner.cpp:81-136,
\* 236-263).
THEOREM ProtocolHolds == Spec => []Protocol
<1>1. Init => TypeOK /\ Protocol
  BY TypeInit, ProtocolInit
<1>2. TypeOK /\ Protocol /\ [Next]_vars => (TypeOK /\ Protocol)'
  BY TypeStep, ProtocolStep
<1> QED
  BY <1>1, <1>2, PTL DEF Spec

-----------------------------------------------------------------------------
(* Who owns which run: no run is ever owned twice, scheduled_runs counts   *)
(* the owners, and a merge has its task to itself.                         *)

\* What any step of the scheduler does to the leases.
Granted(s, t) ==
  /\ t \in Tasks \ DoneTasks
  /\ LeaseOf(s) = NoLease /\ LeaseOf(s)' = <<t, scheduled[t] + 1>>
  /\ \A q \in Slaves \ {s} : LeaseOf(q)' = LeaseOf(q)
  /\ scheduled' = [scheduled EXCEPT ![t] = @ + 1]
  /\ DoneTasks' = DoneTasks
  /\ Mergers' = Mergers /\ \A q \in Mergers : task'[q] = task[q]

Freed(s, t) ==
  /\ t \in Tasks /\ LeaseOf(s)[1] = t /\ LeaseOf(s)' = NoLease
  /\ \A q \in Slaves \ {s} : LeaseOf(q)' = LeaseOf(q)
  /\ scheduled' = [scheduled EXCEPT ![t] = @ - 1]
  /\ DoneTasks' = DoneTasks \cup {t}
  /\ Mergers' = IF scheduled[t] > 1 THEN Mergers ELSE Mergers \cup {s}
  /\ s \notin Mergers /\ task[s] = t /\ task' = task

Restarted ==
  /\ \A s \in Slaves : LeaseOf(s)' = NoLease
  /\ scheduled' = [t \in Tasks |-> 0]
  /\ Mergers' = {}
  /\ launches \in Int /\ launches' = launches + 1

Kept ==
  /\ \A s \in Slaves : LeaseOf(s)' = LeaseOf(s)
  /\ scheduled' = scheduled /\ DoneTasks' = DoneTasks
  /\ \/ Mergers' = Mergers
     \/ \E s \in Mergers : Mergers' = Mergers \ {s}
  /\ \A q \in Mergers : task'[q] = task[q]

LeaseStep ==
  \/ /\ launches' = launches
     /\ Kept \/ \E s \in Slaves, t \in Tasks : Granted(s, t) \/ Freed(s, t)
  \/ Restarted

Merging(s) == \/ pc[s] = "merge"
              \/ pc[s] = "verdict" /\ actionCh[s] = <<"process">>

\* Nothing that a lease or a merger depends on changes for the other slaves.
LEMMA LeaseFrame ==
  ASSUME TypeOK, NEW s \in Slaves, MasterStep(s) \/ SlaveStep(s)
  PROVE  /\ \A q \in Slaves \ {s} :
              LeaseOf(q)' = LeaseOf(q) /\ task'[q] = task[q]
         /\ Merging(s)' = Merging(s) => Mergers' = Mergers
         /\ ~Merging(s) /\ Merging(s)' => Mergers' = Mergers \cup {s}
         /\ Merging(s) /\ ~Merging(s)' => Mergers' = Mergers \ {s}
<1>1. ASSUME NEW q \in Slaves \ {s}
      PROVE  LeaseOf(q)' = LeaseOf(q) /\ task'[q] = task[q] /\ Merging(q)' = Merging(q)
  BY <1>1, Frame DEF LeaseOf, Merging
<1>2. Mergers = {q \in Slaves : Merging(q)} /\ Mergers' = {q \in Slaves : Merging(q)'}
  BY DEF Mergers, Merging
<1> HIDE DEF Merging
<1>3. Merging(s) \in BOOLEAN /\ Merging(s)' \in BOOLEAN
  BY DEF Merging
<1> QED
  BY <1>1, <1>2, <1>3

\* A step that keeps the lease and the merging of its slave keeps everyone's.
LEMMA KeptStep ==
  ASSUME TypeOK, NEW s \in Slaves, MasterStep(s) \/ SlaveStep(s),
         LeaseOf(s)' = LeaseOf(s),
         Merging(s)' => Merging(s), Merging(s) => task'[s] = task[s],
         scheduled' = scheduled, DoneTasks' = DoneTasks
  PROVE  Kept
<1>1. \A q \in Slaves : LeaseOf(q)' = LeaseOf(q)
  BY LeaseFrame
<1>2. s \in Mergers <=> Merging(s)
  BY DEF Mergers, Merging
<1>3. \A q \in Mergers : task'[q] = task[q]
  BY <1>2, LeaseFrame DEF Mergers
<1>4. Merging(s) \in BOOLEAN /\ Merging(s)' \in BOOLEAN
  BY DEF Merging
<1> HIDE DEF Merging
<1>5. Mergers' = Mergers \/ \E q \in Mergers : Mergers' = Mergers \ {q}
  BY <1>2, <1>4, LeaseFrame
<1> QED
  BY <1>1, <1>3, <1>5 DEF Kept

LEMMA SameProgress == ASSUME sweeps' = sweeps PROVE DoneTasks' = DoneTasks
BY DEF DoneTasks

\* The lease of a slave, by its place.
LEMMA LeaseByPlace ==
  ASSUME NEW s \in Slaves, TypeOK, Protocol
  PROVE  /\ pc[s] \in Working \cup {"left"} => LeaseOf(s) = <<task[s], run[s]>>
         /\ pc[s] \in {"start", "merge", "exited"} => LeaseOf(s) = NoLease
         /\ pc[s] \in {"await_action", "await_job"} /\ jobCh[s] = << >>
               => LeaseOf(s) = NoLease
         /\ pc[s] = "verdict" /\ actionCh[s] \in {<< >>, <<"continue">>}
               => LeaseOf(s) = <<task[s], run[s]>>
         /\ pc[s] = "verdict" /\ actionCh[s] \in {<<"new_job">>, <<"process">>}
               => LeaseOf(s) = NoLease
         /\ jobCh[s] # << >> => LeaseOf(s) = <<Head(jobCh[s]).task, Head(jobCh[s]).run>>
<1>1. InProtocol(s)
  BY DEF Protocol
<1>2. /\ <<"new_job">> \notin {<< >>, <<"continue">>}
      /\ <<"process">> \notin {<< >>, <<"continue">>}
  OBVIOUS
<1> QED
  BY <1>1, <1>2 DEF LeaseOf, InProtocol, Quiet, Working

\* The master's steps.
LEMMA AssignGrants ==
  ASSUME TypeOK, Protocol, NEW s \in Slaves, Assign(s)
  PROVE  \E t \in Tasks : Granted(s, t)
<1> DEFINE t == GetNewTaskId(current, NTasks, DoneTasks)
           j == JobMsg(t, scheduled'[t], SweepsUntilComm(t))
<1>1. Receives(s, "idle") /\ t # NoTask /\ UNCHANGED <<pc, task, run, sweeps>>
      /\ scheduled' = [scheduled EXCEPT ![t] = @ + 1]
      /\ jobCh' = Push(jobCh, s, j)
  BY DEF Assign, slaveVars
<1>2. t \in Tasks \ DoneTasks
  BY <1>1, NextTaskCorrect
<1>3. pc[s] = "await_action" /\ jobCh[s] = << >>
  BY <1>1, Sender
<1>4. jobCh'[s] = <<j>>
  BY <1>1, <1>3, Sent, ChannelDomains
<1>5. scheduled'[t] = scheduled[t] + 1
  BY <1>1, <1>2 DEF TypeOK
<1>6. j.task = t /\ j.run = scheduled[t] + 1
  BY <1>5 DEF JobMsg
<1> HIDE DEF t, j
<1>7. LeaseOf(s) = NoLease
  BY <1>3, LeaseByPlace
<1>8. LeaseOf(s)' = <<t, scheduled[t] + 1>>
  BY <1>4, <1>6, Single DEF LeaseOf
<1>9. Mergers' = Mergers
  BY <1>1, <1>3, LeaseFrame DEF Merging, MasterStep
<1>10. Granted(s, t)
  BY <1>1, <1>2, <1>7, <1>8, <1>9, SameProgress, LeaseFrame DEF Granted, MasterStep
<1> QED
  BY <1>2, <1>10

LEMMA ReportFrees ==
  ASSUME TypeOK, Protocol, NEW s \in Slaves, ReactBusy(s)
  PROVE  Freed(s, task[s]) \/ Kept
<1> DEFINE m    == Head(statusCh[s])
           t    == task[s]
           n    == sweeps[t] + m.sweeps
           done == IsDone(Target[t], n)
<1>1. Receives(s, "busy") /\ UNCHANGED <<pc, task, run, jobCh>>
  BY DEF ReactBusy, slaveVars
<1>2. pc[s] = "verdict" /\ t \in Tasks /\ m.task = t /\ actionCh[s] = << >>
  BY <1>1, Sender
<1>3. /\ sweeps' = [sweeps EXCEPT ![t] = n]
      /\ scheduled' = [scheduled EXCEPT ![t] = Released(@, done)]
      /\ actionCh' = Push(actionCh, s, Verdict(done, scheduled'[t]))
  BY <1>2 DEF ReactBusy
<1>4. m.sweeps \in Nat /\ n \in Nat /\ sweeps[t] <= n
  <2>1. m \in StatusMsgs /\ m.type = "busy"
    BY <1>1, MessageTypes DEF Receives
  <2>2. m.sweeps \in Nat
    BY <2>1 DEF StatusMsgs
  <2>3. sweeps[t] \in Nat
    BY <1>2 DEF TypeOK
  <2> HIDE DEF m, t
  <2> QED
    BY <2>2, <2>3
<1>5. LeaseOf(s) = <<t, run[s]>> /\ ~Merging(s)
  <2>1. <<"process">> # << >>
    OBVIOUS
  <2> QED
    BY <1>2, <2>1, LeaseByPlace DEF Merging
<1>6. actionCh'[s] = <<Verdict(done, scheduled'[t])>>
  BY <1>2, <1>3, Sent, ChannelDomains
<1>7. DoneTasks' = IF done THEN DoneTasks \cup {t} ELSE DoneTasks
  <2>1. Target[t] \in Nat /\ sweeps[t] \in Nat
    BY <1>2, TasksAssumption DEF TypeOK
  <2>2. sweeps'[t] = n /\ \A u \in Tasks \ {t} : sweeps'[u] = sweeps[u]
    BY <1>2, <1>3 DEF TypeOK
  <2>3. t \in DoneTasks => done
    BY <1>4, <2>1 DEF DoneTasks, IsDone
  <2>4. \A u \in Tasks : u \in DoneTasks' <=> IF u = t THEN done ELSE u \in DoneTasks
    BY <2>2 DEF DoneTasks
  <2>5. DoneTasks \subseteq Tasks /\ DoneTasks' \subseteq Tasks
    BY DEF DoneTasks
  <2> QED
    BY <1>2, <2>3, <2>4, <2>5
<1>8. scheduled[t] \in Int
  BY <1>2 DEF TypeOK
<1> HIDE DEF m, n
<1>9. CASE done
  <2>1. scheduled' = [scheduled EXCEPT ![t] = @ - 1] /\ scheduled'[t] = scheduled[t] - 1
    BY <1>2, <1>3, <1>9 DEF Released, TypeOK
  <2>2. actionCh'[s] = IF scheduled[t] > 1 THEN <<"new_job">> ELSE <<"process">>
    BY <1>6, <1>8, <1>9, <2>1 DEF Verdict
  <2>3. LeaseOf(s)' = NoLease
    <3>1. pc'[s] = "verdict" /\ jobCh'[s] = << >>
      BY <1>1, <1>2, Sender
    <3>2. actionCh'[s] \notin {<< >>, <<"continue">>}
      BY <2>2
    <3> QED
      BY <3>1, <3>2 DEF LeaseOf, Working
  <2>4. Merging(s)' <=> ~(scheduled[t] > 1)
    BY <1>1, <1>2, <2>2 DEF Merging
  <2>5. Merging(s)' \in BOOLEAN /\ Merging(s) \in BOOLEAN
    BY DEF Merging
  <2>6. Mergers' = IF scheduled[t] > 1 THEN Mergers ELSE Mergers \cup {s}
    BY <1>5, <2>4, <2>5, LeaseFrame DEF MasterStep
  <2>7. s \notin Mergers
    BY <1>5 DEF Mergers, Merging
  <2>8. LeaseOf(s)[1] = t
    BY <1>5
  <2> QED
    BY <1>1, <1>2, <1>7, <1>9, <2>1, <2>3, <2>6, <2>7, <2>8, LeaseFrame
    DEF Freed, MasterStep
<1>10. CASE ~done
  <2>1. scheduled' = scheduled
    BY <1>2, <1>3, <1>10 DEF Released, TypeOK
  <2>2. actionCh'[s] = <<"continue">>
    BY <1>6, <1>10 DEF Verdict
  <2>3. LeaseOf(s)' = LeaseOf(s)
    <3>1. pc'[s] = "verdict" /\ jobCh'[s] = << >>
      BY <1>1, <1>2, Sender
    <3> QED
      BY <1>1, <1>5, <2>2, <3>1 DEF LeaseOf
  <2>4. ~Merging(s)'
    BY <1>1, <1>2, <2>2 DEF Merging
  <2> QED
    BY <1>1, <1>7, <1>10, <2>1, <2>3, <2>4, KeptStep DEF MasterStep
<1> QED
  BY <1>9, <1>10

\* A slave's steps and the master's that are no decision about a run.
LEMMA OthersKeep ==
  ASSUME TypeOK, Protocol, NEW s \in Slaves,
         Dismiss(s) \/ ReactTimeUp(s) \/ SlaveStep(s)
  PROVE  Kept
<1>0. InProtocol(s) /\ <<"process">> # << >> /\ <<"process">> # <<"continue">>
  BY DEF Protocol
<1> USE DEF slaveVars, masterVars, netVars
<1>1. CASE Dismiss(s)
  <2>1. pc[s] = "await_action" /\ jobCh[s] = << >> /\ UNCHANGED <<pc, task, run, jobCh>>
    BY <1>1, Sender DEF Dismiss
  <2>2. LeaseOf(s)' = LeaseOf(s) /\ ~Merging(s)'
    BY <2>1 DEF LeaseOf, Merging, Working
  <2> QED
    BY <1>1, <2>1, <2>2, KeptStep, SameProgress DEF Dismiss, MasterStep
<1>2. CASE ReactTimeUp(s)
  <2>1. UNCHANGED <<pc, task, run, jobCh, actionCh>>
    BY <1>2 DEF ReactTimeUp
  <2>2. LeaseOf(s)' = LeaseOf(s) /\ Merging(s)' = Merging(s)
    BY <2>1 DEF LeaseOf, Merging
  <2> QED
    BY <1>2, <2>1, <2>2, KeptStep, SameProgress DEF ReactTimeUp, MasterStep
<1>3. CASE SlaveStep(s)
  <2>1. scheduled' = scheduled /\ sweeps' = sweeps
    BY <1>3 DEF SlaveStep, SendIdle, RecvAction, RecvJob, LoadRead, LoadInit, Sweep,
                Checkpoint, ReportBusy, ReportTimeUp, RecvVerdict, MergeMeasurements
  <2>2. ASSUME LeaseOf(s)' = LeaseOf(s), Merging(s)' => Merging(s),
               Merging(s) => task'[s] = task[s]
        PROVE  Kept
    BY <1>3, <2>1, <2>2, KeptStep, SameProgress
  <2>3. CASE SendIdle(s) \/ MergeMeasurements(s)
    <3>1. /\ pc[s] \in {"start", "merge"} /\ pc'[s] = "await_action"
          /\ jobCh'[s] = << >> /\ task' = task
      BY <1>0, <2>3 DEF SendIdle, MergeMeasurements, InProtocol, Quiet, TypeOK
    <3>2. LeaseOf(s)' = NoLease /\ ~Merging(s)'
      BY <3>1 DEF LeaseOf, Merging, Working
    <3>3. LeaseOf(s) = NoLease
      BY <3>1, LeaseByPlace
    <3> QED
      BY <2>2, <3>1, <3>2, <3>3
  <2>4. CASE RecvAction(s)
    <3>1. /\ pc[s] = "await_action" /\ pc'[s] \in {"exited", "await_job"}
          /\ jobCh' = jobCh /\ task' = task
      BY <2>4 DEF RecvAction, TypeOK
    <3>2. LeaseOf(s)' = LeaseOf(s) /\ ~Merging(s)'
      BY <3>1 DEF LeaseOf, Merging, Working
    <3> QED
      BY <2>2, <3>1, <3>2
  <2>5. CASE RecvJob(s)
    <3>1. /\ pc[s] = "await_job" /\ pc'[s] = "load" /\ jobCh[s] # << >>
          /\ task'[s] = Head(jobCh[s]).task /\ run'[s] = Head(jobCh[s]).run
          /\ jobCh' = Pop(jobCh, s)
      BY <2>5 DEF RecvJob, TypeOK
    <3>2. jobCh'[s] = << >>
      BY <1>0, <3>1, Taken, ChannelDomains DEF InProtocol
    <3>3. LeaseOf(s)' = LeaseOf(s) /\ ~Merging(s) /\ ~Merging(s)'
      BY <3>1, <3>2 DEF LeaseOf, Merging, Working
    <3> QED
      BY <2>2, <3>3
  <2>6. CASE LoadRead(s) \/ LoadInit(s) \/ Sweep(s) \/ Checkpoint(s) \/ ReportTimeUp(s)
    <3>1. /\ pc[s] \in Working /\ pc'[s] \in Working \cup {"left"}
          /\ UNCHANGED <<task, run, jobCh, actionCh>>
      BY <2>6 DEF LoadRead, LoadInit, Sweep, Checkpoint, ReportTimeUp, EnterLoop,
                  Working, TypeOK
    <3>2. LeaseOf(s)' = LeaseOf(s) /\ ~Merging(s)'
      BY <3>1 DEF LeaseOf, Merging, Working
    <3> QED
      BY <2>2, <3>1, <3>2
  <2>7. CASE ReportBusy(s)
    <3>1. /\ pc[s] \in Working /\ pc'[s] = "verdict" /\ actionCh[s] = << >>
          /\ UNCHANGED <<task, run, jobCh, actionCh>>
      BY <1>0, <2>7 DEF ReportBusy, Working, TypeOK, InProtocol, Quiet
    <3>2. LeaseOf(s)' = LeaseOf(s) /\ ~Merging(s)'
      BY <1>0, <3>1 DEF LeaseOf, Merging
    <3> QED
      BY <2>2, <3>1, <3>2
  <2>8. CASE RecvVerdict(s)
    <3>1. /\ pc[s] = "verdict" /\ jobCh[s] = << >> /\ jobCh' = jobCh
          /\ UNCHANGED <<task, run>>
          /\ actionCh[s] \in {<<"continue">>, <<"new_job">>, <<"process">>}
      BY <1>0, <2>8 DEF RecvVerdict, InProtocol
    <3>2. pc'[s] = IF Head(actionCh[s]) = "new_job" THEN "await_action"
                   ELSE IF Head(actionCh[s]) = "process" THEN "merge"
                   ELSE EnterLoop(since[s], before[s])
      BY <2>8 DEF RecvVerdict, TypeOK
    <3>3. CASE actionCh[s] = <<"continue">>
      <4>1. pc'[s] \in Working
        BY <3>2, <3>3, Single DEF EnterLoop, Working
      <4>2. LeaseOf(s)' = LeaseOf(s) /\ ~Merging(s)'
        BY <3>1, <3>3, <4>1 DEF LeaseOf, Merging, Working
      <4> QED
        BY <2>2, <3>1, <4>2
    <3>4. CASE actionCh[s] = <<"new_job">>
      <4>1. pc'[s] = "await_action"
        BY <3>2, <3>4, Single
      <4>2. LeaseOf(s)' = NoLease /\ LeaseOf(s) = NoLease /\ ~Merging(s)'
        BY <3>1, <3>4, <4>1, LeaseByPlace DEF LeaseOf, Merging, Working
      <4> QED
        BY <2>2, <3>1, <4>2
    <3>5. CASE actionCh[s] = <<"process">>
      <4>1. pc'[s] = "merge"
        BY <3>2, <3>5, Single
      <4>2. LeaseOf(s)' = NoLease /\ LeaseOf(s) = NoLease /\ Merging(s)
        BY <3>1, <3>5, <4>1, LeaseByPlace DEF LeaseOf, Merging, Working
      <4> QED
        BY <2>2, <3>1, <4>2
    <3> QED
      BY <3>1, <3>3, <3>4, <3>5
  <2> QED
    BY <1>3, <2>3, <2>4, <2>5, <2>6, <2>7, <2>8 DEF SlaveStep
<1> QED
  BY <1>1, <1>2, <1>3

\* Every step grants a lease, frees one, starts afresh or leaves them alone.
LEMMA LeaseStepHolds == TypeOK /\ Protocol /\ [Next]_vars => LeaseStep
<1> SUFFICES ASSUME TypeOK, Protocol, [Next]_vars PROVE LeaseStep
  OBVIOUS
<1>1. ASSUME NEW s \in Slaves, Assign(s) PROVE LeaseStep
  <2>1. launches' = launches
    BY <1>1 DEF Assign, launchVars
  <2> QED
    BY <1>1, <2>1, AssignGrants DEF LeaseStep
<1>2. ASSUME NEW s \in Slaves, ReactBusy(s) PROVE LeaseStep
  <2>1. Receives(s, "busy")
    BY <1>2 DEF ReactBusy
  <2>2. task[s] \in Tasks
    BY <2>1, Sender
  <2>3. launches' = launches
    BY <1>2 DEF ReactBusy, launchVars
  <2> QED
    BY <1>2, <2>2, <2>3, ReportFrees DEF LeaseStep
<1>3. ASSUME NEW s \in Slaves, Dismiss(s) \/ ReactTimeUp(s) \/ SlaveStep(s)
      PROVE  LeaseStep
  <2>1. launches' = launches
    BY <1>3 DEF Dismiss, ReactTimeUp, SlaveStep, SendIdle, RecvAction, RecvJob,
                LoadRead, LoadInit, Sweep, Checkpoint, ReportBusy, ReportTimeUp,
                RecvVerdict, MergeMeasurements, launchVars
  <2> QED
    BY <1>3, <2>1, OthersKeep DEF LeaseStep
<1>4. CASE Finalize \/ Crash \/ UNCHANGED vars
  <2>1. UNCHANGED <<launches, pc, task, run, jobCh, actionCh, scheduled, sweeps>>
    BY <1>4 DEF Finalize, Crash, vars, launchVars, slaveVars, netVars, masterVars
  <2> QED
    BY <2>1, SameProgress DEF LeaseStep, Kept, LeaseOf, Mergers
<1>5. CASE Relaunch
  <2>1. /\ scheduled' = [t \in Tasks |-> 0]
        /\ pc' = [s \in Slaves |-> "start"] /\ jobCh' = [s \in Slaves |-> << >>]
        /\ launches \in Int /\ launches' = launches + 1
    BY <1>5, LaunchAssumption DEF Relaunch, RanksStart, TypeOK
  <2> QED
    BY <2>1 DEF LeaseStep, Restarted, LeaseOf, Mergers, Working
<1> QED
  BY <1>1, <1>2, <1>3, <1>4, <1>5 DEF Next, MasterStep, Stopped

-----------------------------------------------------------------------------
(* The invariant of the leases.                                            *)

LEMMA HoldersFinite ==
  ASSUME NEW t
  PROVE  IsFiniteSet(Holders(t)) /\ Cardinality(Holders(t)) \in Nat
<1>1. Holders(t) \in SUBSET Slaves
  BY DEF Holders
<1> QED
  BY <1>1, SlavesAssumption, FS_Subset, FS_CardinalityType

LEMMA LeaseType ==
  ASSUME TypeOK, NEW s \in Slaves, LeaseOf(s) # NoLease
  PROVE  \E t \in Tasks, r \in Int : LeaseOf(s) = <<t, r>>
<1>1. CASE jobCh[s] # << >>
  <2>1. Head(jobCh[s]).task \in Tasks /\ Head(jobCh[s]).run \in Int
    BY <1>1, MessageTypes DEF JobMsgs
  <2> QED
    BY <1>1, <2>1 DEF LeaseOf
<1>2. CASE jobCh[s] = << >>
  <2>1. pc[s] \in Owning
    BY <1>2 DEF LeaseOf, Owning
  <2>2. task[s] \in Tasks /\ run[s] \in Int
    BY <2>1 DEF TypeOK
  <2> QED
    BY <1>2, <2>2 DEF LeaseOf
<1> QED
  BY <1>1, <1>2

LEMMA LeaseInit == Init => LeaseInv
<1> SUFFICES ASSUME Init PROVE LeaseInv
  OBVIOUS
<1>1. \A s \in Slaves : LeaseOf(s) = NoLease
  BY DEF Init, LeaseOf, Working
<1>2. Mergers = {}
  BY DEF Init, Mergers
<1>3. \A t \in Tasks : Holders(t) = {} /\ scheduled[t] = 0
  BY <1>1 DEF Init, Holders, NoLease, NoTask, Tasks
<1> QED
  BY <1>1, <1>2, <1>3, FS_EmptySet
  DEF LeaseInv, NoSharedRun, RunsNumbered, HoldersCounted, MergersAlone

LEMMA GrantKeeps ==
  ASSUME TypeOK, LeaseInv, NEW s \in Slaves, NEW t \in Tasks, Granted(s, t)
  PROVE  LeaseInv'
<1> USE DEF LeaseInv
<1>1. /\ t \notin DoneTasks /\ LeaseOf(s) = NoLease
      /\ LeaseOf(s)' = <<t, scheduled[t] + 1>>
      /\ \A q \in Slaves \ {s} : LeaseOf(q)' = LeaseOf(q)
      /\ scheduled' = [scheduled EXCEPT ![t] = @ + 1]
      /\ DoneTasks' = DoneTasks
      /\ Mergers' = Mergers /\ \A q \in Mergers : task'[q] = task[q]
  BY DEF Granted
<1>2. Cardinality(Holders(t)) = scheduled[t] /\ scheduled[t] \in Nat
  BY HoldersFinite DEF HoldersCounted
<1>3. /\ scheduled'[t] = scheduled[t] + 1
      /\ \A u \in Tasks \ {t} : scheduled'[u] = scheduled[u]
  BY <1>1 DEF TypeOK
<1>4. s \notin Holders(t) /\ Holders(t)' = Holders(t) \cup {s}
      /\ \A u \in Tasks \ {t} : Holders(u)' = Holders(u)
  <2>1. LeaseOf(s)[1] \notin Tasks
    BY <1>1 DEF NoLease, NoTask, Tasks
  <2>2. LeaseOf(s)'[1] = t
    BY <1>1
  <2>3. Holders(t) = {q \in Slaves : LeaseOf(q)[1] = t}
        /\ Holders(t)' = {q \in Slaves : LeaseOf(q)'[1] = t}
    BY DEF Holders
  <2>4. ASSUME NEW u \in Tasks \ {t} PROVE Holders(u)' = Holders(u)
    <3>1. Holders(u) = {q \in Slaves : LeaseOf(q)[1] = u}
          /\ Holders(u)' = {q \in Slaves : LeaseOf(q)'[1] = u}
      BY DEF Holders
    <3> QED
      BY <1>1, <2>1, <2>2, <3>1
  <2> QED
    BY <1>1, <2>1, <2>2, <2>3, <2>4
<1>5. NoSharedRun'
  <2>1. ASSUME NEW q \in Slaves \ {s} PROVE LeaseOf(q) # <<t, scheduled[t] + 1>>
    <3>1. SUFFICES ASSUME LeaseOf(q) = <<t, scheduled[t] + 1>> PROVE FALSE
      OBVIOUS
    <3>2. LeaseOf(q) # NoLease
      BY <3>1 DEF NoLease, NoTask, Tasks
    <3>3. scheduled[t] + 1 <= scheduled[t]
      BY <1>1, <3>1, <3>2 DEF RunsNumbered
    <3> QED
      BY <1>2, <3>3
  <2>2. ASSUME NEW p \in Slaves, NEW q \in Slaves, p # q, LeaseOf(p)' # NoLease
        PROVE  LeaseOf(p)' # LeaseOf(q)'
    BY <1>1, <2>1, <2>2 DEF NoSharedRun
  <2>3. NoLease' = NoLease
    BY DEF NoLease
  <2> QED
    BY <2>2, <2>3 DEF NoSharedRun
<1>6. RunsNumbered'
  <2>1. ASSUME NEW q \in Slaves, LeaseOf(q)' # NoLease
        PROVE  /\ LeaseOf(q)'[2] >= 1
               /\ LeaseOf(q)'[1] \notin DoneTasks
                    => LeaseOf(q)'[2] <= scheduled'[LeaseOf(q)'[1]]
    <3>1. CASE q = s
      BY <1>1, <1>2, <1>3, <3>1
    <3>2. CASE q # s
      <4>1. LeaseOf(q)' = LeaseOf(q) /\ LeaseOf(q) # NoLease
        BY <1>1, <2>1, <3>2
      <4>2. /\ LeaseOf(q)[2] >= 1
            /\ LeaseOf(q)[1] \notin DoneTasks
                 => LeaseOf(q)[2] <= scheduled[LeaseOf(q)[1]]
        BY <4>1 DEF RunsNumbered
      <4>3. LeaseOf(q)[1] \in Tasks /\ LeaseOf(q)[2] \in Int
        BY <4>1, LeaseType
      <4> QED
        BY <1>2, <1>3, <4>1, <4>2, <4>3
    <3> QED
      BY <3>1, <3>2
  <2> QED
    BY <1>1, <2>1 DEF RunsNumbered
<1>7. HoldersCounted'
  <2>1. Cardinality(Holders(t) \cup {s}) = Cardinality(Holders(t)) + 1
    BY <1>4, HoldersFinite, FS_AddElement
  <2> QED
    BY <1>2, <1>3, <1>4, <2>1 DEF HoldersCounted
<1>8. MergersAlone'
  <2>1. \A q \in Mergers : /\ task[q] \in DoneTasks /\ Holders(task[q]) = {}
                            /\ \A p \in Mergers \ {q} : task[p] # task[q]
    BY DEF MergersAlone
  <2>2. \A q \in Mergers : task[q] \in Tasks \ {t}
    BY <1>1, <2>1 DEF DoneTasks
  <2>3. \A q \in Mergers : Holders(task[q])' = Holders(task[q])
    <3>1. ASSUME NEW q \in Mergers PROVE Holders(task[q])' = Holders(task[q])
      <4>1. task'[q] = task[q] /\ task[q] \in Tasks \ {t}
        BY <1>1, <2>2
      <4>2. Holders(task[q])' = {p \in Slaves : LeaseOf(p)'[1] = task'[q]}
        BY DEF Holders
      <4>3. LeaseOf(s)'[1] # task[q] /\ LeaseOf(s)[1] # task[q]
        BY <1>1, <4>1 DEF NoLease, NoTask, Tasks
      <4> QED
        BY <1>1, <4>1, <4>2, <4>3 DEF Holders
    <3> QED
      BY <3>1
  <2> QED
    BY <1>1, <2>1, <2>3 DEF MergersAlone
<1> QED
  BY <1>5, <1>6, <1>7, <1>8

LEMMA FreeKeeps ==
  ASSUME TypeOK, TypeOK', LeaseInv, NEW s \in Slaves, NEW t \in Tasks, Freed(s, t)
  PROVE  LeaseInv'
<1> USE DEF LeaseInv
<1>1. /\ LeaseOf(s)[1] = t /\ LeaseOf(s)' = NoLease
      /\ \A q \in Slaves \ {s} : LeaseOf(q)' = LeaseOf(q)
      /\ scheduled' = [scheduled EXCEPT ![t] = @ - 1]
      /\ DoneTasks' = DoneTasks \cup {t}
      /\ Mergers' = IF scheduled[t] > 1 THEN Mergers ELSE Mergers \cup {s}
      /\ s \notin Mergers /\ task[s] = t /\ task' = task
  BY DEF Freed
<1>2. Cardinality(Holders(t)) = scheduled[t] /\ scheduled[t] \in Nat
  BY HoldersFinite DEF HoldersCounted
<1>3. /\ scheduled'[t] = scheduled[t] - 1
      /\ \A u \in Tasks \ {t} : scheduled'[u] = scheduled[u]
  BY <1>1 DEF TypeOK
<1>4. \A q \in Slaves : LeaseOf(q)' # NoLease => q # s /\ LeaseOf(q)' = LeaseOf(q)
  BY <1>1 DEF NoLease
<1>5. s \in Holders(t) /\ Holders(t)' = Holders(t) \ {s}
      /\ \A u \in Tasks \ {t} : Holders(u)' = Holders(u)
  <2>1. LeaseOf(s)'[1] \notin Tasks
    BY <1>1 DEF NoLease, NoTask, Tasks
  <2>2. ASSUME NEW u \in Tasks
        PROVE  /\ Holders(u) = {q \in Slaves : LeaseOf(q)[1] = u}
               /\ Holders(u)' = {q \in Slaves : LeaseOf(q)'[1] = u}
    BY DEF Holders
  <2>3. s \in Holders(t) /\ Holders(t)' = Holders(t) \ {s}
    BY <1>1, <2>1, <2>2
  <2>4. ASSUME NEW u \in Tasks \ {t} PROVE Holders(u)' = Holders(u)
    <3>1. \A q \in Slaves : LeaseOf(q)'[1] = u <=> LeaseOf(q)[1] = u
      BY <1>1, <2>1
    <3> QED
      BY <2>2, <3>1
  <2> QED
    BY <2>3, <2>4
<1>6. NoSharedRun'
  <2>1. \A p, q \in Slaves : p # q /\ LeaseOf(p)' # NoLease
           => LeaseOf(p)' # LeaseOf(q)'
    BY <1>1, <1>4 DEF NoSharedRun
  <2>2. NoLease' = NoLease
    BY DEF NoLease
  <2> QED
    BY <2>1, <2>2 DEF NoSharedRun
<1>7. RunsNumbered'
  <2>1. ASSUME NEW q \in Slaves, LeaseOf(q)' # NoLease
        PROVE  /\ LeaseOf(q)'[2] >= 1
               /\ LeaseOf(q)'[1] \notin DoneTasks'
                    => LeaseOf(q)'[2] <= scheduled'[LeaseOf(q)'[1]]
    <3>1. LeaseOf(q)' = LeaseOf(q) /\ LeaseOf(q) # NoLease
      BY <1>4, <2>1
    <3>2. /\ LeaseOf(q)[2] >= 1
          /\ LeaseOf(q)[1] \notin DoneTasks
               => LeaseOf(q)[2] <= scheduled[LeaseOf(q)[1]]
      BY <3>1 DEF RunsNumbered
    <3>3. LeaseOf(q)[1] \in Tasks
      BY <3>1, LeaseType
    <3>4. LeaseOf(q)[1] \notin DoneTasks' =>
            scheduled'[LeaseOf(q)[1]] = scheduled[LeaseOf(q)[1]]
      BY <1>1, <1>3, <3>3
    <3> QED
      BY <1>1, <3>1, <3>2, <3>4
  <2>2. NoLease' = NoLease
    BY DEF NoLease
  <2> QED
    BY <2>1, <2>2 DEF RunsNumbered
<1>8. HoldersCounted'
  <2>1. Cardinality(Holders(t) \ {s}) = Cardinality(Holders(t)) - 1
    BY <1>5, HoldersFinite, FS_RemoveElement
  <2> QED
    BY <1>2, <1>3, <1>5, <2>1 DEF HoldersCounted
<1>9. MergersAlone'
  <2>1. \A q \in Mergers : /\ task[q] \in DoneTasks /\ Holders(task[q]) = {}
                            /\ \A p \in Mergers \ {q} : task[p] # task[q]
    BY DEF MergersAlone
  <2>2. \A q \in Mergers : task[q] \in Tasks \ {t}
    BY <1>5, <2>1 DEF DoneTasks
  <2>3. ASSUME NEW q \in Mergers PROVE Holders(task[q])' = {}
    <3>1. Holders(task[q])' = {p \in Slaves : LeaseOf(p)'[1] = task[q]}
      BY <1>1 DEF Holders
    <3>2. LeaseOf(s)'[1] # task[q]
      BY <1>1, <2>2 DEF NoLease, NoTask, Tasks
    <3> QED
      BY <1>1, <2>1, <3>1, <3>2 DEF Holders
  <2>4. CASE scheduled[t] > 1
    BY <1>1, <2>1, <2>3, <2>4 DEF MergersAlone
  <2>5. CASE ~(scheduled[t] > 1)
    <3>1. Cardinality(Holders(t) \ {s}) = Cardinality(Holders(t)) - 1
          /\ IsFiniteSet(Holders(t) \ {s})
      BY <1>5, HoldersFinite, FS_RemoveElement
    <3>2. Cardinality(Holders(t) \ {s}) \in Nat
      BY <3>1, FS_CardinalityType
    <3>3. Cardinality(Holders(t) \ {s}) = 0
      BY <1>2, <2>5, <3>1, <3>2
    <3>4. Holders(t) \ {s} = {}
      BY <3>1, <3>3, FS_EmptySet
    <3>5. Holders(task[s])' = {}
      BY <1>1, <1>5, <3>4 DEF Holders
    <3> QED
      BY <1>1, <2>1, <2>2, <2>3, <2>5, <3>5 DEF MergersAlone
  <2> QED
    BY <2>4, <2>5
<1> QED
  BY <1>6, <1>7, <1>8, <1>9

LEMMA LeaseStepKeeps == TypeOK /\ TypeOK' /\ LeaseInv /\ LeaseStep => LeaseInv'
<1> SUFFICES ASSUME TypeOK, TypeOK', LeaseInv, LeaseStep PROVE LeaseInv'
  OBVIOUS
<1>0. NoLease' = NoLease /\ NoLease[1] \notin Tasks
  BY DEF NoLease, NoTask, Tasks
<1>1. ASSUME NEW s \in Slaves, NEW t \in Tasks, Granted(s, t) \/ Freed(s, t)
      PROVE  LeaseInv'
  BY <1>1, GrantKeeps, FreeKeeps
<1>2. CASE Restarted
  <2>1. \A s \in Slaves : LeaseOf(s)' = NoLease
    BY <1>2 DEF Restarted
  <2>2. \A t \in Tasks : Holders(t)' = {} /\ scheduled'[t] = 0
    BY <1>0, <1>2, <2>1 DEF Restarted, Holders
  <2> QED
    BY <1>0, <1>2, <2>1, <2>2, FS_EmptySet
    DEF Restarted, LeaseInv, NoSharedRun, RunsNumbered, HoldersCounted, MergersAlone
<1>3. CASE Kept
  <2>1. /\ \A s \in Slaves : LeaseOf(s)' = LeaseOf(s)
        /\ scheduled' = scheduled /\ DoneTasks' = DoneTasks
        /\ Mergers' \subseteq Mergers
        /\ \A q \in Mergers : task'[q] = task[q]
    BY <1>3 DEF Kept
  <2>2. \A t \in Tasks : Holders(t)' = Holders(t)
    BY <2>1 DEF Holders
  <2>3. \A q \in Mergers : Holders(task[q])' = Holders(task[q])
    BY <2>1 DEF Holders
  <2>4. NoSharedRun' /\ RunsNumbered'
    BY <1>0, <2>1 DEF LeaseInv, NoSharedRun, RunsNumbered
  <2>5. HoldersCounted'
    BY <2>1, <2>2 DEF LeaseInv, HoldersCounted
  <2>6. MergersAlone'
    BY <2>1, <2>3 DEF LeaseInv, MergersAlone
  <2> QED
    BY <2>4, <2>5, <2>6 DEF LeaseInv
<1> QED
  BY <1>1, <1>2, <1>3 DEF LeaseStep

LEMMA LeasesHold == Spec => [](TypeOK /\ Protocol /\ LeaseInv)
<1>1. Init => TypeOK /\ Protocol /\ LeaseInv
  BY TypeInit, ProtocolInit, LeaseInit
<1>2. TypeOK /\ Protocol /\ LeaseInv /\ [Next]_vars
        => (TypeOK /\ Protocol /\ LeaseInv)'
  BY TypeStep, ProtocolStep, LeaseStepHolds, LeaseStepKeeps
<1> QED
  BY <1>1, <1>2, PTL DEF Spec

\* No two ranks ever own the same run of a task, however assignments, reports,
\* departures and restarts interleave (runner.cpp:92-99, 110-131).
THEOREM RunsNotShared == Spec => []NoSharedRun
<1>1. TypeOK /\ Protocol /\ LeaseInv => NoSharedRun
  BY DEF LeaseInv
<1> QED
  BY <1>1, LeasesHold, PTL

\* scheduled_runs is the number of ranks that own a run of the task
\* (runner.cpp:92, 113).
THEOREM ScheduledCounts == Spec => []ScheduledExact
<1>1. TypeOK /\ Protocol /\ LeaseInv => ScheduledExact
  BY DEF LeaseInv, HoldersCounted, ScheduledExact
<1> QED
  BY <1>1, LeasesHold, PTL

\* A task is merged by one rank while no other owns or writes a run of it
\* (runner.cpp:111-122, 265-270).
THEOREM MergesAlone == Spec => []MergeExclusive
<1>1. ASSUME TypeOK, Protocol, LeaseInv PROVE MergeExclusive
  <2> SUFFICES ASSUME NEW s \in Slaves, pc[s] = "merge"
               PROVE  /\ Holders(task[s]) = {}
                      /\ \A q \in Slaves \ {s} :
                           pc[q] \in Working \cup {"merge"} => task[q] # task[s]
    BY DEF MergeExclusive
  <2>1. s \in Mergers
    BY DEF Mergers
  <2>2. Holders(task[s]) = {} /\ \A q \in Mergers \ {s} : task[q] # task[s]
    BY <1>1, <2>1 DEF LeaseInv, MergersAlone
  <2>3. ASSUME NEW q \in Slaves \ {s}, pc[q] = "merge" PROVE task[q] # task[s]
    BY <2>2, <2>3 DEF Mergers
  <2>4. ASSUME NEW q \in Slaves, pc[q] \in Working PROVE task[q] # task[s]
    BY <1>1, <2>2, <2>4, LeaseByPlace DEF Holders
  <2> QED
    BY <2>2, <2>3, <2>4
<1>2. TypeOK /\ Protocol /\ LeaseInv => MergeExclusive
  BY <1>1
<1> QED
  BY <1>2, LeasesHold, PTL

-----------------------------------------------------------------------------
(* The scheduler implements RunLeases.                                     *)

\* The abstract state.
LeaseMap == [s \in Slaves |-> LeaseOf(s)]
Merged   == {task[s] : s \in Mergers}

LEMMA LeaseMapStep ==
  /\ \A s \in Slaves : LeaseMap[s] = LeaseOf(s)
  /\ LeaseMap' = [s \in Slaves |-> LeaseOf(s)']
  /\ Leases!NoLease = NoLease
  /\ \A t : Leases!Holders(t) = Holders(t)
BY DEF LeaseMap, Leases!NoLease, NoLease, NoTask, Leases!Holders, Holders

LEMMA GrantImplements ==
  ASSUME TypeOK, LeaseInv, NEW s \in Slaves, NEW t \in Tasks, Granted(s, t),
         launches' = launches
  PROVE  \E r \in 1 .. Cardinality(Slaves) : Leases!Grant(s, t, r)
<1> DEFINE r == scheduled[t] + 1
<1>1. /\ t \notin DoneTasks /\ LeaseOf(s) = NoLease /\ LeaseOf(s)' = <<t, r>>
      /\ \A q \in Slaves \ {s} : LeaseOf(q)' = LeaseOf(q)
      /\ DoneTasks' = DoneTasks
      /\ Mergers' = Mergers /\ \A q \in Mergers : task'[q] = task[q]
  BY DEF Granted
<1>2. Cardinality(Holders(t)) = scheduled[t] /\ scheduled[t] \in Nat
  BY HoldersFinite DEF LeaseInv, HoldersCounted
<1>3. r \in 1 .. Cardinality(Slaves)
  <2>1. Holders(t) \in SUBSET (Slaves \ {s})
    BY <1>1 DEF Holders, NoLease, NoTask, Tasks
  <2>2. /\ IsFiniteSet(Slaves \ {s})
        /\ Cardinality(Slaves \ {s}) = Cardinality(Slaves) - 1
        /\ Cardinality(Slaves) \in Nat
    BY SlavesAssumption, FS_RemoveElement, FS_CardinalityType
  <2>3. Cardinality(Holders(t)) <= Cardinality(Slaves \ {s})
    BY <2>1, <2>2, FS_Subset
  <2> QED
    BY <1>2, <2>2, <2>3
<1>4. \A q \in Slaves : LeaseOf(q) # <<t, r>>
  <2>1. ASSUME NEW q \in Slaves, LeaseOf(q) = <<t, r>> PROVE FALSE
    <3>1. LeaseOf(q) # NoLease
      BY <2>1 DEF NoLease, NoTask, Tasks
    <3>2. r <= scheduled[t]
      BY <1>1, <2>1, <3>1 DEF LeaseInv, RunsNumbered
    <3> QED
      BY <1>2, <3>2
  <2> QED
    BY <2>1
<1> HIDE DEF r
<1>5. LeaseMap' = [LeaseMap EXCEPT ![s] = <<t, r>>]
  BY <1>1, LeaseMapStep DEF LeaseMap
<1>6. Merged' = Merged
  BY <1>1 DEF Merged
<1>7. Leases!Grant(s, t, r)
  BY <1>1, <1>4, <1>5, <1>6, LeaseMapStep DEF Leases!Grant, LeaseMap, Merged
<1> QED
  BY <1>3, <1>7

LEMMA FreeImplements ==
  ASSUME TypeOK, LeaseInv, NEW s \in Slaves, NEW t \in Tasks, Freed(s, t),
         launches' = launches
  PROVE  Leases!Release(s, t)
<1>1. /\ LeaseOf(s)[1] = t /\ LeaseOf(s)' = NoLease
      /\ \A q \in Slaves \ {s} : LeaseOf(q)' = LeaseOf(q)
      /\ DoneTasks' = DoneTasks \cup {t}
      /\ Mergers' = IF scheduled[t] > 1 THEN Mergers ELSE Mergers \cup {s}
      /\ task[s] = t /\ task' = task
  BY DEF Freed
<1>2. s \in Holders(t)
  BY <1>1 DEF Holders
<1>3. Holders(t) = {s} <=> ~(scheduled[t] > 1)
  <2>1. /\ IsFiniteSet(Holders(t) \ {s})
        /\ Cardinality(Holders(t) \ {s}) = Cardinality(Holders(t)) - 1
        /\ Cardinality(Holders(t) \ {s}) \in Nat
    BY <1>2, HoldersFinite, FS_RemoveElement, FS_CardinalityType
  <2>2. Cardinality(Holders(t)) = scheduled[t]
    BY DEF LeaseInv, HoldersCounted
  <2>3. Cardinality(Holders(t) \ {s}) = 0 <=> Holders(t) \ {s} = {}
    BY <2>1, FS_EmptySet
  <2>4. scheduled[t] \in Nat
    BY <2>2, HoldersFinite
  <2>5. Holders(t) \ {s} = {} <=> ~(scheduled[t] > 1)
    BY <2>1, <2>2, <2>3, <2>4
  <2> QED
    BY <1>2, <2>5
<1>4. Merged' = IF Holders(t) = {s} THEN Merged \cup {t} ELSE Merged
  BY <1>1, <1>3 DEF Merged
<1>5. LeaseMap' = [LeaseMap EXCEPT ![s] = NoLease]
  BY <1>1, LeaseMapStep DEF LeaseMap
<1> QED
  BY <1>1, <1>2, <1>4, <1>5, LeaseMapStep DEF Leases!Release, LeaseMap, Merged

LEMMA KeptImplements ==
  ASSUME TypeOK, LeaseInv, Kept, launches' = launches
  PROVE  \/ \E t \in Tasks : Leases!Merged(t)
         \/ UNCHANGED Leases!vars
<1>1. /\ \A s \in Slaves : LeaseOf(s)' = LeaseOf(s)
      /\ DoneTasks' = DoneTasks
      /\ \A q \in Mergers : task'[q] = task[q]
  BY DEF Kept
<1>2. LeaseMap' = LeaseMap
  BY <1>1, LeaseMapStep DEF LeaseMap
<1>3. CASE Mergers' = Mergers
  <2>1. Merged' = Merged
    BY <1>1, <1>3 DEF Merged
  <2> QED
    BY <1>1, <1>2, <2>1 DEF Leases!vars, LeaseMap, Merged
<1>4. ASSUME NEW s \in Mergers, Mergers' = Mergers \ {s}
      PROVE  \E t \in Tasks : Leases!Merged(t)
  <2>1. PICK t \in Tasks : /\ task[s] = t
                           /\ \A q \in Mergers \ {s} : task[q] # t
    BY DEF LeaseInv, MergersAlone, DoneTasks
  <2>2. t \in Merged /\ Merged' = Merged \ {t}
    BY <1>1, <1>4, <2>1 DEF Merged
  <2>3. Leases!Merged(t)
    BY <1>1, <1>2, <2>2 DEF Leases!Merged, LeaseMap, Merged
  <2> QED
    BY <2>3
<1> QED
  BY <1>3, <1>4 DEF Kept

LEMMA RestartImplements == Restarted => Leases!NewLaunch
<1> SUFFICES ASSUME Restarted PROVE Leases!NewLaunch
  OBVIOUS
<1>1. LeaseMap' = [s \in Slaves |-> NoLease]
  BY LeaseMapStep DEF Restarted
<1>2. Merged' = {}
  BY DEF Restarted, Merged
<1>3. DoneTasks' \in SUBSET Tasks /\ launches' = launches + 1
  BY DEF DoneTasks, Restarted
<1> QED
  BY <1>1, <1>2, <1>3, LeaseMapStep DEF Leases!NewLaunch, LeaseMap, Merged

\* Messages, reports in any order, ranks that leave, crashes and restarts hide
\* nothing but the leases of RunLeases (runner.cpp:51-285).
THEOREM LeasesImplemented == Spec => ImplementsLeases
<1>1. Init => Leases!Init
  <2> SUFFICES ASSUME Init PROVE Leases!Init
    OBVIOUS
  <2>1. \A s \in Slaves : LeaseOf(s) = NoLease
    BY DEF Init, LeaseOf, Working
  <2>2. Mergers = {} /\ DoneTasks \subseteq Tasks
    BY DEF Init, Mergers, DoneTasks
  <2> QED
    BY <2>1, <2>2, LeaseMapStep DEF Init, Leases!Init, LeaseMap
<1>2. TypeOK /\ Protocol /\ LeaseInv /\ [Next]_vars => [Leases!Next]_Leases!vars
  <2> SUFFICES ASSUME TypeOK, Protocol, LeaseInv, [Next]_vars
               PROVE  [Leases!Next]_Leases!vars
    OBVIOUS
  <2>1. LeaseStep
    BY LeaseStepHolds
  <2>2. ASSUME NEW s \in Slaves, NEW t \in Tasks, Granted(s, t) \/ Freed(s, t),
               launches' = launches
        PROVE  Leases!Next
    BY <2>2, GrantImplements, FreeImplements DEF Leases!Next
  <2>3. Restarted => Leases!Next
    BY RestartImplements DEF Leases!Next
  <2>4. Kept /\ launches' = launches => Leases!Next \/ UNCHANGED Leases!vars
    BY KeptImplements DEF Leases!Next
  <2> QED
    BY <2>1, <2>2, <2>3, <2>4 DEF LeaseStep
<1> QED
  BY <1>1, <1>2, LeasesHold, PTL DEF Spec, ImplementsLeases, Leases!Spec

-----------------------------------------------------------------------------
(***************************************************************************)
(* What a launch leaves behind.  The files of a run: because no two ranks  *)
(* own a run, what a rank has in memory always continues what the files of *)
(* its run hold.  The end of a launch: the ranks meet at the barrier with  *)
(* every message received, and the exit code says whether all tasks are    *)
(* done.                                                                   *)
(***************************************************************************)

(* The files.                                                              *)

\* The slaves whose simulation is in memory and may be continued.
Loaded(s) ==
  \/ pc[s] \in {"sweep", "checkpoint", "report"}
  \/ pc[s] = "verdict" /\ actionCh[s] \in {<< >>, <<"continue">>}

\* What slave s has in memory continues the files of its run.
Continues(s) ==
  /\ run[s] \in DOMAIN dump[task[s]]
  /\ SweepOf(dump[task[s]][run[s]]) <= sys[s].sweep
  /\ meas[task[s]][run[s]] + sys[s].unsaved
       = MeasuredSweeps(sys[s].sweep, Therm[task[s]])

MemoryContinues == \A s \in Slaves : Loaded(s) => Continues(s)

FileInv == FilesAgree /\ MemoryContinues

LEMMA SweepArithmetic ==
  ASSUME NEW n \in Nat, NEW therm \in Nat
  PROVE  /\ MeasuredSweeps(0, therm) = 0
         /\ MeasuredSweeps(n, therm) \in Nat
         /\ MeasuredSweeps(n + 1, therm) = MeasuredSweeps(n, therm)
              + IF IsThermalized(n + 1, therm) THEN 1 ELSE 0
BY DEF MeasuredSweeps, IsThermalized, AtMost

\* A checkpoint writes the files of one run, and both of them.
LEMMA CheckpointWrites ==
  ASSUME TypeOK, NEW t \in Tasks, NEW r \in Int,
         NEW m \in [sweep : Nat, unsaved : Nat], CheckpointOf(t, r, m)
  PROVE  /\ \A u \in Tasks \ {t} : dump'[u] = dump[u] /\ meas'[u] = meas[u]
         /\ DOMAIN dump'[t] = DOMAIN dump[t] \cup {r}
         /\ \A q \in DOMAIN dump[t] \ {r} :
              dump'[t][q] = dump[t][q] /\ meas'[t][q] = meas[t][q]
         /\ SweepOf(dump'[t][r]) = m.sweep
         /\ meas'[t][r] = m.unsaved + IF r \in DOMAIN dump[t] THEN meas[t][r] ELSE 0
<1> DEFINE d == DumpOf(m.sweep, Therm[t])
           n == m.unsaved + IF r \in DOMAIN meas[t] THEN meas[t][r] ELSE 0
<1>1. /\ dump' = [dump EXCEPT ![t] = WriteRun(dump[t], r, d)]
      /\ meas' = [meas EXCEPT ![t] = WriteRun(meas[t], r, n)]
  BY DEF CheckpointOf, TypeOK
<1>2. SweepOf(d) = m.sweep
  BY DumpOfType, TasksAssumption
<1>3. DOMAIN meas[t] = DOMAIN dump[t] /\ DOMAIN dump = Tasks /\ DOMAIN meas = Tasks
  BY DEF TypeOK
<1>4. n = m.unsaved + IF r \in DOMAIN dump[t] THEN meas[t][r] ELSE 0
  BY <1>3
<1> HIDE DEF d, n
<1>5. dump'[t] = WriteRun(dump[t], r, d) /\ meas'[t] = WriteRun(meas[t], r, n)
  BY <1>1, <1>3
<1>6. \A u \in Tasks \ {t} : dump'[u] = dump[u] /\ meas'[u] = meas[u]
  BY <1>1, <1>3
<1>7. /\ DOMAIN dump'[t] = DOMAIN dump[t] \cup {r}
      /\ dump'[t][r] = d /\ meas'[t][r] = n
      /\ \A q \in DOMAIN dump[t] \ {r} :
           dump'[t][q] = dump[t][q] /\ meas'[t][q] = meas[t][q]
  BY <1>3, <1>5 DEF WriteRun
<1> QED
  BY <1>2, <1>4, <1>6, <1>7

\* Two slaves that can write own different runs.
LEMMA DistinctRuns ==
  ASSUME TypeOK, Protocol, LeaseInv, NEW s \in Slaves, pc[s] \in Working,
         NEW q \in Slaves, q # s, Loaded(q)
  PROVE  task[q] # task[s] \/ run[q] # run[s]
<1>1. LeaseOf(s) = <<task[s], run[s]>> /\ LeaseOf(q) = <<task[q], run[q]>>
  BY LeaseByPlace DEF Loaded, Working
<1>2. task[s] \in Tasks
  BY DEF TypeOK, Owning
<1>3. LeaseOf(s) # NoLease
  BY <1>1, <1>2 DEF NoLease, NoTask, Tasks
<1> QED
  BY <1>1, <1>3 DEF LeaseInv, NoSharedRun

\* A slave's checkpoint of a system that continues its run keeps the files in
\* agreement, and rolls back none.
LEMMA CheckpointKeeps ==
  ASSUME TypeOK, Protocol, LeaseInv, FileInv,
         NEW s \in Slaves, pc[s] \in Working,
         NEW m \in [sweep : Nat, unsaved : Nat], CheckpointOf(task[s], run[s], m),
         run[s] \in DOMAIN dump[task[s]] =>
           /\ SweepOf(dump[task[s]][run[s]]) <= m.sweep
           /\ meas[task[s]][run[s]] + m.unsaved = MeasuredSweeps(m.sweep, Therm[task[s]]),
         run[s] \notin DOMAIN dump[task[s]] => m = NoSys
  PROVE  /\ FilesAgree'
         /\ \A q \in Slaves \ {s} : Loaded(q) =>
              /\ run[q] \in DOMAIN dump'[task[q]]
              /\ dump'[task[q]][run[q]] = dump[task[q]][run[q]]
              /\ meas'[task[q]][run[q]] = meas[task[q]][run[q]]
         /\ run[s] \in DOMAIN dump'[task[s]]
         /\ SweepOf(dump'[task[s]][run[s]]) = m.sweep
         /\ meas'[task[s]][run[s]] = MeasuredSweeps(m.sweep, Therm[task[s]])
         /\ \A t \in Tasks : \A r \in DOMAIN dump[t] :
              /\ r \in DOMAIN dump'[t]
              /\ SweepOf(dump'[t][r]) >= SweepOf(dump[t][r])
              /\ meas'[t][r] >= meas[t][r]
<1> DEFINE t == task[s]
           r == run[s]
<1>1. t \in Tasks /\ r \in Int /\ Therm[t] \in Nat
  BY TasksAssumption DEF TypeOK, Owning
<1>2. /\ \A u \in Tasks \ {t} : dump'[u] = dump[u] /\ meas'[u] = meas[u]
      /\ DOMAIN dump'[t] = DOMAIN dump[t] \cup {r}
      /\ \A q \in DOMAIN dump[t] \ {r} :
           dump'[t][q] = dump[t][q] /\ meas'[t][q] = meas[t][q]
      /\ SweepOf(dump'[t][r]) = m.sweep
      /\ meas'[t][r] = m.unsaved + IF r \in DOMAIN dump[t] THEN meas[t][r] ELSE 0
  BY <1>1, CheckpointWrites
<1>3. \A u \in Tasks : \A q \in DOMAIN dump[u] :
        meas[u][q] \in Nat /\ SweepOf(dump[u][q]) \in Nat
  BY DEF TypeOK, Dumps, SweepOf
<1>4. meas'[t][r] = MeasuredSweeps(m.sweep, Therm[t])
  <2>1. CASE r \in DOMAIN dump[t]
    BY <1>1, <1>2, <1>3, <2>1
  <2>2. CASE r \notin DOMAIN dump[t]
    <3>1. m.sweep = 0 /\ m.unsaved = 0
      BY <2>2 DEF NoSys
    <3> QED
      BY <1>1, <1>2, <2>2, <3>1, SweepArithmetic
  <2> QED
    BY <2>1, <2>2
<1>5. FilesAgree'
  <2>1. ASSUME NEW u \in Tasks, NEW q \in DOMAIN dump'[u]
        PROVE  meas'[u][q] = MeasuredSweeps(SweepOf(dump'[u][q]), Therm[u])
    BY <1>1, <1>2, <1>4, <2>1 DEF FileInv, FilesAgree
  <2> QED
    BY <2>1 DEF FilesAgree, Tasks
<1>6. ASSUME NEW q \in Slaves \ {s}, Loaded(q)
      PROVE  /\ run[q] \in DOMAIN dump'[task[q]]
             /\ dump'[task[q]][run[q]] = dump[task[q]][run[q]]
             /\ meas'[task[q]][run[q]] = meas[task[q]][run[q]]
  <2>1. run[q] \in DOMAIN dump[task[q]] /\ task[q] \in Tasks
    BY <1>6 DEF FileInv, MemoryContinues, Continues, TypeOK, Loaded, Owning, Working
  <2>2. task[q] # t \/ run[q] # r
    BY <1>6, DistinctRuns
  <2> QED
    BY <1>2, <2>1, <2>2
<1>7. ASSUME NEW u \in Tasks, NEW q \in DOMAIN dump[u]
      PROVE  /\ q \in DOMAIN dump'[u]
             /\ SweepOf(dump'[u][q]) >= SweepOf(dump[u][q])
             /\ meas'[u][q] >= meas[u][q]
  <2>1. CASE u = t /\ q = r
    <3>1. meas'[t][r] = m.unsaved + meas[t][r] /\ m.unsaved \in Nat
      BY <1>2, <2>1
    <3> QED
      BY <1>1, <1>2, <1>3, <2>1, <3>1
  <2>2. CASE u # t \/ q # r
    BY <1>1, <1>2, <1>3, <2>2
  <2> QED
    BY <2>1, <2>2
<1> QED
  BY <1>2, <1>4, <1>5, <1>6, <1>7

\* A step that leaves the files alone and the memory of the other slaves.
LEMMA StillFiles ==
  ASSUME TypeOK, FileInv, dump' = dump, meas' = meas, NEW s \in Slaves,
         MasterStep(s) \/ SlaveStep(s),
         \A q \in Slaves \ {s} : sys'[q] = sys[q],
         Loaded(s)' => Continues(s)'
  PROVE  FileInv'
<1>1. FilesAgree'
  BY DEF FileInv, FilesAgree, Tasks
<1>2. ASSUME NEW q \in Slaves \ {s}, Loaded(q)' PROVE Continues(q)'
  <2>1. Loaded(q) /\ task'[q] = task[q] /\ run'[q] = run[q]
    BY <1>2, Frame DEF Loaded
  <2>2. Continues(q)
    BY <2>1 DEF FileInv, MemoryContinues
  <2> QED
    BY <2>1, <2>2 DEF Continues
<1> QED
  BY <1>1, <1>2 DEF FileInv, MemoryContinues

\* As StillFiles, and slave s had in memory what it has now.
LEMMA StillMemory ==
  ASSUME TypeOK, FileInv, dump' = dump, meas' = meas, sys' = sys, NEW s \in Slaves,
         MasterStep(s) \/ SlaveStep(s),
         Loaded(s)' => Loaded(s) /\ task'[s] = task[s] /\ run'[s] = run[s]
  PROVE  FileInv'
<1>1. ASSUME Loaded(s)' PROVE Continues(s)'
  <2>1. Continues(s) /\ task'[s] = task[s] /\ run'[s] = run[s]
    BY <1>1 DEF FileInv, MemoryContinues
  <2> QED
    BY <2>1 DEF Continues
<1> QED
  BY <1>1, StillFiles

\* What no step may do to the files.
NothingLost ==
  \A t \in Tasks : \A r \in DOMAIN dump[t] :
    /\ r \in DOMAIN dump'[t]
    /\ SweepOf(dump'[t][r]) >= SweepOf(dump[t][r])
    /\ meas'[t][r] >= meas[t][r]

LEMMA StillLosesNothing == TypeOK /\ dump' = dump /\ meas' = meas => NothingLost
BY DEF NothingLost, TypeOK, Dumps, SweepOf

LEMMA CheckpointStep ==
  ASSUME TypeOK, Protocol, LeaseInv, FileInv,
         NEW s \in Slaves, LoadInit(s) \/ Checkpoint(s)
  PROVE  FileInv' /\ NothingLost
<1>1. PICK m \in [sweep : Nat, unsaved : Nat] :
        /\ CheckpointOf(task[s], run[s], m)
        /\ sys' = [sys EXCEPT ![s] = [sweep |-> m.sweep, unsaved |-> 0]]
        /\ run[s] \in DOMAIN dump[task[s]] =>
             /\ SweepOf(dump[task[s]][run[s]]) <= m.sweep
             /\ meas[task[s]][run[s]] + m.unsaved = MeasuredSweeps(m.sweep, Therm[task[s]])
        /\ run[s] \notin DOMAIN dump[task[s]] => m = NoSys
  <2>1. CASE LoadInit(s)
    <3>1. NoSys \in [sweep : Nat, unsaved : Nat]
          /\ NoSys = [sweep |-> NoSys.sweep, unsaved |-> 0]
      BY DEF NoSys
    <3>2. /\ CheckpointOf(task[s], run[s], NoSys) /\ run[s] \notin DOMAIN dump[task[s]]
          /\ sys' = [sys EXCEPT ![s] = NoSys]
      BY <2>1 DEF LoadInit
    <3> QED
      BY <3>1, <3>2
  <2>2. CASE Checkpoint(s)
    <3>1. /\ CheckpointOf(task[s], run[s], sys[s]) /\ pc[s] = "checkpoint"
          /\ sys' = [sys EXCEPT ![s].unsaved = 0]
      BY <2>2 DEF Checkpoint
    <3>2. sys[s] \in [sweep : Nat, unsaved : Nat]
      BY DEF TypeOK
    <3>3. sys' = [sys EXCEPT ![s] = [sweep |-> sys[s].sweep, unsaved |-> 0]]
      <4>1. [sys[s] EXCEPT !.unsaved = 0] = [sweep |-> sys[s].sweep, unsaved |-> 0]
        BY <3>2
      <4>2. sys' = [sys EXCEPT ![s] = [sys[s] EXCEPT !.unsaved = 0]]
        BY <3>1 DEF TypeOK
      <4> QED
        BY <4>1, <4>2
    <3>4. Continues(s)
      BY <3>1 DEF FileInv, MemoryContinues, Loaded
    <3> QED
      BY <3>1, <3>2, <3>3, <3>4 DEF Continues
  <2> QED
    BY <2>1, <2>2
<1>2. pc[s] \in Working /\ UNCHANGED <<task, run>>
  BY DEF LoadInit, Checkpoint, Working
<1>3. /\ FilesAgree'
      /\ \A q \in Slaves \ {s} : Loaded(q) =>
           /\ run[q] \in DOMAIN dump'[task[q]]
           /\ dump'[task[q]][run[q]] = dump[task[q]][run[q]]
           /\ meas'[task[q]][run[q]] = meas[task[q]][run[q]]
      /\ run[s] \in DOMAIN dump'[task[s]]
      /\ SweepOf(dump'[task[s]][run[s]]) = m.sweep
      /\ meas'[task[s]][run[s]] = MeasuredSweeps(m.sweep, Therm[task[s]])
      /\ NothingLost
  BY <1>1, <1>2, CheckpointKeeps DEF NothingLost
<1>4. /\ sys'[s] = [sweep |-> m.sweep, unsaved |-> 0]
      /\ \A q \in Slaves \ {s} : sys'[q] = sys[q]
  BY <1>1 DEF TypeOK
<1>5. Continues(s)'
  <2>1. task[s] \in Tasks /\ Therm[task[s]] \in Nat
    BY <1>2, TasksAssumption DEF TypeOK, Owning
  <2>2. sys'[s].sweep = m.sweep /\ sys'[s].unsaved = 0 /\ m.sweep \in Nat
    BY <1>4
  <2>3. MeasuredSweeps(m.sweep, Therm[task[s]]) \in Nat
    BY <2>1, <2>2, SweepArithmetic
  <2> QED
    BY <1>2, <1>3, <2>2, <2>3 DEF Continues
<1>6. ASSUME NEW q \in Slaves \ {s}, Loaded(q)' PROVE Continues(q)'
  <2>1. Loaded(q) /\ task'[q] = task[q] /\ run'[q] = run[q]
    BY <1>6, Frame DEF Loaded, SlaveStep
  <2>2. Continues(q)
    BY <2>1 DEF FileInv, MemoryContinues
  <2> QED
    BY <1>3, <1>4, <2>1, <2>2 DEF Continues
<1> QED
  BY <1>3, <1>5, <1>6 DEF FileInv, MemoryContinues

LEMMA FileStep ==
  TypeOK /\ Protocol /\ LeaseInv /\ FileInv /\ [Next]_vars => FileInv' /\ NothingLost
<1> SUFFICES ASSUME TypeOK, Protocol, LeaseInv, FileInv, [Next]_vars
             PROVE  FileInv' /\ NothingLost
  OBVIOUS
<1> USE DEF slaveVars, masterVars, netVars, diskVars
<1>1. ASSUME NEW s \in Slaves, MasterStep(s) PROVE FileInv' /\ NothingLost
  <2>1. UNCHANGED <<pc, task, run, sys, dump, meas>>
    BY <1>1 DEF MasterStep, Assign, Dismiss, ReactBusy, ReactTimeUp
  <2>2. Loaded(s)' => Loaded(s)
    <3>1. PICK type : Receives(s, type)
      BY <1>1 DEF MasterStep, Assign, Dismiss, ReactBusy, ReactTimeUp
    <3>2. actionCh[s] = << >>
      BY <3>1, Sender
    <3> QED
      BY <2>1, <3>2 DEF Loaded
  <2> QED
    BY <1>1, <2>1, <2>2, StillMemory, StillLosesNothing
<1>2. ASSUME NEW s \in Slaves,
             SendIdle(s) \/ RecvAction(s) \/ RecvJob(s) \/ ReportTimeUp(s)
               \/ MergeMeasurements(s)
      PROVE  FileInv' /\ NothingLost
  <2>1. /\ UNCHANGED <<sys, dump, meas>>
        /\ pc'[s] \in {"await_action", "await_job", "exited", "load", "left"}
    BY <1>2 DEF SendIdle, RecvAction, RecvJob, ReportTimeUp, MergeMeasurements, TypeOK
  <2>2. ~Loaded(s)'
    BY <2>1 DEF Loaded
  <2> QED
    BY <1>2, <2>1, <2>2, StillMemory, StillLosesNothing DEF SlaveStep
<1>3. ASSUME NEW s \in Slaves, ReportBusy(s) \/ RecvVerdict(s)
      PROVE  FileInv' /\ NothingLost
  <2>1. UNCHANGED <<task, run, sys, dump, meas>>
    BY <1>3 DEF ReportBusy, RecvVerdict
  <2>2. Loaded(s)' => Loaded(s)
    <3>1. CASE ReportBusy(s)
      BY <3>1 DEF ReportBusy, Loaded
    <3>2. CASE RecvVerdict(s)
      <4>1. /\ pc[s] = "verdict"
            /\ actionCh[s] \in {<<"continue">>, <<"new_job">>, <<"process">>}
            /\ pc'[s] = IF Head(actionCh[s]) = "new_job" THEN "await_action"
                        ELSE IF Head(actionCh[s]) = "process" THEN "merge"
                        ELSE EnterLoop(since[s], before[s])
        BY <3>2 DEF RecvVerdict, Protocol, InProtocol, TypeOK
      <4>2. actionCh[s] = <<"continue">> \/ pc'[s] \in {"await_action", "merge"}
        BY <4>1, Single
      <4> QED
        BY <4>1, <4>2 DEF Loaded
    <3> QED
      BY <1>3, <3>1, <3>2
  <2> QED
    BY <1>3, <2>1, <2>2, StillMemory, StillLosesNothing DEF SlaveStep
<1>4. ASSUME NEW s \in Slaves, LoadRead(s) PROVE FileInv' /\ NothingLost
  <2>1. /\ UNCHANGED <<task, run, dump, meas>> /\ pc[s] = "load"
        /\ run[s] \in DOMAIN dump[task[s]]
        /\ sys' = [sys EXCEPT ![s] = [sweep |-> SweepOf(dump[task[s]][run[s]]),
                                      unsaved |-> 0]]
    BY <1>4 DEF LoadRead
  <2>2. /\ sys'[s] = [sweep |-> SweepOf(dump[task[s]][run[s]]), unsaved |-> 0]
        /\ \A q \in Slaves \ {s} : sys'[q] = sys[q]
    BY <2>1 DEF TypeOK
  <2>3. task[s] \in Tasks
    BY <2>1 DEF TypeOK, Owning, Working
  <2>4. /\ SweepOf(dump[task[s]][run[s]]) \in Nat /\ meas[task[s]][run[s]] \in Nat
        /\ meas[task[s]][run[s]]
             = MeasuredSweeps(SweepOf(dump[task[s]][run[s]]), Therm[task[s]])
    BY <2>1, <2>3 DEF FileInv, FilesAgree, TypeOK, Dumps, SweepOf
  <2>5. Continues(s)'
    BY <2>1, <2>2, <2>4 DEF Continues
  <2> QED
    BY <1>4, <2>1, <2>2, <2>5, StillFiles, StillLosesNothing DEF SlaveStep
<1>5. ASSUME NEW s \in Slaves, Sweep(s) PROVE FileInv' /\ NothingLost
  <2> DEFINE n == sys[s].sweep + 1
             measured == IF IsThermalized(n, Therm[task[s]]) THEN 1 ELSE 0
  <2>1. /\ UNCHANGED <<task, run, dump, meas>> /\ pc[s] = "sweep"
        /\ sys' = [sys EXCEPT ![s] = [sweep |-> n, unsaved |-> @.unsaved + measured]]
    BY <1>5 DEF Sweep
  <2>2. /\ sys'[s].sweep = n /\ sys'[s].unsaved = sys[s].unsaved + measured
        /\ \A q \in Slaves \ {s} : sys'[q] = sys[q]
    BY <2>1 DEF TypeOK
  <2>3. sys[s].sweep \in Nat /\ sys[s].unsaved \in Nat /\ task[s] \in Tasks
    BY <2>1 DEF TypeOK, Owning, Working
  <2>4. Continues(s)
    BY <2>1 DEF FileInv, MemoryContinues, Loaded
  <2>5. Therm[task[s]] \in Nat
    BY <2>3, TasksAssumption
  <2>6. MeasuredSweeps(n, Therm[task[s]])
          = MeasuredSweeps(sys[s].sweep, Therm[task[s]]) + measured
    BY <2>3, <2>5, SweepArithmetic
  <2>7. /\ SweepOf(dump[task[s]][run[s]]) \in Nat /\ meas[task[s]][run[s]] \in Nat
    BY <2>3, <2>4 DEF Continues, TypeOK, Dumps, SweepOf
  <2>8. measured \in Nat
    OBVIOUS
  <2>9. SweepOf(dump[task[s]][run[s]]) <= n
    BY <2>3, <2>4, <2>7 DEF Continues
  <2> HIDE DEF n, measured
  <2>10. meas[task[s]][run[s]] + (sys[s].unsaved + measured)
           = MeasuredSweeps(n, Therm[task[s]])
    BY <2>3, <2>4, <2>6, <2>7, <2>8 DEF Continues
  <2>11. Continues(s)'
    BY <2>1, <2>2, <2>4, <2>9, <2>10 DEF Continues
  <2> QED
    BY <1>5, <2>1, <2>2, <2>11, StillFiles, StillLosesNothing DEF SlaveStep
<1>6. CASE Finalize \/ Crash \/ UNCHANGED vars
  <2>1. UNCHANGED <<pc, task, run, sys, actionCh, dump, meas>>
    BY <1>6 DEF Finalize, Crash, vars
  <2>2. FileInv'
    BY <2>1 DEF FileInv, FilesAgree, MemoryContinues, Loaded, Continues, Tasks
  <2> QED
    BY <2>1, <2>2, StillLosesNothing
<1>7. CASE Relaunch
  <2>1. dump' = dump /\ meas' = meas /\ pc' = [s \in Slaves |-> "start"]
    BY <1>7 DEF Relaunch, RanksStart
  <2>2. FileInv'
    BY <2>1 DEF FileInv, FilesAgree, MemoryContinues, Loaded, Tasks
  <2> QED
    BY <2>1, <2>2, StillLosesNothing
<1>8. ASSUME NEW s \in Slaves, LoadInit(s) \/ Checkpoint(s)
      PROVE  FileInv' /\ NothingLost
  BY <1>8, CheckpointStep
<1> QED
  BY <1>1, <1>2, <1>3, <1>4, <1>5, <1>6, <1>7, <1>8 DEF Next, SlaveStep, Stopped

LEMMA FilesHold ==
  Spec => [](TypeOK /\ Protocol /\ LeaseInv /\ FileInv)
<1>1. Init => FileInv
  BY DEF Init, FileInv, FilesAgree, MemoryContinues, Loaded, NoRuns
<1>2. FileInv /\ TypeOK /\ Protocol /\ LeaseInv /\ [Next]_vars => FileInv'
  BY FileStep
<1> QED
  BY <1>1, <1>2, LeasesHold, PTL DEF Spec

\* The measurement file and the dump of a run agree at every moment, across
\* launches and crashes (mc.cpp:97-98, 133, 147).
THEOREM FilesAlwaysAgree == Spec => []FilesAgree
<1>1. TypeOK /\ Protocol /\ LeaseInv /\ FileInv => FilesAgree
  BY DEF FileInv
<1> QED
  BY <1>1, FilesHold, PTL

\* No step takes a run back (mc.cpp:114-139, runner.cpp:161-164).
THEOREM RunsNeverRollBack == Spec => NoRollback
<1>1. TypeOK /\ Protocol /\ LeaseInv /\ FileInv /\ [Next]_vars => [NothingLost]_vars
  BY FileStep
<1> QED
  BY <1>1, FilesHold, PTL DEF Spec, NoRollback, NothingLost

-----------------------------------------------------------------------------
(* What the master has counted is in the files.                            *)

\* The measured sweeps of task t that slave s has written but the master has
\* not counted: about to be reported, or in a report on its way.
Amount(s) ==
  IF pc[s] = "report" THEN since[s]
  ELSE IF statusCh[s] # << >> /\ Head(statusCh[s]).type = "busy"
  THEN Head(statusCh[s]).sweeps ELSE 0
Owed(s, t) == IF task[s] = t THEN Amount(s) ELSE 0
OwedOn(t) == [s \in Slaves |-> Owed(s, t)]

Measured(t) == Total(meas[t], DOMAIN meas[t])

Covered ==
  \A t \in Tasks : sweeps[t] + Total(OwedOn(t), Slaves) <= Measured(t)

\* sweeps_since_last_query_ counts, in the loop, what the next checkpoint
\* writes, and is 0 before the loop.
Bookkeeping(s) ==
  /\ pc[s] \in {"sweep", "checkpoint"} => since[s] = sys[s].unsaved
  /\ pc[s] \in {"report", "verdict"} => sys[s].unsaved = 0
  /\ pc[s] \in {"start", "await_action", "await_job", "load", "verdict", "merge"} =>
       since[s] = 0

\* A dump counts sweeps only after the thermalization is over.
DumpsFormed ==
  \A t \in Tasks : \A r \in DOMAIN dump[t] :
    dump[t][r].sweeps = 0 \/ dump[t][r].therm = Therm[t]

CountInv == Covered /\ DumpsFormed /\ \A s \in Slaves : Bookkeeping(s)

\* The types of the above.
CountTypes ==
  /\ \A s \in Slaves : Amount(s) \in Nat /\ since[s] \in Nat
  /\ \A t \in Tasks : /\ Total(OwedOn(t), Slaves) \in Nat
                      /\ Measured(t) \in Nat /\ sweeps[t] \in Nat

LEMMA CountTypesHold == TypeOK => CountTypes
<1> SUFFICES ASSUME TypeOK PROVE CountTypes
  OBVIOUS
<1>1. ASSUME NEW s \in Slaves PROVE Amount(s) \in Nat
  <2>1. CASE pc[s] # "report" /\ statusCh[s] # << >> /\ Head(statusCh[s]).type = "busy"
    <3>1. Head(statusCh[s]) \in StatusMsgs
      BY <2>1 DEF TypeOK
    <3>2. Head(statusCh[s]).sweeps \in Nat
      BY <2>1, <3>1 DEF StatusMsgs
    <3> QED
      BY <2>1, <3>2 DEF Amount
  <2>2. CASE ~(pc[s] # "report" /\ statusCh[s] # << >> /\ Head(statusCh[s]).type = "busy")
    <3>1. since[s] \in Nat
      BY DEF TypeOK
    <3> QED
      BY <2>2, <3>1 DEF Amount
  <2> QED
    BY <2>1, <2>2
<1>2. ASSUME NEW t \in Tasks
      PROVE  Total(OwedOn(t), Slaves) \in Nat /\ Measured(t) \in Nat /\ sweeps[t] \in Nat
  <2>1. IsFiniteSet(Slaves) /\ \A s \in Slaves : OwedOn(t)[s] \in Nat
    BY <1>1, SlavesAssumption DEF OwedOn, Owed
  <2>2. IsFiniteSet(DOMAIN meas[t]) /\ \A r \in DOMAIN meas[t] : meas[t][r] \in Nat
    BY DEF TypeOK
  <2>3. sweeps[t] \in Nat
    BY DEF TypeOK
  <2> QED
    BY <2>1, <2>2, <2>3, TotalIsNat DEF Measured
<1>3. \A s \in Slaves : since[s] \in Nat
  BY DEF TypeOK
<1> QED
  BY <1>1, <1>2, <1>3 DEF CountTypes

\* A step of one slave, or of the master for it: what is counted and owed grows
\* by no more than what is written.
LEMMA CoveredStep ==
  ASSUME CountTypes, CountTypes', Covered, NEW s \in Slaves,
         \A q \in Slaves \ {s} : \A t \in Tasks : Owed(q, t)' = Owed(q, t),
         \A t \in Tasks : sweeps'[t] + Owed(s, t)' + Measured(t)
                            <= sweeps[t] + Owed(s, t) + Measured(t)'
  PROVE  Covered'
<1>1. ASSUME NEW t \in Tasks
      PROVE  sweeps'[t] + Total(OwedOn(t)', Slaves) <= Measured(t)'
  <2> DEFINE f == OwedOn(t)
             g == OwedOn(t)'
  <2>1. /\ IsFiniteSet(Slaves) /\ f[s] = Owed(s, t) /\ g[s] = Owed(s, t)'
        /\ \A q \in Slaves : f[q] \in Nat
    BY SlavesAssumption DEF OwedOn, Owed, CountTypes
  <2>2. \A q \in Slaves : g[q] \in Nat
    BY DEF OwedOn, Owed, CountTypes
  <2>3. \A q \in Slaves \ {s} : g[q] = f[q]
    BY DEF OwedOn
  <2>4. Slaves \cup {s} = Slaves
    OBVIOUS
  <2>5. /\ Total(f, Slaves) \in Nat /\ Measured(t) \in Nat /\ sweeps[t] \in Nat
        /\ Total(g, Slaves) \in Nat /\ Measured(t)' \in Nat /\ sweeps'[t] \in Nat
        /\ sweeps[t] + Total(f, Slaves) <= Measured(t)
    BY DEF CountTypes, Covered, Tasks
  <2>6. sweeps'[t] + g[s] + Measured(t) <= sweeps[t] + f[s] + Measured(t)'
    BY <2>1
  <2> HIDE DEF f, g
  <2>7. Total(g, Slaves) + f[s] = Total(f, Slaves) + g[s]
    BY <2>1, <2>2, <2>3, <2>4, TotalWritten
  <2>8. f[s] \in Nat /\ g[s] \in Nat
    BY <2>1, <2>2
  <2>9. sweeps'[t] + Total(g, Slaves) <= Measured(t)'
    BY <2>5, <2>6, <2>7, <2>8
  <2> QED
    BY <2>9 DEF g
<1> QED
  BY <1>1 DEF Covered, Tasks

\* A checkpoint adds the sweeps in memory to what the task has in its files.
LEMMA MeasuredWritten ==
  ASSUME TypeOK, TypeOK', NEW t \in Tasks, NEW r \in Int,
         NEW m \in [sweep : Nat, unsaved : Nat], CheckpointOf(t, r, m)
  PROVE  \A u \in Tasks :
           Measured(u)' = Measured(u) + IF u = t THEN m.unsaved ELSE 0
<1> DEFINE S == DOMAIN meas[t]
           f == meas[t]
           g == meas'[t]
<1>1. /\ \A u \in Tasks \ {t} : meas'[u] = meas[u]
      /\ \A q \in S \ {r} : g[q] = f[q]
      /\ g[r] = m.unsaved + IF r \in S THEN f[r] ELSE 0
      /\ DOMAIN dump'[t] = S \cup {r}
  BY CheckpointWrites DEF TypeOK
<1>2. IsFiniteSet(S) /\ \A q \in S : f[q] \in Nat
  BY DEF TypeOK
<1>3. DOMAIN g = S \cup {r} /\ \A q \in S \cup {r} : g[q] \in Nat
  <2>1. t \in Tasks'
    BY DEF Tasks
  <2> QED
    BY <1>1, <2>1 DEF TypeOK
<1>4. Measured(t) = Total(f, S) /\ Measured(t)' = Total(g, S \cup {r})
  BY <1>3 DEF Measured
<1>5. m.unsaved \in Nat
  OBVIOUS
<1> HIDE DEF S, f, g
<1>6. Total(g, S \cup {r}) + (IF r \in S THEN f[r] ELSE 0) = Total(f, S) + g[r]
  BY <1>1, <1>2, <1>3, TotalWritten
<1>7. Total(f, S) \in Nat /\ Total(g, S \cup {r}) \in Nat
  <2>1. IsFiniteSet(S \cup {r})
    BY <1>2, FS_AddElement
  <2> QED
    BY <1>2, <1>3, <2>1, TotalIsNat
<1>8. Measured(t)' = Measured(t) + m.unsaved
  <2>1. CASE r \in S
    <3>1. f[r] \in Nat
      BY <1>2, <2>1
    <3> QED
      BY <1>1, <1>4, <1>5, <1>6, <1>7, <2>1, <3>1
  <2>2. CASE r \notin S
    BY <1>1, <1>4, <1>5, <1>6, <1>7, <2>2
  <2> QED
    BY <2>1, <2>2
<1>9. ASSUME NEW u \in Tasks \ {t} PROVE Measured(u)' = Measured(u) /\ Measured(u) \in Nat
  <2>1. IsFiniteSet(DOMAIN meas[u]) /\ \A q \in DOMAIN meas[u] : meas[u][q] \in Nat
    BY DEF TypeOK
  <2> QED
    BY <1>1, <2>1, TotalIsNat DEF Measured
<1> QED
  BY <1>8, <1>9

\* The other slaves owe what they owed, and their counters still agree.
LEMMA CountFrame ==
  ASSUME TypeOK, NEW s \in Slaves, MasterStep(s) \/ SlaveStep(s),
         NEW q \in Slaves, q # s
  PROVE  /\ \A t \in Tasks : Owed(q, t)' = Owed(q, t)
         /\ Bookkeeping(q) => Bookkeeping(q)'
<1>1. since'[q] = since[q] /\ sys'[q] = sys[q]
  <2>1. CASE MasterStep(s)
    BY <2>1 DEF MasterStep, Assign, Dismiss, ReactBusy, ReactTimeUp, slaveVars
  <2>2. CASE SendIdle(s) \/ RecvAction(s) \/ RecvJob(s) \/ ReportTimeUp(s)
               \/ RecvVerdict(s) \/ MergeMeasurements(s)
    BY <2>2 DEF SendIdle, RecvAction, RecvJob, ReportTimeUp, RecvVerdict,
                MergeMeasurements
  <2>3. CASE LoadRead(s) \/ LoadInit(s) \/ Sweep(s) \/ Checkpoint(s) \/ ReportBusy(s)
    BY <2>3 DEF LoadRead, LoadInit, Sweep, Checkpoint, ReportBusy, TypeOK
  <2> QED
    BY <2>1, <2>2, <2>3 DEF SlaveStep
<1>2. /\ pc'[q] = pc[q] /\ task'[q] = task[q]
      /\ statusCh'[q] = statusCh[q]
  BY Frame
<1> QED
  BY <1>1, <1>2 DEF Owed, Amount, Bookkeeping

\* What a step for slave s does to the sums, and to its own counters.
Balanced(s) ==
  \A t \in Tasks : sweeps'[t] + Owed(s, t)' + Measured(t)
                     <= sweeps[t] + Owed(s, t) + Measured(t)'

OwesLess(s) ==
  Amount(s)' = 0 \/ (Amount(s)' = Amount(s) /\ task'[s] = task[s])

\* A step that neither counts nor writes, after which the slave owes no more.
LEMMA NothingCounted ==
  ASSUME CountTypes, CountTypes', NEW s \in Slaves, sweeps' = sweeps, meas' = meas,
         OwesLess(s)
  PROVE  Balanced(s)
<1>1. ASSUME NEW t \in Tasks
      PROVE  sweeps'[t] + Owed(s, t)' + Measured(t)
               <= sweeps[t] + Owed(s, t) + Measured(t)'
  <2>1. sweeps'[t] = sweeps[t] /\ Measured(t)' = Measured(t)
    BY DEF Measured
  <2>2. sweeps[t] \in Nat /\ Measured(t) \in Nat /\ Owed(s, t) \in Nat
    BY DEF CountTypes, Owed
  <2>3. Owed(s, t)' = 0 \/ Owed(s, t)' = Owed(s, t)
    BY DEF Owed, OwesLess
  <2> QED
    BY <2>1, <2>2, <2>3
<1> QED
  BY <1>1 DEF Balanced

LEMMA MasterCounts ==
  ASSUME TypeOK, Protocol, CountTypes, CountTypes', NEW s \in Slaves, MasterStep(s),
         Bookkeeping(s)
  PROVE  Balanced(s) /\ Bookkeeping(s)'
<1>1. UNCHANGED <<slaveVars, dump, meas>>
  BY DEF MasterStep, Assign, Dismiss, ReactBusy, ReactTimeUp, diskVars
<1>2. Bookkeeping(s)'
  BY <1>1 DEF Bookkeeping, slaveVars
<1>3. CASE Assign(s) \/ Dismiss(s) \/ ReactTimeUp(s)
  <2>1. Receives(s, "idle") \/ Receives(s, "timeup")
    BY <1>3 DEF Assign, Dismiss, ReactTimeUp
  <2>2. statusCh'[s] = << >> /\ pc[s] \in {"await_action", "left"}
    BY <2>1, Sender
  <2>3. Amount(s)' = 0
    BY <1>1, <2>2 DEF Amount, slaveVars
  <2>4. sweeps' = sweeps
    BY <1>3 DEF Assign, Dismiss, ReactTimeUp
  <2>5. OwesLess(s)
    BY <2>3, Zenon DEF OwesLess
  <2> QED
    BY <1>1, <1>2, <2>4, <2>5, NothingCounted
<1>4. CASE ReactBusy(s)
  <2> DEFINE m == Head(statusCh[s])
  <2>1. Receives(s, "busy") /\ sweeps' = [sweeps EXCEPT ![m.task] = sweeps[m.task] + m.sweeps]
    BY <1>4 DEF ReactBusy
  <2>2. /\ pc[s] = "verdict" /\ m.task = task[s] /\ task[s] \in Tasks
        /\ statusCh[s] # << >> /\ statusCh'[s] = << >> /\ m.type = "busy"
    BY <2>1, Sender DEF Receives
  <2>3. Amount(s) = m.sweeps /\ Amount(s)' = 0
    BY <1>1, <2>2 DEF Amount, slaveVars
  <2> HIDE DEF m
  <2>4. ASSUME NEW t \in Tasks
        PROVE  sweeps'[t] + Owed(s, t)' + Measured(t)
                 <= sweeps[t] + Owed(s, t) + Measured(t)'
    <3>1. Measured(t)' = Measured(t) /\ task'[s] = task[s]
      BY <1>1 DEF Measured, slaveVars
    <3>2. sweeps[t] \in Nat /\ Measured(t) \in Nat /\ Amount(s) \in Nat
      BY DEF CountTypes
    <3>3. Owed(s, t)' = 0
      BY <2>3 DEF Owed
    <3>4. sweeps'[t] = IF task[s] = t THEN sweeps[t] + Amount(s) ELSE sweeps[t]
      BY <2>1, <2>2, <2>3 DEF TypeOK
    <3> QED
      BY <3>1, <3>2, <3>3, <3>4 DEF Owed
  <2> QED
    BY <1>2, <2>4 DEF Balanced
<1> QED
  BY <1>3, <1>4 DEF MasterStep

\* The steps of a slave that do not write files.
LEMMA SlaveCounts ==
  ASSUME TypeOK, Protocol, CountTypes, CountTypes', NEW s \in Slaves, SlaveStep(s),
         UNCHANGED <<dump, meas>>, ~LoadInit(s), ~Checkpoint(s), Bookkeeping(s)
  PROVE  Balanced(s) /\ Bookkeeping(s)'
<1> USE DEF masterVars, netVars
<1>0. InProtocol(s) /\ pc \in [Slaves -> Places]
  BY DEF Protocol, TypeOK
<1>1. CASE SendIdle(s) \/ MergeMeasurements(s)
  <2>1. /\ pc[s] \in {"start", "merge"} /\ pc'[s] = "await_action"
        /\ UNCHANGED <<sweeps, since>>
        /\ statusCh' = Push(statusCh, s, IdleMsg)
    BY <1>0, <1>1 DEF SendIdle, MergeMeasurements, SendStatus
  <2>2. statusCh[s] = << >>
    BY <1>0, <2>1 DEF InProtocol, Quiet
  <2>3. statusCh'[s] = <<IdleMsg>>
    BY <2>1, <2>2, Sent, ChannelDomains
  <2>4. Amount(s)' = 0
    BY <2>1, <2>3, Single, MessageKinds DEF Amount
  <2>8. OwesLess(s)
    BY <2>1, <2>4, Zenon DEF OwesLess
  <2>9. Balanced(s)
    BY <2>1, <2>4, <2>8, NothingCounted
  <2> QED
    BY <2>1, <2>4, <2>9 DEF Bookkeeping
<1>2. CASE RecvAction(s) \/ RecvJob(s)
  <2>1. /\ pc[s] \in {"await_action", "await_job"}
        /\ pc'[s] \in {"exited", "await_job", "load"}
        /\ UNCHANGED <<sweeps, since, statusCh>>
        /\ actionCh[s] # << >> \/ jobCh[s] # << >>
    BY <1>0, <1>2 DEF RecvAction, RecvJob
  <2>2. statusCh[s] = << >>
    BY <1>0, <1>2 DEF InProtocol, RecvAction, RecvJob
  <2>3. Amount(s)' = 0
    BY <2>1, <2>2 DEF Amount
  <2>8. OwesLess(s)
    BY <2>1, <2>3, Zenon DEF OwesLess
  <2>9. Balanced(s)
    BY <2>1, <2>3, <2>8, NothingCounted
  <2> QED
    BY <2>1, <2>3, <2>9 DEF Bookkeeping
<1>3. CASE LoadRead(s)
  <2>1. /\ pc[s] = "load" /\ pc'[s] \in {"sweep", "checkpoint"}
        /\ UNCHANGED <<sweeps, since, statusCh>> /\ sys'[s].unsaved = 0
    BY <1>0, <1>3 DEF LoadRead, EnterLoop, TypeOK
  <2>2. statusCh[s] = << >>
    BY <1>0, <2>1 DEF InProtocol, Quiet, Working
  <2>3. Amount(s)' = 0
    BY <2>1, <2>2 DEF Amount
  <2>8. OwesLess(s)
    BY <2>1, <2>3, Zenon DEF OwesLess
  <2>9. Balanced(s)
    BY <2>1, <2>3, <2>8, NothingCounted
  <2> QED
    BY <2>1, <2>3, <2>9 DEF Bookkeeping
<1>4. CASE Sweep(s)
  <2>1. PICK measured \in {0, 1} :
          /\ sys' = [sys EXCEPT ![s] = [sweep |-> sys[s].sweep + 1,
                                        unsaved |-> sys[s].unsaved + measured]]
          /\ since' = [since EXCEPT ![s] = since[s] + measured]
    BY <1>4 DEF Sweep, TypeOK
  <2>2. /\ pc[s] = "sweep" /\ pc'[s] \in {"sweep", "checkpoint"}
        /\ UNCHANGED <<sweeps, statusCh>>
    BY <1>0, <1>4 DEF Sweep, EnterLoop
  <2>3. since'[s] = sys'[s].unsaved
    BY <2>1, <2>2 DEF Bookkeeping, TypeOK
  <2>4. statusCh[s] = << >>
    BY <1>0, <2>2 DEF InProtocol, Quiet, Working
  <2>5. Amount(s)' = 0
    BY <2>2, <2>4 DEF Amount
  <2>8. OwesLess(s)
    BY <2>2, <2>3, <2>5, Zenon DEF OwesLess
  <2>9. Balanced(s)
    BY <2>2, <2>3, <2>5, <2>8, NothingCounted
  <2> QED
    BY <2>2, <2>3, <2>5, <2>9 DEF Bookkeeping
<1>5. CASE ReportBusy(s)
  <2>1. /\ pc[s] = "report" /\ pc'[s] = "verdict" /\ since'[s] = 0
        /\ UNCHANGED <<sweeps, sys, task>>
        /\ statusCh' = Push(statusCh, s, BusyMsg(task[s], since[s]))
    BY <1>0, <1>5 DEF ReportBusy, SendStatus, TypeOK
  <2>2. statusCh[s] = << >>
    BY <1>0, <2>1 DEF InProtocol, Quiet, Working
  <2>3. statusCh'[s] = <<BusyMsg(task[s], since[s])>>
    BY <2>1, <2>2, Sent, ChannelDomains
  <2>4. BusyMsg(task[s], since[s]).sweeps = since[s]
    BY DEF BusyMsg
  <2>5. Amount(s)' = Amount(s)
    BY <2>1, <2>3, <2>4, Single, MessageKinds DEF Amount
  <2>8. OwesLess(s)
    BY <2>1, <2>5, Zenon DEF OwesLess
  <2>9. Balanced(s)
    BY <2>1, <2>5, <2>8, NothingCounted
  <2> QED
    BY <2>1, <2>5, <2>9 DEF Bookkeeping
<1>6. CASE ReportTimeUp(s)
  <2>1. /\ pc[s] = "report" /\ pc'[s] = "left" /\ UNCHANGED sweeps
        /\ statusCh' = Push(statusCh, s, TimeUpMsg)
    BY <1>0, <1>6 DEF ReportTimeUp, SendStatus
  <2>2. statusCh[s] = << >>
    BY <1>0, <2>1 DEF InProtocol, Quiet, Working
  <2>3. statusCh'[s] = <<TimeUpMsg>>
    BY <2>1, <2>2, Sent, ChannelDomains
  <2>4. Amount(s)' = 0
    BY <2>1, <2>3, Single, MessageKinds DEF Amount
  <2>8. OwesLess(s)
    BY <2>1, <2>4, Zenon DEF OwesLess
  <2>9. Balanced(s)
    BY <2>1, <2>4, <2>8, NothingCounted
  <2> QED
    BY <2>1, <2>4, <2>9 DEF Bookkeeping
<1>7. CASE RecvVerdict(s)
  <2>1. /\ pc[s] = "verdict" /\ actionCh[s] # << >>
        /\ UNCHANGED <<sweeps, since, sys>>
        /\ pc'[s] \in {"await_action", "merge", "sweep", "checkpoint"}
        /\ statusCh' = IF Head(actionCh[s]) = "new_job" THEN Push(statusCh, s, IdleMsg)
                       ELSE statusCh
    BY <1>0, <1>7 DEF RecvVerdict, EnterLoop
  <2>2. statusCh[s] = << >>
    BY <1>0, <2>1 DEF InProtocol
  <2>3. statusCh'[s] \in {<< >>, <<IdleMsg>>}
    BY <2>1, <2>2, Sent, ChannelDomains
  <2>4. Amount(s)' = 0
    BY <2>1, <2>3, Single, MessageKinds DEF Amount
  <2>8. OwesLess(s)
    BY <2>1, <2>4, Zenon DEF OwesLess
  <2>9. Balanced(s)
    BY <2>1, <2>4, <2>8, NothingCounted
  <2> QED
    BY <2>1, <2>4, <2>9 DEF Bookkeeping
<1> QED
  BY <1>1, <1>2, <1>3, <1>4, <1>5, <1>6, <1>7 DEF SlaveStep

\* The steps that write: what a checkpoint adds is what will be reported.
LEMMA CheckpointCounts ==
  ASSUME TypeOK, TypeOK', Protocol, CountTypes, CountTypes', NEW s \in Slaves,
         LoadInit(s) \/ Checkpoint(s), Bookkeeping(s)
  PROVE  Balanced(s) /\ Bookkeeping(s)'
<1>1. InProtocol(s) /\ pc[s] \in {"load", "checkpoint"} /\ pc \in [Slaves -> Places]
  BY DEF Protocol, LoadInit, Checkpoint, TypeOK
<1>2. task[s] \in Tasks /\ run[s] \in Int /\ statusCh[s] = << >>
  BY <1>1 DEF TypeOK, Owning, Working, InProtocol, Quiet
<1>3. /\ UNCHANGED <<sweeps, task, since, statusCh>>
      /\ Amount(s) = 0
  BY <1>1, <1>2 DEF LoadInit, Checkpoint, masterVars, netVars, Amount
<1>4. PICK m \in [sweep : Nat, unsaved : Nat] :
        CheckpointOf(task[s], run[s], m) /\ Amount(s)' = m.unsaved /\ Bookkeeping(s)'
  <2>1. CASE LoadInit(s)
    <3>1. NoSys \in [sweep : Nat, unsaved : Nat] /\ NoSys.unsaved = 0
      BY DEF NoSys
    <3>2. /\ CheckpointOf(task[s], run[s], NoSys) /\ pc'[s] \in {"sweep", "checkpoint"}
          /\ sys'[s] = NoSys /\ pc[s] = "load"
      BY <1>1, <2>1 DEF LoadInit, EnterLoop, TypeOK
    <3>3. Amount(s)' = 0
      BY <1>2, <1>3, <3>2 DEF Amount
    <3>4. Bookkeeping(s)'
      BY <1>3, <3>1, <3>2 DEF Bookkeeping
    <3> QED
      BY <3>1, <3>2, <3>3, <3>4
  <2>2. CASE Checkpoint(s)
    <3>1. /\ CheckpointOf(task[s], run[s], sys[s]) /\ pc'[s] = "report"
          /\ sys' = [sys EXCEPT ![s].unsaved = 0] /\ pc[s] = "checkpoint"
      BY <1>1, <2>2 DEF Checkpoint, TypeOK
    <3>2. sys[s] \in [sweep : Nat, unsaved : Nat] /\ sys \in [Slaves -> [sweep : Nat, unsaved : Nat]]
      BY DEF TypeOK
    <3>3. sys'[s].unsaved = 0
      BY <3>1, <3>2
    <3>4. since'[s] = sys[s].unsaved
      BY <1>3, <3>1 DEF Bookkeeping
    <3>5. Amount(s)' = sys[s].unsaved
      BY <3>1, <3>4 DEF Amount
    <3>6. Bookkeeping(s)'
      BY <3>1, <3>3 DEF Bookkeeping
    <3> QED
      BY <3>1, <3>2, <3>5, <3>6
  <2> QED
    BY <2>1, <2>2
<1>5. \A u \in Tasks :
        Measured(u)' = Measured(u) + IF u = task[s] THEN m.unsaved ELSE 0
  BY <1>2, <1>4, MeasuredWritten
<1>6. ASSUME NEW t \in Tasks
      PROVE  sweeps'[t] + Owed(s, t)' + Measured(t)
               <= sweeps[t] + Owed(s, t) + Measured(t)'
  <2>1. sweeps[t] \in Nat /\ Measured(t) \in Nat /\ m.unsaved \in Nat
    BY DEF CountTypes
  <2>2. /\ Owed(s, t) = 0 /\ Owed(s, t)' = IF task[s] = t THEN m.unsaved ELSE 0
        /\ sweeps'[t] = sweeps[t]
        /\ Measured(t)' = Measured(t) + IF t = task[s] THEN m.unsaved ELSE 0
    BY <1>3, <1>4, <1>5 DEF Owed
  <2> QED
    BY <2>1, <2>2
<1> QED
  BY <1>4, <1>6 DEF Balanced

\* Only whole dumps are written.
LEMMA DumpsStayFormed ==
  ASSUME TypeOK, DumpsFormed, NEW s \in Slaves, LoadInit(s) \/ Checkpoint(s)
  PROVE  DumpsFormed'
<1>1. PICK m \in [sweep : Nat, unsaved : Nat] : CheckpointOf(task[s], run[s], m)
  BY DEF LoadInit, Checkpoint, TypeOK, NoSys
<1>2. pc[s] \in Working /\ task[s] \in Tasks
  BY DEF LoadInit, Checkpoint, Working, TypeOK, Owning
<1> DEFINE d == DumpOf(m.sweep, Therm[task[s]])
<1>3. d.sweeps = 0 \/ d.therm = Therm[task[s]]
  BY <1>2, TasksAssumption DEF DumpOf, AtMost
<1>4. dump' = [dump EXCEPT ![task[s]] = WriteRun(dump[task[s]], run[s], d)]
  BY <1>1, <1>2 DEF CheckpointOf, TypeOK
<1> HIDE DEF d
<1>5. ASSUME NEW t \in Tasks, NEW r \in DOMAIN dump'[t]
      PROVE  dump'[t][r].sweeps = 0 \/ dump'[t][r].therm = Therm[t]
  <2>1. CASE t = task[s]
    <3>1. dump'[t] = WriteRun(dump[t], run[s], d)
      BY <1>2, <1>4, <2>1 DEF TypeOK
    <3>2. dump'[t][r] = IF r = run[s] THEN d ELSE dump[t][r]
      BY <3>1 DEF WriteRun
    <3>3. r = run[s] \/ r \in DOMAIN dump[t]
      BY <3>1 DEF WriteRun
    <3> QED
      BY <1>3, <2>1, <3>2, <3>3 DEF DumpsFormed
  <2>2. CASE t # task[s]
    <3>1. dump'[t] = dump[t]
      BY <1>2, <1>4, <2>2 DEF TypeOK
    <3> QED
      BY <3>1 DEF DumpsFormed
  <2> QED
    BY <2>1, <2>2
<1> QED
  BY <1>5 DEF DumpsFormed, Tasks

\* The next launch counts no more than the files hold.
LEMMA RelaunchCovered ==
  ASSUME TypeOK, TypeOK', FilesAgree, DumpsFormed, Relaunch
  PROVE  Covered'
<1>1. /\ sweeps' = [t \in Tasks |-> ReadDumpProgress(t)]
      /\ dump' = dump /\ meas' = meas
      /\ pc' = [s \in Slaves |-> "start"] /\ statusCh' = [s \in Slaves |-> << >>]
  BY DEF Relaunch, RanksStart, diskVars
<1>2. ASSUME NEW t \in Tasks
      PROVE  sweeps'[t] + Total(OwedOn(t)', Slaves) <= Measured(t)'
  <2> DEFINE S == DOMAIN dump[t]
             f == ProgressIn(t)
             g == meas[t]
  <2>1. IsFiniteSet(S) /\ DOMAIN g = S
    BY DEF TypeOK
  <2>2. ASSUME NEW r \in S
        PROVE  f[r] \in Nat /\ g[r] \in Nat /\ f[r] <= g[r]
    <3>1. dump[t][r] \in Dumps /\ meas[t][r] \in Nat
      BY DEF TypeOK
    <3>2. /\ meas[t][r] = MeasuredSweeps(SweepOf(dump[t][r]), Therm[t])
          /\ dump[t][r].sweeps = 0 \/ dump[t][r].therm = Therm[t]
      BY DEF FilesAgree, DumpsFormed
    <3>3. dump[t][r].sweeps \in Nat /\ dump[t][r].therm \in Nat /\ Therm[t] \in Nat
      BY <3>1, TasksAssumption DEF Dumps
    <3>4. f[r] = dump[t][r].sweeps
      BY DEF ProgressIn
    <3> QED
      BY <3>1, <3>2, <3>3, <3>4 DEF MeasuredSweeps, SweepOf
  <2>3. Below(f, g, S)
    <3> HIDE DEF f, g, S
    <3> QED
      BY <2>2 DEF Below
  <2>4. Total(f, S) <= Total(g, S)
    <3> HIDE DEF f, g, S
    <3> QED
      BY <2>1, <2>3, TotalMonotone
  <2>5. Total(f, S) \in Nat /\ Total(g, S) \in Nat
    <3> HIDE DEF f, g, S
    <3> QED
      BY <2>1, <2>2, TotalIsNat
  <2>6. sweeps'[t] = Total(f, S) /\ Measured(t)' = Total(g, S)
    BY <1>1, <2>1, ReadDumpProgressIs DEF Measured
  <2>7. Total(OwedOn(t)', Slaves) = 0
    <3>1. \A s \in Slaves : OwedOn(t)'[s] = 0
      BY <1>1 DEF OwedOn, Owed, Amount
    <3> QED
      BY <3>1, SlavesAssumption, TotalOfZeros
  <2> HIDE DEF f, g, S
  <2> QED
    BY <2>4, <2>5, <2>6, <2>7
<1> QED
  BY <1>2 DEF Covered, Tasks

LEMMA CountStep ==
  /\ TypeOK /\ TypeOK' /\ CountTypes /\ CountTypes' /\ Protocol /\ FilesAgree
  /\ CountInv /\ [Next]_vars
  => CountInv'
<1> SUFFICES ASSUME TypeOK, TypeOK', CountTypes, CountTypes', Protocol, FilesAgree,
                    CountInv, [Next]_vars
             PROVE  CountInv'
  OBVIOUS
<1>1. ASSUME NEW s \in Slaves, MasterStep(s) \/ SlaveStep(s) PROVE CountInv'
  <2>1. Balanced(s) /\ Bookkeeping(s)' /\ DumpsFormed'
    <3>1. CASE MasterStep(s)
      <4>1. dump' = dump
        BY <3>1 DEF MasterStep, Assign, Dismiss, ReactBusy, ReactTimeUp, diskVars
      <4>2. DumpsFormed'
        BY <4>1 DEF CountInv, DumpsFormed, Tasks
      <4> QED
        BY <3>1, <4>2, MasterCounts DEF CountInv
    <3>2. CASE LoadInit(s) \/ Checkpoint(s)
      BY <3>2, CheckpointCounts, DumpsStayFormed DEF CountInv
    <3>3. CASE SlaveStep(s) /\ ~LoadInit(s) /\ ~Checkpoint(s)
      <4>1. UNCHANGED <<dump, meas>>
        BY <3>3 DEF SlaveStep, SendIdle, RecvAction, RecvJob, LoadRead, Sweep,
                    ReportBusy, ReportTimeUp, RecvVerdict, MergeMeasurements, diskVars
      <4>2. DumpsFormed'
        BY <4>1 DEF CountInv, DumpsFormed, Tasks
      <4> QED
        BY <3>3, <4>1, <4>2, SlaveCounts DEF CountInv
    <3> QED
      BY <1>1, <3>1, <3>2, <3>3
  <2>2. \A q \in Slaves \ {s} : (\A t \in Tasks : Owed(q, t)' = Owed(q, t)) /\ Bookkeeping(q)'
    BY <1>1, CountFrame DEF CountInv
  <2>3. Covered'
    BY <2>1, <2>2, CoveredStep DEF CountInv, Balanced
  <2> QED
    BY <2>1, <2>2, <2>3 DEF CountInv
<1>2. CASE Finalize \/ Crash \/ UNCHANGED vars
  <2>1. UNCHANGED <<sweeps, pc, task, since, sys, statusCh, dump, meas>>
    BY <1>2 DEF Finalize, Crash, vars, masterVars, slaveVars, netVars, diskVars
  <2>2. \A s \in Slaves : Bookkeeping(s)'
    BY <2>1 DEF CountInv, Bookkeeping
  <2>3. DumpsFormed'
    BY <2>1 DEF CountInv, DumpsFormed, Tasks
  <2>4. ASSUME NEW t \in Tasks
        PROVE  sweeps'[t] + Total(OwedOn(t)', Slaves) <= Measured(t)'
    <3>1. OwedOn(t)' = OwedOn(t)
      BY <2>1 DEF OwedOn, Owed, Amount
    <3>2. Measured(t)' = Measured(t)
      BY <2>1 DEF Measured
    <3> QED
      BY <2>1, <3>1, <3>2 DEF CountInv, Covered
  <2> QED
    BY <2>2, <2>3, <2>4 DEF CountInv, Covered, Tasks
<1>3. CASE Relaunch
  <2>1. /\ pc' = [s \in Slaves |-> "start"] /\ since' = [s \in Slaves |-> 0]
        /\ dump' = dump
    BY <1>3 DEF Relaunch, RanksStart, diskVars
  <2>2. \A s \in Slaves : Bookkeeping(s)'
    BY <2>1 DEF Bookkeeping
  <2>3. DumpsFormed'
    BY <2>1 DEF CountInv, DumpsFormed, Tasks
  <2> QED
    BY <1>3, <2>2, <2>3, RelaunchCovered DEF CountInv
<1> QED
  BY <1>1, <1>2, <1>3 DEF Next, Stopped

LEMMA CountInit == Init => CountInv
<1> SUFFICES ASSUME Init PROVE CountInv
  OBVIOUS
<1>1. ASSUME NEW t \in Tasks
      PROVE  sweeps[t] + Total(OwedOn(t), Slaves) <= Measured(t)
  <2>1. \A s \in Slaves : OwedOn(t)[s] = 0
    BY DEF Init, OwedOn, Owed, Amount
  <2>2. meas[t] = NoRuns /\ DOMAIN NoRuns = {} /\ sweeps[t] = 0
    BY DEF Init, NoRuns
  <2>3. IsFiniteSet({}) /\ \A x \in {} : NoRuns[x] = 0
    BY FS_EmptySet
  <2>4. Total(OwedOn(t), Slaves) = 0
    BY <2>1, SlavesAssumption, TotalOfZeros
  <2>5. Total(NoRuns, {}) = 0
    BY <2>3, TotalOfZeros
  <2> QED
    BY <2>2, <2>4, <2>5 DEF Measured
<1>2. DumpsFormed /\ \A s \in Slaves : Bookkeeping(s)
  BY DEF Init, DumpsFormed, Bookkeeping, NoRuns
<1> QED
  BY <1>1, <1>2 DEF CountInv, Covered

\* The sums that the property is written with.
LEMMA MeasuredIs ==
  ASSUME TypeOK, NEW t \in Tasks
  PROVE  MeasuredOnDisk(t) = Measured(t)
<1> DEFINE S == DOMAIN meas[t]
           f == meas[t]
           d(j, s) == IF s = {} THEN 0 ELSE f[Choice(s)] + j[s \ {Choice(s)}]
           fold == CHOOSE j : j = [s \in SUBSET S |-> d(j, s)]
<1>1. MeasuredOnDisk(t) = fold[S]
  BY DEF MeasuredOnDisk, MapThenSumSet, MapThenFoldSet, Choice
<1>2. \A j : SumsOf(j, f, S) <=> j = [s \in SUBSET S |-> d(j, s)]
  BY DEF SumsOf
<1>3. IsFiniteSet(S)
  BY DEF TypeOK
<1>4. Measured(t) = Total(f, S)
  BY DEF Measured
<1> HIDE DEF S, f, d
<1>5. \E j : SumsOf(j, f, S)
  BY <1>3, SumsExist
<1>6. SumsOf(fold, f, S)
  BY <1>2, <1>5
<1>7. fold[S] = Total(f, S)
  BY <1>3, <1>6, TotalUnique
<1> QED
  BY <1>1, <1>4, <1>7

ReportedOn(t) == [s \in Slaves |-> Reported(s, t)]

LEMMA ReportedIs ==
  ASSUME NEW t \in Tasks
  PROVE  MapThenSumSet(LAMBDA s : Reported(s, t), Slaves) = Total(ReportedOn(t), Slaves)
<1> DEFINE f == ReportedOn(t)
           e(j, s) == IF s = {} THEN 0
                      ELSE Reported(Choice(s), t) + j[s \ {Choice(s)}]
           d(j, s) == IF s = {} THEN 0 ELSE f[Choice(s)] + j[s \ {Choice(s)}]
           fold == CHOOSE j : j = [s \in SUBSET Slaves |-> e(j, s)]
<1>1. MapThenSumSet(LAMBDA s : Reported(s, t), Slaves) = fold[Slaves]
  BY DEF MapThenSumSet, MapThenFoldSet, Choice
<1>2. \A j : \A s \in SUBSET Slaves : e(j, s) = d(j, s)
  BY ChoiceIn DEF ReportedOn
<1>3. \A j : SumsOf(j, f, Slaves) <=> j = [s \in SUBSET Slaves |-> d(j, s)]
  BY DEF SumsOf
<1> HIDE DEF f, e, d
<1>4. \E j : SumsOf(j, f, Slaves)
  BY SlavesAssumption, SumsExist
<1>5. \A j : SumsOf(j, f, Slaves) <=> j = [s \in SUBSET Slaves |-> e(j, s)]
  <2>1. \A j : j = [s \in SUBSET Slaves |-> d(j, s)] <=> j = [s \in SUBSET Slaves |-> e(j, s)]
    BY <1>2
  <2> QED
    BY <1>3, <2>1
<1>6. SumsOf(fold, f, Slaves)
  BY <1>4, <1>5
<1>7. fold[Slaves] = Total(f, Slaves)
  BY <1>6, SlavesAssumption, TotalUnique
<1> QED
  BY <1>1, <1>7 DEF f

LEMMA CoveredMeans == TypeOK /\ CountTypes /\ Protocol /\ CountInv => CountedOnDisk
<1> SUFFICES ASSUME TypeOK, CountTypes, Protocol, CountInv, NEW t \in Tasks
             PROVE  sweeps[t] + MapThenSumSet(LAMBDA s : Reported(s, t), Slaves)
                      <= MeasuredOnDisk(t)
  BY DEF CountedOnDisk
<1> DEFINE f == ReportedOn(t)
           g == OwedOn(t)
<1>1. ASSUME NEW s \in Slaves
      PROVE  f[s] \in Nat /\ g[s] \in Nat /\ f[s] <= g[s]
  <2>1. Amount(s) \in Nat
    BY DEF CountTypes
  <2>2. CASE /\ statusCh[s] # << >> /\ Head(statusCh[s]).type = "busy"
             /\ Head(statusCh[s]).task = t
    <3>1. InProtocol(s) /\ pc[s] \in Places
      BY DEF Protocol, TypeOK
    <3>2. pc[s] # "report" /\ task[s] = t
      BY <2>2, <3>1, Single, MessageKinds DEF InProtocol, Quiet, Places, Owning, Working
    <3> QED
      BY <2>1, <2>2, <3>2 DEF ReportedOn, Reported, OwedOn, Owed, Amount
  <2>3. CASE ~(/\ statusCh[s] # << >> /\ Head(statusCh[s]).type = "busy"
               /\ Head(statusCh[s]).task = t)
    BY <2>1, <2>3 DEF ReportedOn, Reported, OwedOn, Owed
  <2> QED
    BY <2>2, <2>3
<1>2. sweeps[t] + Total(g, Slaves) <= MeasuredOnDisk(t)
  BY MeasuredIs DEF CountInv, Covered
<1>3. MapThenSumSet(LAMBDA s : Reported(s, t), Slaves) = Total(f, Slaves)
  BY ReportedIs
<1>4. sweeps[t] \in Nat /\ Total(g, Slaves) \in Nat /\ MeasuredOnDisk(t) \in Nat
  BY MeasuredIs DEF CountTypes
<1> HIDE DEF f, g
<1>5. Below(f, g, Slaves)
  BY <1>1 DEF Below
<1>6. Total(f, Slaves) <= Total(g, Slaves) /\ Total(f, Slaves) \in Nat
  BY <1>1, <1>5, SlavesAssumption, TotalMonotone, TotalIsNat
<1> QED
  BY <1>2, <1>3, <1>4, <1>6

\* Every sweep the master has counted, or is about to count from a report on
\* its way, is already in the measurement files of a run: a crash never takes
\* back progress that a decision was based on (runner.cpp:187, 195, 232).
THEOREM CountedSweepsAreSaved == Spec => []CountedOnDisk
<1>1. CountInv /\ TypeOK /\ TypeOK' /\ CountTypes /\ CountTypes' /\ Protocol
        /\ FileInv /\ [Next]_vars => CountInv'
  BY CountStep DEF FileInv
<1> QED
  BY <1>1, CountInit, CountTypesHold, CoveredMeans, FilesHold, PTL DEF Spec

-----------------------------------------------------------------------------
(* The results.                                                            *)

\* The merge of task t is still to come: somebody holds a run of it, or has
\* been told to merge it.
Pending(t) == Holders(t) # {} \/ \E s \in Mergers : task[s] = t

MergeToCome == \A t \in assigned : Pending(t) \/ results[t] = meas[t]

\* A rank that is to merge is not distracted from it.
LEMMA MergersStay ==
  ASSUME TypeOK, Protocol, NEW s \in Slaves, MasterStep(s) \/ SlaveStep(s),
         ~MergeMeasurements(s), Merging(s)
  PROVE  Merging(s)'
<1>1. InProtocol(s)
  BY DEF Protocol
<1>2. CASE MasterStep(s)
  <2>1. PICK type : Receives(s, type)
    BY <1>2 DEF MasterStep, Assign, Dismiss, ReactBusy, ReactTimeUp
  <2>2. actionCh[s] = << >> /\ statusCh[s] # << >>
    BY <2>1, Sender
  <2> QED
    BY <1>1, <2>2 DEF Merging, InProtocol, Quiet
<1>3. CASE SlaveStep(s)
  <2>1. RecvVerdict(s) /\ pc[s] = "verdict"
    BY <1>3 DEF SlaveStep, SendIdle, RecvAction, RecvJob, LoadRead, LoadInit, Sweep,
                Checkpoint, ReportBusy, ReportTimeUp, RecvVerdict, Merging
  <2>2. Head(actionCh[s]) = "process"
    BY <2>1, Single DEF Merging
  <2>3. pc'[s] = "merge"
    BY <2>1, <2>2 DEF RecvVerdict, TypeOK
  <2> QED
    BY <2>3 DEF Merging
<1> QED
  BY <1>2, <1>3

\* Only a merge takes a task off the list of those to be merged.
LEMMA StaysPending ==
  ASSUME TypeOK, Protocol, LeaseInv, NEW s \in Slaves, MasterStep(s) \/ SlaveStep(s),
         NEW t \in Tasks, Pending(t), ~(MergeMeasurements(s) /\ task[s] = t)
  PROVE  Pending(t)'
<1>1. \/ Kept \/ \E q \in Slaves, u \in Tasks : Granted(q, u) \/ Freed(q, u)
  <2>1. launches \in Int
    BY LaunchAssumption DEF TypeOK
  <2>2. launches' = launches
    BY DEF MasterStep, SlaveStep, Assign, Dismiss, ReactBusy, ReactTimeUp, SendIdle,
           RecvAction, RecvJob, LoadRead, LoadInit, Sweep, Checkpoint, ReportBusy,
           ReportTimeUp, RecvVerdict, MergeMeasurements, launchVars
  <2>3. LeaseStep
    BY LeaseStepHolds DEF Next
  <2> QED
    BY <2>1, <2>2, <2>3 DEF LeaseStep, Restarted
<1>2. ASSUME NEW q \in Mergers, task[q] = t, task'[q] = task[q], q \in Mergers'
      PROVE  Pending(t)'
  BY <1>2 DEF Pending
<1>3. CASE Kept
  <2>1. Holders(t)' = Holders(t) /\ \A q \in Mergers : task'[q] = task[q]
    BY <1>3 DEF Kept, Holders
  <2>2. ASSUME NEW q \in Mergers, task[q] = t PROVE q \in Mergers'
    <3>1. CASE q # s
      <4>1. q \in Slaves /\ pc'[q] = pc[q] /\ actionCh'[q] = actionCh[q]
        BY <3>1, Frame DEF Mergers
      <4> QED
        BY <4>1 DEF Mergers
    <3>2. CASE q = s
      <4>1. Merging(s)'
        BY <2>2, <3>2, MergersStay DEF Mergers, Merging
      <4> QED
        BY <3>2, <4>1 DEF Mergers, Merging
    <3> QED
      BY <3>1, <3>2
  <2> QED
    BY <2>1, <2>2 DEF Pending
<1>4. ASSUME NEW q \in Slaves, NEW u \in Tasks, Granted(q, u) PROVE Pending(t)'
  <2>1. /\ LeaseOf(q) = NoLease /\ \A p \in Slaves \ {q} : LeaseOf(p)' = LeaseOf(p)
        /\ Mergers' = Mergers /\ \A p \in Mergers : task'[p] = task[p]
    BY <1>4 DEF Granted
  <2>2. q \notin Holders(t)
    BY <2>1 DEF Holders, NoLease, NoTask, Tasks
  <2>3. Holders(t) \subseteq Holders(t)'
    BY <2>1, <2>2 DEF Holders
  <2> QED
    BY <2>1, <2>3 DEF Pending
<1>5. ASSUME NEW q \in Slaves, NEW u \in Tasks, Freed(q, u) PROVE Pending(t)'
  <2>1. /\ LeaseOf(q)[1] = u
        /\ \A p \in Slaves \ {q} : LeaseOf(p)' = LeaseOf(p)
        /\ Mergers' = IF scheduled[u] > 1 THEN Mergers ELSE Mergers \cup {q}
        /\ task[q] = u /\ task' = task
    BY <1>5 DEF Freed
  <2>2. Mergers \subseteq Mergers'
    BY <2>1
  <2>3. CASE \E p \in Mergers : task[p] = t
    BY <2>1, <2>2, <2>3 DEF Pending
  <2>4. CASE u # t /\ Holders(t) # {}
    <3>1. Holders(t) \subseteq Holders(t)'
      BY <2>1, <2>4 DEF Holders
    <3> QED
      BY <2>4, <3>1 DEF Pending
  <2>5. CASE u = t /\ ~(scheduled[u] > 1)
    BY <2>1, <2>5 DEF Pending
  <2>6. CASE u = t /\ scheduled[u] > 1
    <3>1. q \in Holders(t) /\ Holders(t) \ {q} \subseteq Holders(t)'
      BY <2>1, <2>6 DEF Holders
    <3>2. Cardinality(Holders(t)) > 1 /\ IsFiniteSet(Holders(t))
      BY <2>6, HoldersFinite DEF LeaseInv, HoldersCounted
    <3>3. Cardinality(Holders(t) \ {q}) = Cardinality(Holders(t)) - 1
      BY <3>1, <3>2, FS_RemoveElement
    <3>4. Holders(t) \ {q} # {}
      <4>1. Cardinality(Holders(t)) \in Nat /\ Cardinality({}) = 0
        BY HoldersFinite, FS_EmptySet
      <4> QED
        BY <3>2, <3>3, <4>1
    <3> QED
      BY <3>1, <3>4 DEF Pending
  <2> QED
    BY <2>3, <2>4, <2>5, <2>6 DEF Pending
<1> QED
  BY <1>1, <1>3, <1>4, <1>5

LEMMA MergeStep ==
  TypeOK /\ Protocol /\ LeaseInv /\ MergeToCome /\ [Next]_vars => MergeToCome'
<1> SUFFICES ASSUME TypeOK, Protocol, LeaseInv, MergeToCome, [Next]_vars
             PROVE  MergeToCome'
  OBVIOUS
<1> USE DEF diskVars
<1>1. assigned \subseteq Tasks /\ DOMAIN results = Tasks /\ DOMAIN meas = Tasks
  BY DEF TypeOK
<1>2. ASSUME NEW s \in Slaves, MasterStep(s) \/ SlaveStep(s), NEW t \in assigned'
      PROVE  Pending(t)' \/ results'[t] = meas'[t]
  <2>1. CASE t \notin assigned
    <3>1. Assign(s)
      BY <1>2, <2>1 DEF MasterStep, SlaveStep, Dismiss, ReactBusy, ReactTimeUp, SendIdle,
           RecvAction, RecvJob, LoadRead, LoadInit, Sweep, Checkpoint, ReportBusy,
           ReportTimeUp, RecvVerdict, MergeMeasurements
    <3>2. PICK u \in Tasks : Granted(s, u)
      BY <3>1, AssignGrants
    <3> DEFINE v == GetNewTaskId(current, NTasks, DoneTasks)
    <3>3. v \in Tasks
      BY <3>1, NextTaskCorrect DEF Assign
    <3>4. assigned' = assigned \cup {v} /\ scheduled' = [scheduled EXCEPT ![v] = @ + 1]
      BY <3>1 DEF Assign
    <3>5. scheduled' = [scheduled EXCEPT ![u] = @ + 1] /\ LeaseOf(s)'[1] = u
      BY <3>2 DEF Granted
    <3> HIDE DEF v
    <3>6. u = v
      BY <3>3, <3>4, <3>5 DEF TypeOK
    <3>7. s \in Holders(t)'
      BY <2>1, <3>4, <3>5, <3>6 DEF Holders
    <3> QED
      BY <3>7 DEF Pending
  <2>2. CASE t \in assigned /\ MergeMeasurements(s) /\ task[s] = t
    BY <1>1, <2>2 DEF MergeMeasurements
  <2>3. CASE t \in assigned /\ Pending(t) /\ ~(MergeMeasurements(s) /\ task[s] = t)
    BY <1>1, <1>2, <2>3, StaysPending
  <2>4. CASE t \in assigned /\ ~Pending(t) /\ ~(MergeMeasurements(s) /\ task[s] = t)
    <3>1. results[t] = meas[t]
      BY <2>4 DEF MergeToCome
    <3>2. CASE LoadInit(s) \/ Checkpoint(s)
      <4>1. PICK m \in [sweep : Nat, unsaved : Nat] : CheckpointOf(task[s], run[s], m)
        BY <3>2 DEF LoadInit, Checkpoint, TypeOK, NoSys
      <4>2. pc[s] \in Working /\ results' = results
        BY <3>2 DEF LoadInit, Checkpoint, Working
      <4>3. LeaseOf(s) = <<task[s], run[s]>> /\ task[s] \in Tasks
        BY <4>2, LeaseByPlace DEF TypeOK, Owning
      <4>4. task[s] # t
        BY <2>4, <4>3 DEF Pending, Holders
      <4>5. meas'[t] = meas[t]
        BY <1>1, <4>1, <4>3, <4>4 DEF CheckpointOf
      <4> QED
        BY <3>1, <4>2, <4>5
    <3>3. CASE MergeMeasurements(s)
      BY <1>1, <2>4, <3>1, <3>3 DEF MergeMeasurements
    <3>4. CASE ~LoadInit(s) /\ ~Checkpoint(s) /\ ~MergeMeasurements(s)
      <4>1. results' = results /\ meas' = meas
        BY <1>2, <3>4 DEF MasterStep, SlaveStep, Assign, Dismiss, ReactBusy, ReactTimeUp,
             SendIdle, RecvAction, RecvJob, LoadRead, Sweep, ReportBusy, ReportTimeUp,
             RecvVerdict
      <4> QED
        BY <3>1, <4>1
    <3> QED
      BY <3>2, <3>3, <3>4
  <2> QED
    BY <2>1, <2>2, <2>3, <2>4
<1>3. ASSUME Finalize \/ Crash \/ UNCHANGED vars, NEW t \in assigned'
      PROVE  Pending(t)' \/ results'[t] = meas'[t]
  <2>1. UNCHANGED <<pc, task, run, jobCh, actionCh, meas, assigned>>
    BY <1>3 DEF Finalize, Crash, vars, slaveVars, netVars
  <2>2. Pending(t)' <=> Pending(t)
    BY <2>1 DEF Pending, Holders, LeaseOf, Mergers
  <2>3. CASE Crash
    <3>1. PICK cut \in SUBSET {task[s] : s \in {q \in Slaves : pc[q] = "merge"}} :
            results' = [u \in Tasks |-> IF u \in cut THEN Torn ELSE results[u]]
      BY <2>3 DEF Crash
    <3>2. CASE t \in cut
      <4>1. Pending(t)
        BY <3>2 DEF Pending, Mergers
      <4> QED
        BY <2>2, <4>1
    <3>3. CASE t \notin cut
      <4>1. results'[t] = results[t] /\ t \in assigned
        BY <1>1, <2>1, <3>1, <3>3
      <4> QED
        BY <2>1, <2>2, <4>1 DEF MergeToCome
    <3> QED
      BY <3>2, <3>3
  <2>4. CASE Finalize \/ UNCHANGED vars
    <3>1. results' = results
      BY <2>4 DEF Finalize, vars
    <3> QED
      BY <2>1, <2>2, <3>1 DEF MergeToCome
  <2> QED
    BY <1>3, <2>3, <2>4
<1>4. CASE Relaunch
  BY <1>4 DEF Relaunch, RanksStart, MergeToCome
<1> QED
  BY <1>2, <1>3, <1>4 DEF Next, Stopped, MergeToCome

\* A launch that completes with every slave dismissed leaves results merged
\* from the final measurement files, for each task it worked on
\* (runner.cpp:111-122).
THEOREM ResultsAreFresh == Spec => []FreshResults
<1>1. Init => MergeToCome
  BY DEF Init, MergeToCome
<1>2. TypeOK /\ Protocol /\ LeaseInv /\ MergeToCome => FreshResults
  <2> SUFFICES ASSUME TypeOK, Protocol, MergeToCome, NEW t \in assigned,
                      \A s \in Slaves : pc[s] = "exited"
               PROVE  results[t] = meas[t]
    BY DEF FreshResults
  <2>1. t \in Tasks /\ \A s \in Slaves : LeaseOf(s) = NoLease
    BY LeaseByPlace DEF TypeOK
  <2>2. Holders(t) = {}
    BY <2>1 DEF Holders, NoLease, NoTask, Tasks
  <2>3. Mergers = {}
    BY DEF Mergers
  <2> QED
    BY <2>2, <2>3 DEF MergeToCome, Pending
<1> QED
  BY <1>1, <1>2, MergeStep, LeasesHold, PTL DEF Spec

-----------------------------------------------------------------------------
(* The end of a launch.                                                    *)

LEMMA DistinctAnswers ==
  /\ <<"exit">> # << >> /\ <<"exit">> # <<"new_job">>
  /\ <<"continue">> \notin {<<"new_job">>, <<"process">>, <<"exit">>}
  /\ << >> \notin {<<"new_job">>, <<"process">>, <<"exit">>}
OBVIOUS

-----------------------------------------------------------------------------
(* num_active_ranks_.                                                      *)

Active == {s \in Slaves : ~Finished(s)}

LEMMA ActiveFinite == IsFiniteSet(Active) /\ Cardinality(Active) \in Nat
<1>1. Active \in SUBSET Slaves
  BY DEF Active
<1> QED
  BY <1>1, SlavesAssumption, FS_Subset, FS_CardinalityType

LEMMA ActiveFrame ==
  ASSUME TypeOK, NEW s \in Slaves, MasterStep(s) \/ SlaveStep(s)
  PROVE  /\ (Finished(s)' <=> Finished(s)) => Active' = Active
         /\ ~Finished(s) /\ Finished(s)' => s \in Active /\ Active' = Active \ {s}
<1>1. ASSUME NEW q \in Slaves \ {s} PROVE Finished(q)' <=> Finished(q)
  BY <1>1, Frame DEF Finished
<1>2. Active = {q \in Slaves : ~Finished(q)} /\ Active' = {q \in Slaves : ~Finished(q)'}
  BY DEF Active
<1>3. Finished(s) \in BOOLEAN /\ Finished(s)' \in BOOLEAN
  BY DEF Finished
<1> HIDE DEF Finished
<1> QED
  BY <1>1, <1>2, <1>3

\* A slave's steps do not finish it, and the master's finish it when they
\* dismiss it or learn that it has left.
LEMMA FinishedStep ==
  ASSUME TypeOK, Protocol, NEW s \in Slaves, MasterStep(s) \/ SlaveStep(s)
  PROVE  IF Dismiss(s) \/ ReactTimeUp(s)
         THEN ~Finished(s) /\ Finished(s)' /\ numActive' = numActive - 1
         ELSE (Finished(s)' <=> Finished(s)) /\ numActive' = numActive
<1>0. InProtocol(s) /\ TypeOK' /\ pc[s] \in Places
  BY TypeStep DEF Protocol, TypeOK, Next
<1> USE DistinctAnswers DEF slaveVars, masterVars, netVars
<1>1. CASE Dismiss(s)
  <2>1. Receives(s, "idle") /\ actionCh' = Push(actionCh, s, "exit")
        /\ numActive' = numActive - 1
    BY <1>1 DEF Dismiss
  <2>2. pc[s] = "await_action" /\ actionCh[s] = << >> /\ actionCh'[s] = <<"exit">>
    BY <2>1, Sender, Sent, ChannelDomains
  <2> QED
    BY <1>1, <2>1, <2>2 DEF Finished
<1>2. CASE ReactTimeUp(s)
  <2>1. Receives(s, "timeup") /\ UNCHANGED <<pc, actionCh>> /\ numActive' = numActive - 1
    BY <1>2 DEF ReactTimeUp
  <2>2. pc[s] = "left" /\ actionCh[s] = << >> /\ statusCh[s] # << >> /\ statusCh'[s] = << >>
    BY <2>1, Sender
  <2> QED
    BY <1>2, <2>1, <2>2 DEF Finished
<1>3. CASE Assign(s)
  <2>1. Receives(s, "idle") /\ pc' = pc /\ numActive' = numActive
    BY <1>3 DEF Assign
  <2>2. pc[s] = "await_action" /\ actionCh[s] = << >>
    BY <2>1, Sender
  <2>3. actionCh'[s] = <<"new_job">>
    <3>1. actionCh' = Push(actionCh, s, "new_job")
      BY <1>3 DEF Assign
    <3> QED
      BY <2>2, <3>1, Sent, ChannelDomains
  <2>4. ~Dismiss(s) /\ ~ReactTimeUp(s)
    <3>1. GetNewTaskId(current, NTasks, DoneTasks) # NoTask
      BY <1>3 DEF Assign
    <3>2. Head(statusCh[s]).type = "idle"
      BY <2>1 DEF Receives
    <3> QED
      BY <3>1, <3>2 DEF Dismiss, ReactTimeUp, Receives
  <2> QED
    BY <2>1, <2>2, <2>3, <2>4 DEF Finished
<1>4. CASE ReactBusy(s)
  <2>1. Receives(s, "busy") /\ pc' = pc /\ numActive' = numActive
    BY <1>4 DEF ReactBusy
  <2>2. pc[s] = "verdict" /\ actionCh[s] = << >>
    BY <2>1, Sender
  <2>3. actionCh'[s] \in {<<"continue">>, <<"new_job">>, <<"process">>}
    BY <1>4, <2>2, Sent, ChannelDomains DEF ReactBusy, Verdict
  <2>4. ~Dismiss(s) /\ ~ReactTimeUp(s)
    BY <2>1 DEF Receives, Dismiss, ReactTimeUp
  <2> QED
    BY <2>1, <2>2, <2>3, <2>4 DEF Finished
<1>5. CASE SlaveStep(s)
  <2>1. numActive' = numActive
    BY <1>5 DEF SlaveStep, SendIdle, RecvAction, RecvJob, LoadRead, LoadInit, Sweep,
                Checkpoint, ReportBusy, ReportTimeUp, RecvVerdict, MergeMeasurements
  <2>2. ~Dismiss(s) /\ ~ReactTimeUp(s)
    <3>1. ASSUME Dismiss(s) \/ ReactTimeUp(s) PROVE FALSE
      <4>1. numActive' = numActive - 1
        BY <3>1 DEF Dismiss, ReactTimeUp
      <4>2. numActive \in Int
        BY DEF TypeOK
      <4> QED
        BY <2>1, <4>1, <4>2
    <3> QED
      BY <3>1
  <2>3. SUFFICES Finished(s)' <=> Finished(s)
    BY <2>1, <2>2
  <2>4. CASE RecvAction(s)
    <3>1. /\ pc[s] = "await_action" /\ statusCh[s] = << >>
          /\ actionCh[s] \in {<<"exit">>, <<"new_job">>}
      BY <1>0, <2>4 DEF RecvAction, InProtocol
    <3>2. pc'[s] = IF Head(actionCh[s]) = "exit" THEN "exited" ELSE "await_job"
      BY <2>4 DEF RecvAction, TypeOK
    <3>3. actionCh'[s] = << >>
      <4>1. Tail(actionCh[s]) = << >> /\ actionCh' = Pop(actionCh, s)
        BY <2>4, <3>1, Single DEF RecvAction
      <4> QED
        BY <4>1, Taken, ChannelDomains
    <3>4. CASE actionCh[s] = <<"exit">>
      BY <3>2, <3>4, Single DEF Finished
    <3>5. CASE actionCh[s] = <<"new_job">>
      <4>1. pc'[s] = "await_job"
        BY <3>2, <3>5, Single
      <4> QED
        BY <3>1, <3>3, <3>5, <4>1 DEF Finished
    <3> QED
      BY <3>1, <3>4, <3>5
  <2>5. CASE SendIdle(s) \/ RecvJob(s) \/ MergeMeasurements(s)
    <3>1. /\ pc[s] \in {"start", "await_job", "merge"} /\ actionCh[s] = << >>
          /\ pc'[s] \in {"await_action", "load"} /\ actionCh' = actionCh
      BY <1>0, <2>5 DEF SendIdle, RecvJob, MergeMeasurements, InProtocol, Quiet, TypeOK
    <3> QED
      BY <3>1 DEF Finished
  <2>6. CASE LoadRead(s) \/ LoadInit(s) \/ Sweep(s) \/ Checkpoint(s) \/ ReportBusy(s)
    <3>1. /\ pc[s] \in Working /\ actionCh[s] = << >>
          /\ pc'[s] \in Working \cup {"verdict"} /\ actionCh' = actionCh
      BY <1>0, <2>6 DEF LoadRead, LoadInit, Sweep, Checkpoint, ReportBusy, EnterLoop,
                        InProtocol, Quiet, TypeOK, Working
    <3> QED
      BY <3>1 DEF Finished, Working
  <2>7. CASE ReportTimeUp(s)
    <3>1. /\ pc[s] = "report" /\ actionCh[s] = << >> /\ statusCh[s] = << >>
          /\ pc'[s] = "left" /\ actionCh' = actionCh
      BY <1>0, <2>7 DEF ReportTimeUp, InProtocol, Quiet, TypeOK, Working
    <3>2. statusCh'[s] # << >>
      BY <2>7, <3>1, Sent, Single, ChannelDomains DEF ReportTimeUp, SendStatus
    <3> QED
      BY <3>1, <3>2 DEF Finished
  <2>8. CASE RecvVerdict(s)
    <3>1. /\ pc[s] = "verdict" /\ actionCh[s] # <<"exit">> /\ Tail(actionCh[s]) = << >>
          /\ pc'[s] \in Working \cup {"merge", "await_action"}
      BY <1>0, <2>8, Single DEF RecvVerdict, EnterLoop, InProtocol, TypeOK, Working
    <3>2. actionCh'[s] = << >>
      BY <2>8, <3>1, Taken, ChannelDomains DEF RecvVerdict
    <3> QED
      BY <3>1, <3>2 DEF Finished, Working
  <2> QED
    BY <1>5, <2>4, <2>5, <2>6, <2>7, <2>8 DEF SlaveStep
<1> QED
  BY <1>1, <1>2, <1>3, <1>4, <1>5 DEF MasterStep

LEMMA ActiveStep ==
  ASSUME TypeOK, Protocol, ActiveCounted, [Next]_vars
  PROVE  ActiveCounted'
<1>0. numActive = 1 + Cardinality(Active) /\ (ActiveCounted' <=> numActive' = 1 + Cardinality(Active'))
  BY DEF ActiveCounted, Active
<1>1. ASSUME NEW s \in Slaves, MasterStep(s) \/ SlaveStep(s) PROVE ActiveCounted'
  <2>1. CASE Dismiss(s) \/ ReactTimeUp(s)
    <3>1. ~Finished(s) /\ Finished(s)' /\ numActive' = numActive - 1
      BY <1>1, <2>1, FinishedStep
    <3>2. s \in Active /\ Active' = Active \ {s}
      BY <1>1, <3>1, ActiveFrame
    <3>3. Cardinality(Active \ {s}) = Cardinality(Active) - 1
      BY <3>2, ActiveFinite, FS_RemoveElement
    <3> QED
      BY <1>0, <3>1, <3>2, <3>3, ActiveFinite
  <2>2. CASE ~(Dismiss(s) \/ ReactTimeUp(s))
    <3>1. (Finished(s)' <=> Finished(s)) /\ numActive' = numActive
      BY <1>1, <2>2, FinishedStep
    <3>2. Active' = Active
      BY <1>1, <3>1, ActiveFrame
    <3> QED
      BY <1>0, <3>1, <3>2
  <2> QED
    BY <2>1, <2>2
<1>2. CASE Finalize \/ Crash \/ UNCHANGED vars
  <2>1. UNCHANGED <<numActive, pc, statusCh, actionCh>>
    BY <1>2 DEF Finalize, Crash, vars, masterVars, slaveVars, netVars
  <2>2. Active' = Active
    BY <2>1 DEF Active, Finished
  <2> QED
    BY <1>0, <2>1, <2>2
<1>3. CASE Relaunch
  <2>1. /\ numActive' = Cardinality(Slaves) + 1
        /\ pc' = [s \in Slaves |-> "start"] /\ actionCh' = [s \in Slaves |-> << >>]
    BY <1>3 DEF Relaunch, RanksStart
  <2>2. Active' = Slaves
    BY <2>1, DistinctAnswers DEF Active, Finished
  <2>3. Cardinality(Slaves) \in Nat
    BY SlavesAssumption, FS_CardinalityType
  <2> QED
    BY <1>0, <2>1, <2>2, <2>3
<1> QED
  BY <1>1, <1>2, <1>3 DEF Next, Stopped

-----------------------------------------------------------------------------
(* What the last search for a task says.                                   *)

\* A slave that asks for a task goes on asking until it is answered, and no
\* other starts to without the master.
LEMMA AskingStep ==
  ASSUME TypeOK, Protocol, NEW s \in Slaves, ReactTimeUp(s) \/ SlaveStep(s)
  PROVE  /\ \A q \in Slaves : Asking(q)' <=> Asking(q)
         /\ current' = current /\ DoneTasks' = DoneTasks
<1>0. InProtocol(s) /\ pc[s] \in Places
  BY DEF Protocol, TypeOK
<1> USE DistinctAnswers DEF slaveVars, masterVars, netVars
<1>1. current' = current /\ sweeps' = sweeps
  BY DEF SlaveStep, SendIdle, RecvAction, RecvJob, LoadRead, LoadInit, Sweep, Checkpoint,
         ReportBusy, ReportTimeUp, RecvVerdict, MergeMeasurements, ReactTimeUp
<1>2. \A q \in Slaves \ {s} : Asking(q)' <=> Asking(q)
  BY Frame DEF Asking, MasterStep
<1>3. SUFFICES Asking(s)' <=> Asking(s)
  BY <1>1, <1>2, SameProgress
<1>4. CASE ReactTimeUp(s)
  <2>1. Receives(s, "timeup") /\ pc' = pc
    BY <1>4 DEF ReactTimeUp
  <2>2. pc[s] = "left"
    BY <2>1, Sender
  <2> QED
    BY <2>1, <2>2 DEF Asking
<1>5. CASE SendIdle(s) \/ MergeMeasurements(s)
  <2>1. /\ pc[s] \in {"start", "merge"} /\ pc'[s] = "await_action"
        /\ statusCh[s] = << >>
    BY <1>0, <1>5 DEF SendIdle, MergeMeasurements, InProtocol, Quiet, TypeOK
  <2>2. statusCh'[s] # << >>
    BY <1>5, <2>1, Sent, Single, ChannelDomains DEF SendIdle, MergeMeasurements, SendStatus
  <2> QED
    BY <2>1, <2>2 DEF Asking
<1>6. CASE RecvAction(s) \/ RecvJob(s)
  <2>1. /\ pc[s] \in {"await_action", "await_job"} /\ statusCh[s] = << >>
        /\ pc'[s] \in {"exited", "await_job", "load"}
    BY <1>0, <1>6 DEF RecvAction, RecvJob, InProtocol, TypeOK
  <2> QED
    BY <2>1 DEF Asking
<1>7. CASE LoadRead(s) \/ LoadInit(s) \/ Sweep(s) \/ Checkpoint(s) \/ ReportTimeUp(s)
  <2>1. pc[s] \in Working /\ pc'[s] \in Working \cup {"left"}
    BY <1>7 DEF LoadRead, LoadInit, Sweep, Checkpoint, ReportTimeUp, EnterLoop, TypeOK,
                Working
  <2> QED
    BY <2>1 DEF Asking, Working
<1>8. CASE ReportBusy(s)
  <2>1. /\ pc[s] = "report" /\ pc'[s] = "verdict" /\ actionCh[s] = << >>
        /\ actionCh' = actionCh
    BY <1>0, <1>8 DEF ReportBusy, InProtocol, Quiet, TypeOK, Working
  <2> QED
    BY <2>1 DEF Asking
<1>9. CASE RecvVerdict(s)
  <2>1. /\ pc[s] = "verdict" /\ statusCh[s] = << >>
        /\ actionCh[s] \in {<<"continue">>, <<"new_job">>, <<"process">>}
        /\ pc'[s] = IF Head(actionCh[s]) = "new_job" THEN "await_action"
                    ELSE IF Head(actionCh[s]) = "process" THEN "merge"
                    ELSE EnterLoop(since[s], before[s])
    BY <1>0, <1>9 DEF RecvVerdict, InProtocol, TypeOK
  <2>2. CASE actionCh[s] = <<"new_job">>
    <3>1. pc'[s] = "await_action" /\ statusCh' = Push(statusCh, s, IdleMsg)
      BY <1>9, <2>1, <2>2, Single DEF RecvVerdict
    <3>2. statusCh'[s] # << >>
      BY <2>1, <3>1, Sent, Single, ChannelDomains
    <3> QED
      BY <2>1, <2>2, <3>1, <3>2 DEF Asking
  <2>3. CASE actionCh[s] = <<"process">>
    <3>1. pc'[s] = "merge"
      BY <2>1, <2>3, Single
    <3> QED
      BY <2>1, <2>3, <3>1 DEF Asking
  <2>4. CASE actionCh[s] = <<"continue">>
    <3>1. pc'[s] \in Working
      BY <2>1, <2>4, Single DEF EnterLoop, Working
    <3> QED
      BY <2>1, <2>4, <3>1 DEF Asking, Working
  <2> QED
    BY <2>1, <2>2, <2>3, <2>4
<1> QED
  BY <1>4, <1>5, <1>6, <1>7, <1>8, <1>9 DEF SlaveStep

LEMMA ScanStep ==
  ASSUME TypeOK, Protocol, ScanMeaning, [Next]_vars
  PROVE  ScanMeaning'
<1>1. ASSUME NEW s \in Slaves, Assign(s) \/ Dismiss(s) PROVE ScanMeaning'
  <2> DEFINE t == GetNewTaskId(current, NTasks, DoneTasks)
  <2>1. current' = t /\ DoneTasks' = DoneTasks
    BY <1>1, SameProgress DEF Assign, Dismiss
  <2>2. t = NoTask <=> DoneTasks = Tasks
    BY NextTaskCorrect
  <2> HIDE DEF t
  <2>3. NoTask' = NoTask /\ Tasks' = Tasks
    BY DEF NoTask, Tasks
  <2> QED
    BY <2>1, <2>2, <2>3 DEF ScanMeaning
<1>2. ASSUME NEW s \in Slaves, ReactBusy(s) PROVE ScanMeaning'
  <2>1. Receives(s, "busy") /\ current' = current
    BY <1>2 DEF ReactBusy
  <2>2. pc[s] = "verdict" /\ actionCh[s] = << >> /\ task[s] \in Tasks
    BY <2>1, Sender
  <2>3. ~Asking(s)
    BY <2>2, DistinctAnswers DEF Asking
  <2>4. \A q \in Slaves \ {s} : Asking(q)' <=> Asking(q)
    BY <1>2, Frame DEF Asking, MasterStep
  <2>5. \/ DoneTasks' = DoneTasks
        \/ DoneTasks' = DoneTasks \cup {task[s]} /\ Asking(s)'
    <3>1. CASE Kept
      BY <3>1 DEF Kept
    <3>2. CASE Freed(s, task[s])
      <4>1. DoneTasks' = DoneTasks \cup {task[s]} /\ LeaseOf(s)' = NoLease
        BY <3>2 DEF Freed
      <4>2. pc'[s] = "verdict"
        BY <1>2, <2>2 DEF ReactBusy, slaveVars
      <4>3. actionCh'[s] \in {<<"continue">>, <<"new_job">>, <<"process">>}
        BY <1>2, <2>2, Sent, ChannelDomains DEF ReactBusy, Verdict
      <4>4. TypeOK' /\ Protocol'
        BY TypeStep, ProtocolStep
      <4>5. task'[s] \in Tasks
        BY <4>2, <4>4 DEF TypeOK, Owning
      <4>6. actionCh'[s] # <<"continue">>
        <5>1. SUFFICES ASSUME actionCh'[s] = <<"continue">> PROVE FALSE
          OBVIOUS
        <5>2. LeaseOf(s)' = <<task'[s], run'[s]>>
          <6>1. jobCh'[s] = << >>
            BY <4>2, <4>4 DEF Protocol, InProtocol
          <6> QED
            BY <4>2, <5>1, <6>1 DEF LeaseOf
        <5> QED
          BY <4>1, <4>5, <5>2 DEF NoLease, NoTask, Tasks
      <4> QED
        BY <4>1, <4>2, <4>3, <4>6 DEF Asking
    <3> QED
      BY <1>2, <3>1, <3>2, ReportFrees
  <2>6. CASE DoneTasks' = DoneTasks
    BY <2>1, <2>3, <2>4, <2>6 DEF ScanMeaning, Tasks, NoTask
  <2>7. CASE DoneTasks' = DoneTasks \cup {task[s]} /\ Asking(s)'
    <3>1. current = NoTask => DoneTasks = Tasks
      BY <2>3 DEF ScanMeaning
    <3> QED
      BY <2>1, <2>2, <2>7, <3>1 DEF ScanMeaning, Tasks, NoTask
  <2> QED
    BY <2>5, <2>6, <2>7
<1>3. ASSUME NEW s \in Slaves, ReactTimeUp(s) \/ SlaveStep(s) PROVE ScanMeaning'
  BY <1>3, AskingStep DEF ScanMeaning, NoTask, Tasks
<1>4. CASE Finalize \/ Crash \/ UNCHANGED vars
  <2>1. UNCHANGED <<current, sweeps, pc, statusCh, actionCh>>
    BY <1>4 DEF Finalize, Crash, vars, masterVars, slaveVars, netVars
  <2> QED
    BY <2>1 DEF ScanMeaning, Asking, DoneTasks, NoTask, Tasks
<1>5. CASE Relaunch
  <2>1. current' = NoTask /\ pc' = [s \in Slaves |-> "start"]
    BY <1>5 DEF Relaunch, RanksStart
  <2> QED
    BY <2>1 DEF ScanMeaning, Asking, NoTask
<1> QED
  BY <1>1, <1>2, <1>3, <1>4, <1>5 DEF Next, MasterStep, Stopped

-----------------------------------------------------------------------------
(* At the barrier.                                                         *)

\* What holds once the ranks have passed the barrier.
AtBarrier == phase = "ended" =>
  /\ \A s \in Slaves : Quiet(s)
  /\ rc = 0 <=> DoneTasks = Tasks

LEMMA AllFinished ==
  ASSUME TypeOK, ActiveCounted, numActive <= 1, NEW s \in Slaves
  PROVE  Finished(s)
<1>1. numActive = 1 + Cardinality(Active)
  BY DEF ActiveCounted, Active
<1>2. Active = {}
  BY <1>1, ActiveFinite, FS_EmptySet
<1> QED
  BY <1>2 DEF Active

LEMMA BarrierStep ==
  ASSUME IInv, AtBarrier, [Next]_vars
  PROVE  AtBarrier'
<1> USE DEF IInv
<1>1. CASE Finalize
  <2>1. /\ numActive <= 1 /\ \A s \in Slaves : pc[s] \in {"exited", "left"}
        /\ rc' = IF current < 0 THEN 0 ELSE 1
        /\ UNCHANGED <<sweeps, statusCh, actionCh, jobCh>>
    BY <1>1 DEF Finalize, masterVars, netVars
  <2>2. ASSUME NEW s \in Slaves PROVE Quiet(s)'
    <3>1. InProtocol(s) /\ Finished(s) /\ pc[s] \in {"exited", "left"}
      BY <2>1, AllFinished DEF Protocol
    <3>2. Quiet(s)
      BY <3>1, DistinctAnswers DEF InProtocol, Finished, Quiet, Working
    <3> QED
      BY <2>1, <3>2 DEF Quiet
  <2>3. \A s \in Slaves : ~Asking(s)
    BY <2>1 DEF Asking
  <2>4. current = NoTask <=> DoneTasks = Tasks
    BY <2>3, SlavesAssumption DEF ScanMeaning
  <2>5. current < 0 <=> current = NoTask
    BY DEF TypeOK, Tasks, NoTask
  <2>6. rc' = 0 <=> DoneTasks' = Tasks
    BY <2>1, <2>4, <2>5, SameProgress
  <2> QED
    BY <2>2, <2>6 DEF AtBarrier, Tasks
<1>2. CASE UNCHANGED vars
  BY <1>2 DEF vars, launchVars, netVars, masterVars, AtBarrier, Quiet, DoneTasks, Tasks
<1>3. CASE Crash \/ Relaunch
  BY <1>3 DEF Crash, Relaunch, AtBarrier
<1>4. ASSUME NEW s \in Slaves, MasterStep(s) \/ SlaveStep(s) PROVE AtBarrier'
  <2>1. phase' # "ended"
    BY <1>4 DEF MasterStep, SlaveStep, SendIdle, RecvAction, RecvJob, LoadRead, LoadInit,
                Sweep, Checkpoint, ReportBusy, ReportTimeUp, RecvVerdict,
                MergeMeasurements, Assign, Dismiss, ReactBusy, ReactTimeUp, Receives,
                launchVars
  <2> QED
    BY <2>1 DEF AtBarrier
<1> QED
  BY <1>1, <1>2, <1>3, <1>4 DEF Next, Stopped

LEMMA EndHolds == Spec => [](IInv /\ AtBarrier)
<1>1. Init => IInv /\ AtBarrier
  <2> SUFFICES ASSUME Init PROVE ActiveCounted /\ ScanMeaning /\ AtBarrier
    BY TypeInit, ProtocolInit, LeaseInit DEF IInv
  <2>1. Active = Slaves /\ Cardinality(Slaves) \in Nat
    BY DistinctAnswers, SlavesAssumption, FS_CardinalityType DEF Init, Active, Finished
  <2>2. ActiveCounted
    <3>1. numActive = Cardinality(Slaves) + 1
      BY DEF Init
    <3>2. ActiveCounted <=> numActive = 1 + Cardinality(Active)
      BY DEF ActiveCounted, Active
    <3> QED
      BY <2>1, <3>1, <3>2
  <2>3. ScanMeaning
    BY DEF Init, ScanMeaning, Asking
  <2> QED
    BY <2>2, <2>3 DEF Init, AtBarrier
<1>2. IInv /\ AtBarrier /\ [Next]_vars => (IInv /\ AtBarrier)'
  BY TypeStep, ProtocolStep, LeaseStepHolds, LeaseStepKeeps, ActiveStep, ScanStep,
     BarrierStep DEF IInv
<1> QED
  BY <1>1, <1>2, PTL DEF Spec

\* The inductive invariant of a launch: types, who may speak, who owns which
\* run, who is counted as active, and what the last search said.
THEOREM InvariantHolds == Spec => []IInv
BY EndHolds, PTL

\* When the ranks meet at the barrier every message was received
\* (runner.cpp:44-45).
THEOREM BarrierIsQuiet == Spec => []QuietBarrier
<1>1. IInv /\ AtBarrier => QuietBarrier
  BY DEF AtBarrier, Quiet, QuietBarrier
<1> QED
  BY <1>1, EndHolds, PTL

\* Exit code 0 says exactly that every task is done (runner.cpp:62-65).
THEOREM ExitCodeRight == Spec => []ExitCodeExact
<1>1. IInv /\ AtBarrier => ExitCodeExact
  BY DEF AtBarrier, ExitCodeExact
<1> QED
  BY <1>1, EndHolds, PTL
=============================================================================
