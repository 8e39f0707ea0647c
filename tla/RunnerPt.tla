------------------------------ MODULE RunnerPt ------------------------------
(***************************************************************************)
(* The parallel tempering scheduler (src/src/runner_pt.cpp): rank 0 runs   *)
(* runner_pt_master, the other ranks, in sets of chain_len_, a             *)
(* runner_pt_slave each.  The ranks of a set simulate the tasks of one     *)
(* chain side by side and every few sweeps exchange tasks in a global      *)
(* update that the master decides.  All messages between a slave and the   *)
(* master have tag 0, so they are one channel each way; the ranks of a set *)
(* also meet in collectives of their own communicator.                     *)
(*                                                                         *)
(* The sweeps between two global updates are one step, and a weight is a   *)
(* message without its value: which pairs are accepted is left open.       *)
(* Parameter optimisation is not modelled.                                 *)
(***************************************************************************)
EXTENDS Integers, Sequences, FiniteSets, FiniteSetsExt, TaskScan, McSweeps,
        PtSwap

CONSTANTS
  ChainLen,        \* chain_len_: tasks per chain, ranks per set
  NChains,         \* the number of chains
  NSets,           \* the number of rank sets: ranks = NSets * ChainLen + 1
  Target,          \* chain -> "sweeps", in global updates
  Therm,           \* chain -> "thermalization", in global updates
  Spgu,            \* task -> "pt_sweeps_per_global_update"
  MaxLaunches,     \* bound: how often the program is launched
  RuntimeLimited,  \* whether mc_runtime can run out
  MayCrash,        \* whether a launch can be killed
  CrashWindows     \* where a kill does lasting damage and is let happen:
                   \* "rename", "master", neither or both

Chains == 0 .. NChains - 1
Tasks  == 0 .. NChains * ChainLen - 1
Sets   == 0 .. NSets - 1
Ranks  == 0 .. NSets * ChainLen - 1        \* the slaves; rank r + 1 of MPI
Members == Places(ChainLen)                \* the ranks of chain_comm_
RunIds  == 1 .. NSets

ASSUME ShapeAssumption == /\ ChainLen \in Nat \ {0} /\ NChains \in Nat
                          /\ NSets \in Nat \ {0}
ASSUME JobAssumption   == /\ Target \in [Chains -> Nat]
                          /\ Therm \in [Chains -> Nat]
                          /\ Spgu \in [Tasks -> Nat \ {0}]
ASSUME LaunchAssumption == /\ MaxLaunches \in Nat \ {0}
                           /\ RuntimeLimited \in BOOLEAN
                           /\ MayCrash \in BOOLEAN
                           /\ CrashWindows \subseteq {"rename", "master"}

VARIABLES
  phase,      \* "running", "ended", "crashed" or "refused"
  rc,         \* what the master's start() and runner_pt_start return on rank 0; not
              \* the exit code, see Finalize
  launches,   \* launches so far
  \* runner_pt_master
  mode,       \* where it is: assigning to set g, in react(), or waiting for
              \* the weights of set g
  numActive,  \* num_active_ranks_
  sweeps,     \* pt_chains_[c].sweeps
  scheduled,  \* pt_chains_[c].scheduled_runs
  current,    \* current_chain_id_
  setRun,     \* rank_to_chain_run_: the chain and run of a set, or NoRun
  pos,        \* rank_to_pos of the chain runs
  odd,        \* swap_odd of the chain runs
  \* runner_pt_slave
  pc,         \* where rank r is
  task, run,  \* task_id_, run_id_
  since,      \* sweeps_since_last_query_
  before,     \* sweeps_before_communication_
  reason,     \* why the checkpoint in hand is written
  partner,    \* the rank to exchange measurements with
  bcast,      \* the result of negotiate_timeout on its way to r
  sys,        \* the simulation: sweep_, its own pt_sweeps_per_global_update_,
              \* how many sweeps are measured but not yet in the file, and the
              \* tasks whose parameters they were measured at
  toMaster, toSlave,
  \* files
  dump, meas, results,   \* as in RunnerMpi; meas with the tasks measured at
  mdump       \* pt_master.dump.h5: its state and the swap_odd's in it

launchVars == <<phase, rc, launches>>
masterVars == <<mode, numActive, sweeps, scheduled, current, setRun, pos, odd>>
slaveVars  == <<pc, task, run, since, before, reason, partner, bcast, sys>>
netVars    == <<toMaster, toSlave>>
fileVars   == <<dump, meas, results, mdump>>
vars == <<launchVars, masterVars, slaveVars, netVars, fileVars>>

SetOf(r)     == r \div ChainLen
ChainRank(r) == r % ChainLen
SetRanks(g)  == {r \in Ranks : SetOf(r) = g}
IsRoot(r)    == ChainRank(r) = 0
TaskOf(c, p) == c * ChainLen + p           \* pt_chains_[c].task_ids[p]
ChainOf(t)   == t \div ChainLen

NoRun  == <<-1, 0>>
NoRuns == [k \in {} |-> 0]
NoBuf  == [n |-> 0, of |-> {}]
NoResults == [k \in {-1} |-> 0]
Torn      == [k \in {0} |-> 0]
NewSys(t) == [sweep |-> 0, spgu |-> Spgu[t], buf |-> NoBuf]
Identity  == [i \in Members |-> i]

Status(type)       == [type |-> type]      \* "ready", "timeup", "weight"
BusyMsg(n)         == [type |-> "busy", sweeps |-> n]
ActionMsg(a)       == [type |-> "action", action |-> a]
JobMsg(t, k, n)    == [type |-> "job", task |-> t, run |-> k, before |-> n]
Response(a)        == [type |-> "response", action |-> a]
SwapMsg(t, q)      == [type |-> "swap", task |-> t, partner |-> q]

Push(ch, r, m) == [ch EXCEPT ![r] = Append(@, m)]
Pop(ch, r)     == [ch EXCEPT ![r] = Tail(@)]

\* To every rank of set g its own messages, msgs[i] to chain rank i.
PushSet(ch, g, msgs) ==
  [r \in Ranks |-> IF SetOf(r) = g THEN ch[r] \o msgs[ChainRank(r)] ELSE ch[r]]

WriteRun(dir, k, content) ==
  [q \in DOMAIN dir \cup {k} |-> IF q = k THEN content ELSE dir[q]]

-----------------------------------------------------------------------------
(* Launching.                                                              *)

\* jobinfo::read_dump_progress, in global updates.
ReadProgress(t) ==
  MapThenSumSet(LAMBDA k : dump[t][k].sweeps, DOMAIN dump[t]) \div Spgu[t]

ChainTasks(c) == {TaskOf(c, p) : p \in Members}

\* construct_pt_chains: within a chain all tasks have progressed alike.
ProgressAgrees ==
  \A c \in Chains : \A t, u \in ChainTasks(c) : ReadProgress(t) = ReadProgress(u)

\* Faulty variant of the next definition.
PositionsKept == pos

\* pt_chain_run::checkpoint_read: rank_to_pos is not in the dump.
PositionsRead == [c \in Chains |-> [k \in RunIds |-> Identity]]

Start ==
  /\ mode' = <<"assign", 0>>
  /\ numActive' = NSets * ChainLen + 1
  /\ scheduled' = [c \in Chains |-> 0]
  /\ current' = NoTask
  /\ setRun' = [g \in Sets |-> NoRun]
  /\ pos' = PositionsRead
  /\ pc' = [r \in Ranks |-> "accept"]
  /\ task' = [r \in Ranks |-> NoTask]
  /\ run' = [r \in Ranks |-> -1]
  /\ since' = [r \in Ranks |-> 0]
  /\ before' = [r \in Ranks |-> 0]
  /\ reason' = [r \in Ranks |-> "report"]
  /\ partner' = [r \in Ranks |-> r]
  /\ bcast' = [r \in Ranks |-> "none"]
  /\ sys' = [r \in Ranks |-> [sweep |-> 0, spgu |-> 1, buf |-> NoBuf]]
  /\ toMaster' = [r \in Ranks |-> << >>]
  /\ toSlave' = [r \in Ranks |-> << >>]

Init ==
  /\ phase = "running" /\ rc = 0 /\ launches = 1
  /\ mode = <<"assign", 0>>
  /\ numActive = NSets * ChainLen + 1
  /\ sweeps = [c \in Chains |-> 0]
  /\ scheduled = [c \in Chains |-> 0]
  /\ current = NoTask
  /\ setRun = [g \in Sets |-> NoRun]
  /\ pos = [c \in Chains |-> [k \in RunIds |-> Identity]]
  /\ odd = [c \in Chains |-> [k \in RunIds |-> FALSE]]
  /\ pc = [r \in Ranks |-> "accept"]
  /\ task = [r \in Ranks |-> NoTask]
  /\ run = [r \in Ranks |-> -1]
  /\ since = [r \in Ranks |-> 0]
  /\ before = [r \in Ranks |-> 0]
  /\ reason = [r \in Ranks |-> "report"]
  /\ partner = [r \in Ranks |-> r]
  /\ bcast = [r \in Ranks |-> "none"]
  /\ sys = [r \in Ranks |-> [sweep |-> 0, spgu |-> 1, buf |-> NoBuf]]
  /\ toMaster = [r \in Ranks |-> << >>]
  /\ toSlave = [r \in Ranks |-> << >>]
  /\ dump = [t \in Tasks |-> NoRuns]
  /\ meas = [t \in Tasks |-> NoRuns]
  /\ results = [t \in Tasks |-> NoResults]
  /\ mdump = [state |-> "none", odd |-> odd]

\* Some ranks of set g have put their files in place and others have not.
HalfRenamed(g) ==
  \E r, q \in SetRanks(g) : pc[r] = "rename" /\ pc[q] # "rename"

\* The whole MPI job dies; ranks inside results::write_json leave a cut-short
\* file, and so does a master inside checkpoint_write, which writes in place.
Crash ==
  /\ MayCrash
  /\ phase = "running"
  /\ (\E g \in Sets : HalfRenamed(g)) => "rename" \in CrashWindows
  /\ phase' = "crashed"
  /\ \E cut \in SUBSET {task[r] : r \in {q \in Ranks : pc[q] = "merge"}} :
       results' = [t \in Tasks |-> IF t \in cut THEN Torn ELSE results[t]]
  /\ \/ UNCHANGED mdump
     \/ /\ "master" \in CrashWindows
        /\ mode = <<"react">>
        /\ mdump' = [mdump EXCEPT !.state = "torn"]
  /\ UNCHANGED <<rc, launches, masterVars, slaveVars, netVars, dump, meas>>

\* The next launch: checkpoint_read of the master.
Relaunch ==
  /\ phase \in {"ended", "crashed"}
  /\ launches < MaxLaunches
  /\ launches' = launches + 1
  /\ ProgressAgrees /\ mdump.state # "torn"
  /\ phase' = "running" /\ rc' = 0
  /\ sweeps' = [c \in Chains |-> ReadProgress(TaskOf(c, 0))]
  /\ odd' = mdump.odd
  /\ Start
  /\ UNCHANGED fileVars

\* It throws: the files it finds are not what it can go on from.
Refuse ==
  /\ phase \in {"ended", "crashed"}
  /\ launches < MaxLaunches
  /\ ~ProgressAgrees \/ mdump.state = "torn"
  /\ phase' = "refused"
  /\ UNCHANGED <<rc, launches, masterVars, slaveVars, netVars, fileVars>>

-----------------------------------------------------------------------------
(* runner_pt_master                                                        *)

AtLeast(a, b) == IF a >= b THEN a ELSE b    \* std::max

\* pt_chain::is_done, for n sweeps.
IsDone(c, n) == n >= Target[c]

DoneChains(n) == {c \in Chains : IsDone(c, n[c])}

\* pt_master.dump.h5 as checkpoint_write leaves it.
Saved == [state |-> "good", odd |-> odd]

\* Faulty variants of the next definitions.
AskedTooLittle(c, n) == Target[c] - n - 1
MergeEarly(left) == "process"
MergeNever(left) == "new_job"
RunOne(n) == 1
LeavingSet == ChainLen

\* How many global updates a set is asked for before it reports.
SweepsUntilComm(c, n) == AtLeast(1, Target[c] - n)

\* What the ranks of a set are told when their chain is done and left sets
\* still have runs of it.
LastVerdict(left) == IF left > 0 THEN "new_job" ELSE "process"

\* The run a set is given, and scheduled_runs with it, when n are scheduled.
NextRun(n) == n + 1

\* How many ranks stop counting as active when a set is dismissed, and when a
\* rank says that its time is up.
Dismissed == ChainLen
Leaving == 1

\* schedule_chain_run and assign_new_chain for set g, when the chains have n
\* sweeps and sch scheduled runs; the messages in first go out before.
AssignNewChain(g, n, sch, first) ==
  LET c == GetNewTaskId(current, NChains, DoneChains(n))
      k == NextRun(sch[c])
      job(i) == JobMsg(TaskOf(c, i), k, SweepsUntilComm(c, n[c]))
      quit == JobMsg(NoTask, 0, 0)
  IN  \/ /\ c # NoTask
         /\ current' = c
         /\ scheduled' = [sch EXCEPT ![c] = k]
         /\ setRun' = [setRun EXCEPT ![g] = <<c, k>>]
         /\ toSlave' = PushSet(toSlave, g, [i \in Members |-> Append(first, job(i))])
         /\ UNCHANGED numActive
      \/ /\ c = NoTask
         /\ scheduled' = sch
         /\ setRun' = [setRun EXCEPT ![g] = NoRun]
         /\ toSlave' = PushSet(toSlave, g, [i \in Members |-> Append(first, quit)])
         /\ numActive' = numActive - Dismissed
         /\ UNCHANGED current

\* The loop of start() that gives every set its first chain.
AssignFirst(g) ==
  /\ phase = "running" /\ mode = <<"assign", g>>
  /\ AssignNewChain(g, sweeps, scheduled, << >>)
  /\ mode' = IF g + 1 \in Sets THEN <<"assign", g + 1>> ELSE <<"react">>
  /\ UNCHANGED <<launchVars, sweeps, pos, odd, slaveVars, toMaster, fileVars>>

HeadIs(ch, r, type) == ch[r] # << >> /\ Head(ch[r]).type = type

Receives(r, type) ==
  /\ phase = "running" /\ mode = <<"react">> /\ numActive > 1
  /\ HeadIs(toMaster, r, type)
  /\ toMaster' = Pop(toMaster, r)

\* react(), S_BUSY: count the sweeps.  A set whose chain is done gets another
\* one at once, after its ranks have merged the tasks of the chain if no other
\* set has a run of it.
ReactBusy(r) ==
  /\ Receives(r, "busy")
  /\ LET g == SetOf(r)
         c == setRun[g][1]
         n == [sweeps EXCEPT ![c] = @ + Head(toMaster[r]).sweeps]
         left == scheduled[c] - 1
     IN  /\ sweeps' = n
         /\ \/ /\ IsDone(c, n[c])
               /\ mdump' = IF left > 0 THEN mdump ELSE Saved
               /\ AssignNewChain(g, n, [scheduled EXCEPT ![c] = left],
                                 <<ActionMsg(LastVerdict(left))>>)
            \/ /\ ~IsDone(c, n[c])
               /\ toSlave' = PushSet(toSlave, g,
                               [i \in Members |-> <<ActionMsg("continue")>>])
               /\ UNCHANGED <<numActive, scheduled, current, setRun, mdump>>
  /\ UNCHANGED <<launchVars, mode, pos, odd, slaveVars, dump, meas, results>>

\* react(), S_READY_FOR_GLOBAL: tell every rank of the set whether a weight is
\* wanted, and wait for the weights.
ReactReady(r) ==
  /\ Receives(r, "ready")
  /\ LET g == SetOf(r)
         c == setRun[g][1]
         k == setRun[g][2]
         answer(i) == IF Skips(pos[c][k][i], odd[c][k], ChainLen)
                      THEN "skip" ELSE "weight"
     IN  /\ toSlave' = PushSet(toSlave, g,
                         [i \in Members |-> <<Response(answer(i))>>])
         /\ mode' = <<"weights", g>>
  /\ UNCHANGED <<launchVars, numActive, sweeps, scheduled, current, setRun, pos,
                 odd, slaveVars, fileVars>>

\* react(), S_READY_FOR_GLOBAL, the rest: with all weights there, exchange the
\* positions of the accepted pairs and tell every rank its new task.
GlobalUpdate(g) ==
  /\ phase = "running" /\ mode = <<"weights", g>>
  /\ LET c == setRun[g][1]
         k == setRun[g][2]
         asked == {r \in SetRanks(g) :
                     ~Skips(pos[c][k][ChainRank(r)], odd[c][k], ChainLen)}
     IN  /\ \A r \in asked : HeadIs(toMaster, r, "weight")
         /\ toMaster' = [r \in Ranks |-> IF r \in asked THEN Tail(toMaster[r])
                                         ELSE toMaster[r]]
         /\ \E accepted \in SUBSET TriedPairs(odd[c][k], ChainLen) :
              LET to == Moved(pos[c][k], accepted)
                  with == SwitchPartners(pos[c][k], accepted)
              IN  /\ pos' = [pos EXCEPT ![c][k] = to]
                  /\ toSlave' = PushSet(toSlave, g, [i \in Members |->
                       <<SwapMsg(TaskOf(c, to[i]), g * ChainLen + with[i])>>])
         /\ odd' = [odd EXCEPT ![c][k] = ~@]
  /\ mode' = <<"react">>
  /\ UNCHANGED <<launchVars, numActive, sweeps, scheduled, current, setRun,
                 slaveVars, fileVars>>

\* react(), S_TIMEUP: every rank of the set says so itself.
ReactTimeUp(r) ==
  /\ Receives(r, "timeup")
  /\ numActive' = numActive - Leaving
  /\ UNCHANGED <<launchVars, mode, sweeps, scheduled, current, setRun, pos, odd,
                 slaveVars, toSlave, fileVars>>

\* checkpoint_write of the master, when the interval is over.
MasterCheckpoint ==
  /\ phase = "running" /\ mode = <<"react">>
  /\ mdump' = Saved
  /\ mdump' # mdump
  /\ UNCHANGED <<launchVars, masterVars, slaveVars, netVars, dump, meas, results>>

\* All ranks pass the barrier of runner_pt_start, which returns rc.  Its caller
\* drops that and returns 0 (runner.cpp:25-28): the program always exits with 0.
Finalize ==
  /\ phase = "running" /\ mode = <<"react">>
  /\ numActive <= 1
  /\ \A r \in Ranks : pc[r] \in {"exited", "left"}
  /\ phase' = "ended"
  /\ rc' = IF DoneChains(sweeps) = Chains THEN 0 ELSE 1
  /\ mdump' = Saved
  /\ UNCHANGED <<launches, masterVars, slaveVars, netVars, dump, meas, results>>

-----------------------------------------------------------------------------
(* runner_pt_slave                                                         *)

At(r, place) == phase = "running" /\ pc[r] = place
Goes(r, place) == pc' = [pc EXCEPT ![r] = place]

\* The head of the sweep loop.
LoopHead(n, limit) == IF n < limit THEN "sweep" ELSE "write"

\* A message of this type from the master is next, and is taken.
Takes(r, place, type) ==
  /\ At(r, place)
  /\ HeadIs(toSlave, r, type)
  /\ toSlave' = Pop(toSlave, r)

\* accept_new_chain: no more work.
Quit(r) ==
  /\ Takes(r, "accept", "job")
  /\ Head(toSlave[r]).task < 0
  /\ Goes(r, "exited")
  /\ task' = [task EXCEPT ![r] = NoTask]
  /\ run' = [run EXCEPT ![r] = 0]
  /\ before' = [before EXCEPT ![r] = 0]
  /\ UNCHANGED <<launchVars, masterVars, since, reason, partner, bcast, sys,
                 toMaster, fileVars>>

\* accept_new_chain: a run that has a dump is read, any other is initialised
\* and written at once.
AcceptNewChain(r) ==
  /\ Takes(r, "accept", "job")
  /\ LET m == Head(toSlave[r])
     IN  /\ m.task >= 0
         /\ task' = [task EXCEPT ![r] = m.task]
         /\ run' = [run EXCEPT ![r] = m.run]
         /\ before' = [before EXCEPT ![r] = m.before]
         /\ \/ /\ m.run \in DOMAIN dump[m.task]
               /\ sys' = [sys EXCEPT ![r] =
                    [NewSys(m.task) EXCEPT !.sweep = SweepOf(dump[m.task][m.run])]]
               /\ UNCHANGED reason
               /\ Goes(r, LoopHead(since[r], m.before))
            \/ /\ m.run \notin DOMAIN dump[m.task]
               /\ sys' = [sys EXCEPT ![r] = NewSys(m.task)]
               /\ reason' = [reason EXCEPT ![r] = "fresh"]
               /\ Goes(r, "write")
  /\ UNCHANGED <<launchVars, masterVars, since, partner, bcast, toMaster,
                 fileVars>>

\* mc::is_thermalized in parallel tempering.
Thermalized(n, spgu, c) == IsThermalized(n \div spgu, Therm[c])

\* The turns of the sweep loop up to the next global update, and the first
\* lines of pt_global_update.
Sweeps(r) ==
  /\ At(r, "sweep")
  /\ LET old == sys[r].sweep
         new == (old \div Spgu[task[r]] + 1) * Spgu[task[r]]
         measured == {i \in old + 1 .. new :
                        Thermalized(i, sys[r].spgu, ChainOf(task[r]))}
     IN  sys' = [sys EXCEPT ![r].sweep = new,
                            ![r].buf.n = @ + Cardinality(measured),
                            ![r].buf.of = IF measured = {} THEN @
                                          ELSE @ \cup {task[r]}]
  /\ toMaster' = IF IsRoot(r) THEN Push(toMaster, r, Status("ready")) ELSE toMaster
  /\ Goes(r, "response")
  /\ UNCHANGED <<launchVars, masterVars, task, run, since, before, reason,
                 partner, bcast, toSlave, fileVars>>

\* Faulty variant of the next definition.
AnswerAlways(action) == <<Status("weight")>>

\* What is sent to the master when it has asked for this.
Answer(action) == IF action = "weight" THEN <<Status("weight")>> ELSE << >>

\* pt_global_update: answer with a weight if one is wanted.
Respond(r) ==
  /\ Takes(r, "response", "response")
  /\ toMaster' = [toMaster EXCEPT ![r] = @ \o Answer(Head(toSlave[r]).action)]
  /\ Goes(r, "update_barrier")
  /\ UNCHANGED <<launchVars, masterVars, task, run, since, before, reason,
                 partner, bcast, sys, fileVars>>

\* MPI_Barrier on chain_comm_, in pt_global_update or in checkpoint_write:
\* wherever a rank has called it, it returns once all ranks of the set have.
Barrier(g) ==
  /\ phase = "running"
  /\ \A r \in SetRanks(g) : pc[r] \in {"update_barrier", "write_barrier"}
  /\ pc' = [r \in Ranks |->
       IF SetOf(r) # g THEN pc[r]
       ELSE IF pc[r] = "update_barrier" THEN "swap" ELSE "rename"]
  /\ UNCHANGED <<launchVars, masterVars, task, run, since, before, reason,
                 partner, bcast, sys, netVars, fileVars>>

\* Faulty variant of the next definition.
KeepsMeasurements(m, r, q) == m

\* measurements::mpi_sendrecv: two ranks exchange their measurements.
Exchanged(m, r, q) == [m EXCEPT ![r].buf = m[q].buf, ![q].buf = m[r].buf]

\* A global update counts once the simulation is thermalized.
Counted(r) ==
  since[r] + IF Thermalized(sys[r].sweep, sys[r].spgu, ChainOf(task[r]))
             THEN 1 ELSE 0

\* pt_global_update: the rank keeps its task.
KeepTask(r) ==
  /\ Takes(r, "swap", "swap")
  /\ Head(toSlave[r]).task = task[r]
  /\ since' = [since EXCEPT ![r] = Counted(r)]
  /\ Goes(r, "negotiate")
  /\ UNCHANGED <<launchVars, masterVars, task, run, before, reason, partner,
                 bcast, sys, toMaster, fileVars>>

\* pt_global_update: the rank gets the task of another one ...
ChangeTask(r) ==
  /\ Takes(r, "swap", "swap")
  /\ Head(toSlave[r]).task # task[r]
  /\ task' = [task EXCEPT ![r] = Head(toSlave[r]).task]
  /\ partner' = [partner EXCEPT ![r] = Head(toSlave[r]).partner]
  /\ Goes(r, "exchange")
  /\ UNCHANGED <<launchVars, masterVars, run, since, before, reason, bcast, sys,
                 toMaster, fileVars>>

\* ... and, when that one is ready for it too, its measurements.
Exchange(r, q) ==
  /\ At(r, "exchange") /\ At(q, "exchange")
  /\ partner[r] = q /\ partner[q] = r
  /\ sys' = Exchanged(sys, r, q)
  /\ since' = [since EXCEPT ![r] = Counted(r), ![q] = Counted(q)]
  /\ pc' = [pc EXCEPT ![r] = "negotiate", ![q] = "negotiate"]
  /\ UNCHANGED <<launchVars, masterVars, task, run, before, reason, partner,
                 bcast, netVars, fileVars>>

\* What the set does after negotiate_timeout.
Obey(r, result) ==
  IF result = "continue"
  THEN Goes(r, LoopHead(since[r], before[r])) /\ UNCHANGED reason
  ELSE /\ Goes(r, "write")
       /\ reason' = [reason EXCEPT ![r] =
                       IF result = "timeup" THEN "timeup" ELSE "report"]

\* What the clock may say to chain rank 0.
TimeoutResults ==
  {"continue", "checkpoint"} \cup (IF RuntimeLimited THEN {"timeup"} ELSE {})

\* Faulty variants of the next definitions.
OwnClock(r) == TimeoutResults
AfterWriteAtOnce == "rename"
Overwritten(old, buf) == buf

\* What the others may hear: what chain rank 0 has said.
Heard(r) == {bcast[r]}

\* negotiate_timeout: chain rank 0 looks at the clock and tells the others.
Negotiate(r) ==
  /\ At(r, "negotiate") /\ IsRoot(r)
  /\ \E result \in TimeoutResults :
       /\ bcast' = [q \in Ranks |-> IF q # r /\ SetOf(q) = SetOf(r)
                                    THEN result ELSE bcast[q]]
       /\ Obey(r, result)
  /\ UNCHANGED <<launchVars, masterVars, task, run, since, before, partner, sys,
                 netVars, fileVars>>

HearTimeout(r) ==
  /\ At(r, "negotiate") /\ ~IsRoot(r)
  /\ bcast[r] # "none"
  /\ bcast' = [bcast EXCEPT ![r] = "none"]
  /\ \E result \in Heard(r) : Obey(r, result)
  /\ UNCHANGED <<launchVars, masterVars, task, run, since, before, partner, sys,
                 netVars, fileVars>>

\* checkpoint_write: where the ranks of a set go when they have written.
AfterWrite == "write_barrier"

\* measurements::samples_write: a file with the samples of buf after its own.
Appended(old, buf) == [n |-> old.n + buf.n, of |-> old.of \cup buf.of]

\* mc::_write into temporary files, then the barrier of checkpoint_write.
WriteTemporary(r) ==
  /\ At(r, "write")
  /\ Goes(r, AfterWrite)
  /\ UNCHANGED <<launchVars, masterVars, task, run, since, before, reason,
                 partner, bcast, sys, netVars, fileVars>>

\* mc::_write_finalize: the temporary files take the place of the old ones.
RenameFiles(r) ==
  LET t == task[r]
      k == run[r]
      m == sys[r]
      old == IF k \in DOMAIN meas[t] THEN meas[t][k] ELSE NoBuf
  IN  /\ dump' = [dump EXCEPT ![t] =
           WriteRun(@, k, DumpOf(m.sweep, Therm[ChainOf(t)] * m.spgu))]
      /\ meas' = [meas EXCEPT ![t] =
           WriteRun(@, k, Appended(old, m.buf))]
      /\ sys' = [sys EXCEPT ![r].buf = NoBuf]

\* checkpoint_write in accept_new_chain.
FinishFirst(r) ==
  /\ At(r, "rename") /\ reason[r] = "fresh"
  /\ RenameFiles(r)
  /\ reason' = [reason EXCEPT ![r] = "report"]
  /\ Goes(r, LoopHead(since[r], before[r]))
  /\ UNCHANGED <<launchVars, masterVars, task, run, since, before, partner,
                 bcast, netVars, results, mdump>>

\* checkpoint_write after the loop, then what_is_next(S_BUSY): chain rank 0
\* reports, and all wait for an action.
FinishReport(r) ==
  /\ At(r, "rename") /\ reason[r] = "report"
  /\ RenameFiles(r)
  /\ toMaster' = IF IsRoot(r) THEN Push(toMaster, r, BusyMsg(since[r])) ELSE toMaster
  /\ since' = [since EXCEPT ![r] = 0]
  /\ Goes(r, "action")
  /\ UNCHANGED <<launchVars, masterVars, task, run, before, reason, partner,
                 bcast, toSlave, results, mdump>>

\* checkpoint_write after the loop, then S_TIMEUP: every rank says so.
FinishTimeUp(r) ==
  /\ At(r, "rename") /\ reason[r] = "timeup"
  /\ RenameFiles(r)
  /\ toMaster' = Push(toMaster, r, Status("timeup"))
  /\ Goes(r, "left")
  /\ UNCHANGED <<launchVars, masterVars, task, run, since, before, reason,
                 partner, bcast, toSlave, results, mdump>>

\* what_is_next: the action that answers S_BUSY.
TakeAction(r) ==
  /\ Takes(r, "action", "action")
  /\ LET a == Head(toSlave[r]).action
     IN  Goes(r, IF a = "continue" THEN LoopHead(since[r], before[r])
                 ELSE IF a = "process" THEN "merge" ELSE "accept")
  /\ UNCHANGED <<launchVars, masterVars, task, run, since, before, reason,
                 partner, bcast, sys, toMaster, fileVars>>

\* merge_measurements, each rank for the task it has at the end.
MergeMeasurements(r) ==
  /\ At(r, "merge")
  /\ results' = [results EXCEPT ![task[r]] = meas[task[r]]]
  /\ Goes(r, "accept")
  /\ UNCHANGED <<launchVars, masterVars, task, run, since, before, reason,
                 partner, bcast, sys, netVars, dump, meas, mdump>>

-----------------------------------------------------------------------------
\* Every launch the bound allows is over, or no other is possible.
Stopped ==
  /\ phase = "refused" \/ (phase # "running" /\ launches = MaxLaunches)
  /\ UNCHANGED vars

MasterStep ==
  \/ \E g \in Sets : AssignFirst(g) \/ GlobalUpdate(g)
  \/ \E r \in Ranks : ReactBusy(r) \/ ReactReady(r) \/ ReactTimeUp(r)

SlaveStep(r) ==
  \/ Quit(r) \/ AcceptNewChain(r) \/ Sweeps(r) \/ Respond(r)
  \/ KeepTask(r) \/ ChangeTask(r)
  \/ \E q \in Ranks : Exchange(r, q)
  \/ Negotiate(r) \/ HearTimeout(r)
  \/ WriteTemporary(r)
  \/ FinishFirst(r) \/ FinishReport(r) \/ FinishTimeUp(r)
  \/ TakeAction(r) \/ MergeMeasurements(r)

Next ==
  \/ MasterStep \/ MasterCheckpoint \/ Finalize
  \/ \E r \in Ranks : SlaveStep(r)
  \/ \E g \in Sets : Barrier(g)
  \/ Crash \/ Relaunch \/ Refuse
  \/ Stopped

Spec == Init /\ [][Next]_vars

\* The operating system runs every rank and MPI delivers.  The master serves
\* whoever has sent; which rank is left open.
Fairness ==
  /\ WF_vars(MasterStep) /\ WF_vars(Finalize)
  /\ \A r \in Ranks : WF_vars(SlaveStep(r))
  /\ \A g \in Sets : WF_vars(Barrier(g))

FairSpec == Spec /\ Fairness

-----------------------------------------------------------------------------
(* Properties                                                              *)

Checkpointing == {"write", "write_barrier", "rename"}
Working == Checkpointing \cup {"sweep", "response", "update_barrier", "swap",
                               "exchange", "negotiate"}
\* The task rank r has once it has taken the messages on their way to it.
DealtTo(r) ==
  LET deals == {i \in DOMAIN toSlave[r] : toSlave[r][i].type \in {"job", "swap"}}
  IN  IF deals = {} THEN task[r] ELSE toSlave[r][Max(deals)].task

\* Each rank simulates the task at the position rank_to_pos gives it, from its
\* assignment on, over any number of global updates, restarts and stops
\* (runner_pt.cpp:37-39, 56-58, 428, 537): the master never asks a rank
\* about parameters that another one has.
PositionsAgree ==
  phase = "running" => \A r \in Ranks :
    LET c == setRun[SetOf(r)][1]
        k == setRun[SetOf(r)][2]
    IN  setRun[SetOf(r)] # NoRun =>
          DealtTo(r) = TaskOf(c, pos[c][k][ChainRank(r)])

\* No two ranks, of one set or of two, ever write the same runNNNN files
\* (runner_pt.cpp:401-413, 428-429, 582-583).
NoSharedFiles ==
  \A r, q \in Ranks : r # q /\ {pc[r], pc[q]} \subseteq Checkpointing =>
    <<task[r], run[r]>> # <<task[q], run[q]>>

\* Everything has tag 0 (runner_pt.cpp:458-553, 653-768): yet what a rank
\* receives next is always what it waits for, a weight never reaches the receive
\* of react(), and nothing is left on its way when a launch has ended.
MessagesFit ==
  phase \in {"running", "ended"} => \A r \in Ranks :
    LET next == IF toSlave[r] = << >> THEN "none" ELSE Head(toSlave[r]).type
    IN  /\ pc[r] = "accept" => next \in {"none", "job"}
        /\ (\/ pc[r] \in {"sweep", "response"}
            \/ pc[r] \in Checkpointing /\ reason[r] = "fresh")
             => next \in {"none", "response"}
        /\ pc[r] \in {"update_barrier", "swap"} => next \in {"none", "swap"}
        /\ (\/ pc[r] = "action"
            \/ pc[r] \in Checkpointing /\ reason[r] = "report")
             => next \in {"none", "action"}
        /\ pc[r] \in {"exchange", "negotiate"} => next \in {"none", "response"}
        /\ pc[r] \in {"left", "exited"} => next = "none"
        /\ HeadIs(toMaster, r, "weight") => mode = <<"weights", SetOf(r)>>
        /\ phase = "ended" => toMaster[r] = << >> /\ bcast[r] = "none"

\* The ranks of a set call the collectives of their communicator in the same
\* order (runner_pt.cpp:669, 694, 773): none is in a barrier of the global
\* update while another is in that of a checkpoint, and a result of
\* negotiate_timeout is never missed.
CollectivesMatch ==
  \A r, q \in Ranks : SetOf(r) = SetOf(q) /\ phase = "running" =>
    /\ pc[r] = "update_barrier" => pc[q] # "write_barrier"
    /\ bcast[r] # "none" => pc[r] \in {"update_barrier", "swap", "exchange", "negotiate"}

\* Whatever global updates a chain run has been through, each of its positions
\* is held by one rank, and the master asks for a weight exactly from the ranks
\* whose position is in a pair that the following pt_global_update compares
\* (runner_pt.cpp:509 "keep consistent with pt_global_update", 568-583).
WeightsForPairs ==
  \A c \in Chains, k \in RunIds :
    LET tried == TriedPairs(odd[c][k], ChainLen)
    IN  /\ Permutation(pos[c][k], ChainLen)
        /\ \A i \in Members :
             ~Skips(pos[c][k][i], odd[c][k], ChainLen) <=>
               \/ pos[c][k][i] \in tried
               \/ pos[c][k][i] - 1 \in tried

\* The files of a run agree, whichever ranks wrote them: they hold the measured
\* sweeps that the dump's counter stands for (mc.cpp:93-98, 141-148), and only
\* what was measured at the parameters of the run's task, although ranks change
\* tasks with measurements in memory (runner_pt.cpp:706-711, measurements.cpp:48-97).
FilesAgree ==
  \A t \in Tasks : \A k \in DOMAIN dump[t] :
    /\ meas[t][k].n = MeasuredSweeps(SweepOf(dump[t][k]),
                                     Therm[ChainOf(t)] * Spgu[t])
    /\ meas[t][k].of \subseteq {t}

\* mc.cpp:108: all slaves in a chain have to write consistent dumps.  Whenever
\* the program is down, a run of a chain has a dump for every task of the chain
\* or for none, all at the same sweep; and so the next launch accepts the files,
\* unless a kill hit the master while it wrote its own dump, which it does in
\* place (runner_pt.cpp:211-217, 319-342).
ConsistentDumps ==
  phase # "running" =>
    /\ \A c \in Chains : \A t, u \in ChainTasks(c) :
         /\ DOMAIN dump[t] = DOMAIN dump[u]
         /\ \A k \in DOMAIN dump[t] : SweepOf(dump[t][k]) = SweepOf(dump[u][k])
    /\ phase = "refused" => mdump.state = "torn"

\* No checkpoint takes a run back, whichever rank writes it.
NoRollback ==
  [][\A t \in Tasks : \A k \in DOMAIN dump[t] :
       /\ k \in DOMAIN dump'[t]
       /\ SweepOf(dump'[t][k]) >= SweepOf(dump[t][k])
       /\ meas'[t][k].n >= meas[t][k].n]_vars

\* Every launch comes to an end: no rank waits forever for a message, a partner
\* or the other ranks of its set.
LaunchEnds == [](phase = "running" => <>(phase # "running"))

\* A job on one rank set that is neither killed nor short of time completes: the
\* master stops `due to completion' and returns 0, every task has results, and they
\* are merged from its final measurement files (runner_pt.cpp:385-393, 474-487,
\* 789-794).
Completes ==
  [](phase # "crashed" /\ \A r \in Ranks : pc[r] # "left") =>
  <>(/\ phase = "ended" /\ rc = 0
     /\ \A t \in Tasks : Target[ChainOf(t)] > 0 => results[t] = meas[t])

\* The ranks that merge a task or have been told to.
Mergers ==
  {r \in Ranks : \/ pc[r] = "merge"
                 \/ \E i \in DOMAIN toSlave[r] : toSlave[r][i] = ActionMsg("process")}

\* A rank is told to merge a task when the roots of all sets have reported, but
\* their other ranks may be behind.  Of the chain it belongs to, all they have
\* left to do is to rename their last files (runner_pt.cpp:483, 745-750, 770-777):
\* none of them takes another sweep, or exchanges what it has measured.
LateRenamesOnly ==
  \A r \in Mergers : \A q \in Ranks :
    /\ phase = "running" /\ SetOf(q) # SetOf(r)
    /\ pc[q] \in Working /\ ChainOf(task[q]) = ChainOf(task[r])
    => pc[q] = "rename" /\ ~IsRoot(q)

\* The rank sets keep the promise of RunLeases about the runs of chains.
Leases == INSTANCE RunLeases WITH
  Slaves  <- Sets,
  Tasks   <- Chains,
  Runs    <- RunIds,
  lease   <- setRun,
  closed  <- DoneChains(sweeps),
  merging <- {ChainOf(task[r]) : r \in Mergers},
  launch  <- launches

ImplementsLeases == Leases!Spec
=============================================================================
