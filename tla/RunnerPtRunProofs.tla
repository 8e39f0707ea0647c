------------------------- MODULE RunnerPtRunProofs --------------------------
(***************************************************************************)
(* What follows from the protocol of the rank sets: that the ranks and the *)
(* master agree on messages, collectives, positions and files, that sets   *)
(* hold the runs of chains as RunLeases promises, and that the files of a  *)
(* run hold what was measured for it.                                      *)
(***************************************************************************)
EXTENDS RunnerPtSetProofs

-----------------------------------------------------------------------------
(* What the invariant says of collectives, files and tasks.                *)

LEMMA InSet ==
  ASSUME SetInv, NEW g \in Sets
  PROVE  \E x \in Paths : /\ Path(x) /\ Seated(g, x) /\ LeaveFiles(g, x)
                          /\ \A r \in Ranks : SetOf(r) = g => RankIn(r, x) /\ Placed(r, x)
BY DEF SetInv, AllIn, SetIn, SetRanks, RankIn

LEMMA MatchIs == SetInv => CollectivesMatch
<1> SUFFICES ASSUME SetInv, NEW r \in Ranks, NEW q \in Ranks, SetOf(r) = SetOf(q)
             PROVE  /\ pc[r] = "update_barrier" => pc[q] # "write_barrier"
                    /\ bcast[r] # "none" =>
                         pc[r] \in {"update_barrier", "swap", "exchange", "negotiate"}
  BY DEF CollectivesMatch
<1>1. PICK x \in Paths : \A p \in Ranks : SetOf(p) = SetOf(r) => RankIn(p, x) /\ Placed(p, x)
  BY InSet, SeatIs
<1>2. pc[r] = "update_barrier" => x.way = "sweep"
  BY <1>1, WhereIs DEF Sweeping
<1>3. pc[q] = "write_barrier" => x.way = "write"
  BY <1>1, WhereIs DEF Writing
<1>4. bcast[r] # "none" => pc[r] \in Updating
  BY <1>1 DEF RankIn, CountsTo
<1> QED
  BY <1>2, <1>3, <1>4 DEF Updating

\* The files a rank writes or renames are those of its set's run, or of the run
\* before while the set has another already.
LEMMA WritesRun ==
  ASSUME SetInv, NEW r \in Ranks, NEW x \in Paths, Path(x), Seated(SetOf(r), x),
         RankIn(r, x), pc[r] \in Checkpointing
  PROVE  /\ pc[r] # "rename" =>
              /\ setRun[SetOf(r)] # NoRun /\ setRun[SetOf(r)] = RunOf(r)
              /\ x.way = "write" /\ ChainAt(SetOf(r)) \in Chains
              /\ task[r] = TaskOf(ChainAt(SetOf(r)), x.held[ChainRank(r)])
         /\ pc[r] = "rename" =>
              /\ x.own \in Chains \X RunIds
              /\ task[r] = TaskOf(x.own[1], x.was[ChainRank(r)]) /\ RunOf(r) = x.own
              /\ x.way = "write" => x.own[1] # ChainAt(SetOf(r))
<1> DEFINE g == SetOf(r)
           i == ChainRank(r)
<1>0. /\ g \in Sets /\ i \in Members /\ Types /\ Placed(r, x)
      /\ x.held[i] \in Members /\ x.was[i] \in Members
  BY SeatIs DEF SetInv, RankIn, Paths
<1>1. ASSUME pc[r] # "rename"
      PROVE  /\ setRun[g] # NoRun /\ setRun[g] = RunOf(r)
             /\ x.way = "write" /\ ChainAt(g) \in Chains
             /\ task[r] = TaskOf(ChainAt(g), x.held[i])
  <2>1. pc[r] \in Writing /\ x.way = "write" /\ HasRun(x)
    BY <1>0, <1>1, WhereIs, RunThere DEF Checkpointing, Writing
  <2>2. ChainAt(g) \in Chains /\ setRun[g] = <<ChainAt(g), RunAt(g)>> /\ setRun[g] # NoRun
    BY <1>0, <2>1, RunIs
  <2>3. task[r] = TaskOf(ChainAt(g), x.held[i]) /\ run[r] = RunAt(g)
    BY <2>1 DEF RankIn, Works
  <2>4. ChainOf(task[r]) = ChainAt(g)
    BY <1>0, <2>2, <2>3, TaskIs
  <2> QED
    BY <2>1, <2>2, <2>3, <2>4 DEF RunOf
<1>2. ASSUME pc[r] = "rename"
      PROVE  /\ x.own \in Chains \X RunIds
             /\ task[r] = TaskOf(x.own[1], x.was[i]) /\ RunOf(r) = x.own
             /\ x.way = "write" => x.own[1] # ChainAt(g)
  <2>1. x.kind \in {"fresh", "report", "timeup"}
    BY <1>0, <1>2, WhereIs
  <2>2. x.own \in Chains \X RunIds /\ x.own = <<x.own[1], x.own[2]>> /\ x.own[1] \in Chains
    BY <2>1 DEF Path
  <2>3. task[r] = TaskOf(x.own[1], x.was[i]) /\ run[r] = x.own[2]
    BY <1>2, <2>1 DEF RankIn, Works, Reporting
  <2>4. ChainOf(task[r]) = x.own[1]
    BY <1>0, <2>2, <2>3, TaskIs
  <2>5. RunOf(r) = x.own
    BY <2>2, <2>3, <2>4 DEF RunOf
  <2>6. ASSUME x.way = "write" PROVE x.own[1] # ChainAt(g)
    <3>1. x.kind = "report" /\ x.act # "none"
      BY <2>1, <2>6 DEF Path
    <3>2. x.act \in {"new_job", "process"} /\ x.job # "none"
      BY <2>6, <3>1 DEF Path, Paths
    <3>3. x.job = "job"
      BY <2>6, <3>2 DEF Path, Paths
    <3> QED
      BY <3>1, <3>3 DEF Seated
  <2> QED
    BY <2>2, <2>3, <2>5, <2>6
<1> QED
  BY <1>1, <1>2

LEMMA NoneShared ==
  ASSUME SetInv, phase = "running", NEW r \in Ranks, NEW q \in Ranks, r # q,
         pc[r] \in Checkpointing, pc[q] \in Checkpointing,
         <<task[r], run[r]>> = <<task[q], run[q]>>
  PROVE  FALSE
<1>1. RunOf(r) = RunOf(q) /\ task[r] = task[q]
  BY DEF RunOf
<1>2. SetOf(r) \in Sets /\ SetOf(q) \in Sets /\ ChainRank(r) \in Members /\ ChainRank(q) \in Members
  BY SeatIs
<1>3. CASE SetOf(r) = SetOf(q)
  <2> DEFINE g == SetOf(r)
  <2>1. PICK x \in Paths : /\ Path(x) /\ Seated(g, x)
                           /\ \A p \in Ranks : SetOf(p) = g => RankIn(p, x)
    BY <1>2, InSet
  <2>2. RankIn(r, x) /\ RankIn(q, x) /\ Seated(SetOf(q), x)
    BY <1>3, <2>1
  <2>3. ChainRank(r) # ChainRank(q)
    BY <1>3, SameSeat
  <2>4. \A a, b \in Members : a # b => x.was[a] # x.was[b] /\ x.held[a] # x.held[b]
    BY <2>1 DEF Path, Permutation, Members
  <2>5. x.held \in [Members -> Members] /\ x.was \in [Members -> Members]
    BY DEF Paths
  <2>6. CASE pc[r] = "rename" /\ pc[q] = "rename"
    <3>1. /\ x.own[1] \in Chains /\ task[r] = TaskOf(x.own[1], x.was[ChainRank(r)])
          /\ task[q] = TaskOf(x.own[1], x.was[ChainRank(q)])
      BY <2>1, <2>2, <2>6, WritesRun
    <3> QED
      BY <1>1, <1>2, <2>3, <2>4, <2>5, <3>1, TasksApart
  <2>7. CASE pc[r] # "rename" /\ pc[q] # "rename"
    <3>1. /\ ChainAt(g) \in Chains /\ task[r] = TaskOf(ChainAt(g), x.held[ChainRank(r)])
          /\ task[q] = TaskOf(ChainAt(g), x.held[ChainRank(q)])
      BY <1>3, <2>1, <2>2, <2>7, WritesRun
    <3> QED
      BY <1>1, <1>2, <2>3, <2>4, <2>5, <3>1, TasksApart
  <2>8. CASE pc[r] = "rename" /\ pc[q] # "rename"
    <3>1. /\ RunOf(r) = x.own /\ (x.way = "write" => x.own[1] # ChainAt(g))
          /\ RunOf(q) = setRun[g] /\ x.way = "write"
      BY <1>3, <2>1, <2>2, <2>8, WritesRun
    <3> QED
      BY <1>1, <3>1 DEF ChainAt
  <2>9. CASE pc[r] # "rename" /\ pc[q] = "rename"
    <3>1. /\ RunOf(q) = x.own /\ (x.way = "write" => x.own[1] # ChainAt(g))
          /\ RunOf(r) = setRun[g] /\ x.way = "write"
      BY <1>3, <2>1, <2>2, <2>9, WritesRun
    <3> QED
      BY <1>1, <3>1 DEF ChainAt
  <2> QED
    BY <2>6, <2>7, <2>8, <2>9
<1>4. CASE SetOf(r) # SetOf(q)
  <2>1. ASSUME NEW p \in Ranks, pc[p] \in Checkpointing, pc[p] # "rename"
        PROVE  setRun[SetOf(p)] # NoRun /\ setRun[SetOf(p)] = RunOf(p)
    <3>1. PICK x \in Paths : /\ Path(x) /\ Seated(SetOf(p), x)
                             /\ \A o \in Ranks : SetOf(o) = SetOf(p) => RankIn(o, x)
      BY InSet, SeatIs
    <3> QED
      BY <2>1, <3>1, WritesRun
  <2>2. \A g, h \in Sets : g # h /\ setRun[g] # NoRun => setRun[g] # setRun[h]
    BY DEF SetInv, SharedInv, LeaseInv
  <2>3. \A p \in Renaming :
          /\ \A g \in Sets \ {SetOf(p)} : setRun[g] # RunOf(p)
          /\ \A o \in Renaming : SetOf(o) # SetOf(p) => RunOf(o) # RunOf(p)
    BY DEF SetInv, SharedInv, RenameInv
  <2>4. CASE pc[r] = "rename" /\ pc[q] = "rename"
    <3>1. r \in Renaming /\ q \in Renaming
      BY <2>4 DEF Renaming
    <3> QED
      BY <1>1, <1>4, <2>3, <3>1
  <2>5. CASE pc[r] = "rename" /\ pc[q] # "rename"
    <3>1. r \in Renaming /\ setRun[SetOf(q)] = RunOf(q)
      BY <2>1, <2>5 DEF Renaming
    <3> QED
      BY <1>1, <1>2, <1>4, <2>3, <3>1
  <2>6. CASE pc[r] # "rename" /\ pc[q] = "rename"
    <3>1. q \in Renaming /\ setRun[SetOf(r)] = RunOf(r)
      BY <2>1, <2>6 DEF Renaming
    <3> QED
      BY <1>1, <1>2, <1>4, <2>3, <3>1
  <2>7. CASE pc[r] # "rename" /\ pc[q] # "rename"
    BY <1>1, <1>2, <1>4, <2>1, <2>2, <2>7
  <2> QED
    BY <2>4, <2>5, <2>6, <2>7
<1> QED
  BY <1>3, <1>4

Running == phase = "running"

LEMMA SharedIs == SetInv /\ Running => NoSharedFiles
BY NoneShared DEF NoSharedFiles, Running

LEMMA DownKeepsRanks ==
  ASSUME [Next]_vars, phase' # "running"
  PROVE  UNCHANGED <<pc, task, run, toSlave, setRun, pos>>
<1>1. CASE \E r \in Ranks : SlaveStep(r)
  <2>1. phase = "running"
    BY <1>1, SlaveRuns
  <2>2. phase' = phase
    BY <1>1 DEF SlaveStep, Quit, AcceptNewChain, Sweeps, Respond, KeepTask, ChangeTask,
       Exchange, Negotiate, HearTimeout, WriteTemporary, FinishFirst, FinishReport,
       FinishTimeUp, TakeAction, MergeMeasurements, launchVars
  <2> QED
    BY <2>1, <2>2
<1>2. CASE MasterStep
  <2>1. phase = "running" /\ phase' = phase
    BY <1>2 DEF MasterStep, AssignFirst, GlobalUpdate, ReactBusy, ReactReady, ReactTimeUp,
       Receives, launchVars
  <2> QED
    BY <2>1
<1>3. CASE \E g \in Sets : Barrier(g)
  <2>1. phase = "running" /\ phase' = phase
    BY <1>3 DEF Barrier, launchVars
  <2> QED
    BY <2>1
<1>4. CASE MasterCheckpoint \/ Finalize \/ Crash \/ Refuse \/ UNCHANGED vars
  BY <1>4 DEF MasterCheckpoint, Finalize, Crash, Refuse, vars, slaveVars, netVars, masterVars
<1>5. CASE Relaunch
  BY <1>5 DEF Relaunch
<1> QED
  BY <1>1, <1>2, <1>3, <1>4, <1>5 DEF Next, Stopped

LEMMA SharedStep == NoSharedFiles /\ [Next]_vars /\ ~Running' => NoSharedFiles'
BY DownKeepsRanks DEF NoSharedFiles, Running

\* The ranks of a set call the collectives of their communicator in the same
\* order, whatever the numbers of sets, chains and ranks.
THEOREM CollectivesAlwaysMatch == Together => (Spec => []CollectivesMatch)
<1>1. ASSUME Together PROVE Spec => []CollectivesMatch
  <2>1. Spec => []SetInv
    BY <1>1, SetsInStep
  <2> QED
    BY <2>1, MatchIs, PTL
<1> QED
  BY <1>1

\* No two ranks ever write the same files, whichever sets have which runs.
THEOREM FilesNeverShared == Together => (Spec => []NoSharedFiles)
<1>1. ASSUME Together PROVE Spec => []NoSharedFiles
  <2>1. Spec => []SetInv
    BY <1>1, SetsInStep
  <2>2. Init => NoSharedFiles
    BY DEF Init, NoSharedFiles, Checkpointing
  <2> QED
    BY <2>1, <2>2, SharedIs, SharedStep, PTL DEF Spec
<1> QED
  BY <1>1

-----------------------------------------------------------------------------
(* The task of a rank, with the messages on their way to it.               *)

IsDeal(m) == m.type \in {"job", "swap"}
Deals(s) == {i \in DOMAIN s : IsDeal(s[i])}
Deal(s, t) == IF Deals(s) = {} THEN t ELSE s[Max(Deals(s))].task

LEMMA DealtIs == \A r : DealtTo(r) = Deal(toSlave[r], task[r])
BY DEF DealtTo, Deal, Deals, IsDeal

LEMMA MaxIs ==
  ASSUME NEW S \in SUBSET Nat, NEW n \in S, \A y \in S : n >= y
  PROVE  Max(S) = n
<1>1. \A m \in S : (\A y \in S : m >= y) => m = n
  OBVIOUS
<1>2. Max(S) \in S /\ \A y \in S : Max(S) >= y
  BY Zenon DEF Max
<1> QED
  BY <1>1, <1>2

LEMMA MaxExists ==
  ASSUME NEW n \in Nat, NEW S \in SUBSET (1 .. n), S # {}
  PROVE  \E m \in S : \A y \in S : m >= y
<1> DEFINE T == {k \in Nat : \A y \in S : k >= y}
           m == FirstHit(T)
<1>1. T \in SUBSET Nat /\ n \in T
  OBVIOUS
<1>2. m \in T /\ \A k \in T : m <= k
  BY <1>1, FirstExists
<1> HIDE DEF m
<1>3. m \in S
  <2> SUFFICES ASSUME m \notin S PROVE FALSE
    OBVIOUS
  <2>1. PICK y0 \in S : TRUE
    OBVIOUS
  <2>2. m \in Nat /\ \A y \in S : m >= y /\ m # y /\ y \in 1 .. n
    BY <1>2
  <2>3. m > y0 /\ y0 >= 1
    BY <2>1, <2>2
  <2>4. m - 1 \in Nat /\ \A y \in S : m - 1 >= y
    BY <2>2, <2>3
  <2>5. m - 1 \in T
    BY <2>4
  <2>6. m <= m - 1
    BY <1>2, <2>5
  <2> QED
    BY <2>2, <2>6
<1> QED
  BY <1>2, <1>3

LEMMA DealNone == \A t : Deal(<< >>, t) = t
BY DEF Deal, Deals

LEMMA DealAhead ==
  ASSUME NEW S, NEW m \in S, NEW s \in Seq(S), NEW t
  PROVE  Deal(<<m>> \o s, t) = Deal(s, IF IsDeal(m) THEN m.task ELSE t)
<1> DEFINE q == <<m>> \o s
<1>1. /\ DOMAIN q = 1 .. Len(s) + 1 /\ q[1] = m /\ DOMAIN s = 1 .. Len(s) /\ Len(s) \in Nat
      /\ \A i \in 1 .. Len(s) : q[i + 1] = s[i]
  OBVIOUS
<1>2. ASSUME NEW i \in DOMAIN q, i # 1 PROVE i - 1 \in DOMAIN s /\ q[i] = s[i - 1]
  BY <1>1, <1>2
<1> HIDE DEF q
<1>3. CASE Deals(s) = {}
  <2>1. \A i \in DOMAIN q : i # 1 => ~IsDeal(q[i])
    BY <1>2, <1>3 DEF Deals
  <2>2. Deals(q) = IF IsDeal(m) THEN {1} ELSE {}
    BY <1>1, <2>1 DEF Deals
  <2>3. Max({1}) = 1
    <3>1. {1} \in SUBSET Nat /\ 1 \in {1} /\ \A y \in {1} : 1 >= y
      OBVIOUS
    <3> QED
      BY <3>1, MaxIs
  <2> QED
    BY <1>1, <1>3, <2>2, <2>3 DEF Deal, q
<1>4. CASE Deals(s) # {}
  <2>1. Deals(s) \in SUBSET (1 .. Len(s))
    BY <1>1 DEF Deals
  <2>2. PICK n \in Deals(s) : \A y \in Deals(s) : n >= y
    BY <1>1, <1>4, <2>1, MaxExists
  <2>3. Max(Deals(s)) = n
    BY <2>1, <2>2, MaxIs
  <2>4. n \in 1 .. Len(s) /\ IsDeal(s[n]) /\ n + 1 \in 1 .. Len(s) + 1 /\ q[n + 1] = s[n]
    BY <1>1, <2>2 DEF Deals
  <2>5. n + 1 \in Deals(q)
    BY <1>1, <2>4 DEF Deals
  <2>6. ASSUME NEW y \in Deals(q) PROVE n + 1 >= y
    <3>1. y \in 1 .. Len(s) + 1
      BY <1>1 DEF Deals
    <3>2. CASE y = 1
      BY <2>4, <3>2
    <3>3. CASE y # 1
      <4>1. y - 1 \in Deals(s)
        BY <1>1, <1>2, <3>3 DEF Deals
      <4>2. n >= y - 1
        BY <2>2, <4>1
      <4> QED
        BY <2>4, <3>1, <4>2
    <3> QED
      BY <3>2, <3>3
  <2>7. Deals(q) \in SUBSET Nat
    BY <1>1 DEF Deals
  <2>8. Max(Deals(q)) = n + 1
    BY <2>5, <2>6, <2>7, MaxIs
  <2> QED
    BY <1>4, <2>3, <2>4, <2>5, <2>8 DEF Deal, q
<1> QED
  BY <1>3, <1>4

\* What the messages of a path deal.
LEMMA PathDeals ==
  ASSUME NEW r, NEW x, NEW t
  PROVE  LET last == TaskOf(ChainAt(SetOf(r)), PosAt(SetOf(r))[ChainRank(r)])
             resp == IF x.swap = "sent" THEN last ELSE t
         IN  /\ Deal(ToSwap(r, x), t) = resp /\ Deal(ToResp(r, x), t) = resp
             /\ x.first = "sent" => Deal(ToFirst(r, x), t) = IF x.swap = "sent" THEN last
                                  ELSE TaskOf(ChainAt(SetOf(r)), x.held[ChainRank(r)])
             /\ x.first # "sent" => Deal(ToFirst(r, x), t) = resp
             /\ x.job # "none" => Deal(ToJob(r, x), t) = IF x.swap = "sent" THEN last
                                                         ELSE JobFor(r, x).task
             /\ x.job = "none" => Deal(ToJob(r, x), t) = resp
             /\ Deal(ToAction(r, x), t) = Deal(ToJob(r, x), t)
<1> DEFINE g == SetOf(r)
           i == ChainRank(r)
           last == TaskOf(ChainAt(g), PosAt(g)[i])
           resp(u) == IF x.swap = "sent" THEN last ELSE u
           M == Mail(r, x)
<1>1. /\ ~IsDeal(ActionMsg(x.act)) /\ ~IsDeal(RespFor(r, x)) /\ IsDeal(JobFor(r, x))
      /\ IsDeal(SwapFor(r, x.was, x.held)) /\ IsDeal(SwapFor(r, x.held, PosAt(g)))
      /\ SwapFor(r, x.was, x.held).task = TaskOf(ChainAt(g), x.held[i])
      /\ SwapFor(r, x.held, PosAt(g)).task = last
  BY DEF IsDeal, ActionMsg, RespFor, Response, JobFor, JobMsg, SwapFor, SwapMsg
<1>2. /\ ActionMsg(x.act) \in M /\ JobFor(r, x) \in M /\ SwapFor(r, x.was, x.held) \in M
      /\ RespFor(r, x) \in M /\ SwapFor(r, x.held, PosAt(g)) \in M
  BY DEF Mail
<1>3. << >> \in Seq(M) /\ ToSwap(r, x) \in Seq(M) /\ ToResp(r, x) \in Seq(M) /\ ToJob(r, x) \in Seq(M)
  BY QueuesAreMail
<1> HIDE DEF M, last
<1>4. ASSUME NEW u PROVE Deal(ToSwap(r, x), u) = resp(u)
  <2> DEFINE m == SwapFor(r, x.held, PosAt(g))
  <2>2. m \in M /\ IsDeal(m) /\ m.task = last
    BY <1>1, <1>2
  <2> HIDE DEF m
  <2>3. Deal(<<m>> \o << >>, u) = Deal(<< >>, m.task)
    BY <1>3, <2>2, DealAhead
  <2>1. Deal(<<SwapFor(r, x.held, PosAt(g))>> \o << >>, u) = last
    BY <2>2, <2>3, DealNone DEF m
  <2> QED
    BY <2>1, DealNone DEF ToSwap, Ahead
<1>5. ASSUME NEW u PROVE Deal(ToResp(r, x), u) = resp(u)
  <2>1. Deal(<<RespFor(r, x)>> \o ToSwap(r, x), u) = Deal(ToSwap(r, x), u)
    BY <1>1, <1>2, <1>3, DealAhead
  <2> QED
    BY <1>4, <2>1 DEF ToResp, Ahead
<1>6. Deal(<<SwapFor(r, x.was, x.held)>> \o ToResp(r, x), t)
        = Deal(ToResp(r, x), TaskOf(ChainAt(g), x.held[i]))
  BY <1>1, <1>2, <1>3, DealAhead
<1>7. Deal(<<JobFor(r, x)>> \o ToResp(r, x), t) = Deal(ToResp(r, x), JobFor(r, x).task)
  BY <1>1, <1>2, <1>3, DealAhead
<1>8. Deal(<<ActionMsg(x.act)>> \o ToJob(r, x), t) = Deal(ToJob(r, x), t)
  BY <1>1, <1>2, <1>3, DealAhead
<1>9. Deal(ToFirst(r, x), t) = IF x.first = "sent" THEN resp(TaskOf(ChainAt(g), x.held[i]))
                               ELSE resp(t)
  BY <1>5, <1>6 DEF ToFirst, Ahead
<1>10. Deal(ToJob(r, x), t) = IF x.job # "none" THEN resp(JobFor(r, x).task) ELSE resp(t)
  BY <1>5, <1>7 DEF ToJob, Ahead
<1>11. Deal(ToAction(r, x), t) = Deal(ToJob(r, x), t)
  BY <1>8 DEF ToAction, Ahead
<1> QED
  BY <1>4, <1>5, <1>9, <1>10, <1>11 DEF last

LEMMA DealtRight ==
  ASSUME SetInv, NEW r \in Ranks, setRun[SetOf(r)] # NoRun
  PROVE  DealtTo(r) = TaskOf(ChainAt(SetOf(r)), PosAt(SetOf(r))[ChainRank(r)])
<1> DEFINE g == SetOf(r)
           i == ChainRank(r)
           last == TaskOf(ChainAt(g), PosAt(g)[i])
<1>1. PICK x \in Paths : Path(x) /\ Seated(g, x) /\ RankIn(r, x) /\ Placed(r, x)
  BY InSet, SeatIs
<1>2. HasRun(x) /\ (x.swap = "none" => x.held = PosAt(g)) /\ x.job # "quit"
  BY <1>1 DEF Seated, HasRun
<1>3. DealtTo(r) = Deal(Queue(r, x), task[r])
  BY <1>1, DealtIs DEF RankIn
<1>4. CASE x.swap = "sent"
  <2>1. \A t : /\ Deal(ToSwap(r, x), t) = last /\ Deal(ToResp(r, x), t) = last
               /\ Deal(ToFirst(r, x), t) = last /\ Deal(ToJob(r, x), t) = last
               /\ Deal(ToAction(r, x), t) = last
    BY <1>4, PathDeals
  <2> QED
    BY <1>3, <2>1 DEF Queue
<1>5. CASE x.swap # "sent"
  <2>1. x.held = PosAt(g)
    BY <1>2, <1>5 DEF Paths, Flag
  <2>2. /\ Deal(ToSwap(r, x), task[r]) = task[r] /\ Deal(ToResp(r, x), task[r]) = task[r]
        /\ Deal(ToFirst(r, x), task[r]) = IF x.first = "sent" THEN last ELSE task[r]
        /\ Deal(ToJob(r, x), task[r]) = IF x.job = "none" THEN task[r] ELSE JobFor(r, x).task
        /\ Deal(ToAction(r, x), task[r]) = Deal(ToJob(r, x), task[r])
    BY <1>5, <2>1, PathDeals
  <2>3. x.job # "none" => JobFor(r, x).task = last
    <3> SUFFICES ASSUME x.job # "none" PROVE JobFor(r, x).task = last
      OBVIOUS
    <3>1. x.job = "job"
      BY <1>2 DEF Paths
    <3>2. x.held = Identity /\ i \in Members
      BY <1>1, <3>1, SeatIs DEF Path
    <3>3. PosAt(g)[i] = i
      BY <2>1, <3>2 DEF Identity
    <3> QED
      BY <3>1, <3>3 DEF JobFor, JobMsg
  <2>4. ASSUME x.kind # "start", x.job = "none", x.first = "none"
        PROVE  TaskOf(x.own[1], x.was[i]) = last
    <3>1. x.own = setRun[g] /\ x.was = x.held
      BY <1>1, <2>4 DEF Path, Seated
    <3> QED
      BY <2>1, <3>1 DEF ChainAt
  <2>5. CASE pc[r] \in {"rename", "action"}
    <3>1. x.kind # "start" /\ x.first = "none"
      BY <1>1, <2>5, WhereIs DEF Path, Paths, Flag
    <3>2. task[r] = TaskOf(x.own[1], x.was[i])
      BY <1>1, <2>5, <3>1 DEF RankIn, Works, Reporting
    <3>3. DealtTo(r) = IF x.job = "none" THEN task[r] ELSE JobFor(r, x).task
      BY <1>3, <2>2, <2>5 DEF Queue
    <3> QED
      BY <2>3, <2>4, <3>1, <3>2, <3>3
  <2>6. CASE pc[r] \in {"merge", "accept"}
    <3>1. x.job # "none"
      BY <1>1, <1>2, <2>6, WhereIs DEF Path, HasRun
    <3>2. DealtTo(r) = JobFor(r, x).task
      BY <1>3, <2>2, <2>6, <3>1 DEF Queue
    <3> QED
      BY <2>3, <3>1, <3>2
  <2>7. CASE pc[r] = "swap"
    <3>1. DealtTo(r) = IF x.first = "sent" THEN last ELSE task[r]
      BY <1>3, <2>2, <2>7 DEF Queue
    <3>2. task[r] = TaskOf(ChainAt(g), x.was[i]) /\ x.kind = "update"
      BY <1>1, <2>7, WhereIs DEF RankIn, Works, Updating
    <3>3. x.first # "sent" => x.was = x.held
      BY <1>1, <3>2 DEF Path, Paths, Flag
    <3> QED
      BY <2>1, <3>1, <3>2, <3>3
  <2>8. CASE pc[r] \in {"exchange", "negotiate"} \cup Sweeping \cup Writing
    <3>1. task[r] = last
      BY <1>1, <2>1, <2>8 DEF RankIn, Works
    <3>2. DealtTo(r) = task[r]
      BY <1>3, <2>2, <2>8 DEF Queue, Sweeping, Writing
    <3> QED
      BY <3>1, <3>2
  <2>9. CASE pc[r] = "left"
    <3>1. x.kind = "timeup" /\ x.first = "none" /\ x.job = "none"
      BY <1>1, <2>9, WhereIs DEF Path, Paths, Flag
    <3>2. task[r] = TaskOf(x.own[1], x.was[i])
      BY <1>1, <2>9, <3>1 DEF RankIn, Works
    <3>3. DealtTo(r) = task[r]
      BY <1>3, <2>2, <2>9 DEF Queue
    <3> QED
      BY <2>4, <3>1, <3>2, <3>3
  <2>10. CASE pc[r] = "exited"
    <3>1. x.way = "exit" /\ x.kind # "timeup"
      BY <1>1, <2>10, WhereIs
    <3> QED
      BY <1>1, <1>2, <3>1 DEF Path, Paths, HasRun
  <2>11. pc[r] \in Reporting \cup Updating \cup Sweeping \cup Writing \cup {"left", "exited"}
    BY <1>1 DEF Placed, FirstPlaces, LastPlaces, Reporting, Updating, Paths
  <2> QED
    BY <2>5, <2>6, <2>7, <2>8, <2>9, <2>10, <2>11 DEF Reporting, Updating
<1> QED
  BY <1>4, <1>5 DEF Paths, Flag

LEMMA PositionsAre == SetInv => PositionsAgree
<1> SUFFICES ASSUME SetInv, NEW r \in Ranks, setRun[SetOf(r)] # NoRun
             PROVE  DealtTo(r) = TaskOf(setRun[SetOf(r)][1],
                      pos[setRun[SetOf(r)][1]][setRun[SetOf(r)][2]][ChainRank(r)])
  BY DEF PositionsAgree
<1> QED
  BY DealtRight DEF PosAt, ChainAt, RunAt

\* Each rank always simulates the task at the position rank_to_pos gives it.
THEOREM PositionsAlwaysAgree == Together => (Spec => []PositionsAgree)
<1>1. ASSUME Together PROVE Spec => []PositionsAgree
  <2>1. Spec => []SetInv
    BY <1>1, SetsInStep
  <2> QED
    BY <2>1, PositionsAre, PTL
<1> QED
  BY <1>1

-----------------------------------------------------------------------------
(* The dumps while the program is down.                                    *)

LEMMA DownAgrees ==
  ASSUME SetInv, phase # "running", NEW c \in Chains, NEW t \in ChainTasks(c),
         NEW u \in ChainTasks(c)
  PROVE  /\ t \in Tasks /\ u \in Tasks
         /\ DOMAIN dump[t] = DOMAIN dump[u] /\ \A k \in DOMAIN dump[t] : dump[t][k] = dump[u][k]
<1>1. t \in Tasks /\ u \in Tasks
  BY ChainTasksAre
<1>2. DOMAIN dump[t] \subseteq RunIds /\ DOMAIN dump[u] \subseteq RunIds
  BY <1>1 DEF SetInv, Types, RunFiles
<1>3. ASSUME NEW k \in RunIds
      PROVE  /\ k \in DOMAIN dump[t] <=> k \in DOMAIN dump[u]
             /\ k \in DOMAIN dump[t] => dump[t][k] = dump[u][k]
  <2>1. Slot(t, k) = Slot(u, k)
    BY DEF SetInv, SharedInv, FilesInv, Agreed
  <2>2. /\ k \in DOMAIN dump[t] => Slot(t, k) = {dump[t][k]}
        /\ k \notin DOMAIN dump[t] => Slot(t, k) = {}
        /\ k \in DOMAIN dump[u] => Slot(u, k) = {dump[u][k]}
        /\ k \notin DOMAIN dump[u] => Slot(u, k) = {}
    BY DEF Slot
  <2> QED
    BY <2>1, <2>2
<1> QED
  BY <1>1, <1>2, <1>3

LEMMA DownAccepted ==
  ASSUME Together, SetInv, phase # "running"
  PROVE  ProgressAgrees
<1> SUFFICES ASSUME NEW c \in Chains, NEW t \in ChainTasks(c), NEW u \in ChainTasks(c)
             PROVE  ReadProgress(t) = ReadProgress(u)
  BY DEF ProgressAgrees
<1>1. /\ t \in Tasks /\ u \in Tasks
      /\ DOMAIN dump[t] = DOMAIN dump[u] /\ \A k \in DOMAIN dump[t] : dump[t][k] = dump[u][k]
  BY DownAgrees
<1>2. ProgressIn(t) = ProgressIn(u)
  BY <1>1 DEF ProgressIn
<1>3. Spgu[t] = Spgu[u]
  BY <1>1, ChainTasksAre, PeriodIs
<1>4. IsFiniteSet(DOMAIN dump[t]) /\ IsFiniteSet(DOMAIN dump[u])
  BY <1>1, RunsFinite DEF SetInv
<1> QED
  BY <1>1, <1>2, <1>3, <1>4, ReadProgressIs

RefusedInv == phase = "refused" => mdump.state = "torn"

LEMMA RefusedStep ==
  ASSUME Together
  PROVE  SetInv /\ RefusedInv /\ [Next]_vars => RefusedInv'
<1> SUFFICES ASSUME SetInv, RefusedInv, [Next]_vars, phase' = "refused"
             PROVE  mdump'.state = "torn"
  BY DEF RefusedInv
<1>1. CASE MasterStep \/ MasterCheckpoint
  <2>1. phase = "running" /\ phase' = phase
    BY <1>1 DEF MasterStep, AssignFirst, GlobalUpdate, ReactBusy, ReactReady, ReactTimeUp,
       Receives, MasterCheckpoint, launchVars
  <2> QED
    BY <2>1
<1>2. CASE Finalize \/ Crash \/ Relaunch
  BY <1>2 DEF Finalize, Crash, Relaunch
<1>3. CASE \E r \in Ranks : SlaveStep(r)
  <2>1. phase = "running"
    BY <1>3, SlaveRuns
  <2>2. phase' = phase
    BY <1>3 DEF SlaveStep, Quit, AcceptNewChain, Sweeps, Respond, KeepTask, ChangeTask,
       Exchange, Negotiate, HearTimeout, WriteTemporary, FinishFirst, FinishReport,
       FinishTimeUp, TakeAction, MergeMeasurements, launchVars
  <2> QED
    BY <2>1, <2>2
<1>4. CASE \E g \in Sets : Barrier(g)
  <2>1. phase = "running" /\ phase' = phase
    BY <1>4 DEF Barrier, launchVars
  <2> QED
    BY <2>1
<1>5. CASE Refuse
  <2>1. phase # "running" /\ mdump' = mdump /\ (~ProgressAgrees \/ mdump.state = "torn")
    BY <1>5 DEF Refuse, fileVars
  <2> QED
    BY <2>1, DownAccepted
<1>6. CASE UNCHANGED vars
  BY <1>6 DEF vars, launchVars, fileVars, RefusedInv
<1> QED
  BY <1>1, <1>2, <1>3, <1>4, <1>5, <1>6 DEF Next, Stopped

LEMMA ConsistentIs == SetInv /\ RefusedInv => ConsistentDumps
<1> SUFFICES ASSUME SetInv, RefusedInv, phase # "running"
             PROVE  /\ \A c \in Chains : \A t, u \in ChainTasks(c) :
                         /\ DOMAIN dump[t] = DOMAIN dump[u]
                         /\ \A k \in DOMAIN dump[t] : SweepOf(dump[t][k]) = SweepOf(dump[u][k])
                    /\ phase = "refused" => mdump.state = "torn"
  BY DEF ConsistentDumps
<1>1. ASSUME NEW c \in Chains, NEW t \in ChainTasks(c), NEW u \in ChainTasks(c)
      PROVE  /\ DOMAIN dump[t] = DOMAIN dump[u]
             /\ \A k \in DOMAIN dump[t] : dump[t][k] = dump[u][k]
  BY DownAgrees
<1> QED
  BY <1>1 DEF RefusedInv

\* Whenever the program is down, the dumps of the tasks of a chain agree, and so
\* a launch is only refused after a kill in the master's own checkpoint.
THEOREM DumpsAlwaysConsistent == Together => (Spec => []ConsistentDumps)
<1>1. ASSUME Together PROVE Spec => []ConsistentDumps
  <2>1. Spec => []SetInv
    BY <1>1, SetsInStep
  <2>2. SetInv /\ RefusedInv /\ [Next]_vars => RefusedInv'
    BY <1>1, RefusedStep
  <2>3. Init => RefusedInv
    BY DEF Init, RefusedInv
  <2> QED
    BY <2>1, <2>2, <2>3, ConsistentIs, PTL DEF Spec
<1> QED
  BY <1>1

-----------------------------------------------------------------------------
(* The ranks the master counts as active.                                  *)

\* A rank does not count any more once its set is dismissed or the master has
\* read that its time is up.
Silent(r) == pc[r] = "left" /\ toMaster[r] = << >>
Dropped(g) == setRun[g] = NoRun /\ ~Undealt(g)
Gone(r)   == Dropped(SetOf(r)) \/ Silent(r)
Active    == {r \in Ranks : ~Gone(r)}

ActiveInv == numActive = 1 + Cardinality(Active)
EndedInv  ==
  phase = "ended" => \A r \in Ranks : pc[r] \in {"left", "exited"} /\ toMaster[r] = << >>

LEMMA SetRanksAre ==
  ASSUME NEW g \in Sets
  PROVE  /\ SetRanks(g) = g * ChainLen .. g * ChainLen + (ChainLen - 1)
         /\ IsFiniteSet(SetRanks(g)) /\ Cardinality(SetRanks(g)) = ChainLen
<1> DEFINE a == g * ChainLen
<1>1. a \in Int /\ g \in Nat /\ ChainLen \in Nat \ {0}
  BY ShapeAssumption, MembersAre DEF Sets
<1>2. ASSUME NEW r \in SetRanks(g) PROVE r \in a .. a + (ChainLen - 1)
  <2>1. r \in Ranks /\ SetOf(r) = g
    BY DEF SetRanks
  <2>2. ChainRank(r) \in 0 .. ChainLen - 1 /\ r = a + ChainRank(r)
    BY <2>1, SeatIs, MembersAre
  <2> HIDE DEF a
  <2> QED
    BY <1>1, <2>2
<1>3. ASSUME NEW r \in a .. a + (ChainLen - 1) PROVE r \in SetRanks(g)
  <2> DEFINE i == r - a
  <2>1. i \in Members /\ r = a + i
    <3> HIDE DEF a
    <3> QED
      BY <1>1, MembersAre
  <2>2. r \in Ranks /\ SetOf(r) = g
    BY <2>1, RankAt
  <2> QED
    BY <2>2 DEF SetRanks
<1>4. SetRanks(g) = a .. a + (ChainLen - 1)
  BY <1>2, <1>3
<1>5. a + (ChainLen - 1) \in Int /\ a <= a + (ChainLen - 1)
      /\ a + (ChainLen - 1) - a + 1 = ChainLen
  <2> HIDE DEF a
  <2> QED
    BY <1>1
<1> HIDE DEF a
<1>6. IsFiniteSet(a .. a + (ChainLen - 1)) /\ Cardinality(a .. a + (ChainLen - 1)) = ChainLen
  <2>1. ~(a > a + (ChainLen - 1))
    BY <1>1, <1>5
  <2> QED
    BY <1>1, <1>5, <2>1, FS_Interval
<1> QED
  BY <1>4, <1>6 DEF a

LEMMA RanksAre == IsFiniteSet(Ranks) /\ Cardinality(Ranks) = NSets * ChainLen
<1> DEFINE n == NSets * ChainLen
<1>1. n \in Nat /\ n >= 1
  BY ShapeAssumption
<1> HIDE DEF n
<1>2. 0 \in Int /\ n - 1 \in Int /\ ~(0 > n - 1) /\ n - 1 - 0 + 1 = n
  BY <1>1
<1>3. IsFiniteSet(0 .. n - 1) /\ Cardinality(0 .. n - 1) = n
  BY <1>2, FS_Interval
<1> QED
  BY <1>3 DEF Ranks, n

LEMMA ActiveFinite == IsFiniteSet(Active) /\ Cardinality(Active) \in Nat
BY RanksAre, FS_Subset, FS_CardinalityType DEF Active

\* What a message to the master says of its sender.
LEMMA Speaks ==
  ASSUME SetInv, NEW r \in Ranks, NEW type, HeadIs(toMaster, r, type)
  PROVE  /\ type = "timeup" => /\ pc[r] = "left" /\ toMaster[r] = <<Status("timeup")>>
                               /\ setRun[SetOf(r)] # NoRun
         /\ type # "timeup" => pc[r] # "left"
         /\ type = "busy" => /\ setRun[SetOf(r)] # NoRun
                             /\ \A q \in SetRanks(SetOf(r)) : pc[q] # "left"
         /\ type = "weight" => mode = <<"weights", SetOf(r)>>
<1>1. PICK x \in Paths : /\ Path(x) /\ Seated(SetOf(r), x)
                         /\ \A q \in Ranks : SetOf(q) = SetOf(r) => RankIn(q, x) /\ Placed(q, x)
  BY InSet, SeatIs
<1>2. RankIn(r, x) /\ Placed(r, x) /\ Said(r, x) /\ toMaster[r] # << >>
  BY <1>1 DEF RankIn, HeadIs
<1>3. CASE pc[r] = "left"
  <2>1. toMaster[r] = <<Status("timeup")>> /\ type = "timeup"
    BY <1>2, <1>3 DEF Said, HeadIs, Status
  <2>2. x.kind = "timeup" /\ x.job = "none"
    BY <1>1, <1>2, <1>3, WhereIs DEF Path, Paths
  <2>3. setRun[SetOf(r)] # NoRun
    BY <1>1, <2>2 DEF Seated, HasRun
  <2> QED
    BY <1>3, <2>1, <2>3
<1>4. CASE pc[r] # "left"
  <2>1. \/ pc[r] = "response" /\ toMaster[r] = <<Status("ready")>>
        \/ /\ pc[r] = "action" /\ x.act = "none" /\ \E n \in Nat : toMaster[r] = <<BusyMsg(n)>>
        \/ Weighed(r, x) /\ toMaster[r] = <<Status("weight")>>
    BY <1>2, <1>4 DEF Said
  <2>9. /\ Head(<<Status("ready")>>).type = "ready" /\ Head(<<Status("weight")>>).type = "weight"
        /\ \A n \in Nat : Head(<<BusyMsg(n)>>).type = "busy"
    BY DEF Status, BusyMsg
  <2>10. \/ type = "ready"
         \/ type = "busy" /\ pc[r] = "action" /\ x.act = "none"
         \/ type = "weight" /\ Weighed(r, x)
    BY <2>1, <2>9 DEF HeadIs
  <2>2. type # "timeup"
    BY <2>10
  <2>3. type = "busy" => pc[r] = "action" /\ x.act = "none"
    BY <2>10
  <2>4. type = "weight" => Weighed(r, x)
    BY <2>10
  <2>5. type = "weight" => mode = <<"weights", SetOf(r)>>
    BY <1>1, <2>4 DEF Weighed, Waiting, Seated
  <2>6. ASSUME type = "busy" PROVE x.kind = "report" /\ x.job = "none"
    BY <1>1, <1>2, <2>3, <2>6, WhereIs DEF Path, Paths
  <2>7. ASSUME type = "busy" PROVE setRun[SetOf(r)] # NoRun
    BY <1>1, <2>6, <2>7 DEF Seated, HasRun
  <2>8. ASSUME type = "busy", NEW q \in SetRanks(SetOf(r)) PROVE pc[q] # "left"
    BY <1>1, <2>6, <2>8, WhereIs DEF SetRanks
  <2> QED
    BY <1>4, <2>2, <2>5, <2>7, <2>8
<1> QED
  BY <1>3, <1>4

-----------------------------------------------------------------------------
(* What is next in the channel of a rank.                                  *)

\* The messages of which the first is next, at each place.
Fits(r) ==
  LET next == IF toSlave[r] = << >> THEN "none" ELSE Head(toSlave[r]).type
  IN  /\ pc[r] = "accept" => next \in {"none", "job"}
      /\ (\/ pc[r] \in {"sweep", "response"}
          \/ pc[r] \in Checkpointing /\ reason[r] = "fresh")
           => next \in {"none", "response"}
      /\ pc[r] \in {"update_barrier", "swap"} => next \in {"none", "swap"}
      /\ (\/ pc[r] = "action"
          \/ pc[r] \in Checkpointing /\ reason[r] = "report")
           => next \in {"none", "action"}
      /\ pc[r] \in {"exchange", "negotiate"} => next \in {"none", "response"}
      /\ pc[r] \in {"left", "exited"} => next = "none"

LEMMA FitsIs ==
  ASSUME SetInv, NEW r \in Ranks
  PROVE  Fits(r)
<1>1. PICK x \in Paths : Path(x) /\ Seated(SetOf(r), x) /\ RankIn(r, x) /\ Placed(r, x)
  BY InSet, SeatIs
<1>2. toSlave[r] = Queue(r, x)
  BY <1>1 DEF RankIn
<1> DEFINE next == IF toSlave[r] = << >> THEN "none" ELSE Head(toSlave[r]).type
<1>3. ToResp(r, x) # << >> => Head(ToResp(r, x)).type = "response"
  BY <1>1, RespNext DEF RespFor, Response
<1>4. ToSwap(r, x) # << >> => Head(ToSwap(r, x)).type = "swap"
  <2>1. \A t, q : Head(<<SwapMsg(t, q)>>).type = "swap"
    BY DEF SwapMsg
  <2> QED
    BY <1>1, <2>1, SwapNext DEF SwapFor
<1>5. x.kind = "update" /\ ToFirst(r, x) # << >> => Head(ToFirst(r, x)).type = "swap"
  BY <1>1, FirstNext DEF SwapFor, SwapMsg
<1>6. /\ x.kind = "start" \/ (x.kind = "report" /\ x.act \in {"process", "new_job"})
      /\ ToJob(r, x) # << >>
      => Head(ToJob(r, x)).type = "job"
  <2>1. JobFor(r, x).type = "job"
    BY DEF JobFor, JobMsg
  <2> QED
    BY <1>1, <2>1, JobNext
<1>7. x.kind = "report" /\ ToAction(r, x) # << >> => Head(ToAction(r, x)).type = "action"
  BY <1>1, ActionNext DEF ActionMsg
<1>8. x.way # "sweep" => ToResp(r, x) = << >>
  BY <1>1, NothingElse
<1>9. pc[r] = "accept" => next \in {"none", "job"}
  BY <1>1, <1>2, <1>6, WhereIs DEF Queue
<1>10. pc[r] \in {"sweep", "response", "exchange", "negotiate"} => next \in {"none", "response"}
  BY <1>2, <1>3 DEF Queue
<1>11. pc[r] \in Writing => next = "none"
  <2> SUFFICES ASSUME pc[r] \in Writing PROVE next = "none"
    OBVIOUS
  <2>1. x.way = "write"
    BY <1>1, WhereIs
  <2> QED
    BY <1>2, <1>8, <2>1 DEF Queue, Writing
<1>12. pc[r] = "rename" /\ reason[r] = "fresh" => next \in {"none", "response"}
  <2> SUFFICES ASSUME pc[r] = "rename", reason[r] = "fresh" PROVE next \in {"none", "response"}
    OBVIOUS
  <2>1. x.kind = "fresh"
    BY <1>1 DEF RankIn, CountsTo, Writing
  <2>2. x.act = "none" /\ x.job = "none"
    BY <1>1, <2>1 DEF Path, Paths
  <2>3. Queue(r, x) = ToResp(r, x)
    BY <2>2 DEF Queue, ToAction, ToJob, Ahead
  <2> QED
    BY <1>2, <1>3, <2>3
<1>13. pc[r] = "rename" /\ reason[r] = "report" => next \in {"none", "action"}
  <2> SUFFICES ASSUME pc[r] = "rename", reason[r] = "report" PROVE next \in {"none", "action"}
    OBVIOUS
  <2>1. x.kind = "report"
    BY <1>1 DEF RankIn, CountsTo, Writing
  <2> QED
    BY <1>2, <1>7, <2>1 DEF Queue
<1>14. pc[r] = "action" => next \in {"none", "action"}
  BY <1>1, <1>2, <1>7, WhereIs DEF Queue
<1>15. pc[r] = "update_barrier" => next \in {"none", "swap"}
  BY <1>2, <1>4 DEF Queue
<1>16. pc[r] = "swap" => next \in {"none", "swap"}
  BY <1>1, <1>2, <1>5, WhereIs DEF Queue, Updating
<1>17. pc[r] \in {"left", "exited"} => next = "none"
  <2> SUFFICES ASSUME pc[r] \in {"left", "exited"} PROVE next = "none"
    OBVIOUS
  <2>1. x.way = "exit"
    BY <1>1, WhereIs
  <2> QED
    BY <1>2, <1>8, <2>1 DEF Queue
<1> HIDE DEF next
<1>18. /\ pc[r] = "accept" => next \in {"none", "job"}
       /\ (\/ pc[r] \in {"sweep", "response"}
           \/ pc[r] \in Checkpointing /\ reason[r] = "fresh")
            => next \in {"none", "response"}
       /\ pc[r] \in {"update_barrier", "swap"} => next \in {"none", "swap"}
       /\ (\/ pc[r] = "action"
           \/ pc[r] \in Checkpointing /\ reason[r] = "report")
            => next \in {"none", "action"}
       /\ pc[r] \in {"exchange", "negotiate"} => next \in {"none", "response"}
       /\ pc[r] \in {"left", "exited"} => next = "none"
  BY <1>9, <1>10, <1>11, <1>12, <1>13, <1>14, <1>15, <1>16, <1>17
  DEF Checkpointing, Writing
<1> QED
  BY <1>18 DEF Fits, next

-----------------------------------------------------------------------------
(* The count of active ranks.                                              *)

\* What leaves alone who counts.
LEMMA ActiveStill ==
  ASSUME ActiveInv, numActive' = numActive, \A g \in Sets : Dropped(g)' <=> Dropped(g),
         \A r \in Ranks : Silent(r)' <=> Silent(r)
  PROVE  ActiveInv'
<1>1. \A r \in Ranks : Gone(r)' <=> Gone(r)
  BY SeatIs DEF Gone
<1>2. Active' = Active
  BY <1>1 DEF Active
<1> QED
  BY <1>2 DEF ActiveInv

LEMMA SetDismissed ==
  ASSUME SetInv, ActiveInv, NEW g \in Sets, numActive' = numActive - ChainLen,
         \A r \in SetRanks(g) : ~Gone(r), Dropped(g)',
         \A h \in Sets \ {g} : Dropped(h)' <=> Dropped(h),
         \A r \in Ranks : Silent(r)' <=> Silent(r)
  PROVE  ActiveInv'
<1>1. Active' = Active \ SetRanks(g)
  <2>1. \A r \in SetRanks(g) : r \in Ranks /\ SetOf(r) = g /\ Gone(r)' /\ r \in Active
    BY DEF SetRanks, Gone, Active
  <2>2. \A r \in Ranks \ SetRanks(g) : SetOf(r) \in Sets \ {g} /\ (Gone(r)' <=> Gone(r))
    BY SeatIs DEF SetRanks, Gone
  <2> QED
    BY <2>1, <2>2 DEF Active
<1>2. Active \cap SetRanks(g) = SetRanks(g)
  BY DEF SetRanks, Active
<1>3. Cardinality(Active \ SetRanks(g)) = Cardinality(Active) - ChainLen
  <2>1. Cardinality(Active \ SetRanks(g))
          = Cardinality(Active) - Cardinality(Active \cap SetRanks(g))
    <3> HIDE DEF Active
    <3> QED
      BY ActiveFinite, FS_Difference
  <2>2. Cardinality(SetRanks(g)) = ChainLen
    BY SetRanksAre
  <2> QED
    BY <1>2, <2>1, <2>2
<1>4. Cardinality(Active) \in Nat /\ ChainLen \in Nat
  BY ActiveFinite, MembersAre
<1> QED
  BY <1>1, <1>3, <1>4 DEF ActiveInv

LEMMA AssignCounts ==
  ASSUME SetInv, ActiveInv, NEW g \in Sets, NEW n, NEW sch, NEW first,
         AssignNewChain(g, n, sch, first), \A r \in SetRanks(g) : ~Gone(r), ~Undealt(g)',
         setRun[g] = NoRun => Undealt(g),
         \A h \in Sets \ {g} : Undealt(h)' <=> Undealt(h),
         \A r \in Ranks : Silent(r)' <=> Silent(r)
  PROVE  ActiveInv'
<1> DEFINE c == GetNewTaskId(current, NChains, DoneChains(n))
           k == NextRun(sch[c])
<1>1. \/ c # NoTask /\ setRun' = [setRun EXCEPT ![g] = <<c, k>>] /\ numActive' = numActive
      \/ /\ c = NoTask /\ setRun' = [setRun EXCEPT ![g] = NoRun]
         /\ numActive' = numActive - ChainLen
  BY DEF AssignNewChain, Dismissed
<1>2. c # NoTask => <<c, k>> # NoRun
  BY DEF NoTask, NoRun
<1> HIDE DEF c, k
<1>3. setRun = [h \in Sets |-> setRun[h]]
  BY DEF SetInv, Types
<1>4. \A h \in Sets \ {g} : setRun'[h] = setRun[h]
  BY <1>1, <1>3
<1>5. \A h \in Sets \ {g} : Dropped(h)' <=> Dropped(h)
  BY <1>4 DEF Dropped
<1>6. CASE c # NoTask
  <2>1. setRun'[g] # NoRun /\ numActive' = numActive
    BY <1>1, <1>2, <1>3, <1>6
  <2>2. ~Dropped(g) /\ ~Dropped(g)'
    BY <2>1 DEF Dropped
  <2> QED
    BY <1>5, <2>1, <2>2, ActiveStill
<1>7. CASE c = NoTask
  <2>1. setRun'[g] = NoRun /\ numActive' = numActive - ChainLen
    BY <1>1, <1>3, <1>7
  <2>2. Dropped(g)'
    BY <2>1 DEF Dropped
  <2> QED
    BY <1>5, <2>1, <2>2, SetDismissed
<1> QED
  BY <1>6, <1>7

LEMMA AssignFirstCounts ==
  ASSUME SetInv, ActiveInv, NEW g \in Sets, AssignFirst(g)
  PROVE  ActiveInv'
<1>1. /\ mode = <<"assign", g>> /\ AssignNewChain(g, sweeps, scheduled, << >>)
      /\ mode' = IF g + 1 \in Sets THEN <<"assign", g + 1>> ELSE <<"react">>
      /\ pc' = pc /\ toMaster' = toMaster
  BY DEF AssignFirst, slaveVars
<1>2. Undealt(g) /\ \A h \in Sets : Undealt(h) <=> g <= h
  BY <1>1 DEF Undealt, Sets
<1>3. \A h \in Sets : Undealt(h)' <=> g + 1 <= h
  <2>1. CASE g + 1 \in Sets
    <3>1. mode' = <<"assign", g + 1>>
      BY <1>1, <2>1
    <3> QED
      BY <2>1, <3>1 DEF Undealt
  <2>2. CASE g + 1 \notin Sets
    <3>1. mode' = <<"react">>
      BY <1>1, <2>2
    <3>2. \A h \in Sets : ~(g + 1 <= h)
      BY <2>2, ShapeAssumption DEF Sets
    <3>3. \A h \in Sets : ~Undealt(h)'
      BY <3>1 DEF Undealt
    <3> QED
      BY <3>2, <3>3
  <2> QED
    BY <2>1, <2>2
<1>4. \A h \in Sets \ {g} : g <= h <=> g + 1 <= h
  BY DEF Sets
<1>5. ~Undealt(g)' /\ \A h \in Sets \ {g} : Undealt(h)' <=> Undealt(h)
  BY <1>2, <1>3, <1>4 DEF Sets
<1>6. ASSUME NEW r \in SetRanks(g) PROVE ~Gone(r)
  <2>1. PICK x \in Paths : Path(x) /\ Seated(g, x) /\ Placed(r, x)
    BY InSet DEF SetRanks
  <2>2. x.kind = "start"
    BY <1>2, <2>1 DEF Seated
  <2>3. pc[r] # "left"
    BY <2>1, <2>2, WhereIs
  <2> QED
    BY <1>2, <2>3 DEF Gone, Dropped, Silent, SetRanks
<1>7. \A r \in Ranks : Silent(r)' <=> Silent(r)
  BY <1>1 DEF Silent
<1> QED
  BY <1>1, <1>2, <1>5, <1>6, <1>7, AssignCounts

LEMMA PopCounts ==
  ASSUME SetInv, NEW r \in Ranks, NEW type, HeadIs(toMaster, r, type), type # "timeup",
         toMaster' = Pop(toMaster, r), pc' = pc
  PROVE  \A q \in Ranks : Silent(q)' <=> Silent(q)
<1>1. pc[r] # "left"
  BY Speaks
<1>2. toMaster = [q \in Ranks |-> toMaster[q]]
  BY DEF SetInv, Types
<1>3. \A q \in Ranks : q # r => toMaster'[q] = toMaster[q]
  BY <1>2 DEF Pop
<1> QED
  BY <1>1, <1>3 DEF Silent

LEMMA ReactBusyCounts ==
  ASSUME SetInv, ActiveInv, NEW r \in Ranks, ReactBusy(r)
  PROVE  ActiveInv'
<1> DEFINE g == SetOf(r)
<1>1. /\ mode = <<"react">> /\ HeadIs(toMaster, r, "busy") /\ toMaster' = Pop(toMaster, r)
      /\ pc' = pc /\ mode' = mode
      /\ \/ \E n, sch, first : AssignNewChain(g, n, sch, first)
         \/ numActive' = numActive /\ setRun' = setRun
  BY DEF ReactBusy, Receives, slaveVars
<1>2. \A q \in Ranks : Silent(q)' <=> Silent(q)
  BY <1>1, PopCounts
<1>3. /\ g \in Sets /\ setRun[g] # NoRun /\ \A q \in SetRanks(g) : pc[q] # "left"
      /\ \A h : ~Undealt(h) /\ ~Undealt(h)'
  BY <1>1, Speaks, SeatIs DEF Undealt
<1>4. \A q \in SetRanks(g) : ~Gone(q)
  BY <1>3 DEF Gone, Dropped, Silent, SetRanks
<1>5. CASE numActive' = numActive /\ setRun' = setRun
  <2>1. \A h \in Sets : Dropped(h)' <=> Dropped(h)
    BY <1>3, <1>5 DEF Dropped
  <2> QED
    BY <1>2, <1>5, <2>1, ActiveStill
<1>6. ASSUME NEW n, NEW sch, NEW first, AssignNewChain(g, n, sch, first) PROVE ActiveInv'
  <2> HIDE DEF g
  <2> QED
    BY <1>2, <1>3, <1>4, <1>6, AssignCounts
<1> QED
  BY <1>1, <1>5, <1>6

LEMMA ReactTimeUpCounts ==
  ASSUME SetInv, ActiveInv, NEW r \in Ranks, ReactTimeUp(r)
  PROVE  ActiveInv'
<1>1. /\ mode = <<"react">> /\ HeadIs(toMaster, r, "timeup") /\ toMaster' = Pop(toMaster, r)
      /\ pc' = pc /\ mode' = mode /\ setRun' = setRun /\ numActive' = numActive - 1
  BY DEF ReactTimeUp, Receives, slaveVars, Leaving
<1>2. pc[r] = "left" /\ toMaster[r] = <<Status("timeup")>> /\ setRun[SetOf(r)] # NoRun
  BY <1>1, Speaks
<1>3. toMaster = [q \in Ranks |-> toMaster[q]]
  BY DEF SetInv, Types
<1>4. toMaster'[r] = << >> /\ \A q \in Ranks : q # r => toMaster'[q] = toMaster[q]
  <2> DEFINE m == Status("timeup")
  <2>1. Tail(<<m>>) = << >>
    <3> HIDE DEF m
    <3> QED
      OBVIOUS
  <2>2. toMaster'[r] = Tail(toMaster[r]) /\ \A q \in Ranks : q # r => toMaster'[q] = toMaster[q]
    BY <1>1, <1>3 DEF Pop
  <2> QED
    BY <1>2, <2>1, <2>2
<1>5. ~Gone(r) /\ Gone(r)'
  <2>1. toMaster[r] # << >>
    BY <1>1 DEF HeadIs
  <2> QED
    BY <1>1, <1>2, <1>4, <2>1 DEF Gone, Dropped, Silent
<1>6. \A q \in Ranks : q # r => (Gone(q)' <=> Gone(q))
  BY <1>1, <1>4 DEF Gone, Dropped, Undealt, Silent
<1>7. Active' = Active \ {r} /\ r \in Active
  BY <1>5, <1>6 DEF Active
<1>8. Cardinality(Active \ {r}) = Cardinality(Active) - 1
  BY <1>7, ActiveFinite, FS_RemoveElement
<1> QED
  BY <1>1, <1>7, <1>8, ActiveFinite DEF ActiveInv

LEMMA ReadyCounts ==
  ASSUME SetInv, ActiveInv, NEW r \in Ranks, ReactReady(r)
  PROVE  ActiveInv'
<1>1. /\ mode = <<"react">> /\ HeadIs(toMaster, r, "ready") /\ toMaster' = Pop(toMaster, r)
      /\ pc' = pc /\ mode'[1] = "weights" /\ setRun' = setRun /\ numActive' = numActive
  BY DEF ReactReady, Receives, slaveVars
<1>2. \A h \in Sets : ~Undealt(h) /\ ~Undealt(h)'
  BY <1>1 DEF Undealt
<1>3. \A h \in Sets : Dropped(h)' <=> Dropped(h)
  BY <1>1, <1>2 DEF Dropped
<1>4. \A q \in Ranks : Silent(q)' <=> Silent(q)
  BY <1>1, PopCounts
<1> QED
  BY <1>1, <1>3, <1>4, ActiveStill

LEMMA GlobalUpdateCounts ==
  ASSUME SetInv, ActiveInv, NEW g \in Sets, GlobalUpdate(g)
  PROVE  ActiveInv'
<1> DEFINE asked == {r \in SetRanks(g) :
              ~Skips(pos[setRun[g][1]][setRun[g][2]][ChainRank(r)],
                     odd[setRun[g][1]][setRun[g][2]], ChainLen)}
<1>1. /\ mode = <<"weights", g>> /\ mode' = <<"react">>
      /\ \A r \in asked : HeadIs(toMaster, r, "weight")
      /\ toMaster' = [r \in Ranks |-> IF r \in asked THEN Tail(toMaster[r]) ELSE toMaster[r]]
      /\ pc' = pc /\ setRun' = setRun /\ numActive' = numActive
  BY DEF GlobalUpdate, slaveVars
<1>2. \A h \in Sets : ~Undealt(h) /\ ~Undealt(h)'
  BY <1>1 DEF Undealt
<1>3. \A h \in Sets : Dropped(h)' <=> Dropped(h)
  BY <1>1, <1>2 DEF Dropped
<1>4. ASSUME NEW r \in Ranks PROVE Silent(r)' <=> Silent(r)
  <2>1. CASE r \in asked
    <3>1. pc[r] # "left"
      BY <1>1, <2>1, Speaks
    <3> QED
      BY <1>1, <3>1 DEF Silent
  <2>2. CASE r \notin asked
    <3> HIDE DEF asked
    <3> QED
      BY <1>1, <2>2 DEF Silent
  <2> QED
    BY <2>1, <2>2
<1> QED
  BY <1>1, <1>3, <1>4, ActiveStill

\* The steps of the slaves make no rank silent, nor end its silence.
LEMMA SlaveCounts ==
  ASSUME SetInv, NEW r \in Ranks, SlaveStep(r), NEW q \in Ranks
  PROVE  Silent(q)' <=> Silent(q)
<1>1. pc \in [Ranks -> Words] /\ toMaster = [p \in Ranks |-> toMaster[p]]
  BY DEF SetInv, Types
<1>2. CASE FinishTimeUp(r)
  <2>1. /\ pc[r] = "rename" /\ pc' = [pc EXCEPT ![r] = "left"]
        /\ toMaster' = Push(toMaster, r, Status("timeup"))
    BY <1>2 DEF FinishTimeUp, At, Goes
  <2>2. CASE q = r
    <3>1. toMaster'[r] = Append(toMaster[r], Status("timeup"))
      BY <1>1, <2>1 DEF Push
    <3>2. PICK x \in Paths : Path(x) /\ Seated(SetOf(r), x) /\ RankIn(r, x)
      BY InSet, SeatIs
    <3>3. toMaster[r] \in Seq({Status("timeup")} \cup {Status("weight")})
      <4> DEFINE m == Status("weight")
                 S == {Status("timeup")} \cup {m}
      <4>1. << >> \in Seq(S) /\ <<m>> \in Seq(S)
        <5> HIDE DEF m
        <5> QED
          OBVIOUS
      <4>2. toMaster[r] = << >> \/ toMaster[r] = <<m>>
        BY <2>1, <3>2 DEF RankIn, Said
      <4> QED
        BY <4>1, <4>2
    <3>4. toMaster'[r] # << >>
      <4> DEFINE m == Status("timeup")
      <4> HIDE DEF m
      <4>1. ASSUME NEW S, NEW s \in Seq(S \cup {m}) PROVE Append(s, m) # << >>
        <5>1. Len(Append(s, m)) = Len(s) + 1 /\ Len(s) \in Nat /\ Len(<< >>) = 0
          OBVIOUS
        <5> QED
          BY <5>1
      <4>2. {Status("timeup")} \cup {Status("weight")} = {Status("weight")} \cup {m}
        BY DEF m
      <4> QED
        BY <3>1, <3>3, <4>1, <4>2 DEF m
    <3> QED
      BY <2>1, <2>2, <3>4 DEF Silent
  <2>3. CASE q # r
    <3>1. pc'[q] = pc[q] /\ toMaster'[q] = toMaster[q]
      BY <1>1, <2>1, <2>3 DEF Push
    <3> QED
      BY <3>1 DEF Silent
  <2> QED
    BY <2>2, <2>3
<1>3. CASE ~FinishTimeUp(r)
  <2>1. \/ pc'[q] = pc[q] /\ toMaster'[q] = toMaster[q]
        \/ pc[q] # "left" /\ pc'[q] # "left"
    <3>1. CASE \E p \in Ranks : Exchange(r, p)
      BY <1>1, <3>1 DEF Exchange, At, netVars
    <3>2. CASE ~\E p \in Ranks : Exchange(r, p)
      <4>1. pc'[r] # "left" /\ pc[r] # "left"
        BY <1>1, <1>3, <3>2 DEF SlaveStep, Quit, AcceptNewChain, Sweeps, Respond, KeepTask,
           ChangeTask, Negotiate, HearTimeout, WriteTemporary, FinishFirst, FinishReport,
           TakeAction, MergeMeasurements, Takes, At, Goes, LoopHead, Obey, AfterWrite
      <4>2. q # r => pc'[q] = pc[q] /\ toMaster'[q] = toMaster[q]
        BY <1>1, <1>3, <3>2 DEF SlaveStep, Quit, AcceptNewChain, Sweeps, Respond, KeepTask,
           ChangeTask, Negotiate, HearTimeout, WriteTemporary, FinishFirst, FinishReport,
           TakeAction, MergeMeasurements, Takes, At, Goes, Obey, Push, netVars
      <4> QED
        BY <4>1, <4>2
    <3> QED
      BY <3>1, <3>2
  <2> QED
    BY <2>1 DEF Silent
<1> QED
  BY <1>2, <1>3

LEMMA StartCounts ==
  ASSUME numActive = NSets * ChainLen + 1, mode = <<"assign", 0>>,
         pc = [r \in Ranks |-> "accept"]
  PROVE  ActiveInv
<1>1. \A g \in Sets : Undealt(g)
  BY ShapeAssumption DEF Undealt, Sets
<1>2. Active = Ranks
  BY <1>1, SeatIs DEF Active, Gone, Dropped, Silent
<1> QED
  BY <1>2, RanksAre, ShapeAssumption DEF ActiveInv

LEMMA ActiveInit == Init => ActiveInv
BY StartCounts DEF Init

LEMMA BarrierCounts ==
  ASSUME SetInv, ActiveInv, NEW g \in Sets, Barrier(g)
  PROVE  ActiveInv'
<1>1. /\ \A r \in SetRanks(g) : pc[r] \in {"update_barrier", "write_barrier"}
      /\ pc' = [r \in Ranks |-> IF SetOf(r) # g THEN pc[r]
                  ELSE IF pc[r] = "update_barrier" THEN "swap" ELSE "rename"]
      /\ toMaster' = toMaster /\ setRun' = setRun /\ mode' = mode /\ numActive' = numActive
  BY DEF Barrier, netVars, masterVars
<1>2. \A r \in Ranks : Silent(r)' <=> Silent(r)
  BY <1>1 DEF Silent, SetRanks
<1>3. \A h \in Sets : Dropped(h)' <=> Dropped(h)
  BY <1>1 DEF Dropped, Undealt
<1> QED
  BY <1>1, <1>2, <1>3, ActiveStill

LEMMA RestCounts ==
  ASSUME ActiveInv, UNCHANGED masterVars, pc' = pc, toMaster' = toMaster
  PROVE  ActiveInv'
<1>1. \A r \in Ranks : Silent(r)' <=> Silent(r)
  BY DEF Silent
<1>2. numActive' = numActive /\ \A h \in Sets : Dropped(h)' <=> Dropped(h)
  BY DEF Dropped, Undealt, masterVars
<1> QED
  BY <1>1, <1>2, ActiveStill

LEMMA ActiveNext ==
  ASSUME SetInv, ActiveInv, [Next]_vars
  PROVE  ActiveInv'
<1>1. CASE \E g \in Sets : AssignFirst(g)
  BY <1>1, AssignFirstCounts
<1>2. CASE \E g \in Sets : GlobalUpdate(g)
  BY <1>2, GlobalUpdateCounts
<1>3. CASE \E r \in Ranks : ReactBusy(r)
  BY <1>3, ReactBusyCounts
<1>4. CASE \E r \in Ranks : ReactReady(r)
  BY <1>4, ReadyCounts
<1>5. CASE \E r \in Ranks : ReactTimeUp(r)
  BY <1>5, ReactTimeUpCounts
<1>6. CASE MasterCheckpoint \/ Finalize \/ Crash \/ Refuse \/ UNCHANGED vars
  <2>1. UNCHANGED masterVars /\ pc' = pc /\ toMaster' = toMaster
    BY <1>6 DEF MasterCheckpoint, Finalize, Crash, Refuse, vars, slaveVars, netVars
  <2> QED
    BY <2>1, RestCounts
<1>7. CASE \E r \in Ranks : SlaveStep(r)
  <2>1. PICK r \in Ranks : SlaveStep(r)
    BY <1>7
  <2>2. UNCHANGED masterVars
    BY <2>1 DEF SlaveStep, Quit, AcceptNewChain, Sweeps, Respond, KeepTask, ChangeTask,
       Exchange, Negotiate, HearTimeout, WriteTemporary, FinishFirst, FinishReport,
       FinishTimeUp, TakeAction, MergeMeasurements
  <2>3. numActive' = numActive /\ \A h \in Sets : Dropped(h)' <=> Dropped(h)
    BY <2>2 DEF Dropped, Undealt, masterVars
  <2> QED
    BY <2>1, <2>3, SlaveCounts, ActiveStill
<1>8. CASE \E g \in Sets : Barrier(g)
  BY <1>8, BarrierCounts
<1>9. CASE Relaunch
  <2>1. /\ numActive' = NSets * ChainLen + 1 /\ mode' = <<"assign", 0>>
        /\ pc' = [r \in Ranks |-> "accept"]
    BY <1>9 DEF Relaunch, Start
  <2>2. \A g \in Sets : Undealt(g)'
    BY <2>1, ShapeAssumption DEF Undealt, Sets
  <2>3. Active' = Ranks
    BY <2>1, <2>2, SeatIs DEF Active, Gone, Dropped, Silent
  <2> QED
    BY <2>1, <2>3, RanksAre, ShapeAssumption DEF ActiveInv
<1> QED
  BY <1>1, <1>2, <1>3, <1>4, <1>5, <1>6, <1>7, <1>8, <1>9 DEF Next, MasterStep, Stopped

-----------------------------------------------------------------------------
(* When a launch has ended.                                                *)

\* When no rank counts as active, all messages to the master have been read.
LEMMA FinalizeEnds ==
  ASSUME SetInv, ActiveInv, Finalize, NEW r \in Ranks
  PROVE  pc[r] \in {"left", "exited"} /\ toMaster[r] = << >>
<1>1. numActive <= 1 /\ mode = <<"react">> /\ pc[r] \in {"left", "exited"}
  BY DEF Finalize
<1>2. Active = {}
  <2>1. Cardinality(Active) = 0
    BY <1>1, ActiveFinite DEF ActiveInv
  <2> HIDE DEF Active
  <2> QED
    BY <2>1, ActiveFinite, FS_EmptySet
<1>3. Gone(r)
  BY <1>2 DEF Active
<1>4. CASE pc[r] = "left"
  <2>1. PICK x \in Paths : Path(x) /\ Seated(SetOf(r), x) /\ Placed(r, x)
    BY InSet, SeatIs
  <2>2. x.kind = "timeup" /\ x.job = "none"
    BY <1>4, <2>1, WhereIs DEF Path, Paths
  <2>3. setRun[SetOf(r)] # NoRun
    BY <2>1, <2>2 DEF Seated, HasRun
  <2> QED
    BY <1>1, <1>3, <2>3 DEF Gone, Dropped, Silent
<1>5. CASE pc[r] = "exited"
  <2>1. PICK x \in Paths : Path(x) /\ RankIn(r, x) /\ Placed(r, x)
    BY InSet, SeatIs
  <2>2. x.way = "exit"
    BY <1>5, <2>1, WhereIs
  <2>3. x.resp = "none" /\ x.kind # "update"
    BY <2>1, <2>2, NothingElse DEF Path, Paths
  <2>4. Said(r, x) /\ ~Weighed(r, x)
    BY <2>1, <2>3 DEF RankIn, Weighed
  <2> QED
    BY <1>1, <1>5, <2>4 DEF Said
<1> QED
  BY <1>1, <1>4, <1>5

LEMMA EndedNext ==
  ASSUME SetInv, ActiveInv, EndedInv, [Next]_vars
  PROVE  EndedInv'
<1>1. CASE phase' # "ended"
  BY <1>1 DEF EndedInv
<1>2. CASE phase' = "ended"
  <2>1. CASE Finalize
    <3>1. pc' = pc /\ toMaster' = toMaster
      BY <2>1 DEF Finalize, slaveVars, netVars
    <3> QED
      BY <2>1, <3>1, FinalizeEnds DEF EndedInv
  <2>2. CASE UNCHANGED vars
    BY <2>2 DEF EndedInv, vars, launchVars, slaveVars, netVars
  <2>3. CASE \E r \in Ranks : SlaveStep(r)
    <3>1. phase = "running"
      BY <2>3, SlaveRuns
    <3>2. phase' = phase
      BY <2>3 DEF SlaveStep, Quit, AcceptNewChain, Sweeps, Respond, KeepTask, ChangeTask,
         Exchange, Negotiate, HearTimeout, WriteTemporary, FinishFirst, FinishReport,
         FinishTimeUp, TakeAction, MergeMeasurements, launchVars
    <3> QED
      BY <1>2, <3>1, <3>2
  <2>4. CASE MasterStep \/ MasterCheckpoint \/ \E g \in Sets : Barrier(g)
    <3>1. phase = "running" /\ phase' = phase
      BY <2>4 DEF MasterStep, AssignFirst, GlobalUpdate, ReactBusy, ReactReady, ReactTimeUp,
         Receives, MasterCheckpoint, Barrier, launchVars
    <3> QED
      BY <1>2, <3>1
  <2>5. CASE Crash \/ Relaunch \/ Refuse
    BY <1>2, <2>5 DEF Crash, Relaunch, Refuse
  <2> QED
    BY <2>1, <2>2, <2>3, <2>4, <2>5 DEF Next, Stopped
<1> QED
  BY <1>1, <1>2

LEMMA MessagesIs == SetInv /\ EndedInv => MessagesFit
<1> SUFFICES ASSUME SetInv, EndedInv, NEW r \in Ranks
             PROVE  /\ Fits(r)
                    /\ HeadIs(toMaster, r, "weight") => mode = <<"weights", SetOf(r)>>
                    /\ phase = "ended" => toMaster[r] = << >> /\ bcast[r] = "none"
  BY DEF MessagesFit, Fits
<1>1. Fits(r)
  BY FitsIs
<1>2. HeadIs(toMaster, r, "weight") => mode = <<"weights", SetOf(r)>>
  BY Speaks
<1>3. ASSUME phase = "ended" PROVE toMaster[r] = << >> /\ bcast[r] = "none"
  <2>1. pc[r] \in {"left", "exited"} /\ toMaster[r] = << >>
    BY <1>3 DEF EndedInv
  <2>2. PICK x \in Paths : RankIn(r, x)
    BY InSet, SeatIs
  <2>3. bcast[r] = "none"
    BY <2>1, <2>2 DEF RankIn, CountsTo, Updating
  <2> QED
    BY <2>1, <2>3
<1> QED
  BY <1>1, <1>2, <1>3

\* All messages have tag 0, and yet what a rank receives next is what it waits
\* for, no weight is taken for a status, and a launch ends with every message
\* received: num_active_ranks_ counts exactly the ranks that will still send.
THEOREM MessagesAlwaysFit == Together => (Spec => []MessagesFit)
<1>1. ASSUME Together PROVE Spec => []MessagesFit
  <2>1. Spec => []SetInv
    BY <1>1, SetsInStep
  <2>2. Init => ActiveInv /\ EndedInv
    BY ActiveInit DEF Init, EndedInv
  <2>3. SetInv /\ ActiveInv /\ EndedInv /\ [Next]_vars => ActiveInv' /\ EndedInv'
    BY ActiveNext, EndedNext
  <2> QED
    BY <2>1, <2>2, <2>3, MessagesIs, PTL DEF Spec
<1> QED
  BY <1>1

-----------------------------------------------------------------------------
(* The ranks that merge, or have been told to.                             *)

In(m, s) == \E i \in DOMAIN s : s[i] = m
ToMerge(r)  == In(ActionMsg("process"), toSlave[r])

LEMMA MergersAre == Mergers = {r \in Ranks : pc[r] = "merge" \/ ToMerge(r)}
BY DEF Mergers, ToMerge, In

LEMMA InTail ==
  ASSUME NEW S, NEW s \in Seq(S), s # << >>, NEW m
  PROVE  In(m, s) <=> m = Head(s) \/ In(m, Tail(s))
<1>1. /\ DOMAIN s = 1 .. Len(s) /\ Len(s) \in Nat /\ Len(s) # 0 /\ Head(s) = s[1]
      /\ DOMAIN Tail(s) = 1 .. Len(s) - 1 /\ \A i \in 1 .. Len(s) - 1 : Tail(s)[i] = s[i + 1]
  OBVIOUS
<1> DEFINE u == Tail(s)
<1>2. ASSUME NEW i \in DOMAIN s, i # 1 PROVE i - 1 \in DOMAIN u /\ u[i - 1] = s[i]
  BY <1>1, <1>2
<1>3. ASSUME NEW i \in DOMAIN u PROVE i + 1 \in DOMAIN s /\ s[i + 1] = u[i]
  BY <1>1
<1>4. 1 \in DOMAIN s
  BY <1>1
<1> HIDE DEF u
<1> QED
  BY <1>1, <1>2, <1>3, <1>4 DEF In, u

LEMMA InAfter ==
  ASSUME NEW S, NEW s \in Seq(S), NEW u \in Seq(S), NEW m
  PROVE  In(m, s \o u) <=> In(m, s) \/ In(m, u)
<1> DEFINE q == s \o u
<1>1. /\ DOMAIN s = 1 .. Len(s) /\ Len(s) \in Nat /\ DOMAIN u = 1 .. Len(u) /\ Len(u) \in Nat
      /\ DOMAIN q = 1 .. Len(s) + Len(u)
      /\ \A i \in 1 .. Len(s) : q[i] = s[i]
      /\ \A i \in 1 .. Len(u) : q[Len(s) + i] = u[i]
  OBVIOUS
<1> HIDE DEF q
<1>2. ASSUME NEW i \in DOMAIN q, ~(i \in DOMAIN s)
      PROVE  i - Len(s) \in DOMAIN u /\ u[i - Len(s)] = q[i]
  <2>1. i - Len(s) \in 1 .. Len(u) /\ Len(s) + (i - Len(s)) = i
    BY <1>1, <1>2
  <2> QED
    BY <1>1, <2>1
<1>3. ASSUME NEW i \in DOMAIN u PROVE Len(s) + i \in DOMAIN q /\ q[Len(s) + i] = u[i]
  BY <1>1
<1>4. ASSUME NEW i \in DOMAIN s PROVE i \in DOMAIN q /\ q[i] = s[i]
  BY <1>1
<1> QED
  BY <1>2, <1>3, <1>4 DEF In, q

LEMMA InNone == \A m : ~In(m, << >>)
BY DEF In

LEMMA InOne == \A m, n : In(m, <<n>>) <=> m = n
BY DEF In

LEMMA QueueIsSeq ==
  ASSUME SetInv, NEW r \in Ranks
  PROVE  \E S : toSlave[r] \in Seq(S)
<1>1. PICK x \in Paths : RankIn(r, x)
  BY InSet, SeatIs
<1> QED
  BY <1>1, QueuesAreMail DEF RankIn, Queue

\* The action is on its way only while the rank renames or waits for it.
LEMMA ToldIs ==
  ASSUME SetInv, NEW r \in Ranks, NEW x \in Paths, Path(x), RankIn(r, x), ToMerge(r)
  PROVE  pc[r] \in {"rename", "action"} /\ x.act = "process"
<1> DEFINE p == ActionMsg("process")
<1>0. /\ \A a : ActionMsg(a).type = "action" /\ ActionMsg(a).action = a
      /\ RespFor(r, x).type = "response" /\ JobFor(r, x).type = "job"
      /\ \A from, to : SwapFor(r, from, to).type = "swap"
  BY DEF ActionMsg, RespFor, Response, JobFor, JobMsg, SwapFor, SwapMsg
<1>1. ASSUME NEW m, NEW s \in Seq(Mail(r, x)), m \in Mail(r, x), NEW b \in BOOLEAN
      PROVE  In(p, Ahead(b, m, s)) => In(p, s) \/ (b /\ m = p)
  <2>1. <<m>> \in Seq(Mail(r, x))
    BY <1>1
  <2>2. In(p, <<m>> \o s) <=> In(p, <<m>>) \/ In(p, s)
    BY <1>1, <2>1, InAfter
  <2> QED
    BY <2>2, InOne DEF Ahead
<1>2. /\ JobFor(r, x) # p /\ RespFor(r, x) # p /\ \A from, to : SwapFor(r, from, to) # p
  BY <1>0
<1>3. /\ JobFor(r, x) \in Mail(r, x) /\ RespFor(r, x) \in Mail(r, x)
      /\ SwapFor(r, x.was, x.held) \in Mail(r, x) /\ ActionMsg(x.act) \in Mail(r, x)
      /\ SwapFor(r, x.held, PosAt(SetOf(r))) \in Mail(r, x)
  BY DEF Mail
<1> HIDE DEF p
<1>4. ~In(p, ToSwap(r, x))
  <2> DEFINE m == SwapFor(r, x.held, PosAt(SetOf(r)))
  <2>1. m \in Mail(r, x) /\ m # p /\ << >> \in Seq(Mail(r, x))
    BY <1>2, <1>3, QueuesAreMail
  <2> HIDE DEF m
  <2>2. In(p, Ahead(x.swap = "sent", m, << >>)) => In(p, << >>)
    BY <1>1, <2>1
  <2> QED
    BY <2>2, InNone DEF ToSwap, m
<1>5. ~In(p, ToResp(r, x))
  BY <1>1, <1>2, <1>3, <1>4, QueuesAreMail DEF ToResp
<1>6. ~In(p, ToFirst(r, x)) /\ ~In(p, ToJob(r, x))
  <2> DEFINE m == SwapFor(r, x.was, x.held)
  <2>1. m \in Mail(r, x) /\ m # p /\ ToResp(r, x) \in Seq(Mail(r, x))
    BY <1>2, <1>3, QueuesAreMail
  <2> HIDE DEF m
  <2>2. In(p, Ahead(x.first = "sent", m, ToResp(r, x))) => In(p, ToResp(r, x))
    BY <1>1, <2>1
  <2>3. ~In(p, ToFirst(r, x))
    BY <1>5, <2>2 DEF ToFirst, m
  <2>4. ~In(p, ToJob(r, x))
    BY <1>1, <1>2, <1>3, <1>5, QueuesAreMail DEF ToJob
  <2> QED
    BY <2>3, <2>4
<1>7. In(p, ToAction(r, x)) => ActionMsg(x.act) = p
  BY <1>1, <1>3, <1>6, QueuesAreMail DEF ToAction
<1>8. In(p, Queue(r, x))
  BY DEF RankIn, ToMerge, p
<1>9. pc[r] \in {"rename", "action"} /\ In(p, ToAction(r, x))
  BY <1>4, <1>5, <1>6, <1>8 DEF Queue
<1> QED
  BY <1>0, <1>7, <1>9 DEF p

\* A rank that merges, or will, has a task of the chain its set had last.
LEMMA MergerIs ==
  ASSUME SetInv, NEW r \in Mergers
  PROVE  /\ r \in Ranks /\ pc[r] \in {"rename", "action", "merge"}
         /\ pc[r] = "merge" => ~ToMerge(r)
<1>1. r \in Ranks /\ (pc[r] = "merge" \/ ToMerge(r))
  BY MergersAre
<1>2. PICK x \in Paths : Path(x) /\ RankIn(r, x)
  BY <1>1, InSet, SeatIs
<1> QED
  BY <1>1, <1>2, ToldIs

-----------------------------------------------------------------------------
(* What the steps do to them.                                              *)

\* A step of a rank ends its own part in a merge at most.
LEMMA SlaveMergers ==
  ASSUME SetInv, NEW r \in Ranks, SlaveStep(r)
  PROVE  /\ \A q \in Mergers : task'[q] = task[q]
         /\ Mergers' = Mergers \/ \E s \in Mergers : Mergers' = Mergers \ {s}
<1> DEFINE p == ActionMsg("process")
<1>0. /\ pc = [q \in Ranks |-> pc[q]] /\ task = [q \in Ranks |-> task[q]]
      /\ toSlave = [q \in Ranks |-> toSlave[q]]
  BY DEF SetInv, Types
<1>1. CASE MergeMeasurements(r)
  <2>1. /\ pc[r] = "merge" /\ pc' = [pc EXCEPT ![r] = "accept"] /\ task' = task
        /\ toSlave' = toSlave
    BY <1>1 DEF MergeMeasurements, At, Goes, netVars
  <2>2. r \in Mergers /\ ~ToMerge(r)
    BY <2>1, MergersAre, MergerIs
  <2>3. Mergers' = Mergers \ {r}
    <3>1. \A q \in Ranks : ToMerge(q)' <=> ToMerge(q)
      BY <2>1 DEF ToMerge
    <3>2. Mergers' = {q \in Ranks : pc'[q] = "merge" \/ ToMerge(q)'}
      BY DEF Mergers, ToMerge, In
    <3>3. pc'[r] # "merge" /\ \A q \in Ranks : q # r => pc'[q] = pc[q]
      BY <1>0, <2>1
    <3> QED
      BY <2>2, <3>1, <3>2, <3>3, MergersAre
  <2> QED
    BY <2>1, <2>2, <2>3
<1>2. Mergers' = {q \in Ranks : pc'[q] = "merge" \/ ToMerge(q)'}
  BY DEF Mergers, ToMerge, In
<1>3. CASE /\ task' = task /\ toSlave' = toSlave
           /\ \A q \in Ranks : pc'[q] = "merge" <=> pc[q] = "merge"
  <2>1. \A q \in Ranks : ToMerge(q)' <=> ToMerge(q)
    BY <1>3 DEF ToMerge
  <2>2. Mergers' = Mergers
    BY <1>2, <1>3, <2>1, MergersAre
  <2> QED
    BY <1>3, <2>2
<1>4. CASE Quit(r) \/ AcceptNewChain(r) \/ Respond(r) \/ KeepTask(r) \/ ChangeTask(r)
  <2>1. /\ pc[r] \in {"accept", "response", "swap"} /\ toSlave[r] # << >>
        /\ Head(toSlave[r]).type # "action" /\ toSlave' = Pop(toSlave, r)
        /\ pc'[r] # "merge" /\ \A q \in Ranks : q # r => pc'[q] = pc[q] /\ task'[q] = task[q]
    BY <1>0, <1>4 DEF Quit, AcceptNewChain, Respond, KeepTask, ChangeTask, Takes, At, HeadIs,
       Goes, LoopHead
  <2>2. Head(toSlave[r]) # p
    BY <2>1 DEF ActionMsg
  <2>3. toSlave'[r] = Tail(toSlave[r]) /\ \A q \in Ranks : q # r => toSlave'[q] = toSlave[q]
    BY <1>0, <2>1 DEF Pop
  <2>4. ToMerge(r)' <=> ToMerge(r)
    <3>1. PICK S : toSlave[r] \in Seq(S)
      BY QueueIsSeq
    <3>2. In(p, toSlave[r]) <=> p = Head(toSlave[r]) \/ In(p, Tail(toSlave[r]))
      BY <2>1, <3>1, InTail
    <3> QED
      BY <2>2, <2>3, <3>2 DEF ToMerge
  <2>5. \A q \in Ranks : q # r => (ToMerge(q)' <=> ToMerge(q))
    BY <2>3 DEF ToMerge
  <2>6. Mergers' = Mergers
    BY <1>2, <2>1, <2>4, <2>5, MergersAre
  <2>7. r \notin Mergers
    BY <2>1, MergerIs
  <2> QED
    BY <2>1, <2>6, <2>7, MergersAre
<1>5. CASE TakeAction(r)
  <2> DEFINE a == Head(toSlave[r]).action
  <2>1. /\ pc[r] = "action" /\ toSlave[r] # << >> /\ toSlave' = Pop(toSlave, r)
        /\ task' = task /\ \A q \in Ranks : q # r => pc'[q] = pc[q]
        /\ pc'[r] = "merge" <=> a = "process"
    BY <1>0, <1>5 DEF TakeAction, Takes, At, HeadIs, Goes, LoopHead
  <2>2. PICK x \in Paths : Path(x) /\ RankIn(r, x) /\ Placed(r, x)
    BY InSet, SeatIs
  <2>3. Head(toSlave[r]) = ActionMsg(x.act) /\ a = x.act
    <3>1. x.kind = "report" /\ toSlave[r] = ToAction(r, x)
      BY <2>1, <2>2, WhereIs DEF RankIn, Queue
    <3> QED
      BY <2>1, <2>2, <3>1, ActionNext DEF ActionMsg
  <2>4. Head(toSlave[r]) = p <=> a = "process"
    <3>1. \A b : ActionMsg(b).action = b
      BY DEF ActionMsg
    <3> QED
      BY <2>3, <3>1
  <2>5. toSlave'[r] = Tail(toSlave[r]) /\ \A q \in Ranks : q # r => toSlave'[q] = toSlave[q]
    BY <1>0, <2>1 DEF Pop
  <2>6. In(p, toSlave[r]) <=> p = Head(toSlave[r]) \/ In(p, Tail(toSlave[r]))
    <3>1. PICK S : toSlave[r] \in Seq(S)
      BY QueueIsSeq
    <3> QED
      BY <2>1, <3>1, InTail
  <2>7. ToMerge(r) <=> ToMerge(r)' \/ a = "process"
    BY <2>4, <2>5, <2>6 DEF ToMerge
  <2>8. \A q \in Ranks : q # r => (ToMerge(q)' <=> ToMerge(q))
    BY <2>5 DEF ToMerge
  <2> HIDE DEF a
  <2>9. Mergers' = Mergers
    BY <1>2, <2>1, <2>7, <2>8, MergersAre
  <2> QED
    BY <2>1, <2>9
<1>6. CASE Sweeps(r) \/ Negotiate(r) \/ HearTimeout(r) \/ WriteTemporary(r) \/ FinishFirst(r)
           \/ FinishReport(r) \/ FinishTimeUp(r)
  <2>1. /\ task' = task /\ toSlave' = toSlave /\ pc[r] # "merge" /\ pc'[r] # "merge"
        /\ \A q \in Ranks : q # r => pc'[q] = pc[q]
    BY <1>0, <1>6 DEF Sweeps, Negotiate, HearTimeout, WriteTemporary, FinishFirst, FinishReport,
       FinishTimeUp, At, Goes, LoopHead, Obey, AfterWrite, netVars
  <2> QED
    BY <1>3, <2>1
<1>7. CASE \E q \in Ranks : Exchange(r, q)
  <2>1. /\ task' = task /\ toSlave' = toSlave
        /\ \A q \in Ranks : pc'[q] = "merge" <=> pc[q] = "merge"
    BY <1>0, <1>7 DEF Exchange, At, netVars
  <2> QED
    BY <1>3, <2>1
<1> QED
  BY <1>1, <1>4, <1>5, <1>6, <1>7 DEF SlaveStep

\* The master tells a set to merge, or not.
LEMMA PushMergers ==
  ASSUME SetInv, NEW g \in Sets, NEW msgs, toSlave' = PushSet(toSlave, g, msgs), pc' = pc,
         \A i \in Members : \E S : msgs[i] \in Seq(S)
  PROVE  Mergers' = Mergers \cup
           {r \in SetRanks(g) : In(ActionMsg("process"), msgs[ChainRank(r)])}
<1> DEFINE p == ActionMsg("process")
<1>1. ASSUME NEW r \in Ranks, SetOf(r) = g
      PROVE  ToMerge(r)' <=> ToMerge(r) \/ In(p, msgs[ChainRank(r)])
  <2>1. toSlave'[r] = toSlave[r] \o msgs[ChainRank(r)]
    BY <1>1 DEF PushSet
  <2>2. PICK S : toSlave[r] \in Seq(S)
    BY QueueIsSeq
  <2>3. PICK T : msgs[ChainRank(r)] \in Seq(T)
    BY SeatIs
  <2>4. toSlave[r] \in Seq(S \cup T) /\ msgs[ChainRank(r)] \in Seq(S \cup T)
    <3>1. \A s \in Seq(S) : s \in Seq(S \cup T)
      OBVIOUS
    <3>2. \A s \in Seq(T) : s \in Seq(S \cup T)
      OBVIOUS
    <3> QED
      BY <2>2, <2>3, <3>1, <3>2
  <2>5. In(p, toSlave[r] \o msgs[ChainRank(r)])
          <=> In(p, toSlave[r]) \/ In(p, msgs[ChainRank(r)])
    BY <2>4, InAfter
  <2> QED
    BY <2>1, <2>5 DEF ToMerge
<1>2. ASSUME NEW r \in Ranks, SetOf(r) # g PROVE ToMerge(r)' <=> ToMerge(r)
  BY <1>2 DEF ToMerge, PushSet
<1>3. Mergers' = {q \in Ranks : pc'[q] = "merge" \/ ToMerge(q)'}
  BY DEF Mergers, ToMerge, In
<1> QED
  BY <1>1, <1>2, <1>3, MergersAre DEF SetRanks

-----------------------------------------------------------------------------
(* What the steps of the scheduler do to the leases of the sets.           *)

\* What is merged is done and no set has a run of it any more.
MergeInv ==
  \A r \in Mergers : LET c == ChainOf(task[r])
                     IN  c \in Chains /\ IsDone(c, sweeps[c]) /\ Holders(c) = {}

Closed == DoneChains(sweeps)

\* A run of an open chain that no set has.
Free(c, k) == c \in Chains \ Closed /\ k \in RunIds /\ \A h \in Sets : setRun[h] # <<c, k>>

LeasesKept ==
  /\ setRun' = setRun /\ Closed' = Closed /\ launches' = launches
  /\ \A q \in Mergers : task'[q] = task[q]
  /\ Mergers' = Mergers \/ \E s \in Mergers : Mergers' = Mergers \ {s}

LeaseGranted(g, c, k) ==
  /\ setRun[g] = NoRun /\ Free(c, k)
  /\ setRun' = [setRun EXCEPT ![g] = <<c, k>>]
  /\ Closed' = Closed /\ launches' = launches
  /\ Mergers' = Mergers /\ task' = task

LeaseFreed(g, c) ==
  /\ c \in Chains /\ g \in Holders(c)
  /\ \/ setRun' = [setRun EXCEPT ![g] = NoRun]
     \/ \E d \in Chains, k \in RunIds :
          d # c /\ Free(d, k) /\ setRun' = [setRun EXCEPT ![g] = <<d, k>>]
  /\ Closed' = Closed \cup {c} /\ launches' = launches
  /\ Mergers' = IF Holders(c) = {g} THEN Mergers \cup SetRanks(g) ELSE Mergers
  /\ task' = task /\ \A q \in SetRanks(g) : ChainOf(task[q]) = c

LeasesAnew ==
  /\ setRun' = [g \in Sets |-> NoRun]
  /\ launches' = launches + 1 /\ Mergers' = {}

LeaseStep ==
  \/ LeasesKept
  \/ \E g \in Sets, c \in Chains : LeaseFreed(g, c) \/ \E k \in RunIds : LeaseGranted(g, c, k)
  \/ LeasesAnew

LEMMA ClosedIs == \A c \in Chains : c \in Closed <=> IsDone(c, sweeps[c])
BY DEF Closed, DoneChains

LEMMA ClosedSame == sweeps' = sweeps => Closed' = Closed
BY DEF Closed, DoneChains

\* The next run of an open chain is free, whatever sets hold of it.
LEMMA NextIsFree ==
  ASSUME SetInv, Types', phase = "running", NEW g \in Sets, NEW c \in Chains,
         ~IsDone(c, sweeps[c]), setRun'[g] = <<c, NextRun(scheduled[c])>>
  PROVE  Free(c, NextRun(scheduled[c]))
<1> DEFINE k == NextRun(scheduled[c])
<1>1. k \in RunIds
  <2>1. setRun'[g] \in (Chains \X RunIds) \cup {NoRun}
    BY DEF Types
  <2>2. setRun'[g] # NoRun
    BY ShapeAssumption DEF NoRun, Chains
  <2> QED
    BY <2>1, <2>2
<1>2. scheduled[c] \in Int /\ k = scheduled[c] + 1
  BY DEF SetInv, Types, NextRun
<1>3. ASSUME NEW h \in Sets, setRun[h] = <<c, k>> PROVE FALSE
  <2>1. h \in Holders(c) /\ setRun[h][2] = k
    BY <1>3 DEF Holders
  <2>2. setRun[h][2] <= scheduled[c]
    BY <2>1 DEF SetInv, SharedInv, LeaseInv
  <2> QED
    BY <1>2, <2>1, <2>2
<1> QED
  BY <1>1, <1>3, ClosedIs DEF Free

\* A set is told to merge with the last verdict on its chain only.
LEMMA JobMergers ==
  ASSUME SetInv, NEW g \in Sets, NEW a, NEW m, \A i \in Members : m[i].type = "job", pc' = pc,
         toSlave' = PushSet(toSlave, g, [i \in Members |-> Append(Before(a), m[i])])
  PROVE  Mergers' = IF a = "process" THEN Mergers \cup SetRanks(g) ELSE Mergers
<1> DEFINE msgs == [i \in Members |-> Append(Before(a), m[i])]
           p == ActionMsg("process")
<1>1. /\ \A i \in Members : m[i] # p
      /\ a # "none" => (ActionMsg(a) = p <=> a = "process")
  BY DEF ActionMsg
<1>2. ASSUME NEW i \in Members
      PROVE  (\E S : msgs[i] \in Seq(S)) /\ (In(p, msgs[i]) <=> a = "process")
  <2> DEFINE e == ActionMsg(a)
             n == m[i]
  <2>1. msgs[i] = Append(Before(a), n)
    OBVIOUS
  <2>2. Before(a) = IF a = "none" THEN << >> ELSE <<e>>
    BY DEF Before
  <2>3. n # p /\ (a # "none" => (e = p <=> a = "process"))
    BY <1>1
  <2> HIDE DEF e, n, msgs, p
  <2>4. /\ Append(<< >>, n) = <<n>> /\ Append(<<e>>, n) = <<e>> \o <<n>>
        /\ <<n>> \in Seq({e, n}) /\ <<e>> \in Seq({e, n}) /\ <<e>> \o <<n>> \in Seq({e, n})
    <3>1. << >> \in Seq({e, n}) /\ <<e>> \in Seq({e, n}) /\ <<n>> \in Seq({e, n})
      OBVIOUS
    <3> QED
      BY <3>1
  <2>5. In(p, <<e>> \o <<n>>) <=> In(p, <<e>>) \/ In(p, <<n>>)
    BY <2>4, InAfter
  <2>6. CASE a = "none"
    <3>1. msgs[i] = <<n>>
      BY <2>1, <2>2, <2>4, <2>6
    <3> QED
      BY <2>3, <2>4, <2>6, <3>1, InOne
  <2>7. CASE a # "none"
    <3>1. msgs[i] = <<e>> \o <<n>>
      BY <2>1, <2>2, <2>4, <2>7
    <3>2. In(p, msgs[i]) <=> p = e
      BY <2>3, <2>5, <3>1, InOne
    <3>3. msgs[i] \in Seq({e, n})
      BY <2>4, <3>1
    <3> QED
      BY <2>3, <2>7, <3>2, <3>3
  <2> QED
    BY <2>6, <2>7
<1> HIDE DEF msgs
<1>3. Mergers' = Mergers \cup {r \in SetRanks(g) : In(p, msgs[ChainRank(r)])}
  BY <1>2, PushMergers DEF msgs
<1> QED
  BY <1>2, <1>3, SeatIs DEF SetRanks

LEMMA FirstLeases ==
  ASSUME SetInv, Types', NEW g \in Sets, AssignFirst(g)
  PROVE  LeaseStep
<1> DEFINE c == GetNewTaskId(current, NChains, DoneChains(sweeps))
           k == NextRun(scheduled[c])
           job(i) == JobMsg(TaskOf(c, i), k, SweepsUntilComm(c, sweeps[c]))
           quit == JobMsg(NoTask, 0, 0)
<1>1. /\ phase = "running" /\ sweeps' = sweeps /\ launches' = launches /\ task' = task /\ pc' = pc
      /\ \/ /\ c # NoTask
            /\ setRun' = [setRun EXCEPT ![g] = <<c, k>>]
            /\ toSlave' = PushSet(toSlave, g, [i \in Members |-> Append(<< >>, job(i))])
         \/ /\ c = NoTask
            /\ setRun' = [setRun EXCEPT ![g] = NoRun]
            /\ toSlave' = PushSet(toSlave, g, [i \in Members |-> Append(<< >>, quit)])
  BY DEF AssignFirst, AssignNewChain, launchVars, slaveVars
<1>2. PICK x \in Paths : SetIn(g, x)
  BY DEF SetInv, AllIn
<1>3. setRun[g] = NoRun
  BY <1>2, AssignFirstKeeps DEF SetInv, SharedInv
<1>4. Closed' = Closed
  BY <1>1, ClosedSame
<1>6. Mergers' = Mergers
  <2> DEFINE m == [i \in Members |-> IF c # NoTask THEN job(i) ELSE quit]
  <2>1. \A i \in Members : m[i].type = "job"
    BY DEF JobMsg
  <2>2. [i \in Members |-> Append(Before("none"), m[i])]
          = [i \in Members |-> Append(<< >>, IF c # NoTask THEN job(i) ELSE quit)]
    BY DEF Before
  <2>3. toSlave' = PushSet(toSlave, g, [i \in Members |-> Append(Before("none"), m[i])])
    BY <1>1, <2>2
  <2> HIDE DEF m
  <2> QED
    BY <1>1, <2>1, <2>3, JobMergers
<1>7. CASE c # NoTask
  <2>1. c \in Chains /\ ~IsDone(c, sweeps[c])
    BY <1>7, NewChainIs DEF SetInv, Types
  <2> HIDE DEF c
  <2>2. setRun'[g] = <<c, k>> /\ setRun' = [setRun EXCEPT ![g] = <<c, k>>]
    BY <1>1, <1>7 DEF SetInv, Types
  <2>3. Free(c, k)
    BY <1>1, <2>1, <2>2, NextIsFree
  <2>4. k \in RunIds
    BY <2>3 DEF Free
  <2> HIDE DEF k
  <2>5. LeaseGranted(g, c, k)
    BY <1>1, <1>3, <1>4, <1>6, <2>2, <2>3 DEF LeaseGranted
  <2> QED
    BY <2>1, <2>4, <2>5 DEF LeaseStep
<1>8. CASE c = NoTask
  <2>1. setRun' = [setRun EXCEPT ![g] = setRun[g]]
    BY <1>1, <1>3, <1>8
  <2>2. setRun' = setRun
    BY <2>1 DEF SetInv, Types
  <2> QED
    BY <1>1, <1>4, <1>6, <2>2 DEF LeaseStep, LeasesKept
<1> QED
  BY <1>7, <1>8

\* Whether the set that reports is the last one with a run of its chain.
LEMMA LastHolder ==
  ASSUME SetInv, phase = "running", NEW c \in Chains, NEW g \in Holders(c)
  PROVE  Holders(c) = {g} <=> ~(scheduled[c] - 1 > 0)
<1> DEFINE H == Holders(c)
<1>1. IsFiniteSet(Sets)
  <2>1. 0 \in Int /\ NSets - 1 \in Int
    BY ShapeAssumption
  <2> QED
    BY <2>1, FS_Interval DEF Sets
<1>2. IsFiniteSet(H) /\ g \in H /\ scheduled[c] = Cardinality(H)
  <2>1. H \subseteq Sets
    BY DEF Holders
  <2> QED
    BY <1>1, <2>1, FS_Subset DEF SetInv, SharedInv, LeaseInv
<1> HIDE DEF H
<1>3. /\ IsFiniteSet(H \ {g}) /\ Cardinality(H \ {g}) = Cardinality(H) - 1
      /\ Cardinality(H \ {g}) \in Nat /\ Cardinality(H) \in Nat
  BY <1>2, FS_RemoveElement, FS_CardinalityType
<1>4. Cardinality(H \ {g}) = 0 <=> H \ {g} = {}
  BY <1>3, FS_EmptySet
<1>5. H \ {g} = {} <=> ~(scheduled[c] - 1 > 0)
  BY <1>2, <1>3, <1>4
<1>6. H \ {g} = {} <=> H = {g}
  BY <1>2
<1> QED
  BY <1>5, <1>6 DEF H

LEMMA BusyLeases ==
  ASSUME SetInv, Types', NEW r \in Ranks, ReactBusy(r)
  PROVE  /\ LeaseStep
         /\ setRun' = setRun \/ \E c \in Chains : LeaseFreed(SetOf(r), c)
<1> DEFINE g == SetOf(r)
           c == setRun[g][1]
           n == [sweeps EXCEPT ![c] = @ + Head(toMaster[r]).sweeps]
           left == scheduled[c] - 1
           a == LastVerdict(left)
           sch == [scheduled EXCEPT ![c] = left]
<1>1. PICK x \in Paths : SetIn(g, x)
  BY SeatIs DEF SetInv, AllIn
<1>2. /\ phase = "running" /\ slaveVars' = slaveVars /\ pc' = pc /\ sweeps' = n
      /\ x.kind = "report" /\ x.act = "none" /\ x.job = "none"
      /\ g \in Sets /\ c \in Chains /\ setRun[g] # NoRun /\ n \in [Chains -> Nat]
      /\ \A d \in Chains : ~IsDone(d, n[d]) => ~IsDone(d, sweeps[d])
      /\ \A d \in Chains : d # c => n[d] = sweeps[d]
  BY <1>1, BusyIs DEF SetInv
<1>3. launches' = launches /\ task' = task
  BY <1>2 DEF ReactBusy, launchVars, slaveVars
<1>4. g \in Holders(c)
  BY <1>2 DEF Holders
<1>5. Holders(c) = {g} <=> a = "process"
  BY <1>2, <1>4, LastHolder DEF LastVerdict
<1>6. ASSUME NEW q \in SetRanks(g) PROVE ChainOf(task[q]) = c
  <2>1. /\ RankIn(q, x) /\ Path(x) /\ Seated(g, x) /\ q \in Ranks /\ SetOf(q) = g
    BY <1>1, <1>6 DEF SetIn, SetRanks
  <2>2. pc[q] \in Reporting /\ x.own = setRun[g]
    BY <1>2, <2>1 DEF RankIn, Placed, FirstPlaces, LastPlaces, Path, Seated
  <2>3. task[q] = TaskOf(x.own[1], x.was[ChainRank(q)])
    BY <1>2, <2>1, <2>2 DEF RankIn, Works
  <2>4. x.was[ChainRank(q)] \in Members
    BY <2>1, SeatIs DEF Paths
  <2> QED
    BY <1>2, <2>2, <2>3, <2>4, TaskIs
<1>7. CASE IsDone(c, n[c])
  <2> DEFINE d == GetNewTaskId(current, NChains, DoneChains(n))
             k == NextRun(sch[d])
             job(i) == JobMsg(TaskOf(d, i), k, SweepsUntilComm(d, n[d]))
             quit == JobMsg(NoTask, 0, 0)
  <2>1. AssignNewChain(g, n, sch, <<ActionMsg(a)>>)
    BY <1>7 DEF ReactBusy
  <2>2. \/ /\ d # NoTask
           /\ setRun' = [setRun EXCEPT ![g] = <<d, k>>]
           /\ toSlave' = PushSet(toSlave, g, [i \in Members |-> Append(<<ActionMsg(a)>>, job(i))])
        \/ /\ d = NoTask
           /\ setRun' = [setRun EXCEPT ![g] = NoRun]
           /\ toSlave' = PushSet(toSlave, g, [i \in Members |-> Append(<<ActionMsg(a)>>, quit)])
    BY <2>1 DEF AssignNewChain
  <2>3. a # "none" /\ Before(a) = <<ActionMsg(a)>>
    BY DEF LastVerdict, Before
  <2> HIDE DEF a
  <2>4. Mergers' = IF a = "process" THEN Mergers \cup SetRanks(g) ELSE Mergers
    <3> DEFINE m == [i \in Members |-> IF d # NoTask THEN job(i) ELSE quit]
    <3>1. \A i \in Members : m[i].type = "job"
      BY DEF JobMsg
    <3>2. [i \in Members |-> Append(Before(a), m[i])]
            = [i \in Members |-> Append(<<ActionMsg(a)>>, IF d # NoTask THEN job(i) ELSE quit)]
      BY <2>3
    <3>3. toSlave' = PushSet(toSlave, g, [i \in Members |-> Append(Before(a), m[i])])
      BY <2>2, <3>2
    <3> HIDE DEF m, g
    <3> QED
      BY <1>2, <3>1, <3>3, JobMergers
  <2>5. Closed' = Closed \cup {c}
    <3> HIDE DEF n, c
    <3>1. ASSUME NEW e \in Chains PROVE IsDone(e, n[e]) <=> IsDone(e, sweeps[e]) \/ e = c
      <4>1. CASE e = c
        BY <1>7, <4>1
      <4>2. CASE e # c
        BY <1>2, <4>2
      <4> QED
        BY <4>1, <4>2
    <3>2. Closed' = {e \in Chains : IsDone(e, sweeps'[e])}
      BY DEF Closed, DoneChains
    <3>3. Closed = {e \in Chains : IsDone(e, sweeps[e])}
      BY DEF Closed, DoneChains
    <3> QED
      BY <1>2, <3>1, <3>2, <3>3
  <2>6. \/ setRun' = [setRun EXCEPT ![g] = NoRun]
        \/ \E e \in Chains, l \in RunIds :
             e # c /\ Free(e, l) /\ setRun' = [setRun EXCEPT ![g] = <<e, l>>]
    <3>1. CASE d = NoTask
      BY <2>2, <3>1
    <3>2. CASE d # NoTask
      <4>1. d \in Chains /\ ~IsDone(d, n[d])
        BY <1>2, <3>2, NewChainIs DEF SetInv
      <4>2. setRun' = [setRun EXCEPT ![g] = <<d, k>>]
        BY <2>2, <3>2
      <4> HIDE DEF d, n, c, g
      <4>3. d # c /\ ~IsDone(d, sweeps[d])
        BY <1>2, <1>7, <4>1
      <4>4. sch[d] = scheduled[d]
        BY <4>1, <4>3 DEF SetInv, Types
      <4>5. k = NextRun(scheduled[d])
        BY <4>4
      <4> HIDE DEF k
      <4>6. setRun'[g] = <<d, NextRun(scheduled[d])>>
        BY <1>2, <4>2, <4>5 DEF SetInv, Types
      <4>7. Free(d, k)
        BY <1>2, <4>1, <4>3, <4>5, <4>6, NextIsFree
      <4>8. k \in RunIds
        BY <4>7 DEF Free
      <4> QED
        BY <4>1, <4>2, <4>3, <4>7, <4>8
    <3> QED
      BY <3>1, <3>2
  <2> HIDE DEF c, g, n
  <2>7. LeaseFreed(g, c)
    BY <1>2, <1>3, <1>4, <1>5, <1>6, <2>4, <2>5, <2>6 DEF LeaseFreed
  <2>8. LeaseStep
    BY <1>2, <2>7 DEF LeaseStep
  <2> QED
    BY <1>2, <2>7, <2>8 DEF g
<1>8. CASE ~IsDone(c, n[c])
  <2> DEFINE e == ActionMsg("continue")
             msgs == [i \in Members |-> <<e>>]
             p == ActionMsg("process")
  <2>1. toSlave' = PushSet(toSlave, g, msgs) /\ setRun' = setRun
    BY <1>8 DEF ReactBusy
  <2>2. e # p
    BY DEF ActionMsg
  <2> HIDE DEF e
  <2>3. \A i \in Members : msgs[i] = <<e>> /\ \E S : msgs[i] \in Seq(S)
    <3>1. <<e>> \in Seq({e})
      OBVIOUS
    <3> QED
      BY <3>1
  <2> HIDE DEF msgs, g
  <2>4. Mergers' = Mergers \cup {q \in SetRanks(g) : In(p, msgs[ChainRank(q)])}
    BY <1>2, <2>1, <2>3, PushMergers
  <2>5. ASSUME NEW q \in SetRanks(g) PROVE ~In(p, msgs[ChainRank(q)])
    <3>1. msgs[ChainRank(q)] = <<e>>
      BY <2>3, <2>5, SeatIs DEF SetRanks
    <3> QED
      BY <2>2, <3>1, InOne
  <2>6. Mergers' = Mergers
    BY <2>4, <2>5
  <2>7. Closed' = Closed
    <3> HIDE DEF n, c
    <3>1. ASSUME NEW d \in Chains PROVE IsDone(d, n[d]) <=> IsDone(d, sweeps[d])
      <4>1. CASE d = c
        BY <1>2, <1>8, <4>1
      <4>2. CASE d # c
        BY <1>2, <4>2
      <4> QED
        BY <4>1, <4>2
    <3>2. Closed' = {d \in Chains : IsDone(d, sweeps'[d])}
      BY DEF Closed, DoneChains
    <3>3. Closed = {d \in Chains : IsDone(d, sweeps[d])}
      BY DEF Closed, DoneChains
    <3> QED
      BY <1>2, <3>1, <3>2, <3>3
  <2> QED
    BY <1>3, <2>1, <2>6, <2>7 DEF LeaseStep, LeasesKept
<1> QED
  BY <1>7, <1>8

\* No other step of the master, and no step of a rank, grants or frees a lease.
LEMMA OtherLeases ==
  ASSUME SetInv, setRun' = setRun, sweeps' = sweeps, launches' = launches,
         \A q \in Mergers : task'[q] = task[q],
         Mergers' = Mergers \/ \E s \in Mergers : Mergers' = Mergers \ {s}
  PROVE  LeaseStep
BY ClosedSame DEF LeaseStep, LeasesKept

\* Messages of another type make no rank merge.
LEMMA MailMergers ==
  ASSUME SetInv, NEW g \in Sets, NEW m, \A i \in Members : m[i].type # "action",
         toSlave' = PushSet(toSlave, g, [i \in Members |-> <<m[i]>>]), pc' = pc
  PROVE  Mergers' = Mergers
<1> DEFINE msgs == [i \in Members |-> <<m[i]>>]
           p == ActionMsg("process")
<1>1. \A i \in Members : m[i] # p
  BY DEF ActionMsg
<1>2. ASSUME NEW i \in Members
      PROVE  (\E S : msgs[i] \in Seq(S)) /\ ~In(p, msgs[i])
  <2> DEFINE e == m[i]
  <2>1. msgs[i] = <<e>> /\ e # p
    BY <1>1
  <2> HIDE DEF e, msgs, p
  <2>2. <<e>> \in Seq({e})
    OBVIOUS
  <2> QED
    BY <2>1, <2>2, InOne
<1> HIDE DEF msgs
<1>3. Mergers' = Mergers \cup {r \in SetRanks(g) : In(p, msgs[ChainRank(r)])}
  BY <1>2, PushMergers DEF msgs
<1> QED
  BY <1>2, <1>3, SeatIs DEF SetRanks

LEMMA SameMergers ==
  ASSUME toSlave' = toSlave, \A q \in Ranks : pc'[q] = "merge" <=> pc[q] = "merge"
  PROVE  Mergers' = Mergers
BY DEF Mergers

LEMMA ReadyLeases ==
  ASSUME SetInv, NEW r \in Ranks, ReactReady(r)
  PROVE  LeaseStep
<1> DEFINE g == SetOf(r)
           c == setRun[g][1]
           k == setRun[g][2]
           answer(i) == IF Skips(pos[c][k][i], odd[c][k], ChainLen) THEN "skip" ELSE "weight"
           m == [i \in Members |-> Response(answer(i))]
<1>1. /\ toSlave' = PushSet(toSlave, g, [i \in Members |-> <<Response(answer(i))>>])
      /\ pc' = pc /\ task' = task /\ setRun' = setRun /\ sweeps' = sweeps /\ launches' = launches
  BY DEF ReactReady, slaveVars, launchVars
<1>2. \A i \in Members : m[i].type # "action"
  BY DEF Response
<1>3. [i \in Members |-> <<Response(answer(i))>>] = [i \in Members |-> <<m[i]>>]
  OBVIOUS
<1>4. toSlave' = PushSet(toSlave, g, [i \in Members |-> <<m[i]>>])
  BY <1>1, <1>3
<1> HIDE DEF m
<1>5. Mergers' = Mergers
  BY <1>1, <1>2, <1>4, MailMergers, SeatIs
<1> QED
  BY <1>1, <1>5, OtherLeases

LEMMA UpdateLeases ==
  ASSUME SetInv, NEW g \in Sets, GlobalUpdate(g)
  PROVE  LeaseStep
<1> DEFINE c == setRun[g][1]
           k == setRun[g][2]
<1>1. PICK accepted \in SUBSET TriedPairs(odd[c][k], ChainLen) :
        LET to == Moved(pos[c][k], accepted)
            with == SwitchPartners(pos[c][k], accepted)
        IN  toSlave' = PushSet(toSlave, g, [i \in Members |->
                         <<SwapMsg(TaskOf(c, to[i]), g * ChainLen + with[i])>>])
  BY DEF GlobalUpdate
<1> DEFINE to == Moved(pos[c][k], accepted)
           with == SwitchPartners(pos[c][k], accepted)
           m == [i \in Members |-> SwapMsg(TaskOf(c, to[i]), g * ChainLen + with[i])]
<1>2. pc' = pc /\ task' = task /\ setRun' = setRun /\ sweeps' = sweeps /\ launches' = launches
  BY DEF GlobalUpdate, slaveVars, launchVars
<1>3. \A i \in Members : m[i].type # "action"
  BY DEF SwapMsg
<1>4. [i \in Members |-> <<SwapMsg(TaskOf(c, to[i]), g * ChainLen + with[i])>>]
        = [i \in Members |-> <<m[i]>>]
  OBVIOUS
<1>5. toSlave' = PushSet(toSlave, g, [i \in Members |-> <<m[i]>>])
  BY <1>1, <1>4
<1> HIDE DEF m
<1>6. Mergers' = Mergers
  BY <1>2, <1>3, <1>5, MailMergers
<1> QED
  BY <1>2, <1>6, OtherLeases

LEMMA QuietLeases ==
  ASSUME SetInv,
         \/ \E r \in Ranks : ReactTimeUp(r)
         \/ MasterCheckpoint \/ Finalize \/ Crash \/ Refuse \/ Stopped
         \/ \E g \in Sets : Barrier(g)
         \/ UNCHANGED vars
  PROVE  LeaseStep
<1>1. CASE \E g \in Sets : Barrier(g)
  <2>1. PICK g \in Sets : Barrier(g)
    BY <1>1
  <2>2. /\ toSlave' = toSlave /\ task' = task /\ setRun' = setRun /\ sweeps' = sweeps
        /\ launches' = launches
    BY <2>1 DEF Barrier, launchVars, masterVars, netVars
  <2>3. \A q \in Ranks : pc'[q] = "merge" <=> pc[q] = "merge"
    BY <2>1 DEF Barrier, SetRanks
  <2> QED
    BY <2>2, <2>3, SameMergers, OtherLeases
<1>2. CASE ~\E g \in Sets : Barrier(g)
  <2>1. /\ toSlave' = toSlave /\ task' = task /\ setRun' = setRun /\ sweeps' = sweeps
        /\ launches' = launches /\ pc' = pc
    BY <1>2 DEF ReactTimeUp, MasterCheckpoint, Finalize, Crash, Refuse, Stopped, vars,
       launchVars, masterVars, slaveVars, netVars
  <2> QED
    BY <2>1, SameMergers, OtherLeases
<1> QED
  BY <1>1, <1>2

LEMMA RankLeases ==
  ASSUME SetInv, NEW r \in Ranks, SlaveStep(r)
  PROVE  LeaseStep
<1>1. setRun' = setRun /\ sweeps' = sweeps /\ launches' = launches
  BY DEF SlaveStep, Quit, AcceptNewChain, Sweeps, Respond, KeepTask, ChangeTask, Exchange,
     Negotiate, HearTimeout, WriteTemporary, FinishFirst, FinishReport, FinishTimeUp,
     TakeAction, MergeMeasurements, masterVars, launchVars
<1> QED
  BY <1>1, SlaveMergers, OtherLeases

LEMMA AnewLeases == Relaunch => LeaseStep
<1> SUFFICES ASSUME Relaunch PROVE LeasesAnew
  BY DEF LeaseStep
<1>1. /\ setRun' = [g \in Sets |-> NoRun] /\ launches' = launches + 1
      /\ pc' = [r \in Ranks |-> "accept"] /\ toSlave' = [r \in Ranks |-> << >>]
  BY DEF Relaunch, Start
<1>2. Mergers' = {}
  BY <1>1 DEF Mergers
<1> QED
  BY <1>1, <1>2 DEF LeasesAnew

LEMMA LeaseStepHolds == Together /\ SetInv /\ [Next]_vars => LeaseStep
<1> SUFFICES ASSUME Together, SetInv, [Next]_vars PROVE LeaseStep
  OBVIOUS
<1>1. Types'
  BY SetInvNext DEF SetInv
<1>2. CASE MasterStep
  BY <1>1, <1>2, FirstLeases, UpdateLeases, BusyLeases, ReadyLeases, QuietLeases DEF MasterStep
<1>3. CASE \E r \in Ranks : SlaveStep(r)
  BY <1>3, RankLeases
<1>4. CASE Relaunch
  BY <1>4, AnewLeases
<1> QED
  BY <1>2, <1>3, <1>4, QuietLeases DEF Next

-----------------------------------------------------------------------------
(* No chain is merged while a set has a run of it.                         *)

LEMMA MergeInvInit == Init => MergeInv
BY DEF Init, MergeInv, Mergers

LEMMA MergeInvStep ==
  ASSUME SetInv, Types', MergeInv, LeaseStep
  PROVE  MergeInv'
<1>0. \A r \in Mergers : /\ ChainOf(task[r]) \in Chains /\ ChainOf(task[r]) \in Closed
                         /\ Holders(ChainOf(task[r])) = {}
  BY ClosedIs DEF MergeInv
<1>1. SUFFICES ASSUME NEW r \in Mergers'
               PROVE  LET c == ChainOf(task'[r])
                      IN  c \in Chains /\ c \in Closed' /\ \A h \in Sets : setRun'[h][1] # c
  BY DEF MergeInv, Closed, DoneChains, Holders
<1>2. \A c, h : h \in Holders(c) <=> h \in Sets /\ setRun[h][1] = c
  BY DEF Holders
<1>3. setRun = [h \in Sets |-> setRun[h]]
  BY DEF SetInv, Types
<1>4. \A c \in Chains : NoRun[1] # c
  BY ShapeAssumption DEF NoRun, Chains
<1>5. CASE LeasesKept
  BY <1>0, <1>1, <1>2, <1>5 DEF LeasesKept
<1>6. ASSUME NEW g \in Sets, NEW c \in Chains, NEW k \in RunIds, LeaseGranted(g, c, k)
      PROVE  /\ ChainOf(task'[r]) \in Chains /\ ChainOf(task'[r]) \in Closed'
             /\ \A h \in Sets : setRun'[h][1] # ChainOf(task'[r])
  BY <1>0, <1>1, <1>2, <1>3, <1>6 DEF LeaseGranted, Free
<1>7. ASSUME NEW g \in Sets, NEW c \in Chains, LeaseFreed(g, c)
      PROVE  /\ ChainOf(task'[r]) \in Chains /\ ChainOf(task'[r]) \in Closed'
             /\ \A h \in Sets : setRun'[h][1] # ChainOf(task'[r])
  <2>1. /\ Closed' = Closed \cup {c} /\ task' = task /\ g \in Holders(c)
        /\ \A q \in SetRanks(g) : ChainOf(task[q]) = c
        /\ \A h \in Sets : h # g => setRun'[h] = setRun[h]
        /\ setRun'[g][1] \notin Closed /\ setRun'[g][1] # c
        /\ Mergers' = IF Holders(c) = {g} THEN Mergers \cup SetRanks(g) ELSE Mergers
    <3>1. Closed \subseteq Chains
      BY DEF Closed, DoneChains
    <3>2. setRun'[g][1] \notin Closed /\ setRun'[g][1] # c /\ \A h \in Sets : h # g => setRun'[h] = setRun[h]
      BY <1>3, <1>4, <1>7, <3>1 DEF LeaseFreed, Free
    <3> QED
      BY <1>7, <3>2 DEF LeaseFreed
  <2>2. CASE r \in Mergers
    BY <1>0, <1>2, <2>1, <2>2
  <2>3. CASE r \in SetRanks(g) /\ Holders(c) = {g}
    BY <1>2, <2>1, <2>3
  <2> QED
    BY <1>1, <2>1, <2>2, <2>3
<1>8. CASE LeasesAnew
  BY <1>1, <1>8 DEF LeasesAnew
<1> QED
  BY <1>5, <1>6, <1>7, <1>8 DEF LeaseStep

LEMMA LateIs == SetInv /\ MergeInv => LateRenamesOnly
<1> SUFFICES ASSUME SetInv, MergeInv, NEW r \in Mergers, NEW q \in Ranks,
                    pc[q] \in Working, ChainOf(task[q]) = ChainOf(task[r])
             PROVE  pc[q] = "rename" /\ ~IsRoot(q)
  BY DEF LateRenamesOnly
<1> DEFINE g == SetOf(q)
           i == ChainRank(q)
           c == ChainOf(task[r])
<1>1. g \in Sets /\ i \in Members
  BY SeatIs
<1>2. PICK x \in Paths : Path(x) /\ Seated(g, x) /\ RankIn(q, x) /\ Placed(q, x)
  BY <1>1, InSet
<1>3. x.was[i] \in Members /\ x.held[i] \in Members
  BY <1>1 DEF Paths
<1>4. setRun[g][1] # c
  BY <1>1 DEF MergeInv, Holders
<1>5. ASSUME HasRun(x) PROVE ChainAt(g) \in Chains /\ ChainAt(g) # c
  BY <1>1, <1>2, <1>4, <1>5, RunIs DEF SetInv, ChainAt
<1> HIDE DEF c
<1>6. ASSUME pc[q] \in Updating \cup Sweeping \cup Writing PROVE FALSE
  <2>1. HasRun(x)
    BY <1>2, <1>6, RunThere
  <2>2. task[q] = TaskOf(ChainAt(g), x.was[i]) \/ task[q] = TaskOf(ChainAt(g), x.held[i])
    BY <1>2, <1>6 DEF RankIn, Works, Updating
  <2> HIDE DEF g, i
  <2>3. ChainOf(task[q]) = ChainAt(g)
    BY <1>3, <1>5, <2>1, <2>2, TaskIs
  <2> QED
    BY <1>5, <2>1, <2>3 DEF c
<1>7. pc[q] = "rename"
  BY <1>6 DEF Working, Checkpointing, Updating, Sweeping, Writing
<1>8. x.kind \in {"fresh", "report", "timeup"} /\ task[q] = TaskOf(x.own[1], x.was[i])
  BY <1>2, <1>7, WhereIs DEF RankIn, Works, Reporting
<1>9. ASSUME x.job = "none" PROVE FALSE
  <2>1. HasRun(x)
    BY <1>2, <1>7, <1>9, RunThere
  <2>2. x.own[1] = ChainAt(g)
    BY <1>2, <1>8, <1>9 DEF Seated, ChainAt
  <2> HIDE DEF g, i
  <2>3. ChainOf(task[q]) = ChainAt(g)
    BY <1>3, <1>5, <1>8, <2>1, <2>2, TaskIs
  <2> QED
    BY <1>5, <2>1, <2>3 DEF c
<1>10. x.act # "none"
  BY <1>2, <1>8, <1>9 DEF Path
<1> QED
  BY <1>2, <1>7, <1>10 DEF Placed

\* For every number of chains, sets and ranks: while ranks merge the tasks of a
\* chain, or have been told to, the ranks of other sets that still have a task
\* of it do nothing but rename their last files, and none of them is chain
\* rank 0, which has reported (runner_pt.cpp:483, 745-750, 770-777).
THEOREM MergesLate == Together => (Spec => []LateRenamesOnly)
<1>1. ASSUME Together PROVE Spec => []LateRenamesOnly
  <2>1. Spec => []SetInv
    BY <1>1, SetsInStep
  <2>2. SetInv /\ SetInv' /\ [Next]_vars /\ MergeInv => MergeInv'
    <3> SUFFICES ASSUME SetInv, SetInv', [Next]_vars, MergeInv PROVE MergeInv'
      OBVIOUS
    <3>1. Types'
      BY DEF SetInv
    <3> QED
      BY <1>1, <3>1, LeaseStepHolds, MergeInvStep
  <2> QED
    BY <2>1, <2>2, MergeInvInit, LateIs, PTL DEF Spec
<1> QED
  BY <1>1

-----------------------------------------------------------------------------
(* The rank sets implement RunLeases.                                      *)

\* The abstract state.
Merging == {ChainOf(task[r]) : r \in Mergers}

LEMMA LeaseWords ==
  /\ Leases!NoLease = NoRun
  /\ \A c : Leases!Holders(c) = Holders(c)
  /\ Closed = DoneChains(sweeps)
BY DEF Leases!NoLease, NoRun, Leases!Holders, Holders, Closed

LEMMA SetHasRanks == \A g \in Sets : SetRanks(g) # {}
BY RootIs

LEMMA GrantImplements ==
  ASSUME NEW g \in Sets, NEW c \in Chains, NEW k \in RunIds, LeaseGranted(g, c, k)
  PROVE  Leases!Grant(g, c, k)
<1>1. /\ setRun[g] = NoRun /\ c \in Chains \ Closed /\ \A h \in Sets : setRun[h] # <<c, k>>
      /\ setRun' = [setRun EXCEPT ![g] = <<c, k>>] /\ Closed' = Closed /\ launches' = launches
      /\ Mergers' = Mergers /\ task' = task
  BY DEF LeaseGranted, Free
<1>2. Merging' = Merging
  BY <1>1 DEF Merging
<1> QED
  BY <1>1, <1>2, LeaseWords DEF Leases!Grant, Merging, Closed

LEMMA FreeImplements ==
  ASSUME NEW g \in Sets, NEW c \in Chains, LeaseFreed(g, c)
  PROVE  \/ Leases!Release(g, c)
         \/ \E d \in Chains, k \in RunIds : Leases!HandOver(g, c, d, k)
<1>1. /\ g \in Holders(c) /\ Closed' = Closed \cup {c} /\ launches' = launches
      /\ Mergers' = IF Holders(c) = {g} THEN Mergers \cup SetRanks(g) ELSE Mergers
      /\ task' = task /\ \A q \in SetRanks(g) : ChainOf(task[q]) = c
  BY DEF LeaseFreed
<1>2. Merging' = IF Holders(c) = {g} THEN Merging \cup {c} ELSE Merging
  <2>1. {ChainOf(task[q]) : q \in SetRanks(g)} = {c}
    BY <1>1, SetHasRanks
  <2> QED
    BY <1>1, <2>1 DEF Merging
<1>3. CASE setRun' = [setRun EXCEPT ![g] = NoRun]
  <2>1. Leases!Release(g, c)
    BY <1>1, <1>2, <1>3, LeaseWords DEF Leases!Release, Merging, Closed
  <2> QED
    BY <2>1
<1>4. ASSUME NEW d \in Chains, NEW k \in RunIds, d # c, Free(d, k),
             setRun' = [setRun EXCEPT ![g] = <<d, k>>]
      PROVE  Leases!HandOver(g, c, d, k)
  <2>1. d \in Chains \ (Closed \cup {c}) /\ \A h \in Sets : setRun[h] # <<d, k>>
    BY <1>4 DEF Free
  <2> QED
    BY <1>1, <1>2, <1>4, <2>1, LeaseWords DEF Leases!HandOver, Merging, Closed
<1> QED
  BY <1>3, <1>4 DEF LeaseFreed

LEMMA KeptImplements ==
  ASSUME MergeInv, LeasesKept
  PROVE  (\E c \in Chains : Leases!Merged(c)) \/ UNCHANGED Leases!vars
<1>1. /\ setRun' = setRun /\ Closed' = Closed /\ launches' = launches
      /\ \A q \in Mergers : task'[q] = task[q]
  BY DEF LeasesKept
<1>2. CASE Merging' = Merging
  BY <1>1, <1>2 DEF Leases!vars, Merging, Closed
<1>3. CASE Merging' # Merging
  <2>1. PICK s \in Mergers : Mergers' = Mergers \ {s}
    BY <1>1, <1>3 DEF LeasesKept, Merging
  <2> DEFINE c == ChainOf(task[s])
  <2>2. c \in Chains /\ c \in Merging
    BY DEF MergeInv, Merging
  <2>3. Merging' = Merging \ {c}
    <3>1. Merging' = {ChainOf(task[q]) : q \in Mergers \ {s}}
      BY <1>1, <2>1 DEF Merging
    <3> QED
      BY <1>3, <3>1 DEF Merging
  <2> HIDE DEF c
  <2>4. Leases!Merged(c)
    BY <1>1, <2>2, <2>3 DEF Leases!Merged, Merging, Closed
  <2> QED
    BY <2>2, <2>4
<1> QED
  BY <1>2, <1>3

LEMMA AnewImplements == LeasesAnew => Leases!NewLaunch
<1> SUFFICES ASSUME LeasesAnew PROVE Leases!NewLaunch
  OBVIOUS
<1>1. Merging' = {}
  BY DEF LeasesAnew, Merging
<1>2. Closed' \in SUBSET Chains
  BY DEF Closed, DoneChains
<1> QED
  BY <1>1, <1>2, LeaseWords DEF LeasesAnew, Leases!NewLaunch, Merging, Closed

\* Whatever messages are on their way, in whatever order sets report, and
\* across kills and launches: all that can be seen of the sets' chain runs are
\* the steps of RunLeases (runner_pt.cpp:386-437, 458-553).
THEOREM ChainLeasesImplemented == Together => (Spec => ImplementsLeases)
<1>1. ASSUME Together PROVE Spec => ImplementsLeases
  <2>1. Spec => []SetInv
    BY <1>1, SetsInStep
  <2>2. Init => Leases!Init
    <3> SUFFICES ASSUME Init PROVE Leases!Init
      OBVIOUS
    <3>1. Merging = {} /\ Closed \in SUBSET Chains
      BY DEF Init, Mergers, Merging, Closed, DoneChains
    <3> QED
      BY <3>1, LeaseWords DEF Init, Leases!Init, Merging, Closed
  <2>3. /\ SetInv /\ SetInv' /\ MergeInv /\ [Next]_vars => MergeInv' /\ [Leases!Next]_(Leases!vars)
    <3> SUFFICES ASSUME SetInv, SetInv', MergeInv, [Next]_vars
                 PROVE  MergeInv' /\ [Leases!Next]_(Leases!vars)
      OBVIOUS
    <3>1. Types' /\ LeaseStep
      BY <1>1, LeaseStepHolds DEF SetInv
    <3>2. MergeInv'
      BY <3>1, MergeInvStep
    <3>3. Leases!Next \/ UNCHANGED Leases!vars
      <4>1. LeasesKept => Leases!Next \/ UNCHANGED Leases!vars
        BY KeptImplements DEF Leases!Next
      <4>2. LeasesAnew => Leases!Next
        BY AnewImplements DEF Leases!Next
      <4>3. ASSUME NEW g \in Sets, NEW c \in Chains, LeaseFreed(g, c) PROVE Leases!Next
        BY <4>3, FreeImplements DEF Leases!Next
      <4>4. ASSUME NEW g \in Sets, NEW c \in Chains, NEW k \in RunIds, LeaseGranted(g, c, k)
            PROVE  Leases!Next
        BY <4>4, GrantImplements DEF Leases!Next
      <4> QED
        BY <3>1, <4>1, <4>2, <4>3, <4>4 DEF LeaseStep
    <3> QED
      BY <3>2, <3>3
  <2> QED
    BY <2>1, <2>2, <2>3, MergeInvInit, PTL DEF Spec, ImplementsLeases, Leases!Spec
<1> QED
  BY <1>1

-----------------------------------------------------------------------------
(* The ranks that change places in a global update.                        *)

\* Rank r is to exchange its measurements, and with whom.
Swapping(r) ==
  \/ pc[r] = "exchange"
  \/ pc[r] = "swap" /\ toSlave[r] # << >> /\ Head(toSlave[r]).task # task[r]
Mate(r) == IF pc[r] = "exchange" THEN partner[r] ELSE Head(toSlave[r]).partner

\* The task the update gives it.
Due(r)  == IF pc[r] = "exchange" THEN task[r] ELSE Head(toSlave[r]).task

\* They come in pairs that leave together.
MatedWith(r, q) ==
  /\ Mate(r) = q /\ Mate(q) = r /\ Swapping(q)
  /\ SetOf(q) = SetOf(r) /\ q # r
  /\ pc[r] = "swap" => Due(q) = task[r]
Mated(r) == Swapping(r) => \E q \in Ranks : MatedWith(r, q)
MateInv == \A r \in Ranks : Mated(r)

AllSwap(g) == \A r \in Ranks : SetOf(r) = g => pc[r] = "swap"
MatesReady == \A g \in Sets : AllSwap(g) => \A r \in Ranks : SetOf(r) = g => Mated(r)

\* What a rank finds after the barrier of a global update.
LEMMA AfterBarrier ==
  ASSUME SetInv, NEW r \in Ranks, NEW x \in Paths, Path(x), RankIn(r, x), pc[r] = "swap"
  PROVE  /\ x.kind = "update"
         /\ toSlave[r] # << >> <=> x.first = "sent"
         /\ task[r] = TaskOf(ChainAt(SetOf(r)), x.was[ChainRank(r)])
         /\ toSlave[r] # << >> =>
              /\ Head(toSlave[r]).task = TaskOf(ChainAt(SetOf(r)), x.held[ChainRank(r)])
              /\ Head(toSlave[r]).partner = Partner(SetOf(r), x.was, x.held, ChainRank(r))
<1>1. x.kind = "update"
  BY WhereIs DEF RankIn, Updating
<1>2. toSlave[r] = ToFirst(r, x)
  BY DEF RankIn, Queue
<1>3. task[r] = TaskOf(ChainAt(SetOf(r)), x.was[ChainRank(r)])
  BY DEF RankIn, Works
<1>4. ASSUME toSlave[r] # << >>
      PROVE  x.first = "sent" /\ Head(toSlave[r]) = SwapFor(r, x.was, x.held)
  BY <1>1, <1>2, <1>4, FirstNext
<1>5. ASSUME x.first = "sent" PROVE toSlave[r] # << >>
  <2> DEFINE m == SwapFor(r, x.was, x.held)
  <2>1. m \in Mail(r, x) /\ ToResp(r, x) \in Seq(Mail(r, x))
    BY QueuesAreMail DEF Mail
  <2>2. ToFirst(r, x) = <<m>> \o ToResp(r, x)
    BY <1>5 DEF ToFirst, Ahead
  <2> HIDE DEF m
  <2>3. <<m>> \o ToResp(r, x) # << >>
    BY <2>1, AheadIs
  <2> QED
    BY <1>2, <2>2, <2>3
<1> QED
  BY <1>1, <1>3, <1>4, <1>5 DEF SwapFor, SwapMsg

LEMMA MatesReadyIs == SetInv => MatesReady
<1> SUFFICES ASSUME SetInv, NEW g \in Sets, AllSwap(g), NEW r \in Ranks, SetOf(r) = g, Swapping(r)
             PROVE  \E q \in Ranks : MatedWith(r, q)
  BY DEF MatesReady, Mated
<1> DEFINE i == ChainRank(r)
           c == ChainAt(g)
<1>1. PICK x \in Paths : /\ Path(x) /\ Seated(g, x)
                         /\ \A q \in Ranks : SetOf(q) = g => RankIn(q, x)
  BY InSet
<1>2. pc[r] = "swap" /\ toSlave[r] # << >> /\ Head(toSlave[r]).task # task[r]
  BY DEF Swapping, AllSwap
<1>3. /\ x.kind = "update" /\ x.first = "sent" /\ task[r] = TaskOf(c, x.was[i])
      /\ Head(toSlave[r]).task = TaskOf(c, x.held[i])
      /\ Head(toSlave[r]).partner = Partner(g, x.was, x.held, i)
  BY <1>1, <1>2, AfterBarrier
<1>4. /\ i \in Members /\ x.held[i] \in Members /\ x.was[i] \in Members
      /\ Permutation(x.was, ChainLen) /\ Permutation(x.held, ChainLen) /\ Paired(x.was, x.held)
  BY <1>1, <1>3, SeatIs DEF Paths, Path, Seated
<1> DEFINE q == Partner(g, x.was, x.held, i)
           j == ChainRank(q)
<1>5. q \in Ranks /\ SetOf(q) = g /\ j \in Members /\ x.was[j] = x.held[i]
  BY <1>4, PartnerIs
<1>6. Mate(r) = q
  BY <1>2, <1>3 DEF Mate
<1> HIDE DEF q
<1>7. x.held[j] = x.was[i]
  BY <1>4, <1>5 DEF Paired
<1>8. /\ pc[q] = "swap" /\ toSlave[q] # << >> /\ task[q] = TaskOf(c, x.was[j])
      /\ Head(toSlave[q]).task = TaskOf(c, x.held[j])
      /\ Head(toSlave[q]).partner = Partner(g, x.was, x.held, j)
  <2>1. pc[q] = "swap"
    BY <1>5 DEF AllSwap
  <2> QED
    BY <1>1, <1>3, <1>5, <2>1, AfterBarrier
<1>9. Head(toSlave[q]).task # task[q]
  BY <1>2, <1>3, <1>5, <1>7, <1>8
<1>10. Partner(g, x.was, x.held, j) = r
  <2> DEFINE s == Partner(g, x.was, x.held, j)
  <2>1. x.held[j] \in Members
    BY <1>4, <1>7
  <2>2. s \in Ranks /\ SetOf(s) = g /\ ChainRank(s) \in Members /\ x.was[ChainRank(s)] = x.held[j]
    BY <1>4, <1>5, <2>1, PartnerIs
  <2> HIDE DEF s
  <2>3. ChainRank(s) = i
    BY <1>4, <1>7, <2>2 DEF Permutation, Members
  <2>4. s = r
    BY <2>2, <2>3, SameSeat
  <2> QED
    BY <2>4 DEF s
<1>11. q # r
  BY <1>2, <1>3, <1>5
<1>12. Due(q) = task[r]
  BY <1>3, <1>7, <1>8 DEF Due
<1>13. MatedWith(r, q)
  BY <1>5, <1>6, <1>8, <1>9, <1>10, <1>11, <1>12 DEF MatedWith, Swapping, Mate
<1> QED
  BY <1>5, <1>13

\* What a step does that changes nothing about who swaps.
SwapsStay(r) ==
  /\ Swapping(r)' <=> Swapping(r)
  /\ Swapping(r) => /\ Mate(r)' = Mate(r) /\ Due(r)' = Due(r)
                    /\ pc'[r] = "swap" => pc[r] = "swap" /\ task'[r] = task[r]

LEMMA PairStays ==
  ASSUME NEW r, NEW q, MatedWith(r, q), Swapping(r), SwapsStay(r), SwapsStay(q)
  PROVE  MatedWith(r, q)'
<1>1. /\ Mate(r)' = q /\ Mate(q)' = r /\ Swapping(q)' /\ Due(q)' = Due(q)
      /\ pc'[r] = "swap" => pc[r] = "swap" /\ task'[r] = task[r]
  BY DEF SwapsStay, MatedWith
<1>2. SetOf(q) = SetOf(r) /\ q # r /\ (pc[r] = "swap" => Due(q) = task[r])
  BY DEF MatedWith
<1> QED
  BY <1>1, <1>2 DEF MatedWith

LEMMA SwapsStayMated ==
  ASSUME MateInv, NEW g, \A r \in Ranks : SetOf(r) = g => SwapsStay(r),
         NEW r \in Ranks, SetOf(r) = g
  PROVE  Mated(r)'
<1> SUFFICES ASSUME Swapping(r)' PROVE \E q \in Ranks : MatedWith(r, q)'
  BY DEF Mated
<1>1. PICK q \in Ranks : MatedWith(r, q)
  BY DEF MateInv, Mated, SwapsStay
<1>2. SwapsStay(r) /\ SwapsStay(q) /\ Swapping(r)
  BY <1>1 DEF SwapsStay, MatedWith
<1> QED
  BY <1>1, <1>2, PairStays

\* A rank whose place and queue are as before, or that is elsewhere.
LEMMA StayIs ==
  ASSUME NEW r,
         \/ {pc[r], pc'[r]} \cap {"swap", "exchange"} = {}
         \/ /\ pc'[r] = pc[r] /\ task'[r] = task[r] /\ partner'[r] = partner[r]
            /\ \/ toSlave'[r] = toSlave[r]
               \/ pc[r] = "exchange"
               \/ toSlave[r] # << >> /\ toSlave'[r] # << >> /\ Head(toSlave'[r]) = Head(toSlave[r])
  PROVE  SwapsStay(r)
BY DEF SwapsStay, Swapping, Mate, Due

LEMMA AllStayMated ==
  ASSUME MateInv, \A r \in Ranks : SwapsStay(r)
  PROVE  MateInv'
<1>1. ASSUME NEW r \in Ranks PROVE Mated(r)'
  <2> DEFINE g == SetOf(r)
  <2>1. \A q \in Ranks : SetOf(q) = g => SwapsStay(q)
    OBVIOUS
  <2> HIDE DEF g
  <2> QED
    BY <2>1, SwapsStayMated DEF g
<1> QED
  BY <1>1 DEF MateInv, Ranks

LEMMA SlaveSwaps ==
  ASSUME SetInv, NEW r \in Ranks, SlaveStep(r), ~\E q \in Ranks : Exchange(r, q)
  PROVE  \A q \in Ranks : SwapsStay(q)
<1>0. /\ pc = [q \in Ranks |-> pc[q]] /\ task = [q \in Ranks |-> task[q]]
      /\ partner = [q \in Ranks |-> partner[q]] /\ toSlave = [q \in Ranks |-> toSlave[q]]
  BY DEF SetInv, Types
<1>1. CASE Quit(r) \/ AcceptNewChain(r) \/ Sweeps(r) \/ Respond(r) \/ Negotiate(r) \/ HearTimeout(r)
           \/ WriteTemporary(r) \/ FinishFirst(r) \/ FinishReport(r) \/ FinishTimeUp(r)
           \/ TakeAction(r) \/ MergeMeasurements(r)
  <2>1. /\ {pc[r], pc'[r]} \cap {"swap", "exchange"} = {}
        /\ \A q \in Ranks : q # r =>
             /\ pc'[q] = pc[q] /\ task'[q] = task[q] /\ partner'[q] = partner[q]
             /\ toSlave'[q] = toSlave[q]
    <3>1. CASE Quit(r) \/ AcceptNewChain(r)
      BY <1>0, <3>1 DEF Quit, AcceptNewChain, Takes, At, Goes, Pop, LoopHead
    <3>2. CASE Sweeps(r) \/ Negotiate(r) \/ HearTimeout(r) \/ WriteTemporary(r)
      BY <1>0, <3>2 DEF Sweeps, Negotiate, HearTimeout, WriteTemporary, At, Goes, Obey, LoopHead,
         AfterWrite, netVars
    <3>3. CASE Respond(r) \/ TakeAction(r)
      BY <1>0, <3>3 DEF Respond, TakeAction, Takes, At, Goes, Pop, LoopHead
    <3>4. CASE FinishFirst(r) \/ FinishReport(r) \/ FinishTimeUp(r) \/ MergeMeasurements(r)
      BY <1>0, <3>4 DEF FinishFirst, FinishReport, FinishTimeUp, MergeMeasurements, At, Goes,
         LoopHead, netVars
    <3> QED
      BY <1>1, <3>1, <3>2, <3>3, <3>4
  <2>2. ASSUME NEW q \in Ranks PROVE SwapsStay(q)
    BY <2>1, StayIs
  <2> QED
    BY <2>2
<1>2. CASE KeepTask(r)
  <2>1. /\ pc[r] = "swap" /\ pc'[r] = "negotiate" /\ Head(toSlave[r]).task = task[r]
        /\ \A q \in Ranks : q # r =>
             /\ pc'[q] = pc[q] /\ task'[q] = task[q] /\ partner'[q] = partner[q]
             /\ toSlave'[q] = toSlave[q]
    BY <1>0, <1>2 DEF KeepTask, Takes, At, Goes, Pop
  <2>2. ASSUME NEW q \in Ranks PROVE SwapsStay(q)
    <3>1. CASE q = r
      BY <2>1, <3>1 DEF SwapsStay, Swapping
    <3> QED
      BY <2>1, <3>1, StayIs
  <2> QED
    BY <2>2
<1>3. CASE ChangeTask(r)
  <2>1. /\ pc[r] = "swap" /\ toSlave[r] # << >> /\ Head(toSlave[r]).task # task[r]
        /\ pc'[r] = "exchange" /\ task'[r] = Head(toSlave[r]).task
        /\ partner'[r] = Head(toSlave[r]).partner
        /\ \A q \in Ranks : q # r =>
             /\ pc'[q] = pc[q] /\ task'[q] = task[q] /\ partner'[q] = partner[q]
             /\ toSlave'[q] = toSlave[q]
    BY <1>0, <1>3 DEF ChangeTask, Takes, At, Goes, Pop, HeadIs
  <2>2. ASSUME NEW q \in Ranks PROVE SwapsStay(q)
    <3>1. CASE q = r
      BY <2>1, <3>1 DEF SwapsStay, Swapping, Mate, Due
    <3> QED
      BY <2>1, <3>1, StayIs
  <2> QED
    BY <2>2
<1> QED
  BY <1>1, <1>2, <1>3 DEF SlaveStep

LEMMA ExchangeMates ==
  ASSUME SetInv, MateInv, NEW r \in Ranks, NEW q \in Ranks, Exchange(r, q)
  PROVE  /\ MateInv'
         /\ \A s \in Ranks : s # r /\ s # q => SwapsStay(s)
<1>0. /\ pc = [s \in Ranks |-> pc[s]] /\ task = [s \in Ranks |-> task[s]]
      /\ partner = [s \in Ranks |-> partner[s]] /\ toSlave = [s \in Ranks |-> toSlave[s]]
  BY DEF SetInv, Types
<1>1. /\ pc[r] = "exchange" /\ pc[q] = "exchange" /\ partner[r] = q /\ partner[q] = r
      /\ pc'[r] = "negotiate" /\ pc'[q] = "negotiate"
      /\ \A s \in Ranks : s # r /\ s # q =>
           /\ pc'[s] = pc[s] /\ task'[s] = task[s] /\ partner'[s] = partner[s]
           /\ toSlave'[s] = toSlave[s]
  BY <1>0 DEF Exchange, At, netVars
<1>2. ASSUME NEW s \in Ranks, Swapping(s)' PROVE \E m \in Ranks : MatedWith(s, m)'
  <2>1. s # r /\ s # q
    BY <1>1, <1>2 DEF Swapping
  <2>2. SwapsStay(s) /\ Swapping(s)
    BY <1>1, <1>2, <2>1, StayIs DEF SwapsStay
  <2>3. PICK m \in Ranks : MatedWith(s, m)
    BY <2>2 DEF MateInv, Mated
  <2>4. m # r /\ m # q
    BY <1>1, <2>1, <2>3 DEF MatedWith, Mate
  <2>5. SwapsStay(m)
    BY <1>1, <2>4, StayIs
  <2> QED
    BY <2>2, <2>3, <2>5, PairStays
<1>3. \A s \in Ranks : s # r /\ s # q => SwapsStay(s)
  BY <1>1, StayIs
<1>4. MateInv'
  BY <1>2 DEF MateInv, Mated, Ranks
<1> QED
  BY <1>3, <1>4

LEMMA SlaveMates ==
  ASSUME SetInv, MateInv, NEW r \in Ranks, SlaveStep(r)
  PROVE  MateInv'
<1>1. CASE \E q \in Ranks : Exchange(r, q)
  BY <1>1, ExchangeMates
<1>2. CASE ~\E q \in Ranks : Exchange(r, q)
  <2>1. \A q \in Ranks : SwapsStay(q)
    BY <1>2, SlaveSwaps
  <2> QED
    BY <2>1, AllStayMated
<1> QED
  BY <1>1, <1>2

LEMMA BarrierMates ==
  ASSUME SetInv, SetInv', MateInv, NEW g \in Sets, Barrier(g)
  PROVE  MateInv'
<1>1. /\ phase = "running" /\ \A r \in SetRanks(g) : pc[r] \in {"update_barrier", "write_barrier"}
      /\ \A r \in Ranks : pc'[r] = IF SetOf(r) # g THEN pc[r]
                                   ELSE IF pc[r] = "update_barrier" THEN "swap" ELSE "rename"
      /\ task' = task /\ partner' = partner /\ toSlave' = toSlave
  BY DEF Barrier, netVars
<1>2. ASSUME NEW r \in Ranks, SetOf(r) # g PROVE Mated(r)'
  <2> DEFINE h == SetOf(r)
  <2>1. ASSUME NEW q \in Ranks, SetOf(q) = h PROVE SwapsStay(q)
    BY <1>1, <1>2, <2>1, StayIs
  <2> HIDE DEF h
  <2> QED
    BY <2>1, SwapsStayMated DEF h
<1>3. ASSUME NEW r \in Ranks, SetOf(r) = g PROVE Mated(r)'
  <2>1. CASE \E q \in Ranks : SetOf(q) = g /\ pc[q] = "update_barrier"
    <3>1. \A q \in Ranks : SetOf(q) = g => pc[q] = "update_barrier"
      BY <1>1, <2>1, MatchIs DEF CollectivesMatch, SetRanks
    <3>2. AllSwap(g)'
      BY <1>1, <3>1 DEF AllSwap
    <3>3. MatesReady'
      BY MatesReadyIs, PTL
    <3> QED
      BY <1>3, <3>2, <3>3 DEF MatesReady
  <2>2. CASE ~\E q \in Ranks : SetOf(q) = g /\ pc[q] = "update_barrier"
    BY <1>1, <1>3, <2>2 DEF Mated, Swapping
  <2> QED
    BY <2>1, <2>2
<1> QED
  BY <1>2, <1>3 DEF MateInv, Ranks

LEMMA PushSwaps ==
  ASSUME SetInv, NEW g \in Sets, NEW msgs, toSlave' = PushSet(toSlave, g, msgs),
         UNCHANGED slaveVars, \A i \in Members : \E S : msgs[i] \in Seq(S),
         ~AllSwap(g)
  PROVE  \A r \in Ranks : SwapsStay(r)
<1>0. pc' = pc /\ task' = task /\ partner' = partner
  BY DEF slaveVars
<1>1. ASSUME NEW r \in Ranks, SetOf(r) = g, pc[r] = "swap" PROVE toSlave[r] # << >>
  <2>1. PICK x \in Paths : /\ Path(x)
                           /\ \A q \in Ranks : SetOf(q) = g => RankIn(q, x) /\ Placed(q, x)
    BY InSet
  <2>2. x.kind = "update" /\ (toSlave[r] # << >> <=> x.first = "sent")
    BY <1>1, <2>1, AfterBarrier
  <2>3. x.first = "sent"
    BY <2>1, <2>2 DEF AllSwap, Placed, Paths, Flag
  <2> QED
    BY <2>2, <2>3
<1>2. ASSUME NEW r \in Ranks PROVE SwapsStay(r)
  <2>1. CASE SetOf(r) # g
    <3>1. toSlave'[r] = toSlave[r]
      BY <2>1 DEF PushSet
    <3> QED
      BY <1>0, <3>1, StayIs
  <2>2. CASE SetOf(r) = g /\ pc[r] # "swap"
    BY <1>0, <2>2, StayIs
  <2>3. CASE SetOf(r) = g /\ pc[r] = "swap"
    <3> DEFINE s == toSlave[r]
               u == msgs[ChainRank(r)]
    <3>1. toSlave'[r] = s \o u /\ s # << >>
      BY <1>1, <2>3 DEF PushSet
    <3>2. PICK S : s \in Seq(S)
      BY QueueIsSeq
    <3>3. PICK T : u \in Seq(T)
      BY SeatIs
    <3> HIDE DEF s, u
    <3>4. s \o u # << >> /\ Head(s \o u) = Head(s)
      <4>1. s \in Seq(S \cup T) /\ u \in Seq(S \cup T)
        <5>1. \A v \in Seq(S) : v \in Seq(S \cup T)
          OBVIOUS
        <5>2. \A v \in Seq(T) : v \in Seq(S \cup T)
          OBVIOUS
        <5> QED
          BY <3>2, <3>3, <5>1, <5>2
      <4> QED
        BY <3>1, <4>1
    <3> QED
      BY <1>0, <3>1, <3>4, StayIs DEF s
  <2> QED
    BY <2>1, <2>2, <2>3
<1> QED
  BY <1>2

LEMMA PushMates ==
  ASSUME SetInv, SetInv', MateInv, NEW g \in Sets, NEW msgs, toSlave' = PushSet(toSlave, g, msgs),
         UNCHANGED slaveVars, \A i \in Members : \E S : msgs[i] \in Seq(S)
  PROVE  MateInv'
<1>1. pc' = pc /\ task' = task /\ partner' = partner
  BY DEF slaveVars
<1>2. CASE AllSwap(g)
  <2>1. AllSwap(g)'
    BY <1>1, <1>2 DEF AllSwap
  <2>2. MatesReady'
    BY MatesReadyIs, PTL
  <2>3. ASSUME NEW r \in Ranks, SetOf(r) # g PROVE Mated(r)'
    <3> DEFINE h == SetOf(r)
    <3>1. ASSUME NEW q \in Ranks, SetOf(q) = h PROVE SwapsStay(q)
      <4>1. toSlave'[q] = toSlave[q]
        BY <2>3, <3>1 DEF PushSet
      <4> QED
        BY <1>1, <4>1, StayIs
    <3> HIDE DEF h
    <3> QED
      BY <3>1, SwapsStayMated DEF h
  <2>4. ASSUME NEW r \in Ranks, SetOf(r) = g PROVE Mated(r)'
    BY <2>1, <2>2, <2>4 DEF MatesReady
  <2> QED
    BY <2>3, <2>4 DEF MateInv, Ranks
<1>3. CASE ~AllSwap(g)
  <2>1. \A r \in Ranks : SwapsStay(r)
    BY <1>3, PushSwaps
  <2> QED
    BY <2>1, AllStayMated
<1> QED
  BY <1>2, <1>3

LEMMA ShortSeqs ==
  /\ \A m : <<m>> \in Seq({m}) /\ Append(<< >>, m) \in Seq({m})
  /\ \A m, n : Append(<<m>>, n) \in Seq({m, n})
<1>1. \A m : <<m>> \in Seq({m}) /\ << >> \in Seq({m}) /\ m \in {m}
  OBVIOUS
<1>2. \A m, n : <<m>> \in Seq({m, n}) /\ n \in {m, n}
  OBVIOUS
<1>3. \A S : \A s \in Seq(S), m \in S : Append(s, m) \in Seq(S)
  OBVIOUS
<1> QED
  BY <1>1, <1>2, <1>3

\* What the master sends to the ranks of a set.
LEMMA MasterPushes ==
  ASSUME MasterStep
  PROVE  /\ UNCHANGED slaveVars
         /\ \/ toSlave' = toSlave
            \/ \E g \in Sets : \E msgs :
                 /\ toSlave' = PushSet(toSlave, g, msgs)
                 /\ \A i \in Members : \E S : msgs[i] \in Seq(S)
<1> DEFINE Goal == \E g \in Sets : \E msgs :
                     /\ toSlave' = PushSet(toSlave, g, msgs)
                     /\ \A i \in Members : \E S : msgs[i] \in Seq(S)
<1>0. UNCHANGED slaveVars
  BY DEF MasterStep, AssignFirst, GlobalUpdate, ReactBusy, ReactReady, ReactTimeUp
<1>1. ASSUME NEW g \in Sets, NEW n, NEW sch, NEW first, first = << >> \/ \E e : first = <<e>>,
             AssignNewChain(g, n, sch, first)
      PROVE  Goal
  <2> DEFINE c == GetNewTaskId(current, NChains, DoneChains(n))
             k == NextRun(sch[c])
             job(i) == JobMsg(TaskOf(c, i), k, SweepsUntilComm(c, n[c]))
             m == [i \in Members |-> Append(first, job(i))]
             q == [i \in Members |-> Append(first, JobMsg(NoTask, 0, 0))]
  <2>1. toSlave' = PushSet(toSlave, g, m) \/ toSlave' = PushSet(toSlave, g, q)
    BY <1>1 DEF AssignNewChain
  <2>2. \A e : \E S : Append(first, e) \in Seq(S)
    BY <1>1, ShortSeqs
  <2>3. \A i \in Members : (\E S : m[i] \in Seq(S)) /\ (\E S : q[i] \in Seq(S))
    BY <2>2
  <2> HIDE DEF m, q
  <2> QED
    BY <2>1, <2>3
<1>2. ASSUME NEW g \in Sets, AssignFirst(g) PROVE Goal
  BY <1>1, <1>2 DEF AssignFirst
<1>3. ASSUME NEW g \in Sets, GlobalUpdate(g) PROVE Goal
  <2> DEFINE c == setRun[g][1]
             k == setRun[g][2]
  <2>1. PICK accepted \in SUBSET TriedPairs(odd[c][k], ChainLen) :
          LET to == Moved(pos[c][k], accepted)
              with == SwitchPartners(pos[c][k], accepted)
          IN  toSlave' = PushSet(toSlave, g, [i \in Members |->
                           <<SwapMsg(TaskOf(c, to[i]), g * ChainLen + with[i])>>])
    BY <1>3 DEF GlobalUpdate
  <2> DEFINE to == Moved(pos[c][k], accepted)
             with == SwitchPartners(pos[c][k], accepted)
             m == [i \in Members |-> <<SwapMsg(TaskOf(c, to[i]), g * ChainLen + with[i])>>]
  <2>2. toSlave' = PushSet(toSlave, g, m)
    BY <2>1
  <2>3. \A i \in Members : \E S : m[i] \in Seq(S)
    BY ShortSeqs
  <2> HIDE DEF m
  <2> QED
    BY <2>2, <2>3
<1>4. ASSUME NEW r \in Ranks, ReactBusy(r) PROVE Goal
  <2> DEFINE m == [i \in Members |-> <<ActionMsg("continue")>>]
  <2>1. \/ \E n, sch, a : AssignNewChain(SetOf(r), n, sch, <<ActionMsg(a)>>)
        \/ toSlave' = PushSet(toSlave, SetOf(r), m)
    BY <1>4 DEF ReactBusy
  <2>2. CASE \E n, sch, a : AssignNewChain(SetOf(r), n, sch, <<ActionMsg(a)>>)
    BY <1>1, <2>2, SeatIs
  <2>3. \A i \in Members : \E S : m[i] \in Seq(S)
    BY ShortSeqs
  <2> HIDE DEF m
  <2> QED
    BY <2>1, <2>2, <2>3, SeatIs
<1>5. ASSUME NEW r \in Ranks, ReactReady(r) PROVE Goal
  <2> DEFINE c == setRun[SetOf(r)][1]
             k == setRun[SetOf(r)][2]
             answer(i) == IF Skips(pos[c][k][i], odd[c][k], ChainLen) THEN "skip" ELSE "weight"
             m == [i \in Members |-> <<Response(answer(i))>>]
  <2>1. toSlave' = PushSet(toSlave, SetOf(r), m)
    BY <1>5 DEF ReactReady
  <2>2. \A i \in Members : \E S : m[i] \in Seq(S)
    BY ShortSeqs
  <2> HIDE DEF m
  <2> QED
    BY <2>1, <2>2, SeatIs
<1>6. ASSUME NEW r \in Ranks, ReactTimeUp(r) PROVE toSlave' = toSlave
  BY <1>6 DEF ReactTimeUp
<1> HIDE DEF Goal
<1>7. toSlave' = toSlave \/ Goal
  BY <1>2, <1>3, <1>4, <1>5, <1>6 DEF MasterStep
<1> QED
  BY <1>0, <1>7 DEF Goal

LEMMA MateInvInit == Init => MateInv
BY DEF Init, MateInv, Mated, Swapping

LEMMA MateInvNext == SetInv /\ SetInv' /\ MateInv /\ [Next]_vars => MateInv'
<1> SUFFICES ASSUME SetInv, SetInv', MateInv, [Next]_vars PROVE MateInv'
  OBVIOUS
<1>1. ASSUME toSlave' = toSlave, UNCHANGED slaveVars PROVE MateInv'
  <2>1. \A r \in Ranks : SwapsStay(r)
    BY <1>1, StayIs DEF slaveVars
  <2> QED
    BY <2>1, AllStayMated
<1>2. CASE MasterStep
  BY <1>1, <1>2, MasterPushes, PushMates
<1>3. CASE \E r \in Ranks : SlaveStep(r)
  BY <1>3, SlaveMates
<1>4. CASE \E g \in Sets : Barrier(g)
  BY <1>4, BarrierMates
<1>5. CASE Relaunch
  <2>1. pc' = [r \in Ranks |-> "accept"]
    BY <1>5 DEF Relaunch, Start
  <2> QED
    BY <2>1 DEF MateInv, Mated, Swapping, Ranks
<1>6. CASE MasterCheckpoint \/ Finalize \/ Crash \/ Refuse \/ Stopped \/ UNCHANGED vars
  BY <1>1, <1>6 DEF MasterCheckpoint, Finalize, Crash, Refuse, Stopped, vars, netVars, slaveVars
<1> QED
  BY <1>2, <1>3, <1>4, <1>5, <1>6 DEF Next

-----------------------------------------------------------------------------
(* What a rank has in memory and what is in the files.                     *)

\* The measurements of rank r are of task t: between the two halves of a change
\* of tasks they are still those of the task it had.
OfTask(r, t) ==
  IF pc[r] = "exchange" THEN \E q \in Ranks : MatedWith(r, q) /\ Due(q) = t
  ELSE t = task[r]

InFile(t, k) == IF k \in DOMAIN meas[t] THEN meas[t][k].n ELSE 0

\* With them, the measurement file of run k of task t is complete up to the
\* sweep of the rank, which has gone on from the dump.
Remembers(r, t, k) ==
  /\ sys[r].buf.of \subseteq {t}
  /\ InFile(t, k) + sys[r].buf.n = MeasuredSweeps(sys[r].sweep, Therm[ChainOf(t)] * Spgu[t])
  /\ k \in DOMAIN dump[t] => SweepOf(dump[t][k]) <= sys[r].sweep

\* The ranks this is true of: those with a simulation they will go on with.
Carries(r) ==
  \/ pc[r] \in {"rename"} \cup Updating \cup Sweeping \cup Writing
  \/ pc[r] = "action" /\ RunOf(r) = setRun[SetOf(r)]

MemOf(r, t, k) == run[r] = k /\ OfTask(r, t) /\ Remembers(r, t, k)
InMemory(r) == \E t \in Tasks, k \in RunIds : MemOf(r, t, k)
MemInv == phase = "running" => \A r \in Ranks : Carries(r) => InMemory(r)

FileAgrees(t, k) ==
  /\ meas[t][k].n = MeasuredSweeps(SweepOf(dump[t][k]), Therm[ChainOf(t)] * Spgu[t])
  /\ meas[t][k].of \subseteq {t}

\* Both files of a run, or neither.
DiskInv ==
  \A t \in Tasks : /\ DOMAIN meas[t] = DOMAIN dump[t]
                   /\ \A k \in DOMAIN dump[t] : FileAgrees(t, k)

LEMMA MemIs ==
  ASSUME NEW r \in Ranks, MemInv, phase = "running", Carries(r)
  PROVE  \E t \in Tasks, k \in RunIds : run[r] = k /\ OfTask(r, t) /\ Remembers(r, t, k)
BY DEF MemInv, InMemory, MemOf

\* A step that touches neither the simulation of r nor the files.
LEMMA MemKept ==
  ASSUME NEW r \in Ranks, MemInv, phase = "running", Carries(r),
         sys'[r] = sys[r], run'[r] = run[r], dump' = dump, meas' = meas,
         \A t \in Tasks : OfTask(r, t) => OfTask(r, t)'
  PROVE  InMemory(r)'
<1>1. PICK t \in Tasks, k \in RunIds : run[r] = k /\ OfTask(r, t) /\ Remembers(r, t, k)
  BY MemIs
<1>2. OfTask(r, t)'
  BY <1>1
<1>3. Remembers(r, t, k)'
  BY <1>1 DEF Remembers, InFile
<1>4. MemOf(r, t, k)'
  BY <1>1, <1>2, <1>3 DEF MemOf
<1> QED
  BY <1>4 DEF InMemory, Tasks, RunIds

\* Its measurements are of the same task as before.
LEMMA OfTaskStays ==
  ASSUME NEW r \in Ranks, pc[r] = "exchange" <=> pc'[r] = "exchange", task'[r] = task[r],
         pc[r] = "exchange" => \A q \in Ranks : MatedWith(r, q) => SwapsStay(r) /\ SwapsStay(q)
  PROVE  \A t \in Tasks : OfTask(r, t) => OfTask(r, t)'
<1> SUFFICES ASSUME NEW t \in Tasks, OfTask(r, t) PROVE OfTask(r, t)'
  OBVIOUS
<1>1. CASE pc[r] = "exchange"
  <2>1. PICK q \in Ranks : MatedWith(r, q) /\ Due(q) = t
    BY <1>1 DEF OfTask
  <2>2. SwapsStay(r) /\ SwapsStay(q) /\ Swapping(r)
    BY <1>1, <2>1 DEF MatedWith, Swapping
  <2>3. MatedWith(r, q)'
    BY <2>1, <2>2, PairStays
  <2>4. Swapping(q)
    BY <2>1 DEF MatedWith
  <2>5. Due(q)' = t
    BY <2>1, <2>2, <2>4 DEF SwapsStay
  <2>6. \E p \in Ranks : MatedWith(r, p)' /\ Due(p)' = t
    BY <2>3, <2>5
  <2> QED
    BY <1>1, <2>6 DEF OfTask, Ranks
<1>2. CASE pc[r] # "exchange"
  BY <1>2 DEF OfTask
<1> QED
  BY <1>1, <1>2

\* A rank that was and is where its measurements are of its own task.
LEMMA SettledKept ==
  ASSUME NEW r \in Ranks, MemInv, phase = "running", Carries(r),
         pc[r] # "exchange", pc'[r] # "exchange", task'[r] = task[r],
         sys'[r] = sys[r], run'[r] = run[r], dump' = dump, meas' = meas
  PROVE  InMemory(r)'
BY OfTaskStays, MemKept

\* A rank that a step does not touch.
LEMMA IdleKept ==
  ASSUME NEW r \in Ranks, MemInv, phase = "running", Carries(r),
         pc'[r] = pc[r], task'[r] = task[r], sys'[r] = sys[r], run'[r] = run[r],
         dump' = dump, meas' = meas,
         pc[r] = "exchange" => \A q \in Ranks : MatedWith(r, q) => SwapsStay(r) /\ SwapsStay(q)
  PROVE  InMemory(r)'
BY OfTaskStays, MemKept

LEMMA DiskKept == DiskInv /\ dump' = dump /\ meas' = meas => DiskInv'
BY DEF DiskInv, FileAgrees, Tasks

\* Only a new run of its set makes a rank that waits for an action carry one.
LEMMA CarriedBefore ==
  ASSUME NEW r \in Ranks, Carries(r)', pc'[r] = pc[r], task'[r] = task[r], run'[r] = run[r],
         setRun'[SetOf(r)] = setRun[SetOf(r)]
  PROVE  Carries(r)
BY DEF Carries, RunOf

\* A run that is given to a set is not the one its ranks have reported on.
LEMMA MasterCarries ==
  ASSUME SetInv, SetInv', MasterStep, NEW r \in Ranks, Carries(r)'
  PROVE  Carries(r)
<1> DEFINE g == SetOf(r)
<1>0. UNCHANGED slaveVars /\ g \in Sets
  BY MasterPushes, SeatIs
<1>1. pc'[r] = pc[r] /\ task'[r] = task[r] /\ run'[r] = run[r]
  BY <1>0 DEF slaveVars
<1>2. CASE setRun'[g] = setRun[g]
  BY <1>1, <1>2, CarriedBefore
<1>3. ASSUME NEW h \in Sets, AssignFirst(h), setRun'[g] # setRun[g] PROVE Carries(r)
  <2>1. phase = "running" /\ mode = <<"assign", h>> /\ setRun' = [setRun EXCEPT ![h] = setRun'[h]]
    BY <1>3 DEF AssignFirst, AssignNewChain, SetInv, Types
  <2>2. g = h
    BY <1>0, <1>3, <2>1 DEF SetInv, Types
  <2>3. PICK x \in Paths : Path(x) /\ Seated(g, x) /\ RankIn(r, x)
    BY <1>0, <2>1, InSet
  <2>4. Undealt(g)
    BY <1>0, <2>1, <2>2 DEF Undealt, Sets
  <2>5. pc[r] = "accept"
    BY <2>3, <2>4 DEF Seated, RankIn, Placed, FirstPlaces, LastPlaces, Path
  <2> QED
    BY <1>1, <2>5 DEF Carries, Updating, Sweeping, Writing
<1>4. ASSUME NEW q \in Ranks, ReactBusy(q), setRun'[g] # setRun[g] PROVE Carries(r)
  <2>1. Types'
    BY DEF SetInv
  <2>2. PICK c \in Chains : LeaseFreed(SetOf(q), c)
    BY <1>4, <2>1, BusyLeases
  <2>3. /\ g = SetOf(q) /\ ChainOf(task[r]) = c
        /\ setRun'[g] = NoRun \/ \E d \in Chains, k \in RunIds : d # c /\ setRun'[g] = <<d, k>>
    BY <1>0, <1>4, <2>2 DEF LeaseFreed, SetRanks, SetInv, Types
  <2>4. RunOf(r)' # setRun'[g]
    <3>1. RunOf(r)' = <<c, run[r]>>
      BY <1>1, <2>3 DEF RunOf
    <3>2. c # -1
      BY ShapeAssumption DEF Chains
    <3> QED
      BY <2>3, <3>1, <3>2 DEF NoRun
  <2> QED
    BY <1>1, <2>4 DEF Carries
<1>5. CASE \/ \E h \in Sets : GlobalUpdate(h)
           \/ \E q \in Ranks : ReactReady(q) \/ ReactTimeUp(q)
  <2>1. setRun' = setRun
    BY <1>5 DEF GlobalUpdate, ReactReady, ReactTimeUp
  <2> QED
    BY <1>2, <2>1
<1> QED
  BY <1>2, <1>3, <1>4, <1>5 DEF MasterStep

LEMMA MasterSwaps ==
  ASSUME SetInv, MasterStep, NEW r \in Ranks, pc[r] = "exchange"
  PROVE  \A q \in Ranks : SetOf(q) = SetOf(r) => SwapsStay(q)
<1>0. UNCHANGED slaveVars
  BY MasterPushes
<1>1. CASE toSlave' = toSlave
  BY <1>0, <1>1, StayIs DEF slaveVars
<1>2. ASSUME NEW g \in Sets, NEW msgs, toSlave' = PushSet(toSlave, g, msgs),
             \A i \in Members : \E S : msgs[i] \in Seq(S)
      PROVE  \A q \in Ranks : SetOf(q) = SetOf(r) => SwapsStay(q)
  <2>1. CASE ~AllSwap(g)
    BY <1>0, <1>2, <2>1, PushSwaps
  <2>2. CASE AllSwap(g)
    <3>1. SetOf(r) # g
      BY <2>2 DEF AllSwap
    <3>2. ASSUME NEW q \in Ranks, SetOf(q) = SetOf(r) PROVE SwapsStay(q)
      <4>1. toSlave'[q] = toSlave[q]
        BY <1>2, <3>1, <3>2 DEF PushSet
      <4> QED
        BY <1>0, <4>1, StayIs DEF slaveVars
    <3> QED
      BY <3>2
  <2> QED
    BY <2>1, <2>2
<1> QED
  BY <1>1, <1>2, MasterPushes

LEMMA MasterMem ==
  ASSUME SetInv, SetInv', MemInv, MasterStep
  PROVE  MemInv'
<1>1. /\ UNCHANGED slaveVars /\ dump' = dump /\ meas' = meas /\ phase = "running"
  BY DEF MasterStep, AssignFirst, GlobalUpdate, ReactBusy, ReactReady, ReactTimeUp, Receives,
         fileVars
<1>2. ASSUME NEW r \in Ranks, Carries(r)' PROVE InMemory(r)'
  <2>1. Carries(r)
    BY <1>2, MasterCarries
  <2>2. pc[r] = "exchange" => \A q \in Ranks : MatedWith(r, q) => SwapsStay(r) /\ SwapsStay(q)
    BY MasterSwaps DEF MatedWith
  <2> QED
    BY <1>1, <2>1, <2>2, IdleKept DEF slaveVars
<1> QED
  BY <1>2 DEF MemInv, Ranks

LEMMA BarrierMem ==
  ASSUME SetInv, MemInv, NEW g \in Sets, Barrier(g)
  PROVE  MemInv'
<1>1. /\ phase = "running" /\ \A r \in SetRanks(g) : pc[r] \in {"update_barrier", "write_barrier"}
      /\ \A r \in Ranks : pc'[r] = IF SetOf(r) # g THEN pc[r]
                                   ELSE IF pc[r] = "update_barrier" THEN "swap" ELSE "rename"
      /\ task' = task /\ partner' = partner /\ toSlave' = toSlave /\ run' = run /\ sys' = sys
      /\ dump' = dump /\ meas' = meas /\ setRun' = setRun
  BY DEF Barrier, netVars, fileVars, masterVars
<1>2. ASSUME NEW r \in Ranks, Carries(r)' PROVE InMemory(r)'
  <2>1. CASE SetOf(r) = g
    <3>1. pc[r] \in {"update_barrier", "write_barrier"} /\ pc'[r] \in {"swap", "rename"}
      BY <1>1, <2>1 DEF SetRanks
    <3>2. Carries(r)
      BY <3>1 DEF Carries, Sweeping, Writing
    <3> QED
      BY <1>1, <3>1, <3>2, SettledKept
  <2>2. CASE SetOf(r) # g
    <3>1. Carries(r)
      BY <1>1, <1>2, <2>2, CarriedBefore
    <3>2. ASSUME NEW q \in Ranks, SetOf(q) = SetOf(r) PROVE SwapsStay(q)
      BY <1>1, <2>2, <3>2, StayIs
    <3>3. \A q \in Ranks : MatedWith(r, q) => SwapsStay(r) /\ SwapsStay(q)
      BY <3>2 DEF MatedWith
    <3> QED
      BY <1>1, <2>2, <3>1, <3>3, IdleKept
  <2> QED
    BY <2>1, <2>2
<1> QED
  BY <1>2 DEF MemInv, Ranks

\* The other ranks, when one of a set makes a step of its own.
OnlyIts(r) ==
  /\ phase' = "running" /\ setRun' = setRun
  /\ \A q \in Ranks : q # r => /\ pc'[q] = pc[q] /\ task'[q] = task[q]
                               /\ run'[q] = run[q] /\ sys'[q] = sys[q]

LEMMA OnlyItsIs ==
  ASSUME Types, NEW r \in Ranks, SlaveStep(r), ~\E q \in Ranks : Exchange(r, q)
  PROVE  OnlyIts(r)
<1>0. /\ pc = [q \in Ranks |-> pc[q]] /\ task = [q \in Ranks |-> task[q]]
      /\ run = [q \in Ranks |-> run[q]] /\ sys = [q \in Ranks |-> sys[q]]
  BY DEF Types
<1>1. CASE Quit(r) \/ Respond(r)
  BY <1>0, <1>1 DEF Quit, Respond, Takes, At, Goes, OnlyIts, launchVars, masterVars
<1>2. CASE AcceptNewChain(r)
  BY <1>0, <1>2 DEF AcceptNewChain, Takes, At, Goes, OnlyIts, launchVars, masterVars
<1>3. CASE Sweeps(r)
  <2>1. /\ \A q \in Ranks : q # r => sys'[q] = sys[q]
        /\ \A q \in Ranks : q # r => pc'[q] = pc[q]
        /\ task' = task /\ run' = run /\ setRun' = setRun /\ phase' = "running"
    BY <1>0, <1>3 DEF Sweeps, At, Goes, launchVars, masterVars
  <2> QED
    BY <2>1 DEF OnlyIts
<1>4. CASE KeepTask(r) \/ ChangeTask(r) \/ TakeAction(r)
  BY <1>0, <1>4 DEF KeepTask, ChangeTask, TakeAction, Takes, At, Goes, OnlyIts, launchVars, masterVars
<1>5. CASE Negotiate(r) \/ HearTimeout(r) \/ WriteTemporary(r) \/ MergeMeasurements(r)
  BY <1>0, <1>5 DEF Negotiate, HearTimeout, Obey, WriteTemporary, MergeMeasurements, At, Goes,
     OnlyIts, launchVars, masterVars
<1>6. CASE FinishFirst(r) \/ FinishReport(r) \/ FinishTimeUp(r)
  BY <1>0, <1>6 DEF FinishFirst, FinishReport, FinishTimeUp, RenameFiles, At, Goes, OnlyIts,
     launchVars, masterVars
<1> QED
  BY <1>1, <1>2, <1>3, <1>4, <1>5, <1>6 DEF SlaveStep

LEMMA OneRankMem ==
  ASSUME SetInv, MemInv, NEW r \in Ranks, SlaveStep(r), ~\E q \in Ranks : Exchange(r, q),
         dump' = dump, meas' = meas, Carries(r)' => InMemory(r)'
  PROVE  MemInv'
<1>1. OnlyIts(r) /\ phase = "running" /\ \A q \in Ranks : SwapsStay(q)
  BY OnlyItsIs, SlaveSwaps, SlaveRuns DEF SetInv
<1>2. ASSUME NEW q \in Ranks, q # r, Carries(q)' PROVE InMemory(q)'
  <2>1. /\ pc'[q] = pc[q] /\ task'[q] = task[q] /\ run'[q] = run[q] /\ sys'[q] = sys[q]
        /\ setRun' = setRun
    BY <1>1, <1>2 DEF OnlyIts
  <2>2. Carries(q)
    BY <1>2, <2>1, CarriedBefore
  <2> QED
    BY <1>1, <2>1, <2>2, IdleKept
<1> QED
  BY <1>2 DEF MemInv, Ranks

\* The steps that leave the simulation as it is.
LEMMA PlainMem ==
  ASSUME SetInv, MemInv, NEW r \in Ranks, ~\E q \in Ranks : Exchange(r, q),
         Quit(r) \/ Respond(r) \/ KeepTask(r) \/ Negotiate(r) \/ HearTimeout(r)
           \/ WriteTemporary(r) \/ MergeMeasurements(r)
  PROVE  MemInv'
<1>0. SlaveStep(r) /\ pc = [q \in Ranks |-> pc[q]] /\ task = [q \in Ranks |-> task[q]] /\ phase = "running"
  BY SlaveRuns DEF SlaveStep, SetInv, Types
<1>1. dump' = dump /\ meas' = meas /\ sys' = sys
  BY DEF Quit, Respond, KeepTask, Negotiate, HearTimeout, WriteTemporary, MergeMeasurements, fileVars
<1>2. CASE Quit(r) \/ MergeMeasurements(r)
  <2>1. pc'[r] \in {"exited", "accept"}
    BY <1>0, <1>2 DEF Quit, MergeMeasurements, Goes
  <2>2. ~Carries(r)'
    BY <2>1 DEF Carries, Updating, Sweeping, Writing
  <2> QED
    BY <1>0, <1>1, <2>2, OneRankMem
<1>3. CASE Respond(r) \/ KeepTask(r) \/ Negotiate(r) \/ HearTimeout(r) \/ WriteTemporary(r)
  <2>1. /\ pc[r] \in {"response", "swap", "negotiate", "write"}
        /\ pc'[r] \in {"update_barrier", "negotiate", "sweep", "write", "write_barrier"}
        /\ task' = task /\ run' = run
    <3>1. CASE Respond(r) \/ KeepTask(r)
      BY <1>0, <3>1 DEF Respond, KeepTask, Takes, At, Goes
    <3>2. CASE Negotiate(r) \/ HearTimeout(r) \/ WriteTemporary(r)
      BY <1>0, <3>2 DEF Negotiate, HearTimeout, WriteTemporary, Obey, LoopHead, AfterWrite, At, Goes
    <3> QED
      BY <1>3, <3>1, <3>2
  <2>2. Carries(r)
    BY <2>1 DEF Carries, Updating, Sweeping, Writing
  <2>3. InMemory(r)'
    BY <1>0, <1>1, <2>1, <2>2, SettledKept
  <2> QED
    BY <1>0, <1>1, <2>3, OneRankMem
<1> QED
  BY <1>2, <1>3

LEMMA TakeActionMem ==
  ASSUME SetInv, MemInv, NEW r \in Ranks, ~\E q \in Ranks : Exchange(r, q), TakeAction(r)
  PROVE  MemInv'
<1> DEFINE g == SetOf(r)
<1>0. SlaveStep(r) /\ pc = [q \in Ranks |-> pc[q]] /\ phase = "running" /\ g \in Sets
  BY SlaveRuns, SeatIs DEF SlaveStep, SetInv, Types
<1>1. /\ pc[r] = "action" /\ toSlave[r] # << >>
      /\ pc'[r] = IF Head(toSlave[r]).action = "continue" THEN LoopHead(since[r], before[r])
                  ELSE IF Head(toSlave[r]).action = "process" THEN "merge" ELSE "accept"
      /\ task' = task /\ run' = run /\ sys' = sys /\ dump' = dump /\ meas' = meas
  BY <1>0 DEF TakeAction, Takes, At, HeadIs, Goes, fileVars
<1>2. CASE Head(toSlave[r]).action = "continue"
  <2>1. PICK x \in Paths : Path(x) /\ Seated(g, x) /\ RankIn(r, x)
    BY <1>0, InSet
  <2>2. x.kind = "report" /\ toSlave[r] = ToAction(r, x)
    BY <1>1, <2>1, WhereIs DEF RankIn, Queue
  <2>3. x.act = "continue"
    BY <1>1, <1>2, <2>1, <2>2, ActionNext DEF ActionMsg
  <2>4. x.job = "none" /\ x.own = setRun[g] /\ x.own \in Chains \X RunIds
    BY <2>1, <2>2, <2>3 DEF Path, Seated
  <2>5. RunOf(r) = setRun[g]
    <3>1. task[r] = TaskOf(x.own[1], x.was[ChainRank(r)]) /\ run[r] = x.own[2]
      BY <1>1, <2>1, <2>2 DEF RankIn, Works, Reporting
    <3>2. x.was[ChainRank(r)] \in Members /\ x.own[1] \in Chains
      BY <2>4, SeatIs DEF Paths
    <3>3. ChainOf(task[r]) = x.own[1]
      BY <3>1, <3>2, TaskIs
    <3> QED
      BY <2>4, <3>1, <3>3 DEF RunOf
  <2>6. Carries(r)
    BY <1>1, <2>5 DEF Carries
  <2>7. pc'[r] # "exchange"
    BY <1>1, <1>2 DEF LoopHead
  <2>8. InMemory(r)'
    BY <1>0, <1>1, <2>6, <2>7, SettledKept
  <2> QED
    BY <1>0, <1>1, <2>8, OneRankMem
<1>3. CASE Head(toSlave[r]).action # "continue"
  <2>1. ~Carries(r)'
    BY <1>1, <1>3 DEF Carries, Updating, Sweeping, Writing
  <2> QED
    BY <1>0, <1>1, <2>1, OneRankMem
<1> QED
  BY <1>2, <1>3

\* Between the halves of a change of tasks the measurements are its partner's.
LEMMA ChangeTaskMem ==
  ASSUME SetInv, MateInv, MemInv, NEW r \in Ranks, ~\E q \in Ranks : Exchange(r, q), ChangeTask(r)
  PROVE  MemInv'
<1>0. SlaveStep(r) /\ pc = [q \in Ranks |-> pc[q]] /\ phase = "running"
  BY SlaveRuns DEF SlaveStep, SetInv, Types
<1>1. /\ pc[r] = "swap" /\ toSlave[r] # << >> /\ Head(toSlave[r]).task # task[r]
      /\ pc'[r] = "exchange"
      /\ run' = run /\ sys' = sys /\ dump' = dump /\ meas' = meas
  BY <1>0 DEF ChangeTask, Takes, At, HeadIs, Goes, fileVars
<1>2. Carries(r) /\ Swapping(r)
  BY <1>1 DEF Carries, Updating, Swapping
<1>3. \A q \in Ranks : SwapsStay(q)
  BY <1>0, SlaveSwaps
<1>4. PICK q \in Ranks : MatedWith(r, q)
  BY <1>2 DEF MateInv, Mated
<1>5. Due(q) = task[r] /\ Swapping(q)
  BY <1>1, <1>4 DEF MatedWith
<1>6. MatedWith(r, q)' /\ Due(q)' = task[r]
  <2>1. SwapsStay(r) /\ SwapsStay(q)
    BY <1>3
  <2>2. MatedWith(r, q)'
    BY <1>2, <1>4, <2>1, PairStays
  <2> QED
    BY <1>5, <2>1, <2>2 DEF SwapsStay
<1>7. \A t \in Tasks : OfTask(r, t) => OfTask(r, t)'
  <2>1. ASSUME NEW t \in Tasks, OfTask(r, t) PROVE OfTask(r, t)'
    <3>1. t = task[r]
      BY <1>1, <2>1 DEF OfTask
    <3>2. \E p \in Ranks : MatedWith(r, p)' /\ Due(p)' = t
      BY <1>6, <3>1
    <3> QED
      BY <1>1, <3>2 DEF OfTask, Ranks
  <2> QED
    BY <2>1
<1>8. InMemory(r)'
  BY <1>0, <1>1, <1>2, <1>7, MemKept
<1> QED
  BY <1>0, <1>1, <1>8, OneRankMem

\* The sweeps after a, up to e, that are measured with b sweeps between two
\* global updates.
MeasuredIn(a, e, T, b) == {i \in a + 1 .. e : IsThermalized(i \div b, T)}

LEMMA CountMeasured ==
  ASSUME NEW a \in Nat, NEW e \in Nat, a <= e, NEW T \in Nat, NEW b \in Nat \ {0}
  PROVE  /\ Cardinality(MeasuredIn(a, e, T, b)) \in Nat
         /\ MeasuredSweeps(e, T * b)
              = MeasuredSweeps(a, T * b) + Cardinality(MeasuredIn(a, e, T, b))
<1> DEFINE S == MeasuredIn(a, e, T, b)
           low == IF T * b > a + 1 THEN T * b ELSE a + 1
<1>1. ASSUME NEW i \in Nat PROVE i \div b >= T <=> i >= T * b
  <2> DEFINE q == i \div b
             p == i % b
  <2>1. q \in Nat /\ p \in 0 .. b - 1 /\ i = q * b + p
    BY Divided
  <2> HIDE DEF q, p
  <2>2. i \in 0 .. T * b - 1 <=> q < T
    BY <2>1, InBlocks
  <2>3. T * b \in Nat
    OBVIOUS
  <2>4. q >= T <=> i >= T * b
    BY <2>1, <2>2, <2>3
  <2> QED
    BY <2>4 DEF q
<1>2. T * b \in Nat /\ low \in Nat
  OBVIOUS
<1>3. S = {i \in a + 1 .. e : i >= T * b}
  BY <1>1 DEF IsThermalized, MeasuredIn
<1> DEFINE tb == T * b
<1> HIDE DEF S, tb
<1>4. S = low .. e
  BY <1>2, <1>3 DEF tb
<1> HIDE DEF low
<1> DEFINE card == Cardinality(low .. e)
<1>5. IsFiniteSet(low .. e) /\ card = IF low > e THEN 0 ELSE e - low + 1
  <2>1. low \in Int /\ e \in Int
    BY <1>2
  <2> QED
    BY <2>1, FS_Interval
<1>6. card \in Nat /\ card = Cardinality(S)
  BY <1>4, <1>5, FS_CardinalityType
<1> HIDE DEF card
<1>7. MeasuredSweeps(e, tb) = MeasuredSweeps(a, tb) + card
  BY <1>2, <1>5 DEF MeasuredSweeps, low, tb
<1> QED
  BY <1>6, <1>7 DEF S, tb

LEMMA SweepsMem ==
  ASSUME SetInv, MemInv, NEW r \in Ranks, ~\E q \in Ranks : Exchange(r, q), Sweeps(r)
  PROVE  MemInv'
<1> DEFINE g == SetOf(r)
           T == Therm[ChainOf(task[r])]
           b == Spgu[task[r]]
           old == sys[r].sweep
           new == (old \div b + 1) * b
           measured == {i \in old + 1 .. new : IsThermalized(i \div b, T)}
<1>0. /\ SlaveStep(r) /\ pc = [q \in Ranks |-> pc[q]] /\ sys \in [Ranks -> Simulations]
      /\ phase = "running" /\ g \in Sets
  BY SlaveRuns, SeatIs DEF SlaveStep, SetInv, Types
<1>1. /\ pc[r] = "sweep" /\ pc'[r] = "response" /\ task' = task /\ run' = run
      /\ dump' = dump /\ meas' = meas
  BY <1>0 DEF Sweeps, At, Goes, fileVars
<1>2. Carries(r)
  BY <1>1 DEF Carries, Sweeping
<1>3. PICK x \in Paths : Path(x) /\ Seated(g, x) /\ RankIn(r, x)
  BY <1>0, InSet
<1>4. sys[r].spgu = b
  BY <1>1, <1>3 DEF RankIn, Simulates, Sweeping
<1>5. PICK t \in Tasks, k \in RunIds : run[r] = k /\ OfTask(r, t) /\ Remembers(r, t, k)
  BY <1>0, <1>2, MemIs
<1>6. t = task[r]
  BY <1>1, <1>5 DEF OfTask
<1>7. b \in Nat \ {0} /\ T \in Nat /\ old \in Nat /\ sys[r].buf.n \in Nat
  <2>1. ChainOf(t) \in Chains
    BY ChainIs
  <2> QED
    BY <1>0, <1>6, <2>1, JobAssumption DEF Simulations, Buffers
<1>8. /\ sys'[r].sweep = new /\ sys'[r].buf.n = sys[r].buf.n + Cardinality(measured)
      /\ sys'[r].buf.of \subseteq sys[r].buf.of \cup {t}
  <2>1. measured = {i \in old + 1 .. new : Thermalized(i, sys[r].spgu, ChainOf(task[r]))}
    BY <1>4 DEF Thermalized
  <2> HIDE DEF new
  <2> DEFINE n == sys[r].buf.n + Cardinality(measured)
             of == IF measured = {} THEN sys[r].buf.of ELSE sys[r].buf.of \cup {task[r]}
  <2>2. sys' = [sys EXCEPT ![r].sweep = new, ![r].buf.n = n, ![r].buf.of = of]
    BY <2>1 DEF Sweeps, new
  <2> HIDE DEF measured
  <2>3. of \subseteq sys[r].buf.of \cup {t}
    BY <1>6
  <2> HIDE DEF n, of
  <2>4. sys'[r] = [[[sys[r] EXCEPT !.sweep = new] EXCEPT !.buf.n = n] EXCEPT !.buf.of = of]
    BY <1>0, <2>2
  <2>5. sys[r] \in Simulations /\ sys[r].buf \in Buffers
    BY <1>0 DEF Simulations
  <2>6. sys'[r].sweep = new /\ sys'[r].buf.n = n /\ sys'[r].buf.of = of
    BY <2>4, <2>5 DEF Simulations, Buffers
  <2> QED
    BY <2>3, <2>6 DEF n, new
<1>9. new \in Nat /\ old <= new
  <2> DEFINE q == old \div b
  <2>1. q \in Nat /\ old % b \in 0 .. b - 1 /\ old = q * b + (old % b)
    BY <1>7, Divided
  <2> HIDE DEF q, b, old
  <2>2. (q + 1) * b = q * b + b /\ q * b \in Nat
    BY <1>7, <2>1
  <2> QED
    BY <1>7, <2>1, <2>2 DEF q
<1> HIDE DEF new
<1>10. /\ Cardinality(measured) \in Nat
       /\ MeasuredSweeps(new, T * b) = MeasuredSweeps(old, T * b) + Cardinality(measured)
  <2>1. measured = MeasuredIn(old, new, T, b)
    BY DEF MeasuredIn
  <2> HIDE DEF old, T, b, measured
  <2> QED
    BY <1>7, <1>9, <2>1, CountMeasured
<1> HIDE DEF measured
<1>11. InFile(t, k) + sys'[r].buf.n = MeasuredSweeps(new, T * b)
  <2>1. InFile(t, k) + sys[r].buf.n = MeasuredSweeps(old, T * b)
    BY <1>5, <1>6 DEF Remembers
  <2>2. InFile(t, k) \in Nat
    BY <1>5 DEF InFile, SetInv, Types, RunFiles, Buffers
  <2> HIDE DEF old, T, b
  <2> QED
    BY <1>7, <1>8, <1>10, <2>1, <2>2
<1>12. Remembers(r, t, k)'
  <2>1. k \in DOMAIN dump[t] => SweepOf(dump[t][k]) \in Nat /\ SweepOf(dump[t][k]) <= old
    BY <1>5 DEF Remembers, SetInv, Types, RunFiles, DumpFiles, SweepOf
  <2>2. k \in DOMAIN dump[t] => SweepOf(dump[t][k]) <= new
    BY <1>7, <1>9, <2>1
  <2>3. sys'[r].buf.of \subseteq {t}
    BY <1>5, <1>8 DEF Remembers
  <2> QED
    BY <1>1, <1>6, <1>8, <1>11, <2>2, <2>3 DEF Remembers, InFile
<1>13. OfTask(r, t)'
  BY <1>1, <1>6 DEF OfTask
<1>14. MemOf(r, t, k)'
  BY <1>1, <1>5, <1>12, <1>13 DEF MemOf
<1>15. InMemory(r)'
  BY <1>14 DEF InMemory, Tasks, RunIds
<1> QED
  BY <1>0, <1>1, <1>15, OneRankMem

LEMMA MeasuredNone ==
  ASSUME NEW t \in Tasks
  PROVE  MeasuredSweeps(0, Therm[ChainOf(t)] * Spgu[t]) = 0
<1> DEFINE n == Therm[ChainOf(t)] * Spgu[t]
<1>1. Therm[ChainOf(t)] \in Nat /\ Spgu[t] \in Nat
  BY ChainIs, JobAssumption
<1>2. n \in Nat
  BY <1>1
<1> HIDE DEF n
<1>3. MeasuredSweeps(0, n) = 0
  BY <1>2 DEF MeasuredSweeps
<1> QED
  BY <1>3 DEF n

LEMMA AcceptMem ==
  ASSUME SetInv, MemInv, DiskInv, NEW r \in Ranks, ~\E q \in Ranks : Exchange(r, q),
         AcceptNewChain(r)
  PROVE  MemInv'
<1> DEFINE m == Head(toSlave[r])
           t == m.task
           k == m.run
<1>0. /\ SlaveStep(r) /\ pc = [q \in Ranks |-> pc[q]] /\ sys \in [Ranks -> Simulations]
      /\ task = [q \in Ranks |-> task[q]] /\ run = [q \in Ranks |-> run[q]]
      /\ phase = "running" /\ Types
  BY SlaveRuns DEF SlaveStep, SetInv, Types
<1>1. PICK x \in Paths : SetIn(SetOf(r), x)
  BY SeatIs DEF SetInv, AllIn
<1>2. t \in Tasks /\ k \in RunIds
  BY <1>0, <1>1, JobTaken
<1>3. /\ task'[r] = t /\ run'[r] = k /\ pc'[r] # "exchange" /\ dump' = dump /\ meas' = meas
      /\ sys'[r].buf = NoBuf
      /\ sys'[r].sweep = IF k \in DOMAIN dump[t] THEN SweepOf(dump[t][k]) ELSE 0
  <2> HIDE DEF m
  <2>1. /\ task'[r] = t /\ run'[r] = k /\ dump' = dump /\ meas' = meas
    BY <1>0 DEF AcceptNewChain, fileVars, m
  <2>2. pc'[r] # "exchange"
    BY <1>0 DEF AcceptNewChain, Goes, LoopHead
  <2>3. CASE k \in DOMAIN dump[t]
    <3>1. sys'[r] = [NewSys(t) EXCEPT !.sweep = SweepOf(dump[t][k])]
      BY <1>0, <2>3 DEF AcceptNewChain, m
    <3> QED
      BY <2>1, <2>2, <2>3, <3>1 DEF NewSys
  <2>4. CASE k \notin DOMAIN dump[t]
    <3>1. sys'[r] = NewSys(t)
      BY <1>0, <2>4 DEF AcceptNewChain, m
    <3> QED
      BY <2>1, <2>2, <2>4, <3>1 DEF NewSys
  <2> QED
    BY <2>3, <2>4
<1>31. PICK t0 \in Tasks, k0 \in RunIds : t0 = t /\ k0 = k
  BY <1>2
<1>32. /\ task'[r] = t0 /\ run'[r] = k0 /\ pc'[r] # "exchange" /\ dump' = dump /\ meas' = meas
      /\ sys'[r].buf = NoBuf
      /\ sys'[r].sweep = IF k0 \in DOMAIN dump[t0] THEN SweepOf(dump[t0][k0]) ELSE 0
  BY <1>3, <1>31
<1> HIDE DEF m, t, k
<1> DEFINE therm == Therm[ChainOf(t0)] * Spgu[t0]
<1>4. InFile(t0, k0) + 0 = MeasuredSweeps(sys'[r].sweep, therm)
  <2>1. CASE k0 \in DOMAIN dump[t0]
    <3>1. k0 \in DOMAIN meas[t0] /\ meas[t0][k0].n = MeasuredSweeps(SweepOf(dump[t0][k0]), therm)
      BY <2>1 DEF DiskInv, FileAgrees
    <3>2. meas[t0][k0].n \in Nat
      BY <1>0, <3>1 DEF Types, RunFiles, Buffers
    <3> QED
      BY <1>32, <2>1, <3>1, <3>2 DEF InFile
  <2>2. CASE k0 \notin DOMAIN dump[t0]
    <3>1. k0 \notin DOMAIN meas[t0]
      BY <2>2 DEF DiskInv
    <3> QED
      BY <1>32, <2>2, <3>1, MeasuredNone DEF InFile
  <2> QED
    BY <2>1, <2>2
<1>5. k0 \in DOMAIN dump[t0] => SweepOf(dump[t0][k0]) \in Nat
  BY <1>0, <1>2 DEF Types, RunFiles, DumpFiles, SweepOf
<1>6. Remembers(r, t0, k0)'
  BY <1>32, <1>4, <1>5 DEF Remembers, InFile, NoBuf
<1>7. OfTask(r, t0)'
  BY <1>32 DEF OfTask
<1>8. MemOf(r, t0, k0)'
  BY <1>32, <1>6, <1>7 DEF MemOf
<1>9. InMemory(r)'
  BY <1>8 DEF InMemory, Tasks, RunIds
<1> QED
  BY <1>0, <1>32, <1>9, OneRankMem

\* Two ranks that exchange measurements are at the same sweep of the same run,
\* and what each has in memory is of the other's task.
LEMMA ExchangeHalf ==
  ASSUME SetInv, MateInv, MemInv, NEW r \in Ranks, NEW q \in Ranks, Exchange(r, q)
  PROVE  /\ r # q /\ sys[r].sweep = sys[q].sweep
         /\ task[q] \in Tasks /\ \E k \in RunIds : run[r] = k /\ run[q] = k /\ Remembers(r, task[q], k)
<1> DEFINE g == SetOf(r)
<1>1. /\ pc[r] = "exchange" /\ pc[q] = "exchange" /\ partner[r] = q /\ partner[q] = r
      /\ phase = "running" /\ g \in Sets
  BY SeatIs DEF Exchange, At
<1>2. PICK t \in Tasks, k \in RunIds : run[r] = k /\ OfTask(r, t) /\ Remembers(r, t, k)
  <2>1. Carries(r)
    BY <1>1 DEF Carries, Updating
  <2> QED
    BY <1>1, <2>1, MemIs
<1>3. PICK p \in Ranks : MatedWith(r, p) /\ Due(p) = t
  BY <1>1, <1>2 DEF OfTask
<1>4. p = q /\ SetOf(q) = g /\ q # r /\ t = task[q]
  BY <1>1, <1>3 DEF MatedWith, Mate, Due
<1>5. PICK x \in Paths : /\ Path(x) /\ Seated(g, x)
                         /\ \A s \in Ranks : SetOf(s) = g => RankIn(s, x)
  BY <1>1, InSet
<1>6. sys[r].sweep = x.w /\ sys[q].sweep = x.w /\ run[r] = RunAt(g) /\ run[q] = RunAt(g)
  BY <1>1, <1>4, <1>5 DEF RankIn, Simulates, Works, Updating
<1> QED
  BY <1>2, <1>4, <1>6

LEMMA ExchangeMem ==
  ASSUME SetInv, MateInv, MemInv, NEW r \in Ranks, NEW q \in Ranks, Exchange(r, q)
  PROVE  MemInv'
<1>0. /\ pc = [s \in Ranks |-> pc[s]] /\ sys \in [Ranks -> Simulations]
      /\ phase = "running" /\ r # q
  BY ExchangeHalf DEF SetInv, Types, Exchange, At
<1>1. /\ task' = task /\ run' = run /\ dump' = dump /\ meas' = meas /\ setRun' = setRun
      /\ \A s \in Ranks : s # r /\ s # q => pc'[s] = pc[s]
      /\ pc'[r] = "negotiate" /\ pc'[q] = "negotiate"
  BY <1>0 DEF Exchange, fileVars, masterVars
<1>2. /\ \A s \in Ranks : s # r /\ s # q => sys'[s] = sys[s]
      /\ sys'[r].buf = sys[q].buf /\ sys'[r].sweep = sys[r].sweep
      /\ sys'[q].buf = sys[r].buf /\ sys'[q].sweep = sys[q].sweep
  <2> DEFINE a == sys[r].buf
             b == sys[q].buf
  <2>1. sys' = [sys EXCEPT ![r].buf = b, ![q].buf = a]
    BY DEF Exchange, Exchanged
  <2> HIDE DEF a, b
  <2>2. sys'[r] = [sys[r] EXCEPT !.buf = b] /\ sys'[q] = [sys[q] EXCEPT !.buf = a]
    BY <1>0, <2>1
  <2>3. \A s \in Ranks : s # r /\ s # q => sys'[s] = sys[s]
    BY <1>0, <2>1
  <2> QED
    BY <1>0, <2>2, <2>3 DEF Simulations, a, b
<1>3. ASSUME NEW s \in Ranks, NEW o \in Ranks, sys[o].sweep = sys[s].sweep, pc'[s] = "negotiate",
             sys'[s].buf = sys[o].buf, sys'[s].sweep = sys[s].sweep, NEW t \in Tasks, t = task[s],
             NEW k \in RunIds, run[s] = k, Remembers(o, t, k)
      PROVE  InMemory(s)'
  <2>1. task'[s] = t /\ run'[s] = k
    BY <1>1, <1>3
  <2>2. Remembers(s, t, k)'
    BY <1>1, <1>3 DEF Remembers, InFile
  <2>3. OfTask(s, t)'
    BY <1>3, <2>1 DEF OfTask
  <2>4. MemOf(s, t, k)'
    BY <2>1, <2>2, <2>3 DEF MemOf
  <2> QED
    BY <2>4 DEF InMemory, Tasks, RunIds
<1>4. Exchange(q, r)
  <2>1. Exchanged(sys, q, r) = Exchanged(sys, r, q)
    BY <1>0 DEF Exchanged
  <2>2. [pc EXCEPT ![q] = "negotiate", ![r] = "negotiate"]
          = [pc EXCEPT ![r] = "negotiate", ![q] = "negotiate"]
    BY <1>0
  <2>3. [since EXCEPT ![q] = Counted(q), ![r] = Counted(r)]
          = [since EXCEPT ![r] = Counted(r), ![q] = Counted(q)]
    BY <1>0
  <2> QED
    BY <2>1, <2>2, <2>3 DEF Exchange
<1>5. InMemory(r)' /\ InMemory(q)'
  <2>1. /\ sys[r].sweep = sys[q].sweep /\ task[q] \in Tasks
        /\ \E k \in RunIds : run[r] = k /\ run[q] = k /\ Remembers(r, task[q], k)
    BY ExchangeHalf
  <2>2. /\ task[r] \in Tasks
        /\ \E k \in RunIds : run[q] = k /\ run[r] = k /\ Remembers(q, task[r], k)
    BY <1>4, ExchangeHalf
  <2> QED
    BY <1>1, <1>2, <1>3, <2>1, <2>2
<1>6. ASSUME NEW s \in Ranks, s # r, s # q, Carries(s)' PROVE InMemory(s)'
  <2>1. Carries(s)
    BY <1>1, <1>6, CarriedBefore
  <2>2. ASSUME NEW o \in Ranks, pc[s] = "exchange", MatedWith(s, o) PROVE SwapsStay(s) /\ SwapsStay(o)
    <3>1. o # r /\ o # q
      BY <1>6, <2>2 DEF MatedWith, Mate, Exchange, At
    <3> QED
      BY <1>6, <3>1, ExchangeMates
  <2> QED
    BY <1>0, <1>1, <1>2, <1>6, <2>1, <2>2, IdleKept
<1> QED
  BY <1>5, <1>6 DEF MemInv, Ranks

\* Outside a checkpoint, what a rank has in memory is of its set's run.
LEMMA MemoryRun ==
  ASSUME SetInv, phase = "running", NEW q \in Ranks, Carries(q), pc[q] # "rename",
         NEW t \in Tasks, OfTask(q, t)
  PROVE  <<ChainOf(t), run[q]>> = setRun[SetOf(q)]
<1> DEFINE g == SetOf(q)
<1>1. CASE pc[q] = "action"
  BY <1>1 DEF Carries, OfTask, RunOf, Updating, Sweeping, Writing
<1>2. CASE pc[q] # "action"
  <2>1. pc[q] \in Updating \cup Sweeping \cup Writing
    BY <1>2 DEF Carries
  <2>2. g \in Sets
    BY SeatIs
  <2>3. PICK x \in Paths : /\ Path(x) /\ Seated(g, x)
                           /\ \A p \in Ranks : SetOf(p) = g => RankIn(p, x)
    BY <2>2, InSet
  <2>4. ChainAt(g) \in Chains /\ setRun[g] = <<ChainAt(g), RunAt(g)>>
    <3>1. HasRun(x)
      BY <2>1, <2>3, RunThere DEF RankIn
    <3> QED
      BY <2>2, <2>3, <3>1, RunIs DEF SetInv
  <2>5. run[q] = RunAt(g)
    BY <2>1, <2>3 DEF RankIn, Works
  <2>6. \A i \in Members : ChainOf(TaskOf(ChainAt(g), i)) = ChainAt(g)
    BY <2>4, TaskIs
  <2>7. \A p \in Ranks : x.held[ChainRank(p)] \in Members /\ x.was[ChainRank(p)] \in Members
    BY SeatIs DEF Paths
  <2>8. CASE pc[q] # "exchange"
    <3>1. t = task[q]
      BY <2>8 DEF OfTask
    <3>2. \/ t = TaskOf(ChainAt(g), x.held[ChainRank(q)])
          \/ t = TaskOf(ChainAt(g), x.was[ChainRank(q)])
      BY <2>1, <2>3, <3>1 DEF RankIn, Works, Updating
    <3> QED
      BY <2>4, <2>5, <2>6, <2>7, <3>2
  <2>9. CASE pc[q] = "exchange"
    <3>1. PICK p \in Ranks : MatedWith(q, p) /\ Due(p) = t
      BY <2>9 DEF OfTask
    <3>2. SetOf(p) = g /\ Swapping(p)
      BY <3>1 DEF MatedWith
    <3>3. t = TaskOf(ChainAt(g), x.held[ChainRank(p)])
      <4>1. CASE pc[p] = "exchange"
        BY <2>3, <3>1, <3>2, <4>1 DEF RankIn, Works, Due
      <4>2. CASE pc[p] = "swap" /\ toSlave[p] # << >>
        BY <2>3, <3>1, <3>2, <4>2, AfterBarrier DEF Due
      <4> QED
        BY <3>2, <4>1, <4>2 DEF Swapping
    <3> QED
      BY <2>4, <2>5, <2>6, <2>7, <3>3
  <2> QED
    BY <2>8, <2>9
<1> QED
  BY <1>1, <1>2

\* Nobody else has measurements for the files that a rank is about to replace.
LEMMA WritesApart ==
  ASSUME SetInv, phase = "running", NEW r \in Ranks, pc[r] = "rename",
         NEW q \in Ranks, q # r, Carries(q), NEW t \in Tasks, OfTask(q, t)
  PROVE  <<t, run[q]>> # <<task[r], run[r]>>
<1> DEFINE g == SetOf(r)
<1>1. /\ g \in Sets /\ SetOf(q) \in Sets /\ ChainRank(r) \in Members /\ ChainRank(q) \in Members
  BY SeatIs
<1> SUFFICES ASSUME t = task[r], run[q] = run[r] PROVE FALSE
  OBVIOUS
<1>2. RunOf(r) = <<ChainOf(t), run[q]>>
  BY DEF RunOf
<1>3. CASE SetOf(q) # g
  <2>1. r \in Renaming /\ \A h \in Sets \ {g} : setRun[h] # RunOf(r)
    BY DEF Renaming, SetInv, SharedInv, RenameInv
  <2>2. CASE pc[q] # "rename"
    BY <1>1, <1>2, <1>3, <2>1, <2>2, MemoryRun
  <2>3. CASE pc[q] = "rename"
    <3>1. q \in Renaming /\ RunOf(q) = RunOf(r)
      BY <1>2, <2>3 DEF Renaming, OfTask, RunOf
    <3> QED
      BY <1>3, <2>1, <3>1 DEF SetInv, SharedInv, RenameInv
  <2> QED
    BY <2>2, <2>3
<1>4. CASE SetOf(q) = g
  <2>1. PICK x \in Paths : /\ Path(x) /\ Seated(g, x)
                           /\ \A p \in Ranks : SetOf(p) = g => RankIn(p, x)
    BY <1>1, InSet
  <2>2. /\ x.own \in Chains \X RunIds /\ RunOf(r) = x.own
        /\ task[r] = TaskOf(x.own[1], x.was[ChainRank(r)])
        /\ x.kind \in {"fresh", "report", "timeup"}
    BY <2>1, WritesRun, WhereIs DEF Checkpointing, RankIn
  <2>3. pc[q] \in {"rename", "action"} \cup Sweeping \cup Writing
    BY <1>4, <2>1, <2>2, WhereIs DEF Carries, RankIn
  <2>4. t = task[q]
    BY <2>3 DEF OfTask, Sweeping, Writing
  <2>5. ChainRank(r) # ChainRank(q)
    BY <1>4, SameSeat
  <2>6. /\ x.was[ChainRank(r)] # x.was[ChainRank(q)]
        /\ x.was[ChainRank(r)] \in Members /\ x.was[ChainRank(q)] \in Members
    BY <1>1, <2>1, <2>5 DEF Path, Permutation, Members, Paths
  <2>7. task[q] # TaskOf(x.own[1], x.was[ChainRank(q)])
    BY <2>2, <2>4, <2>6, TasksApart
  <2>8. pc[q] \in Sweeping \cup Writing
    BY <1>4, <2>1, <2>2, <2>3, <2>7 DEF RankIn, Works, Reporting
  <2>9. task[q] = TaskOf(ChainAt(g), x.held[ChainRank(q)]) /\ x.way \in {"sweep", "write"}
    BY <1>4, <2>1, <2>8, WhereIs DEF RankIn, Works
  <2>10. CASE x.job = "none"
    <3>1. x.was = x.held /\ x.own = setRun[g]
      BY <2>1, <2>2, <2>10 DEF Path, Seated, Paths, Flag
    <3> QED
      BY <2>7, <2>9, <3>1 DEF ChainAt
  <2>11. CASE x.job # "none"
    <3>1. x.job = "job" /\ x.kind = "report"
      BY <2>1, <2>2, <2>9, <2>11 DEF Path, Paths
    <3>2. x.own[1] # ChainAt(g)
      BY <2>1, <3>1 DEF Seated
    <3>3. <<ChainOf(t), run[q]>> = setRun[g]
      BY <1>4, <2>8, MemoryRun DEF Sweeping, Writing
    <3> QED
      BY <1>2, <2>2, <3>2, <3>3 DEF ChainAt
  <2> QED
    BY <2>10, <2>11
<1> QED
  BY <1>3, <1>4

LEMMA SweepBack ==
  ASSUME NEW n \in Nat, NEW m \in Nat
  PROVE  SweepOf(DumpOf(n, m)) = n
BY DEF SweepOf, DumpOf, AtMost

\* Rank r has added what it has in memory to run k of task t.
Wrote(r, t, k) ==
  /\ \A u \in Tasks, q \in RunIds : <<u, q>> # <<t, k>> =>
       /\ q \in DOMAIN dump'[u] <=> q \in DOMAIN dump[u]
       /\ q \in DOMAIN meas'[u] <=> q \in DOMAIN meas[u]
       /\ q \in DOMAIN dump[u] => dump'[u][q] = dump[u][q]
       /\ q \in DOMAIN meas[u] => meas'[u][q] = meas[u][q]
  /\ k \in DOMAIN dump'[t] /\ k \in DOMAIN meas'[t]
  /\ SweepOf(dump'[t][k]) = sys[r].sweep
  /\ meas'[t][k].n = InFile(t, k) + sys[r].buf.n
  /\ meas'[t][k].of = (IF k \in DOMAIN meas[t] THEN meas[t][k].of ELSE {}) \cup sys[r].buf.of
  /\ sys'[r].sweep = sys[r].sweep /\ sys'[r].buf = NoBuf

LEMMA RenameWrites ==
  ASSUME Types, NEW r \in Ranks, RenameFiles(r), NEW t \in Tasks, t = task[r],
         NEW k \in RunIds, k = run[r]
  PROVE  Wrote(r, t, k)
<1> DEFINE T == Therm[ChainOf(t)] * sys[r].spgu
           new == DumpOf(sys[r].sweep, T)
           old == IF k \in DOMAIN meas[t] THEN meas[t][k] ELSE NoBuf
           m == Appended(old, sys[r].buf)
<1>1. /\ dump' = [dump EXCEPT ![t] = WriteRun(dump[t], k, new)]
      /\ meas' = [meas EXCEPT ![t] = WriteRun(meas[t], k, m)]
      /\ sys' = [sys EXCEPT ![r].buf = NoBuf]
  BY DEF RenameFiles
<1>2. /\ sys \in [Ranks -> Simulations] /\ sys[r].sweep \in Nat /\ sys[r].spgu \in Nat
      /\ dump = [u \in Tasks |-> dump[u]] /\ meas = [u \in Tasks |-> meas[u]]
  BY DEF Types, Simulations
<1>3. SweepOf(new) = sys[r].sweep
  <2>1. Therm[ChainOf(t)] \in Nat
    BY ChainIs, JobAssumption
  <2>2. T \in Nat
    BY <1>2, <2>1
  <2> HIDE DEF T
  <2> QED
    BY <1>2, <2>2, SweepBack
<1>4. /\ m.n = InFile(t, k) + sys[r].buf.n
      /\ m.of = (IF k \in DOMAIN meas[t] THEN meas[t][k].of ELSE {}) \cup sys[r].buf.of
  BY DEF Appended, InFile, NoBuf
<1>5. sys'[r].sweep = sys[r].sweep /\ sys'[r].buf = NoBuf
  BY <1>1, <1>2 DEF Simulations
<1> HIDE DEF new, m
<1>6. /\ \A u \in Tasks : u # t => dump'[u] = dump[u] /\ meas'[u] = meas[u]
      /\ dump'[t] = [q \in DOMAIN dump[t] \cup {k} |-> IF q = k THEN new ELSE dump[t][q]]
      /\ meas'[t] = [q \in DOMAIN meas[t] \cup {k} |-> IF q = k THEN m ELSE meas[t][q]]
  BY <1>1, <1>2 DEF WriteRun
<1>7. /\ k \in DOMAIN dump'[t] /\ k \in DOMAIN meas'[t]
      /\ dump'[t][k] = new /\ meas'[t][k] = m
  BY <1>6
<1>8. ASSUME NEW u \in Tasks, NEW q \in RunIds, <<u, q>> # <<t, k>>
      PROVE  /\ q \in DOMAIN dump'[u] <=> q \in DOMAIN dump[u]
             /\ q \in DOMAIN meas'[u] <=> q \in DOMAIN meas[u]
             /\ q \in DOMAIN dump[u] => dump'[u][q] = dump[u][q]
             /\ q \in DOMAIN meas[u] => meas'[u][q] = meas[u][q]
  BY <1>6, <1>8
<1> QED
  BY <1>3, <1>4, <1>5, <1>7, <1>8 DEF Wrote

\* What a file grows by is what its run has done since.
Grows(t, k) ==
  k \in DOMAIN dump[t] =>
    /\ k \in DOMAIN dump'[t]
    /\ SweepOf(dump'[t][k]) >= SweepOf(dump[t][k])
    /\ meas'[t][k].n >= meas[t][k].n

LEMMA WroteRight ==
  ASSUME Types, Types', DiskInv, NEW r \in Ranks, NEW t \in Tasks, NEW k \in RunIds,
         Wrote(r, t, k), Remembers(r, t, k)
  PROVE  /\ DiskInv' /\ Remembers(r, t, k)'
         /\ \A u \in Tasks, q \in RunIds : Grows(u, q)
<1> DEFINE T == Therm[ChainOf(t)] * Spgu[t]
           n == sys[r].sweep
<1>1. /\ sys[r].buf.n \in Nat /\ sys[r].sweep \in Nat
      /\ \A u \in Tasks : /\ DOMAIN dump[u] \subseteq RunIds /\ DOMAIN meas[u] \subseteq RunIds
                          /\ \A q \in DOMAIN meas[u] : meas[u][q].n \in Nat
                          /\ \A q \in DOMAIN dump[u] : SweepOf(dump[u][q]) \in Nat
  BY DEF Types, RunFiles, Simulations, Buffers, DumpFiles, SweepOf
<1>2. \A u \in Tasks : DOMAIN dump'[u] \subseteq RunIds /\ DOMAIN meas'[u] \subseteq RunIds
  BY DEF Types, RunFiles, Tasks, RunIds
<1>3. /\ meas'[t][k].n = MeasuredSweeps(n, T) /\ meas'[t][k].of \subseteq {t}
      /\ SweepOf(dump'[t][k]) = n /\ MeasuredSweeps(n, T) = InFile(t, k) + sys[r].buf.n
  <2>1. k \in DOMAIN meas[t] => meas[t][k].of \subseteq {t}
    BY DEF DiskInv, FileAgrees
  <2> QED
    BY <2>1 DEF Wrote, Remembers
<1>4. FileAgrees(t, k)'
  BY <1>3 DEF FileAgrees
<1>5. ASSUME NEW u \in Tasks, NEW q \in RunIds, q \in DOMAIN dump'[u] PROVE FileAgrees(u, q)'
  <2>1. CASE u = t /\ q = k
    BY <1>4, <2>1
  <2>2. CASE ~(u = t /\ q = k)
    <3>1. /\ q \in DOMAIN dump[u] /\ q \in DOMAIN meas[u]
          /\ dump'[u][q] = dump[u][q] /\ meas'[u][q] = meas[u][q]
      BY <1>5, <2>2 DEF Wrote, DiskInv
    <3> QED
      BY <3>1 DEF DiskInv, FileAgrees
  <2> QED
    BY <2>1, <2>2
<1>6. ASSUME NEW u \in Tasks PROVE DOMAIN meas'[u] = DOMAIN dump'[u]
  <2>1. DOMAIN meas[u] = DOMAIN dump[u]
    BY DEF DiskInv
  <2>2. ASSUME NEW q \in RunIds PROVE q \in DOMAIN meas'[u] <=> q \in DOMAIN dump'[u]
    BY <2>1, <2>2 DEF Wrote
  <2> QED
    BY <1>2, <2>2
<1>7. DiskInv'
  <2>1. \A u \in Tasks : /\ DOMAIN meas'[u] = DOMAIN dump'[u]
                         /\ \A q \in DOMAIN dump'[u] : FileAgrees(u, q)'
    BY <1>2, <1>5, <1>6
  <2> QED
    BY <2>1 DEF DiskInv, Tasks
<1>8. Remembers(r, t, k)'
  BY <1>1, <1>3 DEF Remembers, InFile, Wrote, NoBuf
<1>9. ASSUME NEW u \in Tasks, NEW q \in RunIds PROVE Grows(u, q)
  <2>1. CASE u = t /\ q = k
    <3>1. ASSUME q \in DOMAIN dump[u]
          PROVE  /\ q \in DOMAIN dump'[u] /\ SweepOf(dump'[u][q]) >= SweepOf(dump[u][q])
                 /\ meas'[u][q].n >= meas[u][q].n
      <4>1. k \in DOMAIN meas[t] /\ SweepOf(dump[t][k]) <= n /\ k \in DOMAIN dump'[t]
        BY <2>1, <3>1 DEF DiskInv, Remembers, Wrote
      <4>2. InFile(t, k) = meas[t][k].n /\ meas[t][k].n \in Nat
        BY <1>1, <4>1 DEF InFile
      <4>3. meas'[t][k].n >= meas[t][k].n
        BY <1>1, <1>3, <4>2
      <4>4. SweepOf(dump'[t][k]) >= SweepOf(dump[t][k])
        BY <1>1, <1>3, <2>1, <3>1, <4>1
      <4> QED
        BY <2>1, <4>1, <4>3, <4>4
    <3> QED
      BY <3>1 DEF Grows
  <2>2. CASE ~(u = t /\ q = k)
    BY <1>1, <2>2 DEF Grows, Wrote, DiskInv
  <2> QED
    BY <2>1, <2>2
<1> QED
  BY <1>7, <1>8, <1>9

\* What another rank has in memory does not concern the files that were written.
LEMMA WroteApart ==
  ASSUME Types, Types', DiskInv, NEW r \in Ranks, NEW t \in Tasks, NEW k \in RunIds, Wrote(r, t, k),
         NEW q \in Ranks, NEW u \in Tasks, NEW j \in RunIds, <<u, j>> # <<t, k>>,
         Remembers(q, u, j), sys'[q] = sys[q]
  PROVE  Remembers(q, u, j)'
<1>1. /\ j \in DOMAIN dump'[u] <=> j \in DOMAIN dump[u]
      /\ j \in DOMAIN meas'[u] <=> j \in DOMAIN meas[u]
      /\ j \in DOMAIN dump[u] => dump'[u][j] = dump[u][j]
      /\ j \in DOMAIN meas[u] => meas'[u][j] = meas[u][j]
  BY DEF Wrote
<1> QED
  BY <1>1 DEF Remembers, InFile

RunsGrow == \A u \in Tasks, q \in RunIds : Grows(u, q)

LEMMA FinishMem ==
  ASSUME SetInv, SetInv', MateInv, MemInv, DiskInv, NEW r \in Ranks,
         FinishFirst(r) \/ FinishReport(r) \/ FinishTimeUp(r)
  PROVE  MemInv' /\ DiskInv' /\ RunsGrow
<1>0. /\ SlaveStep(r) /\ phase = "running" /\ pc[r] = "rename" /\ RenameFiles(r)
      /\ Types /\ Types' /\ pc = [q \in Ranks |-> pc[q]]
  BY SlaveRuns DEF SlaveStep, SetInv, FinishFirst, FinishReport, FinishTimeUp, At, Types
<1>1. task' = task /\ run' = run /\ pc'[r] # "exchange"
  BY <1>0 DEF FinishFirst, FinishReport, FinishTimeUp, Goes, LoopHead
<1>2. ~\E q \in Ranks : Exchange(r, q)
  BY <1>0 DEF Exchange, At
<1>3. OnlyIts(r) /\ \A q \in Ranks : SwapsStay(q)
  BY <1>0, <1>2, OnlyItsIs, SlaveSwaps
<1>4. PICK t \in Tasks, k \in RunIds : run[r] = k /\ OfTask(r, t) /\ Remembers(r, t, k)
  <2>1. Carries(r)
    BY <1>0 DEF Carries
  <2> QED
    BY <1>0, <2>1, MemIs
<1>5. t = task[r]
  BY <1>0, <1>4 DEF OfTask
<1>6. Wrote(r, t, k)
  BY <1>0, <1>4, <1>5, RenameWrites
<1>7. DiskInv' /\ Remembers(r, t, k)' /\ RunsGrow
  BY <1>0, <1>4, <1>6, WroteRight DEF RunsGrow
<1>8. InMemory(r)'
  <2>1. OfTask(r, t)'
    BY <1>1, <1>5 DEF OfTask
  <2>2. MemOf(r, t, k)'
    BY <1>1, <1>4, <1>7, <2>1 DEF MemOf
  <2> QED
    BY <2>2 DEF InMemory, Tasks, RunIds
<1>9. ASSUME NEW q \in Ranks, q # r, Carries(q)' PROVE InMemory(q)'
  <2>1. /\ pc'[q] = pc[q] /\ task'[q] = task[q] /\ run'[q] = run[q] /\ sys'[q] = sys[q]
        /\ setRun' = setRun
    BY <1>3, <1>9 DEF OnlyIts
  <2>2. Carries(q)
    BY <1>9, <2>1, CarriedBefore
  <2>3. PICK u \in Tasks, j \in RunIds : run[q] = j /\ OfTask(q, u) /\ Remembers(q, u, j)
    BY <1>0, <2>2, MemIs
  <2>4. <<u, j>> # <<t, k>>
    BY <1>0, <1>4, <1>5, <1>9, <2>2, <2>3, WritesApart
  <2>5. Remembers(q, u, j)'
    BY <1>0, <1>6, <2>1, <2>3, <2>4, WroteApart
  <2>6. OfTask(q, u)'
    BY <1>3, <2>1, <2>3, OfTaskStays
  <2>7. MemOf(q, u, j)'
    BY <2>1, <2>3, <2>5, <2>6 DEF MemOf
  <2> QED
    BY <2>7 DEF InMemory, Tasks, RunIds
<1>10. MemInv'
  BY <1>8, <1>9 DEF MemInv, Ranks
<1> QED
  BY <1>7, <1>10

LEMMA FilesUntouched ==
  ASSUME Types, DiskInv, dump' = dump, meas' = meas
  PROVE  DiskInv' /\ RunsGrow
<1>1. ASSUME NEW u \in Tasks, NEW q \in RunIds, q \in DOMAIN dump[u]
      PROVE  SweepOf(dump[u][q]) \in Nat /\ meas[u][q].n \in Nat
  <2>1. dump[u][q] \in DumpFiles
    BY <1>1 DEF Types, RunFiles
  <2>2. meas[u][q] \in Buffers
    BY <1>1 DEF Types, RunFiles, DiskInv
  <2> QED
    BY <2>1, <2>2 DEF DumpFiles, Buffers, SweepOf
<1>2. ASSUME NEW u \in Tasks, NEW q \in RunIds PROVE Grows(u, q)
  <2>1. CASE q \in DOMAIN dump[u]
    <3>1. SweepOf(dump[u][q]) \in Nat /\ meas[u][q].n \in Nat
      BY <1>1, <2>1
    <3>2. SweepOf(dump[u][q]) >= SweepOf(dump[u][q]) /\ meas[u][q].n >= meas[u][q].n
      BY <3>1
    <3> QED
      BY <2>1, <3>2 DEF Grows
  <2> QED
    BY <2>1 DEF Grows
<1> QED
  BY <1>2, DiskKept DEF RunsGrow

LEMMA MemInvInit == Init => MemInv /\ DiskInv
<1> SUFFICES ASSUME Init PROVE MemInv /\ DiskInv
  OBVIOUS
<1>1. \A r \in Ranks : ~Carries(r)
  BY DEF Init, Carries, Updating, Sweeping, Writing
<1>2. DiskInv
  BY DEF Init, DiskInv, NoRuns
<1> QED
  BY <1>1, <1>2 DEF MemInv

\* The steps of a slave between two renames.
LEMMA SlaveMem ==
  ASSUME SetInv, MateInv, MemInv, DiskInv, NEW r \in Ranks, SlaveStep(r),
         ~(FinishFirst(r) \/ FinishReport(r) \/ FinishTimeUp(r))
  PROVE  MemInv' /\ dump' = dump /\ meas' = meas
<1>1. dump' = dump /\ meas' = meas
  BY DEF SlaveStep, Quit, AcceptNewChain, Sweeps, Respond, KeepTask, ChangeTask, Exchange,
         Negotiate, HearTimeout, WriteTemporary, TakeAction, MergeMeasurements, fileVars
<1>2. CASE \E q \in Ranks : Exchange(r, q)
  BY <1>1, <1>2, ExchangeMem
<1>3. CASE ~\E q \in Ranks : Exchange(r, q)
  BY <1>1, <1>3, PlainMem, SweepsMem, AcceptMem, TakeActionMem, ChangeTaskMem DEF SlaveStep
<1> QED
  BY <1>2, <1>3

LEMMA MemInvNext ==
  SetInv /\ SetInv' /\ MateInv /\ MemInv /\ DiskInv /\ [Next]_vars
    => MemInv' /\ DiskInv' /\ RunsGrow
<1> SUFFICES ASSUME SetInv, SetInv', MateInv, MemInv, DiskInv, [Next]_vars
             PROVE  MemInv' /\ DiskInv' /\ RunsGrow
  OBVIOUS
<1>0. Types
  BY DEF SetInv
<1>1. CASE MasterStep
  <2>1. dump' = dump /\ meas' = meas
    BY <1>1 DEF MasterStep, AssignFirst, GlobalUpdate, ReactBusy, ReactReady, ReactTimeUp, fileVars
  <2> QED
    BY <1>0, <1>1, <2>1, MasterMem, FilesUntouched
<1>2. ASSUME NEW r \in Ranks, SlaveStep(r) PROVE MemInv' /\ DiskInv' /\ RunsGrow
  <2>1. CASE FinishFirst(r) \/ FinishReport(r) \/ FinishTimeUp(r)
    BY <2>1, FinishMem
  <2>2. CASE ~(FinishFirst(r) \/ FinishReport(r) \/ FinishTimeUp(r))
    BY <1>0, <1>2, <2>2, SlaveMem, FilesUntouched
  <2> QED
    BY <2>1, <2>2
<1>3. ASSUME NEW g \in Sets, Barrier(g) PROVE MemInv' /\ DiskInv' /\ RunsGrow
  <2>1. dump' = dump /\ meas' = meas
    BY <1>3 DEF Barrier, fileVars
  <2> QED
    BY <1>0, <1>3, <2>1, BarrierMem, FilesUntouched
<1>4. CASE Relaunch
  <2>1. dump' = dump /\ meas' = meas /\ pc' = [r \in Ranks |-> "accept"]
    BY <1>4 DEF Relaunch, Start, fileVars
  <2>2. \A r \in Ranks : ~Carries(r)'
    BY <2>1 DEF Carries, Updating, Sweeping, Writing
  <2> QED
    BY <1>0, <2>1, <2>2, FilesUntouched DEF MemInv, Ranks
<1>5. CASE Finalize \/ Crash \/ Refuse
  <2>1. dump' = dump /\ meas' = meas /\ phase' # "running"
    BY <1>5 DEF Finalize, Crash, Refuse, fileVars
  <2> QED
    BY <1>0, <2>1, FilesUntouched DEF MemInv
<1>6. CASE MasterCheckpoint \/ Stopped \/ UNCHANGED vars
  <2>1. /\ dump' = dump /\ meas' = meas /\ phase' = phase /\ UNCHANGED slaveVars
        /\ setRun' = setRun /\ toSlave' = toSlave
    BY <1>6 DEF MasterCheckpoint, Stopped, vars, launchVars, masterVars, netVars, fileVars
  <2>2. ASSUME phase = "running", NEW r \in Ranks, Carries(r)' PROVE InMemory(r)'
    <3>1. Carries(r)
      BY <2>1, <2>2, CarriedBefore DEF slaveVars
    <3>2. \A q \in Ranks : SwapsStay(q)
      BY <2>1, StayIs DEF slaveVars
    <3> QED
      BY <2>1, <2>2, <3>1, <3>2, IdleKept DEF slaveVars
  <2>3. MemInv'
    BY <2>1, <2>2 DEF MemInv, Ranks
  <2> QED
    BY <1>0, <2>1, <2>3, FilesUntouched
<1> QED
  BY <1>1, <1>2, <1>3, <1>4, <1>5, <1>6 DEF Next

MemoryInv == MateInv /\ MemInv /\ DiskInv

LEMMA MemoryHolds == Together => (Spec => []MemoryInv)
<1>1. ASSUME Together PROVE Spec => []MemoryInv
  <2>1. Spec => []SetInv
    BY <1>1, SetsInStep
  <2>2. Init => MemoryInv
    BY MateInvInit, MemInvInit DEF MemoryInv
  <2>3. SetInv /\ SetInv' /\ MemoryInv /\ [Next]_vars => MemoryInv'
    BY MateInvNext, MemInvNext DEF MemoryInv
  <2> QED
    BY <2>1, <2>2, <2>3, PTL DEF Spec
<1> QED
  BY <1>1

\* The files of a run agree with each other and hold nothing measured at the
\* parameters of another task, whichever ranks wrote them and however often they
\* changed tasks with measurements in memory.
THEOREM FilesAlwaysAgree == Together => (Spec => []FilesAgree)
<1>1. MemoryInv => FilesAgree
  BY DEF MemoryInv, DiskInv, FileAgrees, FilesAgree
<1> QED
  BY <1>1, MemoryHolds, PTL

\* No checkpoint takes a run back, in its dump or in its measurements: a rank
\* has always gone on from what is in the files of the task it has by then.
THEOREM RunsOnlyGrow == Together => (Spec => NoRollback)
<1>1. ASSUME Together PROVE Spec => NoRollback
  <2>1. Spec => []SetInv
    BY <1>1, SetsInStep
  <2>2. Spec => []MemoryInv
    BY <1>1, MemoryHolds
  <2> DEFINE Up == \A t \in Tasks : \A k \in DOMAIN dump[t] :
                     /\ k \in DOMAIN dump'[t]
                     /\ SweepOf(dump'[t][k]) >= SweepOf(dump[t][k])
                     /\ meas'[t][k].n >= meas[t][k].n
  <2>3. SetInv /\ SetInv' /\ MemoryInv /\ [Next]_vars => Up
    <3> SUFFICES ASSUME SetInv, SetInv', MemoryInv, [Next]_vars PROVE Up
      OBVIOUS
    <3>1. RunsGrow
      BY MemInvNext DEF MemoryInv
    <3>2. \A t \in Tasks : DOMAIN dump[t] \subseteq RunIds
      BY DEF SetInv, Types, RunFiles
    <3> QED
      BY <3>1, <3>2 DEF RunsGrow, Grows
  <2> QED
    BY <2>1, <2>2, <2>3, PTL DEF Spec, NoRollback
<1> QED
  BY <1>1
=============================================================================
