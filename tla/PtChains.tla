------------------------------ MODULE PtChains ------------------------------
(***************************************************************************)
(* construct_pt_chains of runner_pt_master (src/src/runner_pt.cpp): the    *)
(* master goes through the tasks of the job in order, puts each at the     *)
(* place in the chains that its pt_chain entry names, and refuses a job    *)
(* whose chains cannot be run.  Refusing is an exception; which of the     *)
(* error texts it carries is not followed.                                 *)
(***************************************************************************)
EXTENDS Integers, Sequences, FiniteSets

CONSTANTS
  NTasks,     \* bound: tasks in a job
  ChainIds,   \* the chain ids and ...
  Positions,  \* ... positions a jobfile may give, sensible or not
  Settings,   \* what must be the same within a chain: records of the values
              \* of "sweeps", "thermalization" and the progress of the dumps
  MaxRanks    \* bound: ranks of the launch

ASSUME ChainsAssumption ==
  /\ NTasks \in Nat /\ MaxRanks \in Nat \ {0}
  /\ ChainIds \subseteq Int /\ Positions \subseteq Int
  /\ Settings \subseteq [target : Nat, therm : Nat, progress : Nat]

VARIABLES
  ranks,    \* num_active_ranks_, all ranks of the launch
  job,      \* the entries of the tasks gone through so far
  chains,   \* pt_chains_; chain c is chains[c + 1]
  verdict   \* "reading", "accepted" or "refused"

vars == <<ranks, job, chains, verdict>>

Nobody == -1      \* a position of task_ids without a task
Unset  == [target |-> -1, therm |-> -1, progress |-> -1]

\* A pt_chain as it is created; its id is 0, not -1 (runner_pt.h:9).
NewChain == [id |-> 0, taskIds |-> << >>, set |-> Unset]

Larger(a, b) == IF a >= b THEN a ELSE b

\* std::vector::resize, which here never shrinks: s with filler up to n.
ResizedTo(s, n, filler) ==
  [i \in 1 .. Larger(n, Len(s)) |-> IF i <= Len(s) THEN s[i] ELSE filler]

Entries == [chain : ChainIds, pos : Positions, set : Settings]

Init ==
  /\ ranks \in 1 .. MaxRanks
  /\ job = << >> /\ chains = << >> /\ verdict = "reading"

\* The chains with room for entry e.
Extended(e) ==
  LET cs == ResizedTo(chains, e.chain + 1, NewChain)
  IN  [cs EXCEPT ![e.chain + 1].id = e.chain,
                 ![e.chain + 1].taskIds = ResizedTo(@, e.pos + 1, Nobody)]

\* Faulty variants of the next definitions.
DisagreesWithTherm(set, new) ==
  \/ set.target >= 0 /\ new.target # set.target
  \/ set.therm >= 0 /\ new.therm # set.therm
TakenUnlessFirst(c, p) == c.taskIds[p + 1] > 0

\* A value was set by an earlier task of the chain and is another one now.
Disagrees(set, new) ==
  \E k \in DOMAIN set : set[k] >= 0 /\ new[k] # set[k]

Taken(c, p) == c.taskIds[p + 1] # Nobody

\* One turn of the loop over the tasks throws on entry e.
Throws(e) ==
  IF e.chain < 0 \/ e.pos < 0 THEN TRUE
  ELSE LET c == Extended(e)[e.chain + 1]
       IN  Taken(c, e.pos) \/ Disagrees(c.set, e.set)

\* One turn of the loop over the tasks, for the next task of the jobfile.
ReadTask(e) ==
  /\ verdict = "reading" /\ Len(job) < NTasks
  /\ job' = Append(job, e)
  /\ \/ /\ Throws(e)
        /\ verdict' = "refused"
        /\ UNCHANGED chains
     \/ /\ ~Throws(e)
        /\ chains' = [Extended(e) EXCEPT
             ![e.chain + 1].taskIds[e.pos + 1] = Len(job),
             ![e.chain + 1].set = e.set]
        /\ UNCHANGED verdict
  /\ UNCHANGED ranks

ChainLen(c) == Len(c.taskIds)

\* The loop over the chains and what follows it.  The vector of rejection rates
\* has one element less than the chain, so an empty chain throws too.
ChainsFit ==
  /\ chains # << >>
  /\ \A i \in DOMAIN chains : /\ chains[i].id # -1
                              /\ ChainLen(chains[i]) = ChainLen(chains[1])
                              /\ ChainLen(chains[i]) > 0
  /\ (ranks - 1) % ChainLen(chains[1]) = 0

Conclude ==
  /\ verdict = "reading"
  /\ verdict' = IF ChainsFit THEN "accepted" ELSE "refused"
  /\ UNCHANGED <<ranks, job, chains>>

\* The scheduler goes on, or the program has ended.
Decided == verdict # "reading" /\ UNCHANGED vars

Next ==
  \/ \E e \in Entries : ReadTask(e)
  \/ Conclude
  \/ Decided

Spec == Init /\ [][Next]_vars

-----------------------------------------------------------------------------
(* Properties, stated on the jobfile.                                      *)

Tasks == DOMAIN job
UsedChains == {job[i].chain : i \in Tasks}
Members(c) == {i \in Tasks : job[i].chain = c}
UsedPositions(c) == {job[i].pos : i \in Members(c)}

\* No position below a used one is left out.
GapFree == \A c \in UsedChains : \A p \in UsedPositions(c) :
             0 .. p \subseteq UsedPositions(c)

\* Chain ids and positions count from 0 without gaps, every place is given
\* once, all chains are equally long and have one setting each, and the ranks
\* besides the master make whole sets.
Sound ==
  /\ \E k \in 1 .. Len(job) : UsedChains = 0 .. k - 1
  /\ \E len \in 1 .. Len(job) :
       /\ \A c \in UsedChains : /\ UsedPositions(c) = 0 .. len - 1
                                /\ Cardinality(Members(c)) = len
       /\ (ranks - 1) % len = 0
  /\ \A i, j \in Tasks : job[i].chain = job[j].chain => job[i].set = job[j].set

\* What is accepted can be dealt out: each task of the job is at the place its
\* entry names, its chain has its setting, and all chains have places for the
\* same number of ranks.
PlacesRight ==
  /\ \A i \in Tasks :
       LET c == chains[job[i].chain + 1]
       IN  c.taskIds[job[i].pos + 1] = i - 1 /\ c.set = job[i].set
  /\ \A i, j \in DOMAIN chains : ChainLen(chains[i]) = ChainLen(chains[j])

\* Whatever the order of the tasks, a job is accepted exactly if it is sound,
\* gaps in the positions aside, and then every task is where it belongs
\* (runner_pt.cpp:163-249): no fault is hidden by the places that resizing the
\* vectors makes, nothing sound is refused, and no place is given twice.
DecidesRight ==
  /\ verdict # "reading" /\ GapFree => (verdict = "accepted" <=> Sound)
  /\ verdict = "accepted" => PlacesRight
=============================================================================
