------------------------- MODULE RunnerPtSetProofs --------------------------
(***************************************************************************)
(* The parallel tempering scheduler, for any number of sets, chains, chain *)
(* lengths, global updates, kills and launches.                            *)
(*                                                                         *)
(* First the exchange of positions: react() and pt_global_update agree     *)
(* about the pairs, positions stay a permutation, and exchange partners    *)
(* name each other.                                                        *)
(*                                                                         *)
(* Then the protocol of a rank set. All messages have one tag and the      *)
(* set's collectives one communicator, so what a rank does and what is on  *)
(* its way to it can only be understood together with the other ranks of   *)
(* its set: since the last barrier they all walk along the same path, each *)
(* at its own pace, and the master is ahead of them. The path is a record; *)
(* that there is always one is the inductive invariant.                    *)
(***************************************************************************)
EXTENDS RunnerPt, SharedProofs, FiniteSetTheorems, TLAPS

-----------------------------------------------------------------------------
(* One exchange of positions.                                              *)

\* The parities that the sign in react() and the loop in pt_global_update use.
LEMMA Parity ==
  ASSUME NEW p \in Int
  PROVE  /\ p % 2 \in {0, 1}
         /\ (p + 1) % 2 = 1 - (p % 2)
         /\ (p - 1) % 2 = 1 - (p % 2)
OBVIOUS

\* The two sides of the sign: a position that has the parity of swap_odd is
\* compared with the next one, any other with the one before.
LEMMA PartnerPosIs ==
  ASSUME NEW p \in Int, NEW isOdd \in BOOLEAN
  PROVE  PartnerPos(p, isOdd) = IF p % 2 = Bit(isOdd) THEN p + 1 ELSE p - 1
<1>1. p % 2 \in {0, 1}
  BY Parity
<1>2. CASE isOdd
  BY <1>1, <1>2 DEF PartnerPos, Bit
<1>3. CASE ~isOdd
  BY <1>1, <1>3 DEF PartnerPos, Bit
<1> QED
  BY <1>2, <1>3

\* react() and pt_global_update agree (runner_pt.cpp:509): a rank is asked for
\* a weight exactly if its position is in one of the pairs the update tries.
THEOREM AskedIffTried ==
  ASSUME NEW len \in Nat, NEW isOdd \in BOOLEAN, NEW p \in Places(len)
  PROVE  ~Skips(p, isOdd, len) <=> \/ p \in TriedPairs(isOdd, len)
                                 \/ p - 1 \in TriedPairs(isOdd, len)
<1>1. p \in Int /\ p >= 0 /\ p < len
  BY DEF Places
<1>2. Bit(isOdd) \in {0, 1}
  BY DEF Bit
<1>3. CASE p % 2 = Bit(isOdd)
  <2>1. PartnerPos(p, isOdd) = p + 1
    BY <1>1, <1>3, PartnerPosIs
  <2>2. (p - 1) % 2 # Bit(isOdd)
    BY <1>1, <1>2, <1>3, Parity
  <2> QED
    BY <1>1, <1>3, <2>1, <2>2 DEF Skips, TriedPairs, Places
<1>4. CASE p % 2 # Bit(isOdd)
  <2>1. PartnerPos(p, isOdd) = p - 1
    BY <1>1, <1>4, PartnerPosIs
  <2>2. (p - 1) % 2 = Bit(isOdd)
    BY <1>1, <1>2, <1>4, Parity
  <2> QED
    BY <1>1, <1>4, <2>1, <2>2 DEF Skips, TriedPairs, Places
<1> QED
  BY <1>3, <1>4

\* Two pairs of one update do not overlap.
LEMMA PairsApart ==
  ASSUME NEW len \in Nat, NEW isOdd \in BOOLEAN,
         NEW i \in TriedPairs(isOdd, len)
  PROVE  /\ i \in Int /\ i >= 0 /\ i + 1 < len
         /\ i + 1 \notin TriedPairs(isOdd, len)
         /\ i - 1 \notin TriedPairs(isOdd, len)
<1>1. i \in Int /\ i >= 0 /\ i + 1 < len /\ i % 2 = Bit(isOdd)
  BY DEF TriedPairs
<1>2. (i + 1) % 2 # Bit(isOdd) /\ (i - 1) % 2 # Bit(isOdd)
  BY <1>1, Parity
<1> QED
  BY <1>1, <1>2 DEF TriedPairs

\* Where a position goes when the pairs in accepted change places.
To(accepted, p) ==
  IF p \in accepted THEN p + 1 ELSE IF p - 1 \in accepted THEN p - 1 ELSE p

\* Changing places twice leads back.
LEMMA ToIsInvolution ==
  ASSUME NEW len \in Nat, NEW isOdd \in BOOLEAN,
         NEW accepted \in SUBSET TriedPairs(isOdd, len),
         NEW p \in Places(len)
  PROVE  /\ To(accepted, p) \in Places(len)
         /\ To(accepted, To(accepted, p)) = p
<1>1. p \in Int /\ p >= 0 /\ p < len
  BY DEF Places
<1>2. CASE p \in accepted
  <2>1. p + 1 < len /\ p + 1 \notin accepted
    BY <1>2, PairsApart
  <2> QED
    BY <1>1, <1>2, <2>1 DEF To, Places
<1>3. CASE p \notin accepted /\ p - 1 \in accepted
  <2>1. p - 1 >= 0
    BY <1>3, PairsApart
  <2> QED
    BY <1>1, <1>3, <2>1 DEF To, Places
<1>4. CASE p \notin accepted /\ p - 1 \notin accepted
  BY <1>1, <1>4 DEF To, Places
<1> QED
  BY <1>2, <1>3, <1>4

LEMMA MovedIs ==
  ASSUME NEW len \in Nat, NEW at \in [Places(len) -> Places(len)], NEW accepted
  PROVE  Moved(at, accepted) = [r \in Places(len) |-> To(accepted, at[r])]
BY DEF Moved, To

\* Whichever pairs of a global update are accepted, afterwards there is again
\* exactly one rank at every position (runner_pt.cpp:568-583).
THEOREM MovedPermutes ==
  ASSUME NEW len \in Nat, NEW isOdd \in BOOLEAN,
         NEW accepted \in SUBSET TriedPairs(isOdd, len),
         NEW at, Permutation(at, len)
  PROVE  Permutation(Moved(at, accepted), len)
<1> DEFINE to(p) == To(accepted, p)
           new == Moved(at, accepted)
<1>1. at \in [Places(len) -> Places(len)]
  BY DEF Permutation
<1>2. new = [r \in Places(len) |-> to(at[r])]
  BY <1>1, MovedIs
<1>3. \A p \in Places(len) : to(p) \in Places(len) /\ to(to(p)) = p
  BY ToIsInvolution
<1> HIDE DEF to, new
<1>4. new \in [Places(len) -> Places(len)]
  BY <1>1, <1>2, <1>3
<1>5. ASSUME NEW r \in Places(len), NEW q \in Places(len), r # q
      PROVE  new[r] # new[q]
  <2>1. at[r] # at[q]
    BY <1>5 DEF Permutation
  <2> QED
    BY <1>1, <1>2, <1>3, <2>1
<1>6. ASSUME NEW p \in Places(len)
      PROVE  \E r \in Places(len) : new[r] = p
  <2>1. PICK r \in Places(len) : at[r] = to(p)
    BY <1>3 DEF Permutation
  <2> QED
    BY <1>2, <1>3, <2>1
<1>7. Permutation(new, len)
  BY <1>4, <1>5, <1>6 DEF Permutation
<1> QED
  BY <1>7 DEF new

\* Exchange partners name each other, so that the exchange of measurements
\* that each of them starts with the other meets (runner_pt.cpp:584-585).
THEOREM PartnersAgree ==
  ASSUME NEW len \in Nat, NEW isOdd \in BOOLEAN,
         NEW accepted \in SUBSET TriedPairs(isOdd, len),
         NEW at, Permutation(at, len), NEW r \in Places(len)
  PROVE  LET with == SwitchPartners(at, accepted)
         IN  /\ with[r] \in Places(len)
             /\ at[with[r]] = Moved(at, accepted)[r]
             /\ with[with[r]] = r
<1> DEFINE to(p) == To(accepted, p)
           with == SwitchPartners(at, accepted)
<1>1. at \in [Places(len) -> Places(len)]
  BY DEF Permutation
<1>2. Moved(at, accepted) = [q \in Places(len) |-> to(at[q])]
  BY <1>1, MovedIs
<1>3. \A p \in Places(len) : to(p) \in Places(len) /\ to(to(p)) = p
  BY ToIsInvolution
<1>4. \A q \in Places(len) : with[q] \in Places(len) /\ at[with[q]] = to(at[q])
  <2>1. TAKE q \in Places(len)
  <2>2. DOMAIN at = Places(len)
    BY <1>1
  <2>3. \E s \in DOMAIN at : at[s] = Moved(at, accepted)[q]
    BY <1>1, <1>2, <1>3 DEF Permutation
  <2>4. with[q] = CHOOSE s \in DOMAIN at : at[s] = Moved(at, accepted)[q]
    BY <2>2 DEF SwitchPartners
  <2>5. with[q] \in DOMAIN at /\ at[with[q]] = Moved(at, accepted)[q]
    BY <2>3, <2>4
  <2> QED
    BY <1>2, <2>2, <2>5
<1> HIDE DEF to, with
<1>5. with[r] \in Places(len) /\ at[with[r]] = to(at[r])
  BY <1>4
<1>6. with[with[r]] \in Places(len) /\ at[with[with[r]]] = at[r]
  <2>1. with[with[r]] \in Places(len) /\ at[with[with[r]]] = to(at[with[r]])
    BY <1>4, <1>5
  <2> QED
    BY <1>1, <1>3, <1>5, <2>1
<1>7. with[with[r]] = r
  BY <1>6 DEF Permutation
<1>8. at[with[r]] = Moved(at, accepted)[r]
  BY <1>2, <1>5
<1> QED
  BY <1>5, <1>7, <1>8 DEF with

-----------------------------------------------------------------------------
(* The positions of the ranks in their chains.                             *)

\* What swap_odd of the chain runs may be, in memory and in pt_master.dump.h5.
Odds == [Chains -> [RunIds -> BOOLEAN]]

\* What rank_to_pos of the chain runs may be.
PosTables ==
  {f \in [Chains -> [RunIds -> [Members -> Members]]] :
     \A c \in Chains, k \in RunIds : Permutation(f[c][k], ChainLen)}

\* The inductive invariant.  That the dump is well-formed is needed because a
\* restart takes swap_odd from it and rank_to_pos not.
PosInv ==
  /\ pos \in PosTables
  /\ odd \in Odds
  /\ mdump \in [state : {"none", "good", "torn"}, odd : Odds]

LEMMA ChainLenNat == ChainLen \in Nat
BY ShapeAssumption

LEMMA IdentityPermutes == Permutation(Identity, ChainLen)
BY ChainLenNat DEF Permutation, Identity, Members, Places

LEMMA PositionsReadPermute == PositionsRead \in PosTables
<1>1. Identity \in [Members -> Members]
  BY DEF Identity
<1> QED
  BY <1>1, IdentityPermutes DEF PositionsRead, PosTables

LEMMA PosInvInit == Init => PosInv
<1> SUFFICES ASSUME Init PROVE PosInv
  OBVIOUS
<1>1. pos = PositionsRead
  BY DEF Init, PositionsRead
<1>2. odd \in Odds
  BY DEF Init, Odds
<1>3. mdump = [state |-> "none", odd |-> odd]
  BY DEF Init
<1> QED
  BY <1>1, <1>2, <1>3, PositionsReadPermute DEF PosInv

\* Writing one entry of a table, or none if there is no such entry, keeps it
\* a table of permutations.
LEMMA PosTableUpdate ==
  ASSUME NEW f \in PosTables, NEW c, NEW k, NEW to,
         c \in Chains /\ k \in RunIds => Permutation(to, ChainLen)
  PROVE  [f EXCEPT ![c][k] = to] \in PosTables
<1> DEFINE g == [f EXCEPT ![c][k] = to]
<1>1. f \in [Chains -> [RunIds -> [Members -> Members]]]
  BY DEF PosTables
<1>2. c \in Chains /\ k \in RunIds => to \in [Members -> Members]
  BY DEF Permutation, Members
<1>3. ASSUME NEW d \in Chains, NEW l \in RunIds
      PROVE  g[d][l] = IF d = c /\ l = k THEN to ELSE f[d][l]
  BY <1>1
<1>4. g \in [Chains -> [RunIds -> [Members -> Members]]]
  <2>1. ASSUME NEW d \in Chains
        PROVE  g[d] \in [RunIds -> [Members -> Members]]
    <3>1. CASE d = c
      <4>1. g[d] = [f[c] EXCEPT ![k] = to]
        BY <1>1, <2>1, <3>1
      <4>2. f[c] \in [RunIds -> [Members -> Members]]
        BY <1>1, <2>1, <3>1
      <4> QED
        BY <1>2, <2>1, <3>1, <4>1, <4>2
    <3>2. CASE d # c
      <4>1. g[d] = f[d]
        BY <1>1, <2>1, <3>2
      <4> QED
        BY <1>1, <2>1, <4>1
    <3> QED
      BY <3>1, <3>2
  <2>2. g = [d \in Chains |-> g[d]]
    BY <1>1
  <2> QED
    BY <2>1, <2>2
<1>5. ASSUME NEW d \in Chains, NEW l \in RunIds
      PROVE  Permutation(g[d][l], ChainLen)
  <2>1. Permutation(f[d][l], ChainLen)
    BY <1>5 DEF PosTables
  <2> QED
    BY <1>3, <1>5, <2>1
<1> QED
  BY <1>4, <1>5 DEF PosTables

\* A global update moves the ranks of one chain run.
LEMMA GlobalUpdateKeeps ==
  ASSUME PosInv, NEW g \in Sets, GlobalUpdate(g)
  PROVE  PosInv'
<1> DEFINE c == setRun[g][1]
           k == setRun[g][2]
<1>1. PICK accepted \in SUBSET TriedPairs(odd[c][k], ChainLen) :
        pos' = [pos EXCEPT ![c][k] = Moved(pos[c][k], accepted)]
  BY DEF GlobalUpdate
<1>2. c \in Chains /\ k \in RunIds =>
        Permutation(Moved(pos[c][k], accepted), ChainLen)
  <2> SUFFICES ASSUME c \in Chains, k \in RunIds
               PROVE  Permutation(Moved(pos[c][k], accepted), ChainLen)
    OBVIOUS
  <2> HIDE DEF c, k
  <2>1. odd[c][k] \in BOOLEAN
    BY DEF PosInv, Odds
  <2>2. Permutation(pos[c][k], ChainLen)
    BY DEF PosInv, PosTables
  <2> QED
    BY <2>1, <2>2, ChainLenNat, MovedPermutes
<1>3. pos' \in PosTables
  <2> HIDE DEF c, k
  <2> QED
    BY <1>1, <1>2, PosTableUpdate DEF PosInv
<1>4. odd' = [odd EXCEPT ![c][k] = ~@]
  BY DEF GlobalUpdate
<1>5. odd' \in Odds
  <2> HIDE DEF c, k
  <2>1. odd \in [Chains -> [RunIds -> BOOLEAN]]
    BY DEF PosInv, Odds
  <2>2. ASSUME NEW d \in Chains PROVE odd'[d] \in [RunIds -> BOOLEAN]
    <3>1. odd[d] \in [RunIds -> BOOLEAN]
      BY <2>1
    <3>2. odd'[d] = IF d = c THEN [odd[d] EXCEPT ![k] = ~odd[d][k]] ELSE odd[d]
      BY <1>4, <2>1
    <3> QED
      BY <3>1, <3>2
  <2>3. odd' = [d \in Chains |-> odd'[d]]
    BY <1>4, <2>1
  <2> QED
    BY <2>2, <2>3 DEF Odds
<1>6. mdump' = mdump
  BY DEF GlobalUpdate, fileVars
<1> QED
  BY <1>3, <1>5, <1>6 DEF PosInv

\* A restart goes on with the swap_odd of the dump and starts at the identity.
LEMMA RelaunchKeeps ==
  ASSUME PosInv, Relaunch
  PROVE  PosInv'
<1>1. pos' = PositionsRead
  BY DEF Relaunch, Start
<1>2. odd' = mdump.odd /\ mdump' = mdump
  BY DEF Relaunch, fileVars
<1>3. odd' \in Odds /\ mdump' \in [state : {"none", "good", "torn"}, odd : Odds]
  BY <1>2 DEF PosInv
<1> QED
  BY <1>1, <1>3, PositionsReadPermute DEF PosInv

\* The master's dump takes swap_odd as it is.
LEMMA DumpKeeps ==
  ASSUME PosInv, pos' = pos, odd' = odd,
         \/ mdump' = mdump
         \/ mdump' = Saved
         \/ mdump' = [mdump EXCEPT !.state = "torn"]
  PROVE  PosInv'
<1>1. mdump' \in [state : {"none", "good", "torn"}, odd : Odds]
  BY DEF PosInv, Saved
<1> QED
  BY <1>1 DEF PosInv

\* A step of a slave leaves the master and its dump alone.
LEMMA SlaveLeaves ==
  ASSUME NEW r \in Ranks, SlaveStep(r)
  PROVE  pos' = pos /\ odd' = odd /\ mdump' = mdump
<1>1. CASE Quit(r)
  BY <1>1 DEF Quit, masterVars, fileVars
<1>2. CASE AcceptNewChain(r)
  BY <1>2 DEF AcceptNewChain, masterVars, fileVars
<1>3. CASE Sweeps(r)
  BY <1>3 DEF Sweeps, masterVars, fileVars
<1>4. CASE Respond(r)
  BY <1>4 DEF Respond, masterVars, fileVars
<1>5. CASE KeepTask(r)
  BY <1>5 DEF KeepTask, masterVars, fileVars
<1>6. CASE ChangeTask(r)
  BY <1>6 DEF ChangeTask, masterVars, fileVars
<1>7. CASE \E q \in Ranks : Exchange(r, q)
  BY <1>7 DEF Exchange, masterVars, fileVars
<1>8. CASE Negotiate(r)
  BY <1>8 DEF Negotiate, masterVars, fileVars
<1>9. CASE HearTimeout(r)
  BY <1>9 DEF HearTimeout, masterVars, fileVars
<1>10. CASE WriteTemporary(r)
  BY <1>10 DEF WriteTemporary, masterVars, fileVars
<1>11. CASE FinishFirst(r)
  BY <1>11 DEF FinishFirst, masterVars
<1>12. CASE FinishReport(r)
  BY <1>12 DEF FinishReport, masterVars
<1>13. CASE FinishTimeUp(r)
  BY <1>13 DEF FinishTimeUp, masterVars
<1>14. CASE TakeAction(r)
  BY <1>14 DEF TakeAction, masterVars, fileVars
<1>15. CASE MergeMeasurements(r)
  BY <1>15 DEF MergeMeasurements, masterVars
<1> QED
  BY <1>1, <1>2, <1>3, <1>4, <1>5, <1>6, <1>7, <1>8, <1>9, <1>10, <1>11,
     <1>12, <1>13, <1>14, <1>15 DEF SlaveStep

LEMMA PosInvNext == PosInv /\ [Next]_vars => PosInv'
<1> SUFFICES ASSUME PosInv, [Next]_vars PROVE PosInv'
  OBVIOUS
<1>1. ASSUME NEW g \in Sets, AssignFirst(g) PROVE PosInv'
  BY <1>1, DumpKeeps DEF AssignFirst, fileVars
<1>2. ASSUME NEW g \in Sets, GlobalUpdate(g) PROVE PosInv'
  BY <1>2, GlobalUpdateKeeps
<1>3. ASSUME NEW r \in Ranks, ReactBusy(r) PROVE PosInv'
  <2>1. pos' = pos /\ odd' = odd
    BY <1>3 DEF ReactBusy
  <2>2. mdump' = mdump \/ mdump' = Saved
    BY <1>3 DEF ReactBusy
  <2> QED
    BY <2>1, <2>2, DumpKeeps
<1>4. ASSUME NEW r \in Ranks, ReactReady(r) PROVE PosInv'
  BY <1>4, DumpKeeps DEF ReactReady, fileVars
<1>5. ASSUME NEW r \in Ranks, ReactTimeUp(r) PROVE PosInv'
  BY <1>5, DumpKeeps DEF ReactTimeUp, fileVars
<1>6. CASE MasterCheckpoint
  BY <1>6, DumpKeeps DEF MasterCheckpoint, masterVars
<1>7. CASE Finalize
  BY <1>7, DumpKeeps DEF Finalize, masterVars
<1>8. ASSUME NEW r \in Ranks, SlaveStep(r) PROVE PosInv'
  BY <1>8, SlaveLeaves, DumpKeeps
<1>9. ASSUME NEW g \in Sets, Barrier(g) PROVE PosInv'
  BY <1>9, DumpKeeps DEF Barrier, masterVars, fileVars
<1>10. CASE Crash
  BY <1>10, DumpKeeps DEF Crash, masterVars
<1>11. CASE Relaunch
  BY <1>11, RelaunchKeeps
<1>12. CASE Refuse
  BY <1>12, DumpKeeps DEF Refuse, masterVars, fileVars
<1>13. CASE UNCHANGED vars
  BY <1>13, DumpKeeps DEF vars, masterVars, fileVars
<1>14. CASE Stopped
  BY <1>13, <1>14 DEF Stopped
<1> QED
  BY <1>1, <1>2, <1>3, <1>4, <1>5, <1>6, <1>7, <1>8, <1>9, <1>10, <1>11,
     <1>12, <1>13, <1>14 DEF Next, MasterStep

LEMMA PosInvSuffices == PosInv => WeightsForPairs
<1> SUFFICES ASSUME PosInv, NEW c \in Chains, NEW k \in RunIds
             PROVE  /\ Permutation(pos[c][k], ChainLen)
                    /\ \A i \in Members :
                         ~Skips(pos[c][k][i], odd[c][k], ChainLen) <=>
                           \/ pos[c][k][i] \in TriedPairs(odd[c][k], ChainLen)
                           \/ pos[c][k][i] - 1 \in TriedPairs(odd[c][k], ChainLen)
  BY DEF WeightsForPairs
<1>1. odd[c][k] \in BOOLEAN
  BY DEF PosInv, Odds
<1>2. Permutation(pos[c][k], ChainLen)
  BY DEF PosInv, PosTables
<1>3. \A i \in Members : pos[c][k][i] \in Places(ChainLen)
  BY <1>2 DEF Permutation, Members
<1> QED
  BY <1>1, <1>2, <1>3, ChainLenNat, AskedIffTried

\* In every chain run there is one rank at each position, after any history of
\* global updates, kills and restarts, and the two places of the master that
\* work out who has a partner agree (runner_pt.cpp:509, 560, 568-583).
THEOREM WeightsAlwaysForPairs == Spec => []WeightsForPairs
<1>1. Spec => []PosInv
  BY PosInvInit, PosInvNext, PTL DEF Spec
<1> QED
  BY <1>1, PosInvSuffices, PTL

\* The conditions under which the ranks of a set stay together: the tasks of a
\* chain agree on pt_sweeps_per_global_update, and no kill comes between the
\* renames of the ranks of a set.  Without the second, a new launch can find a
\* dump for one rank of a set and none for another.
Together ==
  /\ \A t, u \in Tasks : ChainOf(t) = ChainOf(u) => Spgu[t] = Spgu[u]
  /\ "rename" \notin CrashWindows

-----------------------------------------------------------------------------
(* Where the ranks of a set can be.                                        *)

Updating  == {"swap", "exchange", "negotiate"}
Sweeping  == {"sweep", "response", "update_barrier"}
Writing   == {"write", "write_barrier"}
Reporting == {"rename", "action", "merge", "accept"}

Flag == {"none", "sent"}
DumpFiles == [therm : Nat, sweeps : Nat]

\* What the ranks of a set go through from one barrier to the next: after which
\* barrier it was (kind), what the master has sent since, and where it leads.
Paths ==
  [ kind  : {"start", "fresh", "report", "timeup", "update"},
    act   : {"none", "continue", "new_job", "process"},    \* the action sent
    job   : {"none", "job", "quit"},                       \* the job sent
    first : Flag,      \* the tasks after the update before the barrier
    resp  : Flag,      \* who is to answer with a weight
    swap  : Flag,      \* the tasks after the update of that response
    dec   : {"none", "continue", "checkpoint", "timeup"},  \* negotiate_timeout
    way   : {"none", "sweep", "write", "exit"},  \* where it leads, once decided
    own   : Int \X Int,               \* chain and run before the job
    was   : [Members -> Members],     \* positions before the job or first
    held  : [Members -> Members],     \* positions after it
    old   : SUBSET DumpFiles,         \* the dump to be replaced
    u     : Nat,       \* sweep counter of the simulation before the job
    w     : Nat,       \* sweep counter after it
    s     : Nat,       \* sweeps_since_last_query_ at the barrier
    b     : Nat \ {0}  \* sweeps_before_communication_
  ]

FirstPlaces(x) ==
  IF x.kind = "start" THEN {"accept"}
  ELSE IF x.kind = "report" THEN Reporting
  ELSE IF x.kind = "update" THEN Updating
  ELSE {"rename"}

LastPlaces(x) ==
  IF x.way = "sweep" THEN Sweeping
  ELSE IF x.way = "write" THEN Writing
  ELSE IF x.way = "exit" THEN IF x.kind = "timeup" THEN {"left"} ELSE {"exited"}
  ELSE {}

\* How the parts of a path fit together.
Path(x) ==
  /\ x.swap = "sent" => x.resp = "sent"
  /\ x.resp = "sent" => x.way = "sweep"
  /\ x.first = "sent" => x.kind = "update"
  /\ x.act # "none" => x.kind = "report"
  /\ x.dec # "none" => x.kind = "update" /\ x.first = "sent"
  /\ x.job # "none" => x.kind = "start" \/ x.act \in {"new_job", "process"}
  /\ x.act \in {"new_job", "process"} => x.job # "none"
  /\ x.job = "job" => x.way \in {"sweep", "write"} /\ x.held = Identity
  /\ x.job = "quit" => x.way = "exit"
  /\ x.kind = "start" /\ x.job = "none" => x.way = "none"
  /\ x.kind = "fresh" => x.way = "sweep"
  /\ x.kind = "timeup" => x.way = "exit"
  /\ x.kind = "report" /\ x.act = "none" => x.way = "none"
  /\ x.act = "continue" => x.way = "sweep"
  /\ x.kind = "update" /\ x.dec = "none" => x.way = "none"
  /\ x.kind = "update" /\ x.dec # "none" => x.way \in {"sweep", "write"}
  /\ x.kind # "start" /\ x.job = "none" => x.u = x.w
  /\ x.kind # "start" /\ x.job = "none" /\ x.first = "none" => x.was = x.held
  /\ x.kind # "start" => x.own \in Chains \X RunIds
  /\ Permutation(x.was, ChainLen) /\ Permutation(x.held, ChainLen)

\* The set has a run of a chain; the master waits for its weights.
HasRun(x) == x.job # "quit" /\ (x.kind = "start" => x.job = "job")
Waiting(x) ==
  \/ x.resp = "sent" /\ x.swap = "none"
  \/ x.kind = "update" /\ x.first = "none"

ChainAt(g) == setRun[g][1]
RunAt(g)   == setRun[g][2]
PosAt(g)   == IF setRun[g] = NoRun THEN Identity ELSE pos[ChainAt(g)][RunAt(g)]
OddAt(g)   == IF setRun[g] = NoRun THEN FALSE ELSE odd[ChainAt(g)][RunAt(g)]
Asked(r)   == ~Skips(PosAt(SetOf(r))[ChainRank(r)], OddAt(SetOf(r)), ChainLen)

\* pt_sweeps_per_global_update of a chain, the sweep of its next global update,
\* and whether the update at sweep n counts.
Period(c) == Spgu[TaskOf(c, 0)]
NextUpdate(n, c) == (n \div Period(c) + 1) * Period(c)
Counts(n, c) == IF Thermalized(n, Period(c), c) THEN 1 ELSE 0

\* sweeps_since_last_query_ at the end of the path.
SinceThen(x, c) == IF x.kind = "update" THEN x.s + Counts(x.w, c) ELSE 0

\* The rank of set g that holds the position where chain rank i goes.
Partner(g, from, to, i) == g * ChainLen + CHOOSE q \in Members : from[q] = to[i]

-----------------------------------------------------------------------------
(* What is on its way to a rank of the set and from it.                    *)

Ahead(sent, m, rest) == IF sent THEN <<m>> \o rest ELSE rest

JobFor(r, x) ==
  IF x.job = "job"
  THEN JobMsg(TaskOf(ChainAt(SetOf(r)), ChainRank(r)), RunAt(SetOf(r)), x.b)
  ELSE JobMsg(NoTask, 0, 0)

SwapFor(r, from, to) ==
  SwapMsg(TaskOf(ChainAt(SetOf(r)), to[ChainRank(r)]),
          Partner(SetOf(r), from, to, ChainRank(r)))

RespFor(r, x) == Response(IF x.swap = "none" /\ Asked(r) THEN "weight" ELSE "skip")

\* What is still to come at the places where the next message is a swap, a
\* response, the swap of the update before, a job, or an action.
ToSwap(r, x)   == Ahead(x.swap = "sent", SwapFor(r, x.held, PosAt(SetOf(r))), << >>)
ToResp(r, x)   == Ahead(x.resp = "sent", RespFor(r, x), ToSwap(r, x))
ToFirst(r, x)  == Ahead(x.first = "sent", SwapFor(r, x.was, x.held), ToResp(r, x))
ToJob(r, x)    == Ahead(x.job # "none", JobFor(r, x), ToResp(r, x))
ToAction(r, x) == Ahead(x.act # "none", ActionMsg(x.act), ToJob(r, x))

Queue(r, x) ==
  IF pc[r] \in {"rename", "action"} THEN ToAction(r, x)
  ELSE IF pc[r] \in {"merge", "accept"} THEN ToJob(r, x)
  ELSE IF pc[r] = "swap" THEN ToFirst(r, x)
  ELSE IF pc[r] = "update_barrier" THEN ToSwap(r, x)
  ELSE ToResp(r, x)

\* The weight of a rank that was asked for it stays with the master until all
\* are there, which may be after the barrier.
Weighed(r, x) ==
  /\ \/ x.resp = "sent" /\ x.swap = "none" /\ pc[r] = "update_barrier"
     \/ x.kind = "update" /\ x.first = "none"
  /\ Asked(r)

Said(r, x) ==
  IF pc[r] = "left" THEN toMaster[r] \in {<< >>, <<Status("timeup")>>}
  ELSE IF IsRoot(r) /\ pc[r] = "response" /\ x.resp = "none"
  THEN toMaster[r] = <<Status("ready")>>
  ELSE IF IsRoot(r) /\ pc[r] = "action" /\ x.act = "none"
  THEN \E n \in Nat : toMaster[r] = <<BusyMsg(n)>>
  ELSE IF Weighed(r, x) THEN toMaster[r] = <<Status("weight")>>
  ELSE toMaster[r] = << >>

-----------------------------------------------------------------------------
(* One rank of the set.                                                    *)

\* Where it is.  Chain rank 0 is what the master and the others wait for.
Placed(r, x) ==
  /\ pc[r] \in FirstPlaces(x) \cup LastPlaces(x)
  /\ pc[r] = "merge" => x.act = "process"
  /\ pc[r] = "accept" /\ x.kind = "report" => x.act \in {"process", "new_job"}
  /\ x.kind = "update" /\ x.first = "none" => pc[r] = "swap"
  /\ pc[r] = "update_barrier" => x.resp = "sent"
  /\ IsRoot(r) =>
       /\ x.act # "none" => pc[r] # "rename"
       /\ x.resp = "sent" => pc[r] \in {"response", "update_barrier"}
       /\ x.kind = "update" => (x.dec = "none" <=> pc[r] \in Updating)

\* Which task of which run it has.
Works(r, x) ==
  LET g == SetOf(r)
      i == ChainRank(r)
  IN  /\ pc[r] \in Reporting \cup {"left"} /\ x.kind # "start" =>
           task[r] = TaskOf(x.own[1], x.was[i]) /\ run[r] = x.own[2]
      /\ pc[r] = "swap" => task[r] = TaskOf(ChainAt(g), x.was[i])
      /\ pc[r] \in {"exchange", "negotiate"} \cup Sweeping \cup Writing =>
           task[r] = TaskOf(ChainAt(g), x.held[i])
      /\ pc[r] \in Updating \cup Sweeping \cup Writing => run[r] = RunAt(g)
      /\ pc[r] = "exchange" => partner[r] = Partner(g, x.was, x.held, i)

\* Its simulation.
Simulates(r, x) ==
  /\ pc[r] \in {"rename", "action"} => sys[r].sweep = x.u
  /\ pc[r] \in Updating \cup Writing \cup {"sweep"} => sys[r].sweep = x.w
  /\ pc[r] \in {"response", "update_barrier"} =>
       sys[r].sweep = NextUpdate(x.w, ChainAt(SetOf(r)))
  /\ pc[r] \in {"rename", "action"} \cup Updating \cup Sweeping \cup Writing =>
       sys[r].spgu = Spgu[task[r]]

Reason(x) ==
  IF x.kind # "update" THEN "fresh" ELSE IF x.dec = "timeup" THEN "timeup" ELSE "report"

\* Its counters and flags.
CountsTo(r, x) ==
  /\ \/ pc[r] \in {"rename", "action"} /\ x.job = "none"
     \/ pc[r] \in Updating \cup Sweeping \cup Writing
     => before[r] = x.b
  /\ x.kind = "update" =>
       since[r] = IF pc[r] \in {"swap", "exchange"} THEN x.s
                  ELSE SinceThen(x, ChainAt(SetOf(r)))
  /\ x.kind \in {"start", "fresh"} \/ (x.kind = "report" /\ pc[r] # "rename") => since[r] = 0
  /\ pc[r] # "left" =>
       reason[r] = IF pc[r] \in Writing THEN Reason(x)
                   ELSE IF pc[r] = "rename" THEN x.kind ELSE "report"
  /\ bcast[r] = IF x.kind = "update" /\ pc[r] \in Updating THEN x.dec ELSE "none"

RankIn(r, x) ==
  /\ toSlave[r] = Queue(r, x) /\ Said(r, x)
  /\ Placed(r, x) /\ Works(r, x) /\ Simulates(r, x) /\ CountsTo(r, x)

-----------------------------------------------------------------------------
(* The whole set.                                                          *)

\* Changing places twice leads back.
Paired(from, to) ==
  \A i, j \in Members : from[j] = to[i] => to[j] = from[i]

\* Set g has not been given its first chain.
Undealt(g) == \E h \in Sets : mode = <<"assign", h>> /\ h <= g

\* What the master knows of the set.
Seated(g, x) ==
  /\ mode = <<"weights", g>> <=> Waiting(x)
  /\ setRun[g] # NoRun <=> HasRun(x)
  /\ Undealt(g) <=> x.kind = "start" /\ x.job = "none"
  /\ x.kind = "update" /\ x.dec # "none" =>
       (x.way = "sweep" <=> x.dec = "continue" /\ SinceThen(x, ChainAt(g)) < x.b)
  /\ x.kind # "start" /\ x.job = "none" => x.own = setRun[g]
  /\ x.kind = "report" /\ x.job = "job" => x.own[1] # ChainAt(g)
  /\ x.first = "sent" => Paired(x.was, x.held)
  /\ x.swap = "sent" => Paired(x.held, PosAt(g))
  /\ HasRun(x) /\ x.swap = "none" => x.held = PosAt(g)

\* The dump of run k of task t, if there is one.
Slot(t, k) == {dump[t][q] : q \in DOMAIN dump[t] \cap {k}}
ChainDump(n, c) == DumpOf(n, Therm[c] * Period(c))

\* All ranks find the dump of the run they are given, or none does.
FindFiles(g, x) ==
  x.job = "job" =>
    /\ x.way = "sweep" => \A t \in ChainTasks(ChainAt(g)) :
                            RunAt(g) \in DOMAIN dump[t] /\ SweepOf(dump[t][RunAt(g)]) = x.w
    /\ x.way = "write" => /\ x.w = 0
                          /\ \A t \in ChainTasks(ChainAt(g)) : RunAt(g) \notin DOMAIN dump[t]

\* While a rank has to rename its files, the others have done so or not.
LeaveFiles(g, x) ==
  (\E r \in SetRanks(g) : pc[r] = "rename") =>
    \A r \in SetRanks(g) :
      Slot(TaskOf(x.own[1], x.was[ChainRank(r)]), x.own[2])
        = IF pc[r] = "rename" THEN x.old ELSE {ChainDump(x.u, x.own[1])}

SetIn(g, x) ==
  /\ Path(x) /\ Seated(g, x) /\ FindFiles(g, x) /\ LeaveFiles(g, x)
  /\ \A r \in SetRanks(g) : RankIn(r, x)

SetsIn == phase \in {"running", "ended"} => \A g \in Sets : \E x \in Paths : SetIn(g, x)

-----------------------------------------------------------------------------
(* All sets.                                                               *)

RunOf(r) == <<ChainOf(task[r]), run[r]>>
Renaming == {r \in Ranks : pc[r] = "rename"}
Agreed(c, k) == \A t, u \in ChainTasks(c) : Slot(t, k) = Slot(u, k)

\* The dumps of a run agree unless ranks are about to rename theirs.
FilesInv ==
  \A c \in Chains : \A k \in RunIds :
    (phase = "running" => \A r \in Renaming : RunOf(r) # <<c, k>>) => Agreed(c, k)

\* A run whose files are being renamed is not another set's, and not given away.
RenameInv ==
  phase = "running" =>
  \A r \in Renaming :
    /\ RunOf(r) = setRun[SetOf(r)] \/ IsDone(ChainOf(task[r]), sweeps[ChainOf(task[r])])
    /\ \A g \in Sets \ {SetOf(r)} : setRun[g] # RunOf(r)
    /\ \A q \in Renaming : SetOf(q) # SetOf(r) => RunOf(q) # RunOf(r)

Holders(c) == {g \in Sets : setRun[g][1] = c}
LeaseInv ==
  phase = "running" =>
  /\ \A g, h \in Sets : g # h /\ setRun[g] # NoRun => setRun[g] # setRun[h]
  /\ \A c \in Chains : scheduled[c] = Cardinality(Holders(c))
  /\ \A c \in Chains : ~IsDone(c, sweeps[c]) =>
       /\ \A g \in Holders(c) : setRun[g][2] <= scheduled[c]
       /\ \A k \in RunIds : k > scheduled[c] => pos[c][k] = Identity

-----------------------------------------------------------------------------
(* Ranks and sets, tasks and chains.                                       *)

LEMMA Divided ==
  ASSUME NEW n \in Nat, NEW b \in Nat \ {0}
  PROVE  /\ n \div b \in Nat /\ n % b \in 0 .. b - 1
         /\ n = (n \div b) * b + (n % b)
OBVIOUS

LEMMA DividedOnce ==
  ASSUME NEW b \in Nat \ {0}, NEW q \in Nat, NEW p \in 0 .. b - 1,
         NEW n \in Nat, n = q * b + p
  PROVE  n \div b = q /\ n % b = p
OBVIOUS

\* n blocks of length b.
LEMMA InBlocks ==
  ASSUME NEW b \in Nat \ {0}, NEW m \in Nat, NEW q \in Nat, NEW p \in 0 .. b - 1
  PROVE  q * b + p \in 0 .. m * b - 1 <=> q < m
<1>1. CASE q < m
  <2>1. q + 1 <= m
    BY <1>1
  <2>2. (q + 1) * b <= m * b
    BY <2>1
  <2>3. q * b + p < (q + 1) * b /\ q * b \in Nat
    OBVIOUS
  <2> QED
    BY <1>1, <2>2, <2>3
<1>2. CASE ~(q < m)
  <2>1. m * b <= q * b
    BY <1>2
  <2> QED
    BY <1>2, <2>1
<1> QED
  BY <1>1, <1>2

LEMMA MembersAre == Members = 0 .. ChainLen - 1 /\ 0 \in Members /\ ChainLen \in Nat \ {0}
BY ShapeAssumption DEF Members, Places

LEMMA SeatIs ==
  ASSUME NEW r \in Ranks
  PROVE  /\ SetOf(r) \in Sets /\ ChainRank(r) \in Members
         /\ r = SetOf(r) * ChainLen + ChainRank(r)
<1>1. r \in Nat /\ r \in 0 .. NSets * ChainLen - 1
  BY ShapeAssumption DEF Ranks
<1> DEFINE q == r \div ChainLen
           p == r % ChainLen
<1>2. q \in Nat /\ p \in 0 .. ChainLen - 1 /\ r = q * ChainLen + p
  BY <1>1, ShapeAssumption, Divided
<1> HIDE DEF q, p
<1>3. q < NSets
  BY <1>1, <1>2, ShapeAssumption, InBlocks
<1>4. q \in Sets /\ p \in Members
  BY <1>2, <1>3, ShapeAssumption, MembersAre DEF Sets
<1> QED
  BY <1>2, <1>4 DEF SetOf, ChainRank, q, p

LEMMA RankAt ==
  ASSUME NEW g \in Sets, NEW i \in Members
  PROVE  LET r == g * ChainLen + i
         IN  r \in Ranks /\ SetOf(r) = g /\ ChainRank(r) = i
<1> DEFINE r == g * ChainLen + i
<1>1. g \in Nat /\ g < NSets /\ i \in 0 .. ChainLen - 1
  BY ShapeAssumption, MembersAre DEF Sets
<1>2. r \in 0 .. NSets * ChainLen - 1
  BY <1>1, ShapeAssumption, InBlocks
<1>3. r \in Nat
  BY <1>2, ShapeAssumption
<1>4. r \div ChainLen = g /\ r % ChainLen = i
  BY <1>1, <1>3, ShapeAssumption, DividedOnce
<1> QED
  BY <1>2, <1>4 DEF Ranks, SetOf, ChainRank

LEMMA SameSeat ==
  ASSUME NEW r \in Ranks, NEW q \in Ranks,
         SetOf(r) = SetOf(q), ChainRank(r) = ChainRank(q)
  PROVE  r = q
BY SeatIs

LEMMA RootIs ==
  ASSUME NEW g \in Sets
  PROVE  \E r \in SetRanks(g) : IsRoot(r) /\ \A q \in SetRanks(g) : IsRoot(q) => q = r
<1> DEFINE r == g * ChainLen + 0
<1>1. r \in Ranks /\ SetOf(r) = g /\ ChainRank(r) = 0
  BY MembersAre, RankAt
<1> HIDE DEF r
<1>2. r \in SetRanks(g) /\ IsRoot(r)
  BY <1>1 DEF SetRanks, IsRoot
<1>3. \A q \in SetRanks(g) : IsRoot(q) => q = r
  BY <1>1, SameSeat DEF SetRanks, IsRoot
<1> QED
  BY <1>2, <1>3

LEMMA TaskIs ==
  ASSUME NEW c \in Chains, NEW p \in Members
  PROVE  /\ TaskOf(c, p) \in Tasks /\ ChainOf(TaskOf(c, p)) = c
         /\ TaskOf(c, p) >= 0 /\ TaskOf(c, p) # NoTask
         /\ TaskOf(c, p) \in ChainTasks(c)
         /\ TaskOf(c, p) \in Int
<1>1. c \in Nat /\ c < NChains /\ p \in 0 .. ChainLen - 1
  BY ShapeAssumption, MembersAre DEF Chains
<1>2. TaskOf(c, p) \in 0 .. NChains * ChainLen - 1
  BY <1>1, ShapeAssumption, InBlocks DEF TaskOf
<1>3. TaskOf(c, p) \in Nat
  BY <1>2, ShapeAssumption
<1>4. ChainOf(TaskOf(c, p)) = c
  BY <1>1, <1>3, ShapeAssumption, DividedOnce DEF TaskOf, ChainOf
<1> QED
  BY <1>2, <1>3, <1>4 DEF Tasks, NoTask, ChainTasks

LEMMA TasksApart ==
  ASSUME NEW c \in Chains, NEW p \in Members, NEW q \in Members,
         TaskOf(c, p) = TaskOf(c, q)
  PROVE  p = q
<1>1. c \in Nat /\ p \in Nat /\ q \in Nat
  BY ShapeAssumption, MembersAre DEF Chains
<1> QED
  BY <1>1, ShapeAssumption DEF TaskOf

LEMMA ChainIs ==
  ASSUME NEW t \in Tasks
  PROVE  /\ ChainOf(t) \in Chains /\ t \in ChainTasks(ChainOf(t)) /\ t \in Nat
         /\ \E p \in Members : t = TaskOf(ChainOf(t), p)
<1>1. t \in Nat /\ t \in 0 .. NChains * ChainLen - 1
  BY ShapeAssumption DEF Tasks
<1> DEFINE q == t \div ChainLen
           p == t % ChainLen
<1>2. q \in Nat /\ p \in 0 .. ChainLen - 1 /\ t = q * ChainLen + p
  BY <1>1, ShapeAssumption, Divided
<1> HIDE DEF q, p
<1>3. q < NChains
  BY <1>1, <1>2, ShapeAssumption, InBlocks
<1>4. q \in Chains /\ p \in Members
  BY <1>2, <1>3, ShapeAssumption, MembersAre DEF Chains
<1>5. t = TaskOf(q, p) /\ ChainOf(t) = q
  BY <1>2 DEF TaskOf, ChainOf, q
<1> QED
  BY <1>1, <1>4, <1>5 DEF ChainTasks

LEMMA ChainTasksAre ==
  ASSUME NEW c \in Chains, NEW t \in ChainTasks(c)
  PROVE  t \in Tasks /\ ChainOf(t) = c
BY TaskIs DEF ChainTasks

LEMMA PeriodIs ==
  ASSUME Together, NEW t \in Tasks
  PROVE  Spgu[t] = Period(ChainOf(t)) /\ Spgu[t] \in Nat \ {0}
<1>1. ChainOf(t) \in Chains
  BY ChainIs
<1>2. TaskOf(ChainOf(t), 0) \in Tasks /\ ChainOf(TaskOf(ChainOf(t), 0)) = ChainOf(t)
  BY <1>1, TaskIs, MembersAre
<1> QED
  BY <1>2, JobAssumption DEF Together, Period

LEMMA PeriodNat == \A c \in Chains : Period(c) \in Nat \ {0} /\ Therm[c] \in Nat
BY TaskIs, MembersAre, JobAssumption DEF Period

-----------------------------------------------------------------------------
(* Queues.                                                                 *)

LEMMA AheadIs ==
  ASSUME NEW S, NEW m \in S, NEW rest \in Seq(S)
  PROVE  /\ \A b \in BOOLEAN : Ahead(b, m, rest) \in Seq(S)
         /\ <<m>> \o rest # << >>
         /\ Head(<<m>> \o rest) = m
         /\ Tail(<<m>> \o rest) = rest
BY DEF Ahead

LEMMA AheadAppend ==
  ASSUME NEW S, NEW m \in S, NEW rest \in Seq(S), NEW last \in Seq(S), NEW b \in BOOLEAN
  PROVE  Ahead(b, m, rest) \o last = Ahead(b, m, rest \o last)
<1>1. (<<m>> \o rest) \o last = <<m>> \o (rest \o last)
  OBVIOUS
<1> QED
  BY <1>1 DEF Ahead

\* All that can be on its way to a rank.
Mail(r, x) ==
  {ActionMsg(x.act), JobFor(r, x), SwapFor(r, x.was, x.held), RespFor(r, x),
   SwapFor(r, x.held, PosAt(SetOf(r)))}

LEMMA QueuesAreMail ==
  ASSUME NEW r, NEW x
  PROVE  /\ << >> \in Seq(Mail(r, x))
         /\ ToSwap(r, x) \in Seq(Mail(r, x)) /\ ToResp(r, x) \in Seq(Mail(r, x))
         /\ ToFirst(r, x) \in Seq(Mail(r, x)) /\ ToJob(r, x) \in Seq(Mail(r, x))
         /\ ToAction(r, x) \in Seq(Mail(r, x))
<1>0. << >> \in Seq(Mail(r, x))
  OBVIOUS
<1>1. ToSwap(r, x) \in Seq(Mail(r, x))
  BY <1>0, AheadIs DEF ToSwap, Mail
<1>2. ToResp(r, x) \in Seq(Mail(r, x))
  BY <1>1, AheadIs DEF ToResp, Mail
<1>3. ToFirst(r, x) \in Seq(Mail(r, x))
  BY <1>2, AheadIs DEF ToFirst, Mail
<1>4. ToJob(r, x) \in Seq(Mail(r, x))
  BY <1>2, AheadIs DEF ToJob, Mail
<1>5. ToAction(r, x) \in Seq(Mail(r, x))
  BY <1>4, AheadIs DEF ToAction, Mail
<1> QED
  BY <1>0, <1>1, <1>2, <1>3, <1>4, <1>5

\* What has been sent of a path fixes what cannot have been.
LEMMA NothingElse ==
  ASSUME NEW x \in Paths, Path(x), NEW r
  PROVE  /\ x.way # "sweep" => x.resp = "none" /\ x.swap = "none" /\ ToResp(r, x) = << >>
         /\ x.resp = "none" => x.swap = "none" /\ ToResp(r, x) = << >>
         /\ x.swap = "none" => ToSwap(r, x) = << >>
         /\ x.first = "none" => /\ x.kind = "update" => ToFirst(r, x) = << >>
                                                     /\ x.dec = "none" /\ x.way = "none"
         /\ x.kind = "report" /\ x.act = "none" =>
              ToAction(r, x) = << >> /\ x.job = "none" /\ x.resp = "none" /\ x.way = "none"
         /\ x.kind = "start" /\ x.job = "none" =>
              ToJob(r, x) = << >> /\ x.resp = "none" /\ x.way = "none"
<1>1. x.swap \in Flag /\ x.resp \in Flag /\ x.first \in Flag
  BY DEF Paths
<1>2. x.resp = "none" => x.swap = "none" /\ ToResp(r, x) = << >>
  BY <1>1 DEF Path, Flag, ToResp, ToSwap, Ahead
<1>3. x.way # "sweep" => x.resp = "none"
  BY <1>1 DEF Path, Flag
<1>4. x.first = "none" /\ x.kind = "update" => x.dec = "none" /\ x.way = "none"
  BY DEF Path
<1>5. x.first = "none" /\ x.kind = "update" => ToFirst(r, x) = << >>
  BY <1>2, <1>3, <1>4 DEF ToFirst, Ahead
<1>6. x.kind = "report" /\ x.act = "none" => x.job = "none" /\ x.way = "none"
  BY DEF Path
<1>7. x.kind = "report" /\ x.act = "none" => ToAction(r, x) = << >>
  BY <1>2, <1>3, <1>6 DEF ToAction, ToJob, Ahead
<1>8. x.kind = "start" /\ x.job = "none" => ToJob(r, x) = << >> /\ x.way = "none"
  BY <1>2, <1>3 DEF ToJob, Ahead, Path
<1>9. x.swap = "none" => ToSwap(r, x) = << >>
  BY DEF ToSwap, Ahead
<1> QED
  BY <1>2, <1>3, <1>4, <1>5, <1>6, <1>7, <1>8, <1>9

\* What a rank receives at each place.
LEMMA ActionNext ==
  ASSUME NEW x \in Paths, Path(x), NEW r, ToAction(r, x) # << >>, x.kind = "report"
  PROVE  /\ x.act # "none"
         /\ Head(ToAction(r, x)) = ActionMsg(x.act) /\ Tail(ToAction(r, x)) = ToJob(r, x)
<1>1. x.act # "none"
  BY NothingElse
<1>2. ToAction(r, x) = <<ActionMsg(x.act)>> \o ToJob(r, x)
  BY <1>1 DEF ToAction, Ahead
<1>3. ActionMsg(x.act) \in Mail(r, x)
  BY DEF Mail
<1> QED
  BY <1>1, <1>2, <1>3, QueuesAreMail, AheadIs

LEMMA JobNext ==
  ASSUME NEW x \in Paths, Path(x), NEW r, ToJob(r, x) # << >>,
         x.kind = "start" \/ (x.kind = "report" /\ x.act \in {"process", "new_job"})
  PROVE  /\ x.job # "none"
         /\ Head(ToJob(r, x)) = JobFor(r, x) /\ Tail(ToJob(r, x)) = ToResp(r, x)
<1>1. x.job # "none"
  BY NothingElse DEF Path
<1>2. ToJob(r, x) = <<JobFor(r, x)>> \o ToResp(r, x)
  BY <1>1 DEF ToJob, Ahead
<1>3. JobFor(r, x) \in Mail(r, x)
  BY DEF Mail
<1> QED
  BY <1>1, <1>2, <1>3, QueuesAreMail, AheadIs

LEMMA FirstNext ==
  ASSUME NEW x \in Paths, Path(x), NEW r, ToFirst(r, x) # << >>, x.kind = "update"
  PROVE  /\ x.first = "sent"
         /\ Head(ToFirst(r, x)) = SwapFor(r, x.was, x.held)
         /\ Tail(ToFirst(r, x)) = ToResp(r, x)
<1>1. x.first = "sent"
  BY NothingElse DEF Paths, Flag
<1>2. ToFirst(r, x) = <<SwapFor(r, x.was, x.held)>> \o ToResp(r, x)
  BY <1>1 DEF ToFirst, Ahead
<1>3. SwapFor(r, x.was, x.held) \in Mail(r, x)
  BY DEF Mail
<1> QED
  BY <1>1, <1>2, <1>3, QueuesAreMail, AheadIs

LEMMA RespNext ==
  ASSUME NEW x \in Paths, Path(x), NEW r, ToResp(r, x) # << >>
  PROVE  /\ x.resp = "sent"
         /\ Head(ToResp(r, x)) = RespFor(r, x) /\ Tail(ToResp(r, x)) = ToSwap(r, x)
<1>1. x.resp = "sent"
  BY NothingElse DEF Paths, Flag
<1>2. ToResp(r, x) = <<RespFor(r, x)>> \o ToSwap(r, x)
  BY <1>1 DEF ToResp, Ahead
<1>3. RespFor(r, x) \in Mail(r, x)
  BY DEF Mail
<1> QED
  BY <1>1, <1>2, <1>3, QueuesAreMail, AheadIs

LEMMA SwapNext ==
  ASSUME NEW x \in Paths, Path(x), NEW r, ToSwap(r, x) # << >>
  PROVE  /\ x.swap = "sent"
         /\ ToSwap(r, x) = <<SwapFor(r, x.held, PosAt(SetOf(r)))>>
BY DEF ToSwap, Ahead, Paths, Flag

\* Where a rank can be, why it writes, and what negotiate_timeout can give.
Words ==
  {"accept", "merge", "action", "exited", "left"} \cup Updating \cup Sweeping
    \cup Writing \cup {"rename"} \cup {"fresh", "report", "timeup"}
    \cup {"none", "continue", "checkpoint"}

Buffers == [n : Nat, of : SUBSET Tasks]
Simulations == [sweep : Nat, spgu : Nat \ {0}, buf : Buffers]
RunFiles(dir, S) == DOMAIN dir \subseteq RunIds /\ \A k \in DOMAIN dir : dir[k] \in S

Types ==
  /\ phase \in {"running", "ended", "crashed", "refused"}
  /\ setRun \in [Sets -> (Chains \X RunIds) \cup {NoRun}]
  /\ sweeps \in [Chains -> Nat] /\ scheduled \in [Chains -> Int]
  /\ current \in Chains \cup {NoTask}
  /\ pc \in [Ranks -> Words] /\ reason \in [Ranks -> Words]
  /\ task \in [Ranks -> Int] /\ run \in [Ranks -> Int] /\ partner \in [Ranks -> Int]
  /\ since \in [Ranks -> Nat] /\ before \in [Ranks -> Nat]
  /\ bcast \in [Ranks -> Words]
  /\ sys \in [Ranks -> Simulations]
  /\ toMaster = [r \in Ranks |-> toMaster[r]] /\ toSlave = [r \in Ranks |-> toSlave[r]]
  /\ dump = [t \in Tasks |-> dump[t]] /\ meas = [t \in Tasks |-> meas[t]]
  /\ results = [t \in Tasks |-> results[t]]
  /\ \A t \in Tasks : RunFiles(dump[t], DumpFiles) /\ RunFiles(meas[t], Buffers)

-----------------------------------------------------------------------------
(* What a step leaves alone.                                               *)

\* A rank and its channels.
Still(r) ==
  /\ pc'[r] = pc[r] /\ task'[r] = task[r] /\ run'[r] = run[r]
  /\ since'[r] = since[r] /\ before'[r] = before[r] /\ reason'[r] = reason[r]
  /\ partner'[r] = partner[r] /\ bcast'[r] = bcast[r] /\ sys'[r] = sys[r]
  /\ toMaster'[r] = toMaster[r] /\ toSlave'[r] = toSlave[r]

\* What the master knows of a set's chain run.
RunStill(g) ==
  setRun'[g] = setRun[g] /\ PosAt(g)' = PosAt(g) /\ OddAt(g)' = OddAt(g)

\* Where the master is, for a set.
ModeStill(g) ==
  /\ (mode' = <<"weights", g>>) <=> (mode = <<"weights", g>>)
  /\ Undealt(g)' <=> Undealt(g)

LEMMA QueuesStill ==
  ASSUME NEW r, NEW x, RunStill(SetOf(r))
  PROVE  /\ ToSwap(r, x)' = ToSwap(r, x) /\ ToResp(r, x)' = ToResp(r, x)
         /\ ToFirst(r, x)' = ToFirst(r, x) /\ ToJob(r, x)' = ToJob(r, x)
         /\ ToAction(r, x)' = ToAction(r, x)
         /\ Asked(r)' <=> Asked(r)
         /\ ChainAt(SetOf(r))' = ChainAt(SetOf(r)) /\ RunAt(SetOf(r))' = RunAt(SetOf(r))
<1>1. ChainAt(SetOf(r))' = ChainAt(SetOf(r)) /\ RunAt(SetOf(r))' = RunAt(SetOf(r))
  BY DEF RunStill, ChainAt, RunAt
<1>2. Asked(r)' <=> Asked(r)
  BY DEF RunStill, Asked
<1>3. \A from, to : SwapFor(r, from, to)' = SwapFor(r, from, to)
  BY <1>1 DEF SwapFor, Partner
<1>4. RespFor(r, x)' = RespFor(r, x) /\ JobFor(r, x)' = JobFor(r, x)
  BY <1>1, <1>2 DEF RespFor, JobFor
<1>5. ToSwap(r, x)' = ToSwap(r, x)
  BY <1>3 DEF ToSwap, Ahead, RunStill, SwapFor
<1>6. ToResp(r, x)' = ToResp(r, x)
  BY <1>4, <1>5 DEF ToResp, Ahead
<1>7. ToFirst(r, x)' = ToFirst(r, x) /\ ToJob(r, x)' = ToJob(r, x)
  BY <1>3, <1>4, <1>6 DEF ToFirst, ToJob, Ahead
<1>8. ToAction(r, x)' = ToAction(r, x)
  BY <1>7 DEF ToAction, Ahead
<1> QED
  BY <1>1, <1>2, <1>5, <1>6, <1>7, <1>8

LEMMA RankStill ==
  ASSUME NEW r, NEW x, RunStill(SetOf(r)), Still(r), RankIn(r, x)
  PROVE  RankIn(r, x)'
<1>1. Queue(r, x)' = Queue(r, x)
  BY QueuesStill DEF Queue, Still
<1>2. Said(r, x)'
  BY QueuesStill DEF RankIn, Said, Weighed, Still
<1>3. Placed(r, x)'
  BY DEF RankIn, Placed, Still
<1>4. Works(r, x)'
  BY QueuesStill DEF RankIn, Works, Still, Partner
<1>5. Simulates(r, x)'
  BY QueuesStill DEF RankIn, Simulates, Still
<1>6. CountsTo(r, x)'
  BY QueuesStill DEF RankIn, CountsTo, Still
<1> QED
  BY <1>1, <1>2, <1>3, <1>4, <1>5, <1>6 DEF RankIn, Still

LEMMA SeatedStill ==
  ASSUME NEW g, NEW x, RunStill(g), ModeStill(g), Seated(g, x)
  PROVE  Seated(g, x)'
<1>1. ChainAt(g)' = ChainAt(g)
  BY DEF RunStill, ChainAt
<1> QED
  BY <1>1 DEF RunStill, ModeStill, Seated

LEMMA SlotStill ==
  ASSUME NEW t, NEW k, dump'[t] = dump[t]
  PROVE  Slot(t, k)' = Slot(t, k)
BY DEF Slot

\* A set of which nothing is touched.
LEMMA SetStill ==
  ASSUME NEW g \in Sets, NEW x \in Paths, SetIn(g, x), RunStill(g), ModeStill(g),
         \A r \in SetRanks(g) : Still(r),
         FindFiles(g, x) => FindFiles(g, x)', LeaveFiles(g, x) => LeaveFiles(g, x)'
  PROVE  SetIn(g, x)'
<1>1. \A r \in SetRanks(g) : RankIn(r, x)'
  BY RankStill DEF SetIn, SetRanks
<1>2. Seated(g, x)'
  BY SeatedStill DEF SetIn
<1> QED
  BY <1>1, <1>2 DEF SetIn

LEMMA MasterStill ==
  ASSUME UNCHANGED masterVars
  PROVE  \A g : RunStill(g) /\ ModeStill(g)
BY DEF masterVars, RunStill, ModeStill, PosAt, OddAt, ChainAt, RunAt, Undealt

LEMMA RunIs ==
  ASSUME Types, NEW g \in Sets, NEW x \in Paths, Seated(g, x), HasRun(x)
  PROVE  /\ ChainAt(g) \in Chains /\ RunAt(g) \in RunIds
         /\ setRun[g] = <<ChainAt(g), RunAt(g)>> /\ setRun[g] # NoRun
         /\ Period(ChainAt(g)) \in Nat \ {0} /\ Therm[ChainAt(g)] \in Nat
<1>1. setRun[g] \in Chains \X RunIds
  BY DEF Types, Seated
<1> QED
  BY <1>1, PeriodNat DEF ChainAt, RunAt, Seated

\* In these places the set has a run.
LEMMA RunThere ==
  ASSUME NEW x \in Paths, Path(x), NEW r, Placed(r, x),
         \/ pc[r] \in Updating \cup Sweeping \cup Writing
         \/ pc[r] \in {"rename", "action"} /\ x.job = "none"
  PROVE  HasRun(x)
BY DEF HasRun, Placed, FirstPlaces, LastPlaces, Path, Updating, Sweeping, Writing,
       Reporting, Paths

\* What the place of a rank says of the path.
LEMMA WhereIs ==
  ASSUME NEW x \in Paths, NEW r, Placed(r, x)
  PROVE  /\ pc[r] = "accept" => \/ x.kind = "start"
                                \/ x.kind = "report" /\ x.act \in {"process", "new_job"}
         /\ pc[r] = "merge" => x.kind = "report" /\ x.act = "process"
         /\ pc[r] = "action" => x.kind = "report"
         /\ pc[r] = "rename" => x.kind \in {"fresh", "report", "timeup"}
         /\ pc[r] \in Updating => x.kind = "update"
         /\ pc[r] \in Sweeping => x.way = "sweep"
         /\ pc[r] \in Writing => x.way = "write"
         /\ pc[r] = "left" => x.way = "exit" /\ x.kind = "timeup"
         /\ pc[r] = "exited" => x.way = "exit" /\ x.kind # "timeup"
BY DEF Placed, FirstPlaces, LastPlaces, Reporting, Updating, Sweeping, Writing, Paths

LEMMA QuitKeeps ==
  ASSUME Types, NEW r \in Ranks, NEW x \in Paths, SetIn(SetOf(r), x), Quit(r)
  PROVE  RankIn(r, x)' /\ pc[r] # "rename" /\ pc'[r] # "rename" /\ \A q \in Ranks \ {r} : Still(q)
<1> DEFINE g == SetOf(r)
<1>1. RankIn(r, x) /\ Path(x) /\ Seated(g, x)
  BY DEF SetIn, SetRanks
<1>2. /\ pc[r] = "accept" /\ pc'[r] = "exited"
      /\ toSlave[r] # << >> /\ Head(toSlave[r]).task < 0
      /\ toSlave'[r] = Tail(toSlave[r]) /\ toMaster' = toMaster
      /\ since' = since /\ reason' = reason /\ bcast' = bcast
  BY DEF Quit, Takes, At, HeadIs, Pop, Goes, Types
<1>3. x.kind = "start" \/ (x.kind = "report" /\ x.act \in {"process", "new_job"})
  BY <1>1, <1>2, WhereIs DEF RankIn
<1>4. toSlave[r] = ToJob(r, x)
  BY <1>1, <1>2 DEF RankIn, Queue
<1>5. x.job # "none" /\ Head(toSlave[r]) = JobFor(r, x) /\ toSlave'[r] = ToResp(r, x)
  BY <1>1, <1>2, <1>3, <1>4, JobNext
<1>6. x.job = "quit"
  <2> SUFFICES ASSUME x.job = "job" PROVE FALSE
    BY <1>5 DEF Paths
  <2>1. ChainAt(g) \in Chains
    BY <1>1, RunIs, SeatIs DEF HasRun
  <2> QED
    BY <1>2, <1>5, <2>1, TaskIs, SeatIs DEF JobFor, JobMsg
<1>7. x.way = "exit" /\ x.resp = "none" /\ x.swap = "none"
  BY <1>1, <1>6, NothingElse DEF Path
<1>8. UNCHANGED masterVars
  BY DEF Quit
<1>9. RunStill(g)
  BY <1>8, MasterStill
<1>10. toSlave'[r] = Queue(r, x)'
  BY <1>2, <1>5, <1>9, QueuesStill DEF Queue
<1>11. Said(r, x)'
  BY <1>1, <1>2, <1>3, <1>7 DEF RankIn, Said, Weighed
<1>12. Placed(r, x)'
  BY <1>1, <1>2, <1>3, <1>7 DEF RankIn, Placed, LastPlaces, Updating
<1>13. Works(r, x)' /\ Simulates(r, x)'
  BY <1>2 DEF Works, Simulates, Reporting, Updating, Sweeping, Writing
<1>14. CountsTo(r, x)'
  BY <1>1, <1>2, <1>3 DEF RankIn, CountsTo, Reporting, Updating, Sweeping, Writing
<1>15. \A q \in Ranks \ {r} : Still(q)
  BY DEF Quit, Takes, Pop, Goes, Types, Still
<1> QED
  BY <1>2, <1>10, <1>11, <1>12, <1>13, <1>14, <1>15 DEF RankIn

LEMMA AcceptNewChainKeeps ==
  ASSUME Types, NEW r \in Ranks, NEW x \in Paths, SetIn(SetOf(r), x), AcceptNewChain(r)
  PROVE  RankIn(r, x)' /\ pc[r] # "rename" /\ pc'[r] # "rename" /\ \A q \in Ranks \ {r} : Still(q)
<1> DEFINE g == SetOf(r)
           i == ChainRank(r)
           m == Head(toSlave[r])
<1>1. RankIn(r, x) /\ Path(x) /\ Seated(g, x) /\ FindFiles(g, x)
  BY DEF SetIn, SetRanks
<1>2. /\ pc[r] = "accept" /\ toSlave[r] # << >> /\ m.task >= 0
      /\ toSlave'[r] = Tail(toSlave[r]) /\ toMaster' = toMaster
      /\ since' = since /\ bcast' = bcast
      /\ task'[r] = m.task /\ run'[r] = m.run /\ before'[r] = m.before
  BY DEF AcceptNewChain, Takes, At, HeadIs, Pop, Goes, Types
<1>3. x.kind = "start" \/ (x.kind = "report" /\ x.act \in {"process", "new_job"})
  BY <1>1, <1>2, WhereIs DEF RankIn
<1>4. toSlave[r] = ToJob(r, x)
  BY <1>1, <1>2 DEF RankIn, Queue
<1>5. x.job # "none" /\ m = JobFor(r, x) /\ toSlave'[r] = ToResp(r, x)
  BY <1>1, <1>2, <1>3, <1>4, JobNext
<1>6. x.job = "job"
  BY <1>2, <1>5 DEF JobFor, JobMsg, Paths, NoTask
<1>7. /\ ChainAt(g) \in Chains /\ RunAt(g) \in RunIds /\ i \in Members /\ g \in Sets
  BY <1>1, <1>6, RunIs, SeatIs DEF HasRun
<1>8. /\ m.task = TaskOf(ChainAt(g), i) /\ m.run = RunAt(g) /\ m.before = x.b
      /\ m.task \in ChainTasks(ChainAt(g)) /\ m.task \in Tasks
  BY <1>5, <1>6, <1>7, TaskIs DEF JobFor, JobMsg
<1> HIDE DEF m
<1>9. x.way \in {"sweep", "write"} /\ x.held[i] = i
  BY <1>1, <1>6, <1>7 DEF Path, Identity
<1>10. since[r] = 0 /\ bcast[r] = "none" /\ reason[r] = "report" /\ toMaster[r] = << >>
  BY <1>1, <1>2, <1>3 DEF RankIn, CountsTo, Writing, Updating, Said, Weighed
<1>11. /\ sys'[r].sweep = x.w /\ sys'[r].spgu = Spgu[m.task]
       /\ \/ pc'[r] = "sweep" /\ x.way = "sweep" /\ reason'[r] = "report"
          \/ pc'[r] = "write" /\ x.way = "write" /\ reason'[r] = "fresh"
  <2>1. CASE m.run \in DOMAIN dump[m.task]
    <3>1. sys'[r] = [NewSys(m.task) EXCEPT !.sweep = SweepOf(dump[m.task][m.run])]
      BY <2>1 DEF AcceptNewChain, Types, m
    <3>2. pc'[r] = LoopHead(since[r], m.before) /\ reason' = reason
      BY <2>1 DEF AcceptNewChain, Goes, Types, m
    <3>3. x.way = "sweep" /\ SweepOf(dump[m.task][m.run]) = x.w
      BY <1>1, <1>6, <1>8, <1>9, <2>1 DEF FindFiles
    <3>4. pc'[r] = "sweep"
      BY <1>8, <1>10, <3>2 DEF LoopHead, Paths
    <3> QED
      BY <1>10, <3>1, <3>2, <3>3, <3>4 DEF NewSys
  <2>2. CASE m.run \notin DOMAIN dump[m.task]
    <3>1. sys'[r] = NewSys(m.task) /\ pc'[r] = "write" /\ reason'[r] = "fresh"
      BY <2>2 DEF AcceptNewChain, Goes, Types, m
    <3>2. x.way = "write" /\ x.w = 0
      BY <1>1, <1>6, <1>8, <1>9, <2>2 DEF FindFiles
    <3> QED
      BY <3>1, <3>2 DEF NewSys
  <2> QED
    BY <2>1, <2>2
<1>12. RunStill(g)
  BY MasterStill DEF AcceptNewChain
<1>13. toSlave'[r] = Queue(r, x)'
  BY <1>5, <1>11, <1>12, QueuesStill DEF Queue
<1>14. Said(r, x)'
  BY <1>2, <1>3, <1>10, <1>11 DEF Said, Weighed
<1>15. Placed(r, x)'
  BY <1>1, <1>2, <1>3, <1>11 DEF RankIn, Placed, LastPlaces, Sweeping, Writing
<1>16. Works(r, x)'
  BY <1>2, <1>8, <1>9, <1>11, <1>12, QueuesStill
  DEF Works, Reporting, Updating, Sweeping, Writing
<1>17. Simulates(r, x)'
  BY <1>2, <1>11 DEF Simulates, Updating, Sweeping, Writing
<1>18. CountsTo(r, x)'
  BY <1>2, <1>3, <1>8, <1>10, <1>11
  DEF CountsTo, Reason, Updating, Sweeping, Writing
<1>19. \A q \in Ranks \ {r} : Still(q)
  BY DEF AcceptNewChain, Takes, Pop, Goes, Types, Still
<1> QED
  BY <1>2, <1>11, <1>13, <1>14, <1>15, <1>16, <1>17, <1>18, <1>19 DEF RankIn

LEMMA SweepsKeeps ==
  ASSUME Types, Together, NEW r \in Ranks, NEW x \in Paths, SetIn(SetOf(r), x), Sweeps(r)
  PROVE  RankIn(r, x)' /\ pc[r] # "rename" /\ pc'[r] # "rename" /\ \A q \in Ranks \ {r} : Still(q)
<1> DEFINE g == SetOf(r)
           i == ChainRank(r)
           new == (sys[r].sweep \div Spgu[task[r]] + 1) * Spgu[task[r]]
<1>1. RankIn(r, x) /\ Path(x) /\ Seated(g, x)
  BY DEF SetIn, SetRanks
<1>2. /\ pc[r] = "sweep" /\ pc'[r] = "response" /\ toSlave' = toSlave
      /\ UNCHANGED <<task, run, since, before, reason, partner, bcast>>
      /\ toMaster'[r] = IF IsRoot(r) THEN Append(toMaster[r], Status("ready")) ELSE toMaster[r]
  BY DEF Sweeps, At, Push, Goes, Types
<1>21. sys'[r].sweep = new /\ sys'[r].spgu = sys[r].spgu
  <2>1. sys \in [Ranks -> Simulations] /\ sys[r] \in Simulations
    BY DEF Types
  <2>2. \E n, of : sys' = [sys EXCEPT ![r].sweep = new, ![r].buf.n = n, ![r].buf.of = of]
    BY DEF Sweeps
  <2> HIDE DEF new
  <2> QED
    BY <2>1, <2>2 DEF Simulations
<1>3. x.way = "sweep" /\ HasRun(x) /\ (x.kind = "update" => x.first = "sent")
  BY <1>1, <1>2, WhereIs, RunThere DEF RankIn, Sweeping, Placed, Paths, Flag
<1>4. ChainAt(g) \in Chains /\ x.held[i] \in Members /\ i \in Members
  BY <1>1, <1>3, RunIs, SeatIs DEF Paths
<1>5. task[r] = TaskOf(ChainAt(g), x.held[i]) /\ task[r] \in Tasks /\ ChainOf(task[r]) = ChainAt(g)
  BY <1>1, <1>2, <1>4, TaskIs DEF RankIn, Works, Sweeping
<1>6. Spgu[task[r]] = Period(ChainAt(g)) /\ sys[r].sweep = x.w
  BY <1>1, <1>2, <1>5, PeriodIs DEF RankIn, Simulates
<1>7. sys'[r].sweep = NextUpdate(x.w, ChainAt(g))
  BY <1>21, <1>6 DEF NextUpdate
<1>8. toMaster[r] = << >> /\ (IsRoot(r) => x.resp = "none")
  BY <1>1, <1>2, <1>3 DEF RankIn, Said, Weighed, Placed, Paths, Flag
<1>9. RunStill(g)
  BY MasterStill DEF Sweeps
<1>10. toSlave'[r] = Queue(r, x)'
  BY <1>1, <1>2, <1>9, QueuesStill DEF RankIn, Queue
<1>11. Said(r, x)'
  BY <1>2, <1>3, <1>8 DEF Said, Weighed
<1>12. Placed(r, x)'
  BY <1>1, <1>2, <1>3 DEF RankIn, Placed, LastPlaces, Sweeping, Updating
<1>13. Works(r, x)'
  BY <1>1, <1>2, <1>9, QueuesStill DEF RankIn, Works, Reporting, Updating, Sweeping, Writing
<1>14. Simulates(r, x)'
  BY <1>1, <1>2, <1>21, <1>7, <1>9, QueuesStill DEF RankIn, Simulates, Updating, Sweeping, Writing
<1>15. CountsTo(r, x)'
  BY <1>1, <1>2, <1>9, QueuesStill DEF RankIn, CountsTo, Updating, Sweeping, Writing
<1>16. \A q \in Ranks \ {r} : Still(q)
  BY DEF Sweeps, Push, Goes, Types, Still
<1> QED
  BY <1>2, <1>10, <1>11, <1>12, <1>13, <1>14, <1>15, <1>16 DEF RankIn

LEMMA RespondKeeps ==
  ASSUME Types, NEW r \in Ranks, NEW x \in Paths, SetIn(SetOf(r), x), Respond(r)
  PROVE  RankIn(r, x)' /\ pc[r] # "rename" /\ pc'[r] # "rename" /\ \A q \in Ranks \ {r} : Still(q)
<1> DEFINE g == SetOf(r)
<1>1. RankIn(r, x) /\ Path(x) /\ Seated(g, x)
  BY DEF SetIn, SetRanks
<1>2. /\ pc[r] = "response" /\ pc'[r] = "update_barrier" /\ toSlave[r] # << >>
      /\ toSlave'[r] = Tail(toSlave[r])
      /\ UNCHANGED <<task, run, since, before, reason, partner, bcast, sys>>
      /\ toMaster'[r] = toMaster[r] \o Answer(Head(toSlave[r]).action)
  BY DEF Respond, Takes, HeadIs, At, Pop, Goes, Types
<1>3. x.way = "sweep" /\ (x.kind = "update" => x.first = "sent")
  BY <1>1, <1>2, WhereIs DEF RankIn, Sweeping, Placed, Paths, Flag
<1>4. toSlave[r] = ToResp(r, x)
  BY <1>1, <1>2 DEF RankIn, Queue
<1>5. x.resp = "sent" /\ Head(toSlave[r]) = RespFor(r, x) /\ toSlave'[r] = ToSwap(r, x)
  BY <1>1, <1>2, <1>4, RespNext
<1>6. toMaster[r] = << >>
  BY <1>1, <1>2, <1>3, <1>5 DEF RankIn, Said, Weighed
<1>7. toMaster'[r] = IF x.swap = "none" /\ Asked(r) THEN <<Status("weight")>> ELSE << >>
  BY <1>2, <1>5, <1>6 DEF Answer, RespFor, Response
<1>8. RunStill(g)
  BY MasterStill DEF Respond
<1>9. toSlave'[r] = Queue(r, x)'
  BY <1>2, <1>5, <1>8, QueuesStill DEF Queue
<1>10. Said(r, x)'
  BY <1>2, <1>3, <1>5, <1>7, <1>8, QueuesStill DEF Said, Weighed
<1>11. Placed(r, x)'
  BY <1>1, <1>2, <1>3, <1>5 DEF RankIn, Placed, LastPlaces, Sweeping, Updating
<1>12. Works(r, x)'
  BY <1>1, <1>2, <1>8, QueuesStill DEF RankIn, Works, Reporting, Updating, Sweeping, Writing
<1>13. Simulates(r, x)'
  BY <1>1, <1>2, <1>8, QueuesStill DEF RankIn, Simulates, Updating, Sweeping, Writing
<1>14. CountsTo(r, x)'
  BY <1>1, <1>2, <1>8, QueuesStill DEF RankIn, CountsTo, Updating, Sweeping, Writing
<1>15. \A q \in Ranks \ {r} : Still(q)
  BY DEF Respond, Takes, Pop, Goes, Types, Still
<1> QED
  BY <1>2, <1>9, <1>10, <1>11, <1>12, <1>13, <1>14, <1>15 DEF RankIn

LEMMA PartnerIs ==
  ASSUME NEW g \in Sets, NEW from, NEW to, NEW i \in Members,
         Permutation(from, ChainLen), to[i] \in Members
  PROVE  LET q == Partner(g, from, to, i)
         IN  /\ q \in Ranks /\ SetOf(q) = g /\ ChainRank(q) \in Members
             /\ from[ChainRank(q)] = to[i]
<1> DEFINE j == CHOOSE q \in Members : from[q] = to[i]
<1>1. \E q \in Members : from[q] = to[i]
  BY DEF Permutation, Members
<1>2. j \in Members /\ from[j] = to[i]
  BY <1>1
<1> HIDE DEF j
<1>3. Partner(g, from, to, i) = g * ChainLen + j
  BY DEF Partner, j
<1> QED
  BY <1>2, <1>3, RankAt

\* What holds of a rank in pt_global_update after the barrier.
LEMMA UpdatingIs ==
  ASSUME Types, Together, NEW r \in Ranks, NEW x \in Paths, SetIn(SetOf(r), x),
         pc[r] \in Updating
  PROVE  LET c == ChainAt(SetOf(r))
             i == ChainRank(r)
         IN  /\ RankIn(r, x) /\ Path(x) /\ Seated(SetOf(r), x)
             /\ x.kind = "update" /\ HasRun(x) /\ c \in Chains /\ i \in Members
             /\ x.was[i] \in Members /\ x.held[i] \in Members
             /\ sys[r].sweep = x.w /\ sys[r].spgu = Period(c)
             /\ task[r] \in {TaskOf(c, x.was[i]), TaskOf(c, x.held[i])}
             /\ task[r] \in Tasks /\ ChainOf(task[r]) = c
             /\ pc[r] \in {"swap", "exchange"} => Counted(r) = SinceThen(x, c)
<1> DEFINE c == ChainAt(SetOf(r))
           i == ChainRank(r)
<1>1. RankIn(r, x) /\ Path(x) /\ Seated(SetOf(r), x)
  BY DEF SetIn, SetRanks
<1>2. x.kind = "update" /\ HasRun(x)
  BY <1>1, WhereIs, RunThere DEF RankIn
<1>3. c \in Chains /\ i \in Members /\ x.was[i] \in Members /\ x.held[i] \in Members
  BY <1>1, <1>2, RunIs, SeatIs DEF Paths
<1>4. task[r] \in {TaskOf(c, x.was[i]), TaskOf(c, x.held[i])}
  BY <1>1 DEF RankIn, Works, Updating
<1>5. task[r] \in Tasks /\ ChainOf(task[r]) = c
  BY <1>3, <1>4, TaskIs
<1>6. sys[r].sweep = x.w /\ sys[r].spgu = Spgu[task[r]]
  BY <1>1 DEF RankIn, Simulates
<1>7. sys[r].spgu = Period(c)
  BY <1>5, <1>6, PeriodIs
<1>8. pc[r] \in {"swap", "exchange"} => since[r] = x.s
  BY <1>1, <1>2 DEF RankIn, CountsTo
<1>9. pc[r] \in {"swap", "exchange"} => Counted(r) = SinceThen(x, c)
  BY <1>2, <1>5, <1>6, <1>7, <1>8 DEF Counted, SinceThen, Counts
<1> HIDE DEF c, i
<1>10. QED
  BY <1>1, <1>2, <1>3, <1>4, <1>5, <1>6, <1>7, <1>9 DEF c, i

LEMMA KeepTaskKeeps ==
  ASSUME Types, Together, NEW r \in Ranks, NEW x \in Paths, SetIn(SetOf(r), x), KeepTask(r)
  PROVE  RankIn(r, x)' /\ pc[r] # "rename" /\ pc'[r] # "rename" /\ \A q \in Ranks \ {r} : Still(q)
<1> DEFINE g == SetOf(r)
           i == ChainRank(r)
<1>1. /\ pc[r] = "swap" /\ pc'[r] = "negotiate" /\ toSlave[r] # << >>
      /\ toSlave'[r] = Tail(toSlave[r]) /\ Head(toSlave[r]).task = task[r]
      /\ UNCHANGED <<task, run, before, reason, partner, bcast, sys, toMaster>>
      /\ since'[r] = Counted(r)
  BY DEF KeepTask, Takes, HeadIs, At, Pop, Goes, Types
<1>2. /\ RankIn(r, x) /\ Path(x) /\ x.kind = "update"
      /\ Counted(r) = SinceThen(x, ChainAt(g))
  BY <1>1, UpdatingIs DEF Updating
<1>3. toSlave[r] = ToFirst(r, x)
  BY <1>1, <1>2 DEF RankIn, Queue
<1>4. x.first = "sent" /\ Head(toSlave[r]) = SwapFor(r, x.was, x.held)
      /\ toSlave'[r] = ToResp(r, x)
  BY <1>1, <1>2, <1>3, FirstNext
<1>5. task[r] = TaskOf(ChainAt(g), x.held[i])
  BY <1>1, <1>4 DEF SwapFor, SwapMsg
<1>6. RunStill(g)
  BY MasterStill DEF KeepTask
<1>7. toSlave'[r] = Queue(r, x)'
  BY <1>1, <1>4, <1>6, QueuesStill DEF Queue
<1>8. Said(r, x)'
  BY <1>1, <1>2, <1>4 DEF RankIn, Said, Weighed
<1>9. Placed(r, x)'
  BY <1>1, <1>2, <1>4 DEF RankIn, Placed, FirstPlaces, LastPlaces, Sweeping, Writing, Updating
<1>10. Works(r, x)'
  BY <1>1, <1>2, <1>5, <1>6, QueuesStill DEF RankIn, Works, Reporting, Updating, Sweeping, Writing
<1>11. Simulates(r, x)'
  BY <1>1, <1>2, <1>6, QueuesStill DEF RankIn, Simulates, Updating, Sweeping, Writing
<1>12. CountsTo(r, x)'
  BY <1>1, <1>2, <1>6, QueuesStill DEF RankIn, CountsTo, Updating, Sweeping, Writing
<1>13. \A q \in Ranks \ {r} : Still(q)
  BY DEF KeepTask, Takes, Pop, Goes, Types, Still
<1> QED
  BY <1>1, <1>7, <1>8, <1>9, <1>10, <1>11, <1>12, <1>13 DEF RankIn

LEMMA ChangeTaskKeeps ==
  ASSUME Types, Together, NEW r \in Ranks, NEW x \in Paths, SetIn(SetOf(r), x), ChangeTask(r)
  PROVE  RankIn(r, x)' /\ pc[r] # "rename" /\ pc'[r] # "rename" /\ \A q \in Ranks \ {r} : Still(q)
<1> DEFINE g == SetOf(r)
           i == ChainRank(r)
<1>1. /\ pc[r] = "swap" /\ pc'[r] = "exchange" /\ toSlave[r] # << >>
      /\ toSlave'[r] = Tail(toSlave[r])
      /\ UNCHANGED <<run, since, before, reason, bcast, sys, toMaster>>
      /\ task'[r] = Head(toSlave[r]).task /\ partner'[r] = Head(toSlave[r]).partner
  BY DEF ChangeTask, Takes, HeadIs, At, Pop, Goes, Types
<1>2. /\ RankIn(r, x) /\ Path(x) /\ x.kind = "update"
      /\ ChainAt(g) \in Chains /\ x.held[i] \in Members /\ sys[r].spgu = Period(ChainAt(g))
  BY <1>1, UpdatingIs DEF Updating
<1>3. toSlave[r] = ToFirst(r, x)
  BY <1>1, <1>2 DEF RankIn, Queue
<1>4. x.first = "sent" /\ Head(toSlave[r]) = SwapFor(r, x.was, x.held)
      /\ toSlave'[r] = ToResp(r, x)
  BY <1>1, <1>2, <1>3, FirstNext
<1>5. task'[r] = TaskOf(ChainAt(g), x.held[i]) /\ partner'[r] = Partner(g, x.was, x.held, i)
  BY <1>1, <1>4 DEF SwapFor, SwapMsg
<1>6. Spgu[task'[r]] = Period(ChainAt(g))
  BY <1>2, <1>5, TaskIs, PeriodIs
<1>7. RunStill(g)
  BY MasterStill DEF ChangeTask
<1>8. toSlave'[r] = Queue(r, x)'
  BY <1>1, <1>4, <1>7, QueuesStill DEF Queue
<1>9. Said(r, x)'
  BY <1>1, <1>2, <1>4 DEF RankIn, Said, Weighed
<1>10. Placed(r, x)'
  BY <1>1, <1>2, <1>4 DEF RankIn, Placed, FirstPlaces, LastPlaces, Sweeping, Writing, Updating
<1>11. Works(r, x)'
  BY <1>1, <1>2, <1>5, <1>7, QueuesStill
  DEF RankIn, Works, Reporting, Updating, Sweeping, Writing, Partner
<1>12. Simulates(r, x)'
  BY <1>1, <1>2, <1>6, <1>7, QueuesStill DEF RankIn, Simulates, Updating, Sweeping, Writing
<1>13. CountsTo(r, x)'
  BY <1>1, <1>2, <1>7, QueuesStill DEF RankIn, CountsTo, Updating, Sweeping, Writing
<1>14. \A q \in Ranks \ {r} : Still(q)
  BY DEF ChangeTask, Takes, Pop, Goes, Types, Still
<1> QED
  BY <1>1, <1>8, <1>9, <1>10, <1>11, <1>12, <1>13, <1>14 DEF RankIn

\* Both ranks of an exchange are in the set.
LEMMA ExchangeKeeps ==
  ASSUME Types, Together, NEW r \in Ranks, NEW q \in Ranks, NEW x \in Paths,
         SetIn(SetOf(r), x), Exchange(r, q)
  PROVE  /\ SetOf(q) = SetOf(r) /\ RankIn(r, x)' /\ RankIn(q, x)'
         /\ \A p \in {r, q} : pc[p] # "rename" /\ pc'[p] # "rename"
         /\ \A p \in Ranks \ {r, q} : Still(p)
<1> DEFINE g == SetOf(r)
<1>1. /\ pc[r] = "exchange" /\ pc[q] = "exchange" /\ partner[r] = q
      /\ pc' = [pc EXCEPT ![r] = "negotiate", ![q] = "negotiate"]
      /\ since' = [since EXCEPT ![r] = Counted(r), ![q] = Counted(q)]
      /\ sys' = [sys EXCEPT ![r].buf = sys[q].buf, ![q].buf = sys[r].buf]
      /\ UNCHANGED <<task, run, before, reason, partner, bcast, toMaster, toSlave>>
  BY DEF Exchange, At, Exchanged, netVars
<1>2. SetOf(q) = g
  <2>1. /\ RankIn(r, x) /\ Path(x) /\ x.held[ChainRank(r)] \in Members
        /\ ChainRank(r) \in Members /\ g \in Sets
    BY <1>1, UpdatingIs, SeatIs DEF Updating
  <2>2. q = Partner(g, x.was, x.held, ChainRank(r))
    BY <1>1, <2>1 DEF RankIn, Works
  <2> QED
    BY <2>1, <2>2, PartnerIs DEF Path
<1>3. RunStill(g)
  BY MasterStill DEF Exchange
<1>4. ASSUME NEW p \in {r, q}
      PROVE  RankIn(p, x)' /\ pc[p] # "rename" /\ pc'[p] # "rename"
  <2>1. p \in Ranks /\ SetOf(p) = g /\ SetIn(SetOf(p), x) /\ pc[p] = "exchange"
    BY <1>1, <1>2
  <2>2. /\ RankIn(p, x) /\ x.kind = "update" /\ Counted(p) = SinceThen(x, ChainAt(g))
    BY <2>1, UpdatingIs DEF Updating
  <2>3. pc'[p] = "negotiate" /\ since'[p] = Counted(p)
    BY <1>1, <2>1 DEF Types
  <2>4. sys'[p].sweep = sys[p].sweep /\ sys'[p].spgu = sys[p].spgu
    <3>1. sys \in [Ranks -> Simulations]
      BY DEF Types
    <3> QED
      BY <1>1, <2>1, <3>1 DEF Simulations
  <2>5. Queue(p, x)' = Queue(p, x)
    BY <2>1, <2>3, <1>3, QueuesStill DEF Queue
  <2>6. Said(p, x)'
    BY <1>1, <2>1, <2>2, <2>3 DEF RankIn, Said, Weighed, Placed, Paths, Flag
  <2>7. Placed(p, x)'
    BY <2>1, <2>2, <2>3
    DEF RankIn, Placed, FirstPlaces, LastPlaces, Sweeping, Writing, Updating
  <2>8. Works(p, x)'
    BY <1>1, <1>3, <2>1, <2>2, <2>3, QueuesStill
    DEF RankIn, Works, Reporting, Updating, Sweeping, Writing
  <2>9. Simulates(p, x)'
    BY <1>1, <1>3, <2>1, <2>2, <2>3, <2>4, QueuesStill
    DEF RankIn, Simulates, Updating, Sweeping, Writing
  <2>10. CountsTo(p, x)'
    BY <1>1, <1>3, <2>1, <2>2, <2>3, QueuesStill
    DEF RankIn, CountsTo, Updating, Sweeping, Writing
  <2> QED
    BY <1>1, <2>1, <2>2, <2>3, <2>5, <2>6, <2>7, <2>8, <2>9, <2>10 DEF RankIn
<1>5. ASSUME NEW p \in Ranks \ {r, q} PROVE Still(p)
  BY <1>1 DEF Types, Still
<1> QED
  BY <1>2, <1>4, <1>5

LEMMA HearTimeoutKeeps ==
  ASSUME Types, Together, NEW r \in Ranks, NEW x \in Paths, SetIn(SetOf(r), x), HearTimeout(r)
  PROVE  RankIn(r, x)' /\ pc[r] # "rename" /\ pc'[r] # "rename" /\ \A q \in Ranks \ {r} : Still(q)
<1> DEFINE g == SetOf(r)
<1>1. /\ pc[r] = "negotiate" /\ ~IsRoot(r) /\ bcast[r] # "none" /\ bcast'[r] = "none"
      /\ UNCHANGED <<task, run, since, before, partner, sys, toMaster, toSlave>>
      /\ Obey(r, bcast[r])
  BY DEF HearTimeout, At, Heard, Types, netVars
<1>2. /\ RankIn(r, x) /\ Path(x) /\ Seated(g, x) /\ x.kind = "update" /\ HasRun(x)
  BY <1>1, UpdatingIs DEF Updating
<1>3. /\ bcast[r] = x.dec /\ since[r] = SinceThen(x, ChainAt(g)) /\ before[r] = x.b
      /\ reason[r] = "report"
  BY <1>1, <1>2 DEF RankIn, CountsTo, Updating, Writing
<1>4. x.first = "sent" /\ x.way \in {"sweep", "write"}
  BY <1>1, <1>2, <1>3 DEF Path
<1>5. x.way = "sweep" <=> x.dec = "continue" /\ SinceThen(x, ChainAt(g)) < x.b
  BY <1>1, <1>2, <1>3 DEF Seated
<1>6. \/ pc'[r] = "sweep" /\ x.way = "sweep" /\ reason'[r] = "report"
      \/ pc'[r] = "write" /\ x.way = "write" /\ reason'[r] = Reason(x)
  <2>1. CASE x.dec = "continue"
    <3>1. pc'[r] = LoopHead(since[r], before[r]) /\ reason' = reason
      BY <1>1, <1>3, <2>1 DEF Obey, Goes, Types
    <3> QED
      BY <1>2, <1>3, <1>4, <1>5, <2>1, <3>1 DEF LoopHead, Reason
  <2>2. CASE x.dec # "continue"
    <3>1. pc'[r] = "write" /\ reason'[r] = IF x.dec = "timeup" THEN "timeup" ELSE "report"
      BY <1>1, <1>3, <2>2 DEF Obey, Goes, Types
    <3> QED
      BY <1>2, <1>4, <1>5, <2>2, <3>1 DEF Reason
  <2> QED
    BY <2>1, <2>2
<1>7. RunStill(g)
  BY MasterStill DEF HearTimeout
<1>8. toSlave'[r] = Queue(r, x)'
  BY <1>1, <1>2, <1>6, <1>7, QueuesStill DEF RankIn, Queue
<1>9. Said(r, x)'
  BY <1>1, <1>2, <1>4, <1>6 DEF RankIn, Said, Weighed
<1>10. Placed(r, x)'
  BY <1>1, <1>2, <1>4, <1>6 DEF RankIn, Placed, LastPlaces, Sweeping, Writing, Updating
<1>11. Works(r, x)'
  BY <1>1, <1>2, <1>6, <1>7, QueuesStill DEF RankIn, Works, Reporting, Updating, Sweeping, Writing
<1>12. Simulates(r, x)'
  BY <1>1, <1>2, <1>6, <1>7, QueuesStill DEF RankIn, Simulates, Updating, Sweeping, Writing
<1>13. CountsTo(r, x)'
  BY <1>1, <1>2, <1>3, <1>6, <1>7, QueuesStill DEF RankIn, CountsTo, Updating, Sweeping, Writing
<1>14. \A q \in Ranks \ {r} : Still(q)
  BY DEF HearTimeout, Obey, Goes, Types, Still, netVars
<1> QED
  BY <1>1, <1>6, <1>8, <1>9, <1>10, <1>11, <1>12, <1>13, <1>14 DEF RankIn

LEMMA WriteTemporaryKeeps ==
  ASSUME Types, NEW r \in Ranks, NEW x \in Paths, SetIn(SetOf(r), x), WriteTemporary(r)
  PROVE  RankIn(r, x)' /\ pc[r] # "rename" /\ pc'[r] # "rename" /\ \A q \in Ranks \ {r} : Still(q)
<1> DEFINE g == SetOf(r)
<1>1. /\ pc[r] = "write" /\ pc'[r] = "write_barrier"
      /\ UNCHANGED <<task, run, since, before, reason, partner, bcast, sys, toMaster, toSlave>>
  BY DEF WriteTemporary, At, Goes, AfterWrite, Types, netVars
<1>2. RankIn(r, x) /\ Path(x) /\ x.way = "write"
  BY <1>1, WhereIs DEF RankIn, SetIn, SetRanks, Writing
<1>3. RunStill(g)
  BY MasterStill DEF WriteTemporary
<1>4. toSlave'[r] = Queue(r, x)'
  BY <1>1, <1>2, <1>3, QueuesStill DEF RankIn, Queue
<1>5. Said(r, x)'
  BY <1>1, <1>2, <1>3, QueuesStill DEF RankIn, Said, Weighed
<1>6. Placed(r, x)'
  BY <1>1, <1>2 DEF RankIn, Placed, LastPlaces, Sweeping, Writing, Updating
<1>7. Works(r, x)'
  BY <1>1, <1>2, <1>3, QueuesStill DEF RankIn, Works, Reporting, Updating, Sweeping, Writing
<1>8. Simulates(r, x)'
  BY <1>1, <1>2, <1>3, QueuesStill DEF RankIn, Simulates, Updating, Sweeping, Writing
<1>9. CountsTo(r, x)'
  BY <1>1, <1>2, <1>3, QueuesStill DEF RankIn, CountsTo, Updating, Sweeping, Writing
<1>10. \A q \in Ranks \ {r} : Still(q)
  BY DEF WriteTemporary, Goes, Types, Still, netVars
<1> QED
  BY <1>1, <1>4, <1>5, <1>6, <1>7, <1>8, <1>9, <1>10 DEF RankIn

LEMMA TakeActionKeeps ==
  ASSUME Types, NEW r \in Ranks, NEW x \in Paths, SetIn(SetOf(r), x), TakeAction(r)
  PROVE  RankIn(r, x)' /\ pc[r] # "rename" /\ pc'[r] # "rename" /\ \A q \in Ranks \ {r} : Still(q)
<1> DEFINE g == SetOf(r)
           i == ChainRank(r)
           a == Head(toSlave[r]).action
<1>1. /\ pc[r] = "action" /\ toSlave[r] # << >> /\ toSlave'[r] = Tail(toSlave[r])
      /\ UNCHANGED <<task, run, since, before, reason, partner, bcast, sys, toMaster>>
      /\ pc'[r] = IF a = "continue" THEN LoopHead(since[r], before[r])
                  ELSE IF a = "process" THEN "merge" ELSE "accept"
  BY DEF TakeAction, Takes, HeadIs, At, Pop, Goes, Types
<1>2. RankIn(r, x) /\ Path(x) /\ Seated(g, x) /\ x.kind = "report"
  BY <1>1, WhereIs DEF RankIn, SetIn, SetRanks
<1>3. toSlave[r] = ToAction(r, x)
  BY <1>1, <1>2 DEF RankIn, Queue
<1>4. x.act # "none" /\ a = x.act /\ toSlave'[r] = ToJob(r, x)
  BY <1>1, <1>2, <1>3, ActionNext DEF ActionMsg
<1> HIDE DEF a
<1>5. since[r] = 0 /\ (x.job = "none" => before[r] = x.b)
  BY <1>1, <1>2 DEF RankIn, CountsTo
<1>6. \/ /\ x.act = "continue" /\ pc'[r] = "sweep"
         /\ x.job = "none" /\ x.way = "sweep" /\ x.first = "none" /\ HasRun(x)
         /\ x.own = setRun[g] /\ x.was = x.held /\ x.u = x.w
      \/ x.act = "process" /\ pc'[r] = "merge"
      \/ x.act = "new_job" /\ pc'[r] = "accept"
  <2>1. CASE x.act = "continue"
    <3>1. x.job = "none" /\ x.way = "sweep" /\ x.first = "none"
      BY <1>2, <2>1 DEF Path, Paths, Flag
    <3>2. pc'[r] = "sweep"
      BY <1>1, <1>4, <1>5, <2>1, <3>1 DEF LoopHead, Paths
    <3>3. x.own = setRun[g] /\ x.was = x.held /\ x.u = x.w /\ HasRun(x)
      BY <1>2, <3>1 DEF Path, Seated, HasRun
    <3> QED
      BY <2>1, <3>1, <3>2, <3>3
  <2>2. CASE x.act # "continue"
    BY <1>1, <1>4, <2>2 DEF Paths
  <2> QED
    BY <2>1, <2>2
<1>7. RunStill(g)
  BY MasterStill DEF TakeAction
<1>8. toSlave'[r] = Queue(r, x)'
  BY <1>1, <1>4, <1>6, <1>7, QueuesStill DEF Queue, ToJob, Ahead
<1>9. Said(r, x)'
  BY <1>1, <1>2, <1>4, <1>6 DEF RankIn, Said, Weighed
<1>10. Placed(r, x)'
  BY <1>1, <1>2, <1>4, <1>6
  DEF RankIn, Placed, FirstPlaces, LastPlaces, Sweeping, Reporting, Updating
<1>11. Works(r, x)'
  <2>1. x.own = setRun[g] => x.own[1] = ChainAt(g) /\ x.own[2] = RunAt(g)
    BY DEF ChainAt, RunAt
  <2> QED
    BY <1>1, <1>2, <1>6, <1>7, <2>1, QueuesStill
    DEF RankIn, Works, Reporting, Updating, Sweeping, Writing
<1>12. Simulates(r, x)'
  BY <1>1, <1>2, <1>6, <1>7, QueuesStill DEF RankIn, Simulates, Updating, Sweeping, Writing
<1>13. CountsTo(r, x)'
  BY <1>1, <1>2, <1>5, <1>6, <1>7, QueuesStill DEF RankIn, CountsTo, Updating, Sweeping, Writing
<1>14. \A q \in Ranks \ {r} : Still(q)
  BY DEF TakeAction, Takes, Pop, Goes, Types, Still
<1> QED
  BY <1>1, <1>6, <1>8, <1>9, <1>10, <1>11, <1>12, <1>13, <1>14 DEF RankIn

LEMMA MergeMeasurementsKeeps ==
  ASSUME Types, NEW r \in Ranks, NEW x \in Paths, SetIn(SetOf(r), x), MergeMeasurements(r)
  PROVE  RankIn(r, x)' /\ pc[r] # "rename" /\ pc'[r] # "rename" /\ \A q \in Ranks \ {r} : Still(q)
<1> DEFINE g == SetOf(r)
<1>1. /\ pc[r] = "merge" /\ pc'[r] = "accept"
      /\ UNCHANGED <<task, run, since, before, reason, partner, bcast, sys, toMaster, toSlave>>
  BY DEF MergeMeasurements, At, Goes, Types, netVars
<1>2. RankIn(r, x) /\ Path(x) /\ x.kind = "report" /\ x.act = "process"
  BY <1>1, WhereIs DEF RankIn, SetIn, SetRanks
<1>3. RunStill(g)
  BY MasterStill DEF MergeMeasurements
<1>4. toSlave'[r] = Queue(r, x)'
  BY <1>1, <1>2, <1>3, QueuesStill DEF RankIn, Queue
<1>5. Said(r, x)'
  BY <1>1, <1>2, <1>3, QueuesStill DEF RankIn, Said, Weighed
<1>6. Placed(r, x)'
  BY <1>1, <1>2 DEF RankIn, Placed, FirstPlaces, Reporting, Updating
<1>7. Works(r, x)'
  BY <1>1, <1>2, <1>3, QueuesStill DEF RankIn, Works, Reporting, Updating, Sweeping, Writing
<1>8. Simulates(r, x)'
  BY <1>1, <1>2, <1>3, QueuesStill DEF RankIn, Simulates, Updating, Sweeping, Writing
<1>9. CountsTo(r, x)'
  BY <1>1, <1>2, <1>3, QueuesStill DEF RankIn, CountsTo, Updating, Sweeping, Writing
<1>10. \A q \in Ranks \ {r} : Still(q)
  BY DEF MergeMeasurements, Goes, Types, Still, netVars
<1> QED
  BY <1>1, <1>4, <1>5, <1>6, <1>7, <1>8, <1>9, <1>10 DEF RankIn

\* What the rename does to the rank itself.
LEMMA RenamedSim ==
  ASSUME Types, NEW r \in Ranks, RenameFiles(r)
  PROVE  /\ sys'[r].sweep = sys[r].sweep /\ sys'[r].spgu = sys[r].spgu
         /\ \A q \in Ranks \ {r} : sys'[q] = sys[q]
<1>1. sys \in [Ranks -> Simulations] /\ sys' = [sys EXCEPT ![r].buf = NoBuf]
  BY DEF Types, RenameFiles
<1> QED
  BY <1>1 DEF Simulations

\* A rank that is about to rename.
LEMMA RenamingIs ==
  ASSUME Types, NEW r \in Ranks, NEW x \in Paths, SetIn(SetOf(r), x), pc[r] = "rename"
  PROVE  /\ RankIn(r, x) /\ Path(x) /\ Seated(SetOf(r), x) /\ LeaveFiles(SetOf(r), x)
         /\ x.kind \in {"fresh", "report", "timeup"} /\ reason[r] = x.kind
         /\ toMaster[r] = << >> /\ sys[r].sweep = x.u /\ sys[r].spgu = Spgu[task[r]]
         /\ task[r] = TaskOf(x.own[1], x.was[ChainRank(r)]) /\ run[r] = x.own[2]
         /\ bcast[r] = "none" /\ toSlave[r] = ToAction(r, x)
         /\ x.kind # "report" => x.job = "none" /\ x.act = "none" /\ x.first = "none"
<1>1. RankIn(r, x) /\ Path(x) /\ Seated(SetOf(r), x) /\ LeaveFiles(SetOf(r), x)
  BY DEF SetIn, SetRanks
<1>2. x.kind \in {"fresh", "report", "timeup"}
  BY <1>1, WhereIs DEF RankIn
<1>3. reason[r] = x.kind /\ bcast[r] = "none"
  BY <1>1, <1>2 DEF RankIn, CountsTo, Writing, Updating
<1>4. toMaster[r] = << >>
  BY <1>1, <1>2 DEF RankIn, Said, Weighed
<1>5. sys[r].sweep = x.u /\ sys[r].spgu = Spgu[task[r]]
  BY <1>1 DEF RankIn, Simulates
<1>6. task[r] = TaskOf(x.own[1], x.was[ChainRank(r)]) /\ run[r] = x.own[2]
  BY <1>1, <1>2 DEF RankIn, Works, Reporting
<1>7. toSlave[r] = ToAction(r, x)
  BY <1>1 DEF RankIn, Queue
<1>8. x.kind # "report" => x.job = "none" /\ x.act = "none" /\ x.first = "none"
  BY <1>1, <1>2 DEF Path, Paths, Flag
<1> QED
  BY <1>1, <1>2, <1>3, <1>4, <1>5, <1>6, <1>7, <1>8

LEMMA FinishFirstKeeps ==
  ASSUME Types, NEW r \in Ranks, NEW x \in Paths, SetIn(SetOf(r), x), FinishFirst(r)
  PROVE  RankIn(r, x)' /\ pc[r] = "rename" /\ pc'[r] # "rename" /\ \A q \in Ranks \ {r} : Still(q)
<1> DEFINE g == SetOf(r)
           i == ChainRank(r)
<1>1. /\ pc[r] = "rename" /\ reason[r] = "fresh" /\ reason'[r] = "report" /\ RenameFiles(r)
      /\ pc'[r] = LoopHead(since[r], before[r])
      /\ UNCHANGED <<task, run, since, before, partner, bcast, toMaster, toSlave>>
  BY DEF FinishFirst, At, Goes, Types, netVars
<1>2. /\ RankIn(r, x) /\ Path(x) /\ Seated(g, x) /\ x.kind = "fresh"
      /\ toMaster[r] = << >> /\ bcast[r] = "none" /\ toSlave[r] = ToAction(r, x)
      /\ x.job = "none" /\ x.act = "none" /\ x.first = "none"
  BY <1>1, RenamingIs
<1>3. since[r] = 0 /\ before[r] = x.b /\ x.way = "sweep"
  BY <1>1, <1>2 DEF RankIn, CountsTo, Path
<1>4. pc'[r] = "sweep"
  BY <1>1, <1>3 DEF LoopHead, Paths
<1>5. x.own[1] = ChainAt(g) /\ x.own[2] = RunAt(g) /\ x.was = x.held /\ x.u = x.w
  BY <1>2 DEF Seated, Path, ChainAt, RunAt
<1>6. RunStill(g)
  BY MasterStill DEF FinishFirst
<1>7. toSlave'[r] = Queue(r, x)'
  BY <1>1, <1>2, <1>4, <1>6, QueuesStill DEF Queue, ToAction, ToJob, Ahead
<1>8. Said(r, x)'
  BY <1>1, <1>2, <1>4 DEF Said, Weighed
<1>9. Placed(r, x)'
  BY <1>1, <1>2, <1>3, <1>4 DEF RankIn, Placed, LastPlaces, Sweeping, Updating
<1>10. Works(r, x)'
  BY <1>1, <1>2, <1>4, <1>5, <1>6, QueuesStill
  DEF RankIn, Works, Reporting, Updating, Sweeping, Writing
<1>11. Simulates(r, x)'
  BY <1>1, <1>2, <1>4, <1>5, <1>6, RenamedSim, QueuesStill
  DEF RankIn, Simulates, Updating, Sweeping, Writing
<1>12. CountsTo(r, x)'
  BY <1>1, <1>2, <1>3, <1>4, <1>6, QueuesStill DEF CountsTo, Updating, Sweeping, Writing
<1>13. \A q \in Ranks \ {r} : Still(q)
  BY <1>1, RenamedSim DEF FinishFirst, Goes, Types, Still, netVars
<1> QED
  BY <1>1, <1>4, <1>7, <1>8, <1>9, <1>10, <1>11, <1>12, <1>13 DEF RankIn

LEMMA FinishReportKeeps ==
  ASSUME Types, NEW r \in Ranks, NEW x \in Paths, SetIn(SetOf(r), x), FinishReport(r)
  PROVE  RankIn(r, x)' /\ pc[r] = "rename" /\ pc'[r] # "rename" /\ \A q \in Ranks \ {r} : Still(q)
<1> DEFINE g == SetOf(r)
           i == ChainRank(r)
<1>1. /\ pc[r] = "rename" /\ reason[r] = "report" /\ RenameFiles(r)
      /\ pc'[r] = "action" /\ since'[r] = 0
      /\ toMaster'[r] = IF IsRoot(r) THEN Append(toMaster[r], BusyMsg(since[r])) ELSE toMaster[r]
      /\ UNCHANGED <<task, run, before, reason, partner, bcast, toSlave>>
  BY DEF FinishReport, At, Goes, Push, Types
<1>2. /\ RankIn(r, x) /\ Path(x) /\ Seated(g, x) /\ x.kind = "report"
      /\ toMaster[r] = << >> /\ bcast[r] = "none" /\ toSlave[r] = ToAction(r, x)
  BY <1>1, RenamingIs
<1>3. IsRoot(r) => x.act = "none"
  BY <1>1, <1>2 DEF RankIn, Placed
<1>4. RunStill(g)
  BY MasterStill DEF FinishReport
<1>5. since[r] \in Nat
  BY DEF Types
<1>6. toSlave'[r] = Queue(r, x)'
  BY <1>1, <1>2, <1>4, QueuesStill DEF Queue
<1>7. Said(r, x)'
  <2>1. CASE IsRoot(r)
    <3>1. toMaster'[r] = <<BusyMsg(since[r])>>
      BY <1>1, <1>2, <2>1
    <3> QED
      BY <1>1, <1>3, <1>5, <2>1, <3>1 DEF Said
  <2>2. CASE ~IsRoot(r)
    BY <1>1, <1>2, <2>2 DEF Said, Weighed
  <2> QED
    BY <2>1, <2>2
<1>8. Placed(r, x)'
  BY <1>1, <1>2 DEF RankIn, Placed, FirstPlaces, Reporting, Updating
<1>9. Works(r, x)'
  BY <1>1, <1>2, <1>4, QueuesStill
  DEF RankIn, Works, Reporting, Updating, Sweeping, Writing
<1>10. Simulates(r, x)'
  BY <1>1, <1>2, <1>4, RenamedSim, QueuesStill
  DEF RankIn, Simulates, Updating, Sweeping, Writing
<1>11. CountsTo(r, x)'
  BY <1>1, <1>2, <1>4, QueuesStill DEF RankIn, CountsTo, Updating, Sweeping, Writing
<1>12. \A q \in Ranks \ {r} : Still(q)
  BY <1>1, RenamedSim DEF FinishReport, Goes, Push, Types, Still
<1> QED
  BY <1>1, <1>6, <1>7, <1>8, <1>9, <1>10, <1>11, <1>12 DEF RankIn

LEMMA FinishTimeUpKeeps ==
  ASSUME Types, NEW r \in Ranks, NEW x \in Paths, SetIn(SetOf(r), x), FinishTimeUp(r)
  PROVE  RankIn(r, x)' /\ pc[r] = "rename" /\ pc'[r] # "rename" /\ \A q \in Ranks \ {r} : Still(q)
<1> DEFINE g == SetOf(r)
<1>1. /\ pc[r] = "rename" /\ reason[r] = "timeup" /\ RenameFiles(r)
      /\ pc'[r] = "left" /\ toMaster'[r] = Append(toMaster[r], Status("timeup"))
      /\ UNCHANGED <<task, run, since, before, reason, partner, bcast, toSlave>>
  BY DEF FinishTimeUp, At, Goes, Push, Types
<1>2. /\ RankIn(r, x) /\ Path(x) /\ Seated(g, x) /\ x.kind = "timeup"
      /\ toMaster[r] = << >> /\ bcast[r] = "none" /\ toSlave[r] = ToAction(r, x)
      /\ x.job = "none" /\ x.act = "none" /\ x.first = "none"
  BY <1>1, RenamingIs
<1>3. x.way = "exit" /\ x.resp = "none"
  BY <1>2, NothingElse DEF Path
<1>4. RunStill(g)
  BY MasterStill DEF FinishTimeUp
<1>5. toSlave'[r] = Queue(r, x)'
  BY <1>1, <1>2, <1>4, QueuesStill DEF Queue, ToAction, ToJob, Ahead
<1>6. toMaster'[r] = <<Status("timeup")>>
  BY <1>1, <1>2
<1>7. Said(r, x)'
  BY <1>1, <1>6 DEF Said
<1>8. Placed(r, x)'
  BY <1>1, <1>2, <1>3 DEF RankIn, Placed, LastPlaces, Updating
<1>21. task[r] = TaskOf(x.own[1], x.was[ChainRank(r)]) /\ run[r] = x.own[2]
  BY <1>1, RenamingIs
<1>9. Works(r, x)'
  BY <1>1, <1>21 DEF Works, Reporting, Updating, Sweeping, Writing
<1>10. Simulates(r, x)'
  BY <1>1 DEF Simulates, Updating, Sweeping, Writing
<1>11. CountsTo(r, x)'
  BY <1>1, <1>2 DEF CountsTo, Updating, Sweeping, Writing
<1>12. \A q \in Ranks \ {r} : Still(q)
  BY <1>1, RenamedSim DEF FinishTimeUp, Goes, Push, Types, Still
<1> QED
  BY <1>1, <1>5, <1>7, <1>8, <1>9, <1>10, <1>11, <1>12 DEF RankIn

-----------------------------------------------------------------------------
(* The master.                                                             *)

LEMMA ModesApart ==
  /\ \A h : <<"react">> # <<"assign", h>> /\ <<"react">> # <<"weights", h>>
  /\ \A g, h : <<"assign", h>> # <<"weights", g>>
  /\ \A g, h : <<"assign", h>> = <<"assign", g>> => g = h
  /\ \A g, h : <<"weights", h>> = <<"weights", g>> => g = h
OBVIOUS

LEMMA SeqMore ==
  ASSUME NEW A, NEW B, A \subseteq B, NEW s \in Seq(A)
  PROVE  s \in Seq(B)
OBVIOUS

\* Who has sent what the master receives.
LEMMA Sender ==
  ASSUME NEW r \in Ranks, NEW x \in Paths, SetIn(SetOf(r), x), toMaster[r] # << >>
  PROVE  /\ Head(toMaster[r]).type = "ready" =>
              /\ IsRoot(r) /\ pc[r] = "response" /\ x.resp = "none"
              /\ Tail(toMaster[r]) = << >>
         /\ Head(toMaster[r]).type = "busy" =>
              /\ IsRoot(r) /\ pc[r] = "action" /\ x.act = "none"
              /\ Tail(toMaster[r]) = << >> /\ Head(toMaster[r]).sweeps \in Nat
         /\ Head(toMaster[r]).type = "timeup" => pc[r] = "left" /\ Tail(toMaster[r]) = << >>
         /\ Head(toMaster[r]).type = "weight" => Weighed(r, x) /\ Tail(toMaster[r]) = << >>
<1>1. Said(r, x)
  BY DEF SetIn, SetRanks, RankIn
<1>2. \A t : /\ <<Status(t)>> # << >> /\ Head(<<Status(t)>>).type = t
             /\ Tail(<<Status(t)>>) = << >>
  BY DEF Status
<1>3. \A n \in Nat : /\ Head(<<BusyMsg(n)>>).type = "busy" /\ Head(<<BusyMsg(n)>>).sweeps = n
                     /\ Tail(<<BusyMsg(n)>>) = << >>
  BY DEF BusyMsg
<1>4. CASE pc[r] = "left"
  <2>1. toMaster[r] = <<Status("timeup")>>
    BY <1>1, <1>4 DEF Said
  <2> QED
    BY <1>2, <1>4, <2>1
<1>5. CASE pc[r] # "left" /\ IsRoot(r) /\ pc[r] = "response" /\ x.resp = "none"
  <2>1. toMaster[r] = <<Status("ready")>>
    BY <1>1, <1>5 DEF Said
  <2> QED
    BY <1>2, <1>5, <2>1
<1>6. CASE pc[r] # "left" /\ IsRoot(r) /\ pc[r] = "action" /\ x.act = "none"
  <2>1. PICK n \in Nat : toMaster[r] = <<BusyMsg(n)>>
    BY <1>1, <1>6 DEF Said
  <2> QED
    BY <1>3, <1>6, <2>1
<1>7. CASE /\ pc[r] # "left" /\ ~(IsRoot(r) /\ pc[r] = "response" /\ x.resp = "none")
           /\ ~(IsRoot(r) /\ pc[r] = "action" /\ x.act = "none")
  <2>1. Weighed(r, x) /\ toMaster[r] = <<Status("weight")>>
    BY <1>1, <1>7 DEF Said
  <2> QED
    BY <1>2, <2>1
<1> QED
  BY <1>4, <1>5, <1>6, <1>7

\* A rank of which only the channels are touched, on a path that goes on the same way.
LEMMA WorkSame ==
  ASSUME NEW r, NEW x, NEW y, RankIn(r, x), slaveVars' = slaveVars,
         setRun'[SetOf(r)] = setRun[SetOf(r)],
         y.kind = x.kind, y.job = x.job, y.dec = x.dec, y.own = x.own, y.was = x.was,
         y.held = x.held, y.u = x.u, y.w = x.w, y.s = x.s, y.b = x.b
  PROVE  Works(r, y)' /\ Simulates(r, y)' /\ CountsTo(r, y)'
<1>1. ChainAt(SetOf(r))' = ChainAt(SetOf(r)) /\ RunAt(SetOf(r))' = RunAt(SetOf(r))
  BY DEF ChainAt, RunAt
<1>2. /\ pc' = pc /\ task' = task /\ run' = run /\ since' = since /\ before' = before
      /\ reason' = reason /\ partner' = partner /\ bcast' = bcast /\ sys' = sys
  BY DEF slaveVars
<1>3. SinceThen(y, ChainAt(SetOf(r))') = SinceThen(x, ChainAt(SetOf(r))) /\ Reason(y) = Reason(x)
  BY <1>1 DEF SinceThen, Reason
<1>4. Works(r, y)'
  BY <1>1, <1>2 DEF RankIn, Works, Partner
<1>5. Simulates(r, y)'
  BY <1>1, <1>2 DEF RankIn, Simulates
<1>6. CountsTo(r, y)'
  BY <1>1, <1>2, <1>3 DEF RankIn, CountsTo
<1> QED
  BY <1>4, <1>5, <1>6

\* Nothing of the response has been sent: more can only go behind.
LEMMA QueueLonger ==
  ASSUME NEW r, NEW x, NEW y, ToResp(r, x) = << >>, y.act = x.act, y.job = x.job,
         y.first = x.first, y.was = x.was, y.held = x.held, y.b = x.b
  PROVE  /\ ToResp(r, y) = ToResp(r, x) \o ToResp(r, y)
         /\ ToFirst(r, y) = ToFirst(r, x) \o ToResp(r, y)
         /\ ToJob(r, y) = ToJob(r, x) \o ToResp(r, y)
         /\ ToAction(r, y) = ToAction(r, x) \o ToResp(r, y)
<1> DEFINE S == Mail(r, x) \cup Mail(r, y)
<1>1. ToResp(r, y) \in Seq(S)
  BY QueuesAreMail, SeqMore
<1>2. << >> \in Seq(S) /\ ToResp(r, x) \in Seq(S) /\ ToJob(r, x) \in Seq(S)
  BY QueuesAreMail, SeqMore
<1>3. /\ SwapFor(r, x.was, x.held) \in S /\ JobFor(r, x) \in S /\ ActionMsg(x.act) \in S
      /\ JobFor(r, y) = JobFor(r, x)
  BY DEF Mail, JobFor
<1> HIDE DEF S
<1>4. ToResp(r, y) = ToResp(r, x) \o ToResp(r, y)
  BY <1>1
<1>5. ASSUME NEW b \in BOOLEAN, NEW m \in S, NEW rest \in Seq(S)
      PROVE  Ahead(b, m, rest) \o ToResp(r, y) = Ahead(b, m, rest \o ToResp(r, y))
  BY <1>1, <1>5, AheadAppend
<1>6. ToFirst(r, y) = ToFirst(r, x) \o ToResp(r, y)
  <2>1. ToFirst(r, y) = Ahead(x.first = "sent", SwapFor(r, x.was, x.held), ToResp(r, y))
    BY DEF ToFirst
  <2>2. ToFirst(r, x) = Ahead(x.first = "sent", SwapFor(r, x.was, x.held), ToResp(r, x))
    BY DEF ToFirst
  <2> QED
    BY <1>2, <1>3, <1>4, <1>5, <2>1, <2>2
<1>7. ToJob(r, y) = ToJob(r, x) \o ToResp(r, y)
  <2>1. ToJob(r, y) = Ahead(x.job # "none", JobFor(r, x), ToResp(r, y))
    BY <1>3 DEF ToJob
  <2>2. ToJob(r, x) = Ahead(x.job # "none", JobFor(r, x), ToResp(r, x))
    BY DEF ToJob
  <2> QED
    BY <1>2, <1>3, <1>4, <1>5, <2>1, <2>2
<1>8. ToAction(r, y) = ToAction(r, x) \o ToResp(r, y)
  <2>1. ToAction(r, y) = Ahead(x.act # "none", ActionMsg(x.act), ToJob(r, y))
    BY DEF ToAction
  <2>2. ToAction(r, x) = Ahead(x.act # "none", ActionMsg(x.act), ToJob(r, x))
    BY DEF ToAction
  <2> QED
    BY <1>2, <1>3, <1>5, <1>7, <2>1, <2>2
<1> QED
  BY <1>4, <1>6, <1>7, <1>8

\* The files of a set are as before.
LEMMA FilesSame ==
  ASSUME NEW g, NEW x, NEW y, FindFiles(g, x), LeaveFiles(g, x), pc' = pc, dump' = dump,
         setRun'[g] = setRun[g], y.job = x.job, y.way = x.way, y.w = x.w, y.own = x.own,
         y.was = x.was, y.old = x.old, y.u = x.u
  PROVE  FindFiles(g, y)' /\ LeaveFiles(g, y)'
<1>1. ChainAt(g)' = ChainAt(g) /\ RunAt(g)' = RunAt(g)
  BY DEF ChainAt, RunAt
<1>2. \A t, k : Slot(t, k)' = Slot(t, k)
  BY DEF Slot
<1> QED
  BY <1>1, <1>2 DEF FindFiles, LeaveFiles

\* A set that the master does not turn to.
OtherSet(h) ==
  RunStill(h) /\ ModeStill(h) /\ \A q \in SetRanks(h) : Still(q)

LEMMA ReactReadyKeeps ==
  ASSUME Types, NEW r \in Ranks, NEW x \in Paths, SetIn(SetOf(r), x), ReactReady(r)
  PROVE  /\ \E y \in Paths : SetIn(SetOf(r), y)'
         /\ \A h \in Sets \ {SetOf(r)} : OtherSet(h)
<1> DEFINE g == SetOf(r)
           y == [x EXCEPT !.resp = "sent"]
<1>1. /\ phase = "running" /\ mode = <<"react">> /\ mode' = <<"weights", g>>
      /\ toMaster[r] # << >> /\ Head(toMaster[r]).type = "ready"
      /\ slaveVars' = slaveVars /\ pc' = pc /\ dump' = dump
      /\ setRun' = setRun /\ pos' = pos /\ odd' = odd
  BY DEF ReactReady, Receives, HeadIs, slaveVars, fileVars
<1>2. toMaster' = [toMaster EXCEPT ![r] = Tail(toMaster[r])]
  BY DEF ReactReady, Receives, Pop
<1>3. /\ IsRoot(r) /\ pc[r] = "response" /\ x.resp = "none" /\ Tail(toMaster[r]) = << >>
  BY <1>1, Sender
<1>4. /\ Path(x) /\ Seated(g, x) /\ FindFiles(g, x) /\ LeaveFiles(g, x) /\ g \in Sets
      /\ \A q \in SetRanks(g) : RankIn(q, x)
      /\ r \in SetRanks(g) /\ RankIn(r, x)
  BY SeatIs DEF SetIn, SetRanks
<1>5. x.way = "sweep" /\ (x.kind = "update" => x.first = "sent") /\ x.swap = "none"
  BY <1>3, <1>4, WhereIs, NothingElse DEF RankIn, Sweeping, Placed, Paths, Flag
<1>6. HasRun(x)
  BY <1>3, <1>4, RunThere DEF RankIn, Sweeping
<1>7. /\ y \in Paths /\ y.resp = "sent"
      /\ y.kind = x.kind /\ y.act = x.act /\ y.job = x.job /\ y.first = x.first
      /\ y.swap = x.swap /\ y.dec = x.dec /\ y.way = x.way /\ y.own = x.own
      /\ y.was = x.was /\ y.held = x.held /\ y.old = x.old /\ y.u = x.u /\ y.w = x.w
      /\ y.s = x.s /\ y.b = x.b
  BY DEF Paths, Flag
<1> HIDE DEF y
<1>8. Path(y)
  BY <1>4, <1>5, <1>7 DEF Path
<1>9. RunStill(g) /\ (\A h : RunStill(h)) /\ ChainAt(g)' = ChainAt(g)
  BY <1>1 DEF RunStill, PosAt, OddAt, ChainAt, RunAt
<1>10. Seated(g, y)'
  <2>1. mode' = <<"weights", g>> /\ Waiting(y)
    BY <1>1, <1>5, <1>7 DEF Waiting
  <2>2. ~Undealt(g)' /\ ~Undealt(g)
    BY <1>1, ModesApart DEF Undealt
  <2>3. HasRun(y) <=> HasRun(x)
    BY <1>7 DEF HasRun
  <2>4. SinceThen(y, ChainAt(g)) = SinceThen(x, ChainAt(g))
    BY <1>7 DEF SinceThen
  <2> QED
    BY <1>1, <1>4, <1>5, <1>7, <1>9, <2>1, <2>2, <2>3, <2>4 DEF Seated, RunStill
<1>11. FindFiles(g, y)' /\ LeaveFiles(g, y)'
  BY <1>1, <1>4, <1>7, FilesSame
<1>12. ASSUME NEW q \in SetRanks(g)
       PROVE  RankIn(q, y)'
  <2>1. q \in Ranks /\ SetOf(q) = g /\ RankIn(q, x)
    BY <1>4 DEF SetRanks
  <2>2. RespFor(q, y) = Response(IF Asked(q) THEN "weight" ELSE "skip")
    BY <1>5, <1>7 DEF RespFor
  <2>3. toSlave'[q] = toSlave[q] \o ToResp(q, y)
    <3>1. ToResp(q, y) = <<RespFor(q, y)>>
      <4>1. ToSwap(q, y) = << >> /\ RespFor(q, y) \in Mail(q, y)
        BY <1>5, <1>7 DEF ToSwap, Ahead, Mail
      <4> QED
        BY <1>7, <4>1 DEF ToResp, Ahead
    <3>2. setRun[g] # NoRun
      BY <1>4, <1>6 DEF Seated
    <3>3. RespFor(q, y) = Response(IF Skips(pos[setRun[g][1]][setRun[g][2]][ChainRank(q)],
                                           odd[setRun[g][1]][setRun[g][2]], ChainLen)
                                   THEN "skip" ELSE "weight")
      BY <2>1, <2>2, <3>2 DEF Asked, PosAt, OddAt, ChainAt, RunAt
    <3>4. ChainRank(q) \in Members
      BY <2>1, SeatIs
    <3> QED
      BY <2>1, <3>1, <3>3, <3>4 DEF ReactReady, PushSet
  <2>4. ToResp(q, x) = << >> /\ pc[q] # "update_barrier"
    BY <1>3, <1>4, <2>1, NothingElse DEF RankIn, Placed
  <2>5. toSlave'[q] = Queue(q, y)
    BY <1>7, <2>1, <2>3, <2>4, QueueLonger DEF RankIn, Queue
  <2>6. Queue(q, y)' = Queue(q, y)
    BY <1>1, <1>9, <2>1, QueuesStill DEF Queue
  <2>7. Said(q, y)'
    <3>1. CASE q = r
      <4>1. toMaster'[r] = << >>
        BY <1>2, <1>3 DEF Types
      <4> QED
        BY <1>1, <1>3, <1>5, <1>7, <3>1, <4>1 DEF Said, Weighed
    <3>2. CASE q # r
      <4>1. toMaster'[q] = toMaster[q] /\ ~IsRoot(q)
        BY <1>2, <1>3, <2>1, <3>2, SameSeat DEF IsRoot, Types
      <4>2. Asked(q)' <=> Asked(q)
        BY <1>9, <2>1, QueuesStill
      <4> QED
        BY <1>1, <1>5, <1>7, <2>1, <2>4, <4>1, <4>2 DEF RankIn, Said, Weighed
    <3> QED
      BY <3>1, <3>2
  <2>8. Placed(q, y)'
    <3>1. IsRoot(q) => q = r
      BY <1>3, <2>1, SameSeat DEF IsRoot
    <3> QED
      BY <1>1, <1>3, <1>7, <2>1, <2>4, <3>1 DEF RankIn, Placed, FirstPlaces, LastPlaces
  <2>9. Works(q, y)' /\ Simulates(q, y)' /\ CountsTo(q, y)'
    BY <1>1, <1>7, <2>1, WorkSame
  <2> QED
    BY <2>5, <2>6, <2>7, <2>8, <2>9 DEF RankIn
<1>13. ASSUME NEW h \in Sets \ {g}
       PROVE  OtherSet(h)
  <2>1. ModeStill(h)
    BY <1>1, ModesApart DEF ModeStill, Undealt
  <2>2. ASSUME NEW q \in SetRanks(h) PROVE Still(q)
    <3>1. q \in Ranks /\ SetOf(q) # g /\ q # r
      BY DEF SetRanks
    <3>2. toSlave'[q] = toSlave[q]
      BY <3>1 DEF ReactReady, PushSet
    <3>3. toMaster'[q] = toMaster[q]
      BY <1>2, <3>1 DEF Types
    <3> QED
      BY <1>1, <3>2, <3>3 DEF Still, slaveVars
  <2> QED
    BY <1>9, <2>1, <2>2 DEF OtherSet
<1> QED
  BY <1>7, <1>8, <1>10, <1>11, <1>12, <1>13 DEF SetIn

\* The runs of two sets are different ones.
Apart == \A g, h \in Sets : g # h /\ setRun[g] # NoRun => setRun[g] # setRun[h]

LEMMA MovedPairs ==
  ASSUME NEW from, Permutation(from, ChainLen), NEW isOdd \in BOOLEAN,
         NEW accepted \in SUBSET TriedPairs(isOdd, ChainLen)
  PROVE  LET to == Moved(from, accepted)
         IN  /\ Permutation(to, ChainLen) /\ Paired(from, to)
             /\ \A g : \A i \in Members :
                  g * ChainLen + SwitchPartners(from, accepted)[i] = Partner(g, from, to, i)
<1> DEFINE to == Moved(from, accepted)
           at(p) == To(accepted, p)
<1>1. from \in [Members -> Members] /\ DOMAIN from = Members
  BY DEF Permutation, Members
<1>2. Permutation(to, ChainLen)
  BY ChainLenNat, MovedPermutes
<1>3. to = [i \in Members |-> at(from[i])]
  BY <1>1, ChainLenNat, MovedIs DEF Members
<1>4. \A p \in Members : at(at(p)) = p
  BY ChainLenNat, ToIsInvolution DEF Members
<1>5. \A g : \A i \in Members :
        g * ChainLen + SwitchPartners(from, accepted)[i] = Partner(g, from, to, i)
  BY <1>1 DEF SwitchPartners, Partner
<1> HIDE DEF to, at
<1>6. Paired(from, to)
  BY <1>1, <1>3, <1>4 DEF Paired
<1> QED
  BY <1>2, <1>5, <1>6 DEF to

\* What GlobalUpdate does to the positions, and what it finds.
LEMMA UpdateIs ==
  ASSUME Types, PosInv, Apart, NEW g \in Sets, NEW x \in Paths, SetIn(g, x), GlobalUpdate(g)
  PROVE  /\ mode' = <<"react">> /\ Waiting(x) /\ HasRun(x) /\ x.swap = "none"
         /\ setRun' = setRun /\ slaveVars' = slaveVars /\ pc' = pc /\ dump' = dump
         /\ ChainAt(g)' = ChainAt(g) /\ RunAt(g)' = RunAt(g)
         /\ Permutation(PosAt(g)', ChainLen) /\ Paired(x.held, PosAt(g)')
         /\ \A q \in SetRanks(g) :
              /\ toSlave'[q] = toSlave[q] \o <<SwapFor(q, x.held, PosAt(g)')>>
              /\ Asked(q) => Weighed(q, x)
              /\ toMaster'[q] = << >>
         /\ \A h \in Sets \ {g} : OtherSet(h)
<1> DEFINE c == setRun[g][1]
           k == setRun[g][2]
<1>1. /\ phase = "running" /\ mode = <<"weights", g>> /\ mode' = <<"react">>
      /\ slaveVars' = slaveVars /\ pc' = pc /\ dump' = dump /\ setRun' = setRun
  BY DEF GlobalUpdate, slaveVars, fileVars
<1>2. Path(x) /\ Seated(g, x) /\ \A q \in SetRanks(g) : RankIn(q, x)
  BY DEF SetIn
<1>3. Waiting(x)
  BY <1>1, <1>2 DEF Seated
<1>4. HasRun(x) /\ x.swap = "none" /\ (x.kind = "update" /\ x.first = "none" => x.resp = "none")
  BY <1>2, <1>3 DEF Waiting, HasRun, Path, Paths, Flag
<1>5. /\ c \in Chains /\ k \in RunIds /\ setRun[g] = <<c, k>> /\ setRun[g] # NoRun
      /\ c = ChainAt(g) /\ k = RunAt(g)
  BY <1>2, <1>4, RunIs DEF ChainAt, RunAt
<1>6. PosAt(g) = pos[c][k] /\ OddAt(g) = odd[c][k] /\ x.held = pos[c][k]
  BY <1>2, <1>4, <1>5 DEF PosAt, OddAt, Seated
<1>7. /\ Permutation(pos[c][k], ChainLen) /\ odd[c][k] \in BOOLEAN
      /\ pos \in [Chains -> [RunIds -> [Members -> Members]]]
      /\ odd \in [Chains -> [RunIds -> BOOLEAN]]
  BY <1>5 DEF PosInv, PosTables, Odds
<1>8. PICK accepted \in SUBSET TriedPairs(odd[c][k], ChainLen) :
        /\ pos' = [pos EXCEPT ![c][k] = Moved(pos[c][k], accepted)]
        /\ toSlave' = PushSet(toSlave, g, [i \in Members |->
             <<SwapMsg(TaskOf(c, Moved(pos[c][k], accepted)[i]),
                       g * ChainLen + SwitchPartners(pos[c][k], accepted)[i])>>])
  BY DEF GlobalUpdate
<1>9. /\ odd' = [odd EXCEPT ![c][k] = ~@]
      /\ \A q \in Ranks : toMaster'[q] =
           IF q \in {r \in SetRanks(g) : ~Skips(pos[c][k][ChainRank(r)], odd[c][k], ChainLen)}
           THEN Tail(toMaster[q]) ELSE toMaster[q]
      /\ \A q \in {r \in SetRanks(g) : ~Skips(pos[c][k][ChainRank(r)], odd[c][k], ChainLen)} :
           HeadIs(toMaster, q, "weight")
  BY DEF GlobalUpdate
<1> DEFINE to == Moved(pos[c][k], accepted)
<1>10. /\ Permutation(to, ChainLen) /\ Paired(pos[c][k], to)
       /\ \A i \in Members : g * ChainLen + SwitchPartners(pos[c][k], accepted)[i]
                               = Partner(g, pos[c][k], to, i)
  BY <1>7, MovedPairs
<1> HIDE DEF c, k, to
<1>11. pos'[c][k] = to
  BY <1>5, <1>7, <1>8 DEF to
<1>12. ChainAt(g)' = c /\ RunAt(g)' = k /\ PosAt(g)' = to
  BY <1>1, <1>5, <1>11 DEF ChainAt, RunAt, PosAt
<1>13. ASSUME NEW q \in SetRanks(g)
       PROVE  /\ toSlave'[q] = toSlave[q] \o <<SwapFor(q, x.held, PosAt(g)')>>
              /\ Asked(q) => Weighed(q, x)
              /\ toMaster'[q] = << >>
  <2>1. q \in Ranks /\ SetOf(q) = g /\ RankIn(q, x) /\ ChainRank(q) \in Members
    BY <1>2, SeatIs DEF SetRanks
  <2>2. SwapFor(q, x.held, PosAt(g)') = SwapMsg(TaskOf(c, to[ChainRank(q)]),
              g * ChainLen + SwitchPartners(pos[c][k], accepted)[ChainRank(q)])
    BY <1>5, <1>6, <1>10, <1>12, <2>1 DEF SwapFor
  <2>3. toSlave'[q] = toSlave[q] \o <<SwapFor(q, x.held, PosAt(g)')>>
    BY <1>8, <2>1, <2>2 DEF PushSet, to
  <2>4. Asked(q) <=> ~Skips(pos[c][k][ChainRank(q)], odd[c][k], ChainLen)
    BY <1>6, <2>1 DEF Asked
  <2>5. CASE Asked(q)
    <3>1. toMaster[q] # << >> /\ Head(toMaster[q]).type = "weight"
      BY <1>9, <2>4, <2>5 DEF HeadIs
    <3>2. Weighed(q, x) /\ Tail(toMaster[q]) = << >>
      BY <2>1, <3>1, Sender
    <3> QED
      BY <1>9, <2>1, <2>3, <2>4, <2>5, <3>2
  <2>6. CASE ~Asked(q)
    <3>1. toMaster'[q] = toMaster[q]
      BY <1>9, <2>1, <2>4, <2>6
    <3>2. Placed(q, x) /\ Said(q, x) /\ ~Weighed(q, x)
      BY <2>1, <2>6 DEF RankIn, Weighed
    <3>3. pc[q] # "left" /\ (pc[q] = "response" => x.resp # "none")
          /\ (pc[q] = "action" => x.act # "none")
      BY <1>2, <1>3, <3>2, WhereIs DEF Waiting, Path, Placed, Sweeping, Paths, Flag
    <3>4. toMaster[q] = << >>
      BY <3>2, <3>3 DEF Said
    <3> QED
      BY <2>3, <2>6, <3>1, <3>4
  <2> QED
    BY <2>5, <2>6
<1>14. ASSUME NEW h \in Sets \ {g}
       PROVE  OtherSet(h)
  <2>1. ModeStill(h)
    BY <1>1, ModesApart DEF ModeStill, Undealt
  <2>2. ASSUME NEW q \in SetRanks(h) PROVE Still(q)
    <3>1. q \in Ranks /\ SetOf(q) # g
      BY DEF SetRanks
    <3>2. toSlave'[q] = toSlave[q]
      BY <1>8, <3>1 DEF PushSet
    <3>3. toMaster'[q] = toMaster[q]
      BY <1>9, <3>1 DEF SetRanks
    <3> QED
      BY <1>1, <3>2, <3>3 DEF Still, slaveVars
  <2>3. RunStill(h)
    <3>1. CASE setRun[h] = NoRun
      BY <1>1, <3>1 DEF RunStill, PosAt, OddAt
    <3>2. CASE setRun[h] # NoRun
      <4> DEFINE d == setRun[h][1]
                 l == setRun[h][2]
      <4>1. setRun[h] \in Chains \X RunIds /\ setRun[h] # setRun[g]
        BY <1>5, <3>2 DEF Types, Apart
      <4>2. d \in Chains /\ l \in RunIds /\ <<d, l>> # <<c, k>>
        BY <1>5, <4>1
      <4> HIDE DEF d, l
      <4>3. pos'[d][l] = pos[d][l] /\ odd'[d][l] = odd[d][l]
        BY <1>5, <1>7, <1>8, <1>9, <4>2
      <4> QED
        BY <1>1, <3>2, <4>3 DEF RunStill, PosAt, OddAt, ChainAt, RunAt, d, l
    <3> QED
      BY <3>1, <3>2
  <2> QED
    BY <2>1, <2>2, <2>3 DEF OtherSet
<1> QED
  BY <1>1, <1>3, <1>4, <1>5, <1>6, <1>10, <1>12, <1>13, <1>14

\* The ranks of the set are at the swap already: it is what they wait for.
LEMMA FirstSwapKeeps ==
  ASSUME Types, PosInv, Apart, NEW g \in Sets, NEW x \in Paths, SetIn(g, x), GlobalUpdate(g),
         x.kind = "update", x.first = "none"
  PROVE  \E y \in Paths : SetIn(g, y)'
<1>0. PICK to : to = PosAt(g)'
  OBVIOUS
<1> DEFINE y == [x EXCEPT !.first = "sent", !.held = to]
<1>1. /\ mode' = <<"react">> /\ HasRun(x) /\ x.swap = "none"
      /\ setRun' = setRun /\ slaveVars' = slaveVars /\ pc' = pc /\ dump' = dump
      /\ ChainAt(g)' = ChainAt(g) /\ RunAt(g)' = RunAt(g)
      /\ Permutation(to, ChainLen) /\ Paired(x.held, to)
      /\ \A q \in SetRanks(g) :
           /\ toSlave'[q] = toSlave[q] \o <<SwapFor(q, x.held, to)>>
           /\ toMaster'[q] = << >>
  BY <1>0, UpdateIs
<1>2. /\ Path(x) /\ Seated(g, x) /\ FindFiles(g, x) /\ LeaveFiles(g, x)
      /\ \A q \in SetRanks(g) : RankIn(q, x)
  BY DEF SetIn
<1>3. to \in [Members -> Members]
  BY <1>1 DEF Permutation, Members
<1>4. /\ y \in Paths /\ y.first = "sent" /\ y.held = to
      /\ y.kind = x.kind /\ y.act = x.act /\ y.job = x.job /\ y.resp = x.resp
      /\ y.swap = x.swap /\ y.dec = x.dec /\ y.way = x.way /\ y.own = x.own
      /\ y.was = x.was /\ y.old = x.old /\ y.u = x.u /\ y.w = x.w
      /\ y.s = x.s /\ y.b = x.b
  BY <1>3 DEF Paths, Flag
<1> HIDE DEF y
<1>5. /\ x.resp = "none" /\ x.dec = "none" /\ x.way = "none" /\ x.job = "none"
      /\ x.act = "none" /\ x.was = x.held
  BY <1>2 DEF Path, Paths, Flag
<1>6. Path(y)
  BY <1>1, <1>2, <1>4, <1>5 DEF Path
<1>7. Seated(g, y)'
  <2>1. ~Waiting(y) /\ mode' # <<"weights", g>>
    BY <1>1, <1>4, <1>5, ModesApart DEF Waiting
  <2>2. ~Undealt(g)'
    BY <1>1, ModesApart DEF Undealt
  <2>3. HasRun(y)
    BY <1>1, <1>4 DEF HasRun
  <2>4. setRun[g] # NoRun /\ x.own = setRun[g]
    BY <1>1, <1>2, <1>5 DEF Seated
  <2> QED
    BY <1>0, <1>1, <1>4, <1>5, <2>1, <2>2, <2>3, <2>4 DEF Seated
<1>8. FindFiles(g, y)' /\ LeaveFiles(g, y)'
  BY <1>1, <1>2, <1>4, FilesSame
<1>9. ASSUME NEW q \in SetRanks(g)
      PROVE  RankIn(q, y)'
  <2>1. q \in Ranks /\ SetOf(q) = g /\ RankIn(q, x)
    BY <1>2 DEF SetRanks
  <2>2. pc[q] = "swap" /\ pc'[q] = "swap"
    BY <1>1, <2>1 DEF RankIn, Placed
  <2>3. toSlave[q] = << >>
    BY <1>2, <2>1, <2>2, NothingElse DEF RankIn, Queue
  <2>4. Queue(q, y)' = <<SwapFor(q, x.held, to)>>
    <3>1. SwapFor(q, y.was, y.held)' = SwapFor(q, x.held, to)
      BY <1>1, <1>4, <1>5, <2>1 DEF SwapFor, Partner
    <3>2. ToResp(q, y)' = << >>
      BY <1>1, <1>4, <1>5 DEF ToResp, ToSwap, Ahead
    <3>3. ToFirst(q, y)' = <<SwapFor(q, y.was, y.held)'>> \o ToResp(q, y)'
      BY <1>4 DEF ToFirst, Ahead
    <3> QED
      BY <2>2, <3>1, <3>2, <3>3 DEF Queue
  <2>5. toSlave'[q] = <<SwapFor(q, x.held, to)>>
    <3> DEFINE m == SwapFor(q, x.held, to)
    <3>1. toSlave'[q] = << >> \o <<m>>
      BY <1>1, <2>3
    <3> HIDE DEF m
    <3>2. toSlave'[q] = <<m>>
      BY <3>1
    <3> QED
      BY <3>2 DEF m
  <2>6. Said(q, y)'
    BY <1>1, <1>4, <1>5, <2>2 DEF Said, Weighed
  <2>7. Placed(q, y)'
    BY <1>4, <2>1, <2>2 DEF RankIn, Placed, FirstPlaces, LastPlaces
  <2>8. Works(q, y)'
    BY <1>1, <1>4, <2>1, <2>2 DEF RankIn, Works, Reporting, Sweeping, Writing, slaveVars
  <2>9. Simulates(q, y)'
    BY <1>1, <1>4, <2>1, <2>2 DEF RankIn, Simulates, Sweeping, Writing, slaveVars
  <2>10. CountsTo(q, y)'
    BY <1>1, <1>4, <2>1, <2>2 DEF RankIn, CountsTo, Sweeping, Writing, slaveVars
  <2> QED
    BY <2>4, <2>5, <2>6, <2>7, <2>8, <2>9, <2>10 DEF RankIn
<1> QED
  BY <1>4, <1>6, <1>7, <1>8, <1>9 DEF SetIn

\* Some ranks of the set may still be behind: the swap waits for them.
LEMMA NextSwapKeeps ==
  ASSUME Types, PosInv, Apart, NEW g \in Sets, NEW x \in Paths, SetIn(g, x), GlobalUpdate(g),
         x.resp = "sent"
  PROVE  \E y \in Paths : SetIn(g, y)'
<1> DEFINE to == PosAt(g)'
           y == [x EXCEPT !.swap = "sent"]
<1>1. /\ mode' = <<"react">> /\ HasRun(x) /\ x.swap = "none"
      /\ setRun' = setRun /\ slaveVars' = slaveVars /\ pc' = pc /\ dump' = dump
      /\ ChainAt(g)' = ChainAt(g) /\ RunAt(g)' = RunAt(g)
      /\ Permutation(to, ChainLen) /\ Paired(x.held, to)
      /\ \A q \in SetRanks(g) :
           /\ toSlave'[q] = toSlave[q] \o <<SwapFor(q, x.held, to)>>
           /\ Asked(q) => Weighed(q, x)
           /\ toMaster'[q] = << >>
  BY UpdateIs
<1>2. /\ Path(x) /\ Seated(g, x) /\ FindFiles(g, x) /\ LeaveFiles(g, x)
      /\ \A q \in SetRanks(g) : RankIn(q, x)
  BY DEF SetIn
<1> HIDE DEF to
<1>4. /\ y \in Paths /\ y.swap = "sent"
      /\ y.kind = x.kind /\ y.act = x.act /\ y.job = x.job /\ y.resp = x.resp
      /\ y.first = x.first /\ y.held = x.held /\ y.dec = x.dec /\ y.way = x.way
      /\ y.own = x.own /\ y.was = x.was /\ y.old = x.old /\ y.u = x.u /\ y.w = x.w
      /\ y.s = x.s /\ y.b = x.b
  BY DEF Paths, Flag
<1> HIDE DEF y
<1>5. /\ x.way = "sweep" /\ (x.kind = "update" => x.first = "sent")
      /\ (x.kind = "report" => x.act # "none")
  BY <1>2 DEF Path, Paths, Flag
<1>6. Path(y)
  BY <1>2, <1>4 DEF Path
<1>7. Seated(g, y)'
  <2>1. ~Waiting(y) /\ mode' # <<"weights", g>>
    BY <1>1, <1>4, <1>5, ModesApart DEF Waiting
  <2>2. ~Undealt(g)' /\ ~(y.kind = "start" /\ y.job = "none")
    BY <1>1, <1>2, <1>4, <1>5, ModesApart DEF Undealt, Path
  <2>3. HasRun(y)
    BY <1>1, <1>4 DEF HasRun
  <2>4. SinceThen(y, ChainAt(g)) = SinceThen(x, ChainAt(g))
    BY <1>4 DEF SinceThen
  <2> QED
    BY <1>1, <1>2, <1>4, <2>1, <2>2, <2>3, <2>4 DEF Seated, to
<1>8. FindFiles(g, y)' /\ LeaveFiles(g, y)'
  BY <1>1, <1>2, <1>4, FilesSame
<1>9. ASSUME NEW q \in SetRanks(g)
      PROVE  RankIn(q, y)'
  <2> DEFINE m == SwapFor(q, x.held, to)
             S == Mail(q, x) \cup {m}
  <2>1. q \in Ranks /\ SetOf(q) = g /\ RankIn(q, x)
    BY <1>2 DEF SetRanks
  <2>2. /\ SwapFor(q, x.held, PosAt(g))' = m
        /\ SwapFor(q, x.was, x.held)' = SwapFor(q, x.was, x.held)
        /\ JobFor(q, y)' = JobFor(q, x)
    BY <1>1, <1>4, <2>1 DEF SwapFor, Partner, JobFor, to
  <2>3. << >> \in Seq(S) /\ ToResp(q, x) \in Seq(S) /\ ToJob(q, x) \in Seq(S) /\ <<m>> \in Seq(S)
    BY QueuesAreMail, SeqMore
  <2>4. /\ SwapFor(q, x.was, x.held) \in S /\ JobFor(q, x) \in S /\ ActionMsg(x.act) \in S
        /\ RespFor(q, x) \in S /\ m \in S
    BY DEF Mail
  <2>5. (toSlave[q] \o <<m>>) = toSlave'[q]
    BY <1>1
  <2> HIDE DEF m, S
  <2>6. ToSwap(q, y)' = <<m>> /\ ToSwap(q, x) = << >>
    BY <1>1, <1>4, <2>1, <2>2 DEF ToSwap, Ahead
  <2>7. ASSUME NEW b \in BOOLEAN, NEW n \in S, NEW rest \in Seq(S)
        PROVE  Ahead(b, n, rest) \o <<m>> = Ahead(b, n, rest \o <<m>>)
    <3> DEFINE last == <<m>>
    <3>1. last \in Seq(S)
      BY <2>3
    <3> HIDE DEF last
    <3>2. Ahead(b, n, rest) \o last = Ahead(b, n, rest \o last)
      BY <3>1, <2>7, AheadAppend
    <3> QED
      BY <3>2 DEF last
  <2>8. pc[q] # "update_barrier" => ToResp(q, y)' = ToResp(q, x) \o <<m>>
    <3> SUFFICES ASSUME pc[q] # "update_barrier" PROVE ToResp(q, y)' = ToResp(q, x) \o <<m>>
      OBVIOUS
    <3>1. ~Asked(q)
      BY <1>1, <1>5 DEF Weighed
    <3>2. RespFor(q, x) = Response("skip") /\ RespFor(q, y)' = Response("skip")
      BY <1>4, <3>1 DEF RespFor
    <3>3. ToResp(q, y)' = Ahead(TRUE, RespFor(q, x), <<m>>)
      BY <1>4, <2>6, <3>2 DEF ToResp
    <3>4. ToResp(q, x) = Ahead(TRUE, RespFor(q, x), << >>)
      BY <2>6 DEF ToResp
    <3>5. << >> \o <<m>> = <<m>>
      BY <2>3
    <3> QED
      BY <2>3, <2>4, <2>7, <3>3, <3>4, <3>5
  <2>9. pc[q] # "update_barrier" => ToFirst(q, y)' = ToFirst(q, x) \o <<m>>
    <3>1. ToFirst(q, y)' = Ahead(x.first = "sent", SwapFor(q, x.was, x.held), ToResp(q, y)')
      BY <1>4, <2>2 DEF ToFirst, Ahead
    <3>2. ToFirst(q, x) = Ahead(x.first = "sent", SwapFor(q, x.was, x.held), ToResp(q, x))
      BY DEF ToFirst
    <3>3. Ahead(x.first = "sent", SwapFor(q, x.was, x.held), ToResp(q, x)) \o <<m>>
            = Ahead(x.first = "sent", SwapFor(q, x.was, x.held), ToResp(q, x) \o <<m>>)
      BY <2>3, <2>4, <2>7
    <3> QED
      BY <2>8, <3>1, <3>2, <3>3
  <2>10. pc[q] # "update_barrier" => ToJob(q, y)' = ToJob(q, x) \o <<m>>
    <3>1. ToJob(q, y)' = Ahead(x.job # "none", JobFor(q, x), ToResp(q, y)')
      BY <1>4, <2>2 DEF ToJob
    <3>2. ToJob(q, x) = Ahead(x.job # "none", JobFor(q, x), ToResp(q, x))
      BY DEF ToJob
    <3>3. Ahead(x.job # "none", JobFor(q, x), ToResp(q, x)) \o <<m>>
            = Ahead(x.job # "none", JobFor(q, x), ToResp(q, x) \o <<m>>)
      BY <2>3, <2>4, <2>7
    <3> QED
      BY <2>8, <3>1, <3>2, <3>3
  <2>11. pc[q] # "update_barrier" => ToAction(q, y)' = ToAction(q, x) \o <<m>>
    <3>1. ToAction(q, y)' = Ahead(x.act # "none", ActionMsg(x.act), ToJob(q, y)')
      BY <1>4 DEF ToAction
    <3>2. ToAction(q, x) = Ahead(x.act # "none", ActionMsg(x.act), ToJob(q, x))
      BY DEF ToAction
    <3>3. Ahead(x.act # "none", ActionMsg(x.act), ToJob(q, x)) \o <<m>>
            = Ahead(x.act # "none", ActionMsg(x.act), ToJob(q, x) \o <<m>>)
      BY <2>3, <2>4, <2>7
    <3> QED
      BY <2>10, <3>1, <3>2, <3>3
  <2>12. ToSwap(q, y)' = ToSwap(q, x) \o <<m>>
    BY <2>3, <2>6
  <2>13. toSlave'[q] = Queue(q, y)'
    BY <1>1, <2>1, <2>5, <2>8, <2>9, <2>10, <2>11, <2>12 DEF RankIn, Queue
  <2>14. Said(q, y)'
    BY <1>1, <1>4, <1>5, <2>1, WhereIs DEF RankIn, Said, Weighed, Placed, FirstPlaces,
       LastPlaces, Reporting, Updating, Sweeping, Paths
  <2>15. Placed(q, y)'
    BY <1>1, <1>4, <2>1 DEF RankIn, Placed, FirstPlaces, LastPlaces
  <2>16. Works(q, y)' /\ Simulates(q, y)' /\ CountsTo(q, y)'
    BY <1>1, <1>4, <2>1, WorkSame
  <2> QED
    BY <2>13, <2>14, <2>15, <2>16 DEF RankIn
<1> QED
  BY <1>4, <1>6, <1>7, <1>8, <1>9 DEF SetIn

LEMMA GlobalUpdateSets ==
  ASSUME Types, PosInv, Apart, NEW g \in Sets, NEW x \in Paths, SetIn(g, x), GlobalUpdate(g)
  PROVE  (\E y \in Paths : SetIn(g, y)') /\ \A h \in Sets \ {g} : OtherSet(h)
<1>1. Waiting(x) /\ \A h \in Sets \ {g} : OtherSet(h)
  BY UpdateIs
<1> QED
  BY <1>1, FirstSwapKeeps, NextSwapKeeps DEF Waiting

\* A set that waits for a job: it has not had one, or its root has reported.
Jobless(g, x, a) ==
  \/ x.kind = "start" /\ x.job = "none" /\ a = "none"
  \/ /\ x.kind = "report" /\ x.act = "none" /\ a \in {"new_job", "process"}
     /\ \A q \in SetRanks(g) : IsRoot(q) => pc[q] = "action"

\* What goes to its ranks: the action that answers the report, and the job.
Told(a, m) == IF a = "none" THEN <<m>> ELSE <<ActionMsg(a)>> \o <<m>>

LEMMA JoblessIs ==
  ASSUME NEW g \in Sets, NEW x \in Paths, SetIn(g, x), NEW a, Jobless(g, x, a)
  PROVE  /\ x.job = "none" /\ x.first = "none" /\ x.resp = "none" /\ x.swap = "none"
         /\ x.dec = "none" /\ x.way = "none" /\ x.act = "none"
         /\ x.kind = "report" => x.own = setRun[g]
         /\ \A q \in SetRanks(g) :
              /\ q \in Ranks /\ SetOf(q) = g /\ RankIn(q, x) /\ toSlave[q] = << >>
              /\ \/ pc[q] = "accept" /\ x.kind = "start"
                 \/ pc[q] \in {"rename", "action"} /\ x.kind = "report"
              /\ toMaster[q] # << >> => IsRoot(q) /\ pc[q] = "action"
<1>1. Path(x) /\ Seated(g, x) /\ \A q \in SetRanks(g) : RankIn(q, x)
  BY DEF SetIn
<1>2. /\ x.job = "none" /\ x.first = "none" /\ x.resp = "none" /\ x.swap = "none"
      /\ x.dec = "none" /\ x.way = "none" /\ x.act = "none"
  BY <1>1 DEF Jobless, Path, Paths, Flag
<1>3. x.kind = "report" => x.own = setRun[g]
  BY <1>1, <1>2 DEF Seated
<1>4. ASSUME NEW q \in SetRanks(g)
      PROVE  /\ q \in Ranks /\ SetOf(q) = g /\ RankIn(q, x) /\ toSlave[q] = << >>
             /\ \/ pc[q] = "accept" /\ x.kind = "start"
                \/ pc[q] \in {"rename", "action"} /\ x.kind = "report"
             /\ toMaster[q] # << >> => IsRoot(q) /\ pc[q] = "action"
  <2>1. q \in Ranks /\ SetOf(q) = g /\ RankIn(q, x)
    BY <1>1 DEF SetRanks
  <2>2. \/ pc[q] = "accept" /\ x.kind = "start"
        \/ pc[q] \in {"rename", "action"} /\ x.kind = "report"
    BY <1>2, <2>1 DEF Jobless, RankIn, Placed, FirstPlaces, LastPlaces, Reporting
  <2>3. toSlave[q] = << >>
    BY <1>1, <1>2, <2>1, <2>2, NothingElse DEF RankIn, Queue
  <2>4. toMaster[q] # << >> => IsRoot(q) /\ pc[q] = "action"
    BY <1>2, <2>1, <2>2 DEF RankIn, Said, Weighed
  <2> QED
    BY <2>1, <2>2, <2>3, <2>4
<1> QED
  BY <1>2, <1>3, <1>4

\* It is given a run, or told to leave: job j leads that way, at sweep w, for b
\* global updates; msg[i] is the message to chain rank i.
Gives(g, a, j, way, w, b, msg) ==
  /\ w \in Nat /\ b \in Nat \ {0}
  /\ \A q \in SetRanks(g) : toSlave'[q] = toSlave[q] \o Told(a, msg[ChainRank(q)])
  /\ \/ /\ j = "quit" /\ way = "exit" /\ setRun'[g] = NoRun
        /\ \A i \in Members : msg[i] = JobMsg(NoTask, 0, 0)
     \/ /\ j = "job" /\ way \in {"sweep", "write"}
        /\ setRun'[g] # NoRun /\ ChainAt(g)' # ChainAt(g) /\ PosAt(g)' = Identity
        /\ \A i \in Members : msg[i] = JobMsg(TaskOf(ChainAt(g)', i), RunAt(g)', b)
        /\ \/ way = "sweep" /\ \A t \in ChainTasks(ChainAt(g)') :
                RunAt(g)' \in DOMAIN dump[t] /\ SweepOf(dump[t][RunAt(g)']) = w
           \/ way = "write" /\ w = 0 /\ \A t \in ChainTasks(ChainAt(g)') :
                RunAt(g)' \notin DOMAIN dump[t]

LEMMA JobKeeps ==
  ASSUME Types, NEW g \in Sets, NEW x \in Paths, SetIn(g, x), NEW a, Jobless(g, x, a),
         slaveVars' = slaveVars, dump' = dump, mode' # <<"weights", g>>, ~Undealt(g)',
         \A q \in SetRanks(g) : toMaster'[q] = << >>,
         NEW j, NEW way, NEW w, NEW b, NEW msg, Gives(g, a, j, way, w, b, msg)
  PROVE  \E y \in Paths : SetIn(g, y)'
<1>0. /\ w \in Nat /\ b \in Nat \ {0} /\ j \in {"job", "quit"}
      /\ way \in {"sweep", "write", "exit"} /\ (j = "quit" => way = "exit")
      /\ \A q \in SetRanks(g) : toSlave'[q] = toSlave[q] \o Told(a, msg[ChainRank(q)])
      /\ j = "quit" => /\ setRun'[g] = NoRun
                       /\ \A i \in Members : msg[i] = JobMsg(NoTask, 0, 0)
      /\ j = "job" =>
           /\ setRun'[g] # NoRun /\ ChainAt(g)' # ChainAt(g) /\ PosAt(g)' = Identity
           /\ \A i \in Members : msg[i] = JobMsg(TaskOf(ChainAt(g)', i), RunAt(g)', b)
           /\ \/ way = "sweep" /\ \A t \in ChainTasks(ChainAt(g)') :
                   RunAt(g)' \in DOMAIN dump[t] /\ SweepOf(dump[t][RunAt(g)']) = w
              \/ way = "write" /\ w = 0 /\ \A t \in ChainTasks(ChainAt(g)') :
                   RunAt(g)' \notin DOMAIN dump[t]
  BY DEF Gives
<1> DEFINE at == IF j = "job" THEN Identity ELSE x.held
           y == [x EXCEPT !.act = a, !.job = j, !.way = way, !.w = w, !.b = b, !.held = at]
<1>1. /\ Path(x) /\ Seated(g, x) /\ FindFiles(g, x) /\ LeaveFiles(g, x)
      /\ \A q \in SetRanks(g) : RankIn(q, x)
  BY DEF SetIn
<1>2. /\ x.job = "none" /\ x.first = "none" /\ x.resp = "none" /\ x.swap = "none"
      /\ x.dec = "none" /\ x.way = "none" /\ x.act = "none"
      /\ x.kind = "report" => x.own = setRun[g]
  BY JoblessIs
<1>3. Identity \in [Members -> Members] /\ a \in {"none", "new_job", "process"}
  BY DEF Identity, Jobless
<1>31. at \in [Members -> Members]
  BY <1>3 DEF Paths
<1> HIDE DEF at
<1>32. /\ a \in {"none", "continue", "new_job", "process"} /\ j \in {"none", "job", "quit"}
       /\ way \in {"none", "sweep", "write", "exit"}
  BY <1>0, <1>3
<1>33. y \in Paths
  BY <1>0, <1>31, <1>32 DEF Paths
<1>4. /\ y \in Paths /\ y.act = a /\ y.job = j /\ y.way = way /\ y.w = w /\ y.b = b
      /\ y.held = at
      /\ y.kind = x.kind /\ y.first = x.first /\ y.resp = x.resp
      /\ y.swap = x.swap /\ y.dec = x.dec /\ y.own = x.own
      /\ y.was = x.was /\ y.old = x.old /\ y.u = x.u /\ y.s = x.s
  BY <1>33 DEF Paths
<1>41. at = IF j = "job" THEN Identity ELSE x.held
  BY DEF at
<1> HIDE DEF y
<1>5. Path(y)
  BY <1>0, <1>1, <1>2, <1>4, <1>41, IdentityPermutes DEF Path, Jobless
<1>6. Seated(g, y)'
  <2>1. ~Waiting(y) /\ (HasRun(y) <=> j = "job")
    BY <1>0, <1>2, <1>4 DEF Waiting, HasRun, Jobless
  <2>2. y.kind = "report" => y.own[1] = ChainAt(g)
    BY <1>2, <1>4 DEF ChainAt
  <2> QED
    BY <1>0, <1>2, <1>4, <1>41, <2>1, <2>2 DEF Seated, Jobless
<1>7. FindFiles(g, y)'
  BY <1>0, <1>4 DEF FindFiles
<1>8. LeaveFiles(g, y)'
  <2>1. \A t, k : Slot(t, k)' = Slot(t, k)
    BY DEF Slot
  <2>2. pc' = pc
    BY DEF slaveVars
  <2> QED
    BY <1>1, <1>4, <2>1, <2>2 DEF LeaveFiles
<1>9. ASSUME NEW q \in SetRanks(g)
      PROVE  RankIn(q, y)'
  <2>1. /\ q \in Ranks /\ SetOf(q) = g /\ RankIn(q, x) /\ toSlave[q] = << >>
        /\ \/ pc[q] = "accept" /\ x.kind = "start"
           \/ pc[q] \in {"rename", "action"} /\ x.kind = "report"
    BY JoblessIs
  <2>2. ChainRank(q) \in Members
    BY <2>1, SeatIs
  <2>3. msg[ChainRank(q)] = JobFor(q, y)'
    BY <1>0, <1>4, <2>1, <2>2 DEF JobFor
  <2>4. toSlave'[q] = Told(a, msg[ChainRank(q)])
    <3> DEFINE m == msg[ChainRank(q)]
    <3>1. toSlave'[q] = << >> \o Told(a, m)
      BY <1>0, <2>1
    <3> HIDE DEF m
    <3>2. << >> \o Told(a, m) = Told(a, m)
      BY DEF Told
    <3> QED
      BY <3>1, <3>2 DEF m
  <2>5. /\ pc' = pc /\ task' = task /\ run' = run /\ since' = since /\ before' = before
        /\ reason' = reason /\ partner' = partner /\ bcast' = bcast /\ sys' = sys
    BY DEF slaveVars
  <2>6. Told(a, msg[ChainRank(q)]) = Queue(q, y)'
    <3> DEFINE m == msg[ChainRank(q)]
    <3>1. ToResp(q, y)' = << >>
      BY <1>2, <1>4 DEF ToResp, ToSwap, Ahead
    <3>2. ToJob(q, y)' = <<m>> \o << >>
      BY <1>0, <1>4, <2>3, <3>1 DEF ToJob, Ahead
    <3>3. ToJob(q, y)' = <<m>>
      <4> HIDE DEF m
      <4> QED
        BY <3>2
    <3>4. a # "none" => ToAction(q, y)' = <<ActionMsg(a)>> \o <<m>>
      BY <1>4, <3>3 DEF ToAction, Ahead
    <3> QED
      BY <2>1, <2>5, <3>3, <3>4 DEF Queue, Told, Jobless
  <2>7. Said(q, y)'
    BY <1>0, <1>2, <1>4, <2>1, <2>5 DEF Said, Weighed, Jobless
  <2>8. Placed(q, y)'
    BY <1>0, <1>2, <1>4, <2>1, <2>5 DEF RankIn, Placed, FirstPlaces, Reporting, Jobless
  <2>9. Works(q, y)'
    BY <1>0, <1>4, <2>1, <2>5 DEF RankIn, Works, Reporting, Updating, Sweeping, Writing
  <2>10. Simulates(q, y)'
    BY <1>0, <1>4, <2>1, <2>5 DEF RankIn, Simulates, Updating, Sweeping, Writing
  <2>11. CountsTo(q, y)'
    BY <1>0, <1>4, <2>1, <2>5 DEF RankIn, CountsTo, Updating, Sweeping, Writing
  <2> QED
    BY <2>4, <2>6, <2>7, <2>8, <2>9, <2>10, <2>11 DEF RankIn
<1> QED
  BY <1>4, <1>5, <1>6, <1>7, <1>8, <1>9 DEF SetIn

-----------------------------------------------------------------------------
(* The runs the sets have.                                                 *)

LEMMA SetsFinite == IsFiniteSet(Sets) /\ Cardinality(Sets) = NSets
<1>1. 0 \in Int /\ NSets - 1 \in Int /\ 0 <= NSets - 1
  BY ShapeAssumption
<1>2. IsFiniteSet(0 .. NSets - 1) /\ Cardinality(0 .. NSets - 1) = (NSets - 1) - 0 + 1
  BY <1>1, FS_Interval
<1> QED
  BY <1>2, ShapeAssumption DEF Sets

\* The run that a set would be given next is free and untouched.
LEMMA NextRunFree ==
  ASSUME Types, LeaseInv, phase = "running", NEW g \in Sets, NEW c \in Chains,
         ~IsDone(c, sweeps[c]), setRun[g][1] # c
  PROVE  LET k == NextRun(scheduled[c])
         IN  /\ k \in RunIds /\ k = scheduled[c] + 1 /\ pos[c][k] = Identity
             /\ \A h \in Sets : setRun[h] # <<c, k>>
<1> DEFINE k == NextRun(scheduled[c])
<1>1. IsFiniteSet(Sets \ {g}) /\ Cardinality(Sets \ {g}) = NSets - 1
  BY SetsFinite, FS_RemoveElement
<1>2. Holders(c) \subseteq Sets \ {g}
  BY DEF Holders
<1>3. Cardinality(Holders(c)) \in Nat /\ Cardinality(Holders(c)) <= NSets - 1
  <2>1. IsFiniteSet(Holders(c)) /\ Cardinality(Holders(c)) <= Cardinality(Sets \ {g})
    BY <1>1, <1>2, FS_Subset
  <2>2. Cardinality(Holders(c)) \in Nat
    BY <2>1, FS_CardinalityType
  <2> QED
    BY <1>1, <2>1, <2>2
<1>4. scheduled[c] = Cardinality(Holders(c))
  BY DEF LeaseInv
<1>5. k \in RunIds /\ k = scheduled[c] + 1 /\ k > scheduled[c]
  BY <1>3, <1>4, ShapeAssumption DEF RunIds, NextRun
<1>6. pos[c][k] = Identity
  BY <1>5 DEF LeaseInv
<1>7. ASSUME NEW h \in Sets, setRun[h] = <<c, k>> PROVE FALSE
  <2>1. h \in Holders(c) /\ setRun[h][2] = k
    BY <1>7 DEF Holders
  <2>2. setRun[h][2] <= scheduled[c]
    BY <2>1 DEF LeaseInv
  <2> QED
    BY <1>3, <1>4, <1>5, <2>1, <2>2
<1> QED
  BY <1>5, <1>6, <1>7

\* One more set has a run of chain c.
LEMMA HoldersGain ==
  ASSUME Types, NEW g \in Sets, NEW c \in Chains, NEW k,
         setRun' = [setRun EXCEPT ![g] = <<c, k>>], NEW d \in Chains
  PROVE  Cardinality(Holders(d)') =
           Cardinality(Holders(d)) + (IF d = c THEN 1 ELSE 0)
                                   - (IF d = setRun[g][1] THEN 1 ELSE 0)
<1>1. IsFiniteSet(Holders(d))
  BY SetsFinite, FS_Subset DEF Holders
<1>2. g \in Holders(d) <=> setRun[g][1] = d
  BY DEF Holders
<1>3. Holders(d)' = IF d = c THEN Holders(d) \cup {g} ELSE Holders(d) \ {g}
  BY DEF Holders, Types
<1>4. /\ Cardinality(Holders(d) \cup {g}) = IF g \in Holders(d) THEN Cardinality(Holders(d))
                                           ELSE Cardinality(Holders(d)) + 1
      /\ Cardinality(Holders(d) \ {g}) = IF g \in Holders(d) THEN Cardinality(Holders(d)) - 1
                                           ELSE Cardinality(Holders(d))
      /\ Cardinality(Holders(d)) \in Nat
  BY <1>1, FS_AddElement, FS_RemoveElement, FS_CardinalityType
<1> QED
  BY <1>2, <1>3, <1>4

\* A set has a run no more.
LEMMA HoldersLose ==
  ASSUME Types, NEW g \in Sets, setRun' = [setRun EXCEPT ![g] = NoRun], NEW d \in Chains
  PROVE  Cardinality(Holders(d)') =
           Cardinality(Holders(d)) - (IF d = setRun[g][1] THEN 1 ELSE 0)
<1>1. IsFiniteSet(Holders(d))
  BY SetsFinite, FS_Subset DEF Holders
<1>2. (g \in Holders(d) <=> setRun[g][1] = d) /\ d # -1
  BY ShapeAssumption DEF Holders, Chains
<1>3. Holders(d)' = Holders(d) \ {g}
  BY <1>2 DEF Holders, Types, NoRun
<1>4. /\ Cardinality(Holders(d) \ {g}) = IF g \in Holders(d) THEN Cardinality(Holders(d)) - 1
                                           ELSE Cardinality(Holders(d))
      /\ Cardinality(Holders(d)) \in Nat
  BY <1>1, FS_RemoveElement, FS_CardinalityType
<1> QED
  BY <1>2, <1>3, <1>4

-----------------------------------------------------------------------------
(* A set is given a chain.                                                 *)

\* The chain that assign_new_chain looks for.
LEMMA NewChainIs ==
  ASSUME Types, NEW n \in [Chains -> Nat]
  PROVE  LET c == GetNewTaskId(current, NChains, DoneChains(n))
         IN  /\ c \in Chains \cup {NoTask}
             /\ c # NoTask => c \in Chains /\ ~IsDone(c, n[c])
             /\ c = NoTask <=> DoneChains(n) = Chains
<1>1. /\ current \in -1 .. NChains - 1 /\ NChains \in Nat /\ Chains = 0 .. NChains - 1
      /\ DoneChains(n) \in SUBSET (0 .. NChains - 1)
  BY ShapeAssumption DEF Types, Chains, NoTask, DoneChains
<1> DEFINE c == GetNewTaskId(current, NChains, DoneChains(n))
<1>2. /\ c \in 0 .. NChains - 1 \cup {NoTask}
      /\ c # NoTask => c \notin DoneChains(n)
      /\ c = NoTask <=> DoneChains(n) = 0 .. NChains - 1
  BY <1>1, GetNewTaskIdCorrect
<1> HIDE DEF c
<1> QED
  BY <1>1, <1>2 DEF c, DoneChains

\* What a set of ranks finds on the disk.
LEMMA FoundFiles ==
  ASSUME Types, NEW c \in Chains, NEW k, Agreed(c, k)
  PROVE  \E w \in Nat :
           \/ \A t \in ChainTasks(c) : k \in DOMAIN dump[t] /\ SweepOf(dump[t][k]) = w
           \/ w = 0 /\ \A t \in ChainTasks(c) : k \notin DOMAIN dump[t]
<1> DEFINE t0 == TaskOf(c, 0)
<1>1. t0 \in ChainTasks(c) /\ t0 \in Tasks
  BY TaskIs, MembersAre
<1> HIDE DEF t0
<1>2. CASE k \in DOMAIN dump[t0]
  <2>1. dump[t0][k] \in DumpFiles
    BY <1>1, <1>2 DEF Types, RunFiles
  <2>2. SweepOf(dump[t0][k]) \in Nat
    BY <2>1 DEF DumpFiles, SweepOf
  <2>3. Slot(t0, k) = {dump[t0][k]}
    BY <1>2 DEF Slot
  <2>4. ASSUME NEW t \in ChainTasks(c)
        PROVE  k \in DOMAIN dump[t] /\ dump[t][k] = dump[t0][k]
    <3>1. Slot(t, k) = {dump[t0][k]}
      BY <1>1, <2>3 DEF Agreed
    <3> QED
      BY <3>1 DEF Slot
  <2> QED
    BY <2>2, <2>4
<1>3. CASE k \notin DOMAIN dump[t0]
  <2>1. Slot(t0, k) = {}
    BY <1>3 DEF Slot
  <2>2. ASSUME NEW t \in ChainTasks(c) PROVE k \notin DOMAIN dump[t]
    <3>1. Slot(t, k) = {}
      BY <1>1, <2>1 DEF Agreed
    <3> QED
      BY <3>1 DEF Slot
  <2> QED
    BY <2>2
<1> QED
  BY <1>2, <1>3

\* A run that no set has is not being renamed.
LEMMA FreeRunAgrees ==
  ASSUME FilesInv, RenameInv, phase = "running", NEW c \in Chains, NEW k \in RunIds,
         ~IsDone(c, sweeps[c]), \A h \in Sets : setRun[h] # <<c, k>>
  PROVE  Agreed(c, k)
<1>1. ASSUME NEW r \in Renaming PROVE RunOf(r) # <<c, k>>
  <2>1. SetOf(r) \in Sets
    BY SeatIs DEF Renaming
  <2>2. RunOf(r) = setRun[SetOf(r)] \/ IsDone(ChainOf(task[r]), sweeps[ChainOf(task[r])])
    BY DEF RenameInv
  <2> QED
    BY <2>1, <2>2 DEF RunOf
<1> QED
  BY <1>1 DEF FilesInv

\* What is sent before the job.
Before(a) == IF a = "none" THEN << >> ELSE <<ActionMsg(a)>>

LEMMA AssignKeeps ==
  ASSUME Types, FilesInv, RenameInv, LeaseInv, phase = "running",
         NEW g \in Sets, NEW x \in Paths, SetIn(g, x), NEW a, Jobless(g, x, a),
         NEW n \in [Chains -> Nat], NEW sch, AssignNewChain(g, n, sch, Before(a)),
         \A d \in Chains : ~IsDone(d, n[d]) =>
           /\ d # setRun[g][1] /\ ~IsDone(d, sweeps[d]) /\ sch[d] = scheduled[d],
         slaveVars' = slaveVars, dump' = dump, pos' = pos, odd' = odd,
         mode' # <<"weights", g>>, ~Undealt(g)',
         \A q \in SetRanks(g) : toMaster'[q] = << >>
  PROVE  /\ \E y \in Paths : SetIn(g, y)'
         /\ \A h \in Sets \ {g} : RunStill(h)
         /\ \A q \in Ranks : SetOf(q) # g => toSlave'[q] = toSlave[q]
<1> DEFINE c == GetNewTaskId(current, NChains, DoneChains(n))
           k == NextRun(sch[c])
<1>1. /\ c \in Chains \cup {NoTask}
      /\ c # NoTask => c \in Chains /\ ~IsDone(c, n[c])
  BY NewChainIs
<1>2. \/ /\ c # NoTask
         /\ setRun' = [setRun EXCEPT ![g] = <<c, k>>]
         /\ toSlave' = PushSet(toSlave, g,
              [i \in Members |-> Append(Before(a), JobMsg(TaskOf(c, i), k, SweepsUntilComm(c, n[c])))])
      \/ /\ c = NoTask
         /\ setRun' = [setRun EXCEPT ![g] = NoRun]
         /\ toSlave' = PushSet(toSlave, g, [i \in Members |-> Append(Before(a), JobMsg(NoTask, 0, 0))])
  BY DEF AssignNewChain
<1> HIDE DEF c, k
<1>3. setRun'[g] = IF c # NoTask THEN <<c, k>> ELSE NoRun
  BY <1>2 DEF Types
<1>4. ASSUME NEW h \in Sets \ {g} PROVE RunStill(h)
  <2>1. setRun'[h] = setRun[h]
    BY <1>2 DEF Types
  <2> QED
    BY <2>1 DEF RunStill, PosAt, OddAt, ChainAt, RunAt
<1>5. ASSUME NEW q \in Ranks, SetOf(q) # g PROVE toSlave'[q] = toSlave[q]
  BY <1>2, <1>5 DEF PushSet
<1>6. \A m : Append(Before(a), m) = Told(a, m)
  <2>1. TAKE m
  <2>2. /\ Append(<< >>, m) = <<m>>
        /\ Append(<<ActionMsg(a)>>, m) = <<ActionMsg(a)>> \o <<m>>
    <3> DEFINE e == ActionMsg(a)
    <3> HIDE DEF e
    <3>1. << >> \in Seq({e, m}) /\ <<e>> \in Seq({e, m})
      OBVIOUS
    <3>2. Append(<< >>, m) = <<m>>
      BY <3>1
    <3>3. Append(<<e>>, m) = <<e>> \o <<m>>
      BY <3>1
    <3> QED
      BY <3>2, <3>3 DEF e
  <2> QED
    BY <2>2 DEF Before, Told
<1>61. \A q \in SetRanks(g) : q \in Ranks /\ SetOf(q) = g /\ ChainRank(q) \in Members
  BY SeatIs DEF SetRanks
<1>7. CASE c = NoTask
  <2> DEFINE msg == [i \in Members |-> JobMsg(NoTask, 0, 0)]
  <2>1. \A q \in SetRanks(g) : toSlave'[q] = toSlave[q] \o Told(a, msg[ChainRank(q)])
    <3> TAKE q \in SetRanks(g)
    <3>1. q \in Ranks /\ SetOf(q) = g /\ ChainRank(q) \in Members
      BY <1>61
    <3>2. toSlave'[q] = toSlave[q] \o Append(Before(a), JobMsg(NoTask, 0, 0))
      BY <1>2, <1>7, <3>1 DEF PushSet
    <3>3. msg[ChainRank(q)] = JobMsg(NoTask, 0, 0)
      BY <3>1
    <3> HIDE DEF msg
    <3> QED
      BY <1>6, <3>2, <3>3
  <2>2. \A i \in Members : msg[i] = JobMsg(NoTask, 0, 0)
    OBVIOUS
  <2> HIDE DEF msg
  <2>3. \E y \in Paths : SetIn(g, y)'
    <3>1. Gives(g, a, "quit", "exit", 0, 1, msg)
      <4>1. setRun'[g] = NoRun /\ 0 \in Nat /\ 1 \in Nat \ {0}
        BY <1>3, <1>7
      <4> QED
        BY <2>1, <2>2, <4>1, Zenon DEF Gives
    <3> QED
      BY <3>1, JobKeeps
  <2> QED
    BY <1>4, <1>5, <2>3
<1>8. CASE c # NoTask
  <2>1. /\ c \in Chains /\ c # setRun[g][1] /\ ~IsDone(c, sweeps[c]) /\ sch[c] = scheduled[c]
        /\ k = NextRun(scheduled[c])
    BY <1>1, <1>8 DEF k
  <2>2. k \in RunIds /\ pos[c][k] = Identity /\ \A h \in Sets : setRun[h] # <<c, k>>
    BY <2>1, NextRunFree
  <2>3. Agreed(c, k)
    BY <2>1, <2>2, FreeRunAgrees
  <2>4. setRun'[g] = <<c, k>> /\ setRun'[g] # NoRun
    BY <1>3, <1>8, <2>1, ShapeAssumption DEF NoRun, Chains
  <2>5. ChainAt(g)' = c /\ RunAt(g)' = k /\ PosAt(g)' = Identity
    BY <2>2, <2>4 DEF ChainAt, RunAt, PosAt
  <2>6. PICK w \in Nat :
           \/ \A t \in ChainTasks(c) : k \in DOMAIN dump[t] /\ SweepOf(dump[t][k]) = w
           \/ w = 0 /\ \A t \in ChainTasks(c) : k \notin DOMAIN dump[t]
    BY <2>1, <2>3, FoundFiles
  <2>7. PICK way \in {"sweep", "write"} :
           \/ way = "sweep" /\ \A t \in ChainTasks(c) : k \in DOMAIN dump[t] /\ SweepOf(dump[t][k]) = w
           \/ way = "write" /\ w = 0 /\ \A t \in ChainTasks(c) : k \notin DOMAIN dump[t]
    BY <2>6
  <2> DEFINE b == SweepsUntilComm(c, n[c])
             msg == [i \in Members |-> JobMsg(TaskOf(c, i), k, b)]
  <2>8. b \in Nat \ {0}
    BY <2>1, JobAssumption DEF SweepsUntilComm, AtLeast
  <2>9. \A q \in SetRanks(g) : toSlave'[q] = toSlave[q] \o Told(a, msg[ChainRank(q)])
    <3> TAKE q \in SetRanks(g)
    <3>1. q \in Ranks /\ SetOf(q) = g /\ ChainRank(q) \in Members
      BY <1>61
    <3>2. toSlave'[q] = toSlave[q]
                     \o Append(Before(a), JobMsg(TaskOf(c, ChainRank(q)), k,
                                                 SweepsUntilComm(c, n[c])))
      BY <1>2, <1>8, <3>1 DEF PushSet
    <3>3. msg[ChainRank(q)] = JobMsg(TaskOf(c, ChainRank(q)), k, b)
      BY <3>1
    <3> HIDE DEF msg
    <3> QED
      BY <1>6, <3>2, <3>3
  <2>10. \A i \in Members : msg[i] = JobMsg(TaskOf(ChainAt(g)', i), RunAt(g)', b)
    BY <2>5
  <2>11. ChainAt(g)' # ChainAt(g)
    BY <2>1, <2>5 DEF ChainAt
  <2> HIDE DEF b, msg
  <2>14. \E y \in Paths : SetIn(g, y)'
    <3>1. Gives(g, a, "job", way, w, b, msg)
      BY <2>4, <2>5, <2>6, <2>7, <2>8, <2>9, <2>10, <2>11 DEF Gives
    <3> QED
      BY <3>1, JobKeeps
  <2> QED
    BY <1>4, <1>5, <2>14
<1> QED
  BY <1>7, <1>8

LEMMA AssignFirstKeeps ==
  ASSUME Types, FilesInv, RenameInv, LeaseInv,
         NEW g \in Sets, NEW x \in Paths, SetIn(g, x), AssignFirst(g)
  PROVE  /\ setRun[g] = NoRun
         /\ \E y \in Paths : SetIn(g, y)'
         /\ \A h \in Sets \ {g} : OtherSet(h)
<1>1. /\ phase = "running" /\ mode = <<"assign", g>> /\ g \in Int
      /\ mode' = IF g + 1 \in Sets THEN <<"assign", g + 1>> ELSE <<"react">>
      /\ slaveVars' = slaveVars /\ dump' = dump /\ pos' = pos /\ odd' = odd
      /\ toMaster' = toMaster /\ sweeps \in [Chains -> Nat]
      /\ AssignNewChain(g, sweeps, scheduled, << >>)
  BY DEF AssignFirst, slaveVars, fileVars, Types, Sets
<1>2. Seated(g, x) /\ Undealt(g)
  BY <1>1 DEF SetIn, Undealt
<1>3. x.kind = "start" /\ x.job = "none" /\ ~HasRun(x) /\ setRun[g] = NoRun
  BY <1>2 DEF Seated, HasRun
<1>4. Jobless(g, x, "none") /\ Before("none") = << >>
  BY <1>3 DEF Jobless, Before
<1>5. \A h \in Sets : mode' # <<"weights", h>> /\ mode # <<"weights", h>>
  BY <1>1, ModesApart
<1>6. \A h \in Sets : (Undealt(h) <=> g <= h) /\ (Undealt(h)' <=> g + 1 <= h)
  <2>1. TAKE h \in Sets
  <2>2. h \in Int /\ h <= NSets - 1 /\ (g + 1 \in Sets <=> g + 1 <= NSets - 1)
    BY <1>1, ShapeAssumption DEF Sets
  <2>3. Undealt(h) <=> g <= h
    BY <1>1, ModesApart DEF Undealt
  <2>4. CASE g + 1 \in Sets
    BY <1>1, <2>3, <2>4, ModesApart DEF Undealt
  <2>5. CASE g + 1 \notin Sets
    <3>1. ~Undealt(h)'
      BY <1>1, <2>5, ModesApart DEF Undealt
    <3>2. ~(g + 1 <= h)
      BY <1>1, <2>2, <2>5, ShapeAssumption
    <3> QED
      BY <2>3, <3>1, <3>2
  <2> QED
    BY <2>4, <2>5
<1>7. ~Undealt(g)'
  BY <1>1, <1>6
<1>8. \A d \in Chains : d # setRun[g][1]
  BY <1>3, ShapeAssumption DEF NoRun, Chains
<1>9. \A q \in SetRanks(g) : toMaster'[q] = << >>
  <2>1. TAKE q \in SetRanks(g)
  <2>2. toMaster[q] = << >>
    BY <1>3, <1>4, JoblessIs
  <2> QED
    BY <1>1, <2>2
<1>10. /\ \E y \in Paths : SetIn(g, y)'
       /\ \A h \in Sets \ {g} : RunStill(h)
       /\ \A q \in Ranks : SetOf(q) # g => toSlave'[q] = toSlave[q]
  BY <1>1, <1>4, <1>5, <1>7, <1>8, <1>9, AssignKeeps
<1>11. ASSUME NEW h \in Sets \ {g} PROVE OtherSet(h)
  <2>1. ModeStill(h)
    <3>1. h \in Int /\ h # g
      BY DEF Sets
    <3> QED
      BY <1>1, <1>5, <1>6, <3>1 DEF ModeStill
  <2>2. \A q \in SetRanks(h) : Still(q)
    BY <1>1, <1>10 DEF Still, slaveVars, SetRanks
  <2> QED
    BY <1>10, <2>1, <2>2 DEF OtherSet
<1> QED
  BY <1>3, <1>10, <1>11

\* What the master finds when a set reports.
LEMMA BusyIs ==
  ASSUME Types, NEW r \in Ranks, NEW x \in Paths, SetIn(SetOf(r), x), ReactBusy(r)
  PROVE  LET g == SetOf(r)
             c == setRun[g][1]
             n == [sweeps EXCEPT ![c] = @ + Head(toMaster[r]).sweeps]
         IN  /\ phase = "running" /\ mode = <<"react">> /\ mode' = mode
             /\ slaveVars' = slaveVars /\ pc' = pc /\ dump' = dump
             /\ pos' = pos /\ odd' = odd /\ sweeps' = n
             /\ IsRoot(r) /\ pc[r] = "action" /\ x.kind = "report" /\ x.act = "none" /\ x.job = "none"
             /\ g \in Sets /\ r \in SetRanks(g) /\ HasRun(x)
             /\ c \in Chains /\ setRun[g] # NoRun /\ n \in [Chains -> Nat]
             /\ \A d \in Chains : ~IsDone(d, n[d]) => ~IsDone(d, sweeps[d])
             /\ \A d \in Chains : d # c => n[d] = sweeps[d]
             /\ \A q \in Ranks : q # r => toMaster'[q] = toMaster[q]
             /\ \A q \in SetRanks(g) : toMaster'[q] = << >> /\ (IsRoot(q) => q = r)
<1> DEFINE g == SetOf(r)
           c == setRun[g][1]
           m == Head(toMaster[r]).sweeps
           n == [sweeps EXCEPT ![c] = @ + m]
<1>1. /\ phase = "running" /\ mode = <<"react">> /\ mode' = mode
      /\ toMaster[r] # << >> /\ Head(toMaster[r]).type = "busy"
      /\ toMaster' = [toMaster EXCEPT ![r] = Tail(toMaster[r])]
      /\ slaveVars' = slaveVars /\ pc' = pc /\ dump' = dump
      /\ pos' = pos /\ odd' = odd /\ sweeps' = n
  BY DEF ReactBusy, Receives, HeadIs, Pop, slaveVars
<1>2. /\ IsRoot(r) /\ pc[r] = "action" /\ x.act = "none"
      /\ Tail(toMaster[r]) = << >> /\ m \in Nat
  BY <1>1, Sender
<1>3. /\ Path(x) /\ Seated(g, x) /\ g \in Sets /\ r \in SetRanks(g) /\ RankIn(r, x)
  BY SeatIs DEF SetIn, SetRanks
<1>4. x.kind = "report" /\ x.job = "none" /\ HasRun(x)
  BY <1>2, <1>3, WhereIs DEF RankIn, HasRun, Path
<1>5. c \in Chains /\ setRun[g] # NoRun
  BY <1>3, <1>4, RunIs DEF ChainAt
<1> HIDE DEF m, c
<1>6. n \in [Chains -> Nat] /\ n[c] >= sweeps[c] /\ \A d \in Chains : d # c => n[d] = sweeps[d]
  BY <1>2, <1>5 DEF Types
<1>7. \A d \in Chains : ~IsDone(d, n[d]) => ~IsDone(d, sweeps[d])
  <2>1. ASSUME NEW d \in Chains, ~IsDone(d, n[d]) PROVE ~IsDone(d, sweeps[d])
    <3>1. n[d] \in Nat /\ sweeps[d] \in Nat /\ n[d] >= sweeps[d] /\ Target[d] \in Nat
      BY <1>6, JobAssumption DEF Types
    <3> HIDE DEF n
    <3> QED
      BY <2>1, <3>1 DEF IsDone
  <2> QED
    BY <2>1
<1>8. \A q \in Ranks : q # r => toMaster'[q] = toMaster[q]
  BY <1>1 DEF Types
<1>9. ASSUME NEW q \in SetRanks(g) PROVE toMaster'[q] = << >> /\ (IsRoot(q) => q = r)
  <2>1. q \in Ranks /\ SetOf(q) = g /\ (IsRoot(q) => q = r)
    BY <1>2, SameSeat DEF SetRanks, IsRoot
  <2>2. CASE q = r
    BY <1>1, <1>2, <2>1, <2>2 DEF Types
  <2>3. CASE q # r
    <3>1. ~IsRoot(q) /\ RankIn(q, x) /\ toMaster'[q] = toMaster[q]
      BY <1>8, <2>1, <2>3 DEF SetIn
    <3>2. pc[q] # "left" /\ ~Weighed(q, x)
      BY <1>2, <1>3, <1>4, <3>1, WhereIs, NothingElse DEF RankIn, Weighed
    <3> QED
      BY <2>1, <3>1, <3>2 DEF RankIn, Said
  <2> QED
    BY <2>1, <2>2, <2>3
<1> HIDE DEF n
<1> QED
  BY <1>1, <1>2, <1>3, <1>4, <1>5, <1>6, <1>7, <1>8, <1>9 DEF m, c, n

LEMMA BusyDoneKeeps ==
  ASSUME Types, FilesInv, RenameInv, LeaseInv,
         NEW r \in Ranks, NEW x \in Paths, SetIn(SetOf(r), x), ReactBusy(r),
         IsDone(setRun[SetOf(r)][1], sweeps'[setRun[SetOf(r)][1]])
  PROVE  /\ \E y \in Paths : SetIn(SetOf(r), y)'
         /\ \A h \in Sets \ {SetOf(r)} : OtherSet(h)
<1> DEFINE g == SetOf(r)
           c == setRun[g][1]
           n == [sweeps EXCEPT ![c] = @ + Head(toMaster[r]).sweeps]
           left == scheduled[c] - 1
           a == LastVerdict(left)
           sch == [scheduled EXCEPT ![c] = left]
<1>1. /\ phase = "running" /\ mode = <<"react">> /\ mode' = mode
      /\ slaveVars' = slaveVars /\ pc' = pc /\ dump' = dump
      /\ pos' = pos /\ odd' = odd /\ sweeps' = n
      /\ IsRoot(r) /\ pc[r] = "action" /\ x.kind = "report" /\ x.act = "none" /\ x.job = "none"
      /\ g \in Sets /\ c \in Chains /\ n \in [Chains -> Nat]
      /\ \A d \in Chains : ~IsDone(d, n[d]) => ~IsDone(d, sweeps[d])
      /\ \A q \in Ranks : q # r => toMaster'[q] = toMaster[q]
      /\ \A q \in SetRanks(g) : toMaster'[q] = << >> /\ (IsRoot(q) => q = r)
  BY BusyIs
<1>2. IsDone(c, n[c])
  BY <1>1
<1>3. AssignNewChain(g, n, sch, <<ActionMsg(a)>>)
  BY <1>2 DEF ReactBusy
<1>4. a \in {"new_job", "process"}
  BY DEF LastVerdict
<1> HIDE DEF a
<1>5. Before(a) = <<ActionMsg(a)>> /\ Jobless(g, x, a)
  BY <1>1, <1>4 DEF Before, Jobless
<1>6. \A d \in Chains : ~IsDone(d, n[d]) =>
           /\ d # setRun[g][1] /\ ~IsDone(d, sweeps[d]) /\ sch[d] = scheduled[d]
  <2> HIDE DEF n
  <2> QED
    BY <1>1, <1>2 DEF Types
<1>7. \A h \in Sets : ~Undealt(h)' /\ ~Undealt(h) /\ mode' # <<"weights", h>> /\ mode # <<"weights", h>>
  BY <1>1, ModesApart DEF Undealt
<1> HIDE DEF n, sch, g
<1>8. /\ \E y \in Paths : SetIn(g, y)'
      /\ \A h \in Sets \ {g} : RunStill(h)
      /\ \A q \in Ranks : SetOf(q) # g => toSlave'[q] = toSlave[q]
  <2>1. SetIn(g, x)
    BY DEF g
  <2> QED
    BY <1>1, <1>3, <1>5, <1>6, <1>7, <2>1, AssignKeeps
<1>9. ASSUME NEW h \in Sets \ {g} PROVE OtherSet(h)
  <2>1. ModeStill(h)
    BY <1>1, <1>7 DEF ModeStill
  <2>2. \A q \in SetRanks(h) : Still(q)
    BY <1>1, <1>8 DEF Still, slaveVars, SetRanks, g
  <2> QED
    BY <1>8, <2>1, <2>2 DEF OtherSet
<1> QED
  BY <1>8, <1>9 DEF g

LEMMA BusyContinueKeeps ==
  ASSUME Types, NEW r \in Ranks, NEW x \in Paths, SetIn(SetOf(r), x), ReactBusy(r),
         ~IsDone(setRun[SetOf(r)][1], sweeps'[setRun[SetOf(r)][1]])
  PROVE  /\ setRun' = setRun
         /\ \E y \in Paths : SetIn(SetOf(r), y)'
         /\ \A h \in Sets \ {SetOf(r)} : OtherSet(h)
<1> DEFINE g == SetOf(r)
           y == [x EXCEPT !.act = "continue", !.way = "sweep"]
<1>1. /\ phase = "running" /\ mode = <<"react">> /\ mode' = mode
      /\ slaveVars' = slaveVars /\ pc' = pc /\ dump' = dump
      /\ pos' = pos /\ odd' = odd
      /\ IsRoot(r) /\ pc[r] = "action" /\ x.kind = "report" /\ x.act = "none" /\ x.job = "none"
      /\ g \in Sets /\ r \in SetRanks(g) /\ HasRun(x)
      /\ \A q \in Ranks : q # r => toMaster'[q] = toMaster[q]
      /\ \A q \in SetRanks(g) : toMaster'[q] = << >> /\ (IsRoot(q) => q = r)
  BY BusyIs
<1>2. /\ toSlave' = PushSet(toSlave, g, [i \in Members |-> <<ActionMsg("continue")>>])
      /\ setRun' = setRun
  <2>1. sweeps' = [sweeps EXCEPT ![setRun[g][1]] = @ + Head(toMaster[r]).sweeps]
    BY DEF ReactBusy
  <2> QED
    BY <2>1 DEF ReactBusy
<1>3. /\ Path(x) /\ Seated(g, x) /\ FindFiles(g, x) /\ LeaveFiles(g, x)
      /\ \A q \in SetRanks(g) : RankIn(q, x)
  BY DEF SetIn
<1>4. Jobless(g, x, "new_job")
  BY <1>1 DEF Jobless
<1>5. /\ x.first = "none" /\ x.resp = "none" /\ x.swap = "none"
      /\ x.dec = "none" /\ x.way = "none" /\ x.own = setRun[g]
      /\ \A q \in SetRanks(g) :
           /\ q \in Ranks /\ SetOf(q) = g /\ RankIn(q, x) /\ toSlave[q] = << >>
           /\ pc[q] \in {"rename", "action"}
  BY <1>1, <1>4, JoblessIs
<1>6. /\ y \in Paths /\ y.act = "continue" /\ y.way = "sweep"
      /\ y.kind = x.kind /\ y.resp = x.resp /\ y.job = x.job /\ y.first = x.first
      /\ y.swap = x.swap /\ y.dec = x.dec /\ y.own = x.own
      /\ y.was = x.was /\ y.held = x.held /\ y.old = x.old /\ y.u = x.u /\ y.w = x.w
      /\ y.s = x.s /\ y.b = x.b
  BY DEF Paths
<1> HIDE DEF y
<1>7. Path(y)
  BY <1>1, <1>3, <1>5, <1>6 DEF Path
<1>8. RunStill(g) /\ (\A h : RunStill(h)) /\ \A h \in Sets : ModeStill(h)
  BY <1>1, <1>2 DEF RunStill, PosAt, OddAt, ChainAt, RunAt, ModeStill, Undealt
<1>9. Seated(g, y)'
  <2>1. Seated(g, y)
    BY <1>1, <1>3, <1>5, <1>6 DEF Seated, Waiting, HasRun
  <2> QED
    BY <1>1, <1>8, <2>1, SeatedStill
<1>10. FindFiles(g, y)' /\ LeaveFiles(g, y)'
  <2>1. FindFiles(g, y)'
    BY <1>1, <1>6 DEF FindFiles
  <2>2. \A t, k : Slot(t, k)' = Slot(t, k)
    BY <1>1 DEF Slot
  <2>3. LeaveFiles(g, y)'
    BY <1>1, <1>3, <1>6, <2>2 DEF LeaveFiles
  <2> QED
    BY <2>1, <2>3
<1>11. ASSUME NEW q \in SetRanks(g)
       PROVE  RankIn(q, y)'
  <2>1. q \in Ranks /\ SetOf(q) = g /\ RankIn(q, x) /\ toSlave[q] = << >> /\ pc[q] \in {"rename", "action"}
    BY <1>5
  <2>2. ChainRank(q) \in Members
    BY <2>1, SeatIs
  <2>3. toSlave'[q] = << >> \o <<ActionMsg("continue")>>
    BY <1>2, <2>1, <2>2 DEF PushSet
  <2>4. toSlave'[q] = <<ActionMsg("continue")>>
    <3> DEFINE m == ActionMsg("continue")
    <3> HIDE DEF m
    <3>1. << >> \o <<m>> = <<m>>
      OBVIOUS
    <3> QED
      BY <2>3, <3>1 DEF m
  <2>5. Queue(q, y)' = <<ActionMsg("continue")>>
    <3> DEFINE m == ActionMsg("continue")
    <3>1. ToJob(q, y)' = << >>
      BY <1>1, <1>5, <1>6 DEF ToJob, ToResp, ToSwap, Ahead
    <3>2. ToAction(q, y)' = <<m>> \o << >>
      BY <1>6, <3>1 DEF ToAction, Ahead
    <3>3. <<m>> \o << >> = <<m>>
      <4> HIDE DEF m
      <4> QED
        OBVIOUS
    <3>4. pc'[q] \in {"rename", "action"}
      BY <1>1, <2>1
    <3> QED
      BY <3>2, <3>3, <3>4 DEF Queue
  <2>6. Said(q, y)'
    BY <1>1, <1>5, <1>6, <2>1 DEF Said, Weighed
  <2>7. Placed(q, y)'
    BY <1>1, <1>5, <1>6, <2>1 DEF RankIn, Placed, FirstPlaces, LastPlaces, Reporting
  <2>8. Works(q, y)' /\ Simulates(q, y)' /\ CountsTo(q, y)'
    BY <1>2, <1>1, <1>6, <2>1, WorkSame
  <2> QED
    BY <2>4, <2>5, <2>6, <2>7, <2>8 DEF RankIn
<1>12. ASSUME NEW h \in Sets \ {g} PROVE OtherSet(h)
  <2>1. ASSUME NEW q \in SetRanks(h) PROVE Still(q)
    <3>1. q \in Ranks /\ SetOf(q) # g /\ q # r
      BY DEF SetRanks
    <3>2. toSlave'[q] = toSlave[q]
      BY <1>2, <3>1 DEF PushSet
    <3> QED
      BY <1>1, <3>1, <3>2 DEF Still, slaveVars
  <2> QED
    BY <1>8, <2>1 DEF OtherSet
<1> QED
  BY <1>2, <1>6, <1>7, <1>9, <1>10, <1>11, <1>12 DEF SetIn

LEMMA ReactTimeUpKeeps ==
  ASSUME Types, NEW r \in Ranks, NEW x \in Paths, SetIn(SetOf(r), x), ReactTimeUp(r)
  PROVE  /\ pc[r] = "left" /\ toMaster[r] # << >> /\ toMaster'[r] = << >>
         /\ SetIn(SetOf(r), x)'
         /\ \A h \in Sets \ {SetOf(r)} : OtherSet(h)
<1> DEFINE g == SetOf(r)
<1>1. /\ mode = <<"react">> /\ mode' = mode /\ toMaster[r] # << >>
      /\ Head(toMaster[r]).type = "timeup"
      /\ toMaster' = [toMaster EXCEPT ![r] = Tail(toMaster[r])]
      /\ slaveVars' = slaveVars /\ pc' = pc /\ dump' = dump /\ toSlave' = toSlave
      /\ pos' = pos /\ odd' = odd /\ setRun' = setRun
  BY DEF ReactTimeUp, Receives, HeadIs, Pop, slaveVars, fileVars
<1>2. pc[r] = "left" /\ Tail(toMaster[r]) = << >>
  BY <1>1, Sender
<1>3. toMaster'[r] = << >> /\ \A q \in Ranks : q # r => toMaster'[q] = toMaster[q]
  BY <1>1, <1>2 DEF Types
<1>4. \A h : RunStill(h) /\ ModeStill(h)
  BY <1>1 DEF RunStill, PosAt, OddAt, ChainAt, RunAt, ModeStill, Undealt
<1>5. /\ Path(x) /\ Seated(g, x) /\ FindFiles(g, x) /\ LeaveFiles(g, x)
      /\ \A q \in SetRanks(g) : q \in Ranks /\ SetOf(q) = g /\ RankIn(q, x)
  BY DEF SetIn, SetRanks
<1>6. \A q \in Ranks : q # r => Still(q)
  BY <1>1, <1>3 DEF Still, slaveVars
<1>7. ASSUME NEW q \in SetRanks(g) PROVE RankIn(q, x)'
  <2>1. CASE q # r
    BY <1>4, <1>5, <1>6, <2>1, RankStill
  <2>2. CASE q = r
    <3>1. Queue(r, x)' = Queue(r, x) /\ SetOf(r) = g /\ RankIn(r, x)
      BY <1>1, <1>4, <1>5, <2>2, QueuesStill DEF Queue
    <3>2. Said(r, x)'
      BY <1>1, <1>2, <1>3 DEF Said
    <3>3. Placed(r, x)'
      BY <1>1, <3>1 DEF RankIn, Placed
    <3>4. Works(r, x)' /\ Simulates(r, x)' /\ CountsTo(r, x)'
      BY <1>1, <3>1, WorkSame
    <3> QED
      BY <1>1, <2>2, <3>1, <3>2, <3>3, <3>4 DEF RankIn
  <2> QED
    BY <2>1, <2>2
<1>8. Seated(g, x)' /\ FindFiles(g, x)' /\ LeaveFiles(g, x)'
  BY <1>1, <1>4, <1>5, SeatedStill, FilesSame
<1>9. ASSUME NEW h \in Sets \ {g} PROVE OtherSet(h)
  <2>1. \A q \in SetRanks(h) : Still(q)
    BY <1>6 DEF SetRanks
  <2> QED
    BY <1>4, <2>1 DEF OtherSet
<1> QED
  BY <1>1, <1>2, <1>3, <1>5, <1>7, <1>8, <1>9 DEF SetIn

\* Two paths with the same messages.
LEMMA QueuesSame ==
  ASSUME NEW r, NEW x, NEW y, y.act = x.act, y.job = x.job, y.first = x.first,
         y.resp = x.resp, y.swap = x.swap, y.was = x.was, y.held = x.held, y.b = x.b
  PROVE  Queue(r, y) = Queue(r, x)
<1>1. ToSwap(r, y) = ToSwap(r, x) /\ ToResp(r, y) = ToResp(r, x)
  BY DEF ToSwap, ToResp, RespFor
<1> QED
  BY <1>1 DEF ToFirst, ToJob, ToAction, JobFor, Queue

\* Where a set is when chain rank 0 looks at the clock.
LEMMA ClockIs ==
  ASSUME Types, Together, NEW r \in Ranks, NEW x \in Paths, SetIn(SetOf(r), x), Negotiate(r)
  PROVE  /\ x.kind = "update" /\ x.first = "sent" /\ x.dec = "none" /\ x.way = "none"
         /\ x.resp = "none" /\ x.swap = "none" /\ x.job = "none" /\ x.act = "none"
         /\ since[r] = SinceThen(x, ChainAt(SetOf(r))) /\ before[r] = x.b
         /\ HasRun(x)
         /\ \A q \in SetRanks(SetOf(r)) :
              /\ q \in Ranks /\ SetOf(q) = SetOf(r) /\ RankIn(q, x) /\ pc[q] \in Updating
              /\ toMaster[q] = << >> /\ ~Weighed(q, x) /\ (IsRoot(q) => q = r)
<1> DEFINE g == SetOf(r)
<1>1. pc[r] = "negotiate" /\ IsRoot(r)
  BY DEF Negotiate, At
<1>2. RankIn(r, x) /\ Path(x) /\ Seated(g, x) /\ x.kind = "update" /\ HasRun(x)
  BY <1>1, UpdatingIs DEF Updating
<1>3. x.first = "sent" /\ x.dec = "none"
  BY <1>1, <1>2 DEF RankIn, Placed, Updating, Paths, Flag
<1>4. /\ x.way = "none" /\ x.resp = "none" /\ x.swap = "none" /\ x.job = "none" /\ x.act = "none"
  BY <1>2, <1>3, NothingElse DEF Path
<1>5. since[r] = SinceThen(x, ChainAt(g)) /\ before[r] = x.b
  BY <1>1, <1>2 DEF RankIn, CountsTo, Updating
<1>6. ASSUME NEW q \in SetRanks(g)
      PROVE  /\ q \in Ranks /\ SetOf(q) = SetOf(r) /\ RankIn(q, x) /\ pc[q] \in Updating
             /\ toMaster[q] = << >> /\ ~Weighed(q, x) /\ (IsRoot(q) => q = r)
  <2>1. q \in Ranks /\ SetOf(q) = SetOf(r) /\ RankIn(q, x)
    BY DEF SetIn, SetRanks
  <2>2. pc[q] \in Updating
    BY <1>2, <1>4, <2>1 DEF RankIn, Placed, FirstPlaces, LastPlaces
  <2>3. ~Weighed(q, x) /\ toMaster[q] = << >>
    BY <1>3, <1>4, <2>1, <2>2 DEF RankIn, Said, Weighed, Updating
  <2>4. IsRoot(q) => q = r
    BY <1>1, <2>1, SameSeat DEF IsRoot
  <2> QED
    BY <2>1, <2>2, <2>3, <2>4
<1> QED
  BY <1>2, <1>3, <1>4, <1>5, <1>6

LEMMA NegotiateKeeps ==
  ASSUME Types, Together, NEW r \in Ranks, NEW x \in Paths, SetIn(SetOf(r), x), Negotiate(r)
  PROVE  /\ \E y \in Paths : SetIn(SetOf(r), y)'
         /\ \A h \in Sets \ {SetOf(r)} : OtherSet(h)
<1> DEFINE g == SetOf(r)
<1>0. PICK res \in {"continue", "checkpoint", "timeup"} :
        /\ bcast' = [q \in Ranks |-> IF q # r /\ SetOf(q) = SetOf(r) THEN res ELSE bcast[q]]
        /\ Obey(r, res)
  BY DEF Negotiate, TimeoutResults
<1>1. /\ pc[r] = "negotiate" /\ IsRoot(r)
      /\ UNCHANGED <<task, run, since, before, partner, sys, toMaster, toSlave>>
      /\ mode' = mode /\ setRun' = setRun /\ pos' = pos /\ odd' = odd /\ dump' = dump
      /\ UNCHANGED masterVars
  BY DEF Negotiate, At, netVars, masterVars, fileVars
<1>2. /\ x.kind = "update" /\ x.first = "sent" /\ x.dec = "none" /\ x.way = "none"
      /\ x.resp = "none" /\ x.swap = "none" /\ x.job = "none" /\ x.act = "none"
      /\ since[r] = SinceThen(x, ChainAt(SetOf(r))) /\ before[r] = x.b
      /\ HasRun(x)
      /\ \A q \in SetRanks(SetOf(r)) :
           /\ q \in Ranks /\ SetOf(q) = SetOf(r) /\ RankIn(q, x) /\ pc[q] \in Updating
           /\ toMaster[q] = << >> /\ ~Weighed(q, x) /\ (IsRoot(q) => q = r)
  BY ClockIs
<1>3. PICK way \in {"sweep", "write"} :
        way = "sweep" <=> res = "continue" /\ SinceThen(x, ChainAt(g)) < x.b
  OBVIOUS
<1> DEFINE y == [x EXCEPT !.dec = res, !.way = way]
<1>4. /\ y \in Paths /\ y.dec = res /\ y.way = way
      /\ y.kind = x.kind /\ y.act = x.act /\ y.job = x.job /\ y.first = x.first
      /\ y.resp = x.resp /\ y.swap = x.swap /\ y.own = x.own
      /\ y.was = x.was /\ y.held = x.held /\ y.old = x.old /\ y.u = x.u /\ y.w = x.w
      /\ y.s = x.s /\ y.b = x.b
  BY DEF Paths
<1> HIDE DEF y
<1>5. /\ Path(x) /\ Seated(g, x) /\ LeaveFiles(g, x)
  BY DEF SetIn
<1>6. Path(y)
  BY <1>2, <1>4, <1>5 DEF Path
<1>7. \A h : RunStill(h) /\ ModeStill(h)
  BY <1>1, MasterStill
<1>8. \A c : SinceThen(y, c) = SinceThen(x, c)
  BY <1>4 DEF SinceThen
<1>9. Seated(g, y)'
  <2>1. Seated(g, y)
    BY <1>2, <1>3, <1>4, <1>5, <1>8 DEF Seated, Waiting, HasRun
  <2> QED
    BY <1>7, <2>1, SeatedStill
<1>10. pc' = [pc EXCEPT ![r] = pc'[r]] /\ reason' = [reason EXCEPT ![r] = reason'[r]]
  BY <1>0 DEF Obey, Goes, Types
<1>11. \/ pc'[r] = "sweep" /\ way = "sweep" /\ reason'[r] = "report"
       \/ pc'[r] = "write" /\ way = "write" /\ reason'[r] = Reason(y)
  <2>0. reason[r] = "report"
    <3>1. RankIn(r, x)
      BY <1>2 DEF SetRanks
    <3> QED
      BY <1>1, <3>1 DEF RankIn, CountsTo, Writing
  <2>1. CASE res = "continue"
    <3>1. pc'[r] = LoopHead(since[r], before[r]) /\ reason' = reason
      BY <1>0, <2>1 DEF Obey, Goes, Types
    <3> QED
      BY <1>2, <1>3, <1>4, <2>0, <2>1, <3>1 DEF LoopHead, Reason
  <2>2. CASE res # "continue"
    <3>1. pc'[r] = "write" /\ reason'[r] = IF res = "timeup" THEN "timeup" ELSE "report"
      BY <1>0, <2>2 DEF Obey, Goes, Types
    <3> QED
      BY <1>2, <1>3, <1>4, <2>2, <3>1 DEF Reason
  <2> QED
    BY <2>1, <2>2
<1>12. FindFiles(g, y)' /\ LeaveFiles(g, y)'
  <2>1. FindFiles(g, y)'
    BY <1>2, <1>4 DEF FindFiles
  <2>2. ASSUME NEW q \in SetRanks(g) PROVE pc'[q] # "rename"
    <3>1. q \in Ranks /\ pc[q] \in Updating
      BY <1>2
    <3>2. q # r => pc'[q] = pc[q]
      BY <1>10, <3>1 DEF Types
    <3> QED
      BY <1>11, <3>1, <3>2 DEF Updating
  <2>3. LeaveFiles(g, y)'
    BY <2>2 DEF LeaveFiles
  <2> QED
    BY <2>1, <2>3
<1>13. ASSUME NEW q \in SetRanks(g)
       PROVE  RankIn(q, y)'
  <2>1. /\ q \in Ranks /\ SetOf(q) = g /\ RankIn(q, x) /\ pc[q] \in Updating
        /\ toMaster[q] = << >> /\ ~Weighed(q, x) /\ (IsRoot(q) => q = r)
    BY <1>2
  <2>2. Queue(q, y) = Queue(q, x)
    BY <1>4, QueuesSame
  <2>3. ~Weighed(q, y)'
    BY <1>2, <1>4 DEF Weighed
  <2>4. CASE q = r
    <3>1. toSlave'[r] = Queue(r, y)'
      <4>1. Queue(r, x) = ToResp(r, x) /\ Queue(r, y) = ToResp(r, y)
        BY <1>1 DEF Queue
      <4>2. Queue(r, y)' = ToResp(r, y)'
        BY <1>11 DEF Queue
      <4>3. ToResp(r, y)' = ToResp(r, y)
        BY <1>7, QueuesStill
      <4> QED
        BY <1>1, <2>1, <2>2, <2>4, <4>1, <4>2, <4>3 DEF RankIn
    <3>2. Said(r, y)'
      BY <1>1, <1>11, <2>1, <2>3, <2>4 DEF Said
    <3>3. Placed(r, y)'
      BY <1>2, <1>4, <1>11 DEF Placed, LastPlaces, Sweeping, Writing, Updating
    <3>4. Works(r, y)'
      BY <1>1, <1>4, <1>7, <1>11, <2>1, <2>4, QueuesStill
      DEF RankIn, Works, Reporting, Updating, Sweeping, Writing
    <3>5. Simulates(r, y)'
      BY <1>1, <1>4, <1>7, <1>11, <2>1, <2>4, QueuesStill
      DEF RankIn, Simulates, Updating, Sweeping, Writing
    <3>6. CountsTo(r, y)'
      <4>1. bcast'[r] = "none"
        BY <1>0, <1>2, <2>1, <2>4 DEF RankIn, CountsTo
      <4> QED
        BY <1>1, <1>2, <1>4, <1>7, <1>8, <1>11, <4>1, QueuesStill
        DEF CountsTo, Updating, Sweeping, Writing
    <3> QED
      BY <2>4, <3>1, <3>2, <3>3, <3>4, <3>5, <3>6 DEF RankIn
  <2>5. CASE q # r
    <3>0. pc'[q] = pc[q] /\ reason'[q] = reason[q] /\ ~IsRoot(q) /\ bcast'[q] = res
      BY <1>0, <1>10, <2>1, <2>5 DEF Types
    <3>1. toSlave'[q] = Queue(q, y)'
      <4>1. Queue(q, y)' = Queue(q, y)
        BY <1>7, <2>1, <3>0, QueuesStill DEF Queue
      <4> QED
        BY <1>1, <2>1, <2>2, <4>1 DEF RankIn
    <3>2. Said(q, y)'
      BY <1>1, <2>1, <2>3, <3>0 DEF Said, Updating
    <3>3. Placed(q, y)'
      BY <1>2, <1>4, <2>1, <3>0 DEF RankIn, Placed, FirstPlaces, Updating
    <3>4. Works(q, y)'
      BY <1>1, <1>4, <1>7, <2>1, <3>0, QueuesStill
      DEF RankIn, Works, Reporting, Updating, Sweeping, Writing, Partner
    <3>5. Simulates(q, y)'
      BY <1>1, <1>4, <1>7, <2>1, <3>0, QueuesStill
      DEF RankIn, Simulates, Updating, Sweeping, Writing
    <3>6. CountsTo(q, y)'
      <4>1. ChainAt(SetOf(q))' = ChainAt(SetOf(q))
        BY <1>7, QueuesStill
      <4>2. CountsTo(q, x)
        BY <2>1 DEF RankIn
      <4>3. /\ before'[q] = x.b /\ reason'[q] = "report" /\ bcast'[q] = y.dec
            /\ since'[q] = IF pc[q] \in {"swap", "exchange"} THEN x.s
                           ELSE SinceThen(x, ChainAt(SetOf(q)))
        BY <1>1, <1>2, <1>4, <2>1, <3>0, <4>2 DEF CountsTo, Updating, Writing
      <4> QED
        BY <1>2, <1>4, <1>8, <2>1, <3>0, <4>1, <4>3 DEF CountsTo, Updating, Writing
    <3> QED
      BY <3>1, <3>2, <3>3, <3>4, <3>5, <3>6 DEF RankIn
  <2> QED
    BY <2>4, <2>5
<1>14. ASSUME NEW h \in Sets \ {g} PROVE OtherSet(h)
  <2>1. ASSUME NEW q \in SetRanks(h) PROVE Still(q)
    <3>1. q \in Ranks /\ SetOf(q) # g /\ q # r
      BY DEF SetRanks
    <3> QED
      BY <1>0, <1>1, <1>10, <3>1 DEF Still, Types
  <2> QED
    BY <1>7, <2>1 DEF OtherSet
<1> QED
  BY <1>4, <1>6, <1>9, <1>12, <1>13, <1>14 DEF SetIn

\* What the barrier leaves alone.
LEMMA BarrierIs ==
  ASSUME Types, NEW g \in Sets, Barrier(g)
  PROVE  /\ phase = "running"
         /\ UNCHANGED <<task, run, since, before, reason, partner, bcast, sys, toMaster, toSlave>>
         /\ mode' = mode /\ setRun' = setRun /\ pos' = pos /\ odd' = odd /\ dump' = dump
         /\ \A h : RunStill(h) /\ ModeStill(h)
         /\ \A h \in Sets \ {g} : OtherSet(h)
         /\ \A q \in SetRanks(g) :
              /\ pc[q] \in {"update_barrier", "write_barrier"}
              /\ pc'[q] = IF pc[q] = "update_barrier" THEN "swap" ELSE "rename"
<1>1. /\ phase = "running"
      /\ UNCHANGED <<task, run, since, before, reason, partner, bcast, sys, toMaster, toSlave>>
      /\ mode' = mode /\ setRun' = setRun /\ pos' = pos /\ odd' = odd /\ dump' = dump
      /\ UNCHANGED masterVars
  BY DEF Barrier, netVars, masterVars, fileVars
<1>2. \A h : RunStill(h) /\ ModeStill(h)
  BY <1>1, MasterStill
<1>3. ASSUME NEW q \in SetRanks(g)
      PROVE  /\ pc[q] \in {"update_barrier", "write_barrier"}
             /\ pc'[q] = IF pc[q] = "update_barrier" THEN "swap" ELSE "rename"
  BY DEF Barrier, SetRanks
<1>4. ASSUME NEW h \in Sets \ {g} PROVE OtherSet(h)
  <2>1. ASSUME NEW q \in SetRanks(h) PROVE Still(q)
    <3>1. q \in Ranks /\ SetOf(q) # g
      BY DEF SetRanks
    <3>2. pc'[q] = pc[q]
      BY <3>1 DEF Barrier
    <3> QED
      BY <1>1, <3>2 DEF Still
  <2> QED
    BY <1>2, <2>1 DEF OtherSet
<1> QED
  BY <1>1, <1>2, <1>3, <1>4

LEMMA UpdateNats ==
  ASSUME NEW x \in Paths, NEW c \in Chains
  PROVE  NextUpdate(x.w, c) \in Nat /\ SinceThen(x, c) \in Nat
<1>1. Period(c) \in Nat \ {0} /\ x.w \in Nat /\ x.s \in Nat
  BY PeriodNat DEF Paths
<1>2. x.w \div Period(c) \in Nat
  BY <1>1, Divided
<1>3. NextUpdate(x.w, c) \in Nat
  BY <1>1, <1>2 DEF NextUpdate
<1> QED
  BY <1>1, <1>3 DEF SinceThen, Counts

\* The barrier of the global update.
LEMMA UpdateBarrierKeeps ==
  ASSUME Types, PosInv, NEW g \in Sets, NEW x \in Paths, SetIn(g, x), Barrier(g),
         x.way = "sweep"
  PROVE  \E y \in Paths : SetIn(g, y)'
<1> DEFINE c == ChainAt(g)
<1>1. /\ phase = "running"
      /\ UNCHANGED <<task, run, since, before, reason, partner, bcast, sys, toMaster, toSlave>>
      /\ mode' = mode /\ setRun' = setRun
      /\ \A h : RunStill(h) /\ ModeStill(h)
      /\ \A q \in SetRanks(g) :
           /\ pc[q] \in {"update_barrier", "write_barrier"}
           /\ pc'[q] = IF pc[q] = "update_barrier" THEN "swap" ELSE "rename"
  BY BarrierIs
<1>2. /\ Path(x) /\ Seated(g, x)
      /\ \A q \in SetRanks(g) : q \in Ranks /\ SetOf(q) = g /\ RankIn(q, x)
  BY DEF SetIn, SetRanks
<1>3. \A q \in SetRanks(g) : pc[q] = "update_barrier" /\ pc'[q] = "swap"
  BY <1>1, <1>2, WhereIs DEF RankIn, Writing
<1>4. x.resp = "sent" /\ HasRun(x)
  <2>1. PICK q \in SetRanks(g) : IsRoot(q)
    BY RootIs
  <2>2. RankIn(q, x) /\ pc[q] = "update_barrier"
    BY <1>2, <1>3
  <2> QED
    BY <1>2, <2>2, RunThere DEF RankIn, Placed, Sweeping
<1>5. /\ c \in Chains /\ setRun[g] # NoRun /\ setRun[g] \in Int \X Int
      /\ setRun[g] \in Chains \X RunIds
      /\ Permutation(PosAt(g), ChainLen)
  <2>1. c \in Chains /\ RunAt(g) \in RunIds /\ setRun[g] = <<c, RunAt(g)>> /\ setRun[g] # NoRun
    BY <1>2, <1>4, RunIs
  <2>2. Permutation(PosAt(g), ChainLen)
    BY <2>1 DEF PosInv, PosTables, PosAt, ChainAt, RunAt
  <2>3. c \in Int /\ RunAt(g) \in Int
    BY <2>1, ShapeAssumption DEF Chains, RunIds
  <2> QED
    BY <2>1, <2>2, <2>3
<1>6. PosAt(g) \in [Members -> Members]
  BY <1>5 DEF Permutation, Members
<1>7. PICK n \in Nat, s \in Nat : n = NextUpdate(x.w, c) /\ s = SinceThen(x, c)
  BY <1>5, UpdateNats
<1>8. PICK to \in [Members -> Members] : to = PosAt(g)
  BY <1>6
<1>9. PICK own \in Int \X Int : own = setRun[g]
  BY <1>5
<1> DEFINE y == [x EXCEPT !.kind = "update", !.act = "none", !.job = "none", !.resp = "none",
                          !.swap = "none", !.dec = "none", !.way = "none", !.first = x.swap,
                          !.own = own, !.was = x.held, !.held = to, !.u = n, !.w = n,
                          !.s = s]
<1>10. y \in Paths
  BY DEF Paths, Flag
<1>11. /\ y.kind = "update" /\ y.act = "none" /\ y.job = "none" /\ y.resp = "none"
       /\ y.swap = "none" /\ y.dec = "none" /\ y.way = "none" /\ y.first = x.swap
       /\ y.own = own /\ y.was = x.held /\ y.held = to /\ y.u = n /\ y.w = n
       /\ y.s = s /\ y.b = x.b /\ y.old = x.old
  BY DEF Paths
<1> HIDE DEF y
<1>12. x.swap \in {"none", "sent"} /\ (x.swap = "none" => x.held = to)
       /\ (x.kind = "update" => x.first = "sent" /\ x.dec # "none")
       /\ (x.kind = "start" => x.job = "job")
  BY <1>2, <1>4, <1>8, NothingElse DEF Seated, Path, Paths, Flag
<1>13. Path(y)
  BY <1>2, <1>5, <1>8, <1>9, <1>11, <1>12 DEF Path
<1>14. Seated(g, y)'
  <2>1. Waiting(x) <=> x.swap = "none"
    BY <1>4, <1>12 DEF Waiting
  <2>2. Waiting(y) <=> x.swap = "none"
    BY <1>11 DEF Waiting
  <2>3. HasRun(y)
    BY <1>11 DEF HasRun
  <2>4. ~Undealt(g)
    BY <1>2, <1>12 DEF Seated
  <2>5. x.swap = "sent" => Paired(y.was, y.held)
    BY <1>2, <1>8, <1>11 DEF Seated
  <2>6. Seated(g, y)
    BY <1>2, <1>5, <1>8, <1>9, <1>11, <2>1, <2>2, <2>3, <2>4, <2>5 DEF Seated
  <2> QED
    BY <1>1, <2>6, SeatedStill
<1>15. FindFiles(g, y)' /\ LeaveFiles(g, y)'
  BY <1>3, <1>11 DEF FindFiles, LeaveFiles
<1>16. ASSUME NEW q \in SetRanks(g)
       PROVE  RankIn(q, y)'
  <2>1. /\ q \in Ranks /\ SetOf(q) = g /\ RankIn(q, x)
        /\ pc[q] = "update_barrier" /\ pc'[q] = "swap"
    BY <1>2, <1>3
  <2>2. Asked(q)' <=> Asked(q)
    BY <1>1, QueuesStill
  <2>3. ChainAt(g)' = c /\ RunAt(g)' = RunAt(g) /\ PosAt(g)' = PosAt(g)
    BY <1>1 DEF ChainAt, RunAt, RunStill
  <2>4. toSlave'[q] = Queue(q, y)'
    <3>1. toSlave'[q] = ToSwap(q, x)
      BY <1>1, <2>1 DEF RankIn, Queue
    <3>2. ToResp(q, y)' = << >>
      BY <1>11 DEF ToResp, ToSwap, Ahead
    <3>3. SwapFor(q, y.was, y.held)' = SwapFor(q, x.held, PosAt(SetOf(q)))
      BY <1>8, <1>11, <2>1, <2>3 DEF SwapFor, Partner
    <3>4. Queue(q, y)' = Ahead(x.swap = "sent", SwapFor(q, x.held, PosAt(SetOf(q))), << >>)
      BY <1>11, <2>1, <3>2, <3>3 DEF Queue, ToFirst
    <3> QED
      BY <3>1, <3>4 DEF ToSwap
  <2>5. Said(q, y)'
    BY <1>1, <1>4, <1>11, <1>12, <2>1, <2>2 DEF RankIn, Said, Weighed
  <2>6. Placed(q, y)'
    BY <1>11, <2>1 DEF Placed, FirstPlaces, Updating
  <2>7. Works(q, y)'
    BY <1>1, <1>11, <2>1, <2>3 DEF RankIn, Works, Reporting, Updating, Sweeping, Writing
  <2>8. Simulates(q, y)'
    BY <1>1, <1>7, <1>11, <2>1, <2>3 DEF RankIn, Simulates, Updating, Sweeping, Writing
  <2>9. CountsTo(q, y)'
    <3>1. since[q] = s
      <4>1. x.kind # "timeup"
        BY <1>2, <1>4 DEF Path
      <4> QED
        BY <1>7, <2>1, <4>1 DEF RankIn, CountsTo, SinceThen, Paths
    <3> QED
      BY <1>1, <1>11, <2>1, <3>1 DEF RankIn, CountsTo, Updating, Sweeping, Writing
  <2> QED
    BY <2>4, <2>5, <2>6, <2>7, <2>8, <2>9 DEF RankIn
<1> QED
  BY <1>10, <1>13, <1>14, <1>15, <1>16 DEF SetIn

\* The dumps of a run that no rank is renaming agree.
LEMMA QuietAgrees ==
  ASSUME FilesInv, RenameInv, phase = "running", NEW g \in Sets,
         ChainAt(g) \in Chains, RunAt(g) \in RunIds, setRun[g] = <<ChainAt(g), RunAt(g)>>,
         \A q \in SetRanks(g) : pc[q] # "rename"
  PROVE  Agreed(ChainAt(g), RunAt(g))
<1>1. ASSUME NEW r \in Renaming PROVE RunOf(r) # <<ChainAt(g), RunAt(g)>>
  <2>1. r \in Ranks /\ SetOf(r) # g
    BY DEF Renaming, SetRanks
  <2>2. setRun[g] # RunOf(r)
    BY <2>1 DEF RenameInv
  <2> QED
    BY <2>2
<1> QED
  BY <1>1 DEF FilesInv

\* Nothing has been sent.
Cleared(z) == [z EXCEPT !.act = "none", !.job = "none", !.resp = "none",
                        !.swap = "none", !.dec = "none", !.first = "none"]

LEMMA ClearedPath ==
  ASSUME NEW z \in Paths, NEW own \in Int \X Int, NEW w \in Nat,
         NEW held \in [Members -> Members]
  PROVE  [Cleared(z) EXCEPT !.own = own, !.was = held, !.u = w, !.s = 0] \in Paths
<1>1. ASSUME NEW x \in Paths PROVE [x EXCEPT !.act = "none", !.job = "none"] \in Paths
  BY DEF Paths
<1>2. ASSUME NEW x \in Paths PROVE [x EXCEPT !.resp = "none", !.swap = "none"] \in Paths
  BY DEF Paths, Flag
<1>3. ASSUME NEW x \in Paths PROVE [x EXCEPT !.dec = "none"] \in Paths
  BY DEF Paths
<1>4. ASSUME NEW x \in Paths PROVE [x EXCEPT !.first = "none"] \in Paths
  BY DEF Paths, Flag
<1> DEFINE z1 == [z EXCEPT !.act = "none", !.job = "none"]
           z2 == [z1 EXCEPT !.resp = "none", !.swap = "none"]
           z3 == [z2 EXCEPT !.dec = "none"]
           z4 == [z3 EXCEPT !.first = "none"]
<1>5. Cleared(z) = z4
  BY DEF Cleared, Paths
<1>6. z1 \in Paths
  BY <1>1
<1> HIDE DEF z1
<1>7. z2 \in Paths
  BY <1>2, <1>6
<1> HIDE DEF z2
<1>8. z3 \in Paths
  BY <1>3, <1>7
<1> HIDE DEF z3
<1>9. z4 \in Paths
  BY <1>4, <1>8
<1> HIDE DEF z4
<1> QED
  BY <1>5, <1>9 DEF Paths

\* The barrier of a checkpoint.
LEMMA WriteBarrierKeeps ==
  ASSUME Types, FilesInv, RenameInv, NEW g \in Sets, NEW x \in Paths, SetIn(g, x), Barrier(g),
         x.way = "write"
  PROVE  \E y \in Paths : SetIn(g, y)'
<1> DEFINE c == ChainAt(g)
           k == RunAt(g)
<1>1. /\ phase = "running"
      /\ UNCHANGED <<task, run, since, before, reason, partner, bcast, sys, toMaster, toSlave>>
      /\ mode' = mode /\ setRun' = setRun /\ dump' = dump
      /\ \A h : RunStill(h) /\ ModeStill(h)
      /\ \A q \in SetRanks(g) :
           /\ pc[q] \in {"update_barrier", "write_barrier"}
           /\ pc'[q] = IF pc[q] = "update_barrier" THEN "swap" ELSE "rename"
  BY BarrierIs
<1>2. /\ Path(x) /\ Seated(g, x)
      /\ \A q \in SetRanks(g) : q \in Ranks /\ SetOf(q) = g /\ RankIn(q, x)
  BY DEF SetIn, SetRanks
<1>3. \A q \in SetRanks(g) : pc[q] = "write_barrier" /\ pc'[q] = "rename"
  BY <1>1, <1>2, WhereIs DEF RankIn, Sweeping
<1>4. HasRun(x) /\ x.resp = "none" /\ x.swap = "none"
  <2>1. PICK q \in SetRanks(g) : IsRoot(q)
    BY RootIs
  <2>2. RankIn(q, x) /\ pc[q] = "write_barrier"
    BY <1>2, <1>3
  <2> QED
    BY <1>2, <2>2, RunThere, NothingElse DEF RankIn, Placed, Writing
<1>5. /\ c \in Chains /\ k \in RunIds /\ setRun[g] = <<c, k>> /\ setRun[g] # NoRun
      /\ setRun[g] \in Int \X Int /\ setRun[g] \in Chains \X RunIds
  <2>1. c \in Chains /\ k \in RunIds /\ setRun[g] = <<c, k>> /\ setRun[g] # NoRun
    BY <1>2, <1>4, RunIs
  <2>2. c \in Int /\ k \in Int
    BY <2>1, ShapeAssumption DEF Chains, RunIds
  <2> QED
    BY <2>1, <2>2
<1>6. Agreed(c, k)
  BY <1>1, <1>3, <1>5, QuietAgrees
<1>7. PICK own \in Int \X Int : own = setRun[g]
  BY <1>5
<1>8. PICK old \in SUBSET DumpFiles : \A t \in ChainTasks(c) : Slot(t, k) = old
  <2>1. TaskOf(c, 0) \in ChainTasks(c) /\ TaskOf(c, 0) \in Tasks
    BY <1>5, TaskIs, MembersAre
  <2>2. Slot(TaskOf(c, 0), k) \in SUBSET DumpFiles
    BY <2>1 DEF Slot, Types, RunFiles
  <2> QED
    BY <1>6, <2>1, <2>2 DEF Agreed
<1>9. PICK way \in {"sweep", "exit", "none"} :
        way = IF Reason(x) = "fresh" THEN "sweep" ELSE IF Reason(x) = "timeup" THEN "exit" ELSE "none"
  OBVIOUS
<1>10. PICK kind \in {"fresh", "report", "timeup"} : kind = Reason(x)
  BY DEF Reason
<1> DEFINE y == [x EXCEPT !.kind = kind, !.act = "none", !.job = "none", !.resp = "none",
                          !.swap = "none", !.dec = "none", !.way = way, !.first = "none",
                          !.own = own, !.was = x.held, !.old = old, !.u = x.w,
                          !.s = 0]
<1>11. y \in Paths
  <2>1. kind \in {"start", "fresh", "report", "timeup", "update"}
    OBVIOUS
  <2>2. way \in {"none", "sweep", "write", "exit"}
    OBVIOUS
  <2>3. [x EXCEPT !.old = old, !.kind = kind, !.way = way] \in Paths
    <3>1. [x EXCEPT !.old = old] \in Paths
      BY DEF Paths
    <3>2. \A z \in Paths : [z EXCEPT !.kind = kind] \in Paths
      BY <2>1 DEF Paths
    <3>3. \A z \in Paths : [z EXCEPT !.way = way] \in Paths
      BY <2>2 DEF Paths
    <3>4. [[[x EXCEPT !.old = old] EXCEPT !.kind = kind] EXCEPT !.way = way]
            = [x EXCEPT !.old = old, !.kind = kind, !.way = way]
      BY DEF Paths
    <3> QED
      BY <3>1, <3>2, <3>3, <3>4
  <2>4. y = [Cleared([x EXCEPT !.old = old, !.kind = kind, !.way = way])
               EXCEPT !.own = own, !.was = x.held, !.u = x.w, !.s = 0]
    BY DEF Paths, Cleared
  <2>5. x.held \in [Members -> Members] /\ x.w \in Nat
    BY DEF Paths
  <2> HIDE DEF y
  <2> QED
    BY <2>3, <2>4, <2>5, ClearedPath
<1>12. /\ y.kind = kind /\ y.act = "none" /\ y.job = "none" /\ y.resp = "none"
       /\ y.swap = "none" /\ y.dec = "none" /\ y.way = way /\ y.first = "none"
       /\ y.own = own /\ y.was = x.held /\ y.held = x.held /\ y.u = x.w /\ y.w = x.w
       /\ y.s = 0 /\ y.b = x.b /\ y.old = old
  BY DEF Paths
<1> HIDE DEF y
<1>13. /\ (x.kind = "update" => x.dec # "none" /\ x.first = "sent")
       /\ (x.kind = "start" => x.job = "job")
       /\ x.held = PosAt(g) /\ x.held \in [Members -> Members]
       /\ Permutation(x.held, ChainLen)
  BY <1>2, <1>4, NothingElse DEF Seated, Path, HasRun, Paths, Flag
<1>14. Path(y)
  BY <1>5, <1>7, <1>9, <1>10, <1>12, <1>13 DEF Path
<1>15. Seated(g, y)'
  <2>1. ~Waiting(x) /\ ~Waiting(y)
    BY <1>4, <1>10, <1>12, <1>13 DEF Waiting
  <2>2. HasRun(y)
    BY <1>10, <1>12 DEF HasRun
  <2>3. ~Undealt(g)
    BY <1>2, <1>13 DEF Seated
  <2>4. Seated(g, y)
    BY <1>2, <1>5, <1>7, <1>10, <1>12, <1>13, <2>1, <2>2, <2>3 DEF Seated
  <2> QED
    BY <1>1, <2>4, SeatedStill
<1>16. FindFiles(g, y)' /\ LeaveFiles(g, y)'
  <2>1. FindFiles(g, y)'
    BY <1>12 DEF FindFiles
  <2>2. ASSUME NEW q \in SetRanks(g)
        PROVE  Slot(TaskOf(y.own[1], y.was[ChainRank(q)]), y.own[2])' = y.old
    <3>1. ChainRank(q) \in Members /\ x.held[ChainRank(q)] \in Members
      BY <1>2, <1>13, SeatIs
    <3>2. TaskOf(c, x.held[ChainRank(q)]) \in ChainTasks(c)
      BY <1>5, <3>1, TaskIs
    <3>3. Slot(TaskOf(c, x.held[ChainRank(q)]), k) = old
      BY <1>8, <3>2
    <3>4. own[1] = c /\ own[2] = k
      BY <1>5, <1>7
    <3> QED
      BY <1>1, <1>12, <3>3, <3>4 DEF Slot
  <2>3. LeaveFiles(g, y)'
    BY <1>3, <2>2 DEF LeaveFiles
  <2> QED
    BY <2>1, <2>3
<1>17. ASSUME NEW q \in SetRanks(g)
       PROVE  RankIn(q, y)'
  <2>1. /\ q \in Ranks /\ SetOf(q) = g /\ RankIn(q, x)
        /\ pc[q] = "write_barrier" /\ pc'[q] = "rename"
    BY <1>2, <1>3
  <2>2. ChainAt(g)' = c /\ RunAt(g)' = k
    BY <1>1 DEF ChainAt, RunAt
  <2>3. toSlave'[q] = Queue(q, y)'
    <3>1. Queue(q, x) = << >>
      BY <1>2, <1>4, <2>1, NothingElse DEF Queue
    <3>2. Queue(q, y)' = << >>
      BY <1>12, <2>1 DEF Queue, ToAction, ToJob, ToResp, ToSwap, Ahead
    <3> QED
      BY <1>1, <2>1, <3>1, <3>2 DEF RankIn
  <2>4. Said(q, y)'
    BY <1>1, <1>4, <1>10, <1>12, <1>13, <2>1 DEF RankIn, Said, Weighed
  <2>5. Placed(q, y)'
    BY <1>10, <1>12, <2>1 DEF Placed, FirstPlaces, Reporting
  <2>6. Works(q, y)'
    BY <1>1, <1>5, <1>7, <1>12, <2>1, <2>2 DEF RankIn, Works, Reporting, Updating, Sweeping, Writing
  <2>7. Simulates(q, y)'
    BY <1>1, <1>12, <2>1 DEF RankIn, Simulates, Updating, Sweeping, Writing
  <2>8. CountsTo(q, y)'
    <3>1. Reason(x) = "fresh" => x.kind \in {"start", "fresh", "report"} \/ x.kind = "timeup"
      BY DEF Reason, Paths
    <3>2. x.kind # "timeup"
      BY <1>2 DEF Path
    <3> QED
      BY <1>1, <1>10, <1>12, <2>1, <3>1, <3>2 DEF RankIn, CountsTo, Updating, Sweeping, Writing
  <2> QED
    BY <2>3, <2>4, <2>5, <2>6, <2>7, <2>8 DEF RankIn
<1> QED
  BY <1>11, <1>14, <1>15, <1>16, <1>17 DEF SetIn

-----------------------------------------------------------------------------
(* From one rank to its set, and from one set to all.                      *)

\* The files of a set whose ranks do not rename now.
LEMMA FilesStill ==
  ASSUME NEW h, NEW z, RunStill(h), dump' = dump,
         \A q \in SetRanks(h) : pc'[q] = "rename" <=> pc[q] = "rename"
  PROVE  /\ FindFiles(h, z)' <=> FindFiles(h, z)
         /\ LeaveFiles(h, z)' <=> LeaveFiles(h, z)
<1>1. ChainAt(h)' = ChainAt(h) /\ RunAt(h)' = RunAt(h)
  BY DEF ChainAt, RunAt, RunStill
<1>2. FindFiles(h, z)' <=> FindFiles(h, z)
  BY <1>1 DEF FindFiles
<1>3. \A t, k : Slot(t, k)' = Slot(t, k)
  BY DEF Slot
<1>4. LeaveFiles(h, z)' <=> LeaveFiles(h, z)
  <2>1. (\E q \in SetRanks(h) : pc'[q] = "rename") <=> (\E q \in SetRanks(h) : pc[q] = "rename")
    OBVIOUS
  <2>2. (\A q \in SetRanks(h) :
            Slot(TaskOf(z.own[1], z.was[ChainRank(q)]), z.own[2])'
              = IF pc'[q] = "rename" THEN z.old ELSE {ChainDump(z.u, z.own[1])})
        <=>
        (\A q \in SetRanks(h) :
            Slot(TaskOf(z.own[1], z.was[ChainRank(q)]), z.own[2])
              = IF pc[q] = "rename" THEN z.old ELSE {ChainDump(z.u, z.own[1])})
    BY <1>3
  <2> QED
    BY <2>1, <2>2 DEF LeaveFiles
<1> QED
  BY <1>2, <1>4

LEMMA OtherSetStays ==
  ASSUME NEW h \in Sets, NEW z \in Paths, SetIn(h, z), OtherSet(h), dump' = dump
  PROVE  SetIn(h, z)'
<1>1. RunStill(h) /\ ModeStill(h) /\ \A q \in SetRanks(h) : Still(q) /\ pc'[q] = pc[q]
  BY DEF OtherSet, Still
<1>2. FindFiles(h, z) => FindFiles(h, z)'
  BY <1>1, FilesStill
<1>3. LeaveFiles(h, z) => LeaveFiles(h, z)'
  BY <1>1, FilesStill
<1> QED
  BY <1>1, <1>2, <1>3, SetStill

\* Ranks of set g go on, and rename nothing.
LEMMA RanksMove ==
  ASSUME NEW g \in Sets, NEW x \in Paths, SetIn(g, x), UNCHANGED masterVars,
         dump' = dump, NEW S \in SUBSET SetRanks(g),
         \A p \in S : RankIn(p, x)' /\ pc[p] # "rename" /\ pc'[p] # "rename",
         \A p \in Ranks \ S : Still(p)
  PROVE  SetIn(g, x)' /\ \A h \in Sets \ {g} : OtherSet(h)
<1>1. \A h : RunStill(h) /\ ModeStill(h)
  BY MasterStill
<1>2. /\ Path(x) /\ Seated(g, x) /\ FindFiles(g, x) /\ LeaveFiles(g, x)
      /\ \A q \in SetRanks(g) : q \in Ranks /\ SetOf(q) = g /\ RankIn(q, x)
  BY DEF SetIn, SetRanks
<1>3. \A q \in SetRanks(g) : RankIn(q, x)'
  <2>1. TAKE q \in SetRanks(g)
  <2>2. CASE q \in S
    BY <2>2
  <2>3. CASE q \notin S
    <3>1. Still(q) /\ RankIn(q, x) /\ RunStill(SetOf(q))
      BY <1>1, <1>2, <2>3
    <3> QED
      BY <3>1, RankStill
  <2> QED
    BY <2>2, <2>3
<1>4. \A q \in SetRanks(g) : pc'[q] = "rename" <=> pc[q] = "rename"
  BY <1>2 DEF Still
<1>5. FindFiles(g, x)' /\ LeaveFiles(g, x)'
  BY <1>1, <1>2, <1>4, FilesStill
<1>6. Seated(g, x)'
  BY <1>1, <1>2, SeatedStill
<1>7. \A h \in Sets \ {g} : OtherSet(h)
  BY <1>1 DEF OtherSet, SetRanks
<1> QED
  BY <1>2, <1>3, <1>5, <1>6, <1>7 DEF SetIn

-----------------------------------------------------------------------------
(* Files take the place of the old ones.                                   *)

LEMMA RenamedFiles ==
  ASSUME Types, NEW r \in Ranks, RenameFiles(r), NEW t \in Tasks, NEW k
  PROVE  /\ <<t, k>> # <<task[r], run[r]>> =>
              /\ k \in DOMAIN dump'[t] <=> k \in DOMAIN dump[t]
              /\ k \in DOMAIN dump[t] => dump'[t][k] = dump[t][k]
              /\ Slot(t, k)' = Slot(t, k)
         /\ t = task[r] /\ k = run[r] =>
              /\ DOMAIN dump'[t] = DOMAIN dump[t] \cup {k}
              /\ dump'[t][k] = DumpOf(sys[r].sweep, Therm[ChainOf(t)] * sys[r].spgu)
              /\ Slot(t, k)' = {DumpOf(sys[r].sweep, Therm[ChainOf(t)] * sys[r].spgu)}
<1> DEFINE new == DumpOf(sys[r].sweep, Therm[ChainOf(task[r])] * sys[r].spgu)
<1>1. dump' = [dump EXCEPT ![task[r]] = WriteRun(dump[task[r]], run[r], new)]
  BY DEF RenameFiles
<1> HIDE DEF new
<1>2. t # task[r] => dump'[t] = dump[t]
  BY <1>1 DEF Types
<1>3. t = task[r] => dump'[t] = [q \in DOMAIN dump[t] \cup {run[r]} |->
                                   IF q = run[r] THEN new ELSE dump[t][q]]
  BY <1>1 DEF Types, WriteRun
<1>4. <<t, k>> # <<task[r], run[r]>> =>
         /\ k \in DOMAIN dump'[t] <=> k \in DOMAIN dump[t]
         /\ k \in DOMAIN dump[t] => dump'[t][k] = dump[t][k]
  BY <1>2, <1>3
<1>5. <<t, k>> # <<task[r], run[r]>> => Slot(t, k)' = Slot(t, k)
  <2> SUFFICES ASSUME <<t, k>> # <<task[r], run[r]>> PROVE Slot(t, k)' = Slot(t, k)
    OBVIOUS
  <2>1. CASE k \in DOMAIN dump[t]
    <3>1. DOMAIN dump[t] \cap {k} = {k} /\ DOMAIN dump'[t] \cap {k} = {k}
      BY <1>4, <2>1
    <3> QED
      BY <1>4, <2>1, <3>1 DEF Slot
  <2>2. CASE k \notin DOMAIN dump[t]
    <3>1. DOMAIN dump[t] \cap {k} = {} /\ DOMAIN dump'[t] \cap {k} = {}
      BY <1>4, <2>2
    <3> QED
      BY <3>1 DEF Slot
  <2> QED
    BY <2>1, <2>2
<1>6. ASSUME t = task[r], k = run[r]
      PROVE  /\ DOMAIN dump'[t] = DOMAIN dump[t] \cup {k} /\ dump'[t][k] = new
             /\ Slot(t, k)' = {new}
  <2>1. /\ k \in DOMAIN dump'[t] /\ dump'[t][k] = new
        /\ DOMAIN dump'[t] = DOMAIN dump[t] \cup {k}
    BY <1>3, <1>6
  <2>2. DOMAIN dump'[t] \cap {k} = {k}
    BY <2>1
  <2>3. Slot(t, k)' = {dump'[t][q] : q \in DOMAIN dump'[t] \cap {k}}
    BY DEF Slot
  <2> QED
    BY <2>1, <2>2, <2>3
<1> QED
  BY <1>4, <1>5, <1>6 DEF new

\* The run that a rank is about to write the files of.
LEMMA RenamedRun ==
  ASSUME Types, NEW r \in Ranks, NEW x \in Paths, SetIn(SetOf(r), x), pc[r] = "rename"
  PROVE  /\ task[r] \in Tasks /\ run[r] \in RunIds
         /\ x.own \in Chains \X RunIds /\ x.own = <<ChainOf(task[r]), run[r]>>
         /\ RunOf(r) = x.own
         /\ Together => DumpOf(sys[r].sweep, Therm[ChainOf(task[r])] * sys[r].spgu)
                          = ChainDump(x.u, x.own[1])
<1>1. /\ Path(x) /\ x.kind \in {"fresh", "report", "timeup"}
      /\ sys[r].sweep = x.u /\ sys[r].spgu = Spgu[task[r]]
      /\ task[r] = TaskOf(x.own[1], x.was[ChainRank(r)]) /\ run[r] = x.own[2]
  BY RenamingIs
<1>2. x.own \in Chains \X RunIds /\ ChainRank(r) \in Members /\ x.was[ChainRank(r)] \in Members
  BY <1>1, SeatIs DEF Path, Paths
<1>3. task[r] \in Tasks /\ ChainOf(task[r]) = x.own[1]
  BY <1>1, <1>2, TaskIs
<1>4. Together => Spgu[task[r]] = Period(x.own[1])
  BY <1>3, PeriodIs
<1> QED
  BY <1>1, <1>2, <1>3, <1>4 DEF RunOf, ChainDump

LEMMA RenameStays ==
  ASSUME Types, Together, NEW r \in Ranks, NEW x \in Paths, SetIn(SetOf(r), x),
         RenameFiles(r), UNCHANGED masterVars, RankIn(r, x)', pc[r] = "rename",
         pc'[r] # "rename", \A q \in Ranks \ {r} : Still(q)
  PROVE  /\ SetIn(SetOf(r), x)'
         /\ \A q \in SetRanks(SetOf(r)) :
              Slot(TaskOf(x.own[1], x.was[ChainRank(q)]), x.own[2])'
                = IF pc'[q] = "rename" THEN x.old ELSE {ChainDump(x.u, x.own[1])}
<1> DEFINE g == SetOf(r)
<1>1. /\ Path(x) /\ Seated(g, x) /\ FindFiles(g, x) /\ LeaveFiles(g, x) /\ g \in Sets
      /\ \A q \in SetRanks(g) : q \in Ranks /\ SetOf(q) = g /\ RankIn(q, x)
      /\ r \in SetRanks(g)
  BY SeatIs DEF SetIn, SetRanks
<1>2. \A h : RunStill(h) /\ ModeStill(h)
  BY MasterStill
<1>3. \A q \in SetRanks(g) : RankIn(q, x)'
  <2>1. TAKE q \in SetRanks(g)
  <2>2. CASE q = r
    BY <2>2
  <2>3. CASE q # r
    <3>1. Still(q) /\ RankIn(q, x) /\ RunStill(SetOf(q))
      BY <1>1, <1>2, <2>3
    <3> QED
      BY <3>1, RankStill
  <2> QED
    BY <2>2, <2>3
<1>4. Seated(g, x)'
  BY <1>1, <1>2, SeatedStill
<1>5. /\ task[r] \in Tasks /\ run[r] \in RunIds
      /\ x.own \in Chains \X RunIds /\ x.own = <<ChainOf(task[r]), run[r]>>
      /\ DumpOf(sys[r].sweep, Therm[ChainOf(task[r])] * sys[r].spgu) = ChainDump(x.u, x.own[1])
  BY RenamedRun
<1>6. FindFiles(g, x)'
  <2>1. CASE x.job # "job"
    BY <2>1 DEF FindFiles
  <2>2. CASE x.job = "job"
    <3>1. x.kind = "report"
      BY <2>2, RenamingIs
    <3>2. x.own[1] # ChainAt(g) /\ HasRun(x)
      BY <1>1, <2>2, <3>1 DEF Seated, HasRun
    <3>3. ChainAt(g) \in Chains
      BY <1>1, <3>2, RunIs
    <3>4. \A t \in ChainTasks(ChainAt(g)) : t \in Tasks /\ t # task[r]
      BY <1>5, <3>2, <3>3, ChainTasksAre
    <3>5. \A t \in ChainTasks(ChainAt(g)) :
            /\ RunAt(g) \in DOMAIN dump'[t] <=> RunAt(g) \in DOMAIN dump[t]
            /\ RunAt(g) \in DOMAIN dump[t] => dump'[t][RunAt(g)] = dump[t][RunAt(g)]
      BY <3>4, RenamedFiles
    <3>6. ChainAt(g)' = ChainAt(g) /\ RunAt(g)' = RunAt(g)
      BY <1>2 DEF ChainAt, RunAt, RunStill
    <3> QED
      BY <1>1, <3>5, <3>6 DEF FindFiles
  <2> QED
    BY <2>1, <2>2
<1>7. /\ LeaveFiles(g, x)'
      /\ \A q \in SetRanks(g) :
           Slot(TaskOf(x.own[1], x.was[ChainRank(q)]), x.own[2])'
             = IF pc'[q] = "rename" THEN x.old ELSE {ChainDump(x.u, x.own[1])}
  <2>1. ASSUME NEW q \in SetRanks(g)
        PROVE  Slot(TaskOf(x.own[1], x.was[ChainRank(q)]), x.own[2])'
                 = IF pc'[q] = "rename" THEN x.old ELSE {ChainDump(x.u, x.own[1])}
    <3> DEFINE t == TaskOf(x.own[1], x.was[ChainRank(q)])
               k == x.own[2]
    <3>1. ChainRank(q) \in Members /\ x.was[ChainRank(q)] \in Members /\ x.own[1] \in Chains
      BY <1>1, <1>5, SeatIs DEF Paths
    <3>2. t \in Tasks
      BY <3>1, TaskIs
    <3>3. task[r] = TaskOf(x.own[1], x.was[ChainRank(r)]) /\ run[r] = k
      BY RenamingIs
    <3>4. CASE q = r
      <4>1. t = task[r] /\ k = run[r]
        BY <3>3, <3>4
      <4>2. Slot(t, k)' = {DumpOf(sys[r].sweep, Therm[ChainOf(t)] * sys[r].spgu)}
        BY <3>2, <4>1, RenamedFiles
      <4> QED
        BY <1>5, <3>4, <4>1, <4>2
    <3>5. CASE q # r
      <4>1. ChainRank(q) # ChainRank(r) /\ ChainRank(r) \in Members
        BY <1>1, <3>5, SeatIs, SameSeat
      <4>2. x.was[ChainRank(q)] # x.was[ChainRank(r)] /\ x.was[ChainRank(r)] \in Members
        BY <1>1, <3>1, <4>1 DEF Path, Permutation, Paths, Members
      <4>3. t # task[r]
        BY <3>1, <3>3, <4>2, TasksApart
      <4>4. Slot(t, k)' = Slot(t, k)
        BY <3>2, <4>3, RenamedFiles
      <4>5. pc'[q] = pc[q]
        BY <1>1, <3>5 DEF Still
      <4>6. Slot(t, k) = IF pc[q] = "rename" THEN x.old ELSE {ChainDump(x.u, x.own[1])}
        BY <1>1 DEF LeaveFiles
      <4> QED
        BY <4>4, <4>5, <4>6
    <3> QED
      BY <3>4, <3>5
  <2> QED
    BY <2>1 DEF LeaveFiles
<1> QED
  BY <1>1, <1>3, <1>4, <1>6, <1>7 DEF SetIn

LEMMA OtherSetRename ==
  ASSUME Types, RenameInv, phase = "running", NEW r \in Ranks, NEW x \in Paths,
         SetIn(SetOf(r), x), RenameFiles(r), pc[r] = "rename",
         NEW h \in Sets \ {SetOf(r)}, NEW z \in Paths, SetIn(h, z), OtherSet(h)
  PROVE  SetIn(h, z)'
<1>1. /\ Path(z) /\ Seated(h, z) /\ FindFiles(h, z) /\ LeaveFiles(h, z)
      /\ \A q \in SetRanks(h) : q \in Ranks /\ SetOf(q) = h /\ RankIn(q, z)
  BY DEF SetIn, SetRanks
<1>2. RunStill(h) /\ ModeStill(h) /\ \A q \in SetRanks(h) : Still(q) /\ pc'[q] = pc[q]
  BY DEF OtherSet, Still
<1>3. task[r] \in Tasks /\ run[r] \in RunIds /\ RunOf(r) = <<ChainOf(task[r]), run[r]>>
  BY RenamedRun DEF RunOf
<1>4. setRun[h] # RunOf(r) /\ \A q \in Renaming : SetOf(q) = h => RunOf(q) # RunOf(r)
  BY DEF RenameInv, Renaming
<1>5. FindFiles(h, z)'
  <2>1. CASE z.job # "job"
    BY <2>1 DEF FindFiles
  <2>2. CASE z.job = "job"
    <3>1. HasRun(z)
      BY <2>2 DEF HasRun
    <3>2. ChainAt(h) \in Chains /\ setRun[h] = <<ChainAt(h), RunAt(h)>>
      BY <1>1, <3>1, RunIs
    <3>3. \A t \in ChainTasks(ChainAt(h)) :
            t \in Tasks /\ <<t, RunAt(h)>> # <<task[r], run[r]>>
      BY <1>3, <1>4, <3>2, ChainTasksAre
    <3>4. \A t \in ChainTasks(ChainAt(h)) :
            /\ RunAt(h) \in DOMAIN dump'[t] <=> RunAt(h) \in DOMAIN dump[t]
            /\ RunAt(h) \in DOMAIN dump[t] => dump'[t][RunAt(h)] = dump[t][RunAt(h)]
      BY <3>3, RenamedFiles
    <3>5. ChainAt(h)' = ChainAt(h) /\ RunAt(h)' = RunAt(h)
      BY <1>2 DEF ChainAt, RunAt, RunStill
    <3> QED
      BY <1>1, <3>4, <3>5 DEF FindFiles
  <2> QED
    BY <2>1, <2>2
<1>6. LeaveFiles(h, z)'
  <2> SUFFICES ASSUME NEW p \in SetRanks(h), pc'[p] = "rename"
               PROVE  LeaveFiles(h, z)'
    BY DEF LeaveFiles
  <2>1. pc[p] = "rename" /\ p \in Ranks /\ SetOf(p) = h
    BY <1>1, <1>2
  <2>2. z.own \in Chains \X RunIds /\ RunOf(p) = z.own
    BY <2>1, RenamedRun
  <2>3. z.own # RunOf(r)
    BY <1>4, <2>1, <2>2 DEF Renaming
  <2>4. ASSUME NEW q \in SetRanks(h)
        PROVE  Slot(TaskOf(z.own[1], z.was[ChainRank(q)]), z.own[2])'
                 = IF pc'[q] = "rename" THEN z.old ELSE {ChainDump(z.u, z.own[1])}
    <3> DEFINE t == TaskOf(z.own[1], z.was[ChainRank(q)])
               k == z.own[2]
    <3>1. ChainRank(q) \in Members /\ z.was[ChainRank(q)] \in Members /\ z.own[1] \in Chains
      BY <1>1, <2>2, SeatIs DEF Paths
    <3>2. t \in Tasks /\ ChainOf(t) = z.own[1]
      BY <3>1, TaskIs
    <3>3. <<t, k>> # <<task[r], run[r]>>
      BY <1>3, <2>2, <2>3, <3>2
    <3>4. Slot(t, k)' = Slot(t, k)
      BY <3>2, <3>3, RenamedFiles
    <3>5. Slot(t, k) = IF pc[q] = "rename" THEN z.old ELSE {ChainDump(z.u, z.own[1])}
      BY <1>1, <2>1 DEF LeaveFiles
    <3> QED
      BY <1>2, <3>4, <3>5
  <2> QED
    BY <2>4 DEF LeaveFiles
<1> QED
  BY <1>1, <1>2, <1>5, <1>6, SetStill

\* Every set is on a path.
AllIn == \A g \in Sets : \E x \in Paths : SetIn(g, x)

\* What holds of all sets together.
SharedInv == FilesInv /\ RenameInv /\ LeaseInv

\* A slave step that renames nothing.
LEMMA NothingRenamed ==
  ASSUME phase = "running", phase' = phase, UNCHANGED masterVars, dump' = dump,
         \A r \in Ranks : pc'[r] = "rename" <=> pc[r] = "rename",
         \A r \in Renaming : task'[r] = task[r] /\ run'[r] = run[r],
         SharedInv
  PROVE  SharedInv'
<1>1. Renaming' = Renaming
  BY DEF Renaming
<1>2. \A r \in Renaming : RunOf(r)' = RunOf(r)
  BY DEF RunOf
<1>3. \A c, k : Agreed(c, k)' <=> Agreed(c, k)
  BY DEF Agreed, Slot
<1>4. FilesInv'
  BY <1>1, <1>2, <1>3 DEF SharedInv, FilesInv
<1>5. RenameInv'
  BY <1>1, <1>2 DEF SharedInv, RenameInv, masterVars
<1>6. LeaseInv'
  BY DEF SharedInv, LeaseInv, Holders, masterVars
<1> QED
  BY <1>4, <1>5, <1>6 DEF SharedInv

LEMMA MoveKeepsAll ==
  ASSUME Types, AllIn, SharedInv, phase = "running", phase' = phase,
         NEW g \in Sets, NEW x \in Paths, SetIn(g, x), UNCHANGED masterVars,
         dump' = dump, NEW S \in SUBSET SetRanks(g),
         \A p \in S : RankIn(p, x)' /\ pc[p] # "rename" /\ pc'[p] # "rename",
         \A p \in Ranks \ S : Still(p)
  PROVE  AllIn' /\ SharedInv'
<1>1. SetIn(g, x)' /\ \A h \in Sets \ {g} : OtherSet(h)
  BY RanksMove
<1>2. AllIn'
  BY <1>1, OtherSetStays DEF AllIn
<1>3. /\ \A r \in Ranks : pc'[r] = "rename" <=> pc[r] = "rename"
      /\ \A r \in Renaming : task'[r] = task[r] /\ run'[r] = run[r]
  BY DEF Still, Renaming
<1>4. SharedInv'
  BY <1>3, NothingRenamed
<1> QED
  BY <1>2, <1>4

LEMMA RenameKeepsAll ==
  ASSUME Types, Together, AllIn, SharedInv, phase = "running", phase' = phase,
         NEW r \in Ranks, NEW x \in Paths, SetIn(SetOf(r), x),
         RenameFiles(r), UNCHANGED masterVars, RankIn(r, x)', pc[r] = "rename",
         pc'[r] # "rename", \A q \in Ranks \ {r} : Still(q), task'[r] = task[r], run'[r] = run[r]
  PROVE  AllIn' /\ SharedInv'
<1> DEFINE g == SetOf(r)
<1>1. /\ SetIn(g, x)'
      /\ \A q \in SetRanks(g) :
           Slot(TaskOf(x.own[1], x.was[ChainRank(q)]), x.own[2])'
             = IF pc'[q] = "rename" THEN x.old ELSE {ChainDump(x.u, x.own[1])}
  BY RenameStays
<1>2. \A h \in Sets \ {g} : OtherSet(h)
  BY MasterStill DEF OtherSet, SetRanks
<1>3. AllIn'
  <2>1. ASSUME NEW h \in Sets PROVE \E z \in Paths : SetIn(h, z)'
    <3>1. PICK z \in Paths : SetIn(h, z)
      BY DEF AllIn
    <3>2. CASE h = g
      BY <1>1, <3>2
    <3>3. CASE h # g
      <4>1. SetIn(h, z)'
        BY <1>2, <3>1, <3>3, OtherSetRename DEF SharedInv
      <4> QED
        BY <4>1
    <3> QED
      BY <3>2, <3>3
  <2> QED
    BY <2>1 DEF AllIn
<1>4. /\ task[r] \in Tasks /\ run[r] \in RunIds /\ x.own \in Chains \X RunIds
      /\ RunOf(r) = x.own /\ x.own = <<ChainOf(task[r]), run[r]>>
  BY RenamedRun
<1>5. Renaming' = Renaming \ {r} /\ \A q \in Ranks : RunOf(q)' = RunOf(q)
  BY DEF Renaming, RunOf, Still
<1>6. FilesInv'
  <2>1. ASSUME NEW c \in Chains, NEW k \in RunIds, \A q \in Renaming' : RunOf(q)' # <<c, k>>
        PROVE  Agreed(c, k)'
    <3>1. CASE <<c, k>> # x.own
      <4>1. ASSUME NEW q \in Renaming PROVE RunOf(q) # <<c, k>>
        <5>1. q \in Ranks /\ (q = r \/ q \in Renaming')
          BY <1>5 DEF Renaming
        <5>2. q # r => RunOf(q)' # <<c, k>> /\ RunOf(q)' = RunOf(q)
          BY <1>5, <2>1, <5>1
        <5> QED
          BY <1>4, <3>1, <5>1, <5>2
      <4>2. Agreed(c, k)
        BY <4>1 DEF SharedInv, FilesInv
      <4>3. ASSUME NEW t \in ChainTasks(c) PROVE Slot(t, k)' = Slot(t, k)
        <5>1. t \in Tasks /\ ChainOf(t) = c
          BY ChainTasksAre
        <5>2. <<t, k>> # <<task[r], run[r]>>
          BY <1>4, <3>1, <5>1
        <5> QED
          BY <5>1, <5>2, RenamedFiles
      <4> QED
        BY <4>2, <4>3 DEF Agreed
    <3>2. CASE <<c, k>> = x.own
      <4>1. ASSUME NEW t \in ChainTasks(c) PROVE Slot(t, k)' = {ChainDump(x.u, c)}
        <5>1. PICK p \in Members : t = TaskOf(c, p)
          BY DEF ChainTasks
        <5>2. Path(x) /\ x.was \in [Members -> Members]
          BY DEF SetIn, Paths
        <5>3. PICK i \in Members : x.was[i] = p
          BY <5>2 DEF Path, Permutation, Members
        <5> DEFINE q == g * ChainLen + i
        <5>4. q \in Ranks /\ SetOf(q) = g /\ ChainRank(q) = i
          BY RankAt, SeatIs
        <5> HIDE DEF q
        <5>5. q \in SetRanks(g) /\ x.own[1] = c /\ x.own[2] = k
          BY <3>2, <5>4 DEF SetRanks
        <5>6. pc'[q] # "rename"
          <6> SUFFICES ASSUME pc'[q] = "rename" PROVE FALSE
            OBVIOUS
          <6>1. q # r /\ pc[q] = "rename" /\ q \in Renaming'
            BY <5>4 DEF Still, Renaming
          <6>2. RunOf(q) = x.own
            BY <5>4, <6>1, RenamedRun
          <6> QED
            BY <1>5, <2>1, <3>2, <5>4, <6>1, <6>2
        <5>7. Slot(TaskOf(c, p), k)' = {ChainDump(x.u, c)}
          BY <1>1, <5>3, <5>4, <5>5, <5>6
        <5> QED
          BY <5>1, <5>7
      <4> QED
        BY <4>1 DEF Agreed
    <3> QED
      BY <3>1, <3>2
  <2> QED
    BY <2>1 DEF FilesInv
<1>7. RenameInv'
  <2>1. ASSUME NEW q \in Renaming'
        PROVE  /\ RunOf(q)' = setRun'[SetOf(q)] \/ IsDone(ChainOf(task[q]), sweeps[ChainOf(task[q])])'
               /\ \A h \in Sets \ {SetOf(q)} : setRun'[h] # RunOf(q)'
               /\ \A p \in Renaming' : SetOf(p) # SetOf(q) => RunOf(p)' # RunOf(q)'
    <3>1. q \in Renaming /\ q \in Ranks /\ q # r /\ Still(q)
      BY <1>5 DEF Renaming
    <3>2. /\ RunOf(q) = setRun[SetOf(q)] \/ IsDone(ChainOf(task[q]), sweeps[ChainOf(task[q])])
          /\ \A h \in Sets \ {SetOf(q)} : setRun[h] # RunOf(q)
          /\ \A p \in Renaming : SetOf(p) # SetOf(q) => RunOf(p) # RunOf(q)
      BY <3>1 DEF SharedInv, RenameInv
    <3>3. setRun' = setRun /\ sweeps' = sweeps /\ task'[q] = task[q]
      BY <3>1 DEF masterVars, Still
    <3>4. \A p \in Renaming' : p \in Renaming /\ p \in Ranks
      BY <1>5 DEF Renaming
    <3> QED
      BY <1>5, <3>1, <3>2, <3>3, <3>4
  <2> QED
    BY <2>1 DEF RenameInv
<1>8. LeaseInv'
  BY DEF SharedInv, LeaseInv, Holders, masterVars
<1> QED
  BY <1>3, <1>6, <1>7, <1>8 DEF SharedInv

LEMMA SlaveKeepsAll ==
  ASSUME Types, Together, PosInv, AllIn, SharedInv, NEW r \in Ranks, SlaveStep(r)
  PROVE  AllIn' /\ SharedInv'
<1> DEFINE g == SetOf(r)
<1>1. g \in Sets /\ r \in SetRanks(g)
  BY SeatIs DEF SetRanks
<1>2. PICK x \in Paths : SetIn(g, x)
  BY <1>1 DEF AllIn
<1>3. ASSUME phase = "running", phase' = phase, UNCHANGED masterVars, dump' = dump,
             RankIn(r, x)', pc[r] # "rename", pc'[r] # "rename",
             \A q \in Ranks \ {r} : Still(q)
      PROVE  AllIn' /\ SharedInv'
  <2>1. {r} \in SUBSET SetRanks(g)
    BY <1>1
  <2> QED
    BY <1>1, <1>2, <1>3, <2>1, MoveKeepsAll
<1>4. ASSUME phase = "running", phase' = phase, UNCHANGED masterVars, RenameFiles(r),
             RankIn(r, x)', pc[r] = "rename", pc'[r] # "rename",
             \A q \in Ranks \ {r} : Still(q), task' = task, run' = run
      PROVE  AllIn' /\ SharedInv'
  BY <1>2, <1>4, RenameKeepsAll
<1>5. CASE Quit(r)
  <2>1. phase = "running" /\ phase' = phase /\ UNCHANGED masterVars /\ dump' = dump
    BY <1>5 DEF Quit, Takes, At, launchVars, fileVars
  <2> QED
    BY <1>2, <1>3, <1>5, <2>1, QuitKeeps
<1>6. CASE AcceptNewChain(r)
  <2>1. phase = "running" /\ phase' = phase /\ UNCHANGED masterVars /\ dump' = dump
    BY <1>6 DEF AcceptNewChain, Takes, At, launchVars, fileVars
  <2> QED
    BY <1>2, <1>3, <1>6, <2>1, AcceptNewChainKeeps
<1>7. CASE Sweeps(r)
  <2>1. phase = "running" /\ phase' = phase /\ UNCHANGED masterVars /\ dump' = dump
    BY <1>7 DEF Sweeps, At, launchVars, fileVars
  <2> QED
    BY <1>2, <1>3, <1>7, <2>1, SweepsKeeps
<1>8. CASE Respond(r)
  <2>1. phase = "running" /\ phase' = phase /\ UNCHANGED masterVars /\ dump' = dump
    BY <1>8 DEF Respond, Takes, At, launchVars, fileVars
  <2> QED
    BY <1>2, <1>3, <1>8, <2>1, RespondKeeps
<1>9. CASE KeepTask(r)
  <2>1. phase = "running" /\ phase' = phase /\ UNCHANGED masterVars /\ dump' = dump
    BY <1>9 DEF KeepTask, Takes, At, launchVars, fileVars
  <2> QED
    BY <1>2, <1>3, <1>9, <2>1, KeepTaskKeeps
<1>10. CASE ChangeTask(r)
  <2>1. phase = "running" /\ phase' = phase /\ UNCHANGED masterVars /\ dump' = dump
    BY <1>10 DEF ChangeTask, Takes, At, launchVars, fileVars
  <2> QED
    BY <1>2, <1>3, <1>10, <2>1, ChangeTaskKeeps
<1>11. CASE \E q \in Ranks : Exchange(r, q)
  <2>1. PICK q \in Ranks : Exchange(r, q)
    BY <1>11
  <2>2. phase = "running" /\ phase' = phase /\ UNCHANGED masterVars /\ dump' = dump
    BY <2>1 DEF Exchange, At, launchVars, fileVars
  <2>3. /\ SetOf(q) = SetOf(r) /\ RankIn(r, x)' /\ RankIn(q, x)'
        /\ \A p \in {r, q} : pc[p] # "rename" /\ pc'[p] # "rename"
        /\ \A p \in Ranks \ {r, q} : Still(p)
    BY <1>2, <2>1, ExchangeKeeps
  <2>4. {r, q} \in SUBSET SetRanks(g)
    BY <2>3 DEF SetRanks
  <2> QED
    BY <1>1, <1>2, <2>2, <2>3, <2>4, MoveKeepsAll
<1>12. CASE Negotiate(r)
  <2>1. phase = "running" /\ phase' = phase /\ UNCHANGED masterVars /\ dump' = dump
    BY <1>12 DEF Negotiate, At, launchVars, fileVars
  <2>2. (\E y \in Paths : SetIn(g, y)') /\ \A h \in Sets \ {g} : OtherSet(h)
    BY <1>2, <1>12, NegotiateKeeps
  <2>3. AllIn'
    BY <2>1, <2>2, OtherSetStays DEF AllIn
  <2>4. /\ \A q \in Ranks : pc'[q] = "rename" <=> pc[q] = "rename"
        /\ task' = task /\ run' = run
    <3>1. task' = task /\ run' = run /\ pc[r] = "negotiate"
      BY <1>12 DEF Negotiate, At
    <3>2. PICK place \in {"sweep", "write"} : pc' = [pc EXCEPT ![r] = place]
      BY <1>12 DEF Negotiate, Obey, Goes, LoopHead
    <3> QED
      BY <3>1, <3>2 DEF Types
  <2>5. SharedInv'
    BY <2>1, <2>4, NothingRenamed
  <2> QED
    BY <2>3, <2>5
<1>13. CASE HearTimeout(r)
  <2>1. phase = "running" /\ phase' = phase /\ UNCHANGED masterVars /\ dump' = dump
    BY <1>13 DEF HearTimeout, At, launchVars, fileVars
  <2> QED
    BY <1>2, <1>3, <1>13, <2>1, HearTimeoutKeeps
<1>14. CASE WriteTemporary(r)
  <2>1. phase = "running" /\ phase' = phase /\ UNCHANGED masterVars /\ dump' = dump
    BY <1>14 DEF WriteTemporary, At, launchVars, fileVars
  <2> QED
    BY <1>2, <1>3, <1>14, <2>1, WriteTemporaryKeeps
<1>15. CASE FinishFirst(r)
  <2>1. /\ phase = "running" /\ phase' = phase /\ UNCHANGED masterVars
        /\ RenameFiles(r) /\ task' = task /\ run' = run
    BY <1>15 DEF FinishFirst, At, launchVars
  <2> QED
    BY <1>2, <1>4, <1>15, <2>1, FinishFirstKeeps
<1>16. CASE FinishReport(r)
  <2>1. /\ phase = "running" /\ phase' = phase /\ UNCHANGED masterVars
        /\ RenameFiles(r) /\ task' = task /\ run' = run
    BY <1>16 DEF FinishReport, At, launchVars
  <2> QED
    BY <1>2, <1>4, <1>16, <2>1, FinishReportKeeps
<1>17. CASE FinishTimeUp(r)
  <2>1. /\ phase = "running" /\ phase' = phase /\ UNCHANGED masterVars
        /\ RenameFiles(r) /\ task' = task /\ run' = run
    BY <1>17 DEF FinishTimeUp, At, launchVars
  <2> QED
    BY <1>2, <1>4, <1>17, <2>1, FinishTimeUpKeeps
<1>18. CASE TakeAction(r)
  <2>1. phase = "running" /\ phase' = phase /\ UNCHANGED masterVars /\ dump' = dump
    BY <1>18 DEF TakeAction, Takes, At, launchVars, fileVars
  <2> QED
    BY <1>2, <1>3, <1>18, <2>1, TakeActionKeeps
<1>19. CASE MergeMeasurements(r)
  <2>1. phase = "running" /\ phase' = phase /\ UNCHANGED masterVars /\ dump' = dump
    BY <1>19 DEF MergeMeasurements, At, launchVars
  <2> QED
    BY <1>2, <1>3, <1>19, <2>1, MergeMeasurementsKeeps
<1> QED
  BY <1>5, <1>6, <1>7, <1>8, <1>9, <1>10, <1>11, <1>12, <1>13, <1>14, <1>15, <1>16,
     <1>17, <1>18, <1>19 DEF SlaveStep

-----------------------------------------------------------------------------
(* The master's steps, for all sets.                                       *)

LEMMA SetsFollow ==
  ASSUME AllIn, NEW g \in Sets, \E y \in Paths : SetIn(g, y)',
         \A h \in Sets \ {g} : OtherSet(h), dump' = dump
  PROVE  AllIn'
BY OtherSetStays DEF AllIn

\* A step of the master renames nothing; what is left to show is about the runs.
LEMMA FilesStay ==
  ASSUME phase = "running", phase' = phase, slaveVars' = slaveVars, dump' = dump, FilesInv
  PROVE  /\ FilesInv' /\ Renaming' = Renaming
         /\ \A q : RunOf(q)' = RunOf(q) /\ task'[q] = task[q]
<1>1. Renaming' = Renaming /\ \A q : RunOf(q)' = RunOf(q) /\ task'[q] = task[q]
  BY DEF Renaming, RunOf, slaveVars
<1>2. \A c, k : Agreed(c, k)' <=> Agreed(c, k)
  BY DEF Agreed, Slot
<1> QED
  BY <1>1, <1>2 DEF FilesInv

LEMMA RenamingRuns ==
  ASSUME Types, AllIn, NEW r \in Renaming
  PROVE  /\ r \in Ranks /\ SetOf(r) \in Sets /\ ChainOf(task[r]) \in Chains
         /\ RunOf(r) = <<ChainOf(task[r]), run[r]>> /\ RunOf(r) # NoRun
<1>1. r \in Ranks /\ SetOf(r) \in Sets /\ pc[r] = "rename"
  BY SeatIs DEF Renaming
<1>2. PICK x \in Paths : SetIn(SetOf(r), x)
  BY <1>1 DEF AllIn
<1>3. ChainOf(task[r]) \in Chains
  BY <1>1, <1>2, RenamedRun, ChainIs
<1> QED
  BY <1>1, <1>3, ShapeAssumption DEF RunOf, NoRun, Chains

\* The runs stay what they are, and chains that are done stay done.
LEMMA RunsStay ==
  ASSUME Types, AllIn, SharedInv, phase = "running", phase' = phase, slaveVars' = slaveVars, dump' = dump,
         setRun' = setRun, scheduled' = scheduled, pos' = pos,
         \A d \in Chains : ~IsDone(d, sweeps'[d]) => ~IsDone(d, sweeps[d])
  PROVE  SharedInv'
<1>1. /\ FilesInv' /\ Renaming' = Renaming
      /\ \A q : RunOf(q)' = RunOf(q) /\ task'[q] = task[q]
  BY FilesStay DEF SharedInv
<1>2. RenameInv'
  BY <1>1, RenamingRuns DEF SharedInv, RenameInv
<1>3. LeaseInv'
  BY DEF SharedInv, LeaseInv, Holders
<1> QED
  BY <1>1, <1>2, <1>3 DEF SharedInv

\* The set is given another run, or none.
LEMMA AssignShared ==
  ASSUME Types, AllIn, SharedInv, phase = "running", phase' = phase, slaveVars' = slaveVars, dump' = dump,
         pos' = pos, NEW g \in Sets, NEW n \in [Chains -> Nat], sweeps' = n,
         NEW sch \in [Chains -> Int], NEW first, AssignNewChain(g, n, sch, first),
         \A d \in Chains : sch[d] = scheduled[d] - (IF d = setRun[g][1] THEN 1 ELSE 0),
         \A d \in Chains : ~IsDone(d, n[d]) => d # setRun[g][1] /\ ~IsDone(d, sweeps[d])
  PROVE  SharedInv'
<1> DEFINE c == GetNewTaskId(current, NChains, DoneChains(n))
           k == NextRun(sch[c])
<1>1. /\ FilesInv' /\ Renaming' = Renaming
      /\ \A q : RunOf(q)' = RunOf(q) /\ task'[q] = task[q]
  BY FilesStay DEF SharedInv
<1>2. c \in Chains \cup {NoTask} /\ (c # NoTask => c \in Chains /\ ~IsDone(c, n[c]))
  BY NewChainIs
<1>3. \/ /\ c # NoTask /\ scheduled' = [sch EXCEPT ![c] = k]
         /\ setRun' = [setRun EXCEPT ![g] = <<c, k>>]
      \/ c = NoTask /\ scheduled' = sch /\ setRun' = [setRun EXCEPT ![g] = NoRun]
  BY DEF AssignNewChain
<1> HIDE DEF c
<1>4. c # NoTask =>
        /\ c \in Chains /\ c # setRun[g][1] /\ ~IsDone(c, sweeps[c]) /\ sch[c] = scheduled[c]
        /\ k \in RunIds /\ k = scheduled[c] + 1 /\ \A h \in Sets : setRun[h] # <<c, k>>
  <2> SUFFICES ASSUME c # NoTask
               PROVE  /\ c \in Chains /\ c # setRun[g][1] /\ ~IsDone(c, sweeps[c]) /\ sch[c] = scheduled[c]
                      /\ k \in RunIds /\ k = scheduled[c] + 1 /\ \A h \in Sets : setRun[h] # <<c, k>>
    OBVIOUS
  <2>1. c \in Chains /\ c # setRun[g][1] /\ ~IsDone(c, sweeps[c])
    BY <1>2
  <2>2. sch[c] = scheduled[c]
    BY <2>1 DEF Types
  <2> QED
    BY <2>1, <2>2, NextRunFree DEF SharedInv
<1> HIDE DEF k
<1>5. /\ setRun'[g] = IF c # NoTask THEN <<c, k>> ELSE NoRun
      /\ \A h \in Sets : h # g => setRun'[h] = setRun[h]
  BY <1>3 DEF Types
<1>6. ASSUME NEW r \in Renaming
      PROVE  /\ RunOf(r) = setRun'[SetOf(r)] \/ IsDone(ChainOf(task[r]), n[ChainOf(task[r])])
             /\ \A h \in Sets \ {SetOf(r)} : setRun'[h] # RunOf(r)
             /\ \A q \in Renaming : SetOf(q) # SetOf(r) => RunOf(q) # RunOf(r)
  <2>1. /\ r \in Ranks /\ SetOf(r) \in Sets /\ ChainOf(task[r]) \in Chains
        /\ RunOf(r) = <<ChainOf(task[r]), run[r]>> /\ RunOf(r) # NoRun
    BY RenamingRuns
  <2>2. /\ RunOf(r) = setRun[SetOf(r)] \/ IsDone(ChainOf(task[r]), sweeps[ChainOf(task[r])])
        /\ \A h \in Sets \ {SetOf(r)} : setRun[h] # RunOf(r)
        /\ \A q \in Renaming : SetOf(q) # SetOf(r) => RunOf(q) # RunOf(r)
    BY DEF SharedInv, RenameInv
  <2>3. RunOf(r) = setRun'[SetOf(r)] \/ IsDone(ChainOf(task[r]), n[ChainOf(task[r])])
    <3>1. CASE SetOf(r) # g
      BY <1>5, <2>1, <2>2, <3>1
    <3>2. CASE SetOf(r) = g
      <4>1. RunOf(r) = setRun[g] => ChainOf(task[r]) = setRun[g][1]
        BY <2>1
      <4> QED
        BY <2>1, <2>2, <3>2, <4>1
    <3> QED
      BY <3>1, <3>2
  <2>4. ASSUME NEW h \in Sets \ {SetOf(r)} PROVE setRun'[h] # RunOf(r)
    <3>1. CASE h # g
      BY <1>5, <2>2, <3>1
    <3>2. CASE h = g /\ c = NoTask
      BY <1>5, <2>1, <3>2
    <3>3. CASE h = g /\ c # NoTask
      <4>1. <<c, k>> # setRun[SetOf(r)]
        BY <1>4, <2>1, <3>3
      <4>2. <<c, k>> = RunOf(r) => c = ChainOf(task[r])
        BY <2>1
      <4> QED
        BY <1>4, <1>5, <2>2, <3>3, <4>1, <4>2
    <3> QED
      BY <3>1, <3>2, <3>3
  <2> QED
    BY <2>2, <2>3, <2>4
<1>7. RenameInv'
  BY <1>1, <1>6 DEF RenameInv
<1>8. /\ \A a, b \in Sets : a # b /\ setRun[a] # NoRun => setRun[a] # setRun[b]
      /\ \A d \in Chains : scheduled[d] = Cardinality(Holders(d))
      /\ \A d \in Chains : ~IsDone(d, sweeps[d]) =>
           /\ \A h \in Holders(d) : setRun[h][2] <= scheduled[d]
           /\ \A j \in RunIds : j > scheduled[d] => pos[d][j] = Identity
  BY DEF SharedInv, LeaseInv
<1>9. ASSUME NEW a \in Sets, NEW b \in Sets, a # b, setRun'[a] # NoRun
      PROVE  setRun'[a] # setRun'[b]
  <2>1. CASE c = NoTask
    <3>1. a # g
      BY <1>5, <1>9, <2>1
    <3> QED
      BY <1>5, <1>8, <1>9, <2>1, <3>1
  <2>2. CASE c # NoTask
    BY <1>4, <1>5, <1>8, <1>9, <2>2
  <2> QED
    BY <2>1, <2>2
<1>10. ASSUME NEW d \in Chains PROVE scheduled'[d] = Cardinality(Holders(d)')
  <2>1. scheduled[d] \in Int /\ sch[d] = scheduled[d] - (IF d = setRun[g][1] THEN 1 ELSE 0)
    BY DEF Types
  <2>2. CASE c = NoTask
    BY <1>3, <1>8, <2>1, <2>2, HoldersLose
  <2>3. CASE c # NoTask
    <3>1. Cardinality(Holders(d)') =
           Cardinality(Holders(d)) + (IF d = c THEN 1 ELSE 0)
                                   - (IF d = setRun[g][1] THEN 1 ELSE 0)
      BY <1>3, <1>4, <2>3, HoldersGain
    <3>2. scheduled'[d] = IF d = c THEN scheduled[d] + 1 ELSE sch[d]
      BY <1>3, <1>4, <2>3
    <3> QED
      BY <1>4, <1>8, <2>1, <2>3, <3>1, <3>2
  <2> QED
    BY <2>2, <2>3
<1>11. ASSUME NEW d \in Chains, ~IsDone(d, n[d])
       PROVE  /\ \A h \in Holders(d)' : setRun'[h][2] <= scheduled'[d]
              /\ \A j \in RunIds : j > scheduled'[d] => pos'[d][j] = Identity
  <2>1. d # setRun[g][1] /\ ~IsDone(d, sweeps[d]) /\ sch[d] = scheduled[d] /\ scheduled[d] \in Int
    BY <1>11 DEF Types
  <2>2. scheduled'[d] \in Int /\ scheduled'[d] >= scheduled[d] /\ (d = c /\ c # NoTask => scheduled'[d] = k)
    BY <1>3, <1>4, <2>1
  <2>3. ASSUME NEW h \in Holders(d)' PROVE setRun'[h][2] <= scheduled'[d]
    <3>1. h \in Sets /\ setRun'[h][1] = d
      BY DEF Holders
    <3>2. CASE h # g
      <4>1. setRun'[h] = setRun[h] /\ h \in Holders(d)
        BY <1>5, <3>1, <3>2 DEF Holders
      <4>2. setRun[h][2] <= scheduled[d]
        BY <1>8, <2>1, <4>1
      <4>3. setRun[h][2] \in Int
        BY <3>1, ShapeAssumption DEF Types, NoRun, RunIds
      <4> QED
        BY <2>1, <2>2, <4>1, <4>2, <4>3
    <3>3. CASE h = g
      <4>1. c # NoTask /\ d = c
        BY <1>5, <3>1, <3>3, ShapeAssumption DEF NoRun, Chains
      <4>2. setRun'[h][2] = k /\ scheduled'[d] = k /\ k \in Int
        BY <1>4, <1>5, <2>1, <2>2, <3>3, <4>1
      <4> QED
        BY <4>2
    <3> QED
      BY <3>2, <3>3
  <2>4. ASSUME NEW j \in RunIds, j > scheduled'[d] PROVE pos'[d][j] = Identity
    <3>1. j \in Int
      BY DEF RunIds
    <3>2. j > scheduled[d]
      BY <2>1, <2>2, <2>4, <3>1
    <3> QED
      BY <1>8, <2>1, <3>2
  <2> QED
    BY <2>3, <2>4
<1>12. LeaseInv'
  BY <1>9, <1>10, <1>11 DEF LeaseInv
<1> QED
  BY <1>1, <1>7, <1>12 DEF SharedInv

LEMMA RunIsPos ==
  ASSUME Types, NEW g \in Sets, setRun[g] # NoRun
  PROVE  ChainAt(g) \in Chains /\ RunAt(g) \in RunIds /\ g \in Holders(ChainAt(g))
         /\ setRun[g] = <<ChainAt(g), RunAt(g)>>
BY DEF Types, ChainAt, RunAt, Holders

LEMMA AssignFirstAll ==
  ASSUME Types, AllIn, SharedInv, NEW g \in Sets, AssignFirst(g)
  PROVE  AllIn' /\ SharedInv'
<1>1. PICK x \in Paths : SetIn(g, x)
  BY DEF AllIn
<1>2. /\ phase = "running" /\ phase' = phase /\ slaveVars' = slaveVars /\ dump' = dump
      /\ pos' = pos /\ sweeps' = sweeps /\ AssignNewChain(g, sweeps, scheduled, << >>)
  BY DEF AssignFirst, slaveVars, launchVars, fileVars
<1>3. /\ setRun[g] = NoRun /\ \E y \in Paths : SetIn(g, y)'
      /\ \A h \in Sets \ {g} : OtherSet(h)
  BY <1>1, AssignFirstKeeps DEF SharedInv
<1>4. AllIn'
  BY <1>2, <1>3, SetsFollow
<1>5. \A d \in Chains : d # setRun[g][1] /\ scheduled[d] \in Int
  BY <1>3, ShapeAssumption DEF NoRun, Chains, Types
<1>6. /\ sweeps \in [Chains -> Nat] /\ scheduled \in [Chains -> Int]
      /\ \A d \in Chains : scheduled[d] = scheduled[d] - (IF d = setRun[g][1] THEN 1 ELSE 0)
      /\ \A d \in Chains : ~IsDone(d, sweeps[d]) => d # setRun[g][1] /\ ~IsDone(d, sweeps[d])
  BY <1>5 DEF Types
<1>7. SharedInv'
  BY <1>2, <1>6, AssignShared
<1> QED
  BY <1>4, <1>7

LEMMA ReactBusyAll ==
  ASSUME Types, AllIn, SharedInv, NEW r \in Ranks, ReactBusy(r)
  PROVE  AllIn' /\ SharedInv'
<1> DEFINE g == SetOf(r)
           c == setRun[g][1]
           n == [sweeps EXCEPT ![c] = @ + Head(toMaster[r]).sweeps]
<1>1. g \in Sets
  BY SeatIs
<1>2. PICK x \in Paths : SetIn(g, x)
  BY <1>1 DEF AllIn
<1>3. /\ phase = "running" /\ slaveVars' = slaveVars /\ dump' = dump
      /\ pos' = pos /\ sweeps' = n /\ c \in Chains /\ n \in [Chains -> Nat]
      /\ \A d \in Chains : ~IsDone(d, n[d]) => ~IsDone(d, sweeps[d])
  BY <1>2, BusyIs
<1>4. phase' = phase
  BY DEF ReactBusy, launchVars
<1>5. CASE IsDone(c, n[c])
  <2> DEFINE left == scheduled[c] - 1
             sch == [scheduled EXCEPT ![c] = left]
             first == <<ActionMsg(LastVerdict(left))>>
  <2>1. AssignNewChain(g, n, sch, first)
    BY <1>5 DEF ReactBusy
  <2>2. (\E y \in Paths : SetIn(g, y)') /\ \A h \in Sets \ {g} : OtherSet(h)
    BY <1>2, <1>3, <1>5, BusyDoneKeeps DEF SharedInv
  <2>3. AllIn'
    BY <1>1, <1>3, <2>2, SetsFollow
  <2> HIDE DEF n
  <2>4. /\ sch \in [Chains -> Int]
        /\ \A d \in Chains : sch[d] = scheduled[d] - (IF d = c THEN 1 ELSE 0)
    BY <1>3 DEF Types
  <2>5. \A d \in Chains : ~IsDone(d, n[d]) => d # c /\ ~IsDone(d, sweeps[d])
    BY <1>3, <1>5
  <2> HIDE DEF sch, first
  <2>6. SharedInv'
    BY <1>1, <1>3, <1>4, <2>1, <2>4, <2>5, AssignShared
  <2> QED
    BY <2>3, <2>6
<1>6. CASE ~IsDone(c, n[c])
  <2>1. /\ setRun' = setRun /\ (\E y \in Paths : SetIn(g, y)')
        /\ \A h \in Sets \ {g} : OtherSet(h)
    BY <1>2, <1>3, <1>6, BusyContinueKeeps
  <2>2. AllIn'
    BY <1>1, <1>3, <2>1, SetsFollow
  <2>3. scheduled' = scheduled
    BY <1>6 DEF ReactBusy
  <2> HIDE DEF n
  <2>4. SharedInv'
    BY <1>3, <1>4, <2>1, <2>3, RunsStay
  <2> QED
    BY <2>2, <2>4
<1> QED
  BY <1>5, <1>6

LEMMA ReactReadyAll ==
  ASSUME Types, AllIn, SharedInv, NEW r \in Ranks, ReactReady(r)
  PROVE  AllIn' /\ SharedInv'
<1>1. SetOf(r) \in Sets
  BY SeatIs
<1>2. PICK x \in Paths : SetIn(SetOf(r), x)
  BY <1>1 DEF AllIn
<1>3. /\ phase = "running" /\ phase' = phase /\ slaveVars' = slaveVars /\ dump' = dump
      /\ setRun' = setRun /\ scheduled' = scheduled /\ pos' = pos /\ sweeps' = sweeps
  BY DEF ReactReady, Receives, slaveVars, launchVars, fileVars
<1>4. AllIn'
  BY <1>1, <1>2, <1>3, ReactReadyKeeps, SetsFollow
<1>5. SharedInv'
  BY <1>3, RunsStay
<1> QED
  BY <1>4, <1>5

LEMMA ReactTimeUpAll ==
  ASSUME Types, AllIn, SharedInv, NEW r \in Ranks, ReactTimeUp(r)
  PROVE  AllIn' /\ SharedInv'
<1>1. SetOf(r) \in Sets
  BY SeatIs
<1>2. PICK x \in Paths : SetIn(SetOf(r), x)
  BY <1>1 DEF AllIn
<1>3. /\ phase = "running" /\ phase' = phase /\ slaveVars' = slaveVars /\ dump' = dump
      /\ setRun' = setRun /\ scheduled' = scheduled /\ pos' = pos /\ sweeps' = sweeps
  BY DEF ReactTimeUp, Receives, slaveVars, launchVars, fileVars
<1>4. AllIn'
  BY <1>1, <1>2, <1>3, ReactTimeUpKeeps, SetsFollow
<1>5. SharedInv'
  BY <1>3, RunsStay
<1> QED
  BY <1>4, <1>5

LEMMA GlobalUpdateAll ==
  ASSUME Types, PosInv, AllIn, SharedInv, NEW g \in Sets, GlobalUpdate(g)
  PROVE  AllIn' /\ SharedInv'
<1> DEFINE c == setRun[g][1]
           k == setRun[g][2]
<1>1. PICK x \in Paths : SetIn(g, x)
  BY DEF AllIn
<1>2. /\ phase = "running" /\ phase' = phase /\ slaveVars' = slaveVars /\ dump' = dump
      /\ setRun' = setRun /\ scheduled' = scheduled /\ sweeps' = sweeps
  BY DEF GlobalUpdate, slaveVars, launchVars, fileVars
<1>3. Apart
  BY <1>2 DEF Apart, SharedInv, LeaseInv
<1>4. AllIn'
  BY <1>1, <1>2, <1>3, GlobalUpdateSets, SetsFollow
<1>5. /\ FilesInv' /\ Renaming' = Renaming
      /\ \A q : RunOf(q)' = RunOf(q) /\ task'[q] = task[q]
  BY <1>2, FilesStay DEF SharedInv
<1>6. RenameInv'
  BY <1>2, <1>5 DEF SharedInv, RenameInv
<1>7. LeaseInv'
  <2>1. PICK to : pos' = [pos EXCEPT ![c][k] = to]
    BY DEF GlobalUpdate
  <2>2. HasRun(x)
    BY <1>1, <1>3, UpdateIs
  <2>3. c \in Chains /\ k \in RunIds /\ g \in Holders(c)
    BY <1>1, <2>2, RunIsPos DEF SetIn, Seated, ChainAt, RunAt
  <2>4. pos \in [Chains -> [RunIds -> [Members -> Members]]]
    BY DEF PosInv, PosTables
  <2>5. ASSUME NEW d \in Chains, ~IsDone(d, sweeps[d]), NEW j \in RunIds, j > scheduled[d]
        PROVE  pos'[d][j] = Identity
    <3>1. pos[d][j] = Identity
      BY <1>2, <2>5 DEF SharedInv, LeaseInv
    <3>2. d = c => j # k
      <4>1. d = c => k <= scheduled[d]
        BY <1>2, <2>3, <2>5 DEF SharedInv, LeaseInv
      <4>2. j \in Int /\ k \in Int /\ scheduled[d] \in Int
        BY <2>3 DEF RunIds, Types
      <4> QED
        BY <2>5, <4>1, <4>2
    <3>3. pos'[d][j] = pos[d][j]
      BY <2>1, <2>3, <2>4, <3>2
    <3> QED
      BY <3>1, <3>3
  <2> QED
    BY <1>2, <2>5 DEF SharedInv, LeaseInv, Holders
<1> QED
  BY <1>4, <1>5, <1>6, <1>7 DEF SharedInv

LEMMA BarrierAll ==
  ASSUME Types, PosInv, AllIn, SharedInv, NEW g \in Sets, Barrier(g)
  PROVE  AllIn' /\ SharedInv'
<1>1. PICK x \in Paths : SetIn(g, x)
  BY DEF AllIn
<1>2. /\ phase = "running" /\ phase' = phase /\ UNCHANGED masterVars /\ dump' = dump
      /\ task' = task /\ run' = run
  BY DEF Barrier, launchVars, fileVars
<1>3. /\ \A h \in Sets \ {g} : OtherSet(h)
      /\ \A q \in SetRanks(g) :
           /\ pc[q] \in {"update_barrier", "write_barrier"}
           /\ pc'[q] = IF pc[q] = "update_barrier" THEN "swap" ELSE "rename"
  BY BarrierIs
<1>4. \A q \in SetRanks(g) : q \in Ranks /\ SetOf(q) = g /\ RankIn(q, x) /\ Placed(q, x)
  BY <1>1 DEF SetIn, SetRanks, RankIn
<1>5. x.way \in {"sweep", "write"}
  <2>1. PICK q \in SetRanks(g) : IsRoot(q)
    BY RootIs
  <2> QED
    BY <1>3, <1>4, <2>1, WhereIs DEF Sweeping, Writing
<1>6. \E y \in Paths : SetIn(g, y)'
  BY <1>1, <1>5, UpdateBarrierKeeps, WriteBarrierKeeps DEF SharedInv
<1>7. AllIn'
  BY <1>2, <1>3, <1>6, SetsFollow
<1>8. /\ Renaming \subseteq Renaming' /\ \A q \in Ranks : RunOf(q)' = RunOf(q)
      /\ \A q \in Renaming : SetOf(q) # g
      /\ \A q \in Renaming' : SetOf(q) # g => q \in Renaming
  <2>1. \A q \in Ranks : SetOf(q) # g => pc'[q] = pc[q]
    BY DEF Barrier
  <2> QED
    BY <1>2, <1>3, <1>4, <2>1 DEF Renaming, RunOf, SetRanks
<1>9. FilesInv'
  <2>1. \A c, k : Agreed(c, k)' <=> Agreed(c, k)
    BY <1>2 DEF Agreed, Slot
  <2>2. \A q \in Renaming : q \in Ranks
    BY DEF Renaming
  <2> QED
    BY <1>2, <1>8, <2>1, <2>2 DEF SharedInv, FilesInv
<1>10. ASSUME NEW q \in Ranks, SetOf(q) = g, q \in Renaming'
       PROVE  RunOf(q) = setRun[g] /\ setRun[g] # NoRun
  <2>1. q \in SetRanks(g) /\ pc[q] = "write_barrier"
    BY <1>3, <1>10 DEF Renaming, SetRanks
  <2>2. /\ RankIn(q, x) /\ Path(x) /\ Seated(g, x) /\ HasRun(x) /\ x.held \in [Members -> Members]
    BY <1>1, <1>4, <2>1, RunThere DEF SetIn, Writing, Paths
  <2>3. ChainAt(g) \in Chains /\ setRun[g] = <<ChainAt(g), RunAt(g)>> /\ setRun[g] # NoRun
    BY <2>2, RunIs
  <2>4. task[q] = TaskOf(ChainAt(g), x.held[ChainRank(q)]) /\ run[q] = RunAt(g)
    BY <1>10, <2>1, <2>2 DEF RankIn, Works, Writing
  <2>5. ChainOf(task[q]) = ChainAt(g)
    BY <2>2, <2>3, <2>4, SeatIs, TaskIs
  <2> QED
    BY <2>3, <2>4, <2>5 DEF RunOf
<1>11. RenameInv'
  <2>0. setRun' = setRun /\ sweeps' = sweeps
    BY <1>2 DEF masterVars
  <2>1. ASSUME NEW q \in Renaming'
        PROVE  /\ RunOf(q)' = setRun'[SetOf(q)] \/ IsDone(ChainOf(task'[q]), sweeps'[ChainOf(task'[q])])
               /\ \A h \in Sets \ {SetOf(q)} : setRun'[h] # RunOf(q)'
               /\ \A p \in Renaming' : SetOf(p) # SetOf(q) => RunOf(p)' # RunOf(q)'
    <3>1. q \in Ranks /\ RunOf(q)' = RunOf(q) /\ SetOf(q) \in Sets
      BY <1>8, SeatIs DEF Renaming
    <3>2. \A p \in Renaming' : p \in Ranks /\ RunOf(p)' = RunOf(p)
      BY <1>8 DEF Renaming
    <3>3. CASE SetOf(q) = g
      <4>1. RunOf(q) = setRun[g] /\ setRun[g] # NoRun
        BY <1>10, <3>1, <3>3
      <4>2. \A h \in Sets \ {g} : setRun[h] # setRun[g]
        BY <1>2, <4>1 DEF SharedInv, LeaseInv
      <4>3. \A p \in Renaming' : SetOf(p) # g => RunOf(p) # setRun[g]
        BY <1>2, <1>8 DEF SharedInv, RenameInv
      <4> QED
        BY <2>0, <3>1, <3>2, <3>3, <4>1, <4>2, <4>3
    <3>4. CASE SetOf(q) # g
      <4>1. q \in Renaming
        BY <1>8, <3>4
      <4>2. /\ RunOf(q) = setRun[SetOf(q)] \/ IsDone(ChainOf(task[q]), sweeps[ChainOf(task[q])])
            /\ \A h \in Sets \ {SetOf(q)} : setRun[h] # RunOf(q)
            /\ \A p \in Renaming : SetOf(p) # SetOf(q) => RunOf(p) # RunOf(q)
        BY <1>2, <4>1 DEF SharedInv, RenameInv
      <4>3. \A p \in Renaming' : SetOf(p) # SetOf(q) => RunOf(p) # RunOf(q)
        <5> TAKE p \in Renaming'
        <5>1. CASE SetOf(p) = g
          <6>1. RunOf(p) = setRun[g]
            BY <1>10, <3>2, <5>1
          <6> QED
            BY <3>4, <4>2, <6>1
        <5>2. CASE SetOf(p) # g
          BY <1>8, <4>2, <5>2
        <5> QED
          BY <5>1, <5>2
      <4> QED
        BY <1>2, <2>0, <3>1, <3>2, <4>2, <4>3
    <3> QED
      BY <3>3, <3>4
  <2> QED
    BY <2>1 DEF RenameInv
<1>12. LeaseInv'
  BY <1>2 DEF SharedInv, LeaseInv, Holders, masterVars
<1> QED
  BY <1>7, <1>9, <1>11, <1>12 DEF SharedInv

-----------------------------------------------------------------------------
(* The beginning and the end of a launch.                                  *)

\* A launch as start() finds it.
Started ==
  /\ phase = "running" /\ mode = <<"assign", 0>>
  /\ scheduled = [c \in Chains |-> 0]
  /\ setRun = [g \in Sets |-> NoRun]
  /\ pos = PositionsRead
  /\ pc = [r \in Ranks |-> "accept"]
  /\ since = [r \in Ranks |-> 0]
  /\ reason = [r \in Ranks |-> "report"]
  /\ bcast = [r \in Ranks |-> "none"]
  /\ toMaster = [r \in Ranks |-> << >>]
  /\ toSlave = [r \in Ranks |-> << >>]

LEMMA InitStarts == Init => Started
BY DEF Init, Started, PositionsRead

LEMMA RelaunchStarts == Relaunch => Started'
BY DEF Relaunch, Start, Started, PositionsRead

\* Where the path of a set begins.
AtStart ==
  [ kind |-> "start", act |-> "none", job |-> "none", first |-> "none",
    resp |-> "none", swap |-> "none", dec |-> "none", way |-> "none",
    own |-> <<0, 0>>, was |-> Identity, held |-> Identity, old |-> {},
    u |-> 0, w |-> 0, s |-> 0, b |-> 1 ]

LEMMA AtStartIs ==
  /\ AtStart \in Paths /\ Path(AtStart)
  /\ ~HasRun(AtStart) /\ ~Waiting(AtStart)
<1>1. Identity \in [Members -> Members] /\ Permutation(Identity, ChainLen)
  BY IdentityPermutes DEF Identity
<1>2. AtStart \in Paths
  BY <1>1 DEF AtStart, Paths, Flag
<1>3. Path(AtStart)
  BY <1>1 DEF AtStart, Path
<1>4. ~HasRun(AtStart) /\ ~Waiting(AtStart)
  BY DEF AtStart, HasRun, Waiting
<1> QED
  BY <1>2, <1>3, <1>4

LEMMA StartedIn == Started => AllIn /\ RenameInv /\ LeaseInv
<1> SUFFICES ASSUME Started PROVE AllIn /\ RenameInv /\ LeaseInv
  OBVIOUS
<1>1. ASSUME NEW g \in Sets PROVE SetIn(g, AtStart)
  <2>1. setRun[g] = NoRun
    BY DEF Started
  <2>2. g \in Nat /\ 0 \in Sets /\ 0 <= g
    BY ShapeAssumption DEF Sets
  <2>3. Undealt(g) /\ mode # <<"weights", g>>
    BY <2>2 DEF Undealt, Started
  <2>4. Seated(g, AtStart)
    BY <2>1, <2>3, AtStartIs DEF Seated, AtStart
  <2>5. FindFiles(g, AtStart) /\ LeaveFiles(g, AtStart)
    BY DEF FindFiles, LeaveFiles, AtStart, Started, SetRanks
  <2>6. ASSUME NEW r \in SetRanks(g) PROVE RankIn(r, AtStart)
    <3>1. /\ r \in Ranks /\ pc[r] = "accept" /\ since[r] = 0 /\ reason[r] = "report"
          /\ bcast[r] = "none" /\ toMaster[r] = << >> /\ toSlave[r] = << >>
      BY DEF Started, SetRanks
    <3>2. Queue(r, AtStart) = << >>
      BY <3>1 DEF Queue, ToJob, ToResp, ToSwap, Ahead, AtStart
    <3>3. Said(r, AtStart)
      BY <3>1 DEF Said, Weighed, AtStart
    <3>4. Placed(r, AtStart)
      BY <3>1 DEF Placed, FirstPlaces, LastPlaces, AtStart, Updating
    <3>5. Works(r, AtStart) /\ Simulates(r, AtStart)
      BY <3>1 DEF Works, Simulates, AtStart, Updating, Sweeping, Writing
    <3>6. CountsTo(r, AtStart)
      BY <3>1 DEF CountsTo, AtStart, Updating, Sweeping, Writing
    <3> QED
      BY <3>1, <3>2, <3>3, <3>4, <3>5, <3>6 DEF RankIn
  <2> QED
    BY <2>4, <2>5, <2>6, AtStartIs DEF SetIn
<1>2. AllIn
  BY <1>1, AtStartIs DEF AllIn
<1>3. RenameInv
  BY DEF RenameInv, Renaming, Started
<1>4. LeaseInv
  <2>1. \A g \in Sets : setRun[g] = NoRun /\ setRun[g][1] = -1 /\ setRun[g][2] = 0
    BY DEF Started, NoRun
  <2>2. ASSUME NEW c \in Chains PROVE scheduled[c] = 0 /\ Holders(c) = {}
    BY <2>1, ShapeAssumption DEF Started, Holders, Chains
  <2>3. Cardinality({}) = 0
    BY FS_EmptySet
  <2>4. \A c \in Chains, k \in RunIds : pos[c][k] = Identity
    BY DEF Started, PositionsRead
  <2> QED
    BY <2>1, <2>2, <2>3, <2>4 DEF LeaseInv
<1> QED
  BY <1>2, <1>3, <1>4

\* No rank of a set has renamed its files and another has not: the dumps agree.
LEMMA WholeSets ==
  ASSUME Types, AllIn, FilesInv, phase = "running",
         \A g \in Sets : ~HalfRenamed(g),
         NEW c \in Chains, NEW k \in RunIds
  PROVE  Agreed(c, k)
<1>1. CASE \A r \in Renaming : RunOf(r) # <<c, k>>
  BY <1>1 DEF FilesInv
<1>2. CASE \E r \in Renaming : RunOf(r) = <<c, k>>
  <2>1. PICK r \in Renaming : RunOf(r) = <<c, k>>
    BY <1>2
  <2> DEFINE g == SetOf(r)
  <2>2. r \in Ranks /\ pc[r] = "rename" /\ g \in Sets /\ r \in SetRanks(g)
    BY SeatIs DEF Renaming, SetRanks
  <2>3. PICK x \in Paths : SetIn(g, x)
    BY <2>2 DEF AllIn
  <2>4. x.own = <<c, k>>
    BY <2>1, <2>2, <2>3, RenamedRun
  <2>5. x.own[1] = c /\ x.own[2] = k
    BY <2>4
  <2>6. \A q \in SetRanks(g) : pc[q] = "rename"
    BY <2>2 DEF HalfRenamed
  <2>7. \A q \in SetRanks(g) : Slot(TaskOf(c, x.was[ChainRank(q)]), k) = x.old
    BY <2>2, <2>3, <2>5, <2>6 DEF SetIn, LeaveFiles
  <2>8. ASSUME NEW t \in ChainTasks(c) PROVE Slot(t, k) = x.old
    <3>1. PICK p \in Members : t = TaskOf(c, p)
      BY DEF ChainTasks
    <3>2. Path(x) /\ x.was \in [Members -> Members]
      BY <2>3 DEF SetIn, Paths
    <3>3. PICK i \in Members : x.was[i] = p
      BY <3>2 DEF Path, Permutation, Members
    <3> DEFINE q == g * ChainLen + i
    <3>4. q \in Ranks /\ SetOf(q) = g /\ ChainRank(q) = i
      BY <2>2, RankAt
    <3> HIDE DEF q
    <3>5. q \in SetRanks(g)
      BY <3>4 DEF SetRanks
    <3> QED
      BY <2>7, <3>1, <3>3, <3>4, <3>5
  <2> QED
    BY <2>8 DEF Agreed
<1> QED
  BY <1>1, <1>2

\* The program goes down.
LEMMA DownShared ==
  ASSUME phase' # "running", dump' = dump, \A c \in Chains, k \in RunIds : Agreed(c, k)
  PROVE  SharedInv'
<1>1. \A c, k : Agreed(c, k)' <=> Agreed(c, k)
  BY DEF Agreed, Slot
<1> QED
  BY <1>1 DEF SharedInv, FilesInv, RenameInv, LeaseInv

\* Nothing of the sets is touched.
LEMMA AllStill ==
  ASSUME AllIn, UNCHANGED masterVars, UNCHANGED slaveVars, UNCHANGED netVars, dump' = dump
  PROVE  AllIn'
<1>1. ASSUME NEW g \in Sets PROVE OtherSet(g)
  BY MasterStill DEF OtherSet, Still, slaveVars, netVars
<1> QED
  BY <1>1, OtherSetStays DEF AllIn

LEMMA CrashAll ==
  ASSUME Together, Types, AllIn, SharedInv, Crash
  PROVE  AllIn' /\ SharedInv'
<1>1. /\ phase = "running" /\ phase' = "crashed" /\ dump' = dump /\ UNCHANGED masterVars
      /\ UNCHANGED slaveVars /\ UNCHANGED netVars
      /\ \A g \in Sets : ~HalfRenamed(g)
  BY DEF Crash, Together
<1> QED
  BY <1>1, WholeSets, DownShared, AllStill DEF SharedInv

LEMMA FinalizeAll ==
  ASSUME Types, AllIn, SharedInv, Finalize
  PROVE  AllIn' /\ SharedInv'
<1>1. /\ phase = "running" /\ phase' = "ended" /\ dump' = dump /\ UNCHANGED masterVars
      /\ UNCHANGED slaveVars /\ UNCHANGED netVars /\ Renaming = {}
  BY DEF Finalize, Renaming
<1>2. \A c \in Chains, k \in RunIds : Agreed(c, k)
  BY <1>1 DEF SharedInv, FilesInv
<1> QED
  BY <1>1, <1>2, DownShared, AllStill

LEMMA RefuseAll ==
  ASSUME AllIn, SharedInv, Refuse
  PROVE  AllIn' /\ SharedInv'
<1>1. /\ phase # "running" /\ phase' = "refused" /\ dump' = dump /\ UNCHANGED masterVars
      /\ UNCHANGED slaveVars /\ UNCHANGED netVars
  BY DEF Refuse, fileVars
<1>2. \A c \in Chains, k \in RunIds : Agreed(c, k)
  BY <1>1 DEF SharedInv, FilesInv
<1> QED
  BY <1>1, <1>2, DownShared, AllStill

LEMMA RelaunchAll ==
  ASSUME SharedInv, Relaunch
  PROVE  AllIn' /\ SharedInv'
<1>1. AllIn' /\ RenameInv' /\ LeaseInv'
  BY RelaunchStarts, StartedIn, PTL
<1>2. phase # "running" /\ dump' = dump
  BY DEF Relaunch, fileVars
<1>3. \A c \in Chains, k \in RunIds : Agreed(c, k)
  BY <1>2 DEF SharedInv, FilesInv
<1>4. \A c, k : Agreed(c, k)' <=> Agreed(c, k)
  BY <1>2 DEF Agreed, Slot
<1>5. FilesInv'
  BY <1>3, <1>4 DEF FilesInv
<1> QED
  BY <1>1, <1>5 DEF SharedInv

LEMMA UntouchedShared ==
  ASSUME SharedInv, phase' = phase, UNCHANGED masterVars, UNCHANGED slaveVars, dump' = dump
  PROVE  SharedInv'
<1>1. Renaming' = Renaming /\ \A r : RunOf(r)' = RunOf(r)
  BY DEF Renaming, RunOf, slaveVars
<1>2. \A c, k : Agreed(c, k)' <=> Agreed(c, k)
  BY DEF Agreed, Slot
<1>3. FilesInv'
  BY <1>1, <1>2 DEF SharedInv, FilesInv
<1>4. RenameInv'
  BY <1>1 DEF SharedInv, RenameInv, masterVars, slaveVars
<1>5. LeaseInv'
  BY DEF SharedInv, LeaseInv, Holders, masterVars
<1> QED
  BY <1>3, <1>4, <1>5 DEF SharedInv

-----------------------------------------------------------------------------
(* The types, step by step.                                                *)

LEMMA WordsAre ==
  \A s \in {"accept", "merge", "action", "exited", "left", "swap", "exchange", "negotiate",
            "sweep", "response", "update_barrier", "write", "write_barrier", "rename",
            "fresh", "report", "timeup", "none", "continue", "checkpoint"} : s \in Words
BY DEF Words, Updating, Sweeping, Writing

TypesMaster ==
  /\ phase \in {"running", "ended", "crashed", "refused"}
  /\ setRun \in [Sets -> (Chains \X RunIds) \cup {NoRun}]
  /\ sweeps \in [Chains -> Nat] /\ scheduled \in [Chains -> Int]
  /\ current \in Chains \cup {NoTask}

TypesWork ==
  /\ pc \in [Ranks -> Words] /\ reason \in [Ranks -> Words]
  /\ task \in [Ranks -> Int] /\ run \in [Ranks -> Int] /\ partner \in [Ranks -> Int]
  /\ since \in [Ranks -> Nat] /\ before \in [Ranks -> Nat]
  /\ bcast \in [Ranks -> Words]

TypesNet ==
  toMaster = [r \in Ranks |-> toMaster[r]] /\ toSlave = [r \in Ranks |-> toSlave[r]]

TypesFiles ==
  /\ dump = [t \in Tasks |-> dump[t]] /\ meas = [t \in Tasks |-> meas[t]]
  /\ results = [t \in Tasks |-> results[t]]
  /\ \A t \in Tasks : RunFiles(dump[t], DumpFiles) /\ RunFiles(meas[t], Buffers)

LEMMA TypesAre ==
  Types <=> /\ TypesMaster /\ TypesWork /\ TypesNet /\ TypesFiles
            /\ sys \in [Ranks -> Simulations]
BY DEF Types, TypesMaster, TypesWork, TypesNet, TypesFiles

LEMMA TypesAfter ==
  ASSUME TypesMaster', TypesWork', TypesNet', TypesFiles', sys' \in [Ranks -> Simulations]
  PROVE  Types'
BY DEF Types, TypesMaster, TypesWork, TypesNet, TypesFiles

LEMMA TypesStay ==
  ASSUME Types
  PROVE  /\ phase' = phase /\ UNCHANGED masterVars => TypesMaster'
         /\ UNCHANGED slaveVars => TypesWork' /\ sys' \in [Ranks -> Simulations]
         /\ UNCHANGED netVars => TypesNet'
         /\ dump' = dump /\ meas' = meas /\ results' = results => TypesFiles'
<1>1. phase' = phase /\ UNCHANGED masterVars => TypesMaster'
  BY DEF Types, TypesMaster, masterVars
<1>2. UNCHANGED slaveVars => TypesWork' /\ sys' \in [Ranks -> Simulations]
  BY DEF Types, TypesWork, slaveVars
<1>3. UNCHANGED netVars => TypesNet'
  BY DEF Types, TypesNet, netVars
<1>4. dump' = dump /\ meas' = meas /\ results' = results => TypesFiles'
  BY DEF Types, TypesFiles
<1> QED
  BY <1>1, <1>2, <1>3, <1>4

\* The steps of a slave that touch neither its simulation nor files.
LEMMA PlainTypes ==
  ASSUME Types, NEW r \in Ranks,
         \/ Quit(r) \/ Respond(r) \/ KeepTask(r) \/ HearTimeout(r) \/ Negotiate(r)
         \/ WriteTemporary(r) \/ TakeAction(r) \/ MergeMeasurements(r)
  PROVE  Types'
<1>1. CASE Quit(r)
  <2>1. TypesWork' /\ TypesNet'
    <3>1. NoTask \in Int /\ 0 \in Nat /\ 0 \in Int
      BY DEF NoTask
    <3>2. /\ task' \in [Ranks -> Int] /\ run' \in [Ranks -> Int] /\ before' \in [Ranks -> Nat]
      BY <1>1, <3>1 DEF Quit, Types
    <3>3. pc' \in [Ranks -> Words] /\ TypesNet'
      BY <1>1, WordsAre DEF Quit, Takes, Pop, Goes, Types, TypesNet
    <3> QED
      BY <1>1, <3>2, <3>3 DEF Quit, Types, TypesWork
  <2>2. sys' = sys /\ phase' = phase /\ UNCHANGED masterVars /\ UNCHANGED fileVars
    BY <1>1 DEF Quit, launchVars
  <2> QED
    BY <2>1, <2>2, TypesStay, TypesAfter DEF Types, fileVars
<1>2. CASE Respond(r)
  <2>1. TypesWork' /\ TypesNet'
    BY <1>2, WordsAre DEF Respond, Takes, Pop, Goes, Types, TypesWork, TypesNet
  <2>2. sys' = sys /\ phase' = phase /\ UNCHANGED masterVars /\ UNCHANGED fileVars
    BY <1>2 DEF Respond, launchVars
  <2> QED
    BY <2>1, <2>2, TypesStay, TypesAfter DEF Types, fileVars
<1>3. CASE KeepTask(r)
  <2>0. Counted(r) \in Nat
    BY DEF Counted, Types
  <2>1. TypesWork' /\ TypesNet'
    BY <1>3, <2>0, WordsAre DEF KeepTask, Takes, Pop, Goes, Types, TypesWork, TypesNet
  <2>2. sys' = sys /\ phase' = phase /\ UNCHANGED masterVars /\ UNCHANGED fileVars
    BY <1>3 DEF KeepTask, launchVars
  <2> QED
    BY <2>1, <2>2, TypesStay, TypesAfter DEF Types, fileVars
<1>4. CASE HearTimeout(r)
  <2>1. TypesWork' /\ TypesNet'
    BY <1>4, WordsAre DEF HearTimeout, Obey, LoopHead, Goes, Types, TypesWork, TypesNet, netVars
  <2>2. sys' = sys /\ phase' = phase /\ UNCHANGED masterVars /\ UNCHANGED fileVars
    BY <1>4 DEF HearTimeout, launchVars
  <2> QED
    BY <2>1, <2>2, TypesStay, TypesAfter DEF Types, fileVars
<1>5. CASE Negotiate(r)
  <2>1. PICK result \in TimeoutResults :
          /\ bcast' = [q \in Ranks |-> IF q # r /\ SetOf(q) = SetOf(r) THEN result ELSE bcast[q]]
          /\ Obey(r, result)
    BY <1>5 DEF Negotiate
  <2>2. result \in Words
    BY WordsAre DEF TimeoutResults
  <2>3. bcast' \in [Ranks -> Words]
    BY <2>1, <2>2 DEF Types
  <2>4. pc' \in [Ranks -> Words] /\ reason' \in [Ranks -> Words]
    BY <2>1, WordsAre DEF Obey, LoopHead, Goes, Types
  <2>5. TypesWork' /\ TypesNet'
    BY <1>5, <2>3, <2>4 DEF Negotiate, Types, TypesWork, TypesNet, netVars
  <2>6. sys' = sys /\ phase' = phase /\ UNCHANGED masterVars /\ UNCHANGED fileVars
    BY <1>5 DEF Negotiate, launchVars
  <2> QED
    BY <2>5, <2>6, TypesStay, TypesAfter DEF Types, fileVars
<1>6. CASE WriteTemporary(r)
  <2>1. TypesWork' /\ TypesNet'
    BY <1>6, WordsAre DEF WriteTemporary, AfterWrite, Goes, Types, TypesWork, TypesNet, netVars
  <2>2. sys' = sys /\ phase' = phase /\ UNCHANGED masterVars /\ UNCHANGED fileVars
    BY <1>6 DEF WriteTemporary, launchVars
  <2> QED
    BY <2>1, <2>2, TypesStay, TypesAfter DEF Types, fileVars
<1>7. CASE TakeAction(r)
  <2>1. TypesWork' /\ TypesNet'
    BY <1>7, WordsAre DEF TakeAction, Takes, Pop, LoopHead, Goes, Types, TypesWork, TypesNet
  <2>2. sys' = sys /\ phase' = phase /\ UNCHANGED masterVars /\ UNCHANGED fileVars
    BY <1>7 DEF TakeAction, launchVars
  <2> QED
    BY <2>1, <2>2, TypesStay, TypesAfter DEF Types, fileVars
<1>8. CASE MergeMeasurements(r)
  <2>1. TypesWork' /\ TypesNet' /\ TypesFiles'
    BY <1>8, WordsAre DEF MergeMeasurements, Goes, Types, TypesWork, TypesNet, TypesFiles, netVars
  <2>2. sys' = sys /\ phase' = phase /\ UNCHANGED masterVars
    BY <1>8 DEF MergeMeasurements, launchVars
  <2> QED
    BY <2>1, <2>2, TypesStay, TypesAfter DEF Types
<1> QED
  BY <1>1, <1>2, <1>3, <1>4, <1>5, <1>6, <1>7, <1>8

\* The task and run in a job that is taken.
LEMMA JobTaken ==
  ASSUME Types, NEW r \in Ranks, NEW x \in Paths, SetIn(SetOf(r), x), AcceptNewChain(r)
  PROVE  LET m == Head(toSlave[r])
         IN  m.task \in Tasks /\ m.run \in RunIds /\ m.before \in Nat
             /\ m.task \in Int /\ m.run \in Int
<1> DEFINE g == SetOf(r)
           m == Head(toSlave[r])
<1>1. RankIn(r, x) /\ Path(x) /\ Seated(g, x)
  BY DEF SetIn, SetRanks
<1>2. pc[r] = "accept" /\ toSlave[r] # << >> /\ m.task >= 0
  BY DEF AcceptNewChain, Takes, At, HeadIs
<1>3. x.kind = "start" \/ (x.kind = "report" /\ x.act \in {"process", "new_job"})
  BY <1>1, <1>2, WhereIs DEF RankIn
<1>4. toSlave[r] = ToJob(r, x)
  BY <1>1, <1>2 DEF RankIn, Queue
<1>5. x.job # "none" /\ m = JobFor(r, x)
  BY <1>1, <1>2, <1>3, <1>4, JobNext
<1>6. x.job = "job"
  BY <1>2, <1>5 DEF JobFor, JobMsg, Paths, NoTask
<1>7. ChainAt(g) \in Chains /\ RunAt(g) \in RunIds /\ ChainRank(r) \in Members /\ g \in Sets
  BY <1>1, <1>6, RunIs, SeatIs DEF HasRun
<1>8. m.task = TaskOf(ChainAt(g), ChainRank(r)) /\ m.run = RunAt(g) /\ m.before = x.b
  BY <1>5, <1>6 DEF JobFor, JobMsg
<1>9. x.b \in Nat /\ RunAt(g) \in Int
  BY <1>7, ShapeAssumption DEF Paths, RunIds
<1> QED
  BY <1>7, <1>8, <1>9, TaskIs

LEMMA AcceptTypes ==
  ASSUME Types, NEW r \in Ranks, NEW x \in Paths, SetIn(SetOf(r), x), AcceptNewChain(r)
  PROVE  Types'
<1> DEFINE m == Head(toSlave[r])
<1>1. m.task \in Tasks /\ m.run \in RunIds /\ m.before \in Nat /\ m.task \in Int /\ m.run \in Int
  BY JobTaken
<1>2. TypesNet'
  BY DEF AcceptNewChain, Takes, Pop, Types, TypesNet
<1>3. TypesWork'
  BY <1>1, WordsAre DEF AcceptNewChain, LoopHead, Goes, Types, TypesWork
<1>4. sys' \in [Ranks -> Simulations]
  <2>1. Spgu[m.task] \in Nat \ {0} /\ NewSys(m.task) \in Simulations
    BY <1>1, JobAssumption DEF NewSys, Simulations, Buffers, NoBuf
  <2>2. CASE m.run \in DOMAIN dump[m.task]
    <3>1. dump[m.task][m.run] \in DumpFiles
      BY <1>1, <2>2 DEF Types, RunFiles
    <3>2. SweepOf(dump[m.task][m.run]) \in Nat
      BY <3>1 DEF DumpFiles, SweepOf
    <3>3. [NewSys(m.task) EXCEPT !.sweep = SweepOf(dump[m.task][m.run])] \in Simulations
      BY <2>1, <3>2 DEF Simulations
    <3> QED
      BY <2>2, <3>3 DEF AcceptNewChain, Types
  <2>3. CASE m.run \notin DOMAIN dump[m.task]
    BY <2>1, <2>3 DEF AcceptNewChain, Types
  <2> QED
    BY <2>2, <2>3
<1>5. phase' = phase /\ UNCHANGED masterVars /\ UNCHANGED fileVars
  BY DEF AcceptNewChain, launchVars
<1> QED
  BY <1>2, <1>3, <1>4, <1>5, TypesStay, TypesAfter DEF fileVars

LEMMA ChangeTaskTypes ==
  ASSUME Types, Together, NEW r \in Ranks, NEW x \in Paths, SetIn(SetOf(r), x), ChangeTask(r)
  PROVE  Types'
<1> DEFINE g == SetOf(r)
           i == ChainRank(r)
           m == Head(toSlave[r])
<1>1. pc[r] = "swap" /\ toSlave[r] # << >>
  BY DEF ChangeTask, Takes, HeadIs, At
<1>2. /\ RankIn(r, x) /\ Path(x) /\ x.kind = "update"
      /\ ChainAt(g) \in Chains /\ x.held[i] \in Members /\ i \in Members /\ g \in Sets
  BY <1>1, UpdatingIs, SeatIs DEF Updating
<1>3. toSlave[r] = ToFirst(r, x)
  BY <1>1, <1>2 DEF RankIn, Queue
<1>4. m = SwapFor(r, x.was, x.held)
  BY <1>1, <1>2, <1>3, FirstNext
<1>5. m.task \in Int
  BY <1>2, <1>4, TaskIs DEF SwapFor, SwapMsg
<1>6. m.partner \in Int
  <2>1. Permutation(x.was, ChainLen)
    BY <1>2 DEF Path
  <2>2. Partner(g, x.was, x.held, i) \in Ranks
    BY <1>2, <2>1, PartnerIs
  <2> QED
    BY <1>4, <2>2, ShapeAssumption DEF SwapFor, SwapMsg, Ranks
<1> HIDE DEF m
<1>7. TypesWork' /\ TypesNet'
  BY <1>5, <1>6, WordsAre DEF ChangeTask, Takes, Pop, Goes, Types, TypesWork, TypesNet, m
<1>8. sys' = sys /\ phase' = phase /\ UNCHANGED masterVars /\ UNCHANGED fileVars
  BY DEF ChangeTask, launchVars
<1> QED
  BY <1>7, <1>8, TypesStay, TypesAfter DEF Types, fileVars

LEMMA ExchangeTypes ==
  ASSUME Types, NEW r \in Ranks, NEW q \in Ranks, Exchange(r, q)
  PROVE  Types'
<1>1. Counted(r) \in Nat /\ Counted(q) \in Nat
  BY DEF Counted, Types
<1>2. TypesWork' /\ TypesNet'
  BY <1>1, WordsAre DEF Exchange, Types, TypesWork, TypesNet, netVars
<1>3. sys' \in [Ranks -> Simulations]
  <2>1. /\ sys \in [Ranks -> Simulations] /\ sys[r].buf \in Buffers /\ sys[q].buf \in Buffers
        /\ sys' = [sys EXCEPT ![r].buf = sys[q].buf, ![q].buf = sys[r].buf]
    BY DEF Exchange, Exchanged, Types, Simulations
  <2> QED
    BY <2>1 DEF Simulations
<1>4. phase' = phase /\ UNCHANGED masterVars /\ UNCHANGED fileVars
  BY DEF Exchange, launchVars
<1> QED
  BY <1>2, <1>3, <1>4, TypesStay, TypesAfter DEF fileVars

LEMMA SweepsTypes ==
  ASSUME Types, NEW r \in Ranks, NEW x \in Paths, SetIn(SetOf(r), x), Sweeps(r)
  PROVE  Types'
<1> DEFINE g == SetOf(r)
           i == ChainRank(r)
           new == (sys[r].sweep \div Spgu[task[r]] + 1) * Spgu[task[r]]
           measured == {j \in sys[r].sweep + 1 .. new :
                          Thermalized(j, sys[r].spgu, ChainOf(task[r]))}
           of == IF measured = {} THEN sys[r].buf.of ELSE sys[r].buf.of \cup {task[r]}
           n == sys[r].buf.n + Cardinality(measured)
<1>1. RankIn(r, x) /\ Path(x) /\ Seated(g, x) /\ pc[r] = "sweep"
  BY DEF SetIn, SetRanks, Sweeps, At
<1>2. x.way = "sweep" /\ HasRun(x)
  BY <1>1, WhereIs, RunThere DEF RankIn, Sweeping
<1>3. ChainAt(g) \in Chains /\ x.held[i] \in Members
  BY <1>1, <1>2, RunIs, SeatIs DEF Paths
<1>4. task[r] = TaskOf(ChainAt(g), x.held[i]) /\ task[r] \in Tasks
  BY <1>1, <1>3, TaskIs DEF RankIn, Works, Sweeping
<1>5. sys[r].sweep \in Nat /\ sys[r].buf \in Buffers /\ Spgu[task[r]] \in Nat \ {0}
  BY <1>4, JobAssumption DEF Types, Simulations
<1>6. new \in Nat
  <2> DEFINE a == sys[r].sweep
             b == Spgu[task[r]]
  <2>1. a \div b \in Nat
    <3> HIDE DEF a, b
    <3> QED
      BY <1>5, Divided DEF a, b
  <2> QED
    BY <1>5, <2>1
<1> HIDE DEF new
<1>7. IsFiniteSet(measured) /\ Cardinality(measured) \in Nat
  <2>0. sys[r].sweep + 1 \in Int /\ new \in Int
    BY <1>5, <1>6
  <2>1. IsFiniteSet(sys[r].sweep + 1 .. new)
    BY <2>0, FS_Interval
  <2>2. IsFiniteSet(measured)
    BY <2>1, FS_Subset
  <2> HIDE DEF measured
  <2> QED
    BY <2>2, FS_CardinalityType
<1>8. n \in Nat /\ of \in SUBSET Tasks
  BY <1>4, <1>5, <1>7 DEF Buffers
<1>9. sys' = [sys EXCEPT ![r].sweep = new, ![r].buf.n = n, ![r].buf.of = of]
  BY DEF Sweeps, new
<1> HIDE DEF n, of
<1>10. sys' \in [Ranks -> Simulations]
  <2>1. sys \in [Ranks -> Simulations]
    BY DEF Types
  <2>2. \A q \in Ranks : q # r => sys'[q] = sys[q]
    BY <1>9, <2>1
  <2>3. sys' = [q \in Ranks |-> sys'[q]]
    BY <1>9, <2>1
  <2>4. sys'[r] = [[[sys[r] EXCEPT !.sweep = new] EXCEPT !.buf.n = n] EXCEPT !.buf.of = of]
    BY <1>9, <2>1
  <2>5. sys[r] \in Simulations /\ sys[r].buf \in Buffers
    BY <2>1 DEF Simulations
  <2>6. sys'[r] \in Simulations
    BY <1>6, <1>8, <2>4, <2>5 DEF Simulations, Buffers
  <2> QED
    BY <2>1, <2>2, <2>3, <2>6
<1>11. TypesWork' /\ TypesNet'
  BY WordsAre DEF Sweeps, Goes, Push, Types, TypesWork, TypesNet
<1>12. phase' = phase /\ UNCHANGED masterVars /\ UNCHANGED fileVars
  BY DEF Sweeps, launchVars
<1> QED
  BY <1>10, <1>11, <1>12, TypesStay, TypesAfter DEF fileVars

LEMMA RenameTypes ==
  ASSUME Types, NEW r \in Ranks, NEW x \in Paths, SetIn(SetOf(r), x), pc[r] = "rename",
         RenameFiles(r), results' = results
  PROVE  TypesFiles' /\ sys' \in [Ranks -> Simulations]
<1> DEFINE t == task[r]
           k == run[r]
           old == IF k \in DOMAIN meas[t] THEN meas[t][k] ELSE NoBuf
           d == DumpOf(sys[r].sweep, Therm[ChainOf(t)] * sys[r].spgu)
           m == Appended(old, sys[r].buf)
<1>1. t \in Tasks /\ k \in RunIds
  BY RenamedRun
<1>2. /\ sys \in [Ranks -> Simulations] /\ sys[r].sweep \in Nat
      /\ sys[r].spgu \in Nat /\ sys[r].buf \in Buffers
  BY DEF Types, Simulations
<1>3. Therm[ChainOf(t)] \in Nat
  BY <1>1, ChainIs, JobAssumption
<1>4. d \in DumpFiles
  <2>1. Therm[ChainOf(t)] * sys[r].spgu \in Nat
    BY <1>2, <1>3
  <2> QED
    BY <1>2, <2>1 DEF DumpOf, AtMost, DumpFiles
<1>5. m \in Buffers
  <2>1. old \in Buffers
    BY <1>1 DEF Types, RunFiles, NoBuf, Buffers
  <2> HIDE DEF old
  <2> QED
    BY <1>2, <2>1 DEF Appended, Buffers
<1>6. /\ dump' = [dump EXCEPT ![t] = WriteRun(@, k, d)]
      /\ meas' = [meas EXCEPT ![t] = WriteRun(@, k, m)]
      /\ sys' = [sys EXCEPT ![r].buf = NoBuf]
  BY DEF RenameFiles
<1> HIDE DEF t, k, d, m
<1>7. sys' \in [Ranks -> Simulations]
  <2>1. NoBuf \in Buffers
    BY DEF NoBuf, Buffers
  <2> QED
    BY <1>2, <1>6, <2>1 DEF Simulations
<1>8. dump' = [q \in Tasks |-> dump'[q]] /\ meas' = [q \in Tasks |-> meas'[q]]
  BY <1>6 DEF Types
<1>9. ASSUME NEW q \in Tasks
      PROVE  RunFiles(dump'[q], DumpFiles) /\ RunFiles(meas'[q], Buffers)
  <2>1. RunFiles(dump[q], DumpFiles) /\ RunFiles(meas[q], Buffers)
    BY DEF Types
  <2>2. CASE q # t
    BY <1>6, <2>1, <2>2 DEF Types
  <2>3. CASE q = t
    <3>1. dump'[q] = WriteRun(dump[q], k, d) /\ meas'[q] = WriteRun(meas[q], k, m)
      BY <1>1, <1>6, <2>3 DEF Types
    <3>2. RunFiles(WriteRun(dump[q], k, d), DumpFiles)
      BY <1>1, <1>4, <2>1 DEF RunFiles, WriteRun
    <3>3. RunFiles(WriteRun(meas[q], k, m), Buffers)
      BY <1>1, <1>5, <2>1 DEF RunFiles, WriteRun
    <3> QED
      BY <3>1, <3>2, <3>3
  <2> QED
    BY <2>2, <2>3
<1>10. results' = [q \in Tasks |-> results'[q]]
  BY DEF Types
<1> QED
  BY <1>7, <1>8, <1>9, <1>10 DEF TypesFiles

LEMMA FinishTypes ==
  ASSUME Types, NEW r \in Ranks, NEW x \in Paths, SetIn(SetOf(r), x),
         FinishFirst(r) \/ FinishReport(r) \/ FinishTimeUp(r)
  PROVE  Types'
<1>1. pc[r] = "rename" /\ RenameFiles(r) /\ results' = results
  BY DEF FinishFirst, FinishReport, FinishTimeUp, At
<1>2. TypesFiles' /\ sys' \in [Ranks -> Simulations]
  BY <1>1, RenameTypes
<1>3. phase' = phase /\ UNCHANGED masterVars
  BY DEF FinishFirst, FinishReport, FinishTimeUp, launchVars
<1>4. CASE FinishFirst(r)
  <2>1. TypesWork' /\ TypesNet'
    BY <1>4, WordsAre DEF FinishFirst, LoopHead, Goes, Types, TypesWork, TypesNet, netVars
  <2> QED
    BY <1>2, <1>3, <2>1, TypesStay, TypesAfter
<1>5. CASE FinishReport(r)
  <2>1. TypesWork' /\ TypesNet'
    BY <1>5, WordsAre DEF FinishReport, Push, Goes, Types, TypesWork, TypesNet
  <2> QED
    BY <1>2, <1>3, <2>1, TypesStay, TypesAfter
<1>6. CASE FinishTimeUp(r)
  <2>1. TypesWork' /\ TypesNet'
    BY <1>6, WordsAre DEF FinishTimeUp, Push, Goes, Types, TypesWork, TypesNet
  <2> QED
    BY <1>2, <1>3, <2>1, TypesStay, TypesAfter
<1> QED
  BY <1>4, <1>5, <1>6

LEMMA SlaveTypes ==
  ASSUME Types, Together, AllIn, NEW r \in Ranks, SlaveStep(r)
  PROVE  Types'
<1>1. SetOf(r) \in Sets
  BY SeatIs
<1>2. PICK x \in Paths : SetIn(SetOf(r), x)
  BY <1>1 DEF AllIn
<1>3. CASE \/ Quit(r) \/ Respond(r) \/ KeepTask(r) \/ HearTimeout(r) \/ Negotiate(r)
           \/ WriteTemporary(r) \/ TakeAction(r) \/ MergeMeasurements(r)
  BY <1>3, PlainTypes
<1>4. CASE AcceptNewChain(r)
  BY <1>2, <1>4, AcceptTypes
<1>5. CASE Sweeps(r)
  BY <1>2, <1>5, SweepsTypes
<1>6. CASE ChangeTask(r)
  BY <1>2, <1>6, ChangeTaskTypes
<1>7. CASE \E q \in Ranks : Exchange(r, q)
  BY <1>7, ExchangeTypes
<1>8. CASE FinishFirst(r) \/ FinishReport(r) \/ FinishTimeUp(r)
  BY <1>2, <1>8, FinishTypes
<1> QED
  BY <1>3, <1>4, <1>5, <1>6, <1>7, <1>8 DEF SlaveStep

LEMMA PushIs ==
  ASSUME NEW ch, NEW g, NEW msgs
  PROVE  PushSet(ch, g, msgs) = [r \in Ranks |-> PushSet(ch, g, msgs)[r]]
BY DEF PushSet

LEMMA PopIs ==
  ASSUME NEW ch, ch = [r \in Ranks |-> ch[r]], NEW q
  PROVE  Pop(ch, q) = [r \in Ranks |-> Pop(ch, q)[r]]
<1>1. DOMAIN ch = Ranks
  OBVIOUS
<1> HIDE DEF Ranks
<1> QED
  BY <1>1 DEF Pop

\* A set is given another run, or none.
LEMMA AssignTypes ==
  ASSUME Types, SharedInv, phase = "running", phase' = phase, slaveVars' = slaveVars,
         NEW g \in Sets, NEW n \in [Chains -> Nat], sweeps' = n,
         NEW sch \in [Chains -> Int], NEW first, AssignNewChain(g, n, sch, first),
         \A d \in Chains : sch[d] = scheduled[d] - (IF d = setRun[g][1] THEN 1 ELSE 0),
         \A d \in Chains : ~IsDone(d, n[d]) => d # setRun[g][1] /\ ~IsDone(d, sweeps[d]),
         toMaster' = [r \in Ranks |-> toMaster'[r]],
         dump' = dump, meas' = meas, results' = results
  PROVE  Types'
<1> DEFINE c == GetNewTaskId(current, NChains, DoneChains(n))
           k == NextRun(sch[c])
<1>1. c \in Chains \cup {NoTask} /\ (c # NoTask => c \in Chains /\ ~IsDone(c, n[c]))
  BY NewChainIs
<1>2. \/ /\ c # NoTask /\ current' = c /\ scheduled' = [sch EXCEPT ![c] = k]
         /\ setRun' = [setRun EXCEPT ![g] = <<c, k>>]
      \/ /\ c = NoTask /\ current' = current /\ scheduled' = sch
         /\ setRun' = [setRun EXCEPT ![g] = NoRun]
  BY DEF AssignNewChain
<1>3. \E msgs : toSlave' = PushSet(toSlave, g, msgs)
  BY DEF AssignNewChain
<1> HIDE DEF c
<1>4. c # NoTask => c \in Chains /\ k \in RunIds /\ k \in Int
  <2> SUFFICES ASSUME c # NoTask PROVE c \in Chains /\ k \in RunIds /\ k \in Int
    OBVIOUS
  <2>1. c \in Chains /\ c # setRun[g][1] /\ ~IsDone(c, sweeps[c])
    BY <1>1
  <2>2. sch[c] = scheduled[c]
    BY <2>1 DEF Types
  <2>3. k \in RunIds
    BY <2>1, <2>2, NextRunFree DEF SharedInv
  <2> QED
    BY <2>1, <2>3, ShapeAssumption DEF RunIds
<1> HIDE DEF k
<1>5. TypesMaster'
  <2>1. setRun' \in [Sets -> (Chains \X RunIds) \cup {NoRun}]
    BY <1>2, <1>4 DEF Types
  <2>2. scheduled' \in [Chains -> Int] /\ current' \in Chains \cup {NoTask}
    BY <1>1, <1>2, <1>4 DEF Types
  <2> QED
    BY <2>1, <2>2 DEF TypesMaster, Types
<1>6. TypesNet'
  <2>1. toSlave' = [r \in Ranks |-> toSlave'[r]]
    BY <1>3, PushIs
  <2> QED
    BY <2>1 DEF TypesNet
<1>7. TypesWork' /\ sys' \in [Ranks -> Simulations] /\ TypesFiles'
  BY TypesStay
<1> QED
  BY <1>5, <1>6, <1>7, TypesAfter

LEMMA AssignFirstTypes ==
  ASSUME Types, AllIn, SharedInv, NEW g \in Sets, AssignFirst(g)
  PROVE  Types'
<1>1. PICK x \in Paths : SetIn(g, x)
  BY DEF AllIn
<1>2. /\ phase = "running" /\ phase' = phase /\ slaveVars' = slaveVars /\ dump' = dump
      /\ meas' = meas /\ results' = results /\ toMaster' = toMaster
      /\ sweeps' = sweeps /\ AssignNewChain(g, sweeps, scheduled, << >>)
  BY DEF AssignFirst, slaveVars, launchVars, fileVars
<1>3. setRun[g] = NoRun
  BY <1>1, AssignFirstKeeps DEF SharedInv
<1>4. \A d \in Chains : d # setRun[g][1] /\ scheduled[d] \in Int
  BY <1>3, ShapeAssumption DEF NoRun, Chains, Types
<1>5. /\ sweeps \in [Chains -> Nat] /\ scheduled \in [Chains -> Int]
      /\ \A d \in Chains : scheduled[d] = scheduled[d] - (IF d = setRun[g][1] THEN 1 ELSE 0)
      /\ \A d \in Chains : ~IsDone(d, sweeps[d]) => d # setRun[g][1] /\ ~IsDone(d, sweeps[d])
      /\ toMaster' = [r \in Ranks |-> toMaster'[r]]
  BY <1>2, <1>4 DEF Types
<1> QED
  BY <1>2, <1>5, AssignTypes

LEMMA ReactBusyTypes ==
  ASSUME Types, AllIn, SharedInv, NEW r \in Ranks, ReactBusy(r)
  PROVE  Types'
<1> DEFINE g == SetOf(r)
           c == setRun[g][1]
           n == [sweeps EXCEPT ![c] = @ + Head(toMaster[r]).sweeps]
<1>1. g \in Sets
  BY SeatIs
<1>2. PICK x \in Paths : SetIn(g, x)
  BY <1>1 DEF AllIn
<1>3. /\ phase = "running" /\ slaveVars' = slaveVars /\ dump' = dump
      /\ sweeps' = n /\ c \in Chains /\ n \in [Chains -> Nat]
      /\ \A d \in Chains : ~IsDone(d, n[d]) => ~IsDone(d, sweeps[d])
  BY <1>2, BusyIs
<1>4. phase' = phase /\ meas' = meas /\ results' = results
  BY DEF ReactBusy, launchVars
<1>5. toMaster' = [q \in Ranks |-> toMaster'[q]]
  BY DEF ReactBusy, Receives, Pop, Types
<1>6. CASE IsDone(c, n[c])
  <2> DEFINE left == scheduled[c] - 1
             sch == [scheduled EXCEPT ![c] = left]
             first == <<ActionMsg(LastVerdict(left))>>
  <2>1. AssignNewChain(g, n, sch, first)
    BY <1>6 DEF ReactBusy
  <2> HIDE DEF n
  <2>2. /\ sch \in [Chains -> Int]
        /\ \A d \in Chains : sch[d] = scheduled[d] - (IF d = c THEN 1 ELSE 0)
    BY <1>3 DEF Types
  <2>3. \A d \in Chains : ~IsDone(d, n[d]) => d # c /\ ~IsDone(d, sweeps[d])
    BY <1>3, <1>6
  <2> HIDE DEF sch, first
  <2> QED
    BY <1>1, <1>3, <1>4, <1>5, <2>1, <2>2, <2>3, AssignTypes
<1>7. CASE ~IsDone(c, n[c])
  <2>1. /\ toSlave' = PushSet(toSlave, g, [i \in Members |-> <<ActionMsg("continue")>>])
        /\ UNCHANGED <<numActive, scheduled, current, setRun, mdump>>
    BY <1>7 DEF ReactBusy
  <2>2. TypesMaster'
    BY <1>3, <1>4, <2>1 DEF Types, TypesMaster
  <2>3. TypesNet'
    BY <1>5, <2>1, PushIs DEF TypesNet
  <2>4. TypesWork' /\ sys' \in [Ranks -> Simulations] /\ TypesFiles'
    BY <1>3, <1>4, TypesStay
  <2> QED
    BY <2>2, <2>3, <2>4, TypesAfter
<1> QED
  BY <1>6, <1>7

LEMMA OtherMasterTypes ==
  ASSUME Types,
         \/ \E r \in Ranks : ReactReady(r) \/ ReactTimeUp(r)
         \/ \E g \in Sets : GlobalUpdate(g)
  PROVE  Types'
<1>1. /\ phase' = phase /\ UNCHANGED <<sweeps, scheduled, current, setRun>>
      /\ UNCHANGED slaveVars /\ UNCHANGED fileVars
  BY DEF ReactReady, ReactTimeUp, GlobalUpdate, Receives, launchVars
<1>2. TypesMaster'
  BY <1>1 DEF Types, TypesMaster
<1>3. TypesWork' /\ sys' \in [Ranks -> Simulations] /\ TypesFiles'
  BY <1>1, TypesStay DEF fileVars
<1>4. TypesNet'
  <2>1. ASSUME NEW r \in Ranks, ReactReady(r) PROVE TypesNet'
    <3>1. toMaster' = [q \in Ranks |-> toMaster'[q]]
      BY <2>1 DEF ReactReady, Receives, Pop, Types
    <3>2. \E g, msgs : toSlave' = PushSet(toSlave, g, msgs)
      BY <2>1 DEF ReactReady
    <3> QED
      BY <3>1, <3>2, PushIs DEF TypesNet
  <2>2. ASSUME NEW r \in Ranks, ReactTimeUp(r) PROVE TypesNet'
    BY <2>2, PopIs DEF ReactTimeUp, Receives, Types, TypesNet
  <2>3. ASSUME NEW g \in Sets, GlobalUpdate(g) PROVE TypesNet'
    <3>1. toMaster' = [q \in Ranks |-> toMaster'[q]]
      BY <2>3 DEF GlobalUpdate
    <3>2. \E msgs : toSlave' = PushSet(toSlave, g, msgs)
      BY <2>3 DEF GlobalUpdate
    <3> QED
      BY <3>1, <3>2, PushIs DEF TypesNet
  <2> QED
    BY <2>1, <2>2, <2>3
<1> QED
  BY <1>2, <1>3, <1>4, TypesAfter

LEMMA BarrierTypes ==
  ASSUME Types, NEW g \in Sets, Barrier(g)
  PROVE  Types'
<1>1. TypesWork' /\ TypesNet'
  BY WordsAre DEF Barrier, Types, TypesWork, TypesNet, netVars
<1>2. sys' = sys /\ phase' = phase /\ UNCHANGED masterVars /\ UNCHANGED fileVars
  BY DEF Barrier, launchVars
<1> QED
  BY <1>1, <1>2, TypesStay, TypesAfter DEF Types, fileVars

LEMMA DownTypes ==
  ASSUME Types, MasterCheckpoint \/ Finalize \/ Crash \/ Refuse
  PROVE  Types'
<1>1. /\ UNCHANGED masterVars /\ UNCHANGED slaveVars /\ UNCHANGED netVars
      /\ dump' = dump /\ meas' = meas
      /\ phase' \in {"running", "ended", "crashed", "refused"}
  BY DEF MasterCheckpoint, Finalize, Crash, Refuse, fileVars, launchVars, Types
<1>2. TypesMaster'
  BY <1>1 DEF Types, TypesMaster, masterVars
<1>3. results' = [t \in Tasks |-> results'[t]]
  BY DEF MasterCheckpoint, Finalize, Crash, Refuse, fileVars, Types
<1>4. TypesFiles'
  BY <1>1, <1>3 DEF Types, TypesFiles
<1> QED
  BY <1>1, <1>2, <1>4, TypesStay, TypesAfter

-----------------------------------------------------------------------------
(* Launching.                                                              *)

ProgressIn(t) == [k \in DOMAIN dump[t] |-> dump[t][k].sweeps]

LEMMA ReadProgressIs ==
  ASSUME NEW t \in Tasks, IsFiniteSet(DOMAIN dump[t])
  PROVE  ReadProgress(t) = Total(ProgressIn(t), DOMAIN dump[t]) \div Spgu[t]
<1> DEFINE S == DOMAIN dump[t]
           f == ProgressIn(t)
           e(j, s) == IF s = {} THEN 0 ELSE dump[t][Choice(s)].sweeps + j[s \ {Choice(s)}]
           d(j, s) == IF s = {} THEN 0 ELSE f[Choice(s)] + j[s \ {Choice(s)}]
           fold == CHOOSE j : j = [s \in SUBSET S |-> e(j, s)]
<1>1. ReadProgress(t) = fold[S] \div Spgu[t]
  BY DEF ReadProgress, MapThenSumSet, MapThenFoldSet, Choice
<1>2. \A j : \A s \in SUBSET S : e(j, s) = d(j, s)
  BY ChoiceIn DEF ProgressIn
<1>3. \A j : SumsOf(j, f, S) <=> j = [s \in SUBSET S |-> d(j, s)]
  BY DEF SumsOf
<1> HIDE DEF S, f, e, d
<1>4. \E j : SumsOf(j, f, S)
  BY SumsExist DEF S
<1>5. \A j : SumsOf(j, f, S) <=> j = [s \in SUBSET S |-> e(j, s)]
  <2>1. \A j : j = [s \in SUBSET S |-> d(j, s)] <=> j = [s \in SUBSET S |-> e(j, s)]
    BY <1>2
  <2> QED
    BY <1>3, <2>1
<1>6. SumsOf(fold, f, S)
  BY <1>4, <1>5
<1>7. fold[S] = Total(f, S)
  BY <1>6, TotalUnique DEF S
<1> QED
  BY <1>1, <1>7 DEF f, S

LEMMA RunsFinite ==
  ASSUME Types, NEW t \in Tasks
  PROVE  IsFiniteSet(DOMAIN dump[t]) /\ IsFiniteSet(RunIds)
<1>1. 1 \in Int /\ NSets \in Int
  BY ShapeAssumption
<1>2. IsFiniteSet(RunIds)
  BY <1>1, FS_Interval DEF RunIds
<1> QED
  BY <1>2, FS_Subset DEF Types, RunFiles

LEMMA ReadProgressNat ==
  ASSUME Types, NEW t \in Tasks
  PROVE  ReadProgress(t) \in Nat
<1> DEFINE f == ProgressIn(t)
           S == DOMAIN dump[t]
<1>1. IsFiniteSet(S)
  BY RunsFinite
<1>2. \A k \in S : f[k] \in Nat
  BY DEF Types, RunFiles, DumpFiles, ProgressIn
<1>3. ReadProgress(t) = Total(f, S) \div Spgu[t]
  BY <1>1, ReadProgressIs
<1> HIDE DEF f, S
<1>4. Total(f, S) \in Nat
  BY <1>1, <1>2, TotalIsNat
<1>5. Spgu[t] \in Nat \ {0}
  BY JobAssumption
<1> DEFINE m == Total(f, S)
           b == Spgu[t]
<1> HIDE DEF m, b
<1>6. m \in Nat /\ b \in Nat \ {0}
  BY <1>4, <1>5 DEF m, b
<1>7. m \div b \in Nat
  BY <1>6, Divided
<1> QED
  BY <1>3, <1>7 DEF m, b

LEMMA RelaunchTypes ==
  ASSUME Types, Relaunch
  PROVE  Types'
<1>1. \A c \in Chains : ReadProgress(TaskOf(c, 0)) \in Nat
  BY TaskIs, MembersAre, ReadProgressNat
<1>2. TypesMaster'
  BY <1>1 DEF Relaunch, Start, TypesMaster, NoTask, NoRun
<1>3. TypesWork'
  <2>1. NoTask \in Int /\ -1 \in Int /\ \A r \in Ranks : r \in Int
    BY ShapeAssumption DEF NoTask, Ranks
  <2> QED
    BY <2>1, WordsAre DEF Relaunch, Start, TypesWork
<1>4. TypesNet'
  BY DEF Relaunch, Start, TypesNet
<1>5. sys' \in [Ranks -> Simulations]
  <2>1. [sweep |-> 0, spgu |-> 1, buf |-> NoBuf] \in Simulations
    BY DEF Simulations, Buffers, NoBuf
  <2> QED
    BY <2>1 DEF Relaunch, Start
<1>6. TypesFiles'
  BY TypesStay DEF Relaunch, fileVars
<1> QED
  BY <1>2, <1>3, <1>4, <1>5, <1>6, TypesAfter

LEMMA InitTypes == Init => Types
<1> SUFFICES ASSUME Init PROVE Types
  OBVIOUS
<1>1. TypesMaster
  BY DEF Init, TypesMaster, NoTask, NoRun
<1>2. TypesWork
  <2>1. NoTask \in Int /\ -1 \in Int /\ \A r \in Ranks : r \in Int
    BY ShapeAssumption DEF NoTask, Ranks
  <2> QED
    BY <2>1, WordsAre DEF Init, TypesWork
<1>3. TypesNet
  BY DEF Init, TypesNet
<1>4. sys \in [Ranks -> Simulations]
  <2>1. [sweep |-> 0, spgu |-> 1, buf |-> NoBuf] \in Simulations
    BY DEF Simulations, Buffers, NoBuf
  <2> QED
    BY <2>1 DEF Init
<1>5. TypesFiles
  BY DEF Init, TypesFiles, RunFiles, NoRuns
<1> QED
  BY <1>1, <1>2, <1>3, <1>4, <1>5, TypesAre

-----------------------------------------------------------------------------
(* The invariant.                                                          *)

SetInv ==
  Types /\ PosInv /\ SharedInv /\ AllIn

LEMMA SetInvInit == Init => SetInv
<1> SUFFICES ASSUME Init PROVE SetInv
  OBVIOUS
<1>1. Types /\ PosInv /\ AllIn /\ RenameInv /\ LeaseInv
  BY InitTypes, PosInvInit, InitStarts, StartedIn
<1>2. FilesInv
  BY ChainTasksAre DEF Init, FilesInv, Agreed, Slot
<1> QED
  BY <1>1, <1>2 DEF SetInv, SharedInv

LEMMA SlaveRuns ==
  ASSUME NEW r \in Ranks, SlaveStep(r)
  PROVE  phase = "running"
BY DEF SlaveStep, Quit, AcceptNewChain, Sweeps, Respond, KeepTask, ChangeTask, Exchange,
       Negotiate, HearTimeout, WriteTemporary, FinishFirst, FinishReport, FinishTimeUp,
       TakeAction, MergeMeasurements, Takes, At

LEMMA SetInvNext == Together /\ SetInv /\ [Next]_vars => SetInv'
<1> SUFFICES ASSUME Together, SetInv, [Next]_vars PROVE SetInv'
  OBVIOUS
<1>1. Types /\ PosInv /\ SharedInv /\ AllIn /\ PosInv'
  BY PosInvNext DEF SetInv
<1>2. CASE \E g \in Sets : AssignFirst(g)
  <2>1. phase = "running"
    BY <1>2 DEF AssignFirst
  <2> QED
    BY <1>1, <1>2, <2>1, AssignFirstAll, AssignFirstTypes DEF SetInv
<1>3. CASE \E g \in Sets : GlobalUpdate(g)
  <2>1. phase = "running"
    BY <1>3 DEF GlobalUpdate
  <2> QED
    BY <1>1, <1>3, <2>1, GlobalUpdateAll, OtherMasterTypes DEF SetInv
<1>4. CASE \E r \in Ranks : ReactBusy(r)
  <2>1. phase = "running"
    BY <1>4 DEF ReactBusy, Receives
  <2> QED
    BY <1>1, <1>4, <2>1, ReactBusyAll, ReactBusyTypes DEF SetInv
<1>5. CASE \E r \in Ranks : ReactReady(r)
  <2>1. phase = "running"
    BY <1>5 DEF ReactReady, Receives
  <2> QED
    BY <1>1, <1>5, <2>1, ReactReadyAll, OtherMasterTypes DEF SetInv
<1>6. CASE \E r \in Ranks : ReactTimeUp(r)
  <2>1. phase = "running"
    BY <1>6 DEF ReactTimeUp, Receives
  <2> QED
    BY <1>1, <1>6, <2>1, ReactTimeUpAll, OtherMasterTypes DEF SetInv
<1>7. CASE MasterCheckpoint
  <2>1. /\ phase = "running" /\ phase' = phase /\ UNCHANGED masterVars
        /\ UNCHANGED slaveVars /\ UNCHANGED netVars /\ dump' = dump
    BY <1>7 DEF MasterCheckpoint, launchVars
  <2> QED
    BY <1>1, <1>7, <2>1, AllStill, UntouchedShared, DownTypes DEF SetInv
<1>8. CASE Finalize
  <2>1. phase = "running"
    BY <1>8 DEF Finalize
  <2> QED
    BY <1>1, <1>8, <2>1, FinalizeAll, DownTypes DEF SetInv
<1>9. CASE \E r \in Ranks : SlaveStep(r)
  <2>1. phase = "running"
    BY <1>9, SlaveRuns
  <2> QED
    BY <1>1, <1>9, <2>1, SlaveKeepsAll, SlaveTypes DEF SetInv
<1>10. CASE \E g \in Sets : Barrier(g)
  <2>1. phase = "running"
    BY <1>10 DEF Barrier
  <2> QED
    BY <1>1, <1>10, <2>1, BarrierAll, BarrierTypes DEF SetInv
<1>11. CASE Crash
  <2>1. phase = "running"
    BY <1>11 DEF Crash
  <2> QED
    BY <1>1, <1>11, <2>1, CrashAll, DownTypes DEF SetInv
<1>12. CASE Relaunch
  BY <1>1, <1>12, RelaunchAll, RelaunchTypes DEF SetInv
<1>13. CASE Refuse
  BY <1>1, <1>13, RefuseAll, DownTypes DEF SetInv
<1>14. CASE UNCHANGED vars
  <2>1. /\ phase' = phase /\ UNCHANGED masterVars /\ UNCHANGED slaveVars
        /\ UNCHANGED netVars /\ dump' = dump /\ meas' = meas /\ results' = results
    BY <1>14 DEF vars, launchVars, fileVars
  <2>2. Types'
    BY <1>1, <2>1, TypesStay, TypesAfter
  <2> QED
    BY <1>1, <2>1, <2>2, AllStill, UntouchedShared DEF SetInv
<1> QED
  BY <1>2, <1>3, <1>4, <1>5, <1>6, <1>7, <1>8, <1>9, <1>10, <1>11, <1>12, <1>13, <1>14
  DEF Next, MasterStep, Stopped

\* For every number of chains, sets and ranks in a set, the ranks of each set
\* go through the protocol of runner_pt.cpp in step: together with the tables
\* of the master this is the invariant that the other theorems rest on.
THEOREM SetsInStep == Together => (Spec => []SetInv)
<1>1. ASSUME Together PROVE Spec => []SetInv
  <2>1. SetInv /\ [Next]_vars => SetInv'
    BY <1>1, SetInvNext
  <2> QED
    BY <2>1, SetInvInit, PTL DEF Spec
<1> QED
  BY <1>1
=============================================================================
