--------------------------- MODULE PtChainsProofs ---------------------------
(* Which jobs construct_pt_chains accepts, for any number of tasks, chains *)
(* and positions.                                                          *)
EXTENDS PtChains, FiniteSetTheorems, SequenceTheorems, TLAPS

-----------------------------------------------------------------------------
(* The vectors.                                                            *)

Chains == [id : Nat, taskIds : Seq(Int), set : Settings \cup {Unset}]

LEMMA Resizing ==
  ASSUME NEW S, NEW s \in Seq(S), NEW n \in Nat, NEW filler \in S
  PROVE  /\ ResizedTo(s, n, filler) \in Seq(S)
         /\ Len(ResizedTo(s, n, filler)) = Larger(n, Len(s))
         /\ \A i \in 1 .. Larger(n, Len(s)) :
              ResizedTo(s, n, filler)[i] = IF i <= Len(s) THEN s[i] ELSE filler
<1> DEFINE m == Larger(n, Len(s))
           e(i) == IF i <= Len(s) THEN s[i] ELSE filler
           t == [i \in 1 .. m |-> e(i)]
<1>1. m \in Nat
  BY LenProperties DEF Larger
<1>2. \A i \in 1 .. m : e(i) \in S
  BY LenProperties, ElementOfSeq
<1>3. t \in Seq(S)
  <2> HIDE DEF m, e
  <2> QED
    BY <1>1, <1>2, IsASeq
<1>4. Len(t) = m
  <2>1. Len(t) \in Nat /\ DOMAIN t = 1 .. Len(t)
    BY <1>3, LenProperties
  <2>2. DOMAIN t = 1 .. m
    OBVIOUS
  <2> HIDE DEF t, m
  <2>3. 1 .. m = 1 .. Len(t)
    BY <2>1, <2>2
  <2> QED
    <3>1. Cardinality(1 .. m) = m
      BY <1>1, FS_Interval
    <3>2. Cardinality(1 .. Len(t)) = Len(t)
      <4> DEFINE k == Len(t)
      <4>1. k \in Nat
        BY <2>1
      <4> HIDE DEF k
      <4>2. Cardinality(1 .. k) = k
        BY <4>1, FS_Interval
      <4> QED
        BY <4>2 DEF k
    <3> QED
      BY <2>3, <3>1, <3>2
<1>5. ResizedTo(s, n, filler) = t
  BY DEF ResizedTo
<1>6. \A i \in 1 .. m : t[i] = e(i)
  OBVIOUS
<1> HIDE DEF t
<1> QED
  BY <1>3, <1>4, <1>5, <1>6

LEMMA ResizedAt ==
  ASSUME NEW S, NEW s \in Seq(S), NEW n \in Nat, NEW filler \in S,
         NEW p \in 1 .. Larger(n, Len(s))
  PROVE  ResizedTo(s, n, filler)[p] = IF p <= Len(s) THEN s[p] ELSE filler
BY DEF ResizedTo

\* The chain that entry e belongs to, as it is before.
OldChain(e) ==
  IF e.chain + 1 <= Len(chains) THEN chains[e.chain + 1] ELSE NewChain

Sensible(e) == e.chain >= 0 /\ e.pos >= 0

LEMMA Entry ==
  ASSUME NEW e \in Entries
  PROVE  e.chain \in Int /\ e.pos \in Int /\ e.set \in Settings
BY ChainsAssumption DEF Entries

LEMMA NewIsChain == NewChain \in Chains /\ ChainLen(NewChain) = 0
<1>1. << >> \in Seq(Int) /\ Len(<< >>) = 0
  BY EmptySeq
<1> QED
  BY <1>1 DEF NewChain, Chains, ChainLen

LEMMA OldIsChain ==
  ASSUME chains \in Seq(Chains), NEW e \in Entries, Sensible(e)
  PROVE  OldChain(e) \in Chains
<1>1. CASE e.chain + 1 <= Len(chains)
  BY <1>1, Entry, ElementOfSeq, LenProperties DEF OldChain, Sensible
<1>2. CASE ~(e.chain + 1 <= Len(chains))
  BY <1>2, NewIsChain DEF OldChain
<1> QED
  BY <1>1, <1>2

\* Extended(e): only the chain of e may get longer, and chains before it be made.
LEMMA Extending ==
  ASSUME chains \in Seq(Chains), NEW e \in Entries, Sensible(e)
  PROVE  /\ Extended(e) \in Seq(Chains)
         /\ Len(Extended(e)) = Larger(e.chain + 1, Len(chains))
         /\ Extended(e)[e.chain + 1] =
              [ id |-> e.chain,
                taskIds |-> ResizedTo(OldChain(e).taskIds, e.pos + 1, Nobody),
                set |-> OldChain(e).set ]
         /\ \A c \in 1 .. Larger(e.chain + 1, Len(chains)) : c # e.chain + 1 =>
              Extended(e)[c] = IF c <= Len(chains) THEN chains[c] ELSE NewChain
<1> DEFINE n == e.chain + 1
           cs == ResizedTo(chains, n, NewChain)
           ids == ResizedTo(OldChain(e).taskIds, e.pos + 1, Nobody)
           new == [id |-> e.chain, taskIds |-> ids, set |-> OldChain(e).set]
<1>1. n \in Nat \ {0} /\ e.pos + 1 \in Nat /\ Len(chains) \in Nat /\ e.chain \in Nat
  BY Entry, LenProperties DEF Sensible
<1>2. /\ cs \in Seq(Chains) /\ Len(cs) = Larger(n, Len(chains))
      /\ \A c \in 1 .. Larger(n, Len(chains)) :
           cs[c] = IF c <= Len(chains) THEN chains[c] ELSE NewChain
  <2>1. n \in Nat /\ NewChain \in Chains /\ chains \in Seq(Chains)
    BY <1>1, NewIsChain
  <2> HIDE DEF n
  <2>2. /\ ResizedTo(chains, n, NewChain) \in Seq(Chains)
        /\ Len(ResizedTo(chains, n, NewChain)) = Larger(n, Len(chains))
    BY <2>1, Resizing
  <2>3. \A c \in 1 .. Larger(n, Len(chains)) :
          ResizedTo(chains, n, NewChain)[c] = IF c <= Len(chains) THEN chains[c] ELSE NewChain
    BY <2>1, Resizing
  <2> QED
    BY <2>2, <2>3
<1>3. n \in 1 .. Len(cs) /\ cs[n] = OldChain(e)
  BY <1>1, <1>2 DEF OldChain, Larger
<1>4. OldChain(e) \in Chains
  BY OldIsChain
<1>5. ids \in Seq(Int)
  <2>1. e.pos + 1 \in Nat /\ OldChain(e).taskIds \in Seq(Int) /\ Nobody \in Int
    BY <1>1, <1>4 DEF Chains, Nobody
  <2> DEFINE k == e.pos + 1
             ts == OldChain(e).taskIds
  <2>2. k \in Nat /\ ts \in Seq(Int) /\ Nobody \in Int
    BY <2>1
  <2> HIDE DEF k, ts
  <2>3. ResizedTo(ts, k, Nobody) \in Seq(Int)
    BY <2>2, Resizing
  <2> QED
    BY <2>3 DEF k, ts
<1>6. new \in Chains
  BY <1>1, <1>4, <1>5 DEF Chains
<1>7. Extended(e) = [cs EXCEPT ![n] = new]
  <2>1. OldChain(e) = [id |-> OldChain(e).id, taskIds |-> OldChain(e).taskIds,
                       set |-> OldChain(e).set]
    BY <1>4 DEF Chains
  <2> DEFINE mid == [id |-> e.chain, taskIds |-> OldChain(e).taskIds, set |-> OldChain(e).set]
             half == [cs EXCEPT ![n].id = e.chain]
  <2>2. [OldChain(e) EXCEPT !.id = e.chain] = mid
    BY <2>1
  <2>3. [mid EXCEPT !.taskIds = ids] = new
    <3> HIDE DEF ids
    <3> QED
      OBVIOUS
  <2> HIDE DEF mid, ids, new, cs
  <2>4. cs \in [1 .. Len(cs) -> Chains] /\ n \in DOMAIN cs
    BY <1>2, <1>3, LenProperties
  <2>5. half = [cs EXCEPT ![n] = mid]
    BY <1>3, <2>2
  <2>6. half[n] = mid
    BY <2>4, <2>5
  <2>7. [half EXCEPT ![n].taskIds = ids] = [half EXCEPT ![n] = new]
    <3> HIDE DEF half
    <3> QED
      BY <2>3, <2>6
  <2>8. Extended(e) = [half EXCEPT ![n].taskIds = ids]
    <3>1. mid.taskIds = OldChain(e).taskIds
      BY DEF mid
    <3> HIDE DEF half
    <3>2. [half EXCEPT ![n].taskIds = ids]
            = [half EXCEPT ![n].taskIds = ResizedTo(@, e.pos + 1, Nobody)]
      BY <2>6, <3>1 DEF ids
    <3> QED
      BY <3>2 DEF Extended, half, cs
  <2> QED
    BY <2>4, <2>5, <2>7, <2>8
<1> HIDE DEF cs, new
<1>8. /\ Extended(e) \in Seq(Chains) /\ Len(Extended(e)) = Len(cs)
      /\ \A c \in 1 .. Len(cs) : Extended(e)[c] = IF c = n THEN new ELSE cs[c]
  BY <1>2, <1>3, <1>6, <1>7, ExceptSeq
<1> QED
  BY <1>2, <1>3, <1>8 DEF new

-----------------------------------------------------------------------------
(* The inductive invariant: the chains hold the tasks gone through, each at *)
(* the place its entry names, and nothing else.                            *)

Place(c, p) == chains[c].taskIds[p]

\* Task i is where its entry says, in a chain with its setting.
AtItsPlace(i) ==
  /\ Sensible(job[i])
  /\ job[i].chain + 1 <= Len(chains)
  /\ job[i].pos + 1 <= ChainLen(chains[job[i].chain + 1])
  /\ Place(job[i].chain + 1, job[i].pos + 1) = i - 1
  /\ chains[job[i].chain + 1].set = job[i].set

\* Position p of chain c is free or has a task that asked for it.
Asked(c, p) ==
  \/ Place(c, p) = Nobody
  \/ \E i \in Tasks : job[i].chain + 1 = c /\ job[i].pos + 1 = p /\ Place(c, p) = i - 1

\* The last of the positions made is there because a task asked for it.
LastAsked(c) ==
  ChainLen(chains[c]) > 0 =>
    \E i \in Tasks : job[i].chain + 1 = c /\ job[i].pos + 1 = ChainLen(chains[c])

\* A setting comes from a task of the chain.
SetAsked(c) ==
  \/ chains[c].set = Unset
  \/ \E i \in Tasks : job[i].chain + 1 = c /\ job[i].set = chains[c].set

Placed ==
  /\ chains \in Seq(Chains)
  /\ \A i \in Tasks : AtItsPlace(i)
  /\ \A c \in 1 .. Len(chains) :
       /\ \A p \in 1 .. ChainLen(chains[c]) : Asked(c, p)
       /\ LastAsked(c) /\ SetAsked(c)
  /\ Len(chains) > 0 => \E i \in Tasks : job[i].chain + 1 = Len(chains)

\* A job is refused by a throw at its last entry or by the checks at the end.
ChainsInv ==
  /\ ranks \in Nat \ {0} /\ job \in Seq(Entries)
  /\ verdict \in {"reading", "accepted", "refused"}
  /\ verdict = "reading" => Placed
  /\ verdict = "accepted" => Placed /\ ChainsFit
  /\ verdict = "refused" => (Placed /\ ~ChainsFit) \/ ~Sound

LEMMA ChainsInvInit == Init => ChainsInv
<1> SUFFICES ASSUME Init PROVE ChainsInv
  OBVIOUS
<1>1. /\ job \in Seq(Entries) /\ chains \in Seq(Chains)
      /\ Len(chains) = 0 /\ Len(job) = 0 /\ DOMAIN job = {}
  BY EmptySeq DEF Init
<1>2. Placed
  BY <1>1 DEF Placed, Tasks
<1> QED
  BY <1>1, <1>2, ChainsAssumption DEF Init, ChainsInv

\* What is said of the tasks when one more is read.
LEMMA OneMore ==
  ASSUME job \in Seq(Entries), NEW e \in Entries, job' = Append(job, e)
  PROVE  /\ job' \in Seq(Entries)
         /\ Tasks = 1 .. Len(job) /\ Tasks' = 1 .. Len(job) + 1 /\ Len(job) \in Nat
         /\ \A i \in Tasks : job'[i] = job[i]
         /\ job'[Len(job) + 1] = e
         /\ Len(job') = Len(job) + 1
BY DEF Tasks

\* The entry fits: its task is put at a free place.
LEMMA PutKeeps ==
  ASSUME ChainsInv, verdict = "reading", NEW e \in Entries, ~Throws(e), ReadTask(e)
  PROVE  Placed'
<1> DEFINE n == e.chain + 1
           q == e.pos + 1
           ex == Extended(e)
           ids == ResizedTo(OldChain(e).taskIds, q, Nobody)
<1>1. Placed /\ job \in Seq(Entries) /\ chains \in Seq(Chains)
  BY DEF ChainsInv, Placed
<1>2. Sensible(e)
  BY Entry DEF Throws, Sensible
<1>3. n \in Nat \ {0} /\ q \in Nat \ {0} /\ Len(chains) \in Nat
  BY <1>1, <1>2, Entry, LenProperties DEF Sensible
<1>4. OldChain(e) \in Chains /\ OldChain(e).taskIds \in Seq(Int)
  BY <1>1, <1>2, OldIsChain DEF Chains
<1>5. /\ ids \in Seq(Int) /\ Len(ids) = Larger(q, ChainLen(OldChain(e)))
      /\ \A p \in 1 .. Len(ids) :
           ids[p] = IF p <= ChainLen(OldChain(e)) THEN OldChain(e).taskIds[p] ELSE Nobody
      /\ ChainLen(OldChain(e)) \in Nat
  <2> DEFINE ts == OldChain(e).taskIds
  <2>1. ts \in Seq(Int) /\ q \in Nat /\ Nobody \in Int
    BY <1>3, <1>4 DEF Nobody
  <2> DEFINE S == Int
  <2>5. ts \in Seq(S) /\ Nobody \in S
    BY <2>1
  <2> HIDE DEF ts, q, S
  <2>2. /\ ResizedTo(ts, q, Nobody) \in Seq(Int)
        /\ Len(ResizedTo(ts, q, Nobody)) = Larger(q, Len(ts))
    BY <2>1, Resizing
  <2>3. \A p \in 1 .. Larger(q, Len(ts)) :
          ResizedTo(ts, q, Nobody)[p] = IF p <= Len(ts) THEN ts[p] ELSE Nobody
    BY <2>1, <2>5, Resizing
  <2>4. Len(ts) \in Nat
    BY <2>1, LenProperties
  <2> QED
    BY <2>2, <2>3, <2>4 DEF ts, ChainLen
<1>6. /\ ex \in Seq(Chains) /\ Len(ex) = Larger(n, Len(chains))
      /\ ex[n] = [id |-> e.chain, taskIds |-> ids, set |-> OldChain(e).set]
      /\ \A c \in 1 .. Len(ex) : c # n =>
           ex[c] = IF c <= Len(chains) THEN chains[c] ELSE NewChain
  BY <1>1, <1>2, Extending
<1>7. ids[q] = Nobody /\ ~Disagrees(OldChain(e).set, e.set)
  BY <1>2, <1>6, Entry DEF Throws, Sensible, Taken
<1> DEFINE new == [id |-> e.chain, taskIds |-> [ids EXCEPT ![q] = Len(job)], set |-> e.set]
<1> HIDE DEF ids, ex
<1>8. chains' = [ex EXCEPT ![n] = new]
  <2> DEFINE mid == [id |-> e.chain, taskIds |-> [ids EXCEPT ![q] = Len(job)],
                     set |-> OldChain(e).set]
             half == [ex EXCEPT ![n].taskIds[q] = Len(job)]
  <2>1. chains' = [half EXCEPT ![n].set = e.set]
    BY DEF ReadTask, ex
  <2>2. ex \in [1 .. Len(ex) -> Chains] /\ n \in DOMAIN ex
    BY <1>3, <1>6, LenProperties DEF Larger
  <2>3. [ex[n] EXCEPT !.taskIds[q] = Len(job)] = mid
    BY <1>6
  <2>4. half = [ex EXCEPT ![n] = mid]
    BY <2>3
  <2>5. half[n] = mid
    BY <2>2, <2>4
  <2>6. [mid EXCEPT !.set = e.set] = new
    OBVIOUS
  <2> HIDE DEF mid, new
  <2>7. [half EXCEPT ![n].set = e.set] = [half EXCEPT ![n] = new]
    <3> HIDE DEF half
    <3> QED
      BY <2>5, <2>6
  <2> QED
    BY <2>1, <2>2, <2>4, <2>7
<1>9. Len(job) \in Nat /\ Len(job) \in Int
  BY <1>1, LenProperties
<1>10. q \in 1 .. Len(ids) /\ n \in 1 .. Len(ex)
  BY <1>3, <1>5, <1>6 DEF Larger
<1> DEFINE put == [ids EXCEPT ![q] = Len(job)]
<1>11. /\ put \in Seq(Int) /\ Len(put) = Len(ids)
       /\ \A p \in 1 .. Len(ids) : put[p] = IF p = q THEN Len(job) ELSE ids[p]
  <2> HIDE DEF q
  <2> QED
    BY <1>5, <1>9, <1>10, ExceptSeq
<1>12. new \in Chains
  BY <1>2, <1>3, <1>11, Entry DEF Chains, Sensible
<1>13. /\ chains' \in Seq(Chains) /\ Len(chains') = Len(ex)
       /\ chains'[n] = new
       /\ \A c \in 1 .. Len(ex) : c # n => chains'[c] = ex[c]
  <2> HIDE DEF n, new
  <2> QED
    BY <1>6, <1>8, <1>10, <1>12, ExceptSeq
<1> DEFINE k == Len(job) + 1
<1>14. /\ Tasks = 1 .. Len(job) /\ Tasks' = 1 .. k
       /\ \A i \in Tasks : job'[i] = job[i] /\ job[i] \in Entries
       /\ job'[k] = e
  BY <1>1, OneMore, ElementOfSeq DEF ReadTask
<1>15. /\ chains'[n].taskIds = put /\ ChainLen(chains'[n]) = Larger(q, ChainLen(OldChain(e)))
       /\ chains'[n].set = e.set
  BY <1>5, <1>11, <1>13 DEF ChainLen
<1>16. \A c \in 1 .. Len(chains) : /\ c # n => chains'[c] = chains[c]
                                   /\ c = n => OldChain(e) = chains[c]
                                   /\ c \in 1 .. Len(chains')
  BY <1>3, <1>6, <1>13 DEF OldChain, Larger
<1>17. ASSUME n \notin 1 .. Len(chains)
       PROVE  OldChain(e) = NewChain /\ ChainLen(OldChain(e)) = 0 /\ OldChain(e).set = Unset
  BY <1>3, <1>17, NewIsChain DEF OldChain, NewChain
<1>18. \A i \in Tasks' : AtItsPlace(i)'
  <2> SUFFICES ASSUME NEW i \in Tasks' PROVE AtItsPlace(i)'
    OBVIOUS
  <2>1. CASE i = k
    <3>1. Sensible(e) /\ n <= Len(chains') /\ q <= ChainLen(chains'[n])
      BY <1>2, <1>3, <1>5, <1>10, <1>13, <1>15 DEF Larger
    <3>2. put[q] = k - 1
      BY <1>9, <1>10, <1>11
    <3> QED
      BY <1>14, <1>15, <2>1, <3>1, <3>2 DEF AtItsPlace, Place, Sensible
  <2>2. CASE i # k
    <3>1. i \in Tasks /\ i \in 1 .. Len(job)
      BY <1>9, <1>14, <2>2
    <3>2. AtItsPlace(i) /\ job'[i] = job[i] /\ job[i] \in Entries
      BY <1>1, <1>14, <3>1 DEF Placed
    <3> DEFINE c == job[i].chain + 1
               p == job[i].pos + 1
    <3>3. /\ c \in 1 .. Len(chains) /\ p \in 1 .. ChainLen(chains[c])
          /\ p \in Nat \ {0}
      <4>1. ChainLen(chains[c]) \in Nat
        <5>1. c \in 1 .. Len(chains)
          BY <1>3, <3>2, Entry DEF AtItsPlace, Sensible
        <5>2. chains[c] \in Chains
          BY <1>1, <5>1, ElementOfSeq
        <5> QED
          BY <5>2, LenProperties DEF Chains, ChainLen
      <4> QED
        BY <1>3, <3>2, <4>1, Entry DEF AtItsPlace, Sensible
    <3>4. chains[c].taskIds[p] = i - 1 /\ chains[c].set = job[i].set /\ Sensible(job[i])
      BY <3>2 DEF AtItsPlace, Place
    <3> HIDE DEF c, p
    <3>5. CASE c # n
      <4>1. chains'[c] = chains[c] /\ c \in 1 .. Len(chains')
        BY <1>16, <3>3, <3>5
      <4> QED
        BY <3>2, <3>3, <3>4, <4>1 DEF AtItsPlace, Place, Sensible, c, p
    <3>6. CASE c = n
      <4>1. OldChain(e) = chains[c] /\ c \in 1 .. Len(chains')
        BY <1>16, <3>3, <3>6
      <4>2. p \in 1 .. Len(ids) /\ ids[p] = i - 1
        BY <1>3, <1>5, <3>3, <3>4, <4>1 DEF Larger
      <4>3. p # q
        BY <1>7, <3>1, <4>2 DEF Nobody
      <4>4. put[p] = i - 1 /\ p <= ChainLen(chains'[n])
        BY <1>5, <1>11, <1>15, <4>2, <4>3
      <4>5. OldChain(e).set = job[i].set
        BY <3>4, <4>1
      <4>6. job[i].set = e.set
        <5>1. /\ job[i].set \in [target : Nat, therm : Nat, progress : Nat]
              /\ e.set \in [target : Nat, therm : Nat, progress : Nat]
          BY <3>2, Entry, ChainsAssumption
        <5>2. \A x \in {"target", "therm", "progress"} : ~(job[i].set[x] >= 0 /\ e.set[x] # job[i].set[x])
          BY <1>7, <4>5, <5>1 DEF Disagrees
        <5>3. \A x \in {"target", "therm", "progress"} : job[i].set[x] = e.set[x]
          BY <5>1, <5>2
        <5> QED
          BY <5>1, <5>3
      <4>7. /\ Sensible(job[i]) /\ c <= Len(chains') /\ p <= ChainLen(chains'[c])
            /\ chains'[c].taskIds[p] = i - 1 /\ chains'[c].set = job[i].set
        <5> HIDE DEF n, q, put
        <5> QED
          BY <1>15, <3>4, <3>6, <4>1, <4>4, <4>6
      <4> QED
        BY <3>2, <4>7 DEF AtItsPlace, Place, Sensible, c, p
    <3> QED
      BY <3>5, <3>6
  <2> QED
    BY <2>1, <2>2
<1>19. k \in Tasks' /\ Tasks \subseteq Tasks'
  BY <1>9, <1>14
<1>20. ASSUME NEW c \in 1 .. Len(chains')
       PROVE  /\ \A p \in 1 .. ChainLen(chains'[c]) : Asked(c, p)'
              /\ LastAsked(c)' /\ SetAsked(c)'
  <2>1. CASE c # n /\ c <= Len(chains)
    <3>1. chains'[c] = chains[c] /\ c \in 1 .. Len(chains)
      BY <1>3, <1>16, <2>1
    <3>2. /\ \A p \in 1 .. ChainLen(chains[c]) : Asked(c, p)
          /\ LastAsked(c) /\ SetAsked(c)
      BY <1>1, <3>1 DEF Placed
    <3>3. \A p \in 1 .. ChainLen(chains'[c]) : Asked(c, p)'
      BY <1>14, <1>19, <3>1, <3>2 DEF Asked, Place
    <3>4. LastAsked(c)' /\ SetAsked(c)'
      BY <1>14, <1>19, <3>1, <3>2 DEF LastAsked, SetAsked
    <3> QED
      BY <3>3, <3>4
  <2>2. CASE c # n /\ ~(c <= Len(chains))
    <3>1. chains'[c] = NewChain
      BY <1>6, <1>13, <2>2
    <3>2. ChainLen(chains'[c]) = 0 /\ chains'[c].set = Unset
      BY <3>1, NewIsChain DEF NewChain
    <3> QED
      BY <3>2 DEF LastAsked, SetAsked
  <2>3. CASE c = n
    <3>1. SetAsked(c)'
      BY <1>14, <1>15, <1>19, <2>3 DEF SetAsked
    <3>2. LastAsked(c)'
      <4>1. CASE ChainLen(chains'[n]) = q
        BY <1>14, <1>19, <2>3, <4>1 DEF LastAsked
      <4>2. CASE ChainLen(chains'[n]) # q
        <5>1. ChainLen(chains'[n]) = ChainLen(OldChain(e)) /\ ChainLen(OldChain(e)) > 0
          BY <1>3, <1>5, <1>15, <4>2 DEF Larger
        <5>2. n \in 1 .. Len(chains) /\ OldChain(e) = chains[n]
          BY <1>16, <1>17, <5>1
        <5>3. \E i \in Tasks : job[i].chain + 1 = n /\ job[i].pos + 1 = ChainLen(chains[n])
          BY <1>1, <5>1, <5>2 DEF Placed, LastAsked
        <5> QED
          BY <1>14, <1>19, <2>3, <5>1, <5>2, <5>3 DEF LastAsked
      <4> QED
        BY <4>1, <4>2
    <3>3. ASSUME NEW p \in 1 .. ChainLen(chains'[n])
          PROVE  Asked(n, p)'
      <4>1. p \in 1 .. Len(ids)
        BY <1>5, <1>15
      <4>2. CASE p = q
        <5>1. put[p] = k - 1
          BY <1>9, <1>11, <4>1, <4>2
        <5> QED
          BY <1>14, <1>15, <1>19, <4>2, <5>1 DEF Asked, Place
      <4>3. CASE p # q
        <5>1. put[p] = ids[p]
          BY <1>11, <4>1, <4>3
        <5>2. CASE ids[p] = Nobody
          BY <1>15, <5>1, <5>2 DEF Asked, Place
        <5>3. CASE ids[p] # Nobody
          <6>1. p <= ChainLen(OldChain(e)) /\ ids[p] = OldChain(e).taskIds[p]
            BY <1>5, <4>1, <5>3
          <6>2. n \in 1 .. Len(chains) /\ OldChain(e) = chains[n]
            BY <1>16, <1>17, <4>1, <6>1
          <6>3. Asked(n, p)
            BY <1>1, <1>5, <4>1, <6>1, <6>2 DEF Placed
          <6>4. PICK i \in Tasks : job[i].chain + 1 = n /\ job[i].pos + 1 = p /\ ids[p] = i - 1
            BY <5>3, <6>1, <6>2, <6>3 DEF Asked, Place
          <6> QED
            BY <1>14, <1>15, <1>19, <5>1, <6>4 DEF Asked, Place
        <5> QED
          BY <5>2, <5>3
      <4> QED
        BY <4>2, <4>3
    <3> QED
      BY <2>3, <3>1, <3>2, <3>3
  <2> QED
    BY <2>1, <2>2, <2>3
<1>21. Len(chains') > 0 => \E i \in Tasks' : job'[i].chain + 1 = Len(chains')
  <2>1. CASE Len(chains') = n
    BY <1>14, <1>19, <2>1
  <2>2. CASE Len(chains') # n
    <3>1. Len(chains') = Len(chains) /\ Len(chains) > 0
      BY <1>3, <1>6, <1>13, <2>2 DEF Larger
    <3>2. \E i \in Tasks : job[i].chain + 1 = Len(chains)
      BY <1>1, <3>1 DEF Placed
    <3> QED
      BY <1>14, <1>19, <3>1, <3>2
  <2> QED
    BY <2>1, <2>2
<1> HIDE DEF n, q, k, new, put
<1> QED
  BY <1>13, <1>18, <1>20, <1>21 DEF Placed

-----------------------------------------------------------------------------
(* What the chains say of the job.                                         *)

\* What Sound says, of any sequence of entries.
MembersIn(jb, c) == {i \in DOMAIN jb : jb[i].chain = c}
PositionsIn(jb, c) == {jb[i].pos : i \in MembersIn(jb, c)}
ChainsIn(jb) == {jb[i].chain : i \in DOMAIN jb}

SoundJob(jb) ==
  /\ \E k \in 1 .. Len(jb) : ChainsIn(jb) = 0 .. k - 1
  /\ \E len \in 1 .. Len(jb) :
       /\ \A c \in ChainsIn(jb) : /\ PositionsIn(jb, c) = 0 .. len - 1
                                  /\ Cardinality(MembersIn(jb, c)) = len
       /\ (ranks - 1) % len = 0
  /\ \A i, j \in DOMAIN jb : jb[i].chain = jb[j].chain => jb[i].set = jb[j].set

LEMMA SoundIs == (Sound <=> SoundJob(job)) /\ (ranks' = ranks => (Sound' <=> SoundJob(job')))
BY DEF Sound, SoundJob, UsedChains, ChainsIn, UsedPositions, PositionsIn, Members,
       MembersIn, Tasks

LEMMA JobFinite ==
  ASSUME NEW jb \in Seq(Entries)
  PROVE  /\ Len(jb) \in Nat /\ DOMAIN jb = 1 .. Len(jb)
         /\ IsFiniteSet(DOMAIN jb) /\ Cardinality(DOMAIN jb) = Len(jb)
         /\ \A i \in DOMAIN jb : jb[i] \in Entries
         /\ \A c : MembersIn(jb, c) \subseteq DOMAIN jb /\ IsFiniteSet(MembersIn(jb, c))
<1>1. Len(jb) \in Nat /\ DOMAIN jb = 1 .. Len(jb)
  BY LenProperties
<1>2. IsFiniteSet(DOMAIN jb) /\ Cardinality(DOMAIN jb) = Len(jb)
  BY <1>1, FS_Interval
<1>3. \A i \in DOMAIN jb : jb[i] \in Entries
  BY <1>1, ElementOfSeq
<1>4. \A c : MembersIn(jb, c) \subseteq DOMAIN jb
  BY DEF MembersIn
<1>5. \A c : IsFiniteSet(MembersIn(jb, c))
  BY <1>2, <1>4, FS_Subset
<1> QED
  BY <1>1, <1>2, <1>3, <1>4, <1>5

\* In a sound job no place is asked for twice.
LEMMA PlacesDiffer ==
  ASSUME NEW jb \in Seq(Entries), SoundJob(jb), NEW i \in DOMAIN jb, NEW j \in DOMAIN jb,
         jb[i].chain = jb[j].chain, jb[i].pos = jb[j].pos
  PROVE  i = j
<1> DEFINE c == jb[i].chain
           f == [n \in MembersIn(jb, c) |-> jb[n].pos]
<1>1. PICK len \in 1 .. Len(jb) : /\ PositionsIn(jb, c) = 0 .. len - 1
                                  /\ Cardinality(MembersIn(jb, c)) = len
  BY DEF SoundJob, ChainsIn
<1>2. IsFiniteSet(MembersIn(jb, c))
  BY JobFinite
<1>3. f \in Surjection(MembersIn(jb, c), 0 .. len - 1)
  BY <1>1 DEF Surjection, PositionsIn
<1>4. Cardinality(0 .. len - 1) = len
  BY JobFinite, FS_Interval
<1>5. f \in Injection(MembersIn(jb, c), 0 .. len - 1)
  <2> HIDE DEF f, c
  <2> QED
    BY <1>1, <1>2, <1>3, <1>4, FS_Surjection
<1>6. i \in MembersIn(jb, c) /\ j \in MembersIn(jb, c) /\ f[i] = f[j]
  BY DEF MembersIn
<1> HIDE DEF f, c
<1>7. \A a, b \in MembersIn(jb, c) : f[a] = f[b] => a = b
  BY <1>5 DEF Injection, IsInjective
<1> QED
  BY <1>6, <1>7

\* In a sound job chain ids and positions are not negative.
LEMMA SoundIsSensible ==
  ASSUME NEW jb \in Seq(Entries), SoundJob(jb), NEW i \in DOMAIN jb
  PROVE  Sensible(jb[i])
<1>1. jb[i].chain \in ChainsIn(jb) /\ jb[i].pos \in PositionsIn(jb, jb[i].chain)
  BY DEF ChainsIn, PositionsIn, MembersIn
<1>2. \E k \in 1 .. Len(jb) : jb[i].chain \in 0 .. k - 1
  BY <1>1 DEF SoundJob
<1>3. \E len \in 1 .. Len(jb) : jb[i].pos \in 0 .. len - 1
  BY <1>1 DEF SoundJob
<1> QED
  BY <1>2, <1>3, JobFinite DEF Sensible

\* An entry that throws makes the job unsound.
LEMMA ThrowIsRight ==
  ASSUME ChainsInv, verdict = "reading", NEW e \in Entries, Throws(e), ReadTask(e)
  PROVE  ~SoundJob(job')
<1> SUFFICES ASSUME SoundJob(job') PROVE FALSE
  OBVIOUS
<1> DEFINE k == Len(job) + 1
           n == e.chain + 1
           q == e.pos + 1
           ids == ResizedTo(OldChain(e).taskIds, q, Nobody)
<1>1. Placed /\ job \in Seq(Entries) /\ chains \in Seq(Chains)
  BY DEF ChainsInv, Placed
<1>2. /\ job' \in Seq(Entries) /\ k \in DOMAIN job' /\ job'[k] = e /\ Len(job) \in Nat
      /\ \A i \in Tasks : i \in DOMAIN job' /\ job'[i] = job[i] /\ i # k
  BY <1>1, OneMore DEF ReadTask, Tasks
<1>3. Sensible(e)
  BY <1>2, SoundIsSensible
<1>4. n \in Nat \ {0} /\ q \in Nat \ {0} /\ Len(chains) \in Nat
  BY <1>1, <1>3, Entry, LenProperties DEF Sensible
<1>5. OldChain(e).taskIds \in Seq(Int) /\ ChainLen(OldChain(e)) \in Nat
  BY <1>1, <1>3, OldIsChain, LenProperties DEF Chains, ChainLen
<1>6. Extended(e)[n] = [id |-> e.chain, taskIds |-> ids, set |-> OldChain(e).set]
  BY <1>1, <1>3, Extending
<1>7. ids[q] # Nobody \/ Disagrees(OldChain(e).set, e.set)
  BY <1>3, <1>6, Entry DEF Throws, Sensible, Taken
<1>8. CASE ids[q] # Nobody
  <2>1. ids[q] = IF q <= ChainLen(OldChain(e)) THEN OldChain(e).taskIds[q] ELSE Nobody
    <3> DEFINE S == Int
               ts == OldChain(e).taskIds
    <3>1. ts \in Seq(S) /\ Nobody \in S /\ q \in Nat /\ Len(ts) \in Nat
      BY <1>4, <1>5 DEF Nobody, ChainLen
    <3>2. q \in 1 .. Larger(q, Len(ts))
      BY <1>4, <3>1 DEF Larger
    <3> HIDE DEF S, ts, q
    <3>3. ResizedTo(ts, q, Nobody)[q] = IF q <= Len(ts) THEN ts[q] ELSE Nobody
      BY <3>1, <3>2, ResizedAt
    <3> QED
      BY <3>2, <3>3 DEF ts, ChainLen
  <2>2. OldChain(e) = chains[n] /\ n \in 1 .. Len(chains)
    <3>1. ~(n <= Len(chains)) => FALSE
      BY <1>4, <1>8, <2>1, NewIsChain DEF OldChain
    <3> QED
      BY <1>4, <3>1 DEF OldChain
  <2>3. q \in 1 .. ChainLen(chains[n]) /\ Place(n, q) # Nobody
    BY <1>4, <1>5, <1>8, <2>1, <2>2 DEF Place
  <2>4. PICK i \in Tasks : job[i].chain + 1 = n /\ job[i].pos + 1 = q
    BY <1>1, <2>2, <2>3 DEF Placed, Asked
  <2>5. job[i].chain = e.chain /\ job[i].pos = e.pos
    BY <1>1, <2>4, Entry, JobFinite DEF Tasks
  <2> QED
    BY <1>2, <2>5, PlacesDiffer
<1>9. CASE Disagrees(OldChain(e).set, e.set)
  <2>1. PICK x \in DOMAIN OldChain(e).set : OldChain(e).set[x] >= 0 /\ e.set[x] # OldChain(e).set[x]
    BY <1>9 DEF Disagrees
  <2>2. OldChain(e).set # Unset
    BY <2>1 DEF Unset
  <2>3. OldChain(e) = chains[n] /\ n \in 1 .. Len(chains)
    BY <1>4, <2>2 DEF OldChain, NewChain
  <2>4. PICK i \in Tasks : job[i].chain + 1 = n /\ job[i].set = chains[n].set
    BY <1>1, <2>2, <2>3 DEF Placed, SetAsked
  <2>5. job[i].chain = e.chain /\ job[i].set # e.set
    BY <1>1, <2>1, <2>3, <2>4, Entry, JobFinite DEF Tasks
  <2> QED
    BY <1>2, <2>5 DEF SoundJob
<1> QED
  BY <1>7, <1>8, <1>9

\* The chains there are were asked for, and the last position of each.
ShapeOf(i, c) == job[i].chain = c - 1 /\ job[i].pos = ChainLen(chains[c]) - 1

LEMMA TaskShape ==
  ASSUME Placed, job \in Seq(Entries), NEW i \in Tasks
  PROVE  /\ job[i].chain \in 0 .. Len(chains) - 1 /\ job[i].chain \in Nat
         /\ job[i].pos \in 0 .. ChainLen(chains[job[i].chain + 1]) - 1
         /\ ChainLen(chains[job[i].chain + 1]) \in Nat /\ Len(chains) \in Nat
         /\ Sensible(job[i])
<1>1. job[i] \in Entries /\ job[i].chain \in Int /\ job[i].pos \in Int
  BY JobFinite, Entry DEF Tasks
<1>2. Sensible(job[i]) /\ job[i].chain + 1 <= Len(chains)
      /\ job[i].pos + 1 <= ChainLen(chains[job[i].chain + 1])
  BY DEF Placed, AtItsPlace
<1>3. chains \in Seq(Chains) /\ Len(chains) \in Nat
  BY LenProperties DEF Placed
<1>4. ChainLen(chains[job[i].chain + 1]) \in Nat
  <2>1. job[i].chain + 1 \in 1 .. Len(chains)
    BY <1>1, <1>2, <1>3 DEF Sensible
  <2>2. chains[job[i].chain + 1] \in Chains
    BY <1>3, <2>1, ElementOfSeq
  <2> QED
    BY <2>2, LenProperties DEF Chains, ChainLen
<1> QED
  BY <1>1, <1>2, <1>3, <1>4 DEF Sensible

LEMMA LastIsAsked ==
  ASSUME Placed, job \in Seq(Entries), NEW c \in 1 .. Len(chains),
         ChainLen(chains[c]) > 0
  PROVE  \E i \in Tasks : ShapeOf(i, c)
<1>1. PICK i \in Tasks : job[i].chain + 1 = c /\ job[i].pos + 1 = ChainLen(chains[c])
  BY DEF Placed, LastAsked
<1>2. job[i].chain \in Int /\ job[i].pos \in Int
  BY JobFinite, Entry DEF Tasks
<1> QED
  BY <1>1, <1>2 DEF ShapeOf

LEMMA ChainsTyped ==
  ASSUME chains \in Seq(Chains)
  PROVE  /\ Len(chains) \in Nat /\ DOMAIN chains = 1 .. Len(chains)
         /\ \A c \in DOMAIN chains : ChainLen(chains[c]) \in Nat /\ chains[c].id \in Nat
         /\ chains # << >> <=> Len(chains) > 0
<1>1. Len(chains) \in Nat /\ DOMAIN chains = 1 .. Len(chains)
  BY LenProperties
<1>2. \A c \in DOMAIN chains : chains[c] \in Chains
  BY <1>1, ElementOfSeq
<1>3. \A c \in DOMAIN chains : ChainLen(chains[c]) \in Nat /\ chains[c].id \in Nat
  BY <1>2, LenProperties DEF Chains, ChainLen
<1>4. chains # << >> <=> Len(chains) > 0
  BY EmptySeq, <1>1
<1> QED
  BY <1>1, <1>3, <1>4

\* What is sound passes the checks at the end.
LEMMA SoundFits ==
  ASSUME Placed, job \in Seq(Entries), SoundJob(job)
  PROVE  ChainsFit
<1>1. PICK k \in 1 .. Len(job) : ChainsIn(job) = 0 .. k - 1
  BY DEF SoundJob
<1>2. PICK len \in 1 .. Len(job) :
        /\ \A c \in ChainsIn(job) : PositionsIn(job, c) = 0 .. len - 1
        /\ (ranks - 1) % len = 0
  BY DEF SoundJob
<1>3. /\ Len(job) \in Nat /\ Len(chains) \in Nat /\ DOMAIN chains = 1 .. Len(chains)
      /\ \A c \in DOMAIN chains : ChainLen(chains[c]) \in Nat /\ chains[c].id \in Nat
      /\ chains # << >> <=> Len(chains) > 0
  BY JobFinite, ChainsTyped DEF Placed
<1>4. Len(chains) = k
  <2>1. PICK i \in Tasks : job[i].chain = k - 1
    BY <1>1, <1>3 DEF ChainsIn, Tasks
  <2>2. k <= Len(chains)
    BY <1>3, <2>1, TaskShape
  <2>3. PICK j \in Tasks : job[j].chain + 1 = Len(chains)
    BY <1>1, <1>3, <2>2 DEF Placed
  <2>4. k \in Int /\ job[j].chain \in Int /\ job[j].chain <= k - 1
    <3>1. job[j].chain \in 0 .. k - 1
      BY <1>1 DEF ChainsIn, Tasks
    <3> QED
      BY <1>1, <1>3, <3>1
  <2>5. Len(chains) <= k
    BY <1>3, <2>3, <2>4
  <2>6. Len(chains) \in Int
    BY <1>3
  <2> QED
    BY <2>2, <2>4, <2>5, <2>6
<1>5. ASSUME NEW c \in DOMAIN chains
      PROVE  ChainLen(chains[c]) = len
  <2>1. c - 1 \in ChainsIn(job)
    BY <1>1, <1>3, <1>4
  <2>2. PositionsIn(job, c - 1) = 0 .. len - 1
    BY <1>2, <2>1
  <2>3. PICK i \in Tasks : job[i].chain = c - 1 /\ job[i].pos = len - 1
    <3>1. len - 1 \in PositionsIn(job, c - 1)
      BY <1>3, <2>2
    <3> QED
      BY <3>1 DEF PositionsIn, MembersIn, Tasks
  <2>4. len <= ChainLen(chains[c])
    BY <1>3, <2>3, TaskShape
  <2>5. PICK j \in Tasks : ShapeOf(j, c)
    BY <1>3, <2>4, LastIsAsked
  <2>6. job[j].pos \in PositionsIn(job, c - 1)
    BY <2>5 DEF ShapeOf, PositionsIn, MembersIn, Tasks
  <2> QED
    BY <1>3, <2>2, <2>4, <2>5, <2>6 DEF ShapeOf
<1> QED
  BY <1>1, <1>2, <1>3, <1>4, <1>5 DEF ChainsFit

\* What passes the checks at the end, without gaps, is sound.
LEMMA FittingIsSound ==
  ASSUME Placed, job \in Seq(Entries), ranks \in Nat \ {0}, ChainsFit, GapFree
  PROVE  SoundJob(job)
<1> DEFINE k == Len(chains)
           len == ChainLen(chains[1])
<1>1. /\ Len(job) \in Nat /\ k \in Nat \ {0} /\ DOMAIN chains = 1 .. k
      /\ IsFiniteSet(Tasks) /\ Cardinality(Tasks) = Len(job) /\ Tasks = 1 .. Len(job)
      /\ \A c : MembersIn(job, c) \subseteq Tasks /\ IsFiniteSet(MembersIn(job, c))
  BY JobFinite, ChainsTyped DEF Placed, ChainsFit, Tasks
<1>2. /\ \A c \in 1 .. k : ChainLen(chains[c]) = len
      /\ len \in Nat \ {0} /\ (ranks - 1) % len = 0
  BY <1>1, ChainsTyped DEF Placed, ChainsFit
<1> HIDE DEF k, len
<1>3. \A c \in 1 .. k : \E i \in Tasks : ShapeOf(i, c)
  BY <1>1, <1>2, LastIsAsked DEF k
<1>4. ChainsIn(job) = 0 .. k - 1
  <2>1. \A i \in Tasks : job[i].chain \in 0 .. k - 1
    BY TaskShape DEF k
  <2>2. ASSUME NEW c \in 0 .. k - 1
        PROVE  \E i \in Tasks : job[i].chain = c
    <3>1. c + 1 \in 1 .. k /\ (c + 1) - 1 = c
      BY <1>1
    <3>2. PICK i \in Tasks : ShapeOf(i, c + 1)
      BY <1>3, <3>1
    <3> QED
      BY <3>1, <3>2 DEF ShapeOf
  <2> QED
    BY <2>1, <2>2 DEF ChainsIn, Tasks
<1>5. ASSUME NEW c \in 0 .. k - 1
      PROVE  PositionsIn(job, c) = 0 .. len - 1
  <2>1. c + 1 \in 1 .. k
    BY <1>1
  <2>2. PICK i \in Tasks : ShapeOf(i, c + 1)
    BY <1>3, <2>1
  <2>3. job[i].chain = c /\ job[i].pos = len - 1
    BY <1>1, <1>2, <2>1, <2>2 DEF ShapeOf
  <2>4. 0 .. len - 1 \subseteq PositionsIn(job, c)
    <3>1. c \in UsedChains /\ len - 1 \in UsedPositions(c)
      BY <2>3 DEF UsedChains, UsedPositions, Members, Tasks
    <3>2. UsedPositions(c) = PositionsIn(job, c)
      BY DEF UsedPositions, PositionsIn, Members, MembersIn, Tasks
    <3> QED
      BY <3>1, <3>2 DEF GapFree
  <2>5. ASSUME NEW j \in MembersIn(job, c)
        PROVE  job[j].pos \in 0 .. len - 1
    <3>1. j \in Tasks /\ job[j].chain = c
      BY DEF MembersIn, Tasks
    <3> QED
      BY <1>2, <2>1, <3>1, TaskShape
  <2> QED
    BY <2>4, <2>5 DEF PositionsIn
<1>6. ASSUME NEW c \in 0 .. k - 1
      PROVE  Cardinality(MembersIn(job, c)) = len
  <2> DEFINE M == MembersIn(job, c)
             f == [i \in M |-> job[i].pos]
  <2>1. f \in Surjection(M, 0 .. len - 1)
    BY <1>5 DEF Surjection, PositionsIn
  <2>2. \A i \in M : /\ i \in Nat /\ job[i].chain = c
                     /\ Place(c + 1, job[i].pos + 1) = i - 1
    BY <1>1 DEF MembersIn, Placed, AtItsPlace, Tasks
  <2>3. \A i, j \in M : f[i] = f[j] => i = j
    BY <2>2
  <2>4. f \in Bijection(M, 0 .. len - 1)
    <3> HIDE DEF f, M
    <3> QED
      BY <2>1, <2>3 DEF Bijection, Surjection, Injection, IsInjective
  <2>5. IsFiniteSet(M) /\ ExistsBijection(M, 0 .. len - 1)
    BY <1>1, <2>4 DEF ExistsBijection
  <2>6. Cardinality(0 .. len - 1) = Cardinality(M)
    <3> HIDE DEF M
    <3> QED
      BY <2>5, FS_Bijection
  <2>7. Cardinality(0 .. len - 1) = len
    BY <1>2, FS_Interval
  <2> QED
    BY <2>6, <2>7
<1>7. len <= Len(job)
  <2>1. 0 \in 0 .. k - 1
    BY <1>1
  <2>2. Cardinality(MembersIn(job, 0)) <= Cardinality(Tasks)
    BY <1>1, FS_Subset
  <2> QED
    BY <1>1, <1>6, <2>1, <2>2
<1>8. k <= Len(job)
  <2> DEFINE g == [i \in Tasks |-> job[i].chain]
  <2>1. g \in Surjection(Tasks, 0 .. k - 1)
    BY <1>4 DEF Surjection, ChainsIn, Tasks
  <2>2. Cardinality(0 .. k - 1) <= Cardinality(Tasks)
    <3> HIDE DEF g
    <3> QED
      BY <1>1, <2>1, FS_Surjection
  <2>3. Cardinality(0 .. k - 1) = k
    BY <1>1, FS_Interval
  <2> QED
    BY <1>1, <2>2, <2>3
<1>9. \A i, j \in DOMAIN job : job[i].chain = job[j].chain => job[i].set = job[j].set
  BY DEF Placed, AtItsPlace, Tasks
<1>10. k \in 1 .. Len(job) /\ len \in 1 .. Len(job)
  BY <1>1, <1>2, <1>7, <1>8
<1> QED
  BY <1>2, <1>4, <1>5, <1>6, <1>9, <1>10 DEF SoundJob

LEMMA FittingIsPlaced ==
  ASSUME Placed, ChainsFit
  PROVE  PlacesRight
<1>1. \A i \in Tasks : LET c == chains[job[i].chain + 1]
                       IN  c.taskIds[job[i].pos + 1] = i - 1 /\ c.set = job[i].set
  BY DEF Placed, AtItsPlace, Place
<1>2. \A i, j \in DOMAIN chains : ChainLen(chains[i]) = ChainLen(chains[j])
  BY DEF ChainsFit
<1> QED
  BY <1>1, <1>2 DEF PlacesRight

LEMMA ChainsInvNext == ChainsInv /\ [Next]_vars => ChainsInv'
<1> SUFFICES ASSUME ChainsInv, [Next]_vars PROVE ChainsInv'
  OBVIOUS
<1>1. ASSUME NEW e \in Entries, ReadTask(e) PROVE ChainsInv'
  <2>1. verdict = "reading" /\ ranks' = ranks /\ job' \in Seq(Entries)
    BY <1>1, OneMore DEF ReadTask, ChainsInv
  <2>2. CASE Throws(e)
    <3>1. ~Sound'
      BY <1>1, <2>1, <2>2, ThrowIsRight, SoundIs
    <3>2. verdict' = "refused"
      BY <1>1, <2>2 DEF ReadTask
    <3> QED
      BY <2>1, <3>1, <3>2 DEF ChainsInv
  <2>3. CASE ~Throws(e)
    <3>1. Placed'
      BY <1>1, <2>1, <2>3, PutKeeps
    <3>2. verdict' = "reading"
      BY <1>1, <2>1, <2>3 DEF ReadTask
    <3> QED
      BY <2>1, <3>1, <3>2 DEF ChainsInv
  <2> QED
    BY <2>2, <2>3
<1>2. CASE Conclude
  <2>1. UNCHANGED <<ranks, job, chains>>
    BY <1>2 DEF Conclude
  <2>2. Placed' <=> Placed
    BY <2>1 DEF Placed, AtItsPlace, Asked, LastAsked, SetAsked, Place, Tasks
  <2>3. ChainsFit' <=> ChainsFit
    BY <2>1 DEF ChainsFit
  <2> QED
    BY <1>2, <2>1, <2>2, <2>3 DEF Conclude, ChainsInv
<1>3. CASE UNCHANGED vars
  <2>1. UNCHANGED <<ranks, job, chains, verdict>>
    BY <1>3 DEF vars
  <2>2. (Placed' <=> Placed) /\ (ChainsFit' <=> ChainsFit)
    BY <2>1 DEF Placed, AtItsPlace, Asked, LastAsked, SetAsked, Place, Tasks, ChainsFit
  <2>3. Sound' <=> Sound
    BY <2>1, SoundIs
  <2> QED
    BY <2>1, <2>2, <2>3 DEF ChainsInv
<1> QED
  BY <1>1, <1>2, <1>3 DEF Next, Decided

LEMMA ChainsDecided == ChainsInv => DecidesRight
<1> SUFFICES ASSUME ChainsInv PROVE DecidesRight
  OBVIOUS
<1>1. ASSUME verdict = "accepted" PROVE PlacesRight /\ (GapFree => Sound)
  BY <1>1, FittingIsPlaced, FittingIsSound, SoundIs DEF ChainsInv
<1>2. ASSUME verdict = "refused" PROVE ~Sound
  BY <1>2, SoundFits, SoundIs DEF ChainsInv
<1> QED
  BY <1>1, <1>2 DEF DecidesRight, ChainsInv

\* For any number of tasks, chains and positions and whatever their order, the
\* master accepts a job exactly if it is sound, gaps in the positions aside, and
\* then every task is at the place that its entry names (runner_pt.cpp:163-249).
THEOREM ChainsAlwaysDecided == Spec => []DecidesRight
BY ChainsInvInit, ChainsInvNext, ChainsDecided, PTL DEF Spec
=============================================================================
