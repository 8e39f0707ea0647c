------------------------------- MODULE PtSwap -------------------------------
(***************************************************************************)
(* The exchange of positions in a parallel tempering chain                 *)
(* (src/src/runner_pt.cpp): which ranks of a set have a partner in a       *)
(* global update, which pairs of neighbouring positions the update tries,  *)
(* and where the ranks are afterwards.  Positions and chain ranks are      *)
(* 0 .. len-1; rank_to_pos is a function from ranks to positions.          *)
(***************************************************************************)
EXTENDS Integers

Places(len) == 0 .. len - 1

Bit(odd) == IF odd THEN 1 ELSE 0

\* Faulty variant of PartnerPos.
PartnerPosSwapped(p, odd) == p + (1 - 2 * (p % 2)) * (2 * Bit(odd) - 1)

\* react(), S_READY_FOR_GLOBAL: the position the rank at p is compared with.
PartnerPos(p, odd) == p + (2 * (p % 2) - 1) * (2 * Bit(odd) - 1)

\* The rank at p sits out the update: GA_SKIP.
Skips(p, odd, len) == PartnerPos(p, odd) \notin Places(len)

\* pt_global_update: the lower positions of the pairs its loop visits.
TriedPairs(odd, len) == {i \in 0 .. len - 2 : i % 2 = Bit(odd)}

\* rank_to_pos after the pairs in accepted have changed places.
Moved(pos, accepted) ==
  [r \in DOMAIN pos |->
     IF pos[r] \in accepted THEN pos[r] + 1
     ELSE IF pos[r] - 1 \in accepted THEN pos[r] - 1
     ELSE pos[r]]

\* switch_partners after that: the rank that was where r is now, or r itself.
SwitchPartners(pos, accepted) ==
  [r \in DOMAIN pos |->
     CHOOSE q \in DOMAIN pos : pos[q] = Moved(pos, accepted)[r]]

-----------------------------------------------------------------------------
\* Every position is taken by exactly one rank.
Permutation(pos, len) ==
  /\ pos \in [Places(len) -> Places(len)]
  /\ \A r, q \in Places(len) : r # q => pos[r] # pos[q]
  /\ \A p \in Places(len) : \E r \in Places(len) : pos[r] = p
=============================================================================
