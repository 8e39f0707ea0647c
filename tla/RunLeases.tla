----------------------------- MODULE RunLeases -----------------------------
(***************************************************************************)
(* What the MPI schedulers promise about the runs of a task, without       *)
(* messages, counters or progress. A launch leases runs of open tasks to   *)
(* slaves, never one run to two slaves. (In parallel tempering the tasks   *)
(* are the chains and the slaves the rank sets.) A task is closed for the  *)
(* rest of the launch by the first slave released from it; the slave whose *)
(* release leaves no lease on the task, and only that one, merges it. A    *)
(* slave may leave with its lease, and then its task is not merged in this *)
(* launch.                                                                 *)
(***************************************************************************)
EXTENDS Integers

CONSTANTS Slaves, Tasks,
          Runs       \* the run ids a lease may name

VARIABLES lease,    \* slave -> <<task, run>>, or NoLease
          closed,   \* tasks no run is leased of any more
          merging,  \* tasks being merged
          launch    \* which launch this is

vars == <<lease, closed, merging, launch>>

NoLease == <<-1, 0>>
Holders(t) == {s \in Slaves : lease[s][1] = t}

Init ==
  /\ lease = [s \in Slaves |-> NoLease]
  /\ closed \subseteq Tasks
  /\ merging = {}
  /\ launch = 1

Grant(s, t, r) ==
  /\ t \in Tasks \ closed
  /\ lease[s] = NoLease
  /\ \A q \in Slaves : lease[q] # <<t, r>>     \* the run is free
  /\ lease' = [lease EXCEPT ![s] = <<t, r>>]
  /\ UNCHANGED <<closed, merging, launch>>

Release(s, t) ==
  /\ s \in Holders(t)
  /\ lease' = [lease EXCEPT ![s] = NoLease]
  /\ closed' = closed \cup {t}
  /\ merging' = IF Holders(t) = {s} THEN merging \cup {t} ELSE merging
  /\ UNCHANGED launch

\* A slave is released from one task and given another at once.
HandOver(s, t, u, r) ==
  /\ s \in Holders(t)
  /\ u \in Tasks \ (closed \cup {t})
  /\ \A q \in Slaves : lease[q] # <<u, r>>
  /\ lease' = [lease EXCEPT ![s] = <<u, r>>]
  /\ closed' = closed \cup {t}
  /\ merging' = IF Holders(t) = {s} THEN merging \cup {t} ELSE merging
  /\ UNCHANGED launch

Merged(t) ==
  /\ t \in merging
  /\ merging' = merging \ {t}
  /\ UNCHANGED <<lease, closed, launch>>

NewLaunch ==
  /\ launch' = launch + 1
  /\ lease' = [s \in Slaves |-> NoLease]
  /\ merging' = {}
  /\ closed' \in SUBSET Tasks

Next ==
  \/ \E s \in Slaves, t \in Tasks :
       \/ Release(s, t)
       \/ \E r \in Runs : Grant(s, t, r)
       \/ \E u \in Tasks, r \in Runs : HandOver(s, t, u, r)
  \/ \E t \in Tasks : Merged(t)
  \/ NewLaunch

Spec == Init /\ [][Next]_vars
=============================================================================
