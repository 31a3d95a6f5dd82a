------------------------------- MODULE MCPool -------------------------------
(***************************************************************************)
(* An instance of Pool, PoolOrder and PoolRefines for TLC: three jobs, one *)
(* provider with two slots and one with a single slot, so that jobs wait,  *)
(* two can be requeued from one lost provider while a third waits, and one *)
(* dispatch can hand out two leases; and a clock that reaches the jobs'    *)
(* deadline.                                                               *)
(***************************************************************************)
EXTENDS PoolRefines

CONSTANTS j1, j2, j3, p1, p2, s1

AllJobs == {j1, j2, j3}
JobSymmetry == Permutations(AllJobs)
CrowdedService == [x \in AllJobs \cup {p1, p2} |-> s1]
CrowdedSlots == p1 :> 2 @@ p2 :> 1
CrowdedPriority == [p \in {p1, p2} |-> 1]
=============================================================================
