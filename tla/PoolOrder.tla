----------------------------- MODULE PoolOrder ------------------------------
(***************************************************************************)
(* The order in which the pool serves jobs.  Two history variables, read   *)
(* by no action, record what the queues themselves forget: in which order  *)
(* jobs first called Acquire, and which of them came back with front set.  *)
(***************************************************************************)
EXTENDS Pool

VARIABLES
  line,     \* the jobs in the order of their first Acquire
  again     \* the jobs that were requeued

ovars == <<vars, line, again>>

OrderInit == Init /\ line = <<>> /\ again = {}

(* The job whose first Acquire takes the lock in this step, if there is one. *)
Joining == {j \in Jobs : phase[j] = "arrived" /\ phase'[j] # "arrived"}

OrderNext ==
  /\ Next
  /\ line' = line \o SetToSeq(Joining)
  /\ again' = again \cup {j \in Jobs : phase[j] = "released" /\ phase'[j] # "released"}

OrderSpec == OrderInit /\ [][OrderNext]_ovars

(* Job j first called Acquire before job k did, in the line q. *)
Before(q, j, k) == \E a, b \in 1..Len(q) : a < b /\ q[a] = j /\ q[b] = k

(***************************************************************************)
(* First come, first served among the jobs that were never requeued: no    *)
(* step gives a slot to one while an older one of the same service still   *)
(* waits, neither by dispatch nor by the fast path (pool.go:133, :195).    *)
(***************************************************************************)
FreshInOrder ==
  [][\A j, k \in Jobs :
       /\ lease[k] = None /\ lease'[k] # None
       /\ Service[j] = Service[k]
       /\ {j, k} \cap again' = {}
       /\ Before(line', j, k)
       => j \notin ToSet(waiters'[Service[j]])]_ovars

(***************************************************************************)
(* A requeued job is ahead of every job that never had a provider          *)
(* (pool.go:125, "front puts the job at the head of the queue").           *)
(***************************************************************************)
RequeuedFirst ==
  \A s \in Services : \A i, k \in 1..Len(waiters[s]) :
    i < k /\ waiters[s][k] \in again => waiters[s][i] \in again
=============================================================================
