---------------------------- MODULE PoolRefines -----------------------------
(***************************************************************************)
(* The pool implements SlotPool.  A job is granted a slot from the moment  *)
(* a lease is made for it, before it has received it; what Acquire and     *)
(* abandon do without the lock changes nothing that SlotPool can see.      *)
(***************************************************************************)
EXTENDS PoolOrder

JobSeen ==
  [j \in Jobs |->
     CASE lease[j] # None -> "granted"
       [] phase[j] \in {"new", "arrived", "released"} -> "idle"
       [] phase[j] = "failed" -> "over"
       [] OTHER -> "waiting"]

ShopSeen ==
  [p \in Providers |->
     CASE gone[p] -> "closed"
       [] p \in ToSet(providers[Service[p]]) -> "open"
       [] OTHER -> "new"]

Seen == INSTANCE SlotPool WITH job <- JobSeen, owner <- lease, shop <- ShopSeen

(***************************************************************************)
(* Every step of the pool is a step of SlotPool or changes nothing there:  *)
(* whatever the interleaving of timers, contexts, hand-overs and lost      *)
(* providers around the unlocked select (pool.go:147-180), a granted slot  *)
(* is never taken back, and never granted twice, and none lies idle.       *)
(***************************************************************************)
ImplementsSlotPool == Seen!SlotSpec
=============================================================================
