------------------------------ MODULE SlotPool ------------------------------
(***************************************************************************)
(* What the pool promises to the relays that use it, without its queues,   *)
(* its unlocked select or its clock (the package comment of                *)
(* src/internal/pool/pool.go, and Acquire, Release, Add and Remove).       *)
(*                                                                         *)
(* A job asks for a slot of its service, waits for it or withdraws, and    *)
(* gives it back when it has it.  A provider opens its slots once and      *)
(* closes them once.  A slot that has been granted stays granted until its *)
(* job gives it back, even when its provider closes; no provider has more  *)
(* jobs than slots; and after every step no job waits beside a free slot.  *)
(***************************************************************************)
EXTENDS Integers, FiniteSets

CONSTANTS
  Jobs, Providers,
  Service,     \* the service of each job and of each provider
  Slots,       \* how many slots a provider opens
  None         \* no provider

VARIABLES
  job,         \* "idle", "waiting", "granted" or "over"
  owner,       \* the provider whose slot a job has been granted
  shop         \* "new", "open" or "closed", of each provider

svars == <<job, owner, shop>>

SlotInit ==
  /\ job = [j \in Jobs |-> "idle"]
  /\ owner = [j \in Jobs |-> None]
  /\ shop = [p \in Providers |-> "new"]

(* The jobs that hold a slot of p. *)
Holding(o, p) == {j \in Jobs : o[j] = p}

(* Some slots are granted to jobs of asking, o being the slots held before. *)
Granting(asking, o) ==
  /\ \A j \in Jobs :
       \/ owner'[j] = o[j]
       \/ /\ j \in asking
          /\ o[j] = None
          /\ owner'[j] \in Providers
          /\ shop'[owner'[j]] = "open"
          /\ Service[owner'[j]] = Service[j]
  /\ \A p \in Providers : Cardinality(Holding(owner', p)) <= Slots[p]
  /\ ~\E j \in asking : \E p \in Providers :
       /\ owner'[j] = None
       /\ shop'[p] = "open"
       /\ Service[p] = Service[j]
       /\ Cardinality(Holding(owner', p)) < Slots[p]

Waiting == {j \in Jobs : job[j] = "waiting"}

(* Those that were granted a slot have it, the others are as in before. *)
Granted(before) ==
  job' = [j \in Jobs |-> IF owner'[j] # None THEN "granted" ELSE before[j]]

Ask(j) ==
  /\ job[j] = "idle"
  /\ UNCHANGED shop
  /\ Granting(Waiting \cup {j}, owner)
  /\ Granted([job EXCEPT ![j] = "waiting"])

Withdraw(j) ==
  /\ job[j] = "waiting"
  /\ job' = [job EXCEPT ![j] = "over"]
  /\ UNCHANGED <<owner, shop>>

(* The slot is given back and is somebody else's in the same step. *)
Finish(j) ==
  /\ job[j] = "granted"
  /\ UNCHANGED shop
  /\ Granting(Waiting, [owner EXCEPT ![j] = None])
  /\ \E s \in {"idle", "over"} : Granted([job EXCEPT ![j] = s])

Open(p) ==
  /\ shop[p] = "new"
  /\ shop' = [shop EXCEPT ![p] = "open"]
  /\ Granting(Waiting, owner)
  /\ Granted(job)

Close(p) ==
  /\ shop[p] = "open"
  /\ shop' = [shop EXCEPT ![p] = "closed"]
  /\ UNCHANGED <<job, owner>>

SlotNext ==
  \/ \E j \in Jobs : Ask(j) \/ Withdraw(j) \/ Finish(j)
  \/ \E p \in Providers : Open(p) \/ Close(p)

SlotSpec == SlotInit /\ [][SlotNext]_svars
=============================================================================
