------------------------- MODULE PoolRefinesProofs --------------------------
(***************************************************************************)
(* Proofs about PoolRefines and PoolOrder: the pool implements SlotPool,   *)
(* and serves its jobs in the order it promises.                           *)
(***************************************************************************)
EXTENDS PoolRefines, PoolProofs

-----------------------------------------------------------------------------
(* The pool implements SlotPool. *)

(* How a job and a provider look to SlotPool. *)
SeenAs ==
  /\ JobSeen = [j \in Jobs |-> JobSeen[j]]
  /\ ShopSeen = [p \in Providers |-> ShopSeen[p]]
  /\ \A j \in Jobs : JobSeen[j] =
       IF lease[j] # None THEN "granted"
       ELSE IF phase[j] \in {"new", "arrived", "released"} THEN "idle"
       ELSE IF phase[j] = "failed" THEN "over" ELSE "waiting"
  /\ \A p \in Providers : ShopSeen[p] =
       IF gone[p] THEN "closed"
       ELSE IF p \in ToSet(providers[Service[p]]) THEN "open" ELSE "new"
  /\ \A j \in Jobs : JobSeen[j] = "waiting" => j \in ToSet(waiters[Service[j]])

(* The cases of the refinement mapping exclude each other. *)
LEMMA SeenValues == SlotInv => SeenAs
<1> SUFFICES ASSUME SlotInv PROVE SeenAs
  OBVIOUS
<1>1. ASSUME NEW j \in Jobs
      PROVE  JobSeen[j] =
               IF lease[j] # None THEN "granted"
               ELSE IF phase[j] \in {"new", "arrived", "released"} THEN "idle"
               ELSE IF phase[j] = "failed" THEN "over" ELSE "waiting"
  <2>1. JobSeen[j] =
          CASE lease[j] # None -> "granted"
            [] phase[j] \in {"new", "arrived", "released"} -> "idle"
            [] phase[j] = "failed" -> "over"
            [] OTHER -> "waiting"
    BY DEF JobSeen
  <2>2. phase[j] \in {"new", "arrived", "released", "failed"} => lease[j] = None
    BY DEF SlotInv, HandoverInv, QueuedOrHanded
  <2> QED  BY <2>1, <2>2
<1>2. ASSUME NEW p \in Providers
      PROVE  ShopSeen[p] =
               IF gone[p] THEN "closed"
               ELSE IF p \in ToSet(providers[Service[p]]) THEN "open" ELSE "new"
  <2>1. ShopSeen[p] =
          CASE gone[p] -> "closed"
            [] p \in ToSet(providers[Service[p]]) -> "open"
            [] OTHER -> "new"
    BY DEF ShopSeen
  <2>2. p \in ToSet(providers[Service[p]]) => ~gone[p]
    BY ServiceAssumption DEF SlotInv, AtHome
  <2> QED  BY <2>1, <2>2
<1>3. ASSUME NEW j \in Jobs, JobSeen[j] = "waiting"
      PROVE  j \in ToSet(waiters[Service[j]])
  <2>1. /\ lease[j] = None
        /\ phase[j] \notin {"new", "arrived", "released", "failed"}
        /\ phase[j] \in Phases
    BY <1>1, <1>3 DEF SlotInv, HandoverInv, TypeOK
  <2>2. phase[j] \in {"select", "quit"}
    BY <2>1 DEF Phases, SlotInv, HandoverInv, QueuedOrHanded
  <2> QED  BY <2>1, <2>2 DEF SlotInv, HandoverInv, QueuedOrHanded
<1>4. /\ JobSeen = [j \in Jobs |-> JobSeen[j]]
      /\ ShopSeen = [p \in Providers |-> ShopSeen[p]]
  BY DEF JobSeen, ShopSeen
<1> QED  BY <1>1, <1>2, <1>3, <1>4 DEF SeenAs

(* The same after a step. *)
LEMMA SeenValuesNext == SlotInv' => SeenAs'
BY SeenValues, PTL

(* A provider that looks open is listed, and the other way round. *)
LEMMA NoSlotBesideWaiter ==
  ASSUME SlotInv', NEW k \in Jobs, k \in ToSet(waiters'[Service[k]]),
         NEW p \in Providers, ShopSeen'[p] = "open", Service[p] = Service[k]
  PROVE  Slots[p] <= Cardinality({j \in Jobs : lease'[j] = p})
<1> DEFINE s == Service[k]
<1>1. s \in Services
  BY ServiceAssumption
<1>2. providers'[s] \in Seq(Providers) /\ waiters'[s] \in Seq(Jobs) /\ busy'[p] \in Int
  BY <1>1 DEF SlotInv, HandoverInv, TypeOK
<1>3. p \in ToSet(providers'[s]) /\ ~gone'[p]
  BY SeenValuesNext DEF SeenAs
<1>4. PICK i \in 1..Len(providers'[s]) : providers'[s][i] = p
  BY <1>2, <1>3, ToSetPlaces
<1>5. waiters'[s] # <<>>
  BY <1>2, ToSetPlaces
<1>6. i \notin Eligible(providers[s], busy)'
  BY <1>1, <1>5 DEF SlotInv, WorkConserving
<1>7. ~(busy'[p] < Slots[p])
  BY <1>3, <1>4, <1>6 DEF Eligible
<1>8. busy'[p] = Cardinality({j \in Jobs : lease'[j] = p})
  BY DEF SlotInv, SlotAccounting
<1>9. Slots[p] \in Int
  BY SlotsAssumption
<1> QED  BY <1>2, <1>7, <1>8, <1>9

(* SlotPool counts as the pool does. *)
LEMMA SameCount == \A S : Seen!Cardinality(S) = Cardinality(S)
BY Zenon DEF Cardinality, Seen!Cardinality

(* Leases may go to the jobs that ask, when the accounts are right after it. *)
LEMMA Grants ==
  ASSUME SlotInv', NEW asking \in SUBSET Jobs, NEW o,
         \A k \in asking : lease'[k] = None => k \in ToSet(waiters'[Service[k]]),
         \A k \in Jobs :
           \/ lease'[k] = o[k]
           \/ /\ k \in asking /\ o[k] = None
              /\ lease'[k] \in ToSet(providers'[Service[k]])
  PROVE  Seen!Granting(asking, o)
<1>1. \A k \in Jobs : Service[k] \in Services
  BY ServiceAssumption
<1>2. \A s \in Services : ToSet(providers'[s]) \subseteq Providers
  BY ToSetPlaces DEF SlotInv, HandoverInv, TypeOK
<1>3. ASSUME NEW k \in Jobs, lease'[k] \in ToSet(providers'[Service[k]])
      PROVE  /\ lease'[k] \in Providers
             /\ ShopSeen'[lease'[k]] = "open"
             /\ Service[lease'[k]] = Service[k]
  <2> DEFINE p == lease'[k]
  <2>1. p \in Providers /\ p \in ToSet(providers'[Service[k]])
    BY <1>1, <1>2, <1>3
  <2>2. Service[p] = Service[k] /\ ~gone'[p]
    BY <1>1, <2>1 DEF SlotInv, AtHome
  <2>3. ShopSeen'[p] = "open"
    <3>1. ShopSeen'[p] = IF gone'[p] THEN "closed"
                         ELSE IF p \in ToSet(providers'[Service[p]]) THEN "open" ELSE "new"
      BY <2>1, SeenValuesNext DEF SeenAs
    <3> QED  BY <2>1, <2>2, <3>1
  <2> QED  BY <2>1, <2>2, <2>3
<1>4. \A k \in Jobs :
        \/ lease'[k] = o[k]
        \/ /\ k \in asking /\ o[k] = None
           /\ lease'[k] \in Providers
           /\ ShopSeen'[lease'[k]] = "open"
           /\ Service[lease'[k]] = Service[k]
  BY <1>3
<1>5. \A p \in Providers :
        /\ Cardinality({j \in Jobs : lease'[j] = p}) <= Slots[p]
        /\ Cardinality({j \in Jobs : lease'[j] = p}) \in Int
        /\ Slots[p] \in Int
  BY SlotsAssumption DEF SlotInv, SlotAccounting, SlotsKept, HandoverInv, TypeOK
<1>6. ~\E j \in asking : \E p \in Providers :
         /\ lease'[j] = None
         /\ ShopSeen'[p] = "open"
         /\ Service[p] = Service[j]
         /\ Cardinality({k \in Jobs : lease'[k] = p}) < Slots[p]
  <2> SUFFICES ASSUME NEW j \in asking, NEW p \in Providers,
                      lease'[j] = None, ShopSeen'[p] = "open", Service[p] = Service[j],
                      Cardinality({k \in Jobs : lease'[k] = p}) < Slots[p]
               PROVE  FALSE
    OBVIOUS
  <2>1. j \in Jobs /\ j \in ToSet(waiters'[Service[j]])
    OBVIOUS
  <2>2. Slots[p] <= Cardinality({k \in Jobs : lease'[k] = p})
    BY <2>1, NoSlotBesideWaiter
  <2> QED  BY <1>5, <2>2
<1>7. \A p \in Providers : Cardinality({j \in Jobs : lease'[j] = p}) <= Slots[p]
  BY <1>5
<1> QED  BY <1>4, <1>6, <1>7, SameCount DEF Seen!Granting, Seen!Holding

(* Who gets a lease in a dispatch. *)
LEMMA DispatchGrants ==
  ASSUME TypeOK, NEW s \in Services, NEW prs \in Seq(Providers), NEW b, NEW l,
         dispatch(s, prs, b, l), NEW k \in Jobs
  PROVE  \/ lease'[k] = l[k]
         \/ k \in ToSet(waiters[s]) /\ lease'[k] \in ToSet(prs)
<1>1. PICK n \in 0..Len(waiters[s]) :
         \E g \in [1..n -> Providers] : HandOut(s, prs, b, l, n, g)
  BY DEF dispatch
<1>2. PICK g \in [1..n -> Providers] : HandOut(s, prs, b, l, n, g)
  BY <1>1
<1>3. CASE \E i \in 1..n : waiters[s][i] = k /\ lease'[k] = g[i]
  <2>1. PICK i \in 1..n : waiters[s][i] = k /\ lease'[k] = g[i]
    BY <1>3
  <2>2. waiters[s] \in Seq(Jobs) /\ i \in 1..Len(waiters[s])
    BY LenProperties DEF TypeOK
  <2>3. k \in ToSet(waiters[s])
    BY <2>1, <2>2, ToSetPlaces
  <2>4. IsBest(prs, Taken(b, g, i), g[i])
    BY <1>2 DEF HandOut
  <2>5. \E m \in 1..Len(prs) : prs[m] = g[i]
    BY <2>4 DEF IsBest, Eligible
  <2> QED  BY <2>1, <2>3, <2>5, ToSetPlaces
<1> QED  BY <1>2, <1>3, HandOutLease

(* The jobs that wait in SlotPool are those in the queues. *)
LEMMA WaitingSeen ==
  ASSUME SlotInv
  PROVE  /\ Seen!Waiting \subseteq Jobs
         /\ \A k \in Seen!Waiting :
              k \in ToSet(waiters[Service[k]]) /\ JobSeen[k] = "waiting"
         /\ \A s \in Services : \A k \in ToSet(waiters[s]) :
              k \in Seen!Waiting /\ Service[k] = s /\ lease[k] = None
<1>1. SeenAs
  BY SeenValues
<1>2. \A s \in Services : ToSet(waiters[s]) \subseteq Jobs
  BY ToSetPlaces DEF SlotInv, HandoverInv, TypeOK
<1>3. ASSUME NEW s \in Services, NEW k \in ToSet(waiters[s])
      PROVE  k \in Seen!Waiting /\ Service[k] = s /\ lease[k] = None
  <2>1. k \in Jobs /\ phase[k] \in {"select", "quit"} /\ lease[k] = None /\ Service[k] = s
    BY <1>2 DEF SlotInv, HandoverInv, QueuedOrHanded
  <2>2. JobSeen[k] = "waiting"
    BY <1>1, <2>1 DEF SeenAs
  <2> QED  BY <2>1, <2>2 DEF Seen!Waiting
<1> QED  BY <1>1, <1>3 DEF SeenAs, Seen!Waiting

(* Nothing that SlotPool can see has changed. *)
LEMMA NothingSeen ==
  ASSUME SlotInv, SlotInv', UNCHANGED <<providers, gone, lease>>,
         \A j \in Jobs : lease[j] = None =>
           \/ phase'[j] = phase[j]
           \/ {phase[j], phase'[j]} \subseteq {"new", "arrived", "released"}
           \/ {phase[j], phase'[j]} \subseteq {"select", "quit", "drain", "held"}
  PROVE  UNCHANGED Seen!svars
<1>1. SeenAs /\ SeenAs'
  BY SeenValues, SeenValuesNext
<1>2. ShopSeen' = ShopSeen
  BY DEF ShopSeen
<1>3. ASSUME NEW j \in Jobs PROVE JobSeen'[j] = JobSeen[j]
  BY <1>1 DEF SeenAs
<1>4. JobSeen' = JobSeen
  BY <1>1, <1>3 DEF SeenAs
<1> QED  BY <1>2, <1>4 DEF Seen!svars

(* Acquire asks. *)
LEMMA AcquireAsks ==
  ASSUME SlotInv, SlotInv', NEW j \in Jobs, AcquireFree(j) \/ AcquireWait(j)
  PROVE  Seen!Ask(j)
<1> DEFINE s == Service[j]
<1>1. SeenAs /\ SeenAs'
  BY SeenValues, SeenValuesNext
<1>2. TypeOK /\ TypeOK' /\ QueuedOrHanded /\ QueuedOrHanded' /\ s \in Services
  BY ServiceAssumption DEF SlotInv, HandoverInv
<1>3. phase[j] \in {"arrived", "released"} /\ lease[j] = None
  BY <1>2 DEF AcquireFree, AcquireWait, QueuedOrHanded
<1>4. JobSeen[j] = "idle"
  BY <1>1, <1>3 DEF SeenAs
<1>5. UNCHANGED <<providers, gone>>
  BY DEF AcquireFree, AcquireWait
<1>6. ShopSeen' = ShopSeen
  BY <1>5 DEF ShopSeen
<1>7. \A k \in Jobs \ {j} : phase'[k] = phase[k] /\ lease'[k] = lease[k]
  BY <1>2 DEF AcquireFree, AcquireWait, TypeOK
<1>8. \/ phase'[j] = "held" /\ lease'[j] \in ToSet(providers[s])
      \/ phase'[j] = "select" /\ lease'[j] = None
  <2>1. CASE AcquireFree(j)
    <3>1. PICK p \in Providers : IsBest(providers[s], busy, p) /\ lease' = [lease EXCEPT ![j] = p]
      BY <2>1 DEF AcquireFree
    <3>2. \E m \in 1..Len(providers[s]) : providers[s][m] = p
      BY <3>1 DEF IsBest, Eligible
    <3>3. providers[s] \in Seq(Providers)
      BY <1>2 DEF TypeOK
    <3>4. p \in ToSet(providers[s])
      BY <3>2, <3>3, ToSetPlaces
    <3> QED  BY <1>2, <2>1, <3>1, <3>4 DEF AcquireFree, TypeOK
  <2>2. CASE AcquireWait(j)
    BY <1>2, <1>3, <2>2 DEF AcquireWait, TypeOK
  <2> QED  BY <2>1, <2>2
<1>9. Seen!Granting(Seen!Waiting \cup {j}, lease)
  <2>1. Seen!Waiting \cup {j} \in SUBSET Jobs
    BY WaitingSeen
  <2>2. ASSUME NEW k \in Seen!Waiting \cup {j}, lease'[k] = None
        PROVE  k \in ToSet(waiters'[Service[k]])
    <3>1. k \in Jobs
      BY <2>1
    <3>2. phase'[k] \in {"select", "quit"}
      <4>1. CASE k = j
        BY <1>2, <1>8, <2>2, <4>1, NoneAssumption DEF QueuedOrHanded
      <4>2. CASE k # j
        <5>1. k \in ToSet(waiters[Service[k]]) /\ Service[k] \in Services
          BY <3>1, <4>2, WaitingSeen, ServiceAssumption
        <5>2. phase[k] \in {"select", "quit"}
          BY <1>2, <5>1 DEF QueuedOrHanded
        <5> QED  BY <1>7, <3>1, <4>2, <5>2
      <4> QED  BY <4>1, <4>2
    <3> QED  BY <1>2, <2>2, <3>1, <3>2 DEF QueuedOrHanded
  <2>3. \A k \in Jobs :
          \/ lease'[k] = lease[k]
          \/ /\ k \in Seen!Waiting \cup {j} /\ lease[k] = None
             /\ lease'[k] \in ToSet(providers'[Service[k]])
    BY <1>3, <1>5, <1>7, <1>8
  <2> QED  BY <2>1, <2>2, <2>3, Grants
<1>10. Seen!Granted([JobSeen EXCEPT ![j] = "waiting"])
  <2>1. ASSUME NEW k \in Jobs
        PROVE  JobSeen'[k] = IF lease'[k] # None THEN "granted"
                             ELSE [JobSeen EXCEPT ![j] = "waiting"][k]
    <3>1. CASE k = j
      <4>1. [JobSeen EXCEPT ![j] = "waiting"][k] = "waiting"
        BY <1>1, <3>1 DEF SeenAs
      <4> QED  BY <1>1, <1>2, <1>8, <3>1, <4>1 DEF SeenAs, QueuedOrHanded
    <3>2. CASE k # j
      <4>1. [JobSeen EXCEPT ![j] = "waiting"][k] = JobSeen[k]
        BY <1>1, <3>2 DEF SeenAs
      <4> QED  BY <1>1, <1>7, <3>2, <4>1 DEF SeenAs
    <3> QED  BY <3>1, <3>2
  <2>2. JobSeen' = [k \in Jobs |-> JobSeen'[k]]
    BY <1>1 DEF SeenAs
  <2> QED  BY <2>1, <2>2 DEF Seen!Granted
<1> QED  BY <1>4, <1>6, <1>9, <1>10 DEF Seen!Ask

(* abandon withdraws a job that is still queued. *)
LEMMA AbandonWithdraws ==
  ASSUME SlotInv, SlotInv', NEW j \in Jobs, AbandonQueued(j)
  PROVE  Seen!Withdraw(j)
<1>1. SeenAs /\ SeenAs'
  BY SeenValues, SeenValuesNext
<1>2. TypeOK /\ QueuedOrHanded' /\ Service[j] \in Services
  BY ServiceAssumption DEF SlotInv, HandoverInv
<1>3. /\ UNCHANGED <<providers, gone, lease>>
      /\ phase[j] = "quit" /\ phase' = [phase EXCEPT ![j] = "failed"]
  BY DEF AbandonQueued
<1>4. phase'[j] = "failed" /\ \A k \in Jobs \ {j} : phase'[k] = phase[k]
  BY <1>2, <1>3 DEF TypeOK
<1>5. lease[j] = None
  BY <1>2, <1>3, <1>4 DEF QueuedOrHanded
<1>6. JobSeen[j] = "waiting"
  BY <1>1, <1>3, <1>5 DEF SeenAs
<1>7. JobSeen' = [JobSeen EXCEPT ![j] = "over"]
  <2>1. ASSUME NEW k \in Jobs PROVE JobSeen'[k] = [JobSeen EXCEPT ![j] = "over"][k]
    <3>1. CASE k = j
      <4>1. [JobSeen EXCEPT ![j] = "over"][k] = "over"
        BY <1>1, <3>1 DEF SeenAs
      <4> QED  BY <1>1, <1>3, <1>4, <1>5, <3>1, <4>1 DEF SeenAs
    <3>2. CASE k # j
      <4>1. [JobSeen EXCEPT ![j] = "over"][k] = JobSeen[k]
        BY <1>1, <3>2 DEF SeenAs
      <4> QED  BY <1>1, <1>3, <1>4, <3>2, <4>1 DEF SeenAs
    <3> QED  BY <3>1, <3>2
  <2> QED  BY <1>1, <2>1 DEF SeenAs
<1>8. ShopSeen' = ShopSeen
  BY <1>3 DEF ShopSeen
<1> QED  BY <1>3, <1>6, <1>7, <1>8 DEF Seen!Withdraw

(* Releasing a lease finishes the job and grants its slot in one step. *)
LEMMA GiveBackFinishes ==
  ASSUME SlotInv, SlotInv', NEW j \in Jobs, NEW ph \in {"released", "failed"},
         phase[j] \in {"drain", "held"}, phase' = [phase EXCEPT ![j] = ph], GiveBack(j)
  PROVE  Seen!Finish(j)
<1> DEFINE p == lease[j]
           s == Service[p]
           l == [lease EXCEPT ![j] = None]
           how == IF ph = "released" THEN "idle" ELSE "over"
<1>1. SeenAs /\ SeenAs'
  BY SeenValues, SeenValuesNext
<1>2. TypeOK /\ TypeOK' /\ QueuedOrHanded /\ QueuedOrHanded'
  BY DEF SlotInv, HandoverInv
<1>3. p \in Providers /\ s \in Services /\ p # None
  BY <1>2, ServiceAssumption DEF QueuedOrHanded, TypeOK
<1>4. JobSeen[j] = "granted"
  BY <1>1, <1>3 DEF SeenAs
<1>5. UNCHANGED <<providers, gone>>
  BY DEF GiveBack
<1>6. ShopSeen' = ShopSeen
  BY <1>5 DEF ShopSeen
<1>7. phase'[j] = ph /\ \A k \in Jobs \ {j} : phase'[k] = phase[k]
  BY <1>2 DEF TypeOK
<1>8. l[j] = None /\ \A k \in Jobs \ {j} : l[k] = lease[k]
  BY <1>2 DEF TypeOK
<1>9. lease'[j] = None
  BY <1>2, <1>7 DEF QueuedOrHanded
<1>10. ASSUME NEW k \in Jobs
       PROVE  \/ lease'[k] = l[k]
              \/ k \in Seen!Waiting /\ l[k] = None /\ lease'[k] \in ToSet(providers'[Service[k]])
  <2>1. dispatch(s, providers[s], [busy EXCEPT ![p] = @ - 1], l)
    BY DEF GiveBack
  <2>2. providers[s] \in Seq(Providers)
    BY <1>2, <1>3 DEF TypeOK
  <2>3. \/ lease'[k] = l[k]
        \/ k \in ToSet(waiters[s]) /\ lease'[k] \in ToSet(providers[s])
    <3> HIDE DEF s, l
    <3> QED  BY <1>2, <1>3, <2>1, <2>2, DispatchGrants
  <2>4. k \in ToSet(waiters[s]) => k \in Seen!Waiting /\ Service[k] = s /\ l[k] = None
    BY <1>3, <1>8, WaitingSeen
  <2> QED  BY <1>5, <2>3, <2>4
<1>11. Seen!Granting(Seen!Waiting, l)
  <2>1. Seen!Waiting \in SUBSET Jobs
    BY WaitingSeen
  <2>2. ASSUME NEW k \in Seen!Waiting, lease'[k] = None
        PROVE  k \in ToSet(waiters'[Service[k]])
    <3>1. k \in Jobs /\ k \in ToSet(waiters[Service[k]]) /\ Service[k] \in Services
      BY <2>1, WaitingSeen, ServiceAssumption
    <3>2. phase[k] \in {"select", "quit"}
      BY <1>2, <3>1 DEF QueuedOrHanded
    <3>3. phase'[k] \in {"select", "quit"}
      BY <1>7, <3>1, <3>2
    <3> QED  BY <1>2, <2>2, <3>1, <3>3 DEF QueuedOrHanded
  <2> HIDE DEF l
  <2> QED  BY <1>10, <2>1, <2>2, Grants
<1>12. Seen!Granted([JobSeen EXCEPT ![j] = how])
  <2>1. ASSUME NEW k \in Jobs
        PROVE  JobSeen'[k] = IF lease'[k] # None THEN "granted"
                             ELSE [JobSeen EXCEPT ![j] = how][k]
    <3>1. CASE k = j
      <4>1. [JobSeen EXCEPT ![j] = how][k] = how
        BY <1>1, <3>1 DEF SeenAs
      <4> QED  BY <1>1, <1>7, <1>9, <3>1, <4>1 DEF SeenAs
    <3>2. CASE k # j
      <4>1. [JobSeen EXCEPT ![j] = how][k] = JobSeen[k]
        BY <1>1, <3>2 DEF SeenAs
      <4>2. lease'[k] = None => lease[k] = None
        BY <1>8, <1>10, <3>2
      <4> QED  BY <1>1, <1>7, <3>2, <4>1, <4>2 DEF SeenAs
    <3> QED  BY <3>1, <3>2
  <2>2. JobSeen' = [k \in Jobs |-> JobSeen'[k]]
    BY <1>1 DEF SeenAs
  <2> QED  BY <2>1, <2>2 DEF Seen!Granted
<1>13. \E st \in {"idle", "over"} : Seen!Granted([JobSeen EXCEPT ![j] = st])
  BY <1>12
<1> QED  BY <1>4, <1>6, <1>11, <1>13 DEF Seen!Finish

(* A provider that joins opens its slots, and they are granted at once. *)
LEMMA AddOpens ==
  ASSUME SlotInv, SlotInv', NEW p \in Providers, AddProvider(p)
  PROVE  Seen!Open(p)
<1> DEFINE s == Service[p]
           prs == Append(providers[s], p)
<1>1. SeenAs /\ SeenAs'
  BY SeenValues, SeenValuesNext
<1>2. TypeOK /\ TypeOK' /\ QueuedOrHanded /\ QueuedOrHanded' /\ s \in Services
  BY ServiceAssumption DEF SlotInv, HandoverInv
<1>3. /\ p \notin ToSet(providers[s]) /\ ~gone[p]
      /\ providers' = [providers EXCEPT ![s] = prs]
      /\ dispatch(s, prs, busy, lease)
      /\ UNCHANGED <<gone, phase>>
  BY DEF AddProvider
<1>4. ShopSeen[p] = "new"
  BY <1>1, <1>3 DEF SeenAs
<1>5. /\ prs \in Seq(Providers)
      /\ \A x : x \in ToSet(prs) <=> x \in ToSet(providers[s]) \/ x = p
  <2> DEFINE q == providers[s]
  <2>1. q \in Seq(Providers)
    BY <1>2 DEF TypeOK
  <2>2. prs = Enqueue(q, p, FALSE)
    BY DEF Enqueue
  <2> HIDE DEF q
  <2>3. /\ Enqueue(q, p, FALSE) \in Seq(Providers)
        /\ \A x : x \in ToSet(Enqueue(q, p, FALSE)) <=> x \in ToSet(q) \/ x = p
    BY <2>1, EnqueueSet
  <2> QED  BY <2>2, <2>3 DEF q
<1>6. providers'[s] = prs /\ \A t \in Services \ {s} : providers'[t] = providers[t]
  BY <1>2, <1>3 DEF TypeOK
<1>7. ShopSeen' = [ShopSeen EXCEPT ![p] = "open"]
  <2>1. ASSUME NEW x \in Providers PROVE ShopSeen'[x] = [ShopSeen EXCEPT ![p] = "open"][x]
    <3> HIDE DEF prs
    <3>1. Service[x] \in Services
      BY ServiceAssumption
    <3>2. CASE x = p
      <4>1. [ShopSeen EXCEPT ![p] = "open"][x] = "open"
        BY <1>1, <3>2 DEF SeenAs
      <4> QED  BY <1>1, <1>3, <1>5, <1>6, <3>2, <4>1 DEF SeenAs
    <3>3. CASE x # p
      <4>1. [ShopSeen EXCEPT ![p] = "open"][x] = ShopSeen[x]
        BY <1>1, <3>3 DEF SeenAs
      <4>2. x \in ToSet(providers'[Service[x]]) <=> x \in ToSet(providers[Service[x]])
        BY <1>5, <1>6, <3>1, <3>3
      <4> QED  BY <1>1, <1>3, <3>3, <4>1, <4>2 DEF SeenAs
    <3> QED  BY <3>2, <3>3
  <2> QED  BY <1>1, <2>1 DEF SeenAs
<1>8. ASSUME NEW k \in Jobs
      PROVE  \/ lease'[k] = lease[k]
             \/ k \in Seen!Waiting /\ lease[k] = None /\ lease'[k] \in ToSet(providers'[Service[k]])
  <2>1. \/ lease'[k] = lease[k]
        \/ k \in ToSet(waiters[s]) /\ lease'[k] \in ToSet(prs)
    <3> HIDE DEF prs, s
    <3> QED  BY <1>2, <1>3, <1>5, DispatchGrants
  <2>2. k \in ToSet(waiters[s]) => k \in Seen!Waiting /\ Service[k] = s /\ lease[k] = None
    BY <1>2, WaitingSeen
  <2> QED  BY <1>6, <2>1, <2>2
<1>9. Seen!Granting(Seen!Waiting, lease)
  <2>1. Seen!Waiting \in SUBSET Jobs
    BY WaitingSeen
  <2>2. ASSUME NEW k \in Seen!Waiting, lease'[k] = None
        PROVE  k \in ToSet(waiters'[Service[k]])
    <3>1. k \in Jobs /\ k \in ToSet(waiters[Service[k]]) /\ Service[k] \in Services
      BY <2>1, WaitingSeen, ServiceAssumption
    <3>2. phase'[k] \in {"select", "quit"}
      BY <1>2, <1>3, <3>1 DEF QueuedOrHanded
    <3> QED  BY <1>2, <2>2, <3>1, <3>2 DEF QueuedOrHanded
  <2> QED  BY <1>8, <2>1, <2>2, Grants
<1>10. Seen!Granted(JobSeen)
  <2>1. ASSUME NEW k \in Jobs
        PROVE  JobSeen'[k] = IF lease'[k] # None THEN "granted" ELSE JobSeen[k]
    <3>1. lease'[k] = None => lease[k] = None
      BY <1>8
    <3> QED  BY <1>1, <1>3, <3>1 DEF SeenAs
  <2>2. JobSeen' = [k \in Jobs |-> JobSeen'[k]]
    BY <1>1 DEF SeenAs
  <2> QED  BY <2>1, <2>2 DEF Seen!Granted
<1> QED  BY <1>4, <1>7, <1>9, <1>10 DEF Seen!Open

(* A provider that leaves closes, and takes no lease away. *)
LEMMA RemoveCloses ==
  ASSUME SlotInv, SlotInv', NEW p \in Providers, RemoveProvider(p)
  PROVE  Seen!Close(p)
<1> DEFINE s == Service[p]
           q == providers[s]
<1>1. SeenAs /\ SeenAs'
  BY SeenValues, SeenValuesNext
<1>2. TypeOK /\ s \in Services /\ q \in Seq(Providers) /\ IsInjective(q)
  BY ServiceAssumption DEF SlotInv, HandoverInv, TypeOK, AtHome
<1>3. /\ gone' = [gone EXCEPT ![p] = TRUE]
      /\ UNCHANGED <<lease, phase>>
  BY DEF RemoveProvider
<1>4. PICK i \in 1..Len(q) : q[i] = p /\ providers' = [providers EXCEPT ![s] = RemoveAt(@, i)]
  BY DEF RemoveProvider
<1>5. p \in ToSet(q)
  <2> HIDE DEF q
  <2> QED  BY <1>2, <1>4, ToSetPlaces
<1>6. ShopSeen[p] = "open"
  BY <1>1, <1>2, <1>5 DEF SeenAs, SlotInv, AtHome
<1>7. \A x : x \in ToSet(RemoveAt(q, i)) <=> x \in ToSet(q) /\ x # p
  <2> HIDE DEF q
  <2>1. \A x : x \in ToSet(RemoveAt(q, i)) <=> x \in ToSet(q) /\ x # q[i]
    BY <1>2, <1>4, RemoveAtSet
  <2> QED  BY <1>4, <2>1
<1>8. providers'[s] = RemoveAt(q, i) /\ \A t \in Services \ {s} : providers'[t] = providers[t]
  BY <1>2, <1>4 DEF TypeOK
<1>9. gone'[p] /\ \A x \in Providers \ {p} : gone'[x] = gone[x]
  BY <1>2, <1>3 DEF TypeOK
<1>10. ShopSeen' = [ShopSeen EXCEPT ![p] = "closed"]
  <2>1. ASSUME NEW x \in Providers PROVE ShopSeen'[x] = [ShopSeen EXCEPT ![p] = "closed"][x]
    <3>1. Service[x] \in Services
      BY ServiceAssumption
    <3>2. CASE x = p
      <4>1. [ShopSeen EXCEPT ![p] = "closed"][x] = "closed"
        BY <1>1, <3>2 DEF SeenAs
      <4> QED  BY <1>1, <1>9, <3>2, <4>1 DEF SeenAs
    <3>3. CASE x # p
      <4>1. [ShopSeen EXCEPT ![p] = "closed"][x] = ShopSeen[x]
        BY <1>1, <3>3 DEF SeenAs
      <4>2. x \in ToSet(providers'[Service[x]]) <=> x \in ToSet(providers[Service[x]])
        BY <1>7, <1>8, <3>1, <3>3
      <4> QED  BY <1>1, <1>9, <3>3, <4>1, <4>2 DEF SeenAs
    <3> QED  BY <3>2, <3>3
  <2> QED  BY <1>1, <2>1 DEF SeenAs
<1>11. JobSeen' = JobSeen
  BY <1>3 DEF JobSeen
<1> QED  BY <1>3, <1>6, <1>10, <1>11 DEF Seen!Close

(* Every step of the pool is one of SlotPool, or none. *)
LEMMA StepIsSeen ==
  SlotInv /\ SlotInv' /\ [Next]_vars => [Seen!SlotNext]_(Seen!svars)
<1> SUFFICES ASSUME SlotInv, SlotInv', [Next]_vars
             PROVE  Seen!SlotNext \/ UNCHANGED Seen!svars
  OBVIOUS
<1>t. TypeOK /\ QueuedOrHanded
  BY DEF SlotInv, HandoverInv
<1>1. ASSUME NEW j \in Jobs, JobStep(j) PROVE Seen!SlotNext \/ UNCHANGED Seen!svars
  <2>1. CASE Arrive(j) \/ Receive(j) \/ GiveUp(j) \/ Cancel(j)
    <3>1. UNCHANGED <<providers, gone, lease>>
      BY <2>1 DEF Arrive, Receive, GiveUp, Cancel
    <3>2. \A k \in Jobs : lease[k] = None =>
           \/ phase'[k] = phase[k]
           \/ {phase[k], phase'[k]} \subseteq {"new", "arrived", "released"}
           \/ {phase[k], phase'[k]} \subseteq {"select", "quit", "drain", "held"}
      BY <1>t, <2>1 DEF Arrive, Receive, GiveUp, Cancel, TypeOK
    <3> QED  BY <3>1, <3>2, NothingSeen
  <2>2. CASE AbandonLate(j)
    <3>1. UNCHANGED <<providers, gone, lease>>
      BY <2>2 DEF AbandonLate
    <3>2. \A k \in Jobs : lease[k] = None =>
           \/ phase'[k] = phase[k]
           \/ {phase[k], phase'[k]} \subseteq {"new", "arrived", "released"}
           \/ {phase[k], phase'[k]} \subseteq {"select", "quit", "drain", "held"}
      BY <1>t, <2>2 DEF AbandonLate, TypeOK
    <3> QED  BY <3>1, <3>2, NothingSeen
  <2>3. CASE AcquireFree(j) \/ AcquireWait(j)
    BY <2>3, AcquireAsks DEF Seen!SlotNext
  <2>4. CASE AbandonQueued(j)
    BY <2>4, AbandonWithdraws DEF Seen!SlotNext
  <2>5. CASE Drain(j)
    <3>1. lease[j] # None
      BY <1>t, <2>5 DEF Drain, QueuedOrHanded
    <3>2. Seen!Finish(j)
      BY <2>5, <3>1, GiveBackFinishes DEF Drain
    <3> QED  BY <3>2 DEF Seen!SlotNext
  <2>6. CASE Release(j)
    <3>1. Seen!Finish(j)
      BY <2>6, GiveBackFinishes DEF Release
    <3> QED  BY <3>1 DEF Seen!SlotNext
  <2> QED  BY <1>1, <2>1, <2>2, <2>3, <2>4, <2>5, <2>6 DEF JobStep
<1>2. ASSUME NEW p \in Providers, AddProvider(p) PROVE Seen!SlotNext
  BY <1>2, AddOpens DEF Seen!SlotNext
<1>3. ASSUME NEW p \in Providers, RemoveProvider(p) PROVE Seen!SlotNext
  BY <1>3, RemoveCloses DEF Seen!SlotNext
<1>4. CASE Tick \/ Rest \/ UNCHANGED vars
  <2>1. UNCHANGED <<providers, gone, lease, phase>>
    BY <1>4 DEF Tick, Rest, vars
  <2> QED  BY <2>1, NothingSeen
<1> QED  BY <1>1, <1>2, <1>3, <1>4 DEF Next

(* The pool starts as SlotPool does. *)
LEMMA StartIsSeen == Init => Seen!SlotInit
<1> SUFFICES ASSUME Init PROVE Seen!SlotInit
  OBVIOUS
<1>1. SeenAs
  BY SlotInitial, SeenValues
<1>2. \A j \in Jobs : JobSeen[j] = "idle"
  BY <1>1 DEF Init, SeenAs
<1>3. \A p \in Providers : ShopSeen[p] = "new"
  <2>1. \A s \in Services : ToSet(providers[s]) = {}
    BY DEF Init, ToSet
  <2>2. \A p \in Providers : Service[p] \in Services /\ ~gone[p]
    BY ServiceAssumption DEF Init
  <2> QED  BY <1>1, <2>1, <2>2 DEF SeenAs
<1> QED  BY <1>1, <1>2, <1>3 DEF Init, SeenAs, Seen!SlotInit

(* The history variables of PoolOrder do not constrain the pool. *)
LEMMA OrderIsSpec == OrderSpec => Spec
<1>1. OrderInit => Init
  BY DEF OrderInit
<1>2. [OrderNext]_ovars => [Next]_vars
  BY DEF OrderNext, ovars
<1> QED  BY <1>1, <1>2, PTL DEF OrderSpec, Spec

(***************************************************************************)
(* The pool with its queues, its select outside the lock and its clock     *)
(* implements SlotPool: a granted slot is never taken back nor granted     *)
(* twice, none lies idle beside a waiting job, and a lost provider's       *)
(* leases stay out until their jobs give them back.                        *)
(***************************************************************************)
THEOREM PoolImplementsSlotPool == OrderSpec => ImplementsSlotPool
<1>1. OrderSpec => []SlotInv
  BY OrderIsSpec, SlotInvariance, PTL
<1>2. OrderSpec => Seen!SlotInit /\ [][Seen!SlotNext]_(Seen!svars)
  BY <1>1, OrderIsSpec, StartIsSeen, StepIsSeen, PTL DEF Spec
<1> QED  BY <1>2 DEF ImplementsSlotPool, Seen!SlotSpec

-----------------------------------------------------------------------------
(* The order of service. *)

(* The sequences that PoolOrder appends to its line. *)
LEMMA SmallSetToSeq ==
  /\ SetToSeq({}) = <<>>
  /\ \A x : SetToSeq({x}) = <<x>>
<1>1. SetToSeq({}) = <<>>
  <2>1. Cardinality({}) = 0
    BY FS_EmptySet
  <2>2. SetToSeq({}) = CHOOSE f \in [1..0 -> {}] : IsInjective(f)
    BY <2>1 DEF SetToSeq
  <2>3. <<>> \in [1..0 -> {}] /\ IsInjective(<<>>)
    BY DEF IsInjective
  <2>4. \A f \in [1..0 -> {}] : f = <<>>
    OBVIOUS
  <2> QED  BY <2>2, <2>3, <2>4
<1>2. ASSUME NEW x PROVE SetToSeq({x}) = <<x>>
  <2>1. Cardinality({x}) = 1
    BY FS_Singleton
  <2>2. SetToSeq({x}) = CHOOSE f \in [1..1 -> {x}] : IsInjective(f)
    BY <2>1 DEF SetToSeq
  <2>3. <<x>> \in [1..1 -> {x}] /\ IsInjective(<<x>>)
    BY DEF IsInjective
  <2>4. \A f \in [1..1 -> {x}] : f = <<x>>
    OBVIOUS
  <2> QED  BY <2>2, <2>3, <2>4
<1> QED  BY <1>1, <1>2

(* Cutting an element out keeps the order of the rest. *)
LEMMA BeforeRemoveAt ==
  ASSUME NEW S, NEW q \in Seq(S), NEW i \in 1..Len(q), NEW x, NEW y,
         Before(RemoveAt(q, i), x, y)
  PROVE  Before(q, x, y)
<1> DEFINE r == RemoveAt(q, i)
           at(k) == IF k < i THEN k ELSE k + 1
<1>1. Len(q) \in Nat /\ i \in Nat
  BY LenProperties
<1>2. Len(r) = Len(q) - 1 /\ \A k \in 1..(Len(q) - 1) : r[k] = IF k < i THEN q[k] ELSE q[k + 1]
  BY RemoveAtElements
<1>3. PICK a \in 1..Len(r), b \in 1..Len(r) : a < b /\ r[a] = x /\ r[b] = y
  BY DEF Before
<1> HIDE DEF r
<1>4. at(a) \in 1..Len(q) /\ at(b) \in 1..Len(q) /\ at(a) < at(b)
  BY <1>1, <1>2, <1>3
<1>5. q[at(a)] = x /\ q[at(b)] = y
  BY <1>2, <1>3
<1> HIDE DEF at
<1> QED  BY <1>4, <1>5 DEF Before

(* Cutting the first ones off keeps it too. *)
LEMMA BeforeSuffix ==
  ASSUME NEW S, NEW q \in Seq(S), NEW n \in 0..Len(q), NEW x, NEW y,
         Before(SubSeq(q, n + 1, Len(q)), x, y)
  PROVE  Before(q, x, y)
<1> DEFINE r == SubSeq(q, n + 1, Len(q))
<1>1. Len(q) \in Nat /\ n \in Nat /\ n <= Len(q)
  BY LenProperties
<1>2. Len(r) = Len(q) - n /\ \A k \in 1..(Len(q) - n) : r[k] = q[n + k]
  BY SuffixElements
<1>3. PICK a \in 1..Len(r), b \in 1..Len(r) : a < b /\ r[a] = x /\ r[b] = y
  BY DEF Before
<1> HIDE DEF r
<1>4. n + a \in 1..Len(q) /\ n + b \in 1..Len(q) /\ n + a < n + b
  BY <1>1, <1>2, <1>3
<1>5. q[n + a] = x /\ q[n + b] = y
  BY <1>2, <1>3
<1> QED  BY <1>4, <1>5 DEF Before

(* What comes before what when an element is put at the tail. *)
LEMMA BeforeAppend ==
  ASSUME NEW S, NEW q \in Seq(S), NEW e \in S, NEW x, NEW y
  PROVE  Before(Append(q, e), x, y) <=> Before(q, x, y) \/ (x \in ToSet(q) /\ y = e)
<1> DEFINE r == Append(q, e)
<1>1. /\ Len(q) \in Nat /\ Len(r) = Len(q) + 1 /\ r[Len(q) + 1] = e
      /\ \A k \in 1..Len(q) : r[k] = q[k]
  BY LenProperties, AppendProperties
<1> HIDE DEF r
<1>2. x \in ToSet(q) <=> \E k \in 1..Len(q) : q[k] = x
  BY ToSetPlaces
<1>3. ASSUME Before(r, x, y) PROVE Before(q, x, y) \/ (x \in ToSet(q) /\ y = e)
  <2>1. PICK a \in 1..Len(r), b \in 1..Len(r) : a < b /\ r[a] = x /\ r[b] = y
    BY <1>3 DEF Before
  <2>2. a \in 1..Len(q) /\ q[a] = x
    BY <1>1, <2>1
  <2>3. CASE b = Len(q) + 1
    BY <1>1, <1>2, <2>1, <2>2, <2>3
  <2>4. CASE b # Len(q) + 1
    <3>1. b \in 1..Len(q)
      BY <1>1, <2>1, <2>4
    <3> QED  BY <1>1, <2>1, <2>2, <3>1 DEF Before
  <2> QED  BY <2>3, <2>4
<1>4. ASSUME Before(q, x, y) PROVE Before(r, x, y)
  <2>1. PICK a \in 1..Len(q), b \in 1..Len(q) : a < b /\ q[a] = x /\ q[b] = y
    BY <1>4 DEF Before
  <2>2. a \in 1..Len(r) /\ b \in 1..Len(r) /\ r[a] = x /\ r[b] = y
    BY <1>1, <2>1
  <2> QED  BY <2>1, <2>2 DEF Before
<1>5. ASSUME x \in ToSet(q), y = e PROVE Before(r, x, y)
  <2>1. PICK a \in 1..Len(q) : q[a] = x
    BY <1>2, <1>5
  <2>2. a \in 1..Len(r) /\ Len(q) + 1 \in 1..Len(r) /\ a < Len(q) + 1
    BY <1>1
  <2>3. r[a] = x /\ r[Len(q) + 1] = y
    BY <1>1, <1>5, <2>1
  <2> QED  BY <2>2, <2>3 DEF Before
<1> QED  BY <1>3, <1>4, <1>5 DEF r

(* And when it is put at the head. *)
LEMMA BeforeCons ==
  ASSUME NEW S, NEW q \in Seq(S), NEW e \in S, NEW x, NEW y,
         Before(Cons(e, q), x, y)
  PROVE  Before(q, x, y) \/ (x = e /\ y \in ToSet(q))
<1> DEFINE r == <<e>> \o q
<1>1. /\ Len(q) \in Nat /\ Len(r) = Len(q) + 1 /\ r[1] = e
      /\ \A k \in 1..Len(q) : r[k + 1] = q[k]
  BY LenProperties
<1>2. Cons(e, q) = r
  BY DEF Cons
<1> HIDE DEF r
<1>3. PICK a \in 1..Len(r), b \in 1..Len(r) : a < b /\ r[a] = x /\ r[b] = y
  BY <1>2 DEF Before
<1>4. b - 1 \in 1..Len(q) /\ q[b - 1] = y
  <2>1. b - 1 \in 1..Len(q) /\ (b - 1) + 1 = b
    BY <1>1, <1>3
  <2> QED  BY <1>1, <1>3, <2>1
<1>5. CASE a = 1
  <2>1. y \in ToSet(q)
    BY <1>4, ToSetPlaces
  <2> QED  BY <1>1, <1>3, <1>5, <2>1
<1>6. CASE a # 1
  <2>1. a - 1 \in 1..Len(q) /\ (a - 1) + 1 = a /\ a - 1 < b - 1
    BY <1>1, <1>3, <1>6
  <2>2. q[a - 1] = x
    BY <1>1, <1>3, <2>1
  <2> QED  BY <1>4, <2>1, <2>2 DEF Before
<1> QED  BY <1>5, <1>6

(* In a sequence without repetitions, before is a strict order. *)
LEMMA BeforeOneWay ==
  ASSUME NEW S, NEW q \in Seq(S), IsInjective(q), NEW x, NEW y,
         Before(q, x, y), Before(q, y, x)
  PROVE  FALSE
<1>1. PICK a \in 1..Len(q), b \in 1..Len(q) : a < b /\ q[a] = x /\ q[b] = y
  BY DEF Before
<1>2. PICK c \in 1..Len(q), d \in 1..Len(q) : c < d /\ q[c] = y /\ q[d] = x
  BY DEF Before
<1>3. a = d /\ b = c
  BY <1>1, <1>2, ToSetPlaces
<1>4. Len(q) \in Nat
  BY LenProperties
<1> QED  BY <1>1, <1>2, <1>3, <1>4

(* The elements that are before others are in the sequence. *)
LEMMA BeforeIn ==
  ASSUME NEW S, NEW q \in Seq(S), NEW x, NEW y, Before(q, x, y)
  PROVE  x \in ToSet(q) /\ y \in ToSet(q)
BY ToSetPlaces DEF Before

(***************************************************************************)
(* The line has every job that has called Acquire, once; a job that has    *)
(* not was not requeued; among the others the queues keep to the line, and *)
(* a requeued one is ahead.                                                *)
(***************************************************************************)
LineOK ==
  /\ line \in Seq(Jobs) /\ IsInjective(line)
  /\ \A j \in Jobs : j \in ToSet(line) <=> phase[j] \notin {"new", "arrived"}
  /\ \A j \in Jobs : phase[j] \in {"new", "arrived"} => j \notin again

(* Jobs that were never requeued wait in the order of the line. *)
FreshKeepLine ==
  \A s \in Services : \A x, y \in Jobs :
    Before(waiters[s], x, y) /\ {x, y} \cap again = {} => Before(line, x, y)

(* RequeuedFirst as a relation between jobs. *)
AgainAhead ==
  \A s \in Services : \A x, y \in Jobs :
    Before(waiters[s], x, y) /\ y \in again => x \in again

(* The inductive invariant of the order. *)
OrderInv == SlotInv /\ LineOK /\ FreshKeepLine /\ AgainAhead

(* What dispatch does to the order of the queues, and whom it serves. *)
LEMMA DispatchInOrder ==
  ASSUME TypeOK, NEW s \in Services, NEW prs, NEW b, NEW l, dispatch(s, prs, b, l)
  PROVE  /\ \A t \in Services : \A x, y : Before(waiters'[t], x, y) => Before(waiters[t], x, y)
         /\ \A j, k \in Jobs : lease'[k] # l[k] /\ j \in ToSet(waiters'[s]) =>
              Before(waiters[s], k, j)
<1>1. PICK n \in 0..Len(waiters[s]) :
         \E g \in [1..n -> Providers] : HandOut(s, prs, b, l, n, g)
  BY DEF dispatch
<1>2. PICK g \in [1..n -> Providers] : HandOut(s, prs, b, l, n, g)
  BY <1>1
<1> DEFINE q == waiters[s]
           r == SubSeq(q, n + 1, Len(q))
<1>3. q \in Seq(Jobs) /\ Len(q) \in Nat /\ n \in Nat /\ n <= Len(q)
  BY LenProperties DEF TypeOK
<1>4. waiters'[s] = r /\ \A t \in Services \ {s} : waiters'[t] = waiters[t]
  BY <1>2 DEF HandOut, TypeOK
<1>5. r \in Seq(Jobs) /\ Len(r) = Len(q) - n /\ \A i \in 1..(Len(q) - n) : r[i] = q[n + i]
  <2> HIDE DEF q
  <2> QED  BY <1>3, SuffixElements
<1>6. ASSUME NEW t \in Services, NEW x, NEW y, Before(waiters'[t], x, y)
      PROVE  Before(waiters[t], x, y)
  <2>1. CASE t = s
    <3>1. Before(r, x, y)
      BY <1>4, <1>6, <2>1
    <3>2. Before(q, x, y)
      <4> HIDE DEF q
      <4> QED  BY <1>3, <3>1, BeforeSuffix
    <3> QED  BY <2>1, <3>2
  <2>2. CASE t # s
    BY <1>4, <1>6, <2>2
  <2> QED  BY <2>1, <2>2
<1>7. ASSUME NEW j \in Jobs, NEW k \in Jobs, lease'[k] # l[k], j \in ToSet(waiters'[s])
      PROVE  Before(waiters[s], k, j)
  <2>1. PICK i \in 1..n : q[i] = k
    BY <1>2, <1>7, HandOutLease
  <2> HIDE DEF q, r
  <2>2. PICK m \in 1..Len(r) : r[m] = j
    BY <1>4, <1>5, <1>7, ToSetPlaces
  <2>3. n + m \in 1..Len(q) /\ q[n + m] = j /\ i \in 1..Len(q) /\ i < n + m
    BY <1>3, <1>5, <2>2
  <2>4. Before(q, k, j)
    BY <2>1, <2>3 DEF Before
  <2> QED  BY <2>4 DEF q
<1> QED  BY <1>6, <1>7

(* A step in which nobody enters Acquire, and the queues only get shorter. *)
LEMMA OrdinaryOrder ==
  ASSUME LineOK, FreshKeepLine, AgainAhead,
         \A j \in Jobs : /\ phase[j] = "arrived" => phase'[j] = "arrived"
                         /\ phase[j] = "released" => phase'[j] = "released"
                         /\ phase'[j] \in {"new", "arrived"} <=> phase[j] \in {"new", "arrived"},
         \A s \in Services : \A x, y : Before(waiters'[s], x, y) => Before(waiters[s], x, y),
         line' = line \o SetToSeq(Joining),
         again' = again \cup {j \in Jobs : phase[j] = "released" /\ phase'[j] # "released"}
  PROVE  LineOK' /\ FreshKeepLine' /\ AgainAhead' /\ line' = line /\ again' = again
<1>1. Joining = {}
  BY DEF Joining
<1>2. line' = line
  <2>1. line \in Seq(Jobs)
    BY DEF LineOK
  <2>2. line' = line \o <<>>
    BY <1>1, SmallSetToSeq
  <2> QED  BY <2>1, <2>2, ConcatEmptySeq
<1>3. again' = again
  OBVIOUS
<1>4. LineOK'
  BY <1>2, <1>3 DEF LineOK
<1>5. FreshKeepLine' /\ AgainAhead'
  BY <1>2, <1>3 DEF FreshKeepLine, AgainAhead
<1> QED  BY <1>2, <1>3, <1>4, <1>5

(* A job that calls Acquire joins the line, unless it was in it already. *)
LEMMA LineJoined ==
  ASSUME TypeOK, LineOK, NEW j \in Jobs, NEW ph \in {"held", "select"},
         phase[j] \in {"arrived", "released"}, phase' = [phase EXCEPT ![j] = ph],
         line' = line \o SetToSeq(Joining),
         again' = again \cup {k \in Jobs : phase[k] = "released" /\ phase'[k] # "released"}
  PROVE  /\ line' = IF phase[j] = "arrived" THEN Append(line, j) ELSE line
         /\ again' = IF phase[j] = "released" THEN again \cup {j} ELSE again
         /\ j \in again' <=> j \in again \/ phase[j] = "released"
         /\ LineOK'
<1>1. phase'[j] = ph /\ \A k \in Jobs \ {j} : phase'[k] = phase[k]
  BY DEF TypeOK
<1>2. line \in Seq(Jobs)
  BY DEF LineOK
<1>3. again' = IF phase[j] = "released" THEN again \cup {j} ELSE again
  <2>1. \A k \in Jobs : phase[k] = "released" /\ phase'[k] # "released"
                        <=> k = j /\ phase[j] = "released"
    BY <1>1
  <2> QED  BY <2>1
<1>4. CASE phase[j] = "arrived"
  <2>1. Joining = {j}
    BY <1>1, <1>4 DEF Joining
  <2>2. line' = line \o <<j>>
    BY <2>1, SmallSetToSeq
  <2>3. line' = Append(line, j)
    BY <1>2, <2>2, AppendIsConcat
  <2>4. j \notin ToSet(line) /\ j \notin again
    BY <1>4 DEF LineOK
  <2>5. /\ line' \in Seq(Jobs) /\ IsInjective(line')
        /\ \A x : x \in ToSet(line') <=> x \in ToSet(line) \/ x = j
    <3>1. line' = Enqueue(line, j, FALSE)
      BY <2>3 DEF Enqueue
    <3>2. IsInjective(line)
      BY DEF LineOK
    <3>3. /\ Enqueue(line, j, FALSE) \in Seq(Jobs)
          /\ IsInjective(Enqueue(line, j, FALSE))
          /\ \A x : x \in ToSet(Enqueue(line, j, FALSE)) <=> x \in ToSet(line) \/ x = j
      BY <1>2, <2>4, <3>2, EnqueueSet
    <3> QED  BY <3>1, <3>3
  <2>6. LineOK'
    BY <1>1, <1>3, <1>4, <2>5 DEF LineOK
  <2> QED  BY <1>3, <1>4, <2>3, <2>6
<1>5. CASE phase[j] = "released"
  <2>1. Joining = {}
    BY <1>1, <1>5 DEF Joining
  <2>2. line' = line \o <<>>
    BY <2>1, SmallSetToSeq
  <2>3. line' = line
    BY <1>2, <2>2, ConcatEmptySeq
  <2>4. LineOK'
    BY <1>1, <1>3, <1>5, <2>3 DEF LineOK
  <2> QED  BY <1>3, <1>5, <2>3, <2>4
<1> QED  BY <1>4, <1>5

(* A job in a queue is in the line, and is not being requeued. *)
LEMMA QueuedInLine ==
  ASSUME SlotInv, LineOK, NEW s \in Services, NEW x \in ToSet(waiters[s])
  PROVE  x \in Jobs /\ x \in ToSet(line) /\ phase[x] \in {"select", "quit"} /\ Service[x] = s
<1>1. x \in Jobs
  BY ToSetPlaces DEF SlotInv, HandoverInv, TypeOK
<1>2. phase[x] \in {"select", "quit"} /\ Service[x] = s
  BY DEF SlotInv, HandoverInv, QueuedOrHanded
<1> QED  BY <1>1, <1>2 DEF LineOK

(* The fast path: nobody is queued. *)
LEMMA AcquireFreeOrder ==
  ASSUME OrderInv, NEW j \in Jobs, AcquireFree(j),
         line' = line \o SetToSeq(Joining),
         again' = again \cup {k \in Jobs : phase[k] = "released" /\ phase'[k] # "released"}
  PROVE  LineOK' /\ FreshKeepLine' /\ AgainAhead'
<1>1. TypeOK /\ LineOK
  BY DEF OrderInv, SlotInv, HandoverInv
<1>2. /\ phase[j] \in {"arrived", "released"} /\ phase' = [phase EXCEPT ![j] = "held"]
      /\ waiters' = waiters
  BY DEF AcquireFree
<1>3. /\ line' = IF phase[j] = "arrived" THEN Append(line, j) ELSE line
      /\ again' = IF phase[j] = "released" THEN again \cup {j} ELSE again
      /\ LineOK'
  BY <1>1, <1>2, LineJoined
<1>4. ASSUME NEW s \in Services, NEW x \in Jobs, NEW y \in Jobs, Before(waiters'[s], x, y)
      PROVE  /\ {x, y} \cap again' = {} => Before(line', x, y)
             /\ y \in again' => x \in again'
  <2>1. waiters[s] \in Seq(Jobs) /\ line \in Seq(Jobs) /\ Before(waiters[s], x, y)
    BY <1>1, <1>2, <1>4 DEF TypeOK, LineOK
  <2>2. x \in ToSet(waiters[s]) /\ y \in ToSet(waiters[s])
    BY <2>1, BeforeIn
  <2>3. phase[x] \in {"select", "quit"} /\ phase[y] \in {"select", "quit"}
    BY <1>1, <2>2, QueuedInLine DEF OrderInv
  <2>4. x # j /\ y # j
    BY <1>2, <2>3
  <2>5. Before(line, x, y) => Before(line', x, y)
    BY <1>3, <2>1, BeforeAppend
  <2> QED  BY <1>3, <2>1, <2>4, <2>5 DEF OrderInv, FreshKeepLine, AgainAhead
<1> QED  BY <1>3, <1>4 DEF FreshKeepLine, AgainAhead

(* The slow path: a new job at the tail, a requeued one at the head. *)
LEMMA AcquireWaitOrder ==
  ASSUME OrderInv, NEW j \in Jobs, AcquireWait(j),
         line' = line \o SetToSeq(Joining),
         again' = again \cup {k \in Jobs : phase[k] = "released" /\ phase'[k] # "released"}
  PROVE  LineOK' /\ FreshKeepLine' /\ AgainAhead'
<1> DEFINE s == Service[j]
           q == waiters[s]
<1>1. TypeOK /\ LineOK /\ s \in Services /\ q \in Seq(Jobs) /\ line \in Seq(Jobs)
  BY ServiceAssumption DEF OrderInv, SlotInv, HandoverInv, TypeOK, LineOK
<1>2. /\ phase[j] \in {"arrived", "released"} /\ phase' = [phase EXCEPT ![j] = "select"]
      /\ waiters' = [waiters EXCEPT ![s] = Enqueue(q, j, phase[j] = "released")]
  BY DEF AcquireWait
<1>3. /\ line' = IF phase[j] = "arrived" THEN Append(line, j) ELSE line
      /\ again' = IF phase[j] = "released" THEN again \cup {j} ELSE again
      /\ LineOK'
  BY <1>1, <1>2, LineJoined
<1>4. \A t \in Services : \A x \in ToSet(waiters[t]) :
        x # j /\ x \in ToSet(line) /\ Service[x] = t
  <2> SUFFICES ASSUME NEW t \in Services, NEW x \in ToSet(waiters[t])
               PROVE  x # j /\ x \in ToSet(line) /\ Service[x] = t
    OBVIOUS
  <2>1. x \in ToSet(line) /\ phase[x] \in {"select", "quit"} /\ Service[x] = t
    BY <1>1, QueuedInLine DEF OrderInv
  <2> QED  BY <1>2, <2>1
<1>5. ASSUME NEW t \in Services, NEW x \in Jobs, NEW y \in Jobs, Before(waiters[t], x, y)
      PROVE  /\ {x, y} \cap again' = {} => Before(line', x, y)
             /\ y \in again' => x \in again'
  <2>1. waiters[t] \in Seq(Jobs)
    BY <1>1 DEF TypeOK
  <2>2. x \in ToSet(waiters[t]) /\ y \in ToSet(waiters[t])
    BY <1>5, <2>1, BeforeIn
  <2>3. x # j /\ y # j
    BY <1>4, <2>2
  <2>4. Before(line, x, y) => Before(line', x, y)
    BY <1>1, <1>3, BeforeAppend
  <2> QED  BY <1>3, <1>5, <2>3, <2>4 DEF OrderInv, FreshKeepLine, AgainAhead
<1>6. ASSUME NEW t \in Services, NEW x \in Jobs, NEW y \in Jobs, Before(waiters'[t], x, y)
      PROVE  /\ {x, y} \cap again' = {} => Before(line', x, y)
             /\ y \in again' => x \in again'
  <2>1. CASE t # s
    <3>1. waiters'[t] = waiters[t]
      BY <1>1, <1>2, <2>1 DEF TypeOK
    <3> QED  BY <1>5, <1>6, <3>1
  <2>2. CASE t = s /\ phase[j] = "arrived"
    <3>1. waiters'[t] = Append(q, j)
      BY <1>1, <1>2, <2>2 DEF Enqueue, TypeOK
    <3>2. Before(q, x, y) \/ (x \in ToSet(q) /\ y = j)
      <4> HIDE DEF q
      <4> QED  BY <1>1, <1>6, <3>1, BeforeAppend
    <3>3. CASE Before(q, x, y)
      BY <1>5, <2>2, <3>3
    <3>4. CASE x \in ToSet(q) /\ y = j
      <4>1. x \in ToSet(line)
        BY <1>1, <1>4, <3>4
      <4>2. Before(line', x, y)
        BY <1>1, <1>3, <2>2, <3>4, <4>1, BeforeAppend
      <4>3. y \notin again'
        BY <1>1, <1>3, <2>2, <3>4 DEF LineOK
      <4> QED  BY <4>2, <4>3
    <3> QED  BY <3>2, <3>3, <3>4
  <2>3. CASE t = s /\ phase[j] = "released"
    <3>1. waiters'[t] = Cons(j, q)
      BY <1>1, <1>2, <2>3 DEF Enqueue, TypeOK
    <3>2. Before(q, x, y) \/ (x = j /\ y \in ToSet(q))
      <4> HIDE DEF q
      <4> QED  BY <1>1, <1>6, <3>1, BeforeCons
    <3>3. CASE Before(q, x, y)
      BY <1>5, <2>3, <3>3
    <3>4. CASE x = j
      BY <1>3, <2>3, <3>4
    <3> QED  BY <3>2, <3>3, <3>4
  <2> QED  BY <1>2, <2>1, <2>2, <2>3
<1> QED  BY <1>3, <1>6 DEF FreshKeepLine, AgainAhead

(* Every other step is an ordinary one. *)
LEMMA OthersAreOrdinary ==
  ASSUME SlotInv, Next, \A j \in Jobs : ~AcquireFree(j) /\ ~AcquireWait(j)
  PROVE  /\ \A j \in Jobs :
              /\ phase[j] = "arrived" => phase'[j] = "arrived"
              /\ phase[j] = "released" => phase'[j] = "released"
              /\ phase'[j] \in {"new", "arrived"} <=> phase[j] \in {"new", "arrived"}
         /\ \A s \in Services : \A x, y : Before(waiters'[s], x, y) => Before(waiters[s], x, y)
<1> DEFINE Same == \A k \in Jobs :
              /\ phase[k] = "arrived" => phase'[k] = "arrived"
              /\ phase[k] = "released" => phase'[k] = "released"
              /\ phase'[k] \in {"new", "arrived"} <=> phase[k] \in {"new", "arrived"}
           Shorter == \A s \in Services : \A x, y :
              Before(waiters'[s], x, y) => Before(waiters[s], x, y)
<1>t. TypeOK /\ QueuedOrHanded
  BY DEF SlotInv, HandoverInv
<1>1. ASSUME NEW j \in Jobs, JobStep(j) PROVE Same /\ Shorter
  <2>1. CASE Arrive(j) \/ Receive(j) \/ GiveUp(j) \/ AbandonLate(j) \/ Cancel(j)
    BY <1>t, <2>1 DEF Arrive, Receive, GiveUp, AbandonLate, Cancel, TypeOK
  <2>2. CASE AbandonQueued(j)
    <3> DEFINE s == Service[j]
               q == waiters[s]
    <3>1. PICK i \in 1..Len(q) : waiters' = [waiters EXCEPT ![s] = RemoveAt(@, i)]
      BY <2>2 DEF AbandonQueued
    <3>2. s \in Services /\ q \in Seq(Jobs)
      BY <1>t, ServiceAssumption DEF TypeOK
    <3>3. waiters'[s] = RemoveAt(q, i) /\ \A t \in Services \ {s} : waiters'[t] = waiters[t]
      BY <1>t, <3>1, <3>2 DEF TypeOK
    <3>4. ASSUME NEW x, NEW y, Before(RemoveAt(q, i), x, y) PROVE Before(q, x, y)
      <4> HIDE DEF q
      <4> QED  BY <3>1, <3>2, <3>4, BeforeRemoveAt
    <3>5. Shorter
      <4> SUFFICES ASSUME NEW t \in Services, NEW x, NEW y, Before(waiters'[t], x, y)
                   PROVE  Before(waiters[t], x, y)
        OBVIOUS
      <4>1. CASE t = s
        BY <3>3, <3>4, <4>1
      <4>2. CASE t # s
        BY <3>3, <4>2
      <4> QED  BY <4>1, <4>2
    <3>6. Same
      BY <1>t, <2>2 DEF AbandonQueued, TypeOK
    <3> QED  BY <3>5, <3>6
  <2>3. ASSUME GiveBack(j), lease[j] # None PROVE Shorter
    <3> DEFINE s == Service[lease[j]]
               prs == providers[s]
               b == [busy EXCEPT ![lease[j]] = @ - 1]
               l == [lease EXCEPT ![j] = None]
    <3>1. dispatch(s, prs, b, l) /\ s \in Services
      BY <1>t, <2>3, ServiceAssumption DEF GiveBack, TypeOK
    <3> HIDE DEF s, prs, b, l
    <3> QED  BY <1>t, <3>1, DispatchInOrder
  <2>4. CASE Drain(j)
    <3>1. lease[j] # None
      BY <1>t, <2>4 DEF Drain, QueuedOrHanded
    <3>2. Same
      BY <1>t, <2>4 DEF Drain, TypeOK
    <3> QED  BY <2>3, <2>4, <3>1, <3>2 DEF Drain
  <2>5. CASE Release(j)
    <3>1. lease[j] # None
      BY <1>t, <2>5 DEF Release, QueuedOrHanded
    <3>2. Same
      BY <1>t, <2>5 DEF Release, TypeOK
    <3> QED  BY <2>3, <2>5, <3>1, <3>2 DEF Release
  <2> QED  BY <1>1, <2>1, <2>2, <2>4, <2>5 DEF JobStep
<1>2. ASSUME NEW p \in Providers, AddProvider(p) PROVE Same /\ Shorter
  <2> DEFINE s == Service[p]
             prs == Append(providers[s], p)
  <2>1. dispatch(s, prs, busy, lease) /\ s \in Services /\ phase' = phase
    BY <1>2, ServiceAssumption DEF AddProvider
  <2> HIDE DEF s, prs
  <2>2. Shorter
    BY <1>t, <2>1, DispatchInOrder
  <2> QED  BY <2>1, <2>2
<1>3. ASSUME NEW p \in Providers, RemoveProvider(p) PROVE Same /\ Shorter
  BY <1>3 DEF RemoveProvider
<1>4. CASE Tick \/ Rest
  BY <1>4 DEF Tick, Rest, vars
<1> QED  BY <1>1, <1>2, <1>3, <1>4 DEF Next

(* Every step keeps the order. *)
LEMMA OrderStep == OrderInv /\ [OrderNext]_ovars => OrderInv'
<1> SUFFICES ASSUME OrderInv, [OrderNext]_ovars PROVE OrderInv'
  OBVIOUS
<1>1. SlotInv /\ LineOK /\ FreshKeepLine /\ AgainAhead
  BY DEF OrderInv
<1>2. SlotInv'
  <2>1. [Next]_vars
    BY DEF OrderNext, ovars
  <2> QED  BY <1>1, <2>1, SlotStep
<1>3. CASE UNCHANGED ovars
  BY <1>1, <1>2, <1>3 DEF ovars, vars, OrderInv, LineOK, FreshKeepLine, AgainAhead
<1>4. CASE OrderNext
  <2>1. /\ Next
        /\ line' = line \o SetToSeq(Joining)
        /\ again' = again \cup {j \in Jobs : phase[j] = "released" /\ phase'[j] # "released"}
    BY <1>4 DEF OrderNext
  <2>2. CASE \E j \in Jobs : AcquireFree(j)
    BY <1>2, <2>1, <2>2, AcquireFreeOrder DEF OrderInv
  <2>3. CASE \E j \in Jobs : AcquireWait(j)
    BY <1>2, <2>1, <2>3, AcquireWaitOrder DEF OrderInv
  <2>4. CASE \A j \in Jobs : ~AcquireFree(j) /\ ~AcquireWait(j)
    BY <1>1, <1>2, <2>1, <2>4, OthersAreOrdinary, OrdinaryOrder DEF OrderInv
  <2> QED  BY <2>2, <2>3, <2>4
<1> QED  BY <1>3, <1>4

(* And so does the start. *)
LEMMA OrderInitial == OrderInit => OrderInv
<1> SUFFICES ASSUME OrderInit PROVE OrderInv
  OBVIOUS
<1>1. SlotInv /\ Init /\ line = <<>> /\ again = {}
  BY SlotInitial DEF OrderInit
<1>2. LineOK
  BY <1>1 DEF LineOK, Init, IsInjective, ToSet
<1>3. \A s \in Services : \A x, y \in Jobs : ~Before(waiters[s], x, y)
  BY <1>1 DEF Init, Before
<1> QED  BY <1>1, <1>2, <1>3 DEF OrderInv, FreshKeepLine, AgainAhead

(***************************************************************************)
(* A requeued job is ahead of every job that never had a provider, however *)
(* many are requeued and whatever leaves the queue in between.             *)
(***************************************************************************)
THEOREM RequeuedAreFirst == OrderSpec => []RequeuedFirst
<1>1. OrderInv => RequeuedFirst
  <2> SUFFICES ASSUME OrderInv, NEW s \in Services,
                      NEW i \in 1..Len(waiters[s]), NEW k \in 1..Len(waiters[s]),
                      i < k, waiters[s][k] \in again
               PROVE  waiters[s][i] \in again
    BY DEF RequeuedFirst
  <2>1. waiters[s] \in Seq(Jobs)
    BY DEF OrderInv, SlotInv, HandoverInv, TypeOK
  <2>2. waiters[s][i] \in Jobs /\ waiters[s][k] \in Jobs
    BY <2>1, ElementOfSeq
  <2>3. Before(waiters[s], waiters[s][i], waiters[s][k])
    BY DEF Before
  <2> QED  BY <2>2, <2>3 DEF OrderInv, AgainAhead
<1> QED  BY <1>1, OrderInitial, OrderStep, PTL DEF OrderSpec

(* A step that gives a job a slot leaves no older fresh one behind. *)
LEMMA ServedInOrder ==
  ASSUME OrderInv, OrderNext, NEW j \in Jobs, NEW k \in Jobs,
         lease[k] = None, lease'[k] # None, Service[j] = Service[k],
         {j, k} \cap again' = {}, Before(line', j, k)
  PROVE  j \notin ToSet(waiters'[Service[j]])
<1> SUFFICES ASSUME j \in ToSet(waiters'[Service[j]]) PROVE FALSE
  OBVIOUS
<1>1. /\ Next
      /\ line' = line \o SetToSeq(Joining)
      /\ again' = again \cup {x \in Jobs : phase[x] = "released" /\ phase'[x] # "released"}
  BY DEF OrderNext
<1>2. SlotInv /\ TypeOK /\ QueuedOrHanded /\ LineOK /\ FreshKeepLine /\ AgainAhead
  BY DEF OrderInv, SlotInv, HandoverInv
<1>3. Service[j] \in Services /\ waiters[Service[j]] \in Seq(Jobs)
  BY <1>2, ServiceAssumption DEF TypeOK
<1>4. ASSUME NEW s \in Services, NEW prs, NEW b, NEW l,
             dispatch(s, prs, b, l), l[k] = None,
             \A x \in Jobs : ~AcquireFree(x) /\ ~AcquireWait(x)
      PROVE  FALSE
  <2>1. line' = line /\ again' = again
    BY <1>1, <1>2, <1>4, OthersAreOrdinary, OrdinaryOrder
  <2>2. k \in ToSet(waiters[s])
    <3>1. PICK n \in 0..Len(waiters[s]) :
            \E g \in [1..n -> Providers] : HandOut(s, prs, b, l, n, g)
      BY <1>4 DEF dispatch
    <3>2. PICK g \in [1..n -> Providers] : HandOut(s, prs, b, l, n, g)
      BY <3>1
    <3>3. PICK i \in 1..n : waiters[s][i] = k
      BY <1>4, <3>2, HandOutLease
    <3>4. waiters[s] \in Seq(Jobs) /\ i \in 1..Len(waiters[s])
      BY <1>2, <1>4, LenProperties DEF TypeOK
    <3> QED  BY <3>3, <3>4, ToSetPlaces
  <2>3. Service[j] = s
    BY <1>2, <1>4, <2>2 DEF QueuedOrHanded
  <2>4. Before(waiters[s], k, j)
    BY <1>2, <1>4, <2>3, DispatchInOrder
  <2>5. Before(line, k, j)
    BY <1>2, <1>4, <2>1, <2>4 DEF FreshKeepLine
  <2> QED  BY <1>2, <2>1, <2>5, BeforeOneWay DEF LineOK
<1>5. ASSUME NEW x \in Jobs, AcquireFree(x) PROVE FALSE
  <2>1. x = k
    BY <1>2, <1>5 DEF AcquireFree, TypeOK
  <2>2. waiters'[Service[j]] = <<>>
    BY <1>5, <2>1 DEF AcquireFree
  <2> QED  BY <2>2 DEF ToSet
<1>6. ASSUME NEW x \in Jobs, AcquireWait(x) PROVE FALSE
  BY <1>6 DEF AcquireWait
<1>7. ASSUME NEW x \in Jobs, GiveBack(x), lease[x] # None PROVE FALSE
  <2> DEFINE s == Service[lease[x]]
             prs == providers[s]
             b == [busy EXCEPT ![lease[x]] = @ - 1]
             l == [lease EXCEPT ![x] = None]
  <2>1. dispatch(s, prs, b, l) /\ s \in Services /\ l[k] = None
    BY <1>2, <1>7, ServiceAssumption DEF GiveBack, TypeOK
  <2> HIDE DEF s, prs, b, l
  <2> QED  BY <1>4, <1>5, <1>6, <2>1
<1>8. ASSUME NEW x \in Jobs, JobStep(x) PROVE FALSE
  <2>1. CASE Drain(x) \/ Release(x)
    <3>1. lease[x] # None
      BY <1>2, <2>1 DEF Drain, Release, QueuedOrHanded
    <3> QED  BY <1>7, <2>1, <3>1 DEF Drain, Release
  <2>2. CASE Arrive(x) \/ Receive(x) \/ GiveUp(x) \/ AbandonQueued(x) \/ AbandonLate(x) \/ Cancel(x)
    BY <2>2 DEF Arrive, Receive, GiveUp, AbandonQueued, AbandonLate, Cancel
  <2> QED  BY <1>5, <1>6, <1>8, <2>1, <2>2 DEF JobStep
<1>9. ASSUME NEW p \in Providers, AddProvider(p) PROVE FALSE
  <2> DEFINE s == Service[p]
             prs == Append(providers[s], p)
  <2>1. dispatch(s, prs, busy, lease) /\ s \in Services
    BY <1>9, ServiceAssumption DEF AddProvider
  <2> HIDE DEF s, prs
  <2> QED  BY <1>4, <1>5, <1>6, <2>1
<1>10. ASSUME NEW p \in Providers, RemoveProvider(p) PROVE FALSE
  BY <1>10 DEF RemoveProvider
<1>11. CASE Tick \/ Rest
  BY <1>11 DEF Tick, Rest, vars
<1> QED  BY <1>1, <1>8, <1>9, <1>10, <1>11 DEF Next

(***************************************************************************)
(* First come, first served among the jobs that were never requeued: no    *)
(* step of dispatch or of the fast path serves one while an older one of   *)
(* the same service still waits.                                           *)
(***************************************************************************)
THEOREM FreshServedInOrder == OrderSpec => FreshInOrder
<1>1. OrderInv /\ [OrderNext]_ovars =>
        [\A j, k \in Jobs :
           /\ lease[k] = None /\ lease'[k] # None
           /\ Service[j] = Service[k]
           /\ {j, k} \cap again' = {}
           /\ Before(line', j, k)
           => j \notin ToSet(waiters'[Service[j]])]_ovars
  BY ServedInOrder
<1> QED
  BY <1>1, OrderInitial, OrderStep, PTL DEF OrderSpec, FreshInOrder
=============================================================================
