-------------------------------- MODULE Pool --------------------------------
(***************************************************************************)
(* The server's queues and slot accounting (src/internal/pool/pool.go).    *)
(*                                                                         *)
(* Every operation of the pool runs under Pool.mu, so it is one atomic     *)
(* action here.  What is not atomic is Acquire: it unlocks before its      *)
(* select and locks again in abandon, and that is why a job has a phase.   *)
(* A lease is put in the waiter's one-place channel by whoever frees the   *)
(* slot; lease[j] is that lease from the moment take makes it until        *)
(* Release gives it back, and phase[j] says whether j has received it.     *)
(***************************************************************************)
EXTENDS Integers, Sequences, FiniteSets, SequencesExt

CONSTANTS
  Jobs,        \* the jobs submitted to the server, one relay goroutine each
  Providers,   \* the *Provider objects that register ever makes
  Services,    \* the names of services
  Service,     \* the service of each job and of each provider
  Slots,       \* Provider.Slots, the max_concurrent announced in HELLO
  Priority,    \* Provider.Priority, smaller is better
  Timeout,     \* Pool.timeout, in ticks of the clock
  MaxTime,     \* bound: the clock stops here
  None         \* no provider

ASSUME JobsAssumption == IsFiniteSet(Jobs)
ASSUME NoneAssumption == None \notin Providers
ASSUME ServiceAssumption == Service \in [Jobs \cup Providers -> Services]
ASSUME SlotsAssumption == Slots \in [Providers -> Nat]
ASSUME PriorityAssumption == Priority \in [Providers -> Nat]
ASSUME TimeAssumption == Timeout \in Nat /\ MaxTime \in Nat

VARIABLES
  providers,   \* service.providers: the providers of each service, in order
  waiters,     \* service.waiters: the jobs in each service's queue, head first
  busy,        \* Provider.busy
  gone,        \* Provider.gone
  lease,       \* the provider of the lease made for a job and not yet released
  phase,       \* where the job's goroutine is in Acquire and around it
  arrived,     \* relay's time.Now(), handed to every Acquire as since
  deadline,    \* when the timer of the current Acquire fires
  cancelled,   \* the job's context is done
  now          \* the clock

vars == <<providers, waiters, busy, gone, lease, phase, arrived, deadline,
          cancelled, now>>

(***************************************************************************)
(* "new"      the relay has not started                                    *)
(* "arrived"  the relay runs and will call Acquire with front = FALSE      *)
(* "select"   Acquire waits in its select                                  *)
(* "quit"     the timer or the context won the select; abandon has not     *)
(*            taken the lock yet                                           *)
(* "drain"    abandon did not find the waiter and now empties its channel  *)
(* "held"     Acquire returned the lease                                   *)
(* "released" the lease was released; the relay ends, or calls Acquire     *)
(*            again with front = TRUE                                      *)
(* "failed"   Acquire returned an error                                    *)
(***************************************************************************)
Phases == {"new", "arrived", "select", "quit", "drain", "held", "released",
           "failed"}

TypeOK ==
  /\ providers \in [Services -> Seq(Providers)]
  /\ waiters \in [Services -> Seq(Jobs)]
  /\ busy \in [Providers -> Int]
  /\ gone \in [Providers -> BOOLEAN]
  /\ lease \in [Jobs -> Providers \cup {None}]
  /\ phase \in [Jobs -> Phases]
  /\ arrived \in [Jobs -> Nat]
  /\ deadline \in [Jobs -> Nat]
  /\ cancelled \in [Jobs -> BOOLEAN]
  /\ now \in Nat

Init ==
  /\ providers = [s \in Services |-> <<>>]
  /\ waiters = [s \in Services |-> <<>>]
  /\ busy = [p \in Providers |-> 0]
  /\ gone = [p \in Providers |-> FALSE]
  /\ lease = [j \in Jobs |-> None]
  /\ phase = [j \in Jobs |-> "new"]
  /\ arrived = [j \in Jobs |-> 0]
  /\ deadline = [j \in Jobs |-> 0]
  /\ cancelled = [j \in Jobs |-> FALSE]
  /\ now = 0

-----------------------------------------------------------------------------
(* The choice of a provider. *)

(* Provider.free under the slot counts b. *)
free(b, p) == Slots[p] - b[p]

(* Mutant of Eligible: busy > Slots where best skips busy >= Slots. *)
EligibleOffByOne(prs, b) ==
  {i \in 1..Len(prs) : ~gone[prs[i]] /\ b[prs[i]] <= Slots[prs[i]]}

(* The places in prs of the providers that best does not skip. *)
Eligible(prs, b) == {i \in 1..Len(prs) : ~gone[prs[i]] /\ b[prs[i]] < Slots[prs[i]]}

(* best's preference, with the ties its strict comparisons leave to order. *)
Preferred(prs, b, i, k) ==
  \/ Priority[prs[i]] < Priority[prs[k]]
  \/ /\ Priority[prs[i]] = Priority[prs[k]]
     /\ \/ free(b, prs[i]) > free(b, prs[k])
        \/ free(b, prs[i]) = free(b, prs[k]) /\ i <= k

(* p is what best() returns. *)
IsBest(prs, b, p) ==
  \E i \in Eligible(prs, b) :
     /\ prs[i] = p
     /\ \A k \in Eligible(prs, b) : Preferred(prs, b, i, k)

(* best() as the code computes it, one provider after the other. *)
best(prs, b) ==
  LET Wins(pr, cur) ==
        \/ cur = None
        \/ Priority[pr] < Priority[cur]
        \/ Priority[pr] = Priority[cur] /\ free(b, pr) > free(b, cur)
      scan[i \in 0..Len(prs)] ==
        IF i = 0 THEN None
        ELSE IF i \in Eligible(prs, b) /\ Wins(prs[i], scan[i - 1])
             THEN prs[i] ELSE scan[i - 1]
  IN scan[Len(prs)]

(***************************************************************************)
(* dispatch's loop, in closed form.  It hands out n leases, the i-th to    *)
(* the provider g[i] and to the i-th waiter, and stops when the queue is   *)
(* empty or best returns nil.  Each choice sees the slots taken by the     *)
(* ones before it.                                                         *)
(***************************************************************************)
Taken(b, g, i) ==
  [p \in Providers |-> b[p] + Cardinality({k \in 1..(i - 1) : g[k] = p})]

HandOut(s, prs, b, l, n, g) ==
  /\ \A i \in 1..n : IsBest(prs, Taken(b, g, i), g[i])
  /\ n = Len(waiters[s]) \/ Eligible(prs, Taken(b, g, n + 1)) = {}
  /\ waiters' = [waiters EXCEPT ![s] = SubSeq(@, n + 1, Len(@))]
  /\ busy' = Taken(b, g, n + 1)
  /\ lease' = [j \in Jobs |->
                 IF \E i \in 1..n : waiters[s][i] = j
                 THEN g[CHOOSE i \in 1..n : waiters[s][i] = j]
                 ELSE l[j]]

dispatch(s, prs, b, l) ==
  \E n \in 0..Len(waiters[s]) : \E g \in [1..n -> Providers] :
    HandOut(s, prs, b, l, n, g)

-----------------------------------------------------------------------------
(* The operations. *)

(* The relay of job j starts and notes when it did. *)
Arrive(j) ==
  /\ phase[j] = "new"
  /\ now + Timeout <= MaxTime
  /\ phase' = [phase EXCEPT ![j] = "arrived"]
  /\ arrived' = [arrived EXCEPT ![j] = now]
  /\ UNCHANGED <<providers, waiters, busy, gone, lease, deadline, cancelled, now>>

(* Acquire when nobody is ahead and a provider is free: take it at once. *)
AcquireFree(j) ==
  LET s == Service[j] IN
  /\ phase[j] \in {"arrived", "released"}
  /\ waiters[s] = <<>>
  /\ \E p \in Providers :
       /\ IsBest(providers[s], busy, p)
       /\ busy' = [busy EXCEPT ![p] = @ + 1]
       /\ lease' = [lease EXCEPT ![j] = p]
  /\ phase' = [phase EXCEPT ![j] = "held"]
  /\ UNCHANGED <<providers, waiters, gone, arrived, deadline, cancelled, now>>

(* Mutants of Enqueue: every job to the head; every job to the tail. *)
EnqueueHead(queue, j, front) == Cons(j, queue)
EnqueueTail(queue, j, front) == Append(queue, j)

(* The queue with job j put in it, at its head when the job is requeued. *)
Enqueue(queue, j, front) == IF front THEN Cons(j, queue) ELSE Append(queue, j)

(* Mutant of TimerAt: every attempt waits a whole timeout of its own. *)
TimerAtRestarted(j) == now + Timeout

(* When the timer of an Acquire fires: since.Add(p.timeout). *)
TimerAt(j) == arrived[j] + Timeout

(* Acquire when it has to wait: into the queue, then the select. *)
AcquireWait(j) ==
  LET s == Service[j] IN
  /\ phase[j] \in {"arrived", "released"}
  /\ waiters[s] # <<>> \/ Eligible(providers[s], busy) = {}
  /\ waiters' = [waiters EXCEPT ![s] = Enqueue(@, j, phase[j] = "released")]
  /\ deadline' = [deadline EXCEPT ![j] = TimerAt(j)]
  /\ phase' = [phase EXCEPT ![j] = "select"]
  /\ UNCHANGED <<providers, busy, gone, lease, arrived, cancelled, now>>

(* The select's first case: the lease handed over is received. *)
Receive(j) ==
  /\ phase[j] = "select"
  /\ lease[j] # None
  /\ phase' = [phase EXCEPT ![j] = "held"]
  /\ UNCHANGED <<providers, waiters, busy, gone, lease, arrived, deadline,
                 cancelled, now>>

(* Mutant of GiveUp: the select has no timer. *)
GiveUpNoTimer(j) ==
  /\ phase[j] = "select"
  /\ cancelled[j]
  /\ phase' = [phase EXCEPT ![j] = "quit"]
  /\ UNCHANGED <<providers, waiters, busy, gone, lease, arrived, deadline,
                 cancelled, now>>

(* The select's other two cases, whichever is ready first or chosen. *)
GiveUp(j) ==
  /\ phase[j] = "select"
  /\ now >= deadline[j] \/ cancelled[j]
  /\ phase' = [phase EXCEPT ![j] = "quit"]
  /\ UNCHANGED <<providers, waiters, busy, gone, lease, arrived, deadline,
                 cancelled, now>>

(* abandon finds the waiter still in its queue and takes it out. *)
AbandonQueued(j) ==
  LET s == Service[j] IN
  /\ phase[j] = "quit"
  /\ \E i \in 1..Len(waiters[s]) :
       /\ waiters[s][i] = j
       /\ waiters' = [waiters EXCEPT ![s] = RemoveAt(@, i)]
  /\ phase' = [phase EXCEPT ![j] = "failed"]
  /\ UNCHANGED <<providers, busy, gone, lease, arrived, deadline, cancelled, now>>

(* abandon does not find it: a lease was handed over in the meantime. *)
AbandonLate(j) ==
  /\ phase[j] = "quit"
  /\ j \notin ToSet(waiters[Service[j]])
  /\ phase' = [phase EXCEPT ![j] = "drain"]
  /\ UNCHANGED <<providers, waiters, busy, gone, lease, arrived, deadline,
                 cancelled, now>>

(* Mutants of GiveBack: busy is not decremented; dispatch is not called. *)
GiveBackStillBusy(j) ==
  LET p == lease[j] IN
  /\ dispatch(Service[p], providers[Service[p]], busy, [lease EXCEPT ![j] = None])
  /\ UNCHANGED <<providers, gone, arrived, deadline, cancelled, now>>

GiveBackNoDispatch(j) ==
  /\ busy' = [busy EXCEPT ![lease[j]] = @ - 1]
  /\ lease' = [lease EXCEPT ![j] = None]
  /\ UNCHANGED <<waiters, providers, gone, arrived, deadline, cancelled, now>>

(* Lease.Release: the slot given back, and handed on by dispatch. *)
GiveBack(j) ==
  LET p == lease[j] IN
  /\ dispatch(Service[p], providers[Service[p]], [busy EXCEPT ![p] = @ - 1],
              [lease EXCEPT ![j] = None])
  /\ UNCHANGED <<providers, gone, arrived, deadline, cancelled, now>>

(* Mutant of Drain: abandon returns without looking in the channel. *)
DrainNothing(j) ==
  /\ phase[j] = "drain"
  /\ phase' = [phase EXCEPT ![j] = "failed"]
  /\ UNCHANGED <<providers, waiters, busy, gone, lease, arrived, deadline,
                 cancelled, now>>

(* abandon's second half: a lease in the channel goes straight back. *)
Drain(j) ==
  /\ phase[j] = "drain"
  /\ phase' = [phase EXCEPT ![j] = "failed"]
  /\ IF lease[j] # None
     THEN GiveBack(j)
     ELSE UNCHANGED <<providers, waiters, busy, gone, lease, arrived, deadline,
                      cancelled, now>>

(* The relay releases the lease it holds. *)
Release(j) ==
  /\ phase[j] = "held"
  /\ phase' = [phase EXCEPT ![j] = "released"]
  /\ GiveBack(j)

(* A peer connected: its provider joins the pool of its service. *)
AddProvider(p) ==
  LET s == Service[p]
      prs == Append(providers[s], p)
  IN
  /\ p \notin ToSet(providers[s])
  /\ ~gone[p]
  /\ providers' = [providers EXCEPT ![s] = prs]
  /\ dispatch(s, prs, busy, lease)
  /\ UNCHANGED <<gone, phase, arrived, deadline, cancelled, now>>

(* Mutant of RemoveProvider: the leases of the provider are dropped with it. *)
RemoveProviderRevokes(p) ==
  LET s == Service[p] IN
  /\ gone' = [gone EXCEPT ![p] = TRUE]
  /\ \E i \in 1..Len(providers[s]) :
       /\ providers[s][i] = p
       /\ providers' = [providers EXCEPT ![s] = RemoveAt(@, i)]
  /\ busy' = [busy EXCEPT ![p] = 0]
  /\ lease' = [j \in Jobs |-> IF lease[j] = p THEN None ELSE lease[j]]
  /\ UNCHANGED <<waiters, phase, arrived, deadline, cancelled, now>>

(* A peer's connection ended: its provider leaves, its leases stay out. *)
RemoveProvider(p) ==
  LET s == Service[p] IN
  /\ gone' = [gone EXCEPT ![p] = TRUE]
  /\ \E i \in 1..Len(providers[s]) :
       /\ providers[s][i] = p
       /\ providers' = [providers EXCEPT ![s] = RemoveAt(@, i)]
  /\ UNCHANGED <<waiters, busy, lease, phase, arrived, deadline, cancelled, now>>

(* The job's context is cancelled, at any moment of its life. *)
Cancel(j) ==
  /\ phase[j] # "new"
  /\ ~cancelled[j]
  /\ cancelled' = [cancelled EXCEPT ![j] = TRUE]
  /\ UNCHANGED <<providers, waiters, busy, gone, lease, phase, arrived, deadline, now>>

(* Time passes.  A timer that is due fires before the clock moves on. *)
Tick ==
  /\ now < MaxTime
  /\ \A j \in Jobs : phase[j] = "select" => now < deadline[j]
  /\ now' = now + 1
  /\ UNCHANGED <<providers, waiters, busy, gone, lease, phase, arrived, deadline,
                 cancelled>>

(* Nobody is inside Acquire or holds a lease: the pool may rest. *)
Rest ==
  /\ \A j \in Jobs : phase[j] \in {"new", "released", "failed"}
  /\ UNCHANGED vars

JobStep(j) ==
  \/ Arrive(j) \/ AcquireFree(j) \/ AcquireWait(j)
  \/ Receive(j) \/ GiveUp(j) \/ AbandonQueued(j) \/ AbandonLate(j)
  \/ Drain(j) \/ Release(j) \/ Cancel(j)

Next ==
  \/ \E j \in Jobs : JobStep(j)
  \/ \E p \in Providers : AddProvider(p) \/ RemoveProvider(p)
  \/ Tick
  \/ Rest

Spec == Init /\ [][Next]_vars

-----------------------------------------------------------------------------
(* Properties. *)

(***************************************************************************)
(* Slot accounting: Provider.busy is the number of leases on the provider  *)
(* that were made by take and not yet released, whether their job holds    *)
(* them or they still lie in the channel of a waiter (pool.go:224, :79),   *)
(* including those of a provider that was removed.                         *)
(***************************************************************************)
SlotAccounting ==
  \A p \in Providers : busy[p] = Cardinality({j \in Jobs : lease[j] = p})

(***************************************************************************)
(* A provider never has more jobs than the slots it announced, however     *)
(* many leases one dispatch hands out (pool.go:195, :212).                 *)
(***************************************************************************)
NeverOverSubscribed ==
  \A p \in Providers : Cardinality({j \in Jobs : lease[j] = p}) <= Slots[p]

(***************************************************************************)
(* No job waits while a provider of its service has a free slot: every     *)
(* place that frees a slot or adds one dispatches, and so does the lease   *)
(* that abandon returns (pool.go:80, :101, :177).                          *)
(***************************************************************************)
WorkConserving ==
  \A s \in Services : waiters[s] # <<>> => Eligible(providers[s], busy) = {}

(***************************************************************************)
(* A job inside Acquire is in its queue, once, or has a lease in its       *)
(* channel, never both and never neither; a job that is not inside         *)
(* Acquire is in no queue.  So the default branch of abandon's second      *)
(* select (pool.go:178) is never taken, and no slot is handed to a job     *)
(* that has left.                                                          *)
(***************************************************************************)
QueuedOrHanded ==
  /\ \A s \in Services : IsInjective(waiters[s])
  /\ \A s \in Services : \A j \in ToSet(waiters[s]) :
       Service[j] = s /\ phase[j] \in {"select", "quit"} /\ lease[j] = None
  /\ \A j \in Jobs :
       /\ phase[j] \in {"select", "quit"} /\ lease[j] = None =>
            j \in ToSet(waiters[Service[j]])
       /\ phase[j] \in {"drain", "held"} => lease[j] # None
       /\ phase[j] \in {"new", "arrived", "released", "failed"} => lease[j] = None

(***************************************************************************)
(* The relation the model uses for best agrees with the loop the code runs *)
(* (pool.go:209), on every set of providers and slot counts reached.       *)
(***************************************************************************)
BestIsTheLoop ==
  \A s \in Services :
    LET pr == best(providers[s], busy) IN
      /\ pr = None <=> Eligible(providers[s], busy) = {}
      /\ \A p \in Providers : IsBest(providers[s], busy, p) <=> pr = p

(***************************************************************************)
(* The queue timeout counts from the first arrival, however often the job  *)
(* was requeued: the timer of one that waits in the select never fires     *)
(* later than that, and the clock does not move past it (pool.go:123-125,  *)
(* :149, PROTOCOL.md:205).                                                 *)
(***************************************************************************)
DeadlineFromArrival ==
  [][\A j \in Jobs : phase'[j] = "select" =>
       /\ deadline'[j] <= arrived'[j] + Timeout
       /\ now' > now => now' <= arrived'[j] + Timeout]_vars

(***************************************************************************)
(* Acquire returns: a job that entered the queue gets a lease or an error, *)
(* even when every provider stays busy or vanishes (pool.go:152).          *)
(***************************************************************************)
AcquireReturns ==
  \A j \in Jobs :
    phase[j] \in {"select", "quit", "drain"} ~> phase[j] \in {"held", "failed"}
=============================================================================
