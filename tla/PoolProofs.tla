----------------------------- MODULE PoolProofs -----------------------------
(***************************************************************************)
(* Proofs about Pool, for every set of jobs, providers and services, every *)
(* number of slots and every timeout.                                      *)
(***************************************************************************)
EXTENDS Pool, TLAPS, FiniteSetTheorems, SequenceTheorems

-----------------------------------------------------------------------------
(* Sequences. *)

(* Cutting one element out of a sequence leaves a sequence. *)
LEMMA RemoveAtType ==
  ASSUME NEW S, NEW q \in Seq(S), NEW i \in 1..Len(q)
  PROVE  RemoveAt(q, i) \in Seq(S)
BY SubSeqProperties, ConcatProperties DEF RemoveAt

(* Which elements are left, and where, after one is cut out. *)
LEMMA RemoveAtElements ==
  ASSUME NEW S, NEW q \in Seq(S), NEW i \in 1..Len(q)
  PROVE  /\ Len(RemoveAt(q, i)) = Len(q) - 1
         /\ \A k \in 1..(Len(q) - 1) :
              RemoveAt(q, i)[k] = IF k < i THEN q[k] ELSE q[k + 1]
<1> DEFINE a == SubSeq(q, 1, i - 1)
           z == SubSeq(q, i + 1, Len(q))
<1>1. Len(q) \in Nat /\ i \in Nat
  BY LenProperties
<1>2. /\ a \in Seq(S) /\ Len(a) = i - 1
      /\ \A k \in 1..(i - 1) : a[k] = q[k]
  BY <1>1, SubSeqProperties
<1>3. /\ z \in Seq(S) /\ Len(z) = Len(q) - i
      /\ \A k \in 1..(Len(q) - i) : z[k] = q[i + k]
  BY <1>1, SubSeqProperties
<1>4. RemoveAt(q, i) = a \o z
  BY DEF RemoveAt
<1> HIDE DEF a, z
<1>5. Len(a \o z) = Len(q) - 1
  <2>1. Len(a \o z) = Len(a) + Len(z)
    BY <1>2, <1>3, ConcatProperties
  <2>2. (i - 1) + (Len(q) - i) = Len(q) - 1
    BY <1>1
  <2> QED  BY <1>2, <1>3, <2>1, <2>2
<1>6. ASSUME NEW k \in 1..(Len(q) - 1)
      PROVE  (a \o z)[k] = IF k < i THEN q[k] ELSE q[k + 1]
  <2>1. CASE k < i
    BY <1>1, <1>2, <1>3, <2>1, ConcatProperties
  <2>2. CASE k >= i
    <3>1. (a \o z)[k] = z[k - (i - 1)]
      BY <1>1, <1>2, <1>3, <2>2, ConcatProperties
    <3>2. k - (i - 1) \in 1..(Len(q) - i)
      BY <1>1, <2>2
    <3>3. z[k - (i - 1)] = q[i + (k - (i - 1))]
      BY <1>3, <3>2
    <3>4. i + (k - (i - 1)) = k + 1
      BY <1>1
    <3> QED  BY <1>1, <2>2, <3>1, <3>3, <3>4
  <2>3. k < i \/ k >= i
    BY <1>1
  <2> QED  BY <2>1, <2>2, <2>3, Zenon
<1> QED  BY <1>4, <1>5, <1>6

(* What is left of a sequence when its first n elements are gone. *)
LEMMA SuffixElements ==
  ASSUME NEW S, NEW q \in Seq(S), NEW n \in 0..Len(q)
  PROVE  /\ SubSeq(q, n + 1, Len(q)) \in Seq(S)
         /\ Len(SubSeq(q, n + 1, Len(q))) = Len(q) - n
         /\ \A k \in 1..(Len(q) - n) : SubSeq(q, n + 1, Len(q))[k] = q[n + k]
<1>1. Len(q) \in Nat /\ n \in Nat
  BY LenProperties
<1> QED  BY <1>1, SubSeqProperties

(* The elements of a sequence, by their places. *)
LEMMA ToSetPlaces ==
  ASSUME NEW S, NEW q \in Seq(S)
  PROVE  /\ \A e : e \in ToSet(q) <=> \E k \in 1..Len(q) : q[k] = e
         /\ IsInjective(q) <=> \A k, m \in 1..Len(q) : q[k] = q[m] => k = m
         /\ ToSet(q) \subseteq S
<1>1. DOMAIN q = 1..Len(q) /\ Len(q) \in Nat /\ \A k \in 1..Len(q) : q[k] \in S
  BY LenProperties, ElementOfSeq
<1> QED  BY <1>1 DEF ToSet, IsInjective

(* Cutting an element out of a sequence without repetitions. *)
LEMMA RemoveAtSet ==
  ASSUME NEW S, NEW q \in Seq(S), NEW i \in 1..Len(q), IsInjective(q)
  PROVE  /\ IsInjective(RemoveAt(q, i))
         /\ \A e : e \in ToSet(RemoveAt(q, i)) <=> e \in ToSet(q) /\ e # q[i]
<1> DEFINE r == RemoveAt(q, i)
           at(k) == IF k < i THEN k ELSE k + 1
<1>1. Len(q) \in Nat /\ i \in Nat
  BY LenProperties
<1>2. r \in Seq(S) /\ Len(r) = Len(q) - 1
  BY RemoveAtType, RemoveAtElements
<1>3. \A k \in 1..Len(r) : at(k) \in 1..Len(q) /\ at(k) # i /\ r[k] = q[at(k)]
  <2> SUFFICES ASSUME NEW k \in 1..(Len(q) - 1)
               PROVE  at(k) \in 1..Len(q) /\ at(k) # i /\ r[k] = q[at(k)]
    BY <1>2
  <2>1. r[k] = IF k < i THEN q[k] ELSE q[k + 1]
    BY RemoveAtElements
  <2>2. CASE k < i
    BY <1>1, <2>1, <2>2
  <2>3. CASE ~(k < i)
    BY <1>1, <2>1, <2>3
  <2> QED  BY <2>2, <2>3
<1>4. \A k, m \in 1..Len(r) : at(k) = at(m) => k = m
  BY <1>1, <1>2
<1>5. \A m \in 1..Len(q) : m # i => \E k \in 1..Len(r) : at(k) = m
  <2> SUFFICES ASSUME NEW m \in 1..Len(q), m # i
               PROVE  \E k \in 1..Len(r) : at(k) = m
    OBVIOUS
  <2>1. CASE m < i
    <3>1. m \in 1..Len(r) /\ at(m) = m
      BY <1>1, <1>2, <2>1
    <3> QED  BY <3>1
  <2>2. CASE m > i
    <3>1. m - 1 \in 1..Len(r) /\ at(m - 1) = m
      BY <1>1, <1>2, <2>2
    <3> QED  BY <3>1
  <2> QED  BY <1>1, <2>1, <2>2
<1>6. \A k, m \in 1..Len(q) : q[k] = q[m] => k = m
  BY ToSetPlaces
<1> HIDE DEF r, at
<1>7. IsInjective(r)
  <2>1. \A k, m \in 1..Len(r) : r[k] = r[m] => k = m
    BY <1>3, <1>4, <1>6
  <2> QED  BY <1>2, <2>1, ToSetPlaces
<1>8. ASSUME NEW e
      PROVE  e \in ToSet(r) <=> e \in ToSet(q) /\ e # q[i]
  <2>1. e \in ToSet(r) <=> \E k \in 1..Len(r) : r[k] = e
    BY <1>2, ToSetPlaces
  <2>2. e \in ToSet(q) <=> \E k \in 1..Len(q) : q[k] = e
    BY ToSetPlaces
  <2> QED  BY <1>3, <1>5, <1>6, <2>1, <2>2
<1>9. r = RemoveAt(q, i)
  BY DEF r
<1> QED  BY <1>7, <1>8, <1>9

(* Taking the first n elements off a sequence without repetitions. *)
LEMMA SuffixSet ==
  ASSUME NEW S, NEW q \in Seq(S), NEW n \in 0..Len(q), IsInjective(q)
  PROVE  /\ IsInjective(SubSeq(q, n + 1, Len(q)))
         /\ \A e : e \in ToSet(SubSeq(q, n + 1, Len(q))) <=>
                   e \in ToSet(q) /\ \A i \in 1..n : q[i] # e
<1> DEFINE r == SubSeq(q, n + 1, Len(q))
<1>1. n \in Nat /\ Len(q) \in Nat /\ n <= Len(q)
  BY LenProperties
<1>2. /\ r \in Seq(S) /\ Len(r) = Len(q) - n
      /\ \A k \in 1..(Len(q) - n) : r[k] = q[n + k]
  BY SuffixElements
<1>3. r = SubSeq(q, n + 1, Len(q))
  OBVIOUS
<1> HIDE DEF r
<1>4. \A k, m \in 1..Len(q) : q[k] = q[m] => k = m
  BY ToSetPlaces
<1>5. \A k \in 1..Len(r) : n + k \in 1..Len(q) /\ r[k] = q[n + k]
  BY <1>1, <1>2
<1>6. IsInjective(r)
  <2> SUFFICES ASSUME NEW k \in 1..Len(r), NEW m \in 1..Len(r), r[k] = r[m]
               PROVE  k = m
    BY <1>2, ToSetPlaces
  <2>1. n + k = n + m
    BY <1>4, <1>5
  <2> QED  BY <1>1, <1>2, <2>1
<1>7. ASSUME NEW e
      PROVE  e \in ToSet(r) <=> e \in ToSet(q) /\ \A i \in 1..n : q[i] # e
  <2>1. e \in ToSet(r) <=> \E k \in 1..Len(r) : r[k] = e
    BY <1>2, ToSetPlaces
  <2>2. e \in ToSet(q) <=> \E k \in 1..Len(q) : q[k] = e
    BY ToSetPlaces
  <2>3. ASSUME NEW k \in 1..Len(r), r[k] = e
        PROVE  e \in ToSet(q) /\ \A i \in 1..n : q[i] # e
    <3>1. \A i \in 1..n : i \in 1..Len(q) /\ i # n + k
      BY <1>1, <1>2
    <3> QED  BY <1>4, <1>5, <2>2, <2>3, <3>1
  <2>4. ASSUME NEW k \in 1..Len(q), q[k] = e, \A i \in 1..n : q[i] # e
        PROVE  e \in ToSet(r)
    <3>1. k - n \in 1..Len(r) /\ n + (k - n) = k
      BY <1>1, <1>2, <2>4
    <3>2. r[k - n] = e
      BY <1>5, <2>4, <3>1
    <3> QED  BY <2>1, <3>1, <3>2
  <2> QED  BY <2>1, <2>2, <2>3, <2>4
<1> QED  BY <1>3, <1>6, <1>7

(* Putting a new element at either end of a sequence. *)
LEMMA EnqueueSet ==
  ASSUME NEW S, NEW q \in Seq(S), NEW e \in S, NEW front
  PROVE  /\ Enqueue(q, e, front) \in Seq(S)
         /\ \A x : x \in ToSet(Enqueue(q, e, front)) <=> x \in ToSet(q) \/ x = e
         /\ IsInjective(q) /\ e \notin ToSet(q) => IsInjective(Enqueue(q, e, front))
<1>1. Len(q) \in Nat
  BY LenProperties
<1>2. CASE front
  <2> DEFINE r == <<e>> \o q
  <2>1. /\ r \in Seq(S) /\ Len(r) = Len(q) + 1 /\ r[1] = e
        /\ \A k \in 1..Len(q) : r[k + 1] = q[k]
    OBVIOUS
  <2>2. Enqueue(q, e, front) = r
    BY <1>2 DEF Enqueue, Cons
  <2> HIDE DEF r
  <2>3. ASSUME NEW x
        PROVE x \in ToSet(r) <=> x \in ToSet(q) \/ x = e
    <3>1. x \in ToSet(r) <=> \E k \in 1..Len(r) : r[k] = x
      BY <2>1, ToSetPlaces
    <3>2. x \in ToSet(q) <=> \E k \in 1..Len(q) : q[k] = x
      BY ToSetPlaces
    <3>3. \A k \in 1..Len(r) : k = 1 \/ (k - 1 \in 1..Len(q) /\ (k - 1) + 1 = k)
      BY <1>1, <2>1
    <3>4. \A k \in 1..Len(q) : k + 1 \in 1..Len(r)
      BY <1>1, <2>1
    <3>5. 1 \in 1..Len(r)
      BY <1>1, <2>1
    <3>6. \A k \in 1..Len(r) : k = 1 \/ r[k] = q[k - 1]
      BY <2>1, <3>3
    <3> QED  BY <2>1, <3>1, <3>2, <3>3, <3>4, <3>5, <3>6
  <2>4. ASSUME IsInjective(q), e \notin ToSet(q) PROVE IsInjective(r)
    <3>1. \A k, m \in 1..Len(q) : q[k] = q[m] => k = m
      BY <2>4, ToSetPlaces
    <3>2. \A k \in 1..Len(q) : q[k] # e
      BY <2>4, ToSetPlaces
    <3>3. \A k, m \in 1..Len(r) : r[k] = r[m] => k = m
      <4> SUFFICES ASSUME NEW k \in 1..Len(r), NEW m \in 1..Len(r), r[k] = r[m]
                   PROVE  k = m
        OBVIOUS
      <4>1. k = 1 \/ (k - 1 \in 1..Len(q) /\ r[k] = q[k - 1])
        BY <1>1, <2>1
      <4>2. m = 1 \/ (m - 1 \in 1..Len(q) /\ r[m] = q[m - 1])
        BY <1>1, <2>1
      <4> QED  BY <1>1, <2>1, <3>1, <3>2, <4>1, <4>2
    <3> QED  BY <2>1, <3>3, ToSetPlaces
  <2> QED  BY <2>1, <2>2, <2>3, <2>4
<1>3. CASE ~front
  <2> DEFINE r == Append(q, e)
  <2>1. /\ r \in Seq(S) /\ Len(r) = Len(q) + 1 /\ r[Len(q) + 1] = e
        /\ \A k \in 1..Len(q) : r[k] = q[k]
    BY AppendProperties
  <2>2. Enqueue(q, e, front) = r
    BY <1>3 DEF Enqueue
  <2> HIDE DEF r
  <2>3. ASSUME NEW x
        PROVE x \in ToSet(r) <=> x \in ToSet(q) \/ x = e
    <3>1. x \in ToSet(r) <=> \E k \in 1..Len(r) : r[k] = x
      BY <2>1, ToSetPlaces
    <3>2. x \in ToSet(q) <=> \E k \in 1..Len(q) : q[k] = x
      BY ToSetPlaces
    <3>3. \A k \in 1..Len(r) : k = Len(q) + 1 \/ k \in 1..Len(q)
      BY <1>1, <2>1
    <3>4. \A k \in 1..Len(q) : k \in 1..Len(r)
      BY <1>1, <2>1
    <3>5. Len(q) + 1 \in 1..Len(r)
      BY <1>1, <2>1
    <3> QED  BY <2>1, <3>1, <3>2, <3>3, <3>4, <3>5
  <2>4. ASSUME IsInjective(q), e \notin ToSet(q) PROVE IsInjective(r)
    <3>1. \A k, m \in 1..Len(q) : q[k] = q[m] => k = m
      BY <2>4, ToSetPlaces
    <3>2. \A k \in 1..Len(q) : q[k] # e
      BY <2>4, ToSetPlaces
    <3>3. \A k \in 1..Len(r) : k = Len(q) + 1 \/ k \in 1..Len(q)
      BY <1>1, <2>1
    <3>4. \A k, m \in 1..Len(r) : r[k] = r[m] => k = m
      BY <2>1, <3>1, <3>2, <3>3
    <3> QED  BY <2>1, <3>4, ToSetPlaces
  <2> QED  BY <2>1, <2>2, <2>3, <2>4
<1> QED  BY <1>2, <1>3

-----------------------------------------------------------------------------
(* Numbers and counting. *)

(* Every set of naturals that is not empty has a least element. *)
LEMMA LeastElement ==
  ASSUME NEW T \in SUBSET Nat, T # {}
  PROVE  \E x \in T : \A y \in T : x <= y
<1> DEFINE R == OpToRel(<, Nat)
<1>1. \E x \in T : \A y \in T : ~ (<<y, x>> \in R)
  <2>1. IsWellFoundedOn(R, Nat)
    BY NatLessThanWellFounded
  <2> HIDE DEF R
  <2> QED  BY <2>1, WFMin
<1>2. \A x, y \in Nat : y < x => <<y, x>> \in R
  BY DEF OpToRel
<1> HIDE DEF R
<1>3. PICK x \in T : \A y \in T : ~ (<<y, x>> \in R)
  BY <1>1
<1>4. ASSUME NEW y \in T PROVE x <= y
  <2>1. ~ (y < x)
    BY <1>2, <1>3
  <2> QED  BY <2>1
<1> QED  BY <1>4

(* Every set of places in a sequence that is not empty has a last one. *)
LEMMA GreatestElement ==
  ASSUME NEW n \in Nat, NEW S \in SUBSET (1..n), S # {}
  PROVE  \E k \in S : \A m \in S : m <= k
<1> DEFINE T == {n - k : k \in S}
<1>1. T \in SUBSET Nat /\ T # {}
  <2>1. \A k \in S : n - k \in Nat
    OBVIOUS
  <2> QED  BY <2>1
<1>2. PICK x \in T : \A y \in T : x <= y
  BY <1>1, LeastElement
<1>3. PICK k \in S : x = n - k
  BY <1>2
<1>4. \A m \in S : n - k <= n - m
  BY <1>2, <1>3
<1>5. \A m \in S : m <= k
  BY <1>4
<1> QED  BY <1>5

(* As many elements of a sequence without repetitions as places they are at. *)
LEMMA CountPlaces ==
  ASSUME NEW S, NEW q \in Seq(S), IsInjective(q), NEW K \in SUBSET (1..Len(q)),
         NEW T, \A e : e \in T <=> \E k \in K : e = q[k]
  PROVE  /\ IsFiniteSet(K) /\ IsFiniteSet(T)
         /\ Cardinality(T) = Cardinality(K)
<1> DEFINE f == [k \in K |-> q[k]]
<1>1. IsFiniteSet(K)
  <2>1. Len(q) \in Int
    BY LenProperties
  <2>2. IsFiniteSet(1..Len(q))
    BY <2>1, FS_Interval
  <2> QED  BY <2>2, FS_Subset
<1>2. \A k, m \in K : q[k] = q[m] => k = m
  BY ToSetPlaces
<1>3. f \in Bijection(K, T)
  BY <1>2 DEF Bijection, Injection, Surjection, IsInjective
<1>4. ExistsBijection(K, T)
  BY <1>3 DEF ExistsBijection
<1> QED  BY <1>1, <1>4, FS_Bijection

-----------------------------------------------------------------------------
(* The slots that dispatch takes. *)

(* How often a provider was chosen so far is a natural number. *)
LEMMA TakenType ==
  ASSUME NEW b \in [Providers -> Int], NEW g, NEW i \in Int
  PROVE  /\ Taken(b, g, i) \in [Providers -> Int]
         /\ \A p \in Providers : IsFiniteSet({k \in 1..(i - 1) : g[k] = p})
<1>1. IsFiniteSet(1..(i - 1))
  BY FS_Interval
<1>2. \A p \in Providers : IsFiniteSet({k \in 1..(i - 1) : g[k] = p})
  BY <1>1, FS_Subset
<1>3. \A p \in Providers : Cardinality({k \in 1..(i - 1) : g[k] = p}) \in Nat
  BY <1>2, FS_CardinalityType
<1> QED
  BY <1>2, <1>3 DEF Taken

(* After a dispatch a job has the lease of its place in the queue, or its old one. *)
LEMMA HandOutLease ==
  ASSUME NEW s, NEW prs, NEW b, NEW l, NEW n, NEW g, HandOut(s, prs, b, l, n, g),
         NEW j \in Jobs
  PROVE  \/ \E i \in 1..n : waiters[s][i] = j /\ lease'[j] = g[i]
         \/ (\A i \in 1..n : waiters[s][i] # j) /\ lease'[j] = l[j]
<1>1. lease'[j] = IF \E i \in 1..n : waiters[s][i] = j
                  THEN g[CHOOSE i \in 1..n : waiters[s][i] = j]
                  ELSE l[j]
  BY DEF HandOut
<1>2. CASE \E i \in 1..n : waiters[s][i] = j
  <2> DEFINE c == CHOOSE i \in 1..n : waiters[s][i] = j
  <2>1. c \in 1..n /\ waiters[s][c] = j
    BY <1>2
  <2>2. lease'[j] = g[c]
    BY <1>1, <1>2
  <2> HIDE DEF c
  <2> QED  BY <2>1, <2>2
<1>3. CASE ~ \E i \in 1..n : waiters[s][i] = j
  BY <1>1, <1>3
<1> QED  BY <1>2, <1>3

(* dispatch leaves queues, counts and leases of the right types. *)
LEMMA DispatchType ==
  ASSUME TypeOK, NEW s \in Services, NEW prs \in Seq(Providers),
         NEW b \in [Providers -> Int], NEW l \in [Jobs -> Providers \cup {None}],
         dispatch(s, prs, b, l)
  PROVE  /\ waiters' \in [Services -> Seq(Jobs)]
         /\ busy' \in [Providers -> Int]
         /\ lease' \in [Jobs -> Providers \cup {None}]
<1>1. PICK n \in 0..Len(waiters[s]) :
         \E g \in [1..n -> Providers] : HandOut(s, prs, b, l, n, g)
  BY DEF dispatch
<1> PICK g \in [1..n -> Providers] : HandOut(s, prs, b, l, n, g)
  BY <1>1
<1>2. waiters[s] \in Seq(Jobs) /\ n \in Nat
  BY DEF TypeOK
<1>3. waiters' \in [Services -> Seq(Jobs)]
  <2>1. SubSeq(waiters[s], n + 1, Len(waiters[s])) \in Seq(Jobs)
    BY <1>2, LenProperties, SubSeqProperties
  <2> QED  BY <2>1 DEF HandOut, TypeOK
<1>4. busy' \in [Providers -> Int]
  <2>1. busy' = Taken(b, g, n + 1)
    BY DEF HandOut
  <2>2. n + 1 \in Int
    BY <1>2
  <2> QED  BY <2>1, <2>2, TakenType
<1>5. lease' \in [Jobs -> Providers \cup {None}]
  <2>1. ASSUME NEW j \in Jobs PROVE lease'[j] \in Providers \cup {None}
    BY HandOutLease
  <2>2. lease' = [j \in Jobs |-> lease'[j]]
    BY DEF HandOut
  <2> QED  BY <2>1, <2>2
<1> QED  BY <1>3, <1>4, <1>5

(* Releasing a lease keeps the types. *)
LEMMA GiveBackType ==
  ASSUME TypeOK, NEW j \in Jobs, lease[j] # None, GiveBack(j)
  PROVE  /\ waiters' \in [Services -> Seq(Jobs)]
         /\ busy' \in [Providers -> Int]
         /\ lease' \in [Jobs -> Providers \cup {None}]
<1>1. lease[j] \in Providers
  BY DEF TypeOK
<1>2. Service[lease[j]] \in Services
  BY <1>1, ServiceAssumption
<1>3. providers[Service[lease[j]]] \in Seq(Providers)
  BY <1>2 DEF TypeOK
<1>4. [busy EXCEPT ![lease[j]] = @ - 1] \in [Providers -> Int]
  BY <1>1 DEF TypeOK
<1>5. [lease EXCEPT ![j] = None] \in [Jobs -> Providers \cup {None}]
  BY DEF TypeOK
<1> QED
  BY <1>2, <1>3, <1>4, <1>5, DispatchType DEF GiveBack

-----------------------------------------------------------------------------
(* Every job is queued once, or has a lease. *)

(***************************************************************************)
(* What dispatch does to the queues and the leases, when the jobs in the   *)
(* queues have no lease before it: jobs leave a queue only with a lease.   *)
(***************************************************************************)
LEMMA DispatchQueued ==
  ASSUME TypeOK, NEW s \in Services, NEW prs, NEW b,
         NEW l \in [Jobs -> Providers \cup {None}],
         dispatch(s, prs, b, l),
         \A t \in Services : IsInjective(waiters[t]),
         \A t \in Services : \A j \in ToSet(waiters[t]) : Service[j] = t /\ l[j] = None
  PROVE  /\ \A t \in Services : IsInjective(waiters'[t])
         /\ \A t \in Services : \A j \in ToSet(waiters'[t]) :
              j \in ToSet(waiters[t]) /\ lease'[j] = None
         /\ \A j \in Jobs :
              \/ lease'[j] = l[j] /\ (j \in ToSet(waiters[Service[j]]) =>
                                      j \in ToSet(waiters'[Service[j]]))
              \/ lease'[j] # None /\ j \in ToSet(waiters[Service[j]])
<1>1. PICK n \in 0..Len(waiters[s]) :
         \E g \in [1..n -> Providers] : HandOut(s, prs, b, l, n, g)
  BY DEF dispatch
<1>2. PICK g \in [1..n -> Providers] : HandOut(s, prs, b, l, n, g)
  BY <1>1
<1>3. \A t \in Services : waiters[t] \in Seq(Jobs)
  BY DEF TypeOK
<1>4. /\ waiters'[s] = SubSeq(waiters[s], n + 1, Len(waiters[s]))
      /\ \A t \in Services \ {s} : waiters'[t] = waiters[t]
  BY <1>2 DEF HandOut, TypeOK
<1>5. /\ IsInjective(waiters'[s])
      /\ \A e : e \in ToSet(waiters'[s]) <=>
                e \in ToSet(waiters[s]) /\ \A i \in 1..n : waiters[s][i] # e
  <2> DEFINE q == waiters[s]
  <2>1. q \in Seq(Jobs) /\ IsInjective(q) /\ n \in 0..Len(q)
    BY <1>3
  <2>2. waiters'[s] = SubSeq(q, n + 1, Len(q))
    BY <1>4
  <2> HIDE DEF q
  <2>3. /\ IsInjective(SubSeq(q, n + 1, Len(q)))
        /\ \A e : e \in ToSet(SubSeq(q, n + 1, Len(q))) <=>
                  e \in ToSet(q) /\ \A i \in 1..n : q[i] # e
    BY <2>1, SuffixSet
  <2>4. /\ IsInjective(waiters'[s])
        /\ \A e : e \in ToSet(waiters'[s]) <=>
                  e \in ToSet(q) /\ \A i \in 1..n : q[i] # e
    BY <2>2, <2>3
  <2> QED  BY <2>4 DEF q
<1>6. \A i \in 1..n : waiters[s][i] \in ToSet(waiters[s])
  <2>1. \A i \in 1..n : i \in 1..Len(waiters[s])
    BY <1>3, LenProperties
  <2> QED  BY <1>3, <2>1, ToSetPlaces
<1>7. \A t \in Services : IsInjective(waiters'[t])
  BY <1>4, <1>5
<1>8. ASSUME NEW t \in Services, NEW j \in ToSet(waiters'[t])
      PROVE  j \in ToSet(waiters[t]) /\ lease'[j] = None
  <2>1. j \in ToSet(waiters[t]) /\ \A i \in 1..n : waiters[s][i] # j
    <3>1. CASE t = s
      BY <1>5, <3>1, <1>8
    <3>2. CASE t # s
      BY <1>4, <1>6, <3>2, <1>8
    <3> QED  BY <3>1, <3>2
  <2>2. j \in Jobs
    BY <1>3, <2>1, ToSetPlaces
  <2>3. lease'[j] = l[j]
    BY <1>2, <2>1, <2>2, HandOutLease
  <2> QED  BY <2>1, <2>3
<1>9. ASSUME NEW j \in Jobs
      PROVE  \/ lease'[j] = l[j] /\ (j \in ToSet(waiters[Service[j]]) =>
                                     j \in ToSet(waiters'[Service[j]]))
             \/ lease'[j] # None /\ j \in ToSet(waiters[Service[j]])
  <2>1. CASE \E i \in 1..n : waiters[s][i] = j /\ lease'[j] = g[i]
    <3>1. PICK i \in 1..n : waiters[s][i] = j /\ lease'[j] = g[i]
      BY <2>1
    <3>2. j \in ToSet(waiters[s]) /\ Service[j] = s
      BY <1>6, <3>1
    <3>3. lease'[j] # None
      BY <3>1, NoneAssumption
    <3> QED  BY <3>2, <3>3
  <2>2. CASE (\A i \in 1..n : waiters[s][i] # j) /\ lease'[j] = l[j]
    <3>1. Service[j] \in Services
      BY ServiceAssumption
    <3>2. j \in ToSet(waiters[Service[j]]) => j \in ToSet(waiters'[Service[j]])
      BY <1>4, <1>5, <2>2, <3>1
    <3> QED  BY <2>2, <3>2
  <2>3. \/ \E i \in 1..n : waiters[s][i] = j /\ lease'[j] = g[i]
        \/ (\A i \in 1..n : waiters[s][i] # j) /\ lease'[j] = l[j]
    BY <1>2, HandOutLease
  <2> QED  BY <2>1, <2>2, <2>3
<1> QED  BY <1>7, <1>8, <1>9

(***************************************************************************)
(* The inductive invariant of the handover.  TypeOK alone is not           *)
(* inductive: that Release counts down a provider needs that a job in      *)
(* "held" has a lease, and that needs the whole of QueuedOrHanded.         *)
(***************************************************************************)
HandoverInv == TypeOK /\ QueuedOrHanded

(* A pool begins with nobody in it. *)
LEMMA HandoverInit ==
  Init => HandoverInv
<1> SUFFICES ASSUME Init PROVE HandoverInv
  OBVIOUS
<1>1. TypeOK
  BY NoneAssumption DEF Init, TypeOK, Phases
<1>2. \A s \in Services : IsInjective(waiters[s]) /\ ToSet(waiters[s]) = {}
  BY DEF Init, IsInjective, ToSet
<1> QED  BY <1>1, <1>2 DEF Init, HandoverInv, QueuedOrHanded

(* What Release leaves behind, under the invariant. *)
LEMMA GiveBackQueued ==
  ASSUME HandoverInv, NEW j \in Jobs, lease[j] # None, GiveBack(j)
  PROVE  /\ \A t \in Services : IsInjective(waiters'[t])
         /\ \A t \in Services : \A k \in ToSet(waiters'[t]) :
              k \in ToSet(waiters[t]) /\ lease'[k] = None
         /\ \A k \in Jobs \ {j} :
              \/ lease'[k] = lease[k] /\ (k \in ToSet(waiters[Service[k]]) =>
                                          k \in ToSet(waiters'[Service[k]]))
              \/ lease'[k] # None /\ k \in ToSet(waiters[Service[k]])
         /\ lease'[j] = None
         /\ \A t \in Services : j \notin ToSet(waiters'[t])
<1> DEFINE s == Service[lease[j]]
           prs == providers[s]
           b == [busy EXCEPT ![lease[j]] = @ - 1]
           l == [lease EXCEPT ![j] = None]
<1>1. s \in Services /\ l \in [Jobs -> Providers \cup {None}]
  BY ServiceAssumption DEF HandoverInv, TypeOK
<1>2. \A t \in Services : IsInjective(waiters[t])
  BY DEF HandoverInv, QueuedOrHanded
<1>3. \A t \in Services : \A k \in ToSet(waiters[t]) :
         Service[k] = t /\ lease[k] = None /\ k \in Jobs
  <2>1. \A t \in Services : ToSet(waiters[t]) \subseteq Jobs
    BY ToSetPlaces DEF HandoverInv, TypeOK
  <2> QED  BY <2>1 DEF HandoverInv, QueuedOrHanded
<1>4. l[j] = None /\ \A k \in Jobs \ {j} : l[k] = lease[k]
  BY DEF HandoverInv, TypeOK
<1>5. \A t \in Services : \A k \in ToSet(waiters[t]) : Service[k] = t /\ l[k] = None
  BY <1>3, <1>4
<1>6. dispatch(s, prs, b, l)
  BY DEF GiveBack
<1>7. TypeOK
  BY DEF HandoverInv
<1> HIDE DEF s, prs, b, l
<1>8. /\ \A t \in Services : IsInjective(waiters'[t])
      /\ \A t \in Services : \A k \in ToSet(waiters'[t]) :
           k \in ToSet(waiters[t]) /\ lease'[k] = None
      /\ \A k \in Jobs :
           \/ lease'[k] = l[k] /\ (k \in ToSet(waiters[Service[k]]) =>
                                   k \in ToSet(waiters'[Service[k]]))
           \/ lease'[k] # None /\ k \in ToSet(waiters[Service[k]])
  BY <1>1, <1>2, <1>5, <1>6, <1>7, DispatchQueued
<1>9. \A t \in Services : j \notin ToSet(waiters[t])
  BY <1>3
<1>10. Service[j] \in Services
  BY ServiceAssumption
<1> QED  BY <1>4, <1>8, <1>9, <1>10

(* Every step of the pool keeps the invariant. *)
LEMMA HandoverStep ==
  HandoverInv /\ [Next]_vars => HandoverInv'
<1> SUFFICES ASSUME HandoverInv, [Next]_vars PROVE HandoverInv'
  OBVIOUS
<1> USE DEF HandoverInv
<1>q. \A s \in Services :
        /\ waiters[s] \in Seq(Jobs)
        /\ ToSet(waiters[s]) \subseteq Jobs
  BY ToSetPlaces DEF TypeOK
<1>s. \A x \in Jobs \cup Providers : Service[x] \in Services
  BY ServiceAssumption
<1>1. ASSUME NEW j \in Jobs, Arrive(j) PROVE HandoverInv'
  <2>1. TypeOK'
    BY <1>1 DEF Arrive, TypeOK, Phases
  <2>2. QueuedOrHanded'
    BY <1>1, <1>q DEF Arrive, TypeOK, QueuedOrHanded
  <2> QED  BY <2>1, <2>2
<1>2. ASSUME NEW j \in Jobs, AcquireFree(j) PROVE HandoverInv'
  <2>1. PICK p \in Providers : /\ busy' = [busy EXCEPT ![p] = @ + 1]
                               /\ lease' = [lease EXCEPT ![j] = p]
    BY <1>2 DEF AcquireFree
  <2>2. TypeOK'
    BY <1>2, <2>1 DEF AcquireFree, TypeOK, Phases
  <2>3. QueuedOrHanded'
    BY <1>2, <1>q, <2>1, NoneAssumption DEF AcquireFree, TypeOK, QueuedOrHanded
  <2> QED  BY <2>2, <2>3
<1>3. ASSUME NEW j \in Jobs, AcquireWait(j) PROVE HandoverInv'
  <2> DEFINE s == Service[j]
             r == Enqueue(waiters[s], j, phase[j] = "released")
  <2>1. /\ s \in Services
        /\ waiters' = [waiters EXCEPT ![s] = r]
        /\ phase' = [phase EXCEPT ![j] = "select"]
        /\ lease' = lease
        /\ phase[j] \in {"arrived", "released"}
    BY <1>3, <1>s DEF AcquireWait
  <2>2. j \notin ToSet(waiters[s]) /\ lease[j] = None
    BY <2>1 DEF QueuedOrHanded
  <2>3. /\ r \in Seq(Jobs)
        /\ \A x : x \in ToSet(r) <=> x \in ToSet(waiters[s]) \/ x = j
        /\ IsInjective(r)
    <3> DEFINE q == waiters[s]
               f == (phase[j] = "released")
    <3>1. q \in Seq(Jobs) /\ IsInjective(q) /\ j \notin ToSet(q)
      BY <1>q, <2>1, <2>2 DEF QueuedOrHanded
    <3> HIDE DEF q, f
    <3>2. /\ Enqueue(q, j, f) \in Seq(Jobs)
          /\ \A x : x \in ToSet(Enqueue(q, j, f)) <=> x \in ToSet(q) \/ x = j
          /\ IsInjective(Enqueue(q, j, f))
      BY <3>1, EnqueueSet
    <3> QED  BY <3>2 DEF q, f
  <2>4. deadline' \in [Jobs -> Nat]
    BY <1>3, TimeAssumption DEF AcquireWait, TimerAt, TypeOK
  <2>5. waiters'[s] = r /\ \A t \in Services \ {s} : waiters'[t] = waiters[t]
    BY <2>1 DEF TypeOK
  <2> HIDE DEF r
  <2>6. TypeOK'
    <3>1. waiters' \in [Services -> Seq(Jobs)] /\ phase' \in [Jobs -> Phases]
      BY <2>1, <2>3 DEF TypeOK, Phases
    <3>2. UNCHANGED <<providers, busy, gone, lease, arrived, cancelled, now>>
      BY <1>3 DEF AcquireWait
    <3> QED  BY <2>4, <3>1, <3>2 DEF TypeOK
  <2>7. QueuedOrHanded'
    <3>1. \A t \in Services : IsInjective(waiters'[t])
      BY <2>3, <2>5 DEF QueuedOrHanded
    <3>2. \A t \in Services : \A k \in ToSet(waiters'[t]) :
            Service[k] = t /\ phase'[k] \in {"select", "quit"} /\ lease'[k] = None
      BY <1>q, <2>1, <2>2, <2>3, <2>5 DEF QueuedOrHanded, TypeOK
    <3>3. \A k \in Jobs :
            /\ phase'[k] \in {"select", "quit"} /\ lease'[k] = None =>
                 k \in ToSet(waiters'[Service[k]])
            /\ phase'[k] \in {"drain", "held"} => lease'[k] # None
            /\ phase'[k] \in {"new", "arrived", "released", "failed"} => lease'[k] = None
      BY <1>s, <2>1, <2>2, <2>3, <2>5 DEF QueuedOrHanded, TypeOK
    <3> QED  BY <3>1, <3>2, <3>3 DEF QueuedOrHanded
  <2> QED  BY <2>6, <2>7
<1>4. ASSUME NEW j \in Jobs, Receive(j) PROVE HandoverInv'
  <2>1. TypeOK'
    BY <1>4 DEF Receive, TypeOK, Phases
  <2>2. QueuedOrHanded'
    BY <1>4, <1>q DEF Receive, TypeOK, QueuedOrHanded
  <2> QED  BY <2>1, <2>2
<1>5. ASSUME NEW j \in Jobs, GiveUp(j) PROVE HandoverInv'
  <2>1. TypeOK'
    BY <1>5 DEF GiveUp, TypeOK, Phases
  <2>2. QueuedOrHanded'
    BY <1>5, <1>q DEF GiveUp, TypeOK, QueuedOrHanded
  <2> QED  BY <2>1, <2>2
<1>6. ASSUME NEW j \in Jobs, AbandonQueued(j) PROVE HandoverInv'
  <2> DEFINE s == Service[j]
  <2>1. PICK i \in 1..Len(waiters[s]) :
          /\ waiters[s][i] = j
          /\ waiters' = [waiters EXCEPT ![s] = RemoveAt(@, i)]
    BY <1>6 DEF AbandonQueued
  <2> DEFINE r == RemoveAt(waiters[s], i)
  <2>2. /\ s \in Services
        /\ waiters'[s] = r
        /\ \A t \in Services \ {s} : waiters'[t] = waiters[t]
        /\ waiters' = [waiters EXCEPT ![s] = r]
    BY <1>s, <2>1 DEF TypeOK
  <2>3. /\ r \in Seq(Jobs)
        /\ \A x : x \in ToSet(r) <=> x \in ToSet(waiters[s]) /\ x # j
        /\ IsInjective(r)
    <3> DEFINE q == waiters[s]
    <3>1. q \in Seq(Jobs) /\ IsInjective(q) /\ i \in 1..Len(q) /\ q[i] = j
      BY <1>q, <2>1, <2>2 DEF QueuedOrHanded
    <3> HIDE DEF q
    <3>2. /\ RemoveAt(q, i) \in Seq(Jobs)
          /\ \A x : x \in ToSet(RemoveAt(q, i)) <=> x \in ToSet(q) /\ x # q[i]
          /\ IsInjective(RemoveAt(q, i))
      BY <3>1, RemoveAtType, RemoveAtSet
    <3> QED  BY <3>1, <3>2 DEF q
  <2> HIDE DEF r
  <2>4. TypeOK'
    BY <1>6, <2>2, <2>3 DEF AbandonQueued, TypeOK, Phases
  <2>5. j \in ToSet(waiters[s])
    <3>1. waiters[s] \in Seq(Jobs)
      BY <1>q, <2>2
    <3> QED  BY <2>1, <3>1, ToSetPlaces
  <2>6. lease[j] = None
    BY <2>2, <2>5 DEF QueuedOrHanded
  <2>7. QueuedOrHanded'
    <3>p. /\ phase'[j] = "failed" /\ lease' = lease
          /\ \A k \in Jobs \ {j} : phase'[k] = phase[k]
      BY <1>6 DEF AbandonQueued, TypeOK
    <3>1. \A t \in Services : IsInjective(waiters'[t])
      BY <2>2, <2>3 DEF QueuedOrHanded
    <3>2. \A t \in Services : \A k \in ToSet(waiters'[t]) : k # j /\ k \in ToSet(waiters[t])
      <4> SUFFICES ASSUME NEW t \in Services, NEW k \in ToSet(waiters'[t])
                   PROVE  k # j /\ k \in ToSet(waiters[t])
        OBVIOUS
      <4>1. CASE t = s
        BY <2>2, <2>3, <4>1
      <4>2. CASE t # s
        <5>1. k \in ToSet(waiters[t])
          BY <2>2, <4>2
        <5> QED  BY <4>2, <5>1 DEF QueuedOrHanded
      <4> QED  BY <4>1, <4>2
    <3>3. \A t \in Services : \A k \in ToSet(waiters'[t]) :
            Service[k] = t /\ phase'[k] \in {"select", "quit"} /\ lease'[k] = None
      <4> SUFFICES ASSUME NEW t \in Services, NEW k \in ToSet(waiters'[t])
                   PROVE  Service[k] = t /\ phase'[k] \in {"select", "quit"} /\ lease'[k] = None
        OBVIOUS
      <4>1. k # j /\ k \in ToSet(waiters[t]) /\ k \in Jobs
        BY <1>q, <3>2
      <4>2. Service[k] = t /\ phase[k] \in {"select", "quit"} /\ lease[k] = None
        BY <4>1 DEF QueuedOrHanded
      <4> QED  BY <3>p, <4>1, <4>2
    <3>4. \A k \in Jobs :
            /\ phase'[k] \in {"select", "quit"} /\ lease'[k] = None =>
                 k \in ToSet(waiters'[Service[k]])
            /\ phase'[k] \in {"drain", "held"} => lease'[k] # None
            /\ phase'[k] \in {"new", "arrived", "released", "failed"} => lease'[k] = None
      <4> TAKE k \in Jobs
      <4>1. CASE k = j
        BY <2>6, <3>p, <4>1
      <4>2. CASE k # j
        <5>1. phase'[k] = phase[k] /\ lease'[k] = lease[k] /\ Service[k] \in Services
          BY <1>s, <3>p, <4>2
        <5>2. k \in ToSet(waiters[Service[k]]) => k \in ToSet(waiters'[Service[k]])
          BY <2>2, <2>3, <4>2, <5>1
        <5> QED  BY <5>1, <5>2 DEF QueuedOrHanded
      <4> QED  BY <4>1, <4>2
    <3> QED  BY <3>1, <3>3, <3>4 DEF QueuedOrHanded
  <2> QED  BY <2>4, <2>7
<1>7. ASSUME NEW j \in Jobs, AbandonLate(j) PROVE HandoverInv'
  <2>1. TypeOK'
    BY <1>7 DEF AbandonLate, TypeOK, Phases
  <2>2. \A t \in Services : j \notin ToSet(waiters[t])
    BY <1>7 DEF AbandonLate, QueuedOrHanded
  <2>3. QueuedOrHanded'
    BY <1>7, <1>q, <2>2 DEF AbandonLate, TypeOK, QueuedOrHanded
  <2> QED  BY <2>1, <2>3
<1>8. ASSUME NEW j \in Jobs, NEW ph \in {"released", "failed"},
             phase[j] \in {"drain", "held"},
             phase' = [phase EXCEPT ![j] = ph], GiveBack(j)
      PROVE  HandoverInv'
  <2>1. lease[j] # None
    BY <1>8 DEF QueuedOrHanded
  <2>2. TypeOK'
    BY <1>8, <2>1, GiveBackType DEF GiveBack, TypeOK, Phases
  <2>3. QueuedOrHanded'
    <3>1. \A k \in Jobs \ {j} : phase'[k] = phase[k]
      BY <1>8 DEF TypeOK
    <3>2. phase'[j] = ph
      BY <1>8 DEF TypeOK
    <3>3. HandoverInv
      OBVIOUS
    <3>4. /\ \A t \in Services : IsInjective(waiters'[t])
          /\ \A t \in Services : \A k \in ToSet(waiters'[t]) :
               k \in ToSet(waiters[t]) /\ lease'[k] = None
          /\ \A k \in Jobs \ {j} :
               \/ lease'[k] = lease[k] /\ (k \in ToSet(waiters[Service[k]]) =>
                                           k \in ToSet(waiters'[Service[k]]))
               \/ lease'[k] # None /\ k \in ToSet(waiters[Service[k]])
          /\ lease'[j] = None
          /\ \A t \in Services : j \notin ToSet(waiters'[t])
      BY <1>8, <2>1, <3>3, GiveBackQueued
    <3>5. \A t \in Services : \A k \in ToSet(waiters'[t]) :
            Service[k] = t /\ phase'[k] \in {"select", "quit"} /\ lease'[k] = None
      BY <1>q, <3>1, <3>4 DEF QueuedOrHanded
    <3>6. \A k \in Jobs :
            /\ phase'[k] \in {"select", "quit"} /\ lease'[k] = None =>
                 k \in ToSet(waiters'[Service[k]])
            /\ phase'[k] \in {"drain", "held"} => lease'[k] # None
            /\ phase'[k] \in {"new", "arrived", "released", "failed"} => lease'[k] = None
      BY <1>s, <3>1, <3>2, <3>4 DEF QueuedOrHanded
    <3> QED  BY <3>4, <3>5, <3>6 DEF QueuedOrHanded
  <2> QED  BY <2>2, <2>3
<1>9. ASSUME NEW j \in Jobs, Drain(j) PROVE HandoverInv'
  <2>1. lease[j] # None
    BY <1>9 DEF Drain, QueuedOrHanded
  <2> QED  BY <1>8, <1>9, <2>1 DEF Drain
<1>10. ASSUME NEW j \in Jobs, Release(j) PROVE HandoverInv'
  BY <1>8, <1>10 DEF Release
<1>11. ASSUME NEW j \in Jobs, Cancel(j) PROVE HandoverInv'
  <2>1. TypeOK'
    BY <1>11 DEF Cancel, TypeOK
  <2>2. QueuedOrHanded'
    BY <1>11 DEF Cancel, QueuedOrHanded
  <2> QED  BY <2>1, <2>2
<1>12. ASSUME NEW p \in Providers, AddProvider(p) PROVE HandoverInv'
  <2> DEFINE s == Service[p]
             prs == Append(providers[s], p)
  <2>1. s \in Services /\ prs \in Seq(Providers)
    BY <1>s, AppendProperties DEF TypeOK
  <2>2. /\ dispatch(s, prs, busy, lease)
        /\ providers' = [providers EXCEPT ![s] = prs]
        /\ UNCHANGED <<gone, phase, arrived, deadline, cancelled, now>>
    BY <1>12 DEF AddProvider
  <2>3. busy \in [Providers -> Int] /\ lease \in [Jobs -> Providers \cup {None}]
    BY DEF TypeOK
  <2> HIDE DEF s, prs
  <2>4. TypeOK'
    BY <2>1, <2>2, <2>3, DispatchType DEF TypeOK
  <2>5. /\ \A t \in Services : IsInjective(waiters[t])
        /\ \A t \in Services : \A j \in ToSet(waiters[t]) :
             Service[j] = t /\ lease[j] = None
    BY DEF QueuedOrHanded
  <2>6. /\ \A t \in Services : IsInjective(waiters'[t])
        /\ \A t \in Services : \A j \in ToSet(waiters'[t]) :
             j \in ToSet(waiters[t]) /\ lease'[j] = None
        /\ \A j \in Jobs :
             \/ lease'[j] = lease[j] /\ (j \in ToSet(waiters[Service[j]]) =>
                                         j \in ToSet(waiters'[Service[j]]))
             \/ lease'[j] # None /\ j \in ToSet(waiters[Service[j]])
    BY <2>1, <2>2, <2>3, <2>5, DispatchQueued
  <2>7. QueuedOrHanded'
    BY <1>q, <1>s, <2>2, <2>6 DEF QueuedOrHanded
  <2> QED  BY <2>4, <2>7
<1>13. ASSUME NEW p \in Providers, RemoveProvider(p) PROVE HandoverInv'
  <2> DEFINE s == Service[p]
  <2>1. PICK i \in 1..Len(providers[s]) :
          providers' = [providers EXCEPT ![s] = RemoveAt(@, i)]
    BY <1>13 DEF RemoveProvider
  <2>2. s \in Services /\ providers[s] \in Seq(Providers)
    BY <1>s DEF TypeOK
  <2>3. RemoveAt(providers[s], i) \in Seq(Providers)
    BY <2>2, RemoveAtType
  <2>4. TypeOK'
    BY <1>13, <2>1, <2>2, <2>3 DEF RemoveProvider, TypeOK
  <2>5. QueuedOrHanded'
    BY <1>13 DEF RemoveProvider, QueuedOrHanded
  <2> QED  BY <2>4, <2>5
<1>14. ASSUME Tick PROVE HandoverInv'
  BY <1>14 DEF Tick, TypeOK, QueuedOrHanded
<1>15. CASE UNCHANGED vars
  BY <1>15 DEF vars, TypeOK, QueuedOrHanded
<1>16. CASE Rest
  BY <1>15, <1>16 DEF Rest
<1> QED
  BY <1>1, <1>2, <1>3, <1>4, <1>5, <1>6, <1>7, <1>9, <1>10, <1>11, <1>12, <1>13,
     <1>14, <1>15, <1>16 DEF Next, JobStep

(***************************************************************************)
(* Acquire, dispatch and abandon never lose a job or a slot between them:  *)
(* whatever the schedule, a job inside Acquire is queued once or has a     *)
(* lease in its channel, and a job outside is in no queue.                 *)
(***************************************************************************)
THEOREM HandoverCorrect == Spec => [](TypeOK /\ QueuedOrHanded)
<1>1. Spec => []HandoverInv
  BY HandoverInit, HandoverStep, PTL DEF Spec
<1> QED  BY <1>1 DEF HandoverInv

-----------------------------------------------------------------------------
(* Every slot is accounted for, and none lies idle beside a waiting job. *)

(* The jobs with a lease on p, under the leases l. *)
On(l, p) == {j \in Jobs : l[j] = p}

(* They are finitely many. *)
LEMMA OnFinite ==
  ASSUME NEW l, NEW p
  PROVE  IsFiniteSet(On(l, p)) /\ Cardinality(On(l, p)) \in Nat
<1>1. On(l, p) \in SUBSET Jobs
  BY DEF On
<1>2. IsFiniteSet(On(l, p))
  BY <1>1, JobsAssumption, FS_Subset
<1> QED  BY <1>2, FS_CardinalityType

(***************************************************************************)
(* dispatch takes slots in pairs with waiters, so the count stays right;   *)
(* and the last choice of a provider found it with a free slot, so the     *)
(* count stays within the slots however often it was chosen before.        *)
(***************************************************************************)
LEMMA HandOutSlots ==
  ASSUME TypeOK, NEW s \in Services, NEW prs \in Seq(Providers),
         NEW b \in [Providers -> Int], NEW l \in [Jobs -> Providers \cup {None}],
         NEW n \in 0..Len(waiters[s]), NEW g \in [1..n -> Providers],
         HandOut(s, prs, b, l, n, g),
         IsInjective(waiters[s]),
         \A j \in ToSet(waiters[s]) : l[j] = None,
         NEW p \in Providers, b[p] = Cardinality(On(l, p)), b[p] <= Slots[p]
  PROVE  /\ busy'[p] = Cardinality(On(lease', p))
         /\ b[p] <= busy'[p]
         /\ busy'[p] <= Slots[p]
<1> DEFINE q == waiters[s]
           K == {k \in 1..n : g[k] = p}
           T == {q[k] : k \in K}
<1>1. q \in Seq(Jobs) /\ Len(q) \in Nat /\ n \in Nat /\ n <= Len(q)
  BY LenProperties DEF TypeOK
<1>2. K \in SUBSET (1..Len(q)) /\ K \in SUBSET (1..n)
  BY <1>1
<1>3. IsFiniteSet(K) /\ IsFiniteSet(T) /\ Cardinality(T) = Cardinality(K)
  <2> HIDE DEF K, q
  <2>1. IsInjective(q)
    BY DEF q
  <2>2. \A e : e \in T <=> \E k \in K : e = q[k]
    OBVIOUS
  <2> HIDE DEF T
  <2>3. q \in Seq(Jobs)
    BY <1>1
  <2>4. K \in SUBSET (1..Len(q))
    BY <1>2
  <2> QED  BY ONLY <2>1, <2>2, <2>3, <2>4, CountPlaces, Zenon
<1>4. Cardinality(K) \in Nat
  BY <1>3, FS_CardinalityType
<1>5. busy'[p] = b[p] + Cardinality(K)
  <2>1. busy' = Taken(b, g, n + 1) /\ (n + 1) - 1 = n
    BY <1>1 DEF HandOut
  <2> QED  BY <2>1 DEF Taken
<1>6. \A k, m \in 1..Len(q) : q[k] = q[m] => k = m
  BY <1>1, ToSetPlaces
<1>7. \A k \in 1..n : q[k] \in Jobs /\ l[q[k]] = None
  <2>1. \A k \in 1..Len(q) : q[k] \in ToSet(q) /\ q[k] \in Jobs
    BY <1>1, ToSetPlaces
  <2> QED  BY <1>1, <2>1
<1>8. On(lease', p) = On(l, p) \cup T
  <2>1. ASSUME NEW j \in Jobs PROVE lease'[j] = p <=> l[j] = p \/ j \in T
    <3>1. CASE \E i \in 1..n : q[i] = j /\ lease'[j] = g[i]
      <4>1. PICK i \in 1..n : q[i] = j /\ lease'[j] = g[i]
        BY <3>1
      <4>2. l[j] # p
        BY <1>7, <4>1, NoneAssumption
      <4>3. j \in T <=> g[i] = p
        <5>1. \A k \in 1..n : k \in 1..Len(q)
          BY <1>1
        <5> QED  BY <1>6, <4>1, <5>1
      <4> QED  BY <4>1, <4>2, <4>3
    <3>2. CASE (\A i \in 1..n : q[i] # j) /\ lease'[j] = l[j]
      BY <3>2
    <3>3. \/ \E i \in 1..n : q[i] = j /\ lease'[j] = g[i]
          \/ (\A i \in 1..n : q[i] # j) /\ lease'[j] = l[j]
      BY HandOutLease
    <3> QED  BY <3>1, <3>2, <3>3
  <2>2. T \subseteq Jobs
    BY <1>7
  <2> HIDE DEF T
  <2> QED  BY <2>1, <2>2 DEF On
<1>9. On(l, p) \cap T = {}
  BY <1>7, NoneAssumption DEF On
<1>10. Cardinality(On(lease', p)) = Cardinality(On(l, p)) + Cardinality(T)
  <2> HIDE DEF T
  <2>1. IsFiniteSet(On(l, p)) /\ Cardinality(On(l, p)) \in Nat
    BY OnFinite
  <2>2. Cardinality(T) \in Nat
    BY <1>3, <1>4
  <2>3. Cardinality(On(l, p) \cup T) =
          Cardinality(On(l, p)) + Cardinality(T) - Cardinality(On(l, p) \cap T)
    BY <1>3, <2>1, FS_Union
  <2>4. Cardinality(On(l, p) \cap T) = 0
    BY <1>9, FS_EmptySet
  <2> QED  BY <1>8, <2>1, <2>2, <2>3, <2>4
<1>11. busy'[p] <= Slots[p]
  <2>1. CASE K = {}
    <3>1. Cardinality(K) = 0
      BY <2>1, FS_EmptySet
    <3> QED  BY <1>5, <3>1
  <2>2. CASE K # {}
    <3> HIDE DEF K
    <3>1. PICK k \in K : \A m \in K : m <= k
      BY <1>1, <1>2, <2>2, GreatestElement
    <3>2. k \in 1..n /\ g[k] = p
      BY <3>1 DEF K
    <3>3. {m \in 1..(k - 1) : g[m] = p} = K \ {k}
      <4>1. \A m \in 1..n : m \in 1..(k - 1) <=> m <= k /\ m # k
        BY <1>1, <3>2
      <4>2. \A m \in 1..(k - 1) : m \in 1..n
        BY <1>1, <3>2
      <4> QED  BY <3>1, <4>1, <4>2 DEF K
    <3>4. Cardinality({m \in 1..(k - 1) : g[m] = p}) = Cardinality(K) - 1
      BY <1>3, <3>1, <3>3, FS_RemoveElement
    <3>5. Taken(b, g, k)[p] = b[p] + (Cardinality(K) - 1)
      BY <3>4 DEF Taken
    <3>6. Taken(b, g, k)[p] < Slots[p]
      <4>1. IsBest(prs, Taken(b, g, k), p)
        BY <3>2 DEF HandOut
      <4> QED  BY <4>1 DEF IsBest, Eligible
    <3>7. b[p] \in Int /\ Slots[p] \in Int
      BY SlotsAssumption
    <3> QED  BY <1>4, <1>5, <3>5, <3>6, <3>7
  <2> QED  BY <2>1, <2>2
<1>12. b[p] <= busy'[p]
  BY <1>4, <1>5
<1> HIDE DEF K, T
<1> QED  BY <1>3, <1>5, <1>10, <1>11, <1>12

(* What dispatch does to the slots, when the counts were right before it. *)
LEMMA DispatchSlots ==
  ASSUME TypeOK, NEW s \in Services, NEW prs \in Seq(Providers),
         NEW b \in [Providers -> Int], NEW l \in [Jobs -> Providers \cup {None}],
         dispatch(s, prs, b, l),
         IsInjective(waiters[s]),
         \A j \in ToSet(waiters[s]) : l[j] = None,
         \A p \in Providers : b[p] = Cardinality(On(l, p)) /\ b[p] <= Slots[p]
  PROVE  /\ \A p \in Providers : /\ busy'[p] = Cardinality(On(lease', p))
                                 /\ b[p] <= busy'[p]
                                 /\ busy'[p] <= Slots[p]
         /\ waiters'[s] # <<>> => Eligible(prs, busy') = {}
         /\ \A t \in Services \ {s} : waiters'[t] = waiters[t]
<1>1. PICK n \in 0..Len(waiters[s]) :
         \E g \in [1..n -> Providers] : HandOut(s, prs, b, l, n, g)
  BY DEF dispatch
<1>2. PICK g \in [1..n -> Providers] : HandOut(s, prs, b, l, n, g)
  BY <1>1
<1>3. \A p \in Providers : /\ busy'[p] = Cardinality(On(lease', p))
                           /\ b[p] <= busy'[p]
                           /\ busy'[p] <= Slots[p]
  BY <1>2, HandOutSlots
<1>4. ASSUME waiters'[s] # <<>> PROVE Eligible(prs, busy') = {}
  <2>1. n = Len(waiters[s]) \/ Eligible(prs, Taken(b, g, n + 1)) = {}
    BY <1>2 DEF HandOut
  <2>2. busy' = Taken(b, g, n + 1)
    BY <1>2 DEF HandOut
  <2>3. waiters'[s] = SubSeq(waiters[s], n + 1, Len(waiters[s]))
    BY <1>2 DEF HandOut, TypeOK
  <2>4. n # Len(waiters[s])
    <3> SUFFICES ASSUME n = Len(waiters[s]) PROVE FALSE
      OBVIOUS
    <3>1. waiters[s] \in Seq(Jobs)
      BY DEF TypeOK
    <3>2. waiters'[s] \in Seq(Jobs) /\ Len(waiters'[s]) = Len(waiters[s]) - n
      BY <2>3, <3>1, SuffixElements
    <3>3. Len(waiters'[s]) = 0
      BY <3>1, <3>2, LenProperties
    <3> QED  BY <1>4, <3>2, <3>3, EmptySeq
  <2> QED  BY <2>1, <2>2, <2>4
<1>5. \A t \in Services \ {s} : waiters'[t] = waiters[t]
  BY <1>2 DEF HandOut, TypeOK
<1> QED  BY <1>3, <1>4, <1>5

(* No provider has more leases than slots. *)
SlotsKept == \A p \in Providers : busy[p] <= Slots[p]

(* A provider is listed once, under its own service, and until it is gone. *)
AtHome ==
  \A s \in Services :
    /\ IsInjective(providers[s])
    /\ \A p \in ToSet(providers[s]) : Service[p] = s /\ ~gone[p]

(* The inductive invariant of the slots. *)
SlotInv == HandoverInv /\ SlotAccounting /\ SlotsKept /\ AtHome /\ WorkConserving

(* The providers that are listed, place by place. *)
LEMMA HomePlaces ==
  ASSUME TypeOK, AtHome, NEW s \in Services, NEW i \in 1..Len(providers[s])
  PROVE  /\ providers[s][i] \in Providers
         /\ Service[providers[s][i]] = s
         /\ ~gone[providers[s][i]]
<1>1. providers[s] \in Seq(Providers)
  BY DEF TypeOK
<1>2. providers[s][i] \in ToSet(providers[s]) /\ providers[s][i] \in Providers
  BY <1>1, ToSetPlaces
<1> QED  BY <1>2 DEF AtHome

(* Nobody waits beside a free slot after a dispatch of one service. *)
LEMMA DispatchConserves ==
  ASSUME TypeOK, AtHome, WorkConserving, NEW s \in Services,
         NEW prs \in Seq(Providers),
         NEW b \in [Providers -> Int],
         providers' = [providers EXCEPT ![s] = prs], gone' = gone,
         busy' \in [Providers -> Int],
         \A p \in Providers : Service[p] # s => b[p] = busy[p],
         \A p \in Providers : b[p] <= busy'[p],
         waiters'[s] # <<>> => Eligible(prs, busy') = {},
         \A t \in Services \ {s} : waiters'[t] = waiters[t]
  PROVE  WorkConserving'
<1> SUFFICES ASSUME NEW t \in Services, waiters'[t] # <<>>,
                    NEW i \in 1..Len(providers'[t]), ~gone'[providers'[t][i]],
                    busy'[providers'[t][i]] < Slots[providers'[t][i]]
             PROVE  FALSE
  BY DEF WorkConserving, Eligible
<1>1. CASE t = s
  <2>1. providers'[t] = prs
    BY <1>1 DEF TypeOK
  <2>2. i \in Eligible(prs, busy')
    BY <2>1 DEF Eligible
  <2> QED  BY <1>1, <2>2
<1>2. CASE t # s
  <2>1. providers'[t] = providers[t] /\ waiters'[t] = waiters[t]
    BY <1>2 DEF TypeOK
  <2> DEFINE p == providers[t][i]
  <2>2. p \in Providers /\ Service[p] = t /\ ~gone[p]
    BY <2>1, HomePlaces
  <2>3. busy[p] <= busy'[p] /\ busy[p] \in Int /\ busy'[p] \in Int /\ Slots[p] \in Int
    <3> HIDE DEF p
    <3>1. b[p] = busy[p] /\ b[p] <= busy'[p]
      BY <1>2, <2>2
    <3>2. busy[p] \in Int /\ busy'[p] \in Int
      BY <2>2 DEF TypeOK
    <3> QED  BY <2>2, <3>1, <3>2, SlotsAssumption
  <2>4. i \in Eligible(providers[t], busy)
    <3>1. busy'[p] < Slots[p]
      BY <2>1
    <3> HIDE DEF p
    <3>2. busy[p] < Slots[p]
      BY <2>3, <3>1
    <3> QED  BY <2>1, <2>2, <3>2 DEF Eligible, p
  <2> QED  BY <2>1, <2>4 DEF WorkConserving
<1> QED  BY <1>1, <1>2

(* Release keeps the accounts. *)
LEMMA GiveBackSlots ==
  ASSUME SlotInv, NEW j \in Jobs, lease[j] # None, GiveBack(j)
  PROVE  SlotAccounting' /\ SlotsKept' /\ WorkConserving'
<1> DEFINE p == lease[j]
           s == Service[p]
           prs == providers[s]
           b == [busy EXCEPT ![p] = @ - 1]
           l == [lease EXCEPT ![j] = None]
<1> USE DEF SlotInv, HandoverInv
<1>1. p \in Providers /\ s \in Services
  BY ServiceAssumption DEF TypeOK
<1>2. prs \in Seq(Providers) /\ b \in [Providers -> Int]
      /\ l \in [Jobs -> Providers \cup {None}]
  BY <1>1 DEF TypeOK
<1>3. \A x \in Providers : b[x] = Cardinality(On(l, x)) /\ b[x] <= Slots[x]
  <2> TAKE x \in Providers
  <2>1. busy[x] = Cardinality(On(lease, x)) /\ busy[x] <= Slots[x] /\ busy[x] \in Int
        /\ Slots[x] \in Int
    BY SlotsAssumption DEF SlotAccounting, SlotsKept, On, TypeOK
  <2>2. CASE x = p
    <3>1. On(l, x) = On(lease, x) \ {j} /\ j \in On(lease, x)
      BY <1>1, <2>2, NoneAssumption DEF On, TypeOK
    <3>2. IsFiniteSet(On(lease, x))
      BY OnFinite
    <3>3. Cardinality(On(l, x)) = Cardinality(On(lease, x)) - 1
      BY <3>1, <3>2, FS_RemoveElement
    <3>4. b[x] = busy[x] - 1
      BY <1>1, <2>2 DEF TypeOK
    <3> QED  BY <2>1, <3>3, <3>4
  <2>3. CASE x # p
    <3>1. On(l, x) = On(lease, x)
      BY <2>3, NoneAssumption DEF On, TypeOK
    <3>2. b[x] = busy[x]
      BY <2>3 DEF TypeOK
    <3> QED  BY <2>1, <3>1, <3>2
  <2> QED  BY <2>2, <2>3
<1>4. IsInjective(waiters[s]) /\ \A k \in ToSet(waiters[s]) : l[k] = None
  <2>1. ToSet(waiters[s]) \subseteq Jobs
    BY <1>1, ToSetPlaces DEF TypeOK
  <2> QED  BY <1>1, <2>1 DEF QueuedOrHanded, TypeOK
<1>5. dispatch(s, prs, b, l) /\ UNCHANGED <<providers, gone>>
  BY DEF GiveBack
<1>6. busy' \in [Providers -> Int]
  BY GiveBackType
<1>7. \A x \in Providers : Service[x] # s => b[x] = busy[x]
  BY DEF TypeOK
<1>8. providers' = [providers EXCEPT ![s] = prs]
  BY <1>1, <1>5 DEF TypeOK
<1> HIDE DEF s, prs, b, l
<1>9. /\ \A x \in Providers : /\ busy'[x] = Cardinality(On(lease', x))
                              /\ b[x] <= busy'[x]
                              /\ busy'[x] <= Slots[x]
      /\ waiters'[s] # <<>> => Eligible(prs, busy') = {}
      /\ \A t \in Services \ {s} : waiters'[t] = waiters[t]
  BY <1>1, <1>2, <1>3, <1>4, <1>5, DispatchSlots
<1>10. SlotAccounting' /\ SlotsKept'
  BY <1>9 DEF SlotAccounting, SlotsKept, On
<1>11. WorkConserving'
  BY <1>1, <1>2, <1>5, <1>6, <1>7, <1>8, <1>9, DispatchConserves
<1> QED  BY <1>10, <1>11

(* The initial state. *)
LEMMA SlotInitial == Init => SlotInv
<1> SUFFICES ASSUME Init PROVE SlotInv
  OBVIOUS
<1>1. HandoverInv
  BY HandoverInit
<1>2. \A p \in Providers : On(lease, p) = {}
  BY NoneAssumption DEF Init, On
<1>3. SlotAccounting
  <2>1. \A p \in Providers : Cardinality(On(lease, p)) = 0 /\ busy[p] = 0
    BY <1>2, FS_EmptySet DEF Init
  <2> QED  BY <2>1 DEF SlotAccounting, On
<1>4. SlotsKept
  BY SlotsAssumption DEF Init, SlotsKept
<1>5. AtHome
  BY DEF Init, AtHome, IsInjective, ToSet
<1>6. WorkConserving
  BY DEF Init, WorkConserving
<1> QED  BY <1>1, <1>3, <1>4, <1>5, <1>6 DEF SlotInv

(* Every step of the pool keeps the accounts. *)
LEMMA SlotStep == SlotInv /\ [Next]_vars => SlotInv'
<1> SUFFICES ASSUME SlotInv, [Next]_vars PROVE SlotInv'
  OBVIOUS
<1> USE DEF SlotInv
<1>t. TypeOK /\ QueuedOrHanded
  BY DEF HandoverInv
<1>h. HandoverInv'
  BY HandoverStep
<1>0. ASSUME UNCHANGED <<providers, waiters, busy, gone, lease>>
      PROVE  SlotAccounting' /\ SlotsKept' /\ AtHome' /\ WorkConserving'
  BY <1>0 DEF SlotAccounting, SlotsKept, AtHome, WorkConserving, Eligible
<1>1. ASSUME NEW j \in Jobs, AcquireFree(j)
      PROVE  SlotAccounting' /\ SlotsKept' /\ AtHome' /\ WorkConserving'
  <2> DEFINE s == Service[j]
  <2>1. PICK p \in Providers : /\ IsBest(providers[s], busy, p)
                               /\ busy' = [busy EXCEPT ![p] = @ + 1]
                               /\ lease' = [lease EXCEPT ![j] = p]
    BY <1>1 DEF AcquireFree
  <2>2. busy[p] < Slots[p]
    BY <2>1 DEF IsBest, Eligible
  <2>3. lease[j] = None
    BY <1>1, <1>t DEF AcquireFree, QueuedOrHanded
  <2>4. ASSUME NEW x \in Providers
        PROVE  busy'[x] = Cardinality(On(lease', x)) /\ busy[x] <= busy'[x] /\ busy'[x] <= Slots[x]
    <3>1. busy[x] = Cardinality(On(lease, x)) /\ busy[x] <= Slots[x] /\ busy[x] \in Int
          /\ Slots[x] \in Int
      BY <1>t, SlotsAssumption DEF SlotAccounting, SlotsKept, On, TypeOK
    <3>2. CASE x = p
      <4>1. On(lease', x) = On(lease, x) \cup {j} /\ j \notin On(lease, x)
        BY <1>t, <2>1, <2>3, <3>2, NoneAssumption DEF On, TypeOK
      <4>2. IsFiniteSet(On(lease, x))
        BY OnFinite
      <4>3. Cardinality(On(lease', x)) = Cardinality(On(lease, x)) + 1
        BY <4>1, <4>2, FS_AddElement
      <4>4. busy'[x] = busy[x] + 1
        BY <1>t, <2>1, <3>2 DEF TypeOK
      <4> QED  BY <2>2, <3>1, <3>2, <4>3, <4>4
    <3>3. CASE x # p
      <4>1. On(lease', x) = On(lease, x)
        BY <1>t, <2>1, <2>3, <3>3, NoneAssumption DEF On, TypeOK
      <4>2. busy'[x] = busy[x]
        BY <1>t, <2>1, <3>3 DEF TypeOK
      <4> QED  BY <3>1, <4>1, <4>2
    <3> QED  BY <3>2, <3>3
  <2>5. SlotAccounting' /\ SlotsKept'
    BY <2>4 DEF SlotAccounting, SlotsKept, On
  <2>6. UNCHANGED <<providers, waiters, gone>> /\ waiters[s] = <<>>
    BY <1>1 DEF AcquireFree
  <2>7. AtHome'
    BY <2>6 DEF AtHome
  <2>8. WorkConserving'
    <3>1. busy' \in [Providers -> Int] /\ providers' = [providers EXCEPT ![s] = providers[s]]
      BY <1>t, <2>1, <2>6 DEF TypeOK
    <3>2. s \in Services /\ providers[s] \in Seq(Providers) /\ busy \in [Providers -> Int]
      BY <1>t, ServiceAssumption DEF TypeOK
    <3> HIDE DEF s
    <3> QED  BY <1>t, <2>4, <2>6, <3>1, <3>2, DispatchConserves
  <2> QED  BY <2>5, <2>7, <2>8
<1>2. ASSUME NEW j \in Jobs, AcquireWait(j)
      PROVE  SlotAccounting' /\ SlotsKept' /\ AtHome' /\ WorkConserving'
  <2>1. UNCHANGED <<providers, busy, gone, lease>>
    BY <1>2 DEF AcquireWait
  <2>2. SlotAccounting' /\ SlotsKept' /\ AtHome'
    BY <2>1 DEF SlotAccounting, SlotsKept, AtHome
  <2>3. \A t \in Services : waiters'[t] # <<>> => Eligible(providers[t], busy) = {}
    <3> TAKE t \in Services
    <3>1. CASE t = Service[j]
      BY <1>2, <3>1 DEF AcquireWait, WorkConserving
    <3>2. CASE t # Service[j]
      BY <1>2, <1>t, <3>2 DEF AcquireWait, WorkConserving, TypeOK
    <3> QED  BY <3>1, <3>2
  <2>4. WorkConserving'
    BY <2>1, <2>3 DEF WorkConserving, Eligible
  <2> QED  BY <2>2, <2>4
<1>3. ASSUME NEW j \in Jobs, AbandonQueued(j)
      PROVE  SlotAccounting' /\ SlotsKept' /\ AtHome' /\ WorkConserving'
  <2>1. UNCHANGED <<providers, busy, gone, lease>>
    BY <1>3 DEF AbandonQueued
  <2>2. SlotAccounting' /\ SlotsKept' /\ AtHome'
    BY <2>1 DEF SlotAccounting, SlotsKept, AtHome
  <2>3. \A t \in Services : waiters'[t] # <<>> => waiters[t] # <<>>
    <3> TAKE t \in Services
    <3>1. CASE t = Service[j]
      BY <1>3, <3>1 DEF AbandonQueued
    <3>2. CASE t # Service[j]
      BY <1>3, <1>t, <3>2 DEF AbandonQueued, TypeOK
    <3> QED  BY <3>1, <3>2
  <2>4. WorkConserving'
    BY <2>1, <2>3 DEF WorkConserving, Eligible
  <2> QED  BY <2>2, <2>4
<1>4. ASSUME NEW j \in Jobs, lease[j] # None, GiveBack(j)
      PROVE  SlotAccounting' /\ SlotsKept' /\ AtHome' /\ WorkConserving'
  <2>1. SlotAccounting' /\ SlotsKept' /\ WorkConserving'
    BY <1>4, GiveBackSlots
  <2>2. AtHome'
    BY <1>4 DEF GiveBack, AtHome
  <2> QED  BY <2>1, <2>2
<1>5. ASSUME NEW j \in Jobs, Drain(j) \/ Release(j)
      PROVE  SlotAccounting' /\ SlotsKept' /\ AtHome' /\ WorkConserving'
  <2>1. lease[j] # None
    BY <1>5, <1>t DEF Drain, Release, QueuedOrHanded
  <2>2. GiveBack(j)
    BY <1>5, <2>1 DEF Drain, Release
  <2> QED  BY <1>4, <2>1, <2>2
<1>6. ASSUME NEW p \in Providers, AddProvider(p)
      PROVE  SlotAccounting' /\ SlotsKept' /\ AtHome' /\ WorkConserving'
  <2> DEFINE s == Service[p]
             prs == Append(providers[s], p)
  <2>1. s \in Services /\ providers[s] \in Seq(Providers) /\ prs \in Seq(Providers)
    BY <1>t, ServiceAssumption, AppendProperties DEF TypeOK
  <2>2. /\ dispatch(s, prs, busy, lease)
        /\ providers' = [providers EXCEPT ![s] = prs]
        /\ gone' = gone
        /\ p \notin ToSet(providers[s])
        /\ ~gone[p]
    BY <1>6 DEF AddProvider
  <2>3. busy \in [Providers -> Int] /\ lease \in [Jobs -> Providers \cup {None}]
    BY <1>t DEF TypeOK
  <2>4. IsInjective(waiters[s]) /\ \A k \in ToSet(waiters[s]) : lease[k] = None
    BY <1>t, <2>1 DEF QueuedOrHanded
  <2>5. \A x \in Providers : busy[x] = Cardinality(On(lease, x)) /\ busy[x] <= Slots[x]
    BY DEF SlotAccounting, SlotsKept, On
  <2>6. /\ IsInjective(prs)
        /\ \A x : x \in ToSet(prs) <=> x \in ToSet(providers[s]) \/ x = p
    <3> DEFINE q == providers[s]
    <3>1. q \in Seq(Providers) /\ IsInjective(q) /\ p \notin ToSet(q)
      BY <2>1, <2>2 DEF AtHome
    <3>2. prs = Enqueue(q, p, FALSE)
      BY DEF Enqueue
    <3> HIDE DEF q
    <3>3. /\ IsInjective(Enqueue(q, p, FALSE))
          /\ \A x : x \in ToSet(Enqueue(q, p, FALSE)) <=> x \in ToSet(q) \/ x = p
      BY <3>1, EnqueueSet
    <3> QED  BY <3>2, <3>3 DEF q
  <2> HIDE DEF prs
  <2>7. AtHome'
    <3> SUFFICES ASSUME NEW t \in Services
                 PROVE  /\ IsInjective(providers'[t])
                        /\ \A x \in ToSet(providers'[t]) : Service[x] = t /\ ~gone[x]
      BY <2>2 DEF AtHome
    <3>1. CASE t = s
      <4>1. providers'[t] = prs
        BY <1>t, <2>2, <3>1 DEF TypeOK
      <4> QED  BY <2>1, <2>2, <2>6, <3>1, <4>1 DEF AtHome
    <3>2. CASE t # s
      <4>1. providers'[t] = providers[t]
        BY <1>t, <2>2, <3>2 DEF TypeOK
      <4> QED  BY <4>1 DEF AtHome
    <3> QED  BY <3>1, <3>2
  <2> HIDE DEF s
  <2>8. /\ \A x \in Providers : /\ busy'[x] = Cardinality(On(lease', x))
                                /\ busy[x] <= busy'[x]
                                /\ busy'[x] <= Slots[x]
        /\ waiters'[s] # <<>> => Eligible(prs, busy') = {}
        /\ \A t \in Services \ {s} : waiters'[t] = waiters[t]
    BY <1>t, <2>1, <2>2, <2>3, <2>4, <2>5, DispatchSlots
  <2>9. SlotAccounting' /\ SlotsKept'
    BY <2>8 DEF SlotAccounting, SlotsKept, On
  <2>10. busy' \in [Providers -> Int]
    BY <1>h DEF HandoverInv, TypeOK
  <2>11. WorkConserving'
    BY <1>t, <2>1, <2>2, <2>3, <2>8, <2>10, DispatchConserves
  <2> QED  BY <2>7, <2>9, <2>11
<1>7. ASSUME NEW p \in Providers, RemoveProvider(p)
      PROVE  SlotAccounting' /\ SlotsKept' /\ AtHome' /\ WorkConserving'
  <2> DEFINE s == Service[p]
             q == providers[s]
  <2>1. PICK i \in 1..Len(q) : /\ q[i] = p
                               /\ providers' = [providers EXCEPT ![s] = RemoveAt(@, i)]
    BY <1>7 DEF RemoveProvider
  <2>2. gone' = [gone EXCEPT ![p] = TRUE] /\ UNCHANGED <<waiters, busy, lease>>
    BY <1>7 DEF RemoveProvider
  <2>3. s \in Services /\ q \in Seq(Providers) /\ IsInjective(q)
    BY <1>t, ServiceAssumption DEF TypeOK, AtHome
  <2>4. /\ IsInjective(RemoveAt(q, i))
        /\ \A x : x \in ToSet(RemoveAt(q, i)) <=> x \in ToSet(q) /\ x # p
    <3> HIDE DEF q
    <3>1. /\ IsInjective(RemoveAt(q, i))
          /\ \A x : x \in ToSet(RemoveAt(q, i)) <=> x \in ToSet(q) /\ x # q[i]
      BY <2>1, <2>3, RemoveAtSet
    <3> QED  BY <2>1, <3>1
  <2>5. providers'[s] = RemoveAt(q, i)
        /\ \A t \in Services \ {s} : providers'[t] = providers[t]
    BY <1>t, <2>1, <2>3 DEF TypeOK
  <2>6. SlotAccounting' /\ SlotsKept'
    BY <2>2 DEF SlotAccounting, SlotsKept
  <2>7. \A t \in Services : /\ IsInjective(providers'[t])
                            /\ \A x \in ToSet(providers'[t]) : x \in ToSet(providers[t]) /\ x # p
    <3> TAKE t \in Services
    <3>1. CASE t = s
      BY <2>4, <2>5, <3>1
    <3>2. CASE t # s
      BY <2>3, <2>5, <3>2 DEF AtHome
    <3> QED  BY <3>1, <3>2
  <2>8. \A x \in Providers : x # p => gone'[x] = gone[x]
    BY <1>t, <2>2 DEF TypeOK
  <2>9. \A t \in Services : ToSet(providers[t]) \subseteq Providers
    BY <1>t, ToSetPlaces DEF TypeOK
  <2>10. AtHome'
    <3> SUFFICES ASSUME NEW t \in Services
                 PROVE  /\ IsInjective(providers'[t])
                        /\ \A x \in ToSet(providers'[t]) : Service[x] = t /\ ~gone'[x]
      BY DEF AtHome
    <3> HIDE DEF s, q
    <3> QED  BY <2>7, <2>8, <2>9 DEF AtHome
  <2>11. WorkConserving'
    <3> SUFFICES ASSUME NEW t \in Services, waiters'[t] # <<>>,
                        NEW k \in 1..Len(providers'[t]), ~gone'[providers'[t][k]],
                        busy'[providers'[t][k]] < Slots[providers'[t][k]]
                 PROVE  FALSE
      BY DEF WorkConserving, Eligible
    <3> DEFINE x == providers'[t][k]
    <3>1. providers'[t] \in Seq(Providers) /\ providers[t] \in Seq(Providers)
      BY <1>h, <1>t DEF HandoverInv, TypeOK
    <3>2. x \in ToSet(providers'[t])
      BY <3>1, ToSetPlaces
    <3>3. x \in ToSet(providers[t]) /\ x \in Providers /\ ~gone[x]
      BY <2>7, <2>9, <3>2 DEF AtHome
    <3>4. PICK m \in 1..Len(providers[t]) : providers[t][m] = x
      BY <3>1, <3>3, ToSetPlaces
    <3>5. m \in Eligible(providers[t], busy)
      BY <2>2, <3>3, <3>4 DEF Eligible
    <3> QED  BY <2>2, <3>5 DEF WorkConserving
  <2> QED  BY <2>6, <2>10, <2>11
<1>8. SlotAccounting' /\ SlotsKept' /\ AtHome' /\ WorkConserving'
  <2>1. ASSUME NEW j \in Jobs, JobStep(j)
        PROVE  SlotAccounting' /\ SlotsKept' /\ AtHome' /\ WorkConserving'
    <3>1. CASE Arrive(j) \/ Receive(j) \/ GiveUp(j) \/ AbandonLate(j) \/ Cancel(j)
      BY <1>0, <3>1 DEF Arrive, Receive, GiveUp, AbandonLate, Cancel
    <3> QED  BY <1>1, <1>2, <1>3, <1>5, <2>1, <3>1 DEF JobStep
  <2>2. CASE Tick \/ Rest \/ UNCHANGED vars
    BY <1>0, <2>2 DEF Tick, Rest, vars
  <2> QED  BY <1>6, <1>7, <2>1, <2>2 DEF Next
<1> QED  BY <1>h, <1>8

(* All of it together. *)
LEMMA SlotInvariance == Spec => []SlotInv
BY SlotInitial, SlotStep, PTL DEF Spec

(***************************************************************************)
(* Provider.busy is the number of leases on the provider that were made    *)
(* and not released, whoever has them, whatever was lost in between.       *)
(***************************************************************************)
THEOREM SlotsAreAccounted == Spec => []SlotAccounting
BY SlotInvariance, PTL DEF SlotInv

(***************************************************************************)
(* However many leases one dispatch hands out, and however many providers  *)
(* it chooses among, no provider ever has more jobs than slots.            *)
(***************************************************************************)
THEOREM SlotsAreNeverOversold == Spec => []NeverOverSubscribed
<1>1. SlotInv => NeverOverSubscribed
  BY DEF SlotInv, SlotAccounting, SlotsKept, NeverOverSubscribed
<1> QED  BY <1>1, SlotInvariance, PTL

(***************************************************************************)
(* No step of any goroutine leaves a job waiting beside a free slot of its *)
(* service: every place in the code that frees or adds one dispatches.     *)
(***************************************************************************)
THEOREM WorkIsConserved == Spec => []WorkConserving
BY SlotInvariance, PTL DEF SlotInv

-----------------------------------------------------------------------------
(* The queue timeout. *)

(* The timer of a waiting job was set from its arrival. *)
TimerInv ==
  \A j \in Jobs : phase[j] = "select" => deadline[j] = arrived[j] + Timeout

(* Only AcquireWait sets a timer, and only Arrive an arrival, before it. *)
LEMMA TimerStep == HandoverInv /\ TimerInv /\ [Next]_vars => TimerInv'
<1> SUFFICES ASSUME HandoverInv, TimerInv, [Next]_vars PROVE TimerInv'
  OBVIOUS
<1> USE DEF TimerInv, HandoverInv, TypeOK
<1>1. ASSUME NEW j \in Jobs, Arrive(j) PROVE TimerInv'
  BY <1>1 DEF Arrive
<1>2. ASSUME NEW j \in Jobs, AcquireWait(j) PROVE TimerInv'
  BY <1>2, TimeAssumption DEF AcquireWait, TimerAt
<1>3. ASSUME NEW j \in Jobs, NEW ph, ph # "select",
             phase' = [phase EXCEPT ![j] = ph], UNCHANGED <<arrived, deadline>>
      PROVE  TimerInv'
  BY <1>3
<1>4. ASSUME UNCHANGED <<arrived, deadline, phase>> PROVE TimerInv'
  BY <1>4
<1>5. ASSUME NEW j \in Jobs,
             AcquireFree(j) \/ Receive(j) \/ GiveUp(j) \/ AbandonQueued(j) \/ AbandonLate(j)
      PROVE  TimerInv'
  BY <1>3, <1>5 DEF AcquireFree, Receive, GiveUp, AbandonQueued, AbandonLate
<1>6. ASSUME NEW j \in Jobs, Drain(j) \/ Release(j) PROVE TimerInv'
  BY <1>3, <1>6 DEF Drain, Release, GiveBack
<1>7. ASSUME NEW j \in Jobs, Cancel(j) PROVE TimerInv'
  BY <1>4, <1>7 DEF Cancel
<1>8. ASSUME NEW p \in Providers, AddProvider(p) \/ RemoveProvider(p) PROVE TimerInv'
  BY <1>4, <1>8 DEF AddProvider, RemoveProvider
<1>9. CASE Tick \/ Rest \/ UNCHANGED vars
  BY <1>4, <1>9 DEF Tick, Rest, vars
<1> QED
  BY <1>1, <1>2, <1>5, <1>6, <1>7, <1>8, <1>9 DEF Next, JobStep

(* Nothing but Tick moves the clock. *)
LEMMA OnlyTickTicks == Next /\ now' # now => Tick
<1>1. ASSUME NEW k \in Jobs, JobStep(k) PROVE now' = now
  BY <1>1 DEF JobStep, Arrive, AcquireFree, AcquireWait, Receive, GiveUp,
              AbandonQueued, AbandonLate, Drain, Release, GiveBack, Cancel
<1>2. ASSUME NEW p \in Providers, AddProvider(p) \/ RemoveProvider(p)
      PROVE  now' = now
  BY <1>2 DEF AddProvider, RemoveProvider
<1>3. Rest => now' = now
  BY DEF Rest, vars
<1> QED  BY <1>1, <1>2, <1>3 DEF Next

(***************************************************************************)
(* The queue timeout counts from a job's first arrival however often it is *)
(* requeued: no Acquire restarts it.                                       *)
(***************************************************************************)
THEOREM TimeoutFromArrival == Spec => DeadlineFromArrival
<1>1. Init => TimerInv
  BY DEF Init, TimerInv
<1>2. HandoverInv /\ TimerInv /\ [Next]_vars =>
        [\A j \in Jobs : phase'[j] = "select" =>
           /\ deadline'[j] <= arrived'[j] + Timeout
           /\ now' > now => now' <= arrived'[j] + Timeout]_vars
  <2> SUFFICES ASSUME HandoverInv, TimerInv, Next, NEW j \in Jobs, phase'[j] = "select"
               PROVE  /\ deadline'[j] <= arrived'[j] + Timeout
                      /\ now' > now => now' <= arrived'[j] + Timeout
    BY DEF vars
  <2>1. deadline'[j] = arrived'[j] + Timeout /\ deadline'[j] \in Nat
    <3>1. HandoverInv' /\ TimerInv'
      BY HandoverStep, TimerStep
    <3> QED  BY <3>1 DEF TimerInv, HandoverInv, TypeOK
  <2>2. ASSUME now' > now PROVE now' <= arrived'[j] + Timeout
    <3>1. now \in Nat
      BY DEF HandoverInv, TypeOK
    <3>2. Tick
      BY <2>2, <3>1, OnlyTickTicks
    <3>3. now < deadline[j] /\ now' = now + 1 /\ UNCHANGED <<arrived, deadline>>
      BY <3>2 DEF Tick
    <3> QED  BY <2>1, <3>1, <3>3
  <2> QED  BY <2>1, <2>2
<1>3. Spec => []HandoverInv
  BY HandoverInit, HandoverStep, PTL DEF Spec
<1> QED
  BY <1>1, <1>2, <1>3, TimerStep, PTL DEF Spec, DeadlineFromArrival
-----------------------------------------------------------------------------
(* best's loop and the relation IsBest. *)

(* best's comparison of a provider with the best one so far. *)
Wins(b, pr, cur) ==
  \/ cur = None
  \/ Priority[pr] < Priority[cur]
  \/ Priority[pr] = Priority[cur] /\ free(b, pr) > free(b, cur)

(* What the loop holds after provider i, h being what it held before. *)
Scanned(prs, b, h, i) ==
  IF i = 0 THEN None
  ELSE IF i \in Eligible(prs, b) /\ Wins(b, prs[i], h[i - 1]) THEN prs[i] ELSE h[i - 1]

(* The loop computes something: there is a function that obeys its equation. *)
LEMMA ScanExists ==
  ASSUME NEW prs, NEW b, NEW n \in Nat
  PROVE  \E h : h = [i \in 0..n |-> Scanned(prs, b, h, i)]
<1> DEFINE Good(m) == \E h : h = [i \in 0..m |-> Scanned(prs, b, h, i)]
           Bad == {m \in Nat : ~Good(m)}
<1> SUFFICES ASSUME n \in Bad PROVE FALSE
  OBVIOUS
<1>1. PICK m \in Bad : \A k \in Bad : m <= k
  <2> HIDE DEF Bad
  <2>1. Bad \in SUBSET Nat
    BY DEF Bad
  <2> QED  BY <2>1, LeastElement
<1>2. CASE m = 0
  <2> DEFINE h == [i \in 0..0 |-> None]
  <2>1. h = [i \in 0..0 |-> Scanned(prs, b, h, i)]
    BY DEF Scanned
  <2>2. Good(0)
    BY <2>1
  <2> QED  BY <1>1, <1>2, <2>2
<1>3. CASE m # 0
  <2>1. m \in Nat /\ m - 1 \in Nat /\ ~(m <= m - 1)
    BY <1>1, <1>3
  <2>2. Good(m - 1)
    BY <1>1, <2>1
  <2>3. PICK g : g = [i \in 0..(m - 1) |-> Scanned(prs, b, g, i)]
    BY <2>2
  <2> DEFINE h == [i \in 0..m |-> IF i < m THEN g[i] ELSE Scanned(prs, b, g, m)]
  <2>4. ASSUME NEW i \in 0..m PROVE h[i] = Scanned(prs, b, h, i)
    <3>1. CASE i = 0
      <4>1. h[i] = g[i] /\ i \in 0..(m - 1)
        BY <2>1, <3>1
      <4>2. g[i] = Scanned(prs, b, g, i)
        BY <2>3, <4>1
      <4> QED  BY <3>1, <4>1, <4>2 DEF Scanned
    <3>2. CASE i # 0
      <4>1. i - 1 \in 0..m /\ i - 1 < m
        BY <2>1, <3>2
      <4>2. h[i - 1] = g[i - 1]
        BY <4>1
      <4>3. Scanned(prs, b, h, i) = Scanned(prs, b, g, i)
        BY <3>2, <4>2 DEF Scanned
      <4>4. h[i] = Scanned(prs, b, g, i)
        <5>1. CASE i < m
          <6>1. i \in 0..(m - 1)
            BY <2>1, <5>1
          <6>2. g[i] = Scanned(prs, b, g, i)
            BY <2>3, <6>1
          <6> QED  BY <5>1, <6>2
        <5>2. CASE i = m
          BY <2>1, <5>2
        <5> QED  BY <2>1, <5>1, <5>2
      <4> QED  BY <4>3, <4>4
    <3> QED  BY <3>1, <3>2
  <2>5. h = [i \in 0..m |-> h[i]]
    OBVIOUS
  <2> HIDE DEF h
  <2>6. h = [i \in 0..m |-> Scanned(prs, b, h, i)]
    BY <2>4, <2>5
  <2>7. Good(m)
    BY <2>6
  <2> QED  BY <1>1, <2>7
<1> QED  BY <1>2, <1>3

(* best returns what its loop holds at the end. *)
LEMMA BestScans ==
  ASSUME NEW prs \in Seq(Providers), NEW b
  PROVE  \E h : /\ best(prs, b) = h[Len(prs)]
                /\ \A i \in 0..Len(prs) : h[i] = Scanned(prs, b, h, i)
<1> DEFINE h == CHOOSE scan : scan = [i \in 0..Len(prs) |-> Scanned(prs, b, scan, i)]
<1>1. best(prs, b) = h[Len(prs)]
  BY Zenon DEF best, Wins, Scanned
<1>2. Len(prs) \in Nat
  BY LenProperties
<1>3. \E scan : scan = [i \in 0..Len(prs) |-> Scanned(prs, b, scan, i)]
  BY <1>2, ScanExists
<1>4. h = [i \in 0..Len(prs) |-> Scanned(prs, b, h, i)]
  BY <1>3, Zenon
<1> HIDE DEF h
<1>5. \A i \in 0..Len(prs) : h[i] = Scanned(prs, b, h, i)
  BY <1>4
<1> QED  BY <1>1, <1>5

(* The loop's invariant: it holds the most preferred of the places seen. *)
LEMMA ScanKeepsBest ==
  ASSUME NEW prs \in Seq(Providers), NEW b \in [Providers -> Int], NEW h,
         \A i \in 0..Len(prs) : h[i] = Scanned(prs, b, h, i)
  PROVE  LET E == Eligible(prs, b) IN
         \A i \in 0..Len(prs) :
           \/ (\A k \in E : i < k) /\ h[i] = None
           \/ \E e \in E : /\ e <= i
                           /\ h[i] = prs[e]
                           /\ \A k \in E : k <= i => Preferred(prs, b, e, k)
<1> DEFINE N == Len(prs)
           E == Eligible(prs, b)
           Held(i, e) == /\ e <= i
                         /\ h[i] = prs[e]
                         /\ \A k \in E : k <= i => Preferred(prs, b, e, k)
           Good(i) == \/ (\A k \in E : i < k) /\ h[i] = None
                      \/ \E e \in E : Held(i, e)
           Bad == {i \in 0..N : ~Good(i)}
<1>1. N \in Nat /\ E \subseteq 1..N
  BY LenProperties DEF Eligible
<1>2. \A k \in E : /\ prs[k] \in Providers /\ prs[k] # None /\ k \in Nat
                   /\ Priority[prs[k]] \in Int /\ free(b, prs[k]) \in Int
  <2> TAKE k \in E
  <2>1. prs[k] \in Providers /\ k \in Nat
    BY <1>1, ElementOfSeq
  <2> QED  BY <2>1, NoneAssumption, PriorityAssumption, SlotsAssumption DEF free
<1> HIDE DEF N, E
<1> SUFFICES ASSUME Bad # {} PROVE FALSE
  BY DEF E, N
<1>3. PICK m \in Bad : \A k \in Bad : m <= k
  <2> HIDE DEF Bad
  <2>1. Bad \in SUBSET Nat
    BY <1>1 DEF Bad
  <2> QED  BY <2>1, LeastElement
<1>4. m \in 0..N /\ ~Good(m) /\ h[m] = Scanned(prs, b, h, m)
  BY <1>3 DEF N
<1>5. CASE m = 0
  <2>1. h[m] = None
    BY <1>4, <1>5 DEF Scanned
  <2>2. \A k \in E : m < k
    <3>1. \A k \in 1..N : m < k
      BY <1>1, <1>5
    <3> QED  BY <1>1, <3>1
  <2> QED  BY <1>4, <2>1, <2>2
<1>6. CASE m # 0
  <2>1. m - 1 \in 0..N /\ ~(m <= m - 1)
    BY <1>1, <1>4, <1>6
  <2>2. Good(m - 1)
    BY <1>3, <2>1
  <2>3. h[m] = IF m \in E /\ Wins(b, prs[m], h[m - 1]) THEN prs[m] ELSE h[m - 1]
    BY <1>4, <1>6 DEF Scanned, E
  <2>4. \A k \in E : k <= m => k = m \/ k <= m - 1
    <3>1. \A k \in 1..N : k <= m => k = m \/ k <= m - 1
      BY <1>1, <1>4
    <3> QED  BY <1>1, <3>1
  <2>5. \A k \in E : m - 1 < k => k >= m
    BY <1>1, <1>4
  <2>6. m \in E => Preferred(prs, b, m, m)
    BY <1>2 DEF Preferred
  <2>7. CASE m \notin E
    <3>1. h[m] = h[m - 1]
      BY <2>3, <2>7
    <3>2. CASE (\A k \in E : m - 1 < k) /\ h[m - 1] = None
      <4>1. \A k \in E : m < k
        BY <1>1, <1>4, <2>5, <2>7, <3>2
      <4> QED  BY <1>4, <3>1, <3>2, <4>1
    <3>3. CASE \E e \in E : Held(m - 1, e)
      <4>1. PICK e \in E : Held(m - 1, e)
        BY <3>3
      <4>2. e <= m
        BY <1>1, <1>4, <4>1
      <4>3. \A k \in E : k <= m => Preferred(prs, b, e, k)
        BY <2>4, <2>7, <4>1
      <4>4. Held(m, e)
        BY <3>1, <4>1, <4>2, <4>3
      <4> QED  BY <1>4, <4>4
    <3> QED  BY <2>2, <3>2, <3>3
  <2>8. CASE m \in E
    <3>1. CASE (\A k \in E : m - 1 < k) /\ h[m - 1] = None
      <4>1. h[m] = prs[m]
        BY <2>3, <2>8, <3>1 DEF Wins
      <4>2. \A k \in E : k <= m => k = m
        BY <1>1, <1>4, <2>5, <3>1
      <4>3. Held(m, m)
        BY <1>1, <1>4, <2>6, <2>8, <4>1, <4>2
      <4> QED  BY <1>4, <2>8, <4>3
    <3>2. CASE \E e \in E : Held(m - 1, e)
      <4>1. PICK e \in E : Held(m - 1, e)
        BY <3>2
      <4>2. CASE Wins(b, prs[m], prs[e])
        <5>1. h[m] = prs[m]
          BY <2>3, <2>8, <4>1, <4>2
        <5>2. ASSUME NEW k \in E, k <= m - 1 PROVE Preferred(prs, b, m, k)
          <6>1. Preferred(prs, b, e, k)
            BY <4>1, <5>2
          <6> DEFINE x == prs[m]
                     y == prs[e]
                     z == prs[k]
          <6>2. /\ y # None
                /\ {Priority[x], Priority[y], Priority[z]} \subseteq Int
                /\ {free(b, x), free(b, y), free(b, z)} \subseteq Int
            BY <1>2, <2>8
          <6>3. Wins(b, x, y) /\ Preferred(prs, b, e, k)
            BY <4>2, <6>1
          <6>4. \/ Priority[y] < Priority[z]
                \/ Priority[y] = Priority[z] /\ free(b, y) >= free(b, z)
            BY <6>2, <6>3 DEF Preferred
          <6> HIDE DEF x, y, z
          <6>5. \/ Priority[x] < Priority[z]
                \/ Priority[x] = Priority[z] /\ free(b, x) > free(b, z)
            BY <6>2, <6>3, <6>4 DEF Wins
          <6> QED  BY <6>5 DEF Preferred, x, z
        <5>3. Held(m, m)
          BY <1>1, <1>4, <2>4, <2>6, <2>8, <5>1, <5>2
        <5> QED  BY <1>4, <2>8, <5>3
      <4>3. CASE ~Wins(b, prs[m], prs[e])
        <5>1. h[m] = prs[e]
          BY <2>3, <2>8, <4>1, <4>3
        <5>2. e <= m
          BY <1>1, <1>4, <4>1
        <5>3. Preferred(prs, b, e, m)
          BY <1>2, <2>8, <4>3, <5>2 DEF Preferred, Wins
        <5>4. Held(m, e)
          BY <2>4, <4>1, <5>1, <5>2, <5>3
        <5> QED  BY <1>4, <5>4
      <4> QED  BY <4>2, <4>3
    <3> QED  BY <2>2, <3>1, <3>2
  <2> QED  BY <2>7, <2>8
<1> QED  BY <1>5, <1>6

(* Whatever providers there are and however busy, the loop finds the best. *)
LEMMA BestIsBest ==
  ASSUME NEW prs \in Seq(Providers), NEW b \in [Providers -> Int]
  PROVE  /\ best(prs, b) = None <=> Eligible(prs, b) = {}
         /\ \A p \in Providers : IsBest(prs, b, p) <=> best(prs, b) = p
<1> DEFINE N == Len(prs)
           E == Eligible(prs, b)
<1>1. N \in Nat /\ E \subseteq 1..N
  BY LenProperties DEF Eligible
<1>2. \A k \in E : /\ prs[k] \in Providers /\ prs[k] # None /\ k \in Nat /\ k <= N
                   /\ Priority[prs[k]] \in Int /\ free(b, prs[k]) \in Int
  <2> TAKE k \in E
  <2>1. prs[k] \in Providers /\ k \in Nat /\ k <= N
    BY <1>1, ElementOfSeq
  <2> QED  BY <2>1, NoneAssumption, PriorityAssumption, SlotsAssumption DEF free
<1>3. PICK h : /\ best(prs, b) = h[Len(prs)]
               /\ \A i \in 0..Len(prs) : h[i] = Scanned(prs, b, h, i)
  BY BestScans
<1>4. \/ (\A k \in E : N < k) /\ h[N] = None
      \/ \E e \in E : /\ e <= N
                      /\ h[N] = prs[e]
                      /\ \A k \in E : k <= N => Preferred(prs, b, e, k)
  BY <1>1, <1>3, ScanKeepsBest
<1> HIDE DEF N, E
<1>5. best(prs, b) = h[N]
  BY <1>3 DEF N
<1>6. CASE E = {}
  <2>1. h[N] = None
    BY <1>4, <1>6
  <2>2. \A p \in Providers : ~IsBest(prs, b, p)
    BY <1>6 DEF IsBest, E
  <2> QED  BY <1>5, <1>6, <2>1, <2>2, NoneAssumption DEF E
<1>7. CASE E # {}
  <2>1. PICK e \in E : /\ h[N] = prs[e]
                       /\ \A k \in E : Preferred(prs, b, e, k)
    <3>1. ~ \A k \in E : N < k
      <4>1. PICK k \in E : k \in Nat /\ k <= N
        BY <1>2, <1>7
      <4>2. ~(N < k)
        BY <1>1, <4>1
      <4> QED  BY <4>2
    <3> QED  BY <1>2, <1>4, <3>1
  <2>2. ASSUME NEW p \in Providers, IsBest(prs, b, p) PROVE p = prs[e]
    <3>1. PICK d \in E : prs[d] = p /\ \A k \in E : Preferred(prs, b, d, k)
      BY <2>2 DEF IsBest, E
    <3>2. Preferred(prs, b, d, e) /\ Preferred(prs, b, e, d)
      BY <2>1, <3>1
    <3>3. d = e
      BY <1>2, <3>2 DEF Preferred
    <3> QED  BY <3>1, <3>3
  <2>3. IsBest(prs, b, prs[e])
    BY <2>1 DEF IsBest, E
  <2> QED  BY <1>2, <1>5, <1>7, <2>1, <2>2, <2>3 DEF E
<1> QED  BY <1>6, <1>7

(***************************************************************************)
(* The relation the model uses for best is the loop the code runs: it      *)
(* finds one provider or none, and that one, whatever the priorities, the  *)
(* slots and the order of the list.                                        *)
(***************************************************************************)
THEOREM LoopFindsBest == Spec => []BestIsTheLoop
<1>1. TypeOK => BestIsTheLoop
  <2> SUFFICES ASSUME TypeOK, NEW s \in Services
               PROVE  LET pr == best(providers[s], busy) IN
                        /\ pr = None <=> Eligible(providers[s], busy) = {}
                        /\ \A p \in Providers : IsBest(providers[s], busy, p) <=> pr = p
    BY DEF BestIsTheLoop
  <2>1. providers[s] \in Seq(Providers) /\ busy \in [Providers -> Int]
    BY DEF TypeOK
  <2> QED  BY <2>1, BestIsBest
<1> QED  BY <1>1, HandoverCorrect, PTL
=============================================================================
