--------------------------- MODULE JobQueueProofs ---------------------------
(***************************************************************************)
(* Proofs about JobQueue, for any readers and any number of messages.      *)
(***************************************************************************)
EXTENDS JobQueue, TLAPS, SequenceTheorems

(* Appending to the second part of a concatenation appends to the whole. *)
LEMMA AppendConcat ==
  ASSUME NEW S, NEW u \in Seq(S), NEW v \in Seq(S), NEW e \in S
  PROVE  u \o Append(v, e) = Append(u \o v, e)
OBVIOUS

(* Moving the head of the second part to the end of the first. *)
LEMMA MoveHead ==
  ASSUME NEW S, NEW u \in Seq(S), NEW v \in Seq(S), v # <<>>
  PROVE  /\ Append(u, Head(v)) \o Tail(v) = u \o v
         /\ Append(u, Head(v)) \in Seq(S)
         /\ Tail(v) \in Seq(S)
OBVIOUS

(***************************************************************************)
(* The inductive invariant.  A channel is made for every message accepted  *)
(* and for the close, which bounds ready; a reader never holds a channel   *)
(* that does not exist yet; and a reader that was told of the close leaves *)
(* an empty queue behind, which no push can fill again.                    *)
(***************************************************************************)
QueueInv ==
  /\ TypeOK
  /\ ready <= pushed + (IF closed THEN 1 ELSE 0)
  /\ NothingLost
  /\ \A r \in Readers : at[r] = "wait" => waitOn[r] <= ready
  /\ \A r \in Readers : at[r] = "wait" /\ waitOn[r] = ready => items = <<>> /\ ~closed
  /\ \A r \in Readers : at[r] = "closed" => items = <<>> /\ closed

(* An empty queue that nobody reads. *)
LEMMA QueueInit == Init => QueueInv
<1> SUFFICES ASSUME Init PROVE QueueInv
  OBVIOUS
<1>1. TypeOK
  <2>1. items \in Seq(Nat) /\ accepted \in Seq(Nat) /\ received \in Seq(Nat)
    BY DEF Init
  <2>2. ready \in 0..(MaxPush + 1) /\ pushed \in 0..MaxPush
    BY PushAssumption DEF Init
  <2> QED  BY <2>1, <2>2 DEF Init, TypeOK, Places
<1>2. NothingLost
  BY DEF Init, NothingLost
<1>3. ready <= pushed + (IF closed THEN 1 ELSE 0)
  BY DEF Init
<1>4. \A r \in Readers : at[r] = "lock"
  BY DEF Init
<1> QED  BY <1>1, <1>2, <1>3, <1>4 DEF QueueInv

(* Every step keeps it. *)
LEMMA QueueStep == QueueInv /\ [Next]_vars => QueueInv'
<1> SUFFICES ASSUME QueueInv, [Next]_vars PROVE QueueInv'
  OBVIOUS
<1> USE DEF QueueInv
<1>1. CASE push
  <2>1. CASE closed
    <3>1. /\ UNCHANGED <<items, accepted, ready, closed, at, waitOn, gaveUp, received>>
          /\ pushed' = pushed + 1 /\ pushed < MaxPush
      BY <1>1, <2>1 DEF push
    <3>2. pushed' \in 0..MaxPush
      BY <3>1, PushAssumption DEF TypeOK
    <3>3. TypeOK'
      BY <3>1, <3>2 DEF TypeOK
    <3>4. ready' <= pushed' + (IF closed' THEN 1 ELSE 0)
      BY <2>1, <3>1, PushAssumption DEF TypeOK
    <3> QED  BY <3>1, <3>3, <3>4 DEF NothingLost
  <2>2. CASE ~closed
    <3>1. NothingLost'
      <4>1. pushed + 1 \in Nat
        BY PushAssumption DEF TypeOK
      <4>2. received \o Append(items, pushed + 1) = Append(received \o items, pushed + 1)
        BY <4>1, AppendConcat DEF TypeOK
      <4> QED  BY <1>1, <2>2, <4>2 DEF push, NothingLost
    <3>2. items' \in Seq(Nat) /\ accepted' \in Seq(Nat)
      <4>1. pushed + 1 \in Nat /\ items \in Seq(Nat) /\ accepted \in Seq(Nat)
        BY PushAssumption DEF TypeOK
      <4>2. Append(items, pushed + 1) \in Seq(Nat) /\ Append(accepted, pushed + 1) \in Seq(Nat)
        BY <4>1, AppendProperties
      <4>3. items' = Append(items, pushed + 1) /\ accepted' = Append(accepted, pushed + 1)
        BY <1>1, <2>2 DEF push
      <4> QED  BY <4>2, <4>3
    <3>3. ready' = ready + 1 /\ closed' = closed /\ pushed' = pushed + 1 /\ pushed < MaxPush
      BY <1>1, <2>2 DEF push, wake
    <3>4. TypeOK'
      BY <1>1, <2>2, <3>2, <3>3, PushAssumption DEF push, TypeOK
    <3>5. UNCHANGED <<at, waitOn>>
      BY <1>1 DEF push
    <3>6. \A r \in Readers : at[r] = "wait" => waitOn[r] < ready'
      BY <3>3, PushAssumption DEF TypeOK
    <3>7. ready' <= pushed' + (IF closed' THEN 1 ELSE 0)
      BY <2>2, <3>3, PushAssumption DEF TypeOK
    <3>8. \A r \in Readers : at'[r] = "wait" => waitOn'[r] <= ready' /\ waitOn'[r] # ready'
      <4>1. ready' \in Nat /\ waitOn \in [Readers -> Nat]
        BY <3>3, PushAssumption DEF TypeOK
      <4> QED  BY <3>5, <3>6, <4>1
    <3>9. \A r \in Readers : at'[r] # "closed"
      BY <2>2, <3>5
    <3> QED  BY <3>1, <3>4, <3>7, <3>8, <3>9
  <2> QED  BY <2>1, <2>2
<1>2. CASE close
  <2>1. ready' = ready + 1 /\ ~closed /\ closed'
    BY <1>2 DEF close, wake
  <2>2. UNCHANGED <<items, at, waitOn, gaveUp, pushed, accepted, received>>
    BY <1>2 DEF close
  <2>3. ready' <= pushed' + (IF closed' THEN 1 ELSE 0)
    BY <2>1, <2>2, PushAssumption DEF TypeOK
  <2>4. closed' \in BOOLEAN
    BY <1>2 DEF close
  <2>5. TypeOK'
    BY <2>1, <2>2, <2>3, <2>4, PushAssumption DEF TypeOK
  <2>6. \A r \in Readers : at[r] = "wait" => waitOn[r] < ready'
    BY <2>1, PushAssumption DEF TypeOK
  <2>7. NothingLost'
    BY <2>2 DEF NothingLost
  <2>8. \A r \in Readers : at'[r] = "wait" => waitOn'[r] <= ready' /\ waitOn'[r] # ready'
    <3>1. ready' \in Nat /\ waitOn \in [Readers -> Nat]
      BY <2>1, PushAssumption DEF TypeOK
    <3> QED  BY <2>2, <2>6, <3>1
  <2>9. \A r \in Readers : at'[r] # "closed"
    BY <2>1, <2>2
  <2> QED  BY <2>3, <2>5, <2>7, <2>8, <2>9
<1>3. ASSUME NEW r \in Readers, nextLook(r) PROVE QueueInv'
  <2>1. CASE items # <<>>
    <3>1. /\ items' = Tail(items) /\ received' = Append(received, Head(items))
          /\ UNCHANGED <<closed, ready, at, waitOn, gaveUp, pushed, accepted>>
      BY <1>3, <2>1 DEF nextLook
    <3>2. /\ Append(received, Head(items)) \o Tail(items) = received \o items
          /\ Append(received, Head(items)) \in Seq(Nat)
          /\ Tail(items) \in Seq(Nat)
      BY <2>1, MoveHead DEF TypeOK
    <3>3. NothingLost'
      BY <3>1, <3>2 DEF NothingLost
    <3>4. TypeOK'
      BY <3>1, <3>2 DEF TypeOK
    <3> QED  BY <2>1, <3>1, <3>3, <3>4
  <2>2. CASE items = <<>>
    <3>1. UNCHANGED <<items, closed, ready, gaveUp, pushed, accepted, received>>
      BY <1>3, <2>2 DEF nextLook
    <3>2. NothingLost' /\ ready' <= pushed' + (IF closed' THEN 1 ELSE 0)
      BY <3>1 DEF NothingLost
    <3>3. CASE closed
      <4>1. at' = [at EXCEPT ![r] = "closed"] /\ UNCHANGED waitOn
        BY <1>3, <2>2, <3>3 DEF nextLook
      <4>2. TypeOK'
        BY <3>1, <4>1 DEF TypeOK, Places
      <4> QED  BY <2>2, <3>1, <3>2, <3>3, <4>1, <4>2 DEF TypeOK
    <3>4. CASE ~closed
      <4>1. at' = [at EXCEPT ![r] = "wait"] /\ waitOn' = [waitOn EXCEPT ![r] = ready]
        BY <1>3, <2>2, <3>4 DEF nextLook
      <4>2. ready \in Nat
        BY PushAssumption DEF TypeOK
      <4>3. TypeOK'
        BY <3>1, <4>1, <4>2 DEF TypeOK, Places
      <4> QED  BY <2>2, <3>1, <3>2, <3>4, <4>1, <4>2, <4>3 DEF TypeOK
    <3> QED  BY <3>3, <3>4
  <2> QED  BY <2>1, <2>2
<1>4. ASSUME NEW r \in Readers, nextWoken(r) PROVE QueueInv'
  BY <1>4 DEF nextWoken, TypeOK, Places, NothingLost
<1>5. ASSUME NEW r \in Readers, nextGivesUp(r) PROVE QueueInv'
  BY <1>5 DEF nextGivesUp, TypeOK, Places, NothingLost
<1>6. ASSUME NEW r \in Readers, GiveUp(r) PROVE QueueInv'
  BY <1>6 DEF GiveUp, TypeOK, NothingLost
<1>7. CASE UNCHANGED vars
  BY <1>7 DEF vars, TypeOK, NothingLost
<1>8. CASE Rest
  BY <1>7, <1>8 DEF Rest
<1> QED
  BY <1>1, <1>2, <1>3, <1>4, <1>5, <1>6, <1>7, <1>8 DEF Next, Read

(* The invariant holds in every behaviour. *)
LEMMA QueueInvariant == Spec => []QueueInv
BY QueueInit, QueueStep, PTL DEF Spec

(***************************************************************************)
(* The queue hands out what was pushed before the close, once, in order,   *)
(* and all of it before it reports the close.                              *)
(***************************************************************************)
THEOREM QueueIsFaithful == Spec => [](TypeOK /\ NothingLost /\ DrainedBeforeError)
<1>1. QueueInv => TypeOK /\ NothingLost /\ DrainedBeforeError
  <2> SUFFICES ASSUME QueueInv, NEW r \in Readers, at[r] = "closed"
               PROVE  received = accepted
    BY DEF QueueInv, DrainedBeforeError
  <2>1. items = <<>> /\ received \o items = accepted /\ received \in Seq(Nat)
    BY DEF QueueInv, TypeOK, NothingLost
  <2> QED  BY <2>1, ConcatEmptySeq
<1> QED  BY <1>1, QueueInvariant, PTL

(***************************************************************************)
(* A reader never sleeps through a push or a close, wherever between its   *)
(* unlock and its select they come.                                        *)
(***************************************************************************)
THEOREM WakeupsAreNotLost == Spec => []NoLostWakeup
<1>1. QueueInv => NoLostWakeup
  BY PushAssumption DEF QueueInv, NoLostWakeup, TypeOK
<1> QED  BY <1>1, QueueInvariant, PTL
=============================================================================
