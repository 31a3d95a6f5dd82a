---------------------------- MODULE RelayProofs -----------------------------
(***************************************************************************)
(* Proofs about Relay.  Its steps are steps of the pool, so what is proved *)
(* of the pool holds of the server as a whole.                             *)
(***************************************************************************)
EXTENDS Relay, PoolProofs

-----------------------------------------------------------------------------
(* The relay uses the pool as the pool expects. *)

(* A step of the relay is one of the pool, or leaves the pool alone. *)
LEMMA RelayStepIsPoolStep == [RelayNext]_rvars => [Next]_vars
<1> SUFFICES ASSUME [RelayNext]_rvars PROVE Next \/ UNCHANGED vars
  OBVIOUS
<1>1. ASSUME NEW j \in Jobs,
             \/ Submit(j) \/ SubmitterSends(j) \/ SubmitterLost(j)
             \/ Collect(j) \/ WatchCancel(j) \/ Acquiring(j) \/ AcquireFailed(j)
             \/ NewJob(j) \/ Forward(j) \/ NoMore(j) \/ Leave(j)
      PROVE  JobStep(j) \/ UNCHANGED vars
  BY <1>1 DEF Submit, SubmitterSends, SubmitterLost, Collect, WatchCancel, Acquiring,
              AcquireFailed, NewJob, Forward, NoMore, Leave, JobStep
<1>2. ASSUME NEW p \in Providers,
             \/ Connect(p) \/ ServerReads(p) \/ ServerLoses(p) \/ Unregister(p)
             \/ ClientLoses(p) \/ ClientReads(p)
      PROVE  AddProvider(p) \/ RemoveProvider(p) \/ UNCHANGED vars
  BY <1>2 DEF Connect, ServerReads, ServerLoses, Unregister, ClientLoses, ClientReads
<1>3. ASSUME NEW j \in Jobs, NEW p \in Providers,
             \/ Take(j, p) \/ Refuse(j, p) \/ Upstream(j, p) \/ UpstreamFails(j, p)
             \/ Give(j, p)
      PROVE  UNCHANGED vars
  BY <1>3 DEF Take, Refuse, Upstream, UpstreamFails, Give
<1>4. CASE RelayRest \/ UNCHANGED rvars
  BY <1>4 DEF RelayRest, rvars
<1> QED  BY <1>1, <1>2, <1>3, <1>4 DEF RelayNext, Next

(* So the server's pool behaves as Pool says. *)
LEMMA RelayIsPool == RelaySpec => Spec
<1>1. RelayInit => Init
  BY DEF RelayInit
<1> QED  BY <1>1, RelayStepIsPoolStep, PTL DEF RelaySpec, Spec

(* Where a job is in Acquire, by where its relay is. *)
StageInv ==
  /\ stage \in [Jobs -> Stages]
  /\ \A j \in Jobs :
       /\ stage[j] = "idle" => phase[j] = "new"
       /\ stage[j] = "collect" => phase[j] = "arrived"
       /\ stage[j] = "acquire" =>
            phase[j] \in {"arrived", "released", "select", "quit", "drain", "failed"}
       /\ stage[j] \in {"newJob", "relay", "leave"} => phase[j] = "held"
       /\ stage[j] = "ended" => phase[j] \in {"arrived", "released", "failed"}

(* The steps that leave relay and Acquire where they are. *)
LEMMA StageKept ==
  ASSUME StageInv, UNCHANGED <<stage, phase>>
  PROVE  StageInv'
BY DEF StageInv

(* Every step of the relay keeps its stage and the pool in step. *)
LEMMA StageStep == HandoverInv /\ StageInv /\ [RelayNext]_rvars => StageInv'
<1> SUFFICES ASSUME HandoverInv, StageInv, [RelayNext]_rvars PROVE StageInv'
  OBVIOUS
<1>t. TypeOK
  BY DEF HandoverInv
<1>1. ASSUME NEW j \in Jobs, Submit(j) PROVE StageInv'
  BY <1>1, <1>t DEF Submit, Arrive, StageInv, Stages, TypeOK
<1>2. ASSUME NEW j \in Jobs, SubmitterSends(j) \/ SubmitterLost(j) \/ WatchCancel(j) PROVE StageInv'
  BY <1>2, StageKept DEF SubmitterSends, SubmitterLost, WatchCancel, relayVars, Cancel, vars
<1>3. ASSUME NEW j \in Jobs, Collect(j) PROVE StageInv'
  BY <1>3 DEF Collect, StageInv, Stages, vars
<1>4. ASSUME NEW j \in Jobs, Acquiring(j) PROVE StageInv'
  <2>1. /\ stage[j] = "acquire"
        /\ stage' = [stage EXCEPT ![j] = IF phase'[j] = "held" THEN "newJob" ELSE @]
    BY <1>4 DEF Acquiring
  <2>2. PICK ph \in {"held", "select", "quit", "failed", "drain"} :
          phase' = [phase EXCEPT ![j] = ph]
    BY <1>4 DEF Acquiring, AcquireFree, AcquireWait, Receive, GiveUp, AbandonQueued,
                AbandonLate, Drain
  <2> QED  BY <1>t, <2>1, <2>2 DEF StageInv, Stages, TypeOK
<1>5. ASSUME NEW j \in Jobs, AcquireFailed(j) PROVE StageInv'
  BY <1>5 DEF AcquireFailed, StageInv, Stages, vars
<1>6. ASSUME NEW j \in Jobs, NewJob(j) \/ Forward(j) \/ NoMore(j) PROVE StageInv'
  <2>1. /\ stage[j] \in {"newJob", "relay"}
        /\ phase' = phase
        /\ stage' = stage \/ \E st \in {"relay", "leave"} : stage' = [stage EXCEPT ![j] = st]
    BY <1>6 DEF NewJob, Forward, NoMore, Return, vars
  <2> QED  BY <2>1 DEF StageInv, Stages
<1>7. ASSUME NEW j \in Jobs, Leave(j) PROVE StageInv'
  <2>1. /\ phase' = [phase EXCEPT ![j] = "released"]
        /\ \E st \in {"ended", "acquire"} : stage' = [stage EXCEPT ![j] = st]
    BY <1>7 DEF Leave, Release
  <2> QED  BY <1>t, <2>1 DEF StageInv, Stages, TypeOK
<1>8. ASSUME NEW p \in Providers,
             \/ Connect(p) \/ ServerReads(p) \/ ServerLoses(p) \/ Unregister(p)
             \/ ClientLoses(p) \/ ClientReads(p)
      PROVE  StageInv'
  BY <1>8, StageKept DEF Connect, ServerReads, ServerLoses, Unregister, ClientLoses,
       ClientReads, AddProvider, RemoveProvider, relayVars, vars
<1>9. ASSUME NEW j \in Jobs, NEW p \in Providers,
             \/ Take(j, p) \/ Refuse(j, p) \/ Upstream(j, p) \/ UpstreamFails(j, p)
             \/ Give(j, p)
      PROVE  StageInv'
  BY <1>9, StageKept DEF Take, Refuse, Upstream, UpstreamFails, Give, relayVars, vars
<1>10. CASE RelayRest \/ UNCHANGED rvars
  BY <1>10, StageKept DEF RelayRest, rvars, relayVars, vars
<1> QED
  BY <1>1, <1>2, <1>3, <1>4, <1>5, <1>6, <1>7, <1>8, <1>9, <1>10 DEF RelayNext

(***************************************************************************)
(* A relay that returned has left nothing in the pool, on any of its error *)
(* paths: no lease, no place in a queue.                                   *)
(***************************************************************************)
THEOREM EndedLeavesNothing == RelaySpec => []EndedHoldsNothing
<1>1. RelayInit => StageInv
  BY DEF RelayInit, Init, StageInv, Stages
<1>2. RelaySpec => []HandoverInv
  <2>1. Spec => []HandoverInv
    BY HandoverInit, HandoverStep, PTL DEF Spec
  <2> QED  BY <2>1, RelayIsPool, PTL
<1>3. HandoverInv /\ StageInv => EndedHoldsNothing
  <2> SUFFICES ASSUME HandoverInv, StageInv, NEW j \in Jobs, stage[j] = "ended"
               PROVE  lease[j] = None /\ j \notin ToSet(waiters[Service[j]])
    BY DEF EndedHoldsNothing
  <2>1. phase[j] \in {"arrived", "released", "failed"} /\ Service[j] \in Services
    BY ServiceAssumption DEF StageInv
  <2> QED  BY <2>1 DEF HandoverInv, QueuedOrHanded
<1> QED
  BY <1>1, <1>2, <1>3, StageStep, PTL DEF RelaySpec

-----------------------------------------------------------------------------
(* Streams. *)

(* One more message in a stream. *)
LEMMA Appended ==
  ASSUME NEW S, NEW s \in Seq(S), NEW m \in S
  PROVE  /\ Append(s, m) \in Seq(S) /\ Append(s, m) # <<>>
         /\ Len(s) \in Nat /\ Len(Append(s, m)) = Len(s) + 1
         /\ \A i \in 1..Len(s) : Append(s, m)[i] = s[i]
         /\ Append(s, m)[Len(s) + 1] = m
OBVIOUS

(* The first message of a stream is read. *)
LEMMA Tailed ==
  ASSUME NEW S, NEW s \in Seq(S), s # <<>>
  PROVE  /\ Tail(s) \in Seq(S)
         /\ Len(s) \in Nat \ {0} /\ Len(Tail(s)) = Len(s) - 1
         /\ \A i \in 1..Len(Tail(s)) : Tail(s)[i] = s[i + 1]
         /\ Head(s) = s[1] /\ Head(s) \in S
OBVIOUS

(* A message of job j is in the stream s. *)
Speaks(s, j) == \E i \in 1..Len(s) : s[i].job = j

(* The end of an answer of job j is in the inbox b or in the stream s. *)
EndIn(b, s, j) ==
  \/ \E i \in 1..Len(b) : b[i] \in Terminal
  \/ \E i \in 1..Len(s) : s[i].job = j /\ s[i].kind \in Terminal

Replies == {"RESPONSE", "BODY", "END", "FAIL"}

(* What may wait in the inbox b of an attempt, st being its started. *)
InboxOK(b, st) ==
  /\ \A i \in 1..Len(b) : b[i] \in Replies /\ (b[i] = "RESPONSE" => i = 1 /\ ~st)
  /\ ~st /\ b # <<>> => b[1] \in {"RESPONSE", "FAIL"}

(* What may be on its way for job j in s, when something of the answer has come
   already (begun) or not. *)
StreamOK(s, j, begun) ==
  \A i \in 1..Len(s) : s[i].job = j =>
    /\ s[i].kind \in Replies
    /\ s[i].kind = "RESPONSE" => ~begun /\ \A k \in 1..(i - 1) : s[k].job # j
    /\ s[i].kind \in {"BODY", "END"} => begun \/ \E k \in 1..(i - 1) : s[k].job = j

(* An attempt of job j: its inbox b, its started st, the stream s from the provider,
   who is at r, over a link that is up or not. *)
AttemptOK(b, st, s, r, up, j) ==
  /\ InboxOK(b, st)
  /\ StreamOK(s, j, st \/ b # <<>>)
  /\ r \in {"none", "start", "asked"} => ~st /\ b = <<>> /\ ~Speaks(s, j)
  /\ r \in {"head", "body"} /\ up => st \/ b # <<>> \/ Speaks(s, j)
  /\ EndIn(b, s, j) => r \in {"giving", "over"}

(* Who speaks in a stream after it was written to or read from. *)
LEMMA SpeaksAppend ==
  ASSUME NEW s \in Seq(Message), NEW m \in Message, NEW j
  PROVE  Speaks(Append(s, m), j) <=> Speaks(s, j) \/ m.job = j
<1> DEFINE t == Append(s, m)
<1>1. /\ Len(s) \in Nat /\ Len(t) = Len(s) + 1 /\ t[Len(s) + 1] = m
      /\ \A i \in 1..Len(s) : t[i] = s[i]
  BY Appended
<1> HIDE DEF t
<1>2. \A i \in 1..Len(t) : i \in 1..Len(s) \/ i = Len(s) + 1
  BY <1>1
<1>3. ASSUME Speaks(t, j) PROVE Speaks(s, j) \/ m.job = j
  BY <1>1, <1>2, <1>3 DEF Speaks
<1>4. ASSUME Speaks(s, j) PROVE Speaks(t, j)
  <2>1. PICK i \in 1..Len(s) : s[i].job = j
    BY <1>4 DEF Speaks
  <2>2. i \in 1..Len(t) /\ t[i].job = j
    BY <1>1, <2>1
  <2> QED  BY <2>2 DEF Speaks
<1>5. ASSUME m.job = j PROVE Speaks(t, j)
  <2>1. Len(s) + 1 \in 1..Len(t)
    BY <1>1
  <2> QED  BY <1>1, <1>5, <2>1 DEF Speaks
<1> QED  BY <1>3, <1>4, <1>5 DEF t

(* The same when its first message is read. *)
LEMMA SpeaksTail ==
  ASSUME NEW s \in Seq(Message), s # <<>>, NEW j
  PROVE  /\ Speaks(Tail(s), j) => Speaks(s, j)
         /\ Speaks(s, Head(s).job)
         /\ Head(s).job # j => (Speaks(s, j) => Speaks(Tail(s), j))
<1> DEFINE t == Tail(s)
<1>1. /\ Len(s) \in Nat \ {0} /\ Len(t) = Len(s) - 1 /\ Head(s) = s[1]
      /\ \A i \in 1..Len(t) : t[i] = s[i + 1]
  BY Tailed
<1> HIDE DEF t
<1>2. ASSUME Speaks(t, j) PROVE Speaks(s, j)
  <2>1. PICK i \in 1..Len(t) : t[i].job = j
    BY <1>2 DEF Speaks
  <2>2. i + 1 \in 1..Len(s) /\ s[i + 1].job = j
    BY <1>1, <2>1
  <2> QED  BY <2>2 DEF Speaks
<1>3. 1 \in 1..Len(s)
  BY <1>1
<1>4. Speaks(s, Head(s).job)
  BY <1>1, <1>3 DEF Speaks
<1>5. ASSUME Head(s).job # j, Speaks(s, j) PROVE Speaks(t, j)
  <2>1. PICK i \in 1..Len(s) : s[i].job = j
    BY <1>5 DEF Speaks
  <2>2. i # 1
    BY <1>1, <1>5, <2>1
  <2>3. i - 1 \in 1..Len(t) /\ (i - 1) + 1 = i
    BY <1>1, <2>2
  <2>4. t[i - 1] = s[i]
    BY <1>1, <2>3
  <2> QED  BY <2>1, <2>3, <2>4 DEF Speaks
<1> QED  BY <1>2, <1>4, <1>5 DEF t

(* A new attempt, of which the provider knows nothing, or not enough to begin it. *)
LEMMA AttemptBegins ==
  ASSUME NEW s, NEW j, NEW up, NEW r, r \notin {"head", "body"},
         \A i \in 1..Len(s) : s[i].job = j => s[i].kind = "FAIL" /\ r \in {"giving", "over"}
  PROVE  AttemptOK(<<>>, FALSE, s, r, up, j)
BY DEF AttemptOK, InboxOK, StreamOK, Speaks, EndIn, Replies

(* A message from the inbox is passed on. *)
LEMMA AttemptForward ==
  ASSUME NEW b \in Seq(Kinds), NEW st \in BOOLEAN, NEW s, NEW r, NEW up, NEW j,
         AttemptOK(b, st, s, r, up, j), b # <<>>, Head(b) \notin Terminal
  PROVE  /\ Head(b) \in {"RESPONSE", "BODY"}
         /\ Head(b) = "RESPONSE" <=> ~st
         /\ AttemptOK(Tail(b), TRUE, s, r, up, j)
<1> DEFINE t == Tail(b)
<1>1. /\ Len(b) \in Nat \ {0} /\ Len(t) = Len(b) - 1 /\ Head(b) = b[1]
      /\ \A i \in 1..Len(t) : t[i] = b[i + 1]
  BY Tailed
<1> HIDE DEF t
<1>2. 1 \in 1..Len(b) /\ \A i \in 1..Len(t) : i + 1 \in 1..Len(b) /\ i + 1 # 1
  BY <1>1
<1>3. Head(b) \in {"RESPONSE", "BODY"} /\ (Head(b) = "RESPONSE" <=> ~st)
  BY <1>1, <1>2 DEF AttemptOK, InboxOK, Replies, Terminal
<1>4. InboxOK(t, TRUE)
  BY <1>1, <1>2 DEF AttemptOK, InboxOK
<1>5. StreamOK(s, j, TRUE)
  BY DEF AttemptOK, StreamOK
<1>6. r \notin {"none", "start", "asked"}
  BY DEF AttemptOK
<1>7. EndIn(t, s, j) => EndIn(b, s, j)
  BY <1>1, <1>2 DEF EndIn
<1>8. AttemptOK(t, TRUE, s, r, up, j)
  BY <1>4, <1>5, <1>6, <1>7 DEF AttemptOK
<1> QED  BY <1>3, <1>8 DEF t

(* A message comes from the link into the inbox. *)
LEMMA AttemptReads ==
  ASSUME NEW b \in Seq(Kinds), NEW st \in BOOLEAN, NEW s \in Seq(Message), NEW r, NEW up, NEW j,
         AttemptOK(b, st, s, r, up, j), s # <<>>, Head(s).job = j
  PROVE  AttemptOK(Append(b, Head(s).kind), st, Tail(s), r, up, j)
<1> DEFINE t == Tail(s)
           k == Head(s).kind
           c == Append(b, k)
<1>1. /\ Len(s) \in Nat \ {0} /\ Len(t) = Len(s) - 1 /\ Head(s) = s[1]
      /\ \A i \in 1..Len(t) : t[i] = s[i + 1]
      /\ Head(s) \in Message
  BY Tailed
<1>2. k \in Kinds /\ s[1].job = j /\ s[1].kind = k
  BY <1>1 DEF Message
<1> HIDE DEF t, k
<1>3. /\ c # <<>> /\ Len(b) \in Nat /\ Len(c) = Len(b) + 1
      /\ \A i \in 1..Len(b) : c[i] = b[i]
      /\ c[Len(b) + 1] = k
  BY <1>2, Appended
<1> HIDE DEF c
<1>4. /\ 1 \in 1..Len(s)
      /\ \A i \in 1..Len(t) : i + 1 \in 1..Len(s) /\ 1 \in 1..((i + 1) - 1)
      /\ \A i \in 1..Len(c) : i \in 1..Len(b) \/ i = Len(b) + 1
  BY <1>1, <1>3
<1>5. /\ k \in Replies
      /\ k = "RESPONSE" => ~st /\ b = <<>>
      /\ k \in {"BODY", "END"} => st \/ b # <<>>
  <2>1. ~ \E m \in 1..(1 - 1) : s[m].job = j
    OBVIOUS
  <2> QED  BY <1>2, <1>4, <2>1 DEF AttemptOK, StreamOK
<1>6. b = <<>> => Len(b) = 0
  OBVIOUS
<1>7. InboxOK(c, st)
  <2>1. ASSUME NEW i \in 1..Len(c)
        PROVE  c[i] \in Replies /\ (c[i] = "RESPONSE" => i = 1 /\ ~st)
    <3>1. CASE i \in 1..Len(b)
      BY <1>3, <3>1 DEF AttemptOK, InboxOK
    <3>2. CASE i = Len(b) + 1
      BY <1>3, <1>5, <1>6, <3>2
    <3> QED  BY <1>4, <3>1, <3>2
  <2>2. ASSUME ~st PROVE c[1] \in {"RESPONSE", "FAIL"}
    <3>1. CASE b = <<>>
      BY <1>3, <1>5, <1>6, <2>2, <3>1 DEF Replies
    <3>2. CASE b # <<>>
      <4>1. 1 \in 1..Len(b)
        BY <1>3, <3>2, EmptySeq
      <4> QED  BY <1>3, <2>2, <3>2, <4>1 DEF AttemptOK, InboxOK
    <3> QED  BY <3>1, <3>2
  <2> QED  BY <2>1, <2>2 DEF InboxOK
<1>8. StreamOK(t, j, st \/ c # <<>>)
  BY <1>1, <1>2, <1>3, <1>4 DEF AttemptOK, StreamOK
<1>9. r \notin {"none", "start", "asked"}
  BY <1>2, <1>4 DEF AttemptOK, Speaks
<1>10. EndIn(c, t, j) => EndIn(b, s, j)
  <2>1. ASSUME NEW i \in 1..Len(c), c[i] \in Terminal PROVE EndIn(b, s, j)
    BY <1>2, <1>3, <1>4, <2>1 DEF EndIn
  <2>2. ASSUME NEW i \in 1..Len(t), t[i].job = j, t[i].kind \in Terminal PROVE EndIn(b, s, j)
    BY <1>1, <1>4, <2>2 DEF EndIn
  <2> QED  BY <2>1, <2>2 DEF EndIn
<1> QED  BY <1>3, <1>7, <1>8, <1>9, <1>10 DEF AttemptOK, c, t, k

(* A message of another job is read, or written. *)
LEMMA AttemptPassesBy ==
  ASSUME NEW b, NEW st \in BOOLEAN, NEW s \in Seq(Message), NEW r, NEW up, NEW j,
         AttemptOK(b, st, s, r, up, j), s # <<>>, Head(s).job # j
  PROVE  AttemptOK(b, st, Tail(s), r, up, j)
<1> DEFINE t == Tail(s)
<1>1. /\ Len(s) \in Nat \ {0} /\ Len(t) = Len(s) - 1 /\ Head(s) = s[1]
      /\ \A i \in 1..Len(t) : t[i] = s[i + 1]
  BY Tailed
<1>2. Speaks(t, j) <=> Speaks(s, j)
  BY SpeaksTail
<1> HIDE DEF t
<1>3. \A i \in 1..Len(t) : i + 1 \in 1..Len(s)
  BY <1>1
<1>4. StreamOK(t, j, st \/ b # <<>>)
  <2> SUFFICES ASSUME NEW i \in 1..Len(t), t[i].job = j
               PROVE  /\ t[i].kind \in Replies
                      /\ t[i].kind = "RESPONSE" =>
                           ~(st \/ b # <<>>) /\ \A k \in 1..(i - 1) : t[k].job # j
                      /\ t[i].kind \in {"BODY", "END"} =>
                           (st \/ b # <<>>) \/ \E k \in 1..(i - 1) : t[k].job = j
    BY DEF StreamOK
  <2>1. s[i + 1].job = j /\ s[i + 1].kind = t[i].kind
    BY <1>1
  <2>2. \A k \in 1..(i - 1) : k \in 1..Len(t) /\ k + 1 \in 1..((i + 1) - 1)
    BY <1>1
  <2>3. \A k \in 1..((i + 1) - 1) : k = 1 \/ (k - 1 \in 1..(i - 1) /\ (k - 1) + 1 = k)
    BY <1>1
  <2>4. /\ t[i].kind \in Replies
        /\ t[i].kind = "RESPONSE" =>
             ~(st \/ b # <<>>) /\ \A k \in 1..((i + 1) - 1) : s[k].job # j
        /\ t[i].kind \in {"BODY", "END"} =>
             (st \/ b # <<>>) \/ \E k \in 1..((i + 1) - 1) : s[k].job = j
    BY <1>3, <2>1 DEF AttemptOK, StreamOK
  <2>5. (\A k \in 1..((i + 1) - 1) : s[k].job # j) => \A k \in 1..(i - 1) : t[k].job # j
    BY <1>1, <2>2
  <2>6. (\E k \in 1..((i + 1) - 1) : s[k].job = j) => \E k \in 1..(i - 1) : t[k].job = j
    <3> SUFFICES ASSUME NEW k \in 1..((i + 1) - 1), s[k].job = j
                 PROVE  \E l \in 1..(i - 1) : t[l].job = j
      OBVIOUS
    <3>1. k # 1
      BY <1>1
    <3>2. k - 1 \in 1..(i - 1) /\ t[k - 1] = s[k]
      BY <1>1, <2>2, <2>3, <3>1
    <3> QED  BY <3>2
  <2> QED  BY <2>4, <2>5, <2>6
<1>5. EndIn(b, t, j) => EndIn(b, s, j)
  BY <1>1, <1>3 DEF EndIn
<1> QED  BY <1>2, <1>4, <1>5 DEF AttemptOK, t

(* The provider goes on, and sends nothing that arrives. *)
LEMMA AttemptMoves ==
  ASSUME NEW b, NEW st, NEW s, NEW r, NEW up, NEW r2, NEW up2, NEW j,
         AttemptOK(b, st, s, r, up, j),
         r2 \in {"none", "start", "asked"} => r \in {"none", "start", "asked"},
         r2 \in {"head", "body"} /\ up2 => r \in {"head", "body"} /\ up,
         r \in {"giving", "over"} => r2 \in {"giving", "over"}
  PROVE  AttemptOK(b, st, s, r2, up2, j)
BY DEF AttemptOK

(* The server's end of the link is lost, with what was on its way. *)
LEMMA AttemptCut ==
  ASSUME NEW b, NEW st, NEW s, NEW r, NEW up, NEW up2, NEW j, ~up2,
         AttemptOK(b, st, s, r, up, j)
  PROVE  AttemptOK(b, st, <<>>, r, up2, j)
BY DEF AttemptOK, StreamOK, Speaks, EndIn

(* A provider at r sends a message of kind k, and is then at r2. *)
Follows(r, k, r2) ==
  \/ r = "asked" /\ k = "RESPONSE" /\ r2 = "head"
  \/ r = "head" /\ k = "BODY" /\ r2 = "body"
  \/ r \in {"head", "body"} /\ k = "END" /\ r2 = "giving"
  \/ r \in {"asked", "head", "body"} /\ k = "FAIL" /\ r2 = "giving"

(* The provider sends a message of job j, of the kind that follows the last, or one of
   another job. *)
LEMMA AttemptWrites ==
  ASSUME NEW b, NEW st \in BOOLEAN, NEW s \in Seq(Message), NEW r, NEW r2, NEW up, NEW j,
         NEW m \in Message, AttemptOK(b, st, s, r, up, j), up,
         \/ m.job # j /\ r2 = r
         \/ m.job = j /\ Follows(r, m.kind, r2)
  PROVE  AttemptOK(b, st, Append(s, m), r2, up, j)
<1> DEFINE t == Append(s, m)
           begun == st \/ b # <<>>
<1>1. /\ Len(s) \in Nat /\ Len(t) = Len(s) + 1 /\ t[Len(s) + 1] = m
      /\ \A i \in 1..Len(s) : t[i] = s[i]
  BY Appended
<1>2. Speaks(t, j) <=> Speaks(s, j) \/ m.job = j
  BY SpeaksAppend
<1> HIDE DEF t
<1>3. \A i \in 1..Len(t) : i \in 1..Len(s) \/ i = Len(s) + 1
  BY <1>1
<1>4. ASSUME m.job = j
      PROVE  /\ m.kind \in Replies
             /\ m.kind = "RESPONSE" => ~begun /\ ~Speaks(s, j)
             /\ m.kind \in {"BODY", "END"} => begun \/ Speaks(s, j)
             /\ m.kind \in Terminal => r2 = "giving"
             /\ r2 \in {"head", "body", "giving"}
  <2>1. Follows(r, m.kind, r2)
    BY <1>4
  <2> QED  BY <2>1 DEF AttemptOK, Follows, Replies, Terminal
<1>5. StreamOK(t, j, begun)
  <2> HIDE DEF begun
  <2> SUFFICES ASSUME NEW i \in 1..Len(t), t[i].job = j
               PROVE  /\ t[i].kind \in Replies
                      /\ t[i].kind = "RESPONSE" =>
                           ~begun /\ \A k \in 1..(i - 1) : t[k].job # j
                      /\ t[i].kind \in {"BODY", "END"} =>
                           begun \/ \E k \in 1..(i - 1) : t[k].job = j
    BY DEF StreamOK
  <2>1. \A k \in 1..(i - 1) : k \in 1..Len(s) /\ t[k] = s[k]
    BY <1>1
  <2>2. CASE i \in 1..Len(s)
    <3>1. t[i] = s[i]
      BY <1>1, <2>2
    <3>2. StreamOK(s, j, begun)
      BY DEF AttemptOK, begun
    <3> QED  BY <2>1, <2>2, <3>1, <3>2 DEF StreamOK
  <2>3. CASE i = Len(s) + 1
    <3>1. t[i] = m /\ \A k : k \in 1..(i - 1) <=> k \in 1..Len(s)
      BY <1>1, <2>3
    <3>2. Speaks(s, j) <=> \E k \in 1..(i - 1) : t[k].job = j
      BY <2>1, <3>1 DEF Speaks
    <3> QED  BY <1>4, <3>1, <3>2
  <2> QED  BY <1>3, <2>2, <2>3
<1>6. EndIn(b, t, j) => r2 \in {"giving", "over"}
  <2>1. CASE EndIn(b, s, j)
    BY <2>1 DEF AttemptOK, Follows
  <2>2. CASE m.job = j /\ m.kind \in Terminal
    BY <1>4, <2>2
  <2>3. EndIn(b, t, j) => EndIn(b, s, j) \/ (m.job = j /\ m.kind \in Terminal)
    BY <1>1, <1>3 DEF EndIn
  <2> QED  BY <2>1, <2>2, <2>3
<1>7. r2 \in {"none", "start", "asked"} => ~begun /\ ~Speaks(t, j)
  BY <1>2, <1>4 DEF AttemptOK
<1>8. r2 \in {"head", "body"} => begun \/ Speaks(t, j)
  BY <1>2 DEF AttemptOK
<1> QED  BY <1>5, <1>6, <1>7, <1>8 DEF AttemptOK, t

-----------------------------------------------------------------------------
(* The invariant of the relay. *)

(* What the variables of the relay, the links and the providers hold. *)
Typed ==
  /\ outcome \in [Jobs -> Outcomes]
  /\ started \in [Jobs -> BOOLEAN]
  /\ answer \in [Jobs -> Seq(Kinds)]
  /\ inbox \in [Jobs -> Seq(Kinds)]
  /\ srvUp \in [Providers -> BOOLEAN]
  /\ cliUp \in [Providers -> BOOLEAN]
  /\ toClient \in [Providers -> Seq(Message)]
  /\ toServer \in [Providers -> Seq(Message)]
  /\ half \in [Providers -> SUBSET Jobs]
  /\ run \in [Jobs \X Providers -> Runs]
  /\ subUp \in [Jobs -> BOOLEAN]
  /\ got \in [Jobs -> {"none", "end", "cancel"}]

(* Provider p is in the pool, or was. *)
Joined(p) == p \in ToSet(providers[Service[p]]) \/ gone[p]

(* Provider p has, or had, something to do with job j. *)
Touched(j, p) == run[<<j, p>>] # "none" \/ Speaks(toClient[p], j) \/ Speaks(toServer[p], j)

(* Nobody talks to a provider before it joins. *)
Strangers ==
  \A p \in Providers : ~Joined(p) =>
    ~srvUp[p] /\ ~cliUp[p] /\ ~Broken(p) /\ \A j \in Jobs : ~Touched(j, p)

(* A provider is sent a REQUEST once, and does not know the job until it reads it. *)
SentOnce ==
  \A p \in Providers : \A i \in 1..Len(toClient[p]) : toClient[p][i].kind = "REQUEST" =>
    /\ run[<<toClient[p][i].job, p>>] = "none"
    /\ \A k \in 1..Len(toClient[p]) :
         toClient[p][k].kind = "REQUEST" /\ toClient[p][k].job = toClient[p][i].job => k = i

(* On a link that the server holds to be up, the provider has only jobs that are
   relayed from it, jobs that will not be tried again, and half a job. *)
OneAttempt ==
  \A j \in Jobs, p \in Providers : srvUp[p] /\ Touched(j, p) =>
    \/ stage[j] = "ended"
    \/ j \in half[p]
    \/ lease[j] = p /\ (stage[j] = "relay" \/ (stage[j] = "leave" /\ outcome[j] # "gone"))

(* The provider p has ended job j. *)
Through(j, p) == run[<<j, p>>] \in {"giving", "over"}

(* Half a job is not begun, and nothing is heard of it but that it failed. *)
Halves ==
  \A p \in Providers : \A j \in half[p] :
    /\ run[<<j, p>>] \notin {"head", "body"}
    /\ \A i \in 1..Len(toServer[p]) : toServer[p][i].job = j =>
         toServer[p][i].kind = "FAIL" /\ Through(j, p)

(* The answer of the provider that a job is relayed from. *)
Answering ==
  \A j \in Jobs : stage[j] = "relay" =>
    AttemptOK(inbox[j], started[j], toServer[lease[j]], run[<<j, lease[j]>>],
              srvUp[lease[j]] /\ cliUp[lease[j]], j)

(* A legal answer, or the beginning of one, and a whole one. *)
Legal(a) ==
  \A i \in 1..Len(a) :
    /\ i = 1 <=> a[i] = "RESPONSE"
    /\ a[i] \in Terminal => i = Len(a)
Whole(a) == a # <<>> /\ a[Len(a)] \in Terminal
Partial(a) == Legal(a) /\ ~Whole(a)

(* What the submitter of a job has heard (a), by where its relay is (x), what dispatch
   returned (o), its started (st) and its inbox (b). *)
HeardOK(x, o, st, a, b) ==
  /\ x \in {"idle", "collect", "acquire", "newJob"} => a = <<>> /\ ~st /\ b = <<>>
  /\ x = "relay" => Partial(a) /\ (st <=> a # <<>>)
  /\ x = "leave" =>
       /\ b = <<>> /\ o # "none" /\ Legal(a)
       /\ o = "gone" => Partial(a) /\ (st <=> a # <<>>)
       /\ o = "failed" => a = <<>>
  /\ x = "ended" => Legal(a)

Heard == \A j \in Jobs : HeardOK(stage[j], outcome[j], started[j], answer[j], inbox[j])

(* The submitter of job j has cancelled it or has gone. *)
Left(j) == ~subUp[j] \/ got[j] = "cancel"

(* A job is given up only when its submitter has left. *)
GivenUp ==
  \A j \in Jobs :
    /\ cancelled[j] => Left(j)
    /\ stage[j] = "leave" /\ outcome[j] = "cancelled" => Left(j)
    /\ stage[j] = "leave" /\ outcome[j] = "done" => Left(j) \/ Whole(answer[j])
    /\ stage[j] = "ended" => Left(j) \/ Whole(answer[j])

(* A job that has come to its end at the server has done so at the provider,
   unless half of it is still there. *)
Concluded ==
  \A j \in Jobs :
    /\ stage[j] = "leave" /\ outcome[j] \in {"done", "failed"} => Through(j, lease[j])
    /\ stage[j] = "ended" /\ ~Left(j) =>
         \A p \in Providers : srvUp[p] /\ Touched(j, p) => j \in half[p] \/ Through(j, p)

(* The inductive invariant of the relay, on top of the pool's. *)
AnswerInv ==
  /\ Typed /\ Strangers /\ SentOnce /\ OneAttempt /\ Halves
  /\ Answering /\ Heard /\ GivenUp /\ Concluded
RelayInv == SlotInv /\ StageInv /\ AnswerInv

-----------------------------------------------------------------------------
(* What a step does to the pool, as the relay sees it. *)

(* A dispatch does not touch the lease of a job that does not wait. *)
LEMMA DispatchPasses ==
  ASSUME TypeOK, QueuedOrHanded, NEW s \in Services, NEW prs, NEW b, NEW l,
         dispatch(s, prs, b, l), NEW j \in Jobs, phase[j] \notin {"select", "quit"}
  PROVE  lease'[j] = l[j]
<1>1. PICK n \in 0..Len(waiters[s]) : \E g \in [1..n -> Providers] : HandOut(s, prs, b, l, n, g)
  BY DEF dispatch
<1>2. PICK g \in [1..n -> Providers] : HandOut(s, prs, b, l, n, g)
  BY <1>1
<1>3. waiters[s] \in Seq(Jobs) /\ Len(waiters[s]) \in Nat
  BY DEF TypeOK
<1>4. \A i \in 1..n : i \in 1..Len(waiters[s])
  BY <1>3
<1>5. \A i \in 1..n : waiters[s][i] \in ToSet(waiters[s])
  BY <1>3, <1>4, ToSetPlaces
<1>6. \A i \in 1..n : waiters[s][i] # j
  BY <1>5 DEF QueuedOrHanded
<1> QED  BY <1>2, <1>6, HandOutLease

(* A lease stays with the job that holds it. *)
LEMMA LeaseHeld ==
  ASSUME HandoverInv, [Next]_vars, NEW j \in Jobs, phase[j] = "held", phase'[j] = "held"
  PROVE  lease'[j] = lease[j]
<1>t. TypeOK /\ QueuedOrHanded
  BY DEF HandoverInv
<1>1. ASSUME NEW i \in Jobs, Drain(i) \/ Release(i) PROVE lease'[j] = lease[j]
  <2>1. i # j
    BY <1>1, <1>t DEF Drain, Release, TypeOK
  <2>2. CASE GiveBack(i) /\ lease[i] # None
    <3>1. lease[i] \in Providers /\ Service[lease[i]] \in Services
      BY <1>t, <2>2, ServiceAssumption DEF TypeOK
    <3> DEFINE s == Service[lease[i]]
               b == [busy EXCEPT ![lease[i]] = @ - 1]
               l == [lease EXCEPT ![i] = None]
    <3>2. dispatch(s, providers[s], b, l)
      BY <2>2 DEF GiveBack
    <3>3. lease'[j] = l[j]
      <4> HIDE DEF s, b, l
      <4>1. s \in Services
        BY <3>1 DEF s
      <4> QED  BY <1>t, <3>2, <4>1, DispatchPasses
    <3> QED  BY <1>t, <2>1, <3>3 DEF TypeOK
  <2>3. phase[i] = "held" => lease[i] # None
    BY <1>t DEF QueuedOrHanded
  <2> QED  BY <1>1, <2>2, <2>3 DEF Drain, Release
<1>2. ASSUME NEW p \in Providers, AddProvider(p) PROVE lease'[j] = lease[j]
  <2>1. Service[p] \in Services
    BY ServiceAssumption
  <2>2. dispatch(Service[p], Append(providers[Service[p]], p), busy, lease)
    BY <1>2 DEF AddProvider
  <2> QED  BY <1>t, <2>1, <2>2, DispatchPasses
<1>3. ASSUME NEW i \in Jobs, AcquireFree(i) PROVE lease'[j] = lease[j]
  BY <1>3, <1>t DEF AcquireFree, TypeOK
<1>4. CASE UNCHANGED lease
  BY <1>4
<1> QED
  BY <1>1, <1>2, <1>3, <1>4
     DEF Next, JobStep, vars, Arrive, AcquireWait, Receive, GiveUp, AbandonQueued,
         AbandonLate, Cancel, RemoveProvider, Tick, Rest

(* Who has joined stays so. *)
LEMMA JoinedKept ==
  ASSUME TypeOK, AtHome, NEW q \in Providers, Joined(q),
         \/ UNCHANGED <<providers, gone>>
         \/ \E p \in Providers : AddProvider(p) \/ RemoveProvider(p)
  PROVE  Joined(q)'
<1> DEFINE s == Service[q]
<1>1. s \in Services /\ providers[s] \in Seq(Providers)
  BY ServiceAssumption DEF TypeOK
<1>2. CASE UNCHANGED <<providers, gone>>
  BY <1>2 DEF Joined
<1>3. ASSUME NEW p \in Providers, AddProvider(p) PROVE Joined(q)'
  <2>1. providers'[s] = providers[s] \/ providers'[s] = Append(providers[s], p)
    BY <1>1, <1>3 DEF AddProvider, TypeOK
  <2>2. gone' = gone
    BY <1>3 DEF AddProvider
  <2>3. ASSUME q \in ToSet(providers[s]) PROVE q \in ToSet(providers'[s])
    <3>1. PICK k \in 1..Len(providers[s]) : providers[s][k] = q
      BY <1>1, <2>3, ToSetPlaces
    <3>2. CASE providers'[s] = Append(providers[s], p)
      <4> DEFINE t == Append(providers[s], p)
      <4>1. t \in Seq(Providers) /\ k \in 1..Len(t) /\ t[k] = q
        BY <1>1, <3>1, Appended
      <4> HIDE DEF t
      <4>2. q \in ToSet(t)
        BY <4>1, ToSetPlaces
      <4> QED  BY <3>2, <4>2 DEF t
    <3> QED  BY <2>1, <2>3, <3>2
  <2> QED  BY <2>2, <2>3 DEF Joined
<1>4. ASSUME NEW p \in Providers, RemoveProvider(p) PROVE Joined(q)'
  <2>1. CASE q = p \/ gone[q]
    <3>1. gone'[q]
      BY <1>4, <2>1 DEF RemoveProvider, TypeOK
    <3> QED  BY <3>1 DEF Joined
  <2>2. CASE q # p /\ q \in ToSet(providers[s])
    <3>1. CASE Service[p] # s
      <4>1. providers'[s] = providers[s]
        BY <1>1, <1>4, <3>1 DEF RemoveProvider, TypeOK
      <4> QED  BY <2>2, <4>1 DEF Joined
    <3>2. CASE Service[p] = s
      <4>1. PICK i \in 1..Len(providers[s]) :
              /\ providers[s][i] = p
              /\ providers' = [providers EXCEPT ![s] = RemoveAt(@, i)]
        BY <1>4, <3>2 DEF RemoveProvider
      <4>2. providers'[s] = RemoveAt(providers[s], i)
        BY <1>1, <4>1 DEF TypeOK
      <4>3. IsInjective(providers[s])
        BY <1>1 DEF AtHome
      <4> DEFINE prs == providers[s]
      <4> HIDE DEF s
      <4>4. prs \in Seq(Providers) /\ i \in 1..Len(prs) /\ IsInjective(prs) /\ q \in ToSet(prs) /\ q # prs[i]
        BY <1>1, <2>2, <4>1, <4>3
      <4> HIDE DEF prs
      <4>5. q \in ToSet(RemoveAt(prs, i))
        BY <4>4, RemoveAtSet
      <4> QED  BY <4>2, <4>5 DEF prs, s, Joined
    <3> QED  BY <3>1, <3>2
  <2> QED  BY <2>1, <2>2 DEF Joined
<1> QED  BY <1>2, <1>3, <1>4

(* Who joins has joined. *)
LEMMA Joins ==
  ASSUME TypeOK, NEW p \in Providers, AddProvider(p)
  PROVE  ~Joined(p) /\ Joined(p)'
<1> DEFINE s == Service[p]
           t == Append(providers[s], p)
<1>1. s \in Services /\ providers[s] \in Seq(Providers)
  BY ServiceAssumption DEF TypeOK
<1>2. providers'[s] = t
  BY <1>1 DEF AddProvider, TypeOK
<1>3. t \in Seq(Providers) /\ Len(providers[s]) + 1 \in 1..Len(t) /\ t[Len(providers[s]) + 1] = p
  BY <1>1, Appended
<1>4. p \in ToSet(t)
  <2> HIDE DEF t
  <2> QED  BY <1>3, ToSetPlaces
<1> QED  BY <1>2, <1>4 DEF Joined, AddProvider

Holding == {"newJob", "relay", "leave"}

(* The lease of a job that is being relayed does not change. *)
LEMMA LeaseKept ==
  ASSUME SlotInv, StageInv, [RelayNext]_rvars,
         NEW j \in Jobs, stage[j] \in Holding, stage'[j] \in Holding
  PROVE  lease'[j] = lease[j] /\ lease[j] \in Providers
<1>1. HandoverInv /\ TypeOK /\ QueuedOrHanded
  BY DEF SlotInv, HandoverInv
<1>2. StageInv'
  BY <1>1, StageStep
<1>3. phase[j] = "held" /\ phase'[j] = "held"
  BY <1>2 DEF StageInv, Holding
<1>4. [Next]_vars
  BY RelayStepIsPoolStep
<1>5. lease[j] # None /\ lease[j] \in Providers \cup {None}
  BY <1>1, <1>3 DEF QueuedOrHanded, TypeOK
<1> QED  BY <1>1, <1>3, <1>4, <1>5, LeaseHeld

(* A job that is being relayed has a provider. *)
LEMMA HasLease ==
  ASSUME SlotInv, StageInv, NEW j \in Jobs, stage[j] \in Holding
  PROVE  lease[j] \in Providers
<1>1. phase[j] = "held"
  BY DEF StageInv, Holding
<1>2. lease[j] # None /\ lease[j] \in Providers \cup {None}
  BY <1>1 DEF SlotInv, HandoverInv, QueuedOrHanded, TypeOK
<1> QED  BY <1>2

-----------------------------------------------------------------------------
(* Types. *)

(* What is sent has its type. *)
LEMMA SendsType ==
  ASSUME Typed, NEW p \in Providers, NEW m \in Message
  PROVE  /\ SendToClient(p, m) => toClient' \in [Providers -> Seq(Message)]
         /\ SendToServer(p, m) => toServer' \in [Providers -> Seq(Message)]
<1>1. \A s \in Seq(Message) : Append(s, m) \in Seq(Message)
  OBVIOUS
<1>2. SendToClient(p, m) => toClient' \in [Providers -> Seq(Message)]
  BY <1>1 DEF SendToClient, Typed
<1>3. SendToServer(p, m) => toServer' \in [Providers -> Seq(Message)]
  BY <1>1 DEF SendToServer, Typed
<1> QED  BY <1>2, <1>3

(* So has what the submitter hears. *)
LEMMA SaysType ==
  ASSUME Typed, NEW j \in Jobs, NEW ks \in Seq(Kinds), Said(j, ks)
  PROVE  answer' \in [Jobs -> Seq(Kinds)]
<1>1. \A s \in Seq(Kinds) : s \o ks \in Seq(Kinds)
  OBVIOUS
<1> QED  BY <1>1 DEF Said, Typed

(* A message is about its job and of its kind. *)
LEMMA MsgType ==
  ASSUME NEW j \in Jobs, NEW k \in Kinds
  PROVE  Msg(j, k) \in Message /\ Msg(j, k).job = j /\ Msg(j, k).kind = k
BY DEF Msg, Message

(* Every step keeps the types. *)
LEMMA TypedStep == SlotInv /\ StageInv /\ AnswerInv /\ [RelayNext]_rvars => Typed'
<1> SUFFICES ASSUME SlotInv, StageInv, AnswerInv, [RelayNext]_rvars PROVE Typed'
  OBVIOUS
<1>t. Typed
  BY DEF AnswerInv
<1>k. /\ <<"FAIL">> \in Seq(Kinds) /\ Synthetic \in Seq(Kinds)
      /\ \A s \in Seq(Kinds) : s # <<>> => Tail(s) \in Seq(Kinds) /\ Head(s) \in Kinds /\ <<Head(s)>> \in Seq(Kinds)
      /\ \A s \in Seq(Message) : s # <<>> => Tail(s) \in Seq(Message) /\ Head(s) \in Message
      /\ \A s \in Seq(Kinds) : \A k \in Kinds : Append(s, k) \in Seq(Kinds)
      /\ <<>> \in Seq(Kinds) /\ <<>> \in Seq(Message)
  BY DEF Kinds, Synthetic
<1>1. CASE UNCHANGED <<relayVars, linkVars, run>>
  BY <1>1, <1>t DEF Typed, relayVars, linkVars
<1>2. ASSUME NEW j \in Jobs,
             Submit(j) \/ SubmitterSends(j) \/ SubmitterLost(j) \/ Collect(j) \/ Acquiring(j)
      PROVE  Typed'
  <2>1. UNCHANGED <<outcome, started, answer, inbox, linkVars, run>>
    BY <1>2 DEF Submit, SubmitterSends, SubmitterLost, Collect, Acquiring, runVars
  <2>2. got' \in [Jobs -> {"none", "end", "cancel"}]
    BY <1>2, <1>t DEF Submit, SubmitterSends, SubmitterLost, Collect, Acquiring, Typed
  <2>3. subUp' \in [Jobs -> BOOLEAN]
    BY <1>2, <1>t DEF Submit, SubmitterSends, SubmitterLost, Collect, Acquiring, Typed
  <2> QED  BY <1>t, <2>1, <2>2, <2>3 DEF Typed, linkVars
<1>3. ASSUME NEW j \in Jobs, AcquireFailed(j) PROVE Typed'
  <2>1. answer' \in [Jobs -> Seq(Kinds)]
    BY <1>3, <1>k, <1>t, SaysType DEF AcquireFailed, Typed
  <2> QED  BY <1>3, <1>t, <2>1 DEF AcquireFailed, Typed, linkVars, runVars
<1>4. ASSUME NEW j \in Jobs, NewJob(j) PROVE Typed'
  <2>1. lease[j] \in Providers /\ Msg(j, "REQUEST") \in Message
    BY <1>4, HasLease, MsgType DEF NewJob, Holding, Kinds
  <2>2. toClient' \in [Providers -> Seq(Message)]
    BY <1>4, <1>t, <2>1, SendsType DEF NewJob, Typed
  <2>3. outcome' \in [Jobs -> Outcomes]
    BY <1>4, <1>t DEF NewJob, Return, Typed, Outcomes
  <2>4. half' \in [Providers -> SUBSET Jobs]
    <3>1. half' = half \/ half' = [half EXCEPT ![lease[j]] = {j}]
      BY <1>4 DEF NewJob
    <3>2. {j} \in SUBSET Jobs
      OBVIOUS
    <3> QED  BY <1>t, <2>1, <3>1, <3>2 DEF Typed
  <2> QED  BY <1>4, <1>t, <2>2, <2>3, <2>4 DEF NewJob, Typed, runVars
<1>5. ASSUME NEW j \in Jobs, Forward(j) PROVE Typed'
  <2>1. lease[j] \in Providers /\ Msg(j, "CANCEL") \in Message
    BY <1>5, HasLease, MsgType DEF Forward, Holding, Kinds
  <2>2. toClient' \in [Providers -> Seq(Message)]
    BY <1>5, <1>t, <2>1, SendsType DEF Forward, Typed
  <2>3. outcome' \in [Jobs -> Outcomes]
    BY <1>5, <1>t DEF Forward, Return, Typed, Outcomes
  <2>4. inbox[j] \in Seq(Kinds) /\ inbox[j] # <<>>
    BY <1>5, <1>t DEF Forward, Typed
  <2>5. answer' \in [Jobs -> Seq(Kinds)]
    BY <1>5, <1>k, <1>t, <2>4, SaysType DEF Forward, Typed
  <2>6. inbox' \in [Jobs -> Seq(Kinds)]
    BY <1>5, <1>k, <1>t, <2>4 DEF Forward, Typed
  <2>7. started' \in [Jobs -> BOOLEAN]
    BY <1>5, <1>t DEF Forward, Typed
  <2> QED  BY <1>5, <1>t, <2>2, <2>3, <2>5, <2>6, <2>7 DEF Forward, Typed, runVars
<1>6. ASSUME NEW j \in Jobs, NoMore(j) PROVE Typed'
  <2>1. lease[j] \in Providers /\ Msg(j, "CANCEL") \in Message
    BY <1>6, HasLease, MsgType DEF NoMore, Holding, Kinds
  <2>2. toClient' \in [Providers -> Seq(Message)]
    BY <1>6, <1>t, <2>1, SendsType DEF NoMore, Typed
  <2>3. outcome' \in [Jobs -> Outcomes]
    BY <1>6, <1>t DEF NoMore, Return, Typed, Outcomes
  <2>4. inbox' \in [Jobs -> Seq(Kinds)]
    BY <1>6, <1>k, <1>t DEF NoMore, Typed
  <2> QED  BY <1>6, <1>t, <2>2, <2>3, <2>4 DEF NoMore, Typed, runVars
<1>7. ASSUME NEW j \in Jobs, Leave(j) PROVE Typed'
  <2>1. answer' \in [Jobs -> Seq(Kinds)]
    BY <1>7, <1>k, <1>t, SaysType DEF Leave, Typed
  <2>2. outcome' \in [Jobs -> Outcomes] /\ started' \in [Jobs -> BOOLEAN]
    BY <1>7, <1>t DEF Leave, Typed, Outcomes
  <2> QED  BY <1>7, <1>t, <2>1, <2>2 DEF Leave, Typed, linkVars, runVars
<1>8. ASSUME NEW p \in Providers, Connect(p) \/ ServerLoses(p) PROVE Typed'
  <2>1. /\ srvUp' \in [Providers -> BOOLEAN] /\ cliUp' \in [Providers -> BOOLEAN]
    BY <1>8, <1>t DEF Connect, ServerLoses, Typed
  <2>2. toServer' \in [Providers -> Seq(Message)]
    BY <1>8, <1>k, <1>t DEF Connect, ServerLoses, Typed
  <2>3. UNCHANGED <<relayVars, toClient, half, run>>
    BY <1>8 DEF Connect, ServerLoses, runVars
  <2> QED  BY <1>t, <2>1, <2>2, <2>3 DEF Typed, relayVars
<1>9. ASSUME NEW p \in Providers, ServerReads(p) PROVE Typed'
  <2>1. toServer[p] \in Seq(Message) /\ toServer[p] # <<>>
    BY <1>9, <1>t DEF ServerReads, Typed
  <2>2. Head(toServer[p]).kind \in Kinds /\ Head(toServer[p]).job \in Jobs
    BY <1>k, <2>1 DEF Message
  <2>3. toServer' \in [Providers -> Seq(Message)]
    BY <1>9, <1>k, <1>t, <2>1 DEF ServerReads, Typed
  <2>4. inbox' \in [Jobs -> Seq(Kinds)]
    BY <1>9, <1>k, <1>t, <2>2 DEF ServerReads, Typed
  <2> QED  BY <1>9, <1>t, <2>3, <2>4 DEF ServerReads, Typed, runVars
<1>10. ASSUME NEW p \in Providers, ClientCloses(p), UNCHANGED <<relayVars, srvUp, toServer, half>>,
              run' \in [Jobs \X Providers -> Runs]
       PROVE  Typed'
  <2>1. cliUp' \in [Providers -> BOOLEAN] /\ toClient' \in [Providers -> Seq(Message)]
    BY <1>10, <1>k, <1>t DEF ClientCloses, Typed
  <2> QED  BY <1>10, <1>t, <2>1 DEF Typed, relayVars
<1>11. ASSUME NEW p \in Providers, ClientLoses(p) PROVE Typed'
  BY <1>10, <1>11, <1>t DEF ClientLoses, Typed
<1>12. ASSUME NEW p \in Providers, ClientReads(p) PROVE Typed'
  <2>1. toClient[p] \in Seq(Message) /\ toClient[p] # <<>>
    BY <1>12, <1>t DEF ClientReads, Typed
  <2>2. toClient' \in [Providers -> Seq(Message)]
    BY <1>12, <1>k, <1>t, <2>1 DEF ClientReads, Typed
  <2>3. run' \in [Jobs \X Providers -> Runs]
    BY <1>12, <1>t DEF ClientReads, Typed, Runs
  <2> QED  BY <1>12, <1>t, <2>2, <2>3 DEF ClientReads, Typed, relayVars
<1>13. ASSUME NEW j \in Jobs, NEW p \in Providers, Take(j, p) \/ Refuse(j, p) \/ Upstream(j, p)
                \/ UpstreamFails(j, p) \/ Give(j, p)
       PROVE  Typed'
  <2>1. \E r \in Runs : run' = [run EXCEPT ![<<j, p>>] = r]
    BY <1>13 DEF Take, Refuse, Upstream, UpstreamFails, Give, Runs
  <2>2. run' \in [Jobs \X Providers -> Runs]
    BY <1>t, <2>1 DEF Typed
  <2>3. CASE Refuse(j, p)
    BY <1>10, <2>2, <2>3 DEF Refuse
  <2>4. CASE ~Refuse(j, p)
    <3>1. \A k \in Kinds : Msg(j, k) \in Message
      BY MsgType
    <3>2. toServer' \in [Providers -> Seq(Message)]
      BY <1>13, <1>t, <2>4, <3>1, SendsType DEF Take, Upstream, UpstreamFails, Give, Typed, linkVars, Kinds
    <3>3. UNCHANGED <<relayVars, srvUp, cliUp, toClient, half>>
      BY <1>13, <2>4 DEF Take, Upstream, UpstreamFails, Give, linkVars
    <3> QED  BY <1>t, <2>2, <3>2, <3>3 DEF Typed, relayVars
  <2> QED  BY <2>3, <2>4
<1>14. ASSUME \/ \E j \in Jobs : WatchCancel(j)
              \/ \E p \in Providers : Unregister(p)
              \/ RelayRest \/ UNCHANGED rvars
       PROVE  Typed'
  BY <1>1, <1>14 DEF WatchCancel, Unregister, RelayRest, rvars, runVars
<1> QED
  BY <1>2, <1>3, <1>4, <1>5, <1>6, <1>7, <1>8, <1>9, <1>11, <1>12, <1>13, <1>14 DEF RelayNext

-----------------------------------------------------------------------------
(* Who has to do with whom. *)

(* A send adds one message to one stream of a link that is up, or is lost. *)
LEMMA SendsTo ==
  ASSUME Typed, NEW p \in Providers, NEW m \in Message
  PROVE  /\ SendToClient(p, m) =>
              /\ \A q \in Providers : q # p => toClient'[q] = toClient[q]
              /\ \/ toClient'[p] = toClient[p]
                 \/ toClient'[p] = Append(toClient[p], m) /\ srvUp[p] /\ ~Broken(p)
         /\ SendToServer(p, m) =>
              /\ \A q \in Providers : q # p => toServer'[q] = toServer[q]
              /\ \/ toServer'[p] = toServer[p] /\ ~(srvUp[p] /\ cliUp[p])
                 \/ toServer'[p] = Append(toServer[p], m) /\ srvUp[p] /\ cliUp[p]
BY DEF SendToClient, SendToServer, Typed

(* A send makes nobody speak but the job it is about. *)
LEMMA SpeaksSent ==
  ASSUME Typed, NEW p \in Providers, NEW m \in Message, NEW q \in Providers, NEW i
  PROVE  /\ SendToClient(p, m) /\ Speaks(toClient'[q], i) =>
              Speaks(toClient[q], i) \/ (q = p /\ i = m.job /\ srvUp[p])
         /\ SendToServer(p, m) /\ Speaks(toServer'[q], i) =>
              Speaks(toServer[q], i) \/ (q = p /\ i = m.job /\ srvUp[p])
<1>1. toClient[p] \in Seq(Message) /\ toServer[p] \in Seq(Message)
  BY DEF Typed
<1>2. /\ Speaks(Append(toClient[p], m), i) <=> Speaks(toClient[p], i) \/ m.job = i
      /\ Speaks(Append(toServer[p], m), i) <=> Speaks(toServer[p], i) \/ m.job = i
  BY <1>1, SpeaksAppend
<1>3. ASSUME SendToClient(p, m), Speaks(toClient'[q], i)
      PROVE  Speaks(toClient[q], i) \/ (q = p /\ i = m.job /\ srvUp[p])
  <2>1. /\ q # p => toClient'[q] = toClient[q]
        /\ \/ toClient'[p] = toClient[p]
           \/ toClient'[p] = Append(toClient[p], m) /\ srvUp[p]
    BY <1>3, SendsTo
  <2> QED  BY <1>2, <1>3, <2>1
<1>4. ASSUME SendToServer(p, m), Speaks(toServer'[q], i)
      PROVE  Speaks(toServer[q], i) \/ (q = p /\ i = m.job /\ srvUp[p])
  <2>1. /\ q # p => toServer'[q] = toServer[q]
        /\ \/ toServer'[p] = toServer[p]
           \/ toServer'[p] = Append(toServer[p], m) /\ srvUp[p]
    BY <1>4, SendsTo
  <2> QED  BY <1>2, <1>4, <2>1
<1> QED  BY <1>3, <1>4

(* The steps by which the server turns to a provider about job i. *)
Turns(i, q) ==
  /\ lease[i] = q /\ srvUp[q]
  /\ \/ stage[i] = "newJob" /\ stage'[i] = "relay"
     \/ stage[i] = "newJob" /\ stage'[i] = "leave" /\ i \in half'[q]
     \/ stage[i] = "relay" /\ stage'[i] = "leave" /\ outcome'[i] = "cancelled"

(* No other step involves a provider in a job. *)
LEMMA TouchedStep ==
  ASSUME SlotInv, StageInv, AnswerInv, [RelayNext]_rvars, NEW i \in Jobs, NEW q \in Providers,
         Touched(i, q)'
  PROVE  Touched(i, q) \/ Turns(i, q)
<1>t. Typed /\ stage \in [Jobs -> Stages]
  BY DEF AnswerInv, StageInv
<1>e. ~Speaks(<<>>, i)
  BY DEF Speaks
<1>1. CASE UNCHANGED <<toClient, toServer, run>>
  BY <1>1 DEF Touched
<1>2. ASSUME NEW j \in Jobs, NewJob(j) PROVE Touched(i, q) \/ Turns(i, q)
  <2>1. lease[j] \in Providers /\ Msg(j, "REQUEST") \in Message /\ Msg(j, "REQUEST").job = j
    BY <1>2, HasLease, MsgType DEF NewJob, Holding, Kinds
  <2>2. CASE /\ SendToClient(lease[j], Msg(j, "REQUEST"))
             /\ \/ stage' = [stage EXCEPT ![j] = "relay"]
                \/ /\ stage' = [stage EXCEPT ![j] = "leave"]
                   /\ half' = [half EXCEPT ![lease[j]] = {j}]
    <3>1. Speaks(toClient'[q], i) =>
            Speaks(toClient[q], i) \/ (q = lease[j] /\ i = j /\ srvUp[q])
      BY <1>t, <2>1, <2>2, SpeaksSent
    <3>2. /\ stage[j] = "newJob"
          /\ stage'[j] = "relay" \/ (stage'[j] = "leave" /\ j \in half'[lease[j]])
      BY <1>2, <1>t, <2>1, <2>2 DEF NewJob, Typed
    <3> QED  BY <1>2, <3>1, <3>2 DEF NewJob, Touched, Turns, runVars
  <2> QED  BY <1>1, <1>2, <2>2 DEF NewJob, Return, runVars
<1>3. ASSUME NEW j \in Jobs, stage[j] = "relay", SendToClient(lease[j], Msg(j, "CANCEL")),
             Return(j, "cancelled"), UNCHANGED <<toServer, run>>
      PROVE  Touched(i, q) \/ Turns(i, q)
  <2>1. lease[j] \in Providers /\ Msg(j, "CANCEL") \in Message /\ Msg(j, "CANCEL").job = j
    BY <1>3, HasLease, MsgType DEF Holding, Kinds
  <2>2. Speaks(toClient'[q], i) =>
          Speaks(toClient[q], i) \/ (q = lease[j] /\ i = j /\ srvUp[q])
    BY <1>3, <1>t, <2>1, SpeaksSent
  <2>3. stage'[j] = "leave" /\ outcome'[j] = "cancelled"
    BY <1>3, <1>t DEF Return, Typed
  <2> QED  BY <1>3, <2>2, <2>3 DEF Touched, Turns
<1>4. ASSUME NEW j \in Jobs, Forward(j) \/ NoMore(j) PROVE Touched(i, q) \/ Turns(i, q)
  BY <1>1, <1>3, <1>4 DEF Forward, NoMore, runVars
<1>5. ASSUME NEW p \in Providers, ServerReads(p) \/ ServerLoses(p) PROVE Touched(i, q) \/ Turns(i, q)
  <2>1. /\ UNCHANGED <<toClient, run>>
        /\ q # p => toServer'[q] = toServer[q]
        /\ \/ toServer'[p] = <<>>
           \/ toServer[p] # <<>> /\ toServer'[p] = Tail(toServer[p])
    BY <1>5, <1>t DEF ServerReads, ServerLoses, runVars, Typed
  <2>2. toServer[p] \in Seq(Message)
    BY <1>t DEF Typed
  <2>3. toServer[p] # <<>> => (Speaks(Tail(toServer[p]), i) => Speaks(toServer[p], i))
    BY <2>2, SpeaksTail
  <2> QED  BY <1>e, <2>1, <2>3 DEF Touched
<1>6. ASSUME NEW p \in Providers, ClientReads(p) PROVE Touched(i, q) \/ Turns(i, q)
  <2>1. toClient[p] \in Seq(Message) /\ toClient[p] # <<>>
    BY <1>6, <1>t DEF ClientReads, Typed
  <2> DEFINE m == Head(toClient[p])
  <2>0. m \in Message
    BY <2>1, Tailed
  <2>2. m.job \in Jobs
    <3> HIDE DEF m
    <3> QED  BY <2>0 DEF Message
  <2>3. /\ Speaks(Tail(toClient[p]), i) => Speaks(toClient[p], i)
        /\ Speaks(toClient[p], m.job)
    BY <2>1, SpeaksTail
  <2>4. /\ toServer' = toServer
        /\ q # p => toClient'[q] = toClient[q]
        /\ toClient'[p] = Tail(toClient[p])
        /\ run' = run \/ run' = [run EXCEPT ![<<m.job, p>>] = "start"]
    BY <1>6, <1>t DEF ClientReads, Typed
  <2> HIDE DEF m
  <2>5. run'[<<i, q>>] = run[<<i, q>>] \/ (i = m.job /\ q = p)
    BY <1>t, <2>4 DEF Typed
  <2> QED  BY <2>3, <2>4, <2>5 DEF Touched
<1>7. ASSUME NEW p \in Providers, ClientCloses(p), toServer' = toServer,
             run' = run \/ \E j \in Jobs, r \in Runs :
                             run[<<j, p>>] # "none" /\ run' = [run EXCEPT ![<<j, p>>] = r]
      PROVE  Touched(i, q) \/ Turns(i, q)
  <2>1. toClient'[q] \in {toClient[q], <<>>}
    BY <1>7, <1>t DEF ClientCloses, Typed
  <2>2. run'[<<i, q>>] # run[<<i, q>>] => run[<<i, q>>] # "none"
    BY <1>7, <1>t DEF Typed
  <2> QED  BY <1>7, <1>e, <2>1, <2>2 DEF Touched
<1>8. ASSUME NEW p \in Providers, ClientLoses(p) PROVE Touched(i, q) \/ Turns(i, q)
  BY <1>7, <1>8 DEF ClientLoses
<1>9. ASSUME NEW j \in Jobs, NEW p \in Providers,
             Take(j, p) \/ Upstream(j, p) \/ UpstreamFails(j, p) \/ Give(j, p)
      PROVE  Touched(i, q) \/ Turns(i, q)
  <2>1. /\ run[<<j, p>>] # "none"
        /\ \E r \in Runs : run' = [run EXCEPT ![<<j, p>>] = r]
        /\ toClient' = toClient
        /\ toServer' = toServer \/ \E k \in Kinds : SendToServer(p, Msg(j, k))
    BY <1>9 DEF Take, Upstream, UpstreamFails, Give, Runs, Kinds, linkVars
  <2>2. run'[<<i, q>>] # run[<<i, q>>] => run[<<i, q>>] # "none"
    BY <1>t, <2>1 DEF Typed
  <2>3. ASSUME NEW k \in Kinds, SendToServer(p, Msg(j, k))
        PROVE  Speaks(toServer'[q], i) => Speaks(toServer[q], i) \/ (q = p /\ i = j)
    <3>1. Msg(j, k) \in Message /\ Msg(j, k).job = j
      BY MsgType
    <3> QED  BY <1>t, <2>3, <3>1, SpeaksSent
  <2> QED  BY <2>1, <2>2, <2>3 DEF Touched
<1>10. ASSUME NEW j \in Jobs, NEW p \in Providers, Refuse(j, p) PROVE Touched(i, q) \/ Turns(i, q)
  <2>1. run[<<j, p>>] # "none" /\ run' = [run EXCEPT ![<<j, p>>] = "over"] /\ "over" \in Runs
    BY <1>10 DEF Refuse, Runs
  <2> QED  BY <1>7, <1>10, <2>1 DEF Refuse
<1>11. ASSUME \/ \E j \in Jobs : \/ Submit(j) \/ SubmitterSends(j) \/ SubmitterLost(j) \/ Collect(j)
                                 \/ WatchCancel(j) \/ Acquiring(j) \/ AcquireFailed(j) \/ Leave(j)
              \/ \E p \in Providers : Connect(p) \/ Unregister(p)
              \/ RelayRest \/ UNCHANGED rvars
       PROVE  UNCHANGED <<toClient, toServer, run>>
  BY <1>11 DEF Submit, SubmitterSends, SubmitterLost, Collect, WatchCancel, Acquiring,
       AcquireFailed, Leave, Connect, Unregister, RelayRest, rvars, linkVars, runVars
<1> QED
  BY <1>1, <1>2, <1>4, <1>5, <1>6, <1>8, <1>9, <1>10, <1>11 DEF RelayNext

(* Who has joined stays so, over every step. *)
LEMMA JoinedStep ==
  ASSUME SlotInv, [RelayNext]_rvars, NEW q \in Providers, Joined(q)
  PROVE  Joined(q)'
<1>1. TypeOK /\ AtHome
  BY DEF SlotInv, HandoverInv
<1>2. [Next]_vars
  BY RelayStepIsPoolStep
<1>3. UNCHANGED <<providers, gone>> \/ \E p \in Providers : AddProvider(p) \/ RemoveProvider(p)
  BY <1>2 DEF Next, JobStep, vars, Arrive, AcquireFree, AcquireWait, Receive, GiveUp,
       AbandonQueued, AbandonLate, Drain, Release, GiveBack, Cancel, Tick, Rest
<1> QED  BY <1>1, <1>3, JoinedKept

(* Only a provider that joins has a link that comes up. *)
LEMMA LinkUp ==
  ASSUME SlotInv, Typed, [RelayNext]_rvars, NEW q \in Providers,
         (srvUp'[q] /\ ~srvUp[q]) \/ (cliUp'[q] /\ ~cliUp[q])
  PROVE  ~Joined(q) /\ Joined(q)'
<1>t. TypeOK
  BY DEF SlotInv, HandoverInv
<1>1. ASSUME NEW p \in Providers, Connect(p) PROVE ~Joined(q) /\ Joined(q)'
  <2>1. q = p
    BY <1>1 DEF Connect, Typed
  <2>2. AddProvider(p)
    BY <1>1 DEF Connect
  <2> QED  BY <1>t, <2>1, <2>2, Joins
<1>2. ASSUME NEW p \in Providers, ServerLoses(p) \/ ClientLoses(p) PROVE FALSE
  BY <1>2 DEF ServerLoses, ClientLoses, ClientCloses, Typed
<1>3. ASSUME NEW j \in Jobs, NEW p \in Providers, Refuse(j, p) PROVE FALSE
  BY <1>3 DEF Refuse, ClientCloses, Typed
<1>4. CASE UNCHANGED <<srvUp, cliUp>>
  BY <1>4
<1> QED
  BY <1>1, <1>2, <1>3, <1>4
     DEF RelayNext, Submit, SubmitterSends, SubmitterLost, Collect, WatchCancel, Acquiring,
         AcquireFailed, NewJob, Forward, NoMore, Leave, ServerReads, Unregister, ClientReads,
         Take, Upstream, UpstreamFails, Give, RelayRest, rvars, linkVars

(* Half a job stays, and comes about only on a link that is up and whole. *)
LEMMA HalfStep ==
  ASSUME SlotInv, StageInv, Typed, [RelayNext]_rvars, NEW q \in Providers
  PROVE  \/ half'[q] = half[q]
         \/ \E j \in Jobs : /\ NewJob(j) /\ stage[j] = "newJob" /\ lease[j] = q
                            /\ srvUp[q] /\ ~Broken(q) /\ half'[q] = {j}
<1>1. ASSUME NEW j \in Jobs, NewJob(j), half' # half
      PROVE  \/ half'[q] = half[q]
             \/ /\ stage[j] = "newJob" /\ lease[j] = q
                /\ srvUp[q] /\ ~Broken(q) /\ half'[q] = {j}
  <2>1. lease[j] \in Providers
    BY <1>1, HasLease DEF NewJob, Holding
  <2> QED  BY <1>1, <2>1 DEF NewJob, Typed
<1>2. half' = half \/ \E j \in Jobs : NewJob(j)
  BY DEF RelayNext, Submit, SubmitterSends, SubmitterLost, Collect, WatchCancel, Acquiring,
         AcquireFailed, Forward, NoMore, Leave, Connect, ServerReads, ServerLoses, Unregister,
         ClientLoses, ClientReads, Take, Refuse, Upstream, UpstreamFails, Give, RelayRest,
         rvars, linkVars
<1> QED  BY <1>1, <1>2

(* So a half job is one ever after. *)
LEMMA HalfKept ==
  ASSUME SlotInv, StageInv, Typed, [RelayNext]_rvars, NEW q \in Providers, NEW i \in half[q]
  PROVE  i \in half'[q]
BY HalfStep DEF Broken

(* The steps that no relay takes. *)
Elsewhere ==
  \/ \E j \in Jobs : SubmitterSends(j) \/ SubmitterLost(j) \/ WatchCancel(j)
  \/ \E p \in Providers :
       \/ Connect(p) \/ ServerReads(p) \/ ServerLoses(p) \/ Unregister(p)
       \/ ClientLoses(p) \/ ClientReads(p)
  \/ \E j \in Jobs, p \in Providers :
       \/ Take(j, p) \/ Refuse(j, p) \/ Upstream(j, p) \/ UpstreamFails(j, p)
       \/ Give(j, p)
  \/ RelayRest \/ UNCHANGED rvars

(* They move no relay on, and nobody hears of them. *)
LEMMA ElsewhereKeeps ==
  ASSUME Elsewhere
  PROVE  /\ UNCHANGED <<stage, outcome, started, answer>>
         /\ inbox' = inbox \/ \E p \in Providers : ServerReads(p)
<1>1. ASSUME NEW j \in Jobs, SubmitterSends(j) \/ SubmitterLost(j) \/ WatchCancel(j)
      PROVE  UNCHANGED <<stage, outcome, started, answer, inbox>>
  BY <1>1 DEF SubmitterSends, SubmitterLost, WatchCancel, relayVars
<1>2. ASSUME NEW p \in Providers, ServerReads(p)
      PROVE  UNCHANGED <<stage, outcome, started, answer>>
  BY <1>2 DEF ServerReads
<1>3. ASSUME NEW p \in Providers, \/ Connect(p) \/ ServerLoses(p) \/ Unregister(p)
                                  \/ ClientLoses(p) \/ ClientReads(p)
      PROVE  UNCHANGED <<stage, outcome, started, answer, inbox>>
  BY <1>3 DEF Connect, ServerLoses, Unregister, ClientLoses, ClientReads, relayVars
<1>4. ASSUME NEW j \in Jobs, NEW p \in Providers,
             Take(j, p) \/ Refuse(j, p) \/ Upstream(j, p) \/ UpstreamFails(j, p) \/ Give(j, p)
      PROVE  UNCHANGED <<stage, outcome, started, answer, inbox>>
  BY <1>4 DEF Take, Refuse, Upstream, UpstreamFails, Give, relayVars
<1>5. ASSUME RelayRest \/ UNCHANGED rvars
      PROVE  UNCHANGED <<stage, outcome, started, answer, inbox>>
  BY <1>5 DEF RelayRest, rvars, relayVars
<1> QED  BY <1>1, <1>2, <1>3, <1>4, <1>5 DEF Elsewhere

(* How a relay can move on. *)
LEMMA StageMoves ==
  ASSUME StageInv, Typed, [RelayNext]_rvars, NEW i \in Jobs
  PROVE  \/ stage'[i] = stage[i] /\ outcome'[i] = outcome[i]
         \/ stage[i] \notin {"relay", "leave", "ended"}
         \/ /\ stage[i] = "relay" /\ stage'[i] = "leave"
            /\ outcome'[i] # "gone" \/ ~srvUp[lease[i]]
         \/ stage[i] = "leave" /\ stage'[i] = "ended"
         \/ stage[i] = "leave" /\ stage'[i] = "acquire" /\ outcome[i] = "gone"
<1> DEFINE Moves ==
         \/ stage'[i] = stage[i] /\ outcome'[i] = outcome[i]
         \/ stage[i] \notin {"relay", "leave", "ended"}
         \/ /\ stage[i] = "relay" /\ stage'[i] = "leave"
            /\ outcome'[i] # "gone" \/ ~srvUp[lease[i]]
         \/ stage[i] = "leave" /\ stage'[i] = "ended"
         \/ stage[i] = "leave" /\ stage'[i] = "acquire" /\ outcome[i] = "gone"
<1>t. stage \in [Jobs -> Stages] /\ outcome \in [Jobs -> Outcomes]
  BY DEF StageInv, Typed
<1>1. CASE UNCHANGED <<stage, outcome>>
  BY <1>1
<1>2. ASSUME NEW j \in Jobs, Submit(j) \/ Collect(j) \/ Acquiring(j) \/ AcquireFailed(j) \/ NewJob(j)
      PROVE  Moves
  <2>1. stage[j] \notin {"relay", "leave", "ended"}
    BY <1>2 DEF Submit, Collect, Acquiring, AcquireFailed, NewJob
  <2>2. i # j => stage'[i] = stage[i] /\ outcome'[i] = outcome[i]
    BY <1>2, <1>t DEF Submit, Collect, Acquiring, AcquireFailed, NewJob, Return
  <2> QED  BY <2>1, <2>2
<1>3. ASSUME NEW j \in Jobs, Forward(j) PROVE Moves
  <2>1. CASE UNCHANGED <<stage, outcome>>
    BY <2>1
  <2>2. ASSUME NEW o \in {"failed", "cancelled", "done"}, Return(j, o) PROVE Moves
    BY <1>3, <1>t, <2>2 DEF Forward, Return
  <2> QED  BY <1>3, <2>1, <2>2 DEF Forward
<1>4. ASSUME NEW j \in Jobs, NoMore(j) PROVE Moves
  <2>1. CASE Return(j, "cancelled")
    BY <1>4, <1>t, <2>1 DEF NoMore, Return
  <2>2. CASE Return(j, "gone") /\ ~srvUp[lease[j]]
    BY <1>4, <1>t, <2>2 DEF NoMore, Return
  <2> QED  BY <1>4, <2>1, <2>2 DEF NoMore
<1>5. ASSUME NEW j \in Jobs, Leave(j) PROVE Moves
  <2>1. i # j => stage'[i] = stage[i] /\ outcome'[i] = outcome[i]
    BY <1>5, <1>t DEF Leave
  <2>2. /\ stage[j] = "leave"
        /\ stage'[j] = "ended" \/ (stage'[j] = "acquire" /\ outcome[j] = "gone")
    BY <1>5, <1>t DEF Leave
  <2> QED  BY <2>1, <2>2
<1>6. ASSUME Elsewhere PROVE UNCHANGED <<stage, outcome>>
  BY <1>6, ElsewhereKeeps
<1> QED
  BY <1>1, <1>2, <1>3, <1>4, <1>5, <1>6 DEF RelayNext, Elsewhere

(* Every step keeps strangers strangers. *)
LEMMA StrangersStep ==
  ASSUME SlotInv, StageInv, AnswerInv, [RelayNext]_rvars
  PROVE  Strangers'
<1> SUFFICES ASSUME NEW q \in Providers, ~Joined(q)'
             PROVE  ~srvUp'[q] /\ ~cliUp'[q] /\ ~Broken(q)' /\ \A j \in Jobs : ~Touched(j, q)'
  BY DEF Strangers
<1>1. ~Joined(q)
  BY JoinedStep
<1>2. ~srvUp[q] /\ ~cliUp[q] /\ ~Broken(q) /\ \A j \in Jobs : ~Touched(j, q)
  BY <1>1 DEF AnswerInv, Strangers
<1>3. ~srvUp'[q] /\ ~cliUp'[q]
  BY <1>2, LinkUp DEF AnswerInv
<1>4. \A j \in Jobs : ~Touched(j, q)'
  BY <1>2, TouchedStep DEF Turns
<1>5. ~Broken(q)'
  BY <1>2, HalfStep DEF AnswerInv, Broken
<1> QED  BY <1>3, <1>4, <1>5

(* Every step keeps it that a provider has only the attempts that are under way. *)
LEMMA OneAttemptStep ==
  ASSUME SlotInv, StageInv, AnswerInv, [RelayNext]_rvars
  PROVE  OneAttempt'
<1> SUFFICES ASSUME NEW i \in Jobs, NEW q \in Providers, srvUp'[q], Touched(i, q)'
             PROVE  \/ stage'[i] = "ended"
                    \/ i \in half'[q]
                    \/ /\ lease'[i] = q
                       /\ \/ stage'[i] = "relay"
                          \/ stage'[i] = "leave" /\ outcome'[i] # "gone"
  BY DEF OneAttempt
<1>1. Typed /\ Strangers /\ OneAttempt
  BY DEF AnswerInv
<1>2. Touched(i, q) \/ Turns(i, q)
  BY TouchedStep
<1>3. srvUp[q]
  <2> SUFFICES ASSUME ~srvUp[q] PROVE FALSE
    OBVIOUS
  <2>1. ~Joined(q)
    BY <1>1, LinkUp
  <2> QED  BY <1>1, <1>2, <2>1 DEF Strangers, Turns
<1>4. stage[i] \in Holding /\ stage'[i] \in Holding => lease'[i] = lease[i]
  BY LeaseKept
<1>5. CASE Touched(i, q)
  <2>1. \/ stage[i] = "ended"
        \/ i \in half'[q]
        \/ lease[i] = q /\ (stage[i] = "relay" \/ (stage[i] = "leave" /\ outcome[i] # "gone"))
    BY <1>1, <1>3, <1>5, HalfKept DEF OneAttempt
  <2>2. \/ stage'[i] = stage[i] /\ outcome'[i] = outcome[i]
        \/ stage[i] \notin {"relay", "leave", "ended"}
        \/ /\ stage[i] = "relay" /\ stage'[i] = "leave"
           /\ outcome'[i] # "gone" \/ ~srvUp[lease[i]]
        \/ stage[i] = "leave" /\ stage'[i] = "ended"
        \/ stage[i] = "leave" /\ stage'[i] = "acquire" /\ outcome[i] = "gone"
    BY <1>1, StageMoves
  <2> QED  BY <1>3, <1>4, <2>1, <2>2 DEF Holding
<1>6. CASE Turns(i, q)
  BY <1>4, <1>6 DEF Turns, Holding
<1> QED  BY <1>2, <1>5, <1>6

(* Every step keeps it that a REQUEST is sent once. *)
LEMMA SentOnceStep ==
  ASSUME SlotInv, StageInv, AnswerInv, [RelayNext]_rvars
  PROVE  SentOnce'
<1>t. Typed /\ SentOnce /\ OneAttempt
  BY DEF AnswerInv
<1>0. ASSUME \A q \in Providers : toClient'[q] \in {toClient[q], <<>>},
             \A j \in Jobs, q \in Providers :
               run'[<<j, q>>] = run[<<j, q>>] \/ run[<<j, q>>] # "none"
      PROVE  SentOnce'
  <2> SUFFICES ASSUME NEW q \in Providers, NEW i \in 1..Len(toClient'[q]),
                      toClient'[q][i].kind = "REQUEST"
               PROVE  /\ run'[<<toClient'[q][i].job, q>>] = "none"
                      /\ \A k \in 1..Len(toClient'[q]) :
                           /\ toClient'[q][k].kind = "REQUEST"
                           /\ toClient'[q][k].job = toClient'[q][i].job
                           => k = i
    BY DEF SentOnce
  <2>1. toClient'[q] = toClient[q]
    BY <1>0
  <2>2. toClient[q] \in Seq(Message)
    BY <1>t DEF Typed
  <2>3. toClient[q][i] \in Message
    BY <2>1, <2>2
  <2>4. toClient[q][i].job \in Jobs
    BY <2>3 DEF Message
  <2>5. run[<<toClient[q][i].job, q>>] = "none"
    BY <1>t, <2>1 DEF SentOnce
  <2>6. run'[<<toClient[q][i].job, q>>] = "none"
    BY <1>0, <2>4, <2>5
  <2> QED  BY <1>t, <2>1, <2>6 DEF SentOnce
<1>1. CASE UNCHANGED <<toClient, run>>
  BY <1>0, <1>1
<1>2. ASSUME NEW p \in Providers, NEW j \in Jobs, NEW k \in Kinds, SendToClient(p, Msg(j, k)),
             run' = run, k # "REQUEST" \/ (srvUp[p] /\ ~Broken(p) => ~Touched(j, p))
      PROVE  SentOnce'
  <2> DEFINE m == Msg(j, k)
  <2>1. m \in Message /\ m.job = j /\ m.kind = k
    BY MsgType
  <2>2. toClient[p] \in Seq(Message)
    BY <1>t DEF Typed
  <2>3. \A q \in Providers : q # p => toClient'[q] = toClient[q]
    BY <1>2, <1>t, <2>1, SendsTo
  <2>4. CASE toClient'[p] = toClient[p]
    BY <1>0, <1>2, <2>3, <2>4
  <2>5. CASE toClient'[p] = Append(toClient[p], m) /\ srvUp[p] /\ ~Broken(p)
    <3> DEFINE s == toClient[p]
               t == Append(s, m)
    <3>1. /\ Len(s) \in Nat /\ Len(t) = Len(s) + 1 /\ t[Len(s) + 1] = m
          /\ \A i \in 1..Len(s) : t[i] = s[i]
      BY <2>1, <2>2, Appended
    <3>2. /\ toClient'[p] = t
          /\ \A i \in 1..Len(s) : s[i].kind = "REQUEST" =>
               /\ run[<<s[i].job, p>>] = "none"
               /\ \A l \in 1..Len(s) : s[l].kind = "REQUEST" /\ s[l].job = s[i].job => l = i
      BY <1>t, <2>5 DEF SentOnce
    <3>3. k = "REQUEST" => run[<<j, p>>] = "none" /\ \A i \in 1..Len(s) : s[i].job # j
      BY <1>2, <2>5 DEF Touched, Speaks
    <3> HIDE DEF s, t, m
    <3>4. \A i \in 1..Len(t) : i \in 1..Len(s) \/ i = Len(s) + 1
      BY <3>1
    <3>5. ASSUME NEW i \in 1..Len(t), t[i].kind = "REQUEST"
          PROVE  run[<<t[i].job, p>>] = "none"
      BY <2>1, <3>1, <3>2, <3>3, <3>4, <3>5
    <3>6. ASSUME NEW i \in 1..Len(t), t[i].kind = "REQUEST",
                 NEW l \in 1..Len(t), t[l].kind = "REQUEST", t[l].job = t[i].job
          PROVE  l = i
      <4>1. CASE i \in 1..Len(s) /\ l \in 1..Len(s)
        BY <3>1, <3>2, <3>6, <4>1
      <4>2. CASE i \in 1..Len(s) /\ l = Len(s) + 1
        BY <2>1, <3>1, <3>3, <3>6, <4>2
      <4>3. CASE i = Len(s) + 1 /\ l \in 1..Len(s)
        BY <2>1, <3>1, <3>3, <3>6, <4>3
      <4> QED  BY <3>4, <4>1, <4>2, <4>3
    <3>7. ASSUME NEW q \in Providers, NEW i \in 1..Len(toClient'[q]),
                 toClient'[q][i].kind = "REQUEST"
          PROVE  /\ run'[<<toClient'[q][i].job, q>>] = "none"
                 /\ \A l \in 1..Len(toClient'[q]) :
                      /\ toClient'[q][l].kind = "REQUEST"
                      /\ toClient'[q][l].job = toClient'[q][i].job
                      => l = i
      <4>1. CASE q = p
        BY <1>2, <3>2, <3>5, <3>6, <3>7, <4>1
      <4>2. CASE q # p
        BY <1>2, <1>t, <2>3, <3>7, <4>2 DEF SentOnce
      <4> QED  BY <4>1, <4>2
    <3> QED  BY <3>7 DEF SentOnce
  <2> QED  BY <1>2, <1>t, <2>1, <2>4, <2>5, SendsTo
<1>3. ASSUME NEW j \in Jobs, NewJob(j) PROVE SentOnce'
  <2>1. lease[j] \in Providers
    BY <1>3, HasLease DEF NewJob, Holding
  <2>2. srvUp[lease[j]] /\ ~Broken(lease[j]) => ~Touched(j, lease[j])
    BY <1>3, <1>t, <2>1 DEF NewJob, OneAttempt, Broken
  <2>3. CASE SendToClient(lease[j], Msg(j, "REQUEST"))
    BY <1>2, <1>3, <2>1, <2>2, <2>3 DEF NewJob, runVars, Kinds
  <2> QED  BY <1>1, <1>3, <2>3 DEF NewJob, runVars
<1>4. ASSUME NEW j \in Jobs, Forward(j) \/ NoMore(j) PROVE SentOnce'
  <2>1. lease[j] \in Providers
    BY <1>4, HasLease DEF Forward, NoMore, Holding
  <2>2. run' = run
    BY <1>4 DEF Forward, NoMore, runVars
  <2>3. CASE SendToClient(lease[j], Msg(j, "CANCEL"))
    BY <1>2, <2>1, <2>2, <2>3 DEF Kinds
  <2> QED  BY <1>1, <1>4, <2>2, <2>3 DEF Forward, NoMore
<1>5. ASSUME NEW p \in Providers, ClientReads(p) PROVE SentOnce'
  <2> DEFINE s == toClient[p]
             t == Tail(s)
             m == Head(s)
  <2>1. s \in Seq(Message) /\ s # <<>>
    BY <1>5, <1>t DEF ClientReads, Typed
  <2>2. /\ Len(s) \in Nat \ {0} /\ Len(t) = Len(s) - 1 /\ m = s[1]
        /\ \A i \in 1..Len(t) : t[i] = s[i + 1]
        /\ m \in Message
    BY <2>1, Tailed
  <2>3. /\ toClient'[p] = t
        /\ \A q \in Providers : q # p => toClient'[q] = toClient[q]
        /\ \/ m.kind = "REQUEST" /\ run' = [run EXCEPT ![<<m.job, p>>] = "start"]
           \/ run' = run
    BY <1>5, <1>t DEF ClientReads, Typed
  <2>4. \A i \in 1..Len(s) : s[i].kind = "REQUEST" =>
          /\ run[<<s[i].job, p>>] = "none"
          /\ \A l \in 1..Len(s) : s[l].kind = "REQUEST" /\ s[l].job = s[i].job => l = i
    BY <1>t DEF SentOnce
  <2> HIDE DEF s, t, m
  <2>5. 1 \in 1..Len(s) /\ \A i \in 1..Len(t) : i + 1 \in 1..Len(s) /\ i + 1 # 1 /\ i \in Nat
    BY <2>2
  <2>6. \A i \in 1..Len(t) : t[i] \in Message
    BY <2>1, <2>2, <2>5, ElementOfSeq
  <2>7. ASSUME NEW i \in 1..Len(t), t[i].kind = "REQUEST"
        PROVE  run'[<<t[i].job, p>>] = "none"
    <3>1. t[i].job \in Jobs
      BY <2>6 DEF Message
    <3>2. run[<<t[i].job, p>>] = "none"
      <4>1. i + 1 \in 1..Len(s) /\ t[i] = s[i + 1]
        BY <2>2, <2>5
      <4> QED  BY <2>4, <2>7, <4>1
    <3>3. m.kind = "REQUEST" => t[i].job # m.job
      BY <2>2, <2>4, <2>5, <2>7
    <3> QED  BY <1>t, <2>3, <3>1, <3>2, <3>3 DEF Typed
  <2>8. ASSUME NEW i \in 1..Len(t), t[i].kind = "REQUEST",
               NEW l \in 1..Len(t), t[l].kind = "REQUEST", t[l].job = t[i].job
        PROVE  l = i
    <3>1. l + 1 = i + 1
      BY <2>2, <2>4, <2>5, <2>8
    <3> QED  BY <2>5, <3>1
  <2>9. \A j \in Jobs, q \in Providers : q # p => run'[<<j, q>>] = run[<<j, q>>]
    BY <1>t, <2>3 DEF Typed
  <2>10. ASSUME NEW q \in Providers, NEW i \in 1..Len(toClient'[q]),
                toClient'[q][i].kind = "REQUEST"
         PROVE  /\ run'[<<toClient'[q][i].job, q>>] = "none"
                /\ \A l \in 1..Len(toClient'[q]) :
                     /\ toClient'[q][l].kind = "REQUEST"
                     /\ toClient'[q][l].job = toClient'[q][i].job
                     => l = i
    <3>1. CASE q = p
      BY <2>3, <2>7, <2>8, <2>10, <3>1
    <3>2. CASE q # p
      <4>1. toClient[q] \in Seq(Message) /\ toClient'[q] = toClient[q]
        BY <1>t, <2>3, <3>2 DEF Typed
      <4>2. toClient[q][i] \in Message
        BY <4>1
      <4>3. toClient[q][i].job \in Jobs
        BY <4>2 DEF Message
      <4> QED  BY <1>t, <2>9, <2>10, <3>2, <4>1, <4>3 DEF SentOnce
    <3> QED  BY <3>1, <3>2
  <2> QED  BY <2>10 DEF SentOnce
<1>6. ASSUME NEW p \in Providers, ClientLoses(p) PROVE SentOnce'
  <2>1. run' = run /\ \A q \in Providers : toClient'[q] \in {toClient[q], <<>>}
    BY <1>6, <1>t DEF ClientLoses, ClientCloses, Typed
  <2> QED  BY <1>0, <2>1
<1>7. ASSUME NEW j \in Jobs, NEW p \in Providers, \/ Take(j, p) \/ Refuse(j, p) \/ Upstream(j, p)
                                                  \/ UpstreamFails(j, p) \/ Give(j, p)
      PROVE  SentOnce'
  <2>1. run[<<j, p>>] # "none" /\ \E r \in Runs : run' = [run EXCEPT ![<<j, p>>] = r]
    BY <1>7 DEF Take, Refuse, Upstream, UpstreamFails, Give, Runs
  <2>2. \A i \in Jobs, q \in Providers : run'[<<i, q>>] = run[<<i, q>>] \/ run[<<i, q>>] # "none"
    BY <1>t, <2>1 DEF Typed
  <2>3. \A q \in Providers : toClient'[q] \in {toClient[q], <<>>}
    BY <1>7, <1>t DEF Take, Refuse, Upstream, UpstreamFails, Give, ClientCloses, Typed, linkVars
  <2> QED  BY <1>0, <2>2, <2>3
<1>8. ASSUME \/ \E j \in Jobs : \/ Submit(j) \/ SubmitterSends(j) \/ SubmitterLost(j) \/ Collect(j)
                                \/ WatchCancel(j) \/ Acquiring(j) \/ AcquireFailed(j) \/ Leave(j)
             \/ \E p \in Providers : Connect(p) \/ ServerReads(p) \/ ServerLoses(p) \/ Unregister(p)
             \/ RelayRest \/ UNCHANGED rvars
      PROVE  UNCHANGED <<toClient, run>>
  BY <1>8 DEF Submit, SubmitterSends, SubmitterLost, Collect, WatchCancel, Acquiring,
       AcquireFailed, Leave, Connect, ServerReads, ServerLoses, Unregister, RelayRest, rvars,
       linkVars, runVars
<1> QED
  BY <1>1, <1>3, <1>4, <1>5, <1>6, <1>7, <1>8 DEF RelayNext

-----------------------------------------------------------------------------
(* The attempts. *)

Up(p) == srvUp[p] /\ cliUp[p]

(* A link that a provider works on does not come up again. *)
LEMMA UpKept ==
  ASSUME SlotInv, AnswerInv, [RelayNext]_rvars, NEW i \in Jobs, NEW p \in Providers,
         run[<<i, p>>] # "none", Up(p)'
  PROVE  Up(p)
<1>1. Joined(p)
  BY DEF AnswerInv, Strangers, Touched
<1> QED  BY <1>1, LinkUp DEF Up, AnswerInv

(* The attempt of job i as it was, when its provider at most went on without a word. *)
LEMMA AttemptKept ==
  ASSUME SlotInv, AnswerInv, [RelayNext]_rvars, NEW i \in Jobs, NEW p \in Providers,
         stage[i] = "relay", lease[i] = p,
         inbox'[i] = inbox[i], started'[i] = started[i], toServer'[p] = toServer[p],
         run'[<<i, p>>] \in {"none", "start", "asked"} => run[<<i, p>>] \in {"none", "start", "asked"},
         run'[<<i, p>>] \in {"head", "body"} /\ Up(p)' => run[<<i, p>>] \in {"head", "body"},
         run[<<i, p>>] \in {"giving", "over"} => run'[<<i, p>>] \in {"giving", "over"}
  PROVE  AttemptOK(inbox'[i], started'[i], toServer'[p], run'[<<i, p>>], Up(p)', i)
<1> DEFINE b == inbox[i]
           st == started[i]
           s == toServer[p]
           r == run[<<i, p>>]
           r2 == run'[<<i, p>>]
           up == Up(p)
           up2 == Up(p)'
<1>1. AttemptOK(b, st, s, r, up, i)
  BY DEF AnswerInv, Answering, Up
<1>2. r2 \in {"head", "body"} /\ up2 => r \in {"head", "body"} /\ up
  BY UpKept
<1>3. /\ r2 \in {"none", "start", "asked"} => r \in {"none", "start", "asked"}
      /\ r \in {"giving", "over"} => r2 \in {"giving", "over"}
  OBVIOUS
<1> HIDE DEF b, st, s, r, r2, up, up2
<1>4. AttemptOK(b, st, s, r2, up2, i)
  BY <1>1, <1>2, <1>3, AttemptMoves
<1> QED  BY <1>4 DEF b, st, s, r2, up2

(* A message of a provider is written to the link of the attempt of job i. *)
LEMMA AttemptSent ==
  ASSUME SlotInv, AnswerInv, [RelayNext]_rvars, NEW i \in Jobs, NEW p \in Providers,
         stage[i] = "relay", lease[i] = p, NEW j \in Jobs, NEW q \in Providers, NEW k \in Kinds,
         NEW r2 \in Runs,
         SendToServer(q, Msg(j, k)), Follows(run[<<j, q>>], k, r2),
         run' = [run EXCEPT ![<<j, q>>] = r2],
         UNCHANGED <<inbox, started, srvUp, cliUp>>
  PROVE  AttemptOK(inbox'[i], started'[i], toServer'[p], run'[<<i, p>>], Up(p)', i)
<1>t. Typed
  BY DEF AnswerInv
<1> DEFINE m == Msg(j, k)
<1>1. m \in Message /\ m.job = j /\ m.kind = k
  BY MsgType
<1>2. /\ p # q => toServer'[p] = toServer[p]
      /\ \/ toServer'[q] = toServer[q] /\ ~Up(q)
         \/ toServer'[q] = Append(toServer[q], m) /\ Up(q)
  BY <1>t, <1>1, SendsTo DEF Up
<1>3. run'[<<i, p>>] = IF i = j /\ p = q THEN r2 ELSE run[<<i, p>>]
  BY <1>t DEF Typed
<1>4. Up(p)' = Up(p)
  BY DEF Up
<1> HIDE DEF m
<1>5. CASE p = q /\ Up(q)
  <2> DEFINE b == inbox[i]
             st == started[i]
             s == toServer[p]
             r == run[<<i, p>>]
             u == run'[<<i, p>>]
             up == Up(p)
  <2>1. AttemptOK(b, st, s, r, up, i)
    BY DEF AnswerInv, Answering, Up
  <2>2. st \in BOOLEAN /\ s \in Seq(Message)
    BY <1>t DEF Typed
  <2>3. \/ m.job # i /\ u = r
        \/ m.job = i /\ Follows(r, m.kind, u)
    BY <1>1, <1>3, <1>5
  <2>4. up /\ toServer'[p] = Append(s, m)
    BY <1>2, <1>5
  <2> HIDE DEF b, st, s, r, u, up
  <2>5. AttemptOK(b, st, Append(s, m), u, up, i)
    BY <1>1, <2>1, <2>2, <2>3, <2>4, AttemptWrites
  <2> QED  BY <1>4, <2>4, <2>5 DEF b, st, s, u, up
<1>6. CASE p # q \/ ~Up(q)
  <2>1. toServer'[p] = toServer[p]
    BY <1>2, <1>6
  <2>2. i = j /\ p = q => /\ ~Up(p)'
                          /\ run[<<i, p>>] \in {"asked", "head", "body"}
                          /\ run'[<<i, p>>] \in {"head", "body", "giving"}
    BY <1>3, <1>4, <1>6 DEF Follows
  <2> QED  BY <1>3, <2>1, <2>2, AttemptKept
<1> QED  BY <1>5, <1>6

(* Every step of a provider keeps the attempts as they should be. *)
LEMMA ProviderStep ==
  ASSUME SlotInv, AnswerInv, [RelayNext]_rvars, NEW i \in Jobs, NEW p \in Providers,
         stage[i] = "relay", lease[i] = p, NEW j \in Jobs, NEW q \in Providers,
         Take(j, q) \/ Refuse(j, q) \/ Upstream(j, q) \/ UpstreamFails(j, q) \/ Give(j, q)
  PROVE  AttemptOK(inbox'[i], started'[i], toServer'[p], run'[<<i, p>>], Up(p)', i)
<1>t. Typed
  BY DEF AnswerInv
<1>0. inbox' = inbox /\ started' = started
  BY DEF Take, Refuse, Upstream, UpstreamFails, Give, relayVars
<1>1. ASSUME NEW r \in Runs, NEW r2 \in Runs, run[<<j, q>>] = r, run' = [run EXCEPT ![<<j, q>>] = r2],
             toServer' = toServer,
             \/ r = "start" /\ r2 \in {"asked", "over"}
             \/ r \in {"asked", "head", "body", "giving"} /\ r2 \in {"giving", "over"}
      PROVE  AttemptOK(inbox'[i], started'[i], toServer'[p], run'[<<i, p>>], Up(p)', i)
  <2>1. run'[<<i, p>>] = IF i = j /\ p = q THEN r2 ELSE run[<<i, p>>]
    BY <1>1, <1>t DEF Typed
  <2> QED  BY <1>0, <1>1, <2>1, AttemptKept
<1>2. CASE Take(j, q) \/ Refuse(j, q) \/ Give(j, q)
  BY <1>1, <1>2 DEF Take, Refuse, Give, Runs, linkVars
<1>3. ASSUME NEW k \in Kinds, NEW r2 \in Runs, SendToServer(q, Msg(j, k)),
             Follows(run[<<j, q>>], k, r2), run' = [run EXCEPT ![<<j, q>>] = r2],
             UNCHANGED <<srvUp, cliUp>>
      PROVE  AttemptOK(inbox'[i], started'[i], toServer'[p], run'[<<i, p>>], Up(p)', i)
  BY <1>0, <1>3, AttemptSent
<1>4. CASE Upstream(j, q)
  <2>1. CASE run[<<j, q>>] = "asked" /\ run' = [run EXCEPT ![<<j, q>>] = "head"]
             /\ SendToServer(q, Msg(j, "RESPONSE"))
    BY <1>3, <1>4, <2>1 DEF Upstream, Follows, Kinds, Runs
  <2>2. CASE run[<<j, q>>] = "head" /\ run' = [run EXCEPT ![<<j, q>>] = "body"]
             /\ SendToServer(q, Msg(j, "BODY"))
    BY <1>3, <1>4, <2>2 DEF Upstream, Follows, Kinds, Runs
  <2>3. CASE run[<<j, q>>] \in {"head", "body"} /\ run' = [run EXCEPT ![<<j, q>>] = "giving"]
             /\ SendToServer(q, Msg(j, "END"))
    BY <1>3, <1>4, <2>3 DEF Upstream, Follows, Kinds, Runs
  <2> QED  BY <1>4, <2>1, <2>2, <2>3 DEF Upstream
<1>5. CASE UpstreamFails(j, q)
  <2>1. CASE SendToServer(q, Msg(j, "FAIL"))
    BY <1>3, <1>5, <2>1 DEF UpstreamFails, Follows, Kinds, Runs
  <2>2. CASE toServer' = toServer
    BY <1>1, <1>5, <2>2 DEF UpstreamFails, Runs
  <2> QED  BY <1>5, <2>1, <2>2 DEF UpstreamFails
<1> QED  BY <1>2, <1>4, <1>5

(* Every step keeps the attempts as they should be. *)
LEMMA AnsweringStep ==
  ASSUME SlotInv, StageInv, AnswerInv, [RelayNext]_rvars
  PROVE  Answering'
<1> SUFFICES ASSUME NEW i \in Jobs, stage'[i] = "relay", NEW p, lease'[i] = p
             PROVE  AttemptOK(inbox'[i], started'[i], toServer'[p], run'[<<i, p>>], Up(p)', i)
  BY DEF Answering, Up
<1>t. Typed /\ stage \in [Jobs -> Stages]
  BY DEF AnswerInv, StageInv
<1> DEFINE Goal == AttemptOK(inbox'[i], started'[i], toServer'[p], run'[<<i, p>>], Up(p)', i)
<1>1. ASSUME NewJob(i) PROVE Goal
  <2>1. stage[i] = "newJob"
    BY <1>1 DEF NewJob
  <2>2. p \in Providers /\ lease[i] = p
    BY <2>1, LeaseKept DEF Holding
  <2>3. srvUp[p]
    BY <1>1, <1>t, <2>2 DEF NewJob, Return
  <2>4. ~Touched(i, p) \/ i \in half[p]
    BY <2>1, <2>2, <2>3 DEF AnswerInv, OneAttempt
  <2>5. inbox'[i] = <<>> /\ started'[i] = FALSE
    BY <1>1, <1>t, <2>1 DEF NewJob, AnswerInv, Heard, HeardOK, Typed
  <2>6. UNCHANGED <<toServer, run>>
    BY <1>1 DEF NewJob, runVars
  <2> DEFINE up == Up(p)'
             s == toServer[p]
             r == run[<<i, p>>]
  <2>7. /\ r \notin {"head", "body"}
        /\ \A k \in 1..Len(s) : s[k].job = i => s[k].kind = "FAIL" /\ r \in {"giving", "over"}
    <3>1. CASE ~Touched(i, p)
      BY <3>1 DEF Touched, Speaks
    <3>2. CASE i \in half[p]
      BY <2>2, <3>2 DEF AnswerInv, Halves, Through
    <3> QED  BY <2>4, <3>1, <3>2
  <2> HIDE DEF up, s, r
  <2>8. AttemptOK(<<>>, FALSE, s, r, up, i)
    BY <2>7, AttemptBegins
  <2> QED  BY <2>5, <2>6, <2>8 DEF up, s, r
<1>2. ASSUME stage[i] = "relay" PROVE p \in Providers /\ lease[i] = p
  BY <1>2, LeaseKept DEF Holding
<1>3. ASSUME stage[i] = "relay", UNCHANGED <<toServer, run>>, inbox'[i] = inbox[i],
             started'[i] = started[i]
      PROVE  Goal
  BY <1>2, <1>3, AttemptKept
<1>4. ASSUME NEW j \in Jobs, Forward(j), stage[i] = "relay" PROVE Goal
  <2>1. CASE j # i
    <3>1. inbox'[i] = inbox[i] /\ started'[i] = started[i] /\ UNCHANGED <<toServer, run>>
      BY <1>4, <1>t, <2>1 DEF Forward, Typed, runVars
    <3> QED  BY <1>3, <1>4, <3>1
  <2>2. CASE j = i
    <3> DEFINE b == inbox[i]
               st == started[i]
               s == toServer[p]
               r == run[<<i, p>>]
               up == Up(p)
    <3>1. AttemptOK(b, st, s, r, up, i)
      BY <1>2, <1>4 DEF AnswerInv, Answering, Up
    <3>2. b \in Seq(Kinds) /\ st \in BOOLEAN /\ b # <<>>
      BY <1>4, <1>t, <2>2 DEF Typed, Forward
    <3>3. Head(b) \notin Terminal
      BY <1>4, <1>t, <2>2 DEF Forward, Return, Terminal
    <3>4. inbox'[i] = Tail(b) /\ started'[i] = (st \/ Head(b) = "RESPONSE")
      BY <1>4, <1>t, <2>2 DEF Forward, Typed
    <3>5. UNCHANGED <<toServer, run>> /\ Up(p)' = Up(p)
      BY <1>4 DEF Forward, runVars, Up
    <3> HIDE DEF b, st, s, r, up
    <3>6. /\ Head(b) = "RESPONSE" <=> ~st
          /\ AttemptOK(Tail(b), TRUE, s, r, up, i)
      BY ONLY <3>1, <3>2, <3>3, AttemptForward
    <3>7. started'[i] = TRUE
      BY <3>4, <3>6
    <3> QED  BY <3>4, <3>5, <3>6, <3>7 DEF s, r, up
  <2> QED  BY <2>1, <2>2
<1>5. ASSUME NEW q \in Providers, ServerReads(q), stage[i] = "relay" PROVE Goal
  <2> DEFINE m == Head(toServer[q])
  <2>0. p \in Providers
    BY <1>2, <1>5
  <2>1. /\ toServer[q] \in Seq(Message) /\ toServer[q] # <<>>
        /\ \A x \in Providers : x # q => toServer'[x] = toServer[x]
        /\ toServer'[q] = Tail(toServer[q])
        /\ started' = started /\ run' = run
        /\ Up(p)' = Up(p)
    BY <1>5, <1>t DEF ServerReads, Typed, runVars, Up
  <2>2. inbox'[i] = IF m.job = i /\ p = q THEN Append(inbox[i], m.kind) ELSE inbox[i]
    <3>1. m \in Message
      BY <2>1, Tailed
    <3>2. m.job \in Jobs
      BY <3>1 DEF Message
    <3>3. inbox' = IF stage[m.job] = "relay" /\ lease[m.job] = q
                   THEN [inbox EXCEPT ![m.job] = Append(@, m.kind)] ELSE inbox
      BY <1>5 DEF ServerReads
    <3> HIDE DEF m
    <3> QED  BY <1>2, <1>5, <1>t, <3>2, <3>3 DEF Typed
  <2>3. CASE q # p
    <3>1. toServer'[p] = toServer[p] /\ inbox'[i] = inbox[i]
      BY <2>0, <2>1, <2>2, <2>3
    <3> QED  BY <1>2, <1>5, <2>1, <3>1, AttemptKept
  <2>4. CASE q = p
    <3> DEFINE b == inbox[i]
               st == started[i]
               s == toServer[p]
               r == run[<<i, p>>]
               up == Up(p)
    <3>1. AttemptOK(b, st, s, r, up, i)
      BY <1>2, <1>5 DEF AnswerInv, Answering, Up
    <3>2. b \in Seq(Kinds) /\ st \in BOOLEAN /\ s \in Seq(Message) /\ s # <<>>
      BY <1>t, <2>1, <2>4 DEF Typed
    <3>3. /\ toServer'[p] = Tail(s) /\ m = Head(s)
          /\ inbox'[i] = IF Head(s).job = i THEN Append(b, Head(s).kind) ELSE b
      BY <2>1, <2>2, <2>4
    <3> HIDE DEF b, st, s, r, up
    <3>4. CASE Head(s).job = i
      <4>1. AttemptOK(Append(b, Head(s).kind), st, Tail(s), r, up, i)
        BY <3>1, <3>2, <3>4, AttemptReads
      <4> QED  BY <2>1, <3>3, <3>4, <4>1 DEF st, r, up
    <3>5. CASE Head(s).job # i
      <4>1. AttemptOK(b, st, Tail(s), r, up, i)
        BY <3>1, <3>2, <3>5, AttemptPassesBy
      <4> QED  BY <2>1, <3>3, <3>5, <4>1 DEF st, r, up
    <3> QED  BY <3>4, <3>5
  <2> QED  BY <2>3, <2>4
<1>6. ASSUME NEW q \in Providers, ServerLoses(q), stage[i] = "relay" PROVE Goal
  <2>1. /\ UNCHANGED <<inbox, started, run, cliUp>>
        /\ \A x \in Providers : x # q => toServer'[x] = toServer[x]
        /\ toServer'[q] = <<>> /\ ~srvUp'[q]
    BY <1>6, <1>t DEF ServerLoses, Typed, relayVars, runVars
  <2>2. CASE q # p
    <3>1. toServer'[p] = toServer[p]
      BY <1>2, <1>6, <2>1, <2>2
    <3> QED  BY <1>2, <1>6, <2>1, <3>1, AttemptKept
  <2>3. CASE q = p
    <3> DEFINE b == inbox[i]
               st == started[i]
               s == toServer[p]
               r == run[<<i, p>>]
               up == Up(p)
               up2 == Up(p)'
    <3>1. AttemptOK(b, st, s, r, up, i)
      BY <1>2, <1>6 DEF AnswerInv, Answering, Up
    <3>2. ~up2 /\ toServer'[p] = <<>>
      BY <2>1, <2>3 DEF Up
    <3> HIDE DEF b, st, s, r, up, up2
    <3>3. AttemptOK(b, st, <<>>, r, up2, i)
      BY <3>1, <3>2, AttemptCut
    <3> QED  BY <2>1, <3>2, <3>3 DEF b, st, r, up2
  <2> QED  BY <2>2, <2>3
<1>7. ASSUME NEW q \in Providers, ClientReads(q), stage[i] = "relay" PROVE Goal
  <2> DEFINE m == Head(toClient[q])
  <2>1. UNCHANGED <<inbox, started, toServer>>
    BY <1>7 DEF ClientReads, relayVars
  <2>2. toClient[q] \in Seq(Message) /\ toClient[q] # <<>>
    BY <1>7, <1>t DEF ClientReads, Typed
  <2>3. m = toClient[q][1] /\ 1 \in 1..Len(toClient[q])
    BY <2>2, Tailed
  <2>4. run' = run \/ (m.kind = "REQUEST" /\ run' = [run EXCEPT ![<<m.job, q>>] = "start"])
    BY <1>7 DEF ClientReads
  <2>5. m.kind = "REQUEST" => run[<<m.job, q>>] = "none"
    BY <2>3 DEF AnswerInv, SentOnce
  <2> HIDE DEF m
  <2>6. \/ run'[<<i, p>>] = run[<<i, p>>]
        \/ run[<<i, p>>] = "none" /\ run'[<<i, p>>] = "start"
    BY <1>2, <1>7, <1>t, <2>4, <2>5 DEF Typed
  <2> QED  BY <1>2, <1>7, <2>1, <2>6, AttemptKept
<1>8. ASSUME NEW j \in Jobs,
             \/ Submit(j) \/ SubmitterSends(j) \/ SubmitterLost(j) \/ Collect(j)
             \/ WatchCancel(j) \/ Acquiring(j) \/ AcquireFailed(j) \/ NewJob(j) \/ NoMore(j)
             \/ Leave(j),
             stage[i] = "relay"
      PROVE  Goal
  <2>1. UNCHANGED <<toServer, run>>
    BY <1>8 DEF Submit, SubmitterSends, SubmitterLost, Collect, WatchCancel, Acquiring,
         AcquireFailed, NewJob, NoMore, Leave, linkVars, runVars
  <2>2. inbox'[i] = inbox[i]
    <3>1. CASE NoMore(j)
      BY <1>8, <1>t, <3>1 DEF NoMore, Return, Typed
    <3> QED  BY <1>8, <3>1 DEF Submit, SubmitterSends, SubmitterLost, Collect, WatchCancel,
               Acquiring, AcquireFailed, NewJob, Leave, relayVars
  <2>3. started'[i] = started[i]
    <3>1. CASE Leave(j)
      BY <1>8, <1>t, <3>1 DEF Leave, Typed
    <3> QED  BY <1>8, <3>1 DEF Submit, SubmitterSends, SubmitterLost, Collect, WatchCancel,
               Acquiring, AcquireFailed, NewJob, NoMore, relayVars
  <2> QED  BY <1>3, <1>8, <2>1, <2>2, <2>3
<1>9. ASSUME \/ \E q \in Providers : Connect(q) \/ Unregister(q) \/ ClientLoses(q)
             \/ RelayRest \/ UNCHANGED rvars,
             stage[i] = "relay"
      PROVE  Goal
  <2>1. UNCHANGED <<inbox, started, toServer, run>>
    BY <1>9 DEF Connect, Unregister, ClientLoses, RelayRest, rvars, relayVars, linkVars, runVars
  <2> QED  BY <1>3, <1>9, <2>1
<1>10. ASSUME stage[i] = "relay" PROVE Goal
  <2>1. ASSUME NEW j \in Jobs, NEW q \in Providers,
               Take(j, q) \/ Refuse(j, q) \/ Upstream(j, q) \/ UpstreamFails(j, q) \/ Give(j, q)
        PROVE  Goal
    BY <1>2, <1>10, <2>1, ProviderStep
  <2> HIDE DEF Goal
  <2> QED  BY <1>4, <1>5, <1>6, <1>7, <1>8, <1>9, <1>10, <2>1 DEF RelayNext
<1>11. ASSUME stage[i] # "relay" PROVE NewJob(i)
  <2>1. ASSUME NEW j \in Jobs, \/ Submit(j) \/ Collect(j) \/ Acquiring(j) \/ AcquireFailed(j)
                               \/ Forward(j) \/ NoMore(j) \/ Leave(j)
        PROVE  FALSE
    <3>1. \/ stage' = stage
          \/ \E x \in Stages \ {"relay"} : stage' = [stage EXCEPT ![j] = x]
      BY <1>t, <2>1 DEF Submit, Collect, Acquiring, AcquireFailed, Forward, NoMore, Leave, Return, Stages
    <3> QED  BY <1>11, <1>t, <3>1
  <2>2. ASSUME NEW j \in Jobs, NewJob(j) PROVE j = i
    BY <1>11, <1>t, <2>2 DEF NewJob, Return
  <2>3. stage' # stage
    BY <1>11
  <2> QED
    BY <2>1, <2>2, <2>3, ElsewhereKeeps DEF RelayNext, Elsewhere
<1> QED  BY <1>1, <1>10, <1>11

-----------------------------------------------------------------------------
(* What the submitter hears. *)

(* Nothing is legal, and so is the answer that the server makes itself. *)
LEMMA LegalAnswers ==
  /\ Partial(<<>>) /\ Legal(<<>>)
  /\ Legal(Synthetic) /\ Whole(Synthetic) /\ Synthetic \in Seq(Kinds)
  /\ \A a \in Seq(Kinds) : Partial(a) => Legal(a)
<1>1. /\ Len(Synthetic) = 3 /\ Synthetic # <<>> /\ Synthetic[1] = "RESPONSE"
      /\ Synthetic[2] = "BODY" /\ Synthetic[3] = "END" /\ Synthetic \in Seq(Kinds)
  BY DEF Synthetic, Kinds
<1>2. \A i \in 1..Len(Synthetic) : i = 1 \/ i = 2 \/ i = 3
  BY <1>1
<1>3. Legal(Synthetic) /\ Whole(Synthetic)
  BY <1>1, <1>2 DEF Legal, Whole, Terminal
<1>4. Partial(<<>>) /\ Legal(<<>>)
  BY DEF Partial, Legal, Whole
<1> QED  BY <1>1, <1>3, <1>4 DEF Partial

(* One more message of an answer that is not at its end. *)
LEMMA LegalAppend ==
  ASSUME NEW a \in Seq(Kinds), Partial(a), NEW k \in Kinds, k = "RESPONSE" <=> a = <<>>
  PROVE  /\ Legal(a \o <<k>>) /\ a \o <<k>> # <<>>
         /\ Whole(a \o <<k>>) <=> k \in Terminal
<1> DEFINE c == a \o <<k>>
<1>1. /\ Len(a) \in Nat /\ Len(c) = Len(a) + 1 /\ c # <<>>
      /\ \A i \in 1..Len(a) : c[i] = a[i]
      /\ c[Len(a) + 1] = k
  OBVIOUS
<1>2. a = <<>> <=> Len(a) = 0
  BY EmptySeq
<1> HIDE DEF c
<1>3. Whole(c) <=> k \in Terminal
  BY <1>1 DEF Whole
<1>4. ASSUME NEW i \in 1..Len(c)
      PROVE  (i = 1 <=> c[i] = "RESPONSE") /\ (c[i] \in Terminal => i = Len(c))
  <2>1. CASE i \in 1..Len(a)
    <3>1. c[i] = a[i] /\ a # <<>>
      BY <1>1, <1>2, <2>1
    <3>2. a[i] \notin Terminal
      BY <2>1, <3>1 DEF Partial, Legal, Whole
    <3> QED  BY <2>1, <3>1, <3>2 DEF Partial, Legal
  <2>2. CASE i = Len(a) + 1
    BY <1>1, <1>2, <2>2
  <2> QED  BY <1>1, <2>1, <2>2
<1> QED  BY <1>1, <1>3, <1>4 DEF Legal, c

(* What a submitter who is there hears, and what one who is not. *)
LEMMA Hears ==
  ASSUME Typed, NEW j \in Jobs, NEW ks \in Seq(Kinds), Said(j, ks)
  PROVE  /\ answer'[j] = IF subUp[j] THEN answer[j] \o ks ELSE answer[j]
         /\ \A i \in Jobs : i # j => answer'[i] = answer[i]
BY DEF Said, Typed

(* The steps of the relay of one job. *)
LEMMA HeardOne ==
  ASSUME Heard, NEW j \in Jobs,
         \A i \in Jobs : i # j => /\ stage'[i] = stage[i] /\ outcome'[i] = outcome[i]
                                  /\ started'[i] = started[i] /\ answer'[i] = answer[i]
                                  /\ inbox'[i] = inbox[i],
         HeardOK(stage'[j], outcome'[j], started'[j], answer'[j], inbox'[j])
  PROVE  Heard'
BY DEF Heard

(* Every step keeps what the submitter hears legal. *)
LEMMA HeardStep ==
  ASSUME SlotInv, StageInv, AnswerInv, [RelayNext]_rvars
  PROVE  Heard'
<1>t. Typed /\ stage \in [Jobs -> Stages] /\ Heard
  BY DEF AnswerInv, StageInv
<1>1. CASE UNCHANGED <<stage, outcome, started, answer, inbox>>
  BY <1>1, <1>t DEF Heard
<1>2. ASSUME NEW j \in Jobs, Submit(j) \/ Collect(j) \/ Acquiring(j) PROVE Heard'
  <2>1. /\ \A i \in Jobs : i # j => stage'[i] = stage[i]
        /\ UNCHANGED <<outcome, started, answer, inbox>>
        /\ stage[j] \in {"idle", "collect", "acquire"}
        /\ stage'[j] \in {"collect", "acquire", "newJob", "ended"}
    BY <1>2, <1>t DEF Submit, Collect, Acquiring
  <2>2. HeardOK(stage'[j], outcome'[j], started'[j], answer'[j], inbox'[j])
    BY <1>t, <2>1, LegalAnswers DEF Heard, HeardOK
  <2> QED  BY <1>t, <2>1, <2>2, HeardOne
<1>3. ASSUME NEW j \in Jobs, AcquireFailed(j) PROVE Heard'
  <2>1. /\ \A i \in Jobs : i # j => stage'[i] = stage[i] /\ answer'[i] = answer[i]
        /\ UNCHANGED <<outcome, started, inbox>>
        /\ stage[j] = "acquire" /\ stage'[j] = "ended"
        /\ answer'[j] = answer[j] \/ answer'[j] = answer[j] \o Synthetic
    BY <1>3, <1>t, LegalAnswers, Hears DEF AcquireFailed
  <2>2. answer[j] = <<>> /\ <<>> \o Synthetic = Synthetic
    BY <1>t, <2>1, LegalAnswers DEF Heard, HeardOK
  <2>3. HeardOK(stage'[j], outcome'[j], started'[j], answer'[j], inbox'[j])
    BY <2>1, <2>2, LegalAnswers DEF HeardOK
  <2> QED  BY <1>t, <2>1, <2>3, HeardOne
<1>4. ASSUME NEW j \in Jobs, NewJob(j) PROVE Heard'
  <2>1. /\ \A i \in Jobs : i # j => stage'[i] = stage[i] /\ outcome'[i] = outcome[i]
        /\ UNCHANGED <<answer, started, inbox>>
        /\ stage[j] = "newJob"
        /\ stage'[j] = "relay" \/ (stage'[j] = "leave" /\ outcome'[j] = "gone")
    BY <1>4, <1>t DEF NewJob, Return, Typed
  <2>2. HeardOK(stage'[j], outcome'[j], started'[j], answer'[j], inbox'[j])
    BY <1>t, <2>1, LegalAnswers DEF Heard, HeardOK
  <2> QED  BY <1>t, <2>1, <2>2, HeardOne
<1>5. ASSUME NEW j \in Jobs, Forward(j) PROVE Heard'
  <2> DEFINE k == Head(inbox[j])
             a == answer[j]
             st == started[j]
  <2>0. /\ stage[j] = "relay" /\ inbox[j] # <<>> /\ inbox[j] \in Seq(Kinds)
        /\ a \in Seq(Kinds) /\ st \in BOOLEAN /\ k \in Kinds /\ <<k>> \in Seq(Kinds)
    BY <1>5, <1>t DEF Forward, Typed
  <2>1. \A i \in Jobs : i # j => /\ stage'[i] = stage[i] /\ outcome'[i] = outcome[i]
                                 /\ started'[i] = started[i] /\ inbox'[i] = inbox[i]
    BY <1>5, <1>t DEF Forward, Return, Typed
  <2>2. \A i \in Jobs : i # j => answer'[i] = answer[i]
    BY <1>5, <1>t, <2>0, Hears DEF Forward
  <2>3. started'[j] = (st \/ k = "RESPONSE") /\ inbox'[j] = (IF stage'[j] = "relay" THEN Tail(inbox[j]) ELSE <<>>)
    BY <1>5, <1>t DEF Forward, Typed
  <2>4. \/ k = "FAIL" /\ ~st /\ stage'[j] = "leave" /\ outcome'[j] = "failed" /\ answer'[j] = a
        \/ stage'[j] = "leave" /\ outcome'[j] = "cancelled" /\ answer'[j] = a
        \/ /\ k # "FAIL" \/ st
           /\ answer'[j] = a \o <<k>>
           /\ \/ k \in Terminal /\ stage'[j] = "leave" /\ outcome'[j] = "done"
              \/ k \notin Terminal /\ stage'[j] = "relay"
    BY <1>5, <1>t, <2>0, Hears DEF Forward, Return, Typed
  <2>5. Partial(a) /\ (st <=> a # <<>>) /\ Legal(a)
    BY <1>t, <2>0 DEF Heard, HeardOK, Partial
  <2>6. AttemptOK(inbox[j], st, toServer[lease[j]], run[<<j, lease[j]>>], Up(lease[j]), j)
    BY <2>0 DEF AnswerInv, Answering, Up
  <2>7. /\ k # "FAIL" \/ st => (k = "RESPONSE" <=> ~st)
        /\ k \in Replies
    <3>1. 1 \in 1..Len(inbox[j]) /\ k = inbox[j][1]
      BY <2>0, Tailed
    <3> QED  BY <2>0, <2>6, <3>1 DEF AttemptOK, InboxOK, Replies
  <2> HIDE DEF k, a, st
  <2>8. k # "FAIL" \/ st => Legal(a \o <<k>>) /\ a \o <<k>> # <<>> /\ (Whole(a \o <<k>>) <=> k \in Terminal)
    BY <2>0, <2>5, <2>7, LegalAppend
  <2>9. HeardOK(stage'[j], outcome'[j], started'[j], answer'[j], inbox'[j])
    BY <2>0, <2>3, <2>4, <2>5, <2>7, <2>8 DEF HeardOK, Partial, Terminal
  <2> QED  BY <1>t, <2>1, <2>2, <2>9, HeardOne
<1>6. ASSUME NEW j \in Jobs, NoMore(j) PROVE Heard'
  <2>1. /\ \A i \in Jobs : i # j => /\ stage'[i] = stage[i] /\ outcome'[i] = outcome[i]
                                    /\ inbox'[i] = inbox[i]
        /\ UNCHANGED <<answer, started>>
        /\ stage[j] = "relay" /\ stage'[j] = "leave" /\ outcome'[j] \in {"cancelled", "gone"}
        /\ inbox'[j] = <<>>
    BY <1>6, <1>t DEF NoMore, Return, Typed
  <2>2. HeardOK(stage'[j], outcome'[j], started'[j], answer'[j], inbox'[j])
    BY <1>t, <2>1 DEF Heard, HeardOK, Partial
  <2> QED  BY <1>t, <2>1, <2>2, HeardOne
<1>7. ASSUME NEW j \in Jobs, Leave(j) PROVE Heard'
  <2>1. /\ \A i \in Jobs : i # j => /\ stage'[i] = stage[i] /\ outcome'[i] = outcome[i]
                                    /\ started'[i] = started[i]
        /\ inbox' = inbox /\ stage[j] = "leave" /\ ~started'[j]
    BY <1>7, <1>t DEF Leave, Typed
  <2>2. /\ <<"FAIL">> \in Seq(Kinds) /\ "FAIL" \in Kinds /\ Synthetic \in Seq(Kinds)
        /\ answer[j] \in Seq(Kinds)
    BY <1>t, LegalAnswers DEF Kinds, Typed
  <2>3. \A i \in Jobs : i # j => answer'[i] = answer[i]
    BY <1>7, <1>t, <2>2, Hears DEF Leave
  <2>4. \/ /\ outcome[j] \in {"done", "cancelled"} /\ stage'[j] = "ended" /\ answer'[j] = answer[j]
        \/ /\ outcome[j] = "gone" /\ started[j] /\ stage'[j] = "ended"
           /\ answer'[j] \in {answer[j], answer[j] \o <<"FAIL">>}
        \/ /\ outcome[j] = "gone" /\ ~started[j] /\ stage'[j] = "acquire" /\ answer'[j] = answer[j]
        \/ /\ outcome[j] = "failed" /\ stage'[j] = "ended"
           /\ answer'[j] \in {answer[j], answer[j] \o Synthetic}
    BY <1>7, <1>t, <2>2, Hears DEF Leave
  <2>5. HeardOK(stage[j], outcome[j], started[j], answer[j], inbox[j])
    BY <1>t DEF Heard
  <2>6. /\ inbox[j] = <<>> /\ Legal(answer[j])
        /\ outcome[j] = "gone" => Partial(answer[j]) /\ (started[j] <=> answer[j] # <<>>)
        /\ outcome[j] = "failed" => answer[j] = <<>>
    BY <2>1, <2>5 DEF HeardOK
  <2>7. outcome[j] = "gone" /\ started[j] => Legal(answer[j] \o <<"FAIL">>)
    BY <2>2, <2>6, LegalAppend
  <2>8. outcome[j] = "failed" => Legal(answer[j] \o Synthetic)
    <3>1. <<>> \o Synthetic = Synthetic
      BY <2>2
    <3> QED  BY <2>6, <3>1, LegalAnswers
  <2>9. HeardOK(stage'[j], outcome'[j], started'[j], answer'[j], inbox'[j])
    BY <2>1, <2>4, <2>6, <2>7, <2>8 DEF HeardOK
  <2> QED  BY <1>t, <2>1, <2>3, <2>9, HeardOne
<1>8. ASSUME NEW p \in Providers, ServerReads(p) PROVE Heard'
  <2>1. UNCHANGED <<stage, outcome, started, answer>>
    BY <1>8 DEF ServerReads
  <2>2. \A i \in Jobs : inbox'[i] = inbox[i] \/ stage[i] = "relay"
    <3> DEFINE m == Head(toServer[p])
    <3>1. \/ inbox' = inbox
          \/ stage[m.job] = "relay" /\ inbox' = [inbox EXCEPT ![m.job] = Append(@, m.kind)]
      BY <1>8 DEF ServerReads
    <3> HIDE DEF m
    <3> QED  BY <1>t, <3>1 DEF Typed
  <2> QED  BY <1>t, <2>1, <2>2 DEF Heard, HeardOK
<1>9. ASSUME Elsewhere PROVE Heard'
  BY <1>1, <1>8, <1>9, ElsewhereKeeps
<1> QED
  BY <1>1, <1>2, <1>3, <1>4, <1>5, <1>6, <1>7, <1>9 DEF RelayNext, Elsewhere

(* The submitter who has left does not come back. *)
LEMMA LeftKept ==
  ASSUME Typed, [RelayNext]_rvars, NEW i \in Jobs, Left(i)
  PROVE  Left(i)'
<1>1. ASSUME NEW j \in Jobs, SubmitterSends(j) \/ SubmitterLost(j) PROVE Left(i)'
  BY <1>1 DEF SubmitterSends, SubmitterLost, Left, Typed
<1>2. CASE UNCHANGED <<subUp, got>>
  BY <1>2 DEF Left
<1>3. ASSUME NEW j \in Jobs,
             \/ Submit(j) \/ Collect(j) \/ WatchCancel(j) \/ Acquiring(j) \/ AcquireFailed(j)
             \/ NewJob(j) \/ Forward(j) \/ NoMore(j) \/ Leave(j)
      PROVE  UNCHANGED <<subUp, got>>
  BY <1>3 DEF Submit, Collect, WatchCancel, Acquiring, AcquireFailed, NewJob, Forward, NoMore,
       Leave, relayVars
<1>4. ASSUME NEW p \in Providers, \/ Connect(p) \/ ServerReads(p) \/ ServerLoses(p)
                                  \/ Unregister(p) \/ ClientLoses(p) \/ ClientReads(p)
      PROVE  UNCHANGED <<subUp, got>>
  BY <1>4 DEF Connect, ServerReads, ServerLoses, Unregister, ClientLoses, ClientReads, relayVars
<1>5. ASSUME NEW j \in Jobs, NEW p \in Providers,
             Take(j, p) \/ Refuse(j, p) \/ Upstream(j, p) \/ UpstreamFails(j, p) \/ Give(j, p)
      PROVE  UNCHANGED <<subUp, got>>
  BY <1>5 DEF Take, Refuse, Upstream, UpstreamFails, Give, relayVars
<1>6. CASE RelayRest \/ UNCHANGED rvars
  BY <1>2, <1>6 DEF RelayRest, rvars, relayVars
<1> QED  BY <1>1, <1>2, <1>3, <1>4, <1>5, <1>6 DEF RelayNext

(* Only watchCancel cancels a job, and only when its submitter has left. *)
LEMMA CancelledKept ==
  ASSUME SlotInv, Typed, GivenUp, [RelayNext]_rvars, NEW i \in Jobs, cancelled'[i]
  PROVE  Left(i)'
<1>t. TypeOK
  BY DEF SlotInv, HandoverInv
<1>1. ASSUME NEW j \in Jobs, WatchCancel(j) PROVE Left(i)
  <2>1. j # i => cancelled[i]
    BY <1>1, <1>t DEF WatchCancel, Cancel, TypeOK
  <2> QED  BY <1>1, <2>1 DEF WatchCancel, GivenUp, Left
<1>2. ASSUME cancelled' = cancelled PROVE Left(i)
  BY <1>2 DEF GivenUp
<1>3. ASSUME NEW j \in Jobs, Submit(j) \/ Acquiring(j) \/ Leave(j) PROVE cancelled' = cancelled
  BY <1>3 DEF Submit, Acquiring, Leave, Arrive, AcquireFree, AcquireWait, Receive, GiveUp,
       AbandonQueued, AbandonLate, Drain, Release, GiveBack
<1>4. ASSUME NEW p \in Providers, Connect(p) \/ Unregister(p) PROVE cancelled' = cancelled
  BY <1>4 DEF Connect, Unregister, AddProvider, RemoveProvider
<1>5. ASSUME NEW j \in Jobs,
             \/ SubmitterSends(j) \/ SubmitterLost(j) \/ Collect(j) \/ AcquireFailed(j)
             \/ NewJob(j) \/ Forward(j) \/ NoMore(j)
      PROVE  cancelled' = cancelled
  BY <1>5 DEF SubmitterSends, SubmitterLost, Collect, AcquireFailed, NewJob, Forward, NoMore, vars
<1>6. ASSUME NEW p \in Providers, ServerReads(p) \/ ServerLoses(p) \/ ClientLoses(p) \/ ClientReads(p)
      PROVE  cancelled' = cancelled
  BY <1>6 DEF ServerReads, ServerLoses, ClientLoses, ClientReads, vars
<1>7. ASSUME NEW j \in Jobs, NEW p \in Providers,
             Take(j, p) \/ Refuse(j, p) \/ Upstream(j, p) \/ UpstreamFails(j, p) \/ Give(j, p)
      PROVE  cancelled' = cancelled
  BY <1>7 DEF Take, Refuse, Upstream, UpstreamFails, Give, vars
<1>8. ASSUME RelayRest \/ UNCHANGED rvars PROVE cancelled' = cancelled
  BY <1>8 DEF RelayRest, rvars, vars
<1>9. Left(i)
  BY <1>1, <1>2, <1>3, <1>4, <1>5, <1>6, <1>7, <1>8 DEF RelayNext
<1> QED  BY <1>9, LeftKept

(* How a relay ends, and how its dispatch returned. *)
LEMMA WhyEnded ==
  ASSUME SlotInv, StageInv, AnswerInv, [RelayNext]_rvars, NEW i \in Jobs
  PROVE  /\ stage'[i] = "leave" =>
              \/ /\ stage[i] = "leave" /\ outcome'[i] = outcome[i] /\ answer'[i] = answer[i]
              \/ outcome'[i] \in {"gone", "failed"}
              \/ outcome'[i] = "cancelled" /\ Left(i)
              \/ outcome'[i] = "done" /\ Whole(answer'[i])
         /\ stage'[i] = "ended" =>
              \/ stage[i] = "ended" /\ answer'[i] = answer[i]
              \/ stage[i] = "leave" /\ outcome[i] \in {"done", "cancelled"} /\ answer'[i] = answer[i]
              \/ Left(i)
              \/ Whole(answer'[i])
<1> DEFINE Goal ==
         /\ stage'[i] = "leave" =>
              \/ /\ stage[i] = "leave" /\ outcome'[i] = outcome[i] /\ answer'[i] = answer[i]
              \/ outcome'[i] \in {"gone", "failed"}
              \/ outcome'[i] = "cancelled" /\ Left(i)
              \/ outcome'[i] = "done" /\ Whole(answer'[i])
         /\ stage'[i] = "ended" =>
              \/ stage[i] = "ended" /\ answer'[i] = answer[i]
              \/ stage[i] = "leave" /\ outcome[i] \in {"done", "cancelled"} /\ answer'[i] = answer[i]
              \/ Left(i)
              \/ Whole(answer'[i])
<1>t. Typed /\ stage \in [Jobs -> Stages] /\ Heard /\ GivenUp
  BY DEF AnswerInv, StageInv
<1>h. HeardOK(stage[i], outcome[i], started[i], answer[i], inbox[i])
  BY <1>t DEF Heard
<1>k. /\ <<"FAIL">> \in Seq(Kinds) /\ "FAIL" \in Kinds /\ Synthetic \in Seq(Kinds)
      /\ <<>> \o Synthetic = Synthetic /\ Whole(Synthetic) /\ answer[i] \in Seq(Kinds)
  BY <1>t, LegalAnswers DEF Kinds, Typed
<1>1. ASSUME stage'[i] = stage[i], outcome'[i] = outcome[i], answer'[i] = answer[i] PROVE Goal
  BY <1>1
<1>2. ASSUME NEW j \in Jobs, Submit(j) \/ Collect(j) \/ Acquiring(j) PROVE Goal
  <2>1. j # i => stage'[i] = stage[i]
    BY <1>2, <1>t DEF Submit, Collect, Acquiring
  <2>2. UNCHANGED <<outcome, answer>>
    BY <1>2 DEF Submit, Collect, Acquiring
  <2>3. CASE j = i
    BY <1>2, <1>t, <2>3 DEF Submit, Collect, Acquiring, Left
  <2> QED  BY <1>1, <2>1, <2>2, <2>3
<1>3. ASSUME NEW j \in Jobs, AcquireFailed(j) PROVE Goal
  <2>1. CASE j # i
    <3>1. stage'[i] = stage[i] /\ outcome'[i] = outcome[i] /\ answer'[i] = answer[i]
      BY <1>3, <1>k, <1>t, <2>1, Hears DEF AcquireFailed
    <3> QED  BY <1>1, <3>1
  <2>2. CASE j = i
    <3>1. stage'[i] = "ended" /\ answer[i] = <<>>
      BY <1>3, <1>h, <1>t, <2>2 DEF AcquireFailed, HeardOK
    <3>2. CASE cancelled[i] \/ ~subUp[i]
      BY <1>t, <3>1, <3>2 DEF GivenUp, Left
    <3>3. CASE ~cancelled[i] /\ subUp[i]
      <4>1. answer'[i] = answer[i] \o Synthetic
        BY <1>3, <1>k, <1>t, <2>2, <3>3, Hears DEF AcquireFailed
      <4> QED  BY <1>k, <3>1, <4>1
    <3> QED  BY <3>2, <3>3
  <2> QED  BY <2>1, <2>2
<1>4. ASSUME NEW j \in Jobs, NewJob(j) PROVE Goal
  <2>1. j # i => stage'[i] = stage[i] /\ outcome'[i] = outcome[i]
    BY <1>4, <1>t DEF NewJob, Return, Typed
  <2>2. answer' = answer
    BY <1>4 DEF NewJob
  <2>3. j = i => stage'[i] = "relay" \/ (stage'[i] = "leave" /\ outcome'[i] = "gone")
    BY <1>4, <1>t DEF NewJob, Return, Typed
  <2> QED  BY <1>1, <2>1, <2>2, <2>3
<1>5. ASSUME NEW j \in Jobs, Forward(j) PROVE Goal
  <2>0. inbox[j] \in Seq(Kinds) /\ inbox[j] # <<>> /\ <<Head(inbox[j])>> \in Seq(Kinds)
    BY <1>5, <1>t DEF Forward, Typed
  <2>1. CASE j # i
    <3>1. stage'[i] = stage[i] /\ outcome'[i] = outcome[i]
      BY <1>5, <1>t, <2>1 DEF Forward, Return, Typed
    <3>2. answer'[i] = answer[i]
      BY <1>5, <1>t, <2>0, <2>1, Hears DEF Forward
    <3> QED  BY <1>1, <3>1, <3>2
  <2>2. CASE j = i
    <3> DEFINE k == Head(inbox[i])
    <3>1. \/ stage'[i] = "leave" /\ outcome'[i] = "failed"
          \/ stage'[i] = "leave" /\ outcome'[i] = "cancelled" /\ ~subUp[i]
          \/ stage'[i] = "relay"
          \/ /\ stage'[i] = "leave" /\ outcome'[i] = "done" /\ k \in Terminal
             /\ answer'[i] = answer[i] \o <<k>>
      BY <1>5, <1>t, <2>0, <2>2, Hears DEF Forward, Return, Typed
    <3>2. k \in Terminal => Whole(answer[i] \o <<k>>)
      <4> SUFFICES ASSUME k \in Terminal PROVE Whole(answer[i] \o <<k>>)
        OBVIOUS
      <4>1. /\ Len(answer[i]) \in Nat /\ Len(answer[i] \o <<k>>) = Len(answer[i]) + 1
            /\ (answer[i] \o <<k>>)[Len(answer[i]) + 1] = k
            /\ answer[i] \o <<k>> # <<>>
        BY <1>k
      <4> QED  BY <4>1 DEF Whole
    <3> QED  BY <3>1, <3>2 DEF Left
  <2> QED  BY <2>1, <2>2
<1>6. ASSUME NEW j \in Jobs, NoMore(j) PROVE Goal
  <2>1. j # i => stage'[i] = stage[i] /\ outcome'[i] = outcome[i]
    BY <1>6, <1>t DEF NoMore, Return, Typed
  <2>2. answer' = answer
    BY <1>6 DEF NoMore
  <2>3. j = i => /\ stage'[i] = "leave"
                 /\ outcome'[i] = "gone" \/ (outcome'[i] = "cancelled" /\ cancelled[i])
    BY <1>6, <1>t DEF NoMore, Return, Typed
  <2> QED  BY <1>1, <1>t, <2>1, <2>2, <2>3 DEF GivenUp
<1>7. ASSUME NEW j \in Jobs, Leave(j) PROVE Goal
  <2>1. CASE j # i
    <3>1. stage'[i] = stage[i] /\ outcome'[i] = outcome[i]
      BY <1>7, <1>t, <2>1 DEF Leave, Typed
    <3>2. answer'[i] = answer[i]
      BY <1>7, <1>k, <1>t, <2>1, Hears DEF Leave
    <3> QED  BY <1>1, <3>1, <3>2
  <2>2. CASE j = i
    <3>1. \/ outcome[i] \in {"done", "cancelled"} /\ stage'[i] = "ended" /\ answer'[i] = answer[i]
          \/ stage'[i] = "acquire"
          \/ /\ stage'[i] = "ended" /\ outcome[i] = "gone" /\ started[i]
             /\ ~subUp[i] \/ answer'[i] = answer[i] \o <<"FAIL">>
          \/ /\ stage'[i] = "ended" /\ outcome[i] = "failed"
             /\ ~subUp[i] \/ answer'[i] = answer[i] \o Synthetic
      BY <1>7, <1>k, <1>t, <2>2, Hears DEF Leave
    <3>2. stage[i] = "leave"
      BY <1>7, <2>2 DEF Leave
    <3>3. outcome[i] = "gone" /\ started[i] => Whole(answer[i] \o <<"FAIL">>)
      <4> SUFFICES ASSUME outcome[i] = "gone", started[i] PROVE Whole(answer[i] \o <<"FAIL">>)
        OBVIOUS
      <4>1. Partial(answer[i]) /\ answer[i] # <<>>
        BY <1>h, <3>2 DEF HeardOK
      <4>2. "FAIL" = "RESPONSE" <=> answer[i] = <<>>
        BY <4>1
      <4> QED  BY <1>k, <4>1, <4>2, LegalAppend DEF Terminal
    <3>4. outcome[i] = "failed" => Whole(answer[i] \o Synthetic)
      BY <1>h, <1>k, <3>2 DEF HeardOK
    <3> QED  BY <3>1, <3>2, <3>3, <3>4 DEF Left
  <2> QED  BY <2>1, <2>2
<1>8. ASSUME Elsewhere PROVE UNCHANGED <<stage, outcome, answer>>
  BY <1>8, ElsewhereKeeps
<1>9. Goal
  <2> HIDE DEF Goal
  <2> QED  BY <1>1, <1>2, <1>3, <1>4, <1>5, <1>6, <1>7, <1>8 DEF RelayNext, Elsewhere
<1> QED  BY <1>9

(* Every step keeps it that only a submitter who left is left without an end. *)
LEMMA GivenUpStep ==
  ASSUME SlotInv, StageInv, AnswerInv, [RelayNext]_rvars
  PROVE  GivenUp'
<1>t. Typed /\ GivenUp
  BY DEF AnswerInv
<1> SUFFICES ASSUME NEW i \in Jobs
             PROVE  /\ cancelled'[i] => Left(i)'
                    /\ stage'[i] = "leave" /\ outcome'[i] = "cancelled" => Left(i)'
                    /\ stage'[i] = "leave" /\ outcome'[i] = "done" => Left(i)' \/ Whole(answer'[i])
                    /\ stage'[i] = "ended" => Left(i)' \/ Whole(answer'[i])
  BY DEF GivenUp
<1>1. cancelled'[i] => Left(i)'
  BY <1>t, CancelledKept
<1>2. Left(i) => Left(i)'
  BY <1>t, LeftKept
<1>3. /\ stage[i] = "leave" /\ outcome[i] = "cancelled" => Left(i)
      /\ stage[i] = "leave" /\ outcome[i] = "done" => Left(i) \/ Whole(answer[i])
      /\ stage[i] = "ended" => Left(i) \/ Whole(answer[i])
  BY <1>t DEF GivenUp
<1>4. /\ stage'[i] = "leave" =>
           \/ /\ stage[i] = "leave" /\ outcome'[i] = outcome[i] /\ answer'[i] = answer[i]
           \/ outcome'[i] \in {"gone", "failed"}
           \/ outcome'[i] = "cancelled" /\ Left(i)
           \/ outcome'[i] = "done" /\ Whole(answer'[i])
      /\ stage'[i] = "ended" =>
           \/ stage[i] = "ended" /\ answer'[i] = answer[i]
           \/ stage[i] = "leave" /\ outcome[i] \in {"done", "cancelled"} /\ answer'[i] = answer[i]
           \/ Left(i)
           \/ Whole(answer'[i])
  BY WhyEnded
<1> QED  BY <1>1, <1>2, <1>3, <1>4

(* A provider that has ended a job stays so. *)
LEMMA ThroughKept ==
  ASSUME Typed, SentOnce, [RelayNext]_rvars, NEW i \in Jobs, NEW q \in Providers, Through(i, q)
  PROVE  Through(i, q)'
<1>1. ASSUME NEW p \in Providers, ClientReads(p) PROVE Through(i, q)'
  <2> DEFINE m == Head(toClient[p])
  <2>1. toClient[p] \in Seq(Message) /\ toClient[p] # <<>>
    BY <1>1 DEF ClientReads, Typed
  <2>2. Len(toClient[p]) \in Nat \ {0} /\ m = toClient[p][1] /\ m \in Message
    BY <2>1, Tailed
  <2>3. m.kind = "REQUEST" => run[<<m.job, p>>] = "none"
    BY <2>2 DEF SentOnce
  <2>4. run' = run \/ (m.kind = "REQUEST" /\ run' = [run EXCEPT ![<<m.job, p>>] = "start"])
    BY <1>1 DEF ClientReads
  <2>5. m.job \in Jobs
    BY <2>2 DEF Message
  <2> HIDE DEF m
  <2>6. run'[<<i, q>>] = run[<<i, q>>] \/ run[<<i, q>>] = "none"
    BY <2>3, <2>4, <2>5 DEF Typed
  <2> QED  BY <2>6 DEF Through
<1>2. ASSUME NEW j \in Jobs, NEW p \in Providers,
             Take(j, p) \/ Refuse(j, p) \/ Upstream(j, p) \/ UpstreamFails(j, p) \/ Give(j, p)
      PROVE  Through(i, q)'
  <2>1. \E r \in Runs : /\ run' = [run EXCEPT ![<<j, p>>] = r]
                        /\ run[<<j, p>>] \in {"giving", "over"} => r = "over"
    BY <1>2 DEF Take, Refuse, Upstream, UpstreamFails, Give, Runs
  <2> QED  BY <2>1 DEF Through, Typed
<1>3. CASE run' = run
  BY <1>3 DEF Through
<1> QED
  BY <1>1, <1>2, <1>3 DEF RelayNext, Submit, SubmitterSends, SubmitterLost, Collect, WatchCancel,
     Acquiring, AcquireFailed, NewJob, Forward, NoMore, Leave, Connect, ServerReads, ServerLoses,
     Unregister, ClientLoses, RelayRest, rvars, runVars

(* Every step keeps half a job quiet. *)
LEMMA HalvesStep ==
  ASSUME SlotInv, StageInv, AnswerInv, [RelayNext]_rvars
  PROVE  Halves'
<1>t. Typed /\ SentOnce /\ OneAttempt /\ Halves
  BY DEF AnswerInv
<1> SUFFICES ASSUME NEW q \in Providers, NEW i \in half'[q]
             PROVE  /\ run'[<<i, q>>] \notin {"head", "body"}
                    /\ \A k \in 1..Len(toServer'[q]) : toServer'[q][k].job = i =>
                         toServer'[q][k].kind = "FAIL" /\ Through(i, q)'
  BY DEF Halves
<1> DEFINE s == toServer[q]
           t == toServer'[q]
<1>1. CASE i \notin half[q]
  <2>1. /\ NewJob(i) /\ stage[i] = "newJob" /\ srvUp[q] /\ ~Broken(q) /\ i \in Jobs
    BY <1>1, <1>t, HalfStep
  <2>2. ~Touched(i, q)
    BY <1>t, <2>1 DEF OneAttempt, Broken
  <2>3. UNCHANGED <<toServer, run>>
    BY <2>1 DEF NewJob, runVars
  <2> QED  BY <2>2, <2>3 DEF Touched, Speaks
<1>2. CASE i \in half[q]
  <2>0. i \in Jobs /\ s \in Seq(Message)
    BY <1>2, <1>t DEF Typed
  <2>1. /\ run[<<i, q>>] \notin {"head", "body"}
        /\ \A k \in 1..Len(s) : s[k].job = i => s[k].kind = "FAIL" /\ Through(i, q)
    BY <1>2, <1>t DEF Halves
  <2>2. Through(i, q) => Through(i, q)'
    BY <1>t, <2>0, ThroughKept
  <2>3. ASSUME t = s, run'[<<i, q>>] \notin {"head", "body"}
        PROVE  /\ run'[<<i, q>>] \notin {"head", "body"}
               /\ \A k \in 1..Len(t) : t[k].job = i => t[k].kind = "FAIL" /\ Through(i, q)'
    BY <2>1, <2>2, <2>3
  <2>4. CASE UNCHANGED <<toServer, run>>
    BY <2>1, <2>3, <2>4
  <2>5. ASSUME NEW p \in Providers, ServerReads(p) \/ ServerLoses(p)
        PROVE  /\ run'[<<i, q>>] \notin {"head", "body"}
               /\ \A k \in 1..Len(t) : t[k].job = i => t[k].kind = "FAIL" /\ Through(i, q)'
    <3>1. run' = run /\ (t = s \/ t = <<>> \/ (s # <<>> /\ t = Tail(s)))
      BY <1>t, <2>5 DEF ServerReads, ServerLoses, runVars, Typed
    <3>2. CASE s # <<>> /\ t = Tail(s)
      <4>1. \A k \in 1..Len(Tail(s)) : k + 1 \in 1..Len(s) /\ Tail(s)[k] = s[k + 1]
        BY <2>0, <3>2, Tailed
      <4> QED  BY <2>1, <2>2, <3>1, <3>2, <4>1
    <3> QED  BY <2>1, <2>2, <3>1, <3>2
  <2>6. ASSUME NEW p \in Providers, ClientReads(p)
        PROVE  t = s /\ run'[<<i, q>>] \notin {"head", "body"}
    BY <1>t, <2>0, <2>1, <2>6 DEF ClientReads, Typed
  <2>7. ASSUME NEW j \in Jobs, NEW p \in Providers, Take(j, p) \/ Refuse(j, p) \/ Give(j, p)
        PROVE  t = s /\ run'[<<i, q>>] \notin {"head", "body"}
    BY <1>t, <2>0, <2>1, <2>7 DEF Take, Refuse, Give, linkVars, Typed
  <2>8. ASSUME NEW j \in Jobs, NEW p \in Providers, Upstream(j, p) \/ UpstreamFails(j, p)
        PROVE  /\ run'[<<i, q>>] \notin {"head", "body"}
               /\ \A k \in 1..Len(t) : t[k].job = i => t[k].kind = "FAIL" /\ Through(i, q)'
    <3>1. \E r \in Runs : /\ run' = [run EXCEPT ![<<j, p>>] = r]
                          /\ UpstreamFails(j, p) => r = "giving"
      BY <2>8 DEF Upstream, UpstreamFails, Runs
    <3>2. i = j /\ q = p => UpstreamFails(j, p)
      BY <1>2, <2>8 DEF Upstream
    <3>3. /\ run'[<<i, q>>] \notin {"head", "body"}
          /\ i = j /\ q = p => Through(i, q)'
      BY <1>t, <2>0, <2>1, <3>1, <3>2 DEF Typed, Through
    <3>4. \A k \in Kinds : Msg(j, k) \in Message /\ Msg(j, k).job = j /\ Msg(j, k).kind = k
      BY MsgType
    <3>5. \/ toServer' = toServer
          \/ \E k \in Kinds : SendToServer(p, Msg(j, k)) /\ (UpstreamFails(j, p) => k = "FAIL")
      BY <2>8 DEF Upstream, UpstreamFails, Kinds
    <3>6. CASE t = s
      BY <2>3, <3>3, <3>6
    <3>7. CASE t # s
      <4>1. PICK k \in Kinds : SendToServer(p, Msg(j, k)) /\ (UpstreamFails(j, p) => k = "FAIL")
        BY <3>5, <3>7
      <4> DEFINE m == Msg(j, k)
      <4>2. m \in Message /\ m.job = j /\ m.kind = k
        BY <3>4
      <4>3. q = p /\ t = Append(s, m)
        BY <1>t, <3>7, <4>1, <4>2, SendsTo
      <4> HIDE DEF m
      <4>4. /\ Len(s) \in Nat /\ Len(Append(s, m)) = Len(s) + 1
            /\ \A l \in 1..Len(s) : Append(s, m)[l] = s[l]
            /\ Append(s, m)[Len(s) + 1] = m
        BY <2>0, <4>2, Appended
      <4> HIDE DEF s, t
      <4>5. ASSUME NEW l \in 1..Len(t), t[l].job = i PROVE t[l].kind = "FAIL" /\ Through(i, q)'
        <5>1. CASE l \in 1..Len(s)
          BY <2>1, <2>2, <4>3, <4>4, <4>5, <5>1
        <5>2. CASE l = Len(s) + 1
          BY <3>2, <3>3, <4>1, <4>2, <4>3, <4>4, <4>5, <5>2
        <5> QED  BY <4>3, <4>4, <5>1, <5>2
      <4> QED  BY <3>3, <4>5
    <3> QED  BY <3>6, <3>7
  <2>9. ASSUME \/ \E j \in Jobs : \/ Submit(j) \/ SubmitterSends(j) \/ SubmitterLost(j)
                                  \/ Collect(j) \/ WatchCancel(j) \/ Acquiring(j)
                                  \/ AcquireFailed(j) \/ NewJob(j) \/ Forward(j) \/ NoMore(j)
                                  \/ Leave(j)
               \/ \E p \in Providers : Connect(p) \/ Unregister(p) \/ ClientLoses(p)
               \/ RelayRest \/ UNCHANGED rvars
        PROVE  UNCHANGED <<toServer, run>>
    BY <2>9 DEF Submit, SubmitterSends, SubmitterLost, Collect, WatchCancel, Acquiring,
       AcquireFailed, NewJob, Forward, NoMore, Leave, Connect, Unregister, ClientLoses,
       RelayRest, rvars, linkVars, runVars
  <2> DEFINE Goal ==
         /\ run'[<<i, q>>] \notin {"head", "body"}
         /\ \A k \in 1..Len(t) : t[k].job = i => t[k].kind = "FAIL" /\ Through(i, q)'
  <2>10. ASSUME UNCHANGED <<toServer, run>> PROVE Goal
    BY <2>4, <2>10
  <2>11. ASSUME t = s /\ run'[<<i, q>>] \notin {"head", "body"} PROVE Goal
    BY <2>3, <2>11
  <2>12. ASSUME NEW p \in Providers, ServerReads(p) \/ ServerLoses(p) PROVE Goal
    BY <2>5, <2>12
  <2>13. ASSUME NEW j \in Jobs, NEW p \in Providers, Upstream(j, p) \/ UpstreamFails(j, p)
         PROVE  Goal
    BY <2>8, <2>13
  <2> HIDE DEF Goal, s, t
  <2>14. Goal
    BY <2>6, <2>7, <2>9, <2>10, <2>11, <2>12, <2>13 DEF RelayNext
  <2> QED  BY <2>14 DEF Goal, t
<1> QED  BY <1>1, <1>2

(* dispatch reports an end only when the provider has sent one. *)
LEMMA Concludes ==
  ASSUME StageInv, Typed, [RelayNext]_rvars, NEW i \in Jobs,
         stage'[i] = "leave", outcome'[i] \in {"done", "failed"}
  PROVE  \/ stage[i] = "leave" /\ outcome'[i] = outcome[i]
         \/ stage[i] = "relay" /\ inbox[i] # <<>> /\ Head(inbox[i]) \in Terminal
<1> DEFINE Goal == \/ stage[i] = "leave" /\ outcome'[i] = outcome[i]
                   \/ stage[i] = "relay" /\ inbox[i] # <<>> /\ Head(inbox[i]) \in Terminal
<1>t. stage \in [Jobs -> Stages] /\ outcome \in [Jobs -> Outcomes]
  BY DEF StageInv, Typed
<1>1. ASSUME stage'[i] = stage[i], outcome'[i] = outcome[i] PROVE Goal
  BY <1>1
<1>2. ASSUME NEW j \in Jobs,
             \/ Submit(j) \/ Collect(j) \/ Acquiring(j) \/ AcquireFailed(j) \/ NewJob(j)
             \/ NoMore(j) \/ Leave(j)
      PROVE  Goal
  <2>1. j # i
    <3>1. ASSUME Submit(i) \/ Collect(i) \/ AcquireFailed(i) \/ Leave(i) PROVE FALSE
      BY <1>t, <3>1 DEF Submit, Collect, AcquireFailed, Leave
    <3>2. ASSUME Acquiring(i) PROVE FALSE
      BY <1>t, <3>2 DEF Acquiring
    <3>3. ASSUME NewJob(i) \/ NoMore(i) PROVE FALSE
      BY <1>t, <3>3 DEF NewJob, NoMore, Return
    <3> QED  BY <1>2, <3>1, <3>2, <3>3
  <2>2. stage'[i] = stage[i] /\ outcome'[i] = outcome[i]
    BY <1>2, <1>t, <2>1 DEF Submit, Collect, Acquiring, AcquireFailed, NewJob, NoMore, Leave, Return
  <2> QED  BY <1>1, <2>2
<1>3. ASSUME NEW j \in Jobs, Forward(j) PROVE Goal
  <2>1. CASE j # i
    <3>1. stage'[i] = stage[i] /\ outcome'[i] = outcome[i]
      BY <1>3, <1>t, <2>1 DEF Forward, Return
    <3> QED  BY <1>1, <3>1
  <2>2. CASE j = i
    BY <1>3, <1>t, <2>2 DEF Forward, Return, Terminal
  <2> QED  BY <2>1, <2>2
<1>4. ASSUME Elsewhere PROVE UNCHANGED <<stage, outcome>>
  BY <1>4, ElsewhereKeeps
<1>5. Goal
  <2> HIDE DEF Goal
  <2> QED  BY <1>1, <1>2, <1>3, <1>4 DEF RelayNext, Elsewhere
<1> QED  BY <1>5

(* Every step keeps it that the server ends no job that its provider has not. *)
LEMMA ConcludedStep ==
  ASSUME SlotInv, StageInv, AnswerInv, [RelayNext]_rvars
  PROVE  Concluded'
<1>t. /\ Typed /\ Strangers /\ SentOnce /\ OneAttempt /\ Answering /\ Heard /\ GivenUp
      /\ Concluded /\ stage \in [Jobs -> Stages]
  BY DEF AnswerInv, StageInv
<1>1. ASSUME NEW i \in Jobs, stage'[i] = "leave", outcome'[i] \in {"done", "failed"},
             NEW p, p = lease'[i]
      PROVE  Through(i, p)'
  <2>1. \/ stage[i] = "leave" /\ outcome'[i] = outcome[i]
        \/ stage[i] = "relay" /\ inbox[i] # <<>> /\ Head(inbox[i]) \in Terminal
    BY <1>1, <1>t, Concludes
  <2>2. lease[i] = p /\ p \in Providers
    BY <1>1, <2>1, LeaseKept DEF Holding
  <2>3. CASE stage[i] = "leave" /\ outcome'[i] = outcome[i]
    <3>1. Through(i, p)
      BY <1>1, <1>t, <2>2, <2>3 DEF Concluded
    <3> QED  BY <1>t, <2>2, <3>1, ThroughKept
  <2>4. CASE stage[i] = "relay" /\ inbox[i] # <<>> /\ Head(inbox[i]) \in Terminal
    <3>1. EndIn(inbox[i], toServer[p], i) => run[<<i, p>>] \in {"giving", "over"}
      BY <1>t, <2>2, <2>4 DEF Answering, AttemptOK
    <3>2. inbox[i] \in Seq(Kinds)
      BY <1>t DEF Typed
    <3>3. 1 \in 1..Len(inbox[i]) /\ Head(inbox[i]) = inbox[i][1]
      BY <2>4, <3>2, Tailed
    <3>4. Through(i, p)
      BY <2>4, <3>1, <3>3 DEF EndIn, Through
    <3> QED  BY <1>t, <2>2, <3>4, ThroughKept
  <2> QED  BY <2>1, <2>3, <2>4
<1>2. ASSUME NEW i \in Jobs, stage'[i] = "ended", ~Left(i)', NEW q \in Providers, srvUp'[q],
             Touched(i, q)', i \notin half'[q]
      PROVE  Through(i, q)'
  <2>0. i \notin half[q]
    BY <1>2, <1>t, HalfKept
  <2>1. Touched(i, q)
    BY <1>2, TouchedStep DEF Turns
  <2>2. srvUp[q]
    BY <1>2, <1>t, <2>1, LinkUp DEF Strangers
  <2>3. ~Left(i)
    BY <1>2, <1>t, LeftKept
  <2>4. \/ stage[i] = "ended"
        \/ /\ lease[i] = q
           /\ \/ stage[i] = "relay"
              \/ stage[i] = "leave" /\ outcome[i] # "gone"
    BY <1>t, <2>0, <2>1, <2>2 DEF OneAttempt
  <2>5. stage[i] # "relay"
    BY <1>2, <1>t, StageMoves
  <2>6. CASE stage[i] = "ended"
    <3>1. Through(i, q)
      BY <1>t, <2>0, <2>1, <2>2, <2>3, <2>6 DEF Concluded
    <3> QED  BY <1>t, <3>1, ThroughKept
  <2>7. CASE lease[i] = q /\ stage[i] = "leave" /\ outcome[i] # "gone"
    <3>1. outcome[i] # "none"
      BY <1>t, <2>7 DEF Heard, HeardOK
    <3>2. outcome[i] # "cancelled"
      BY <1>t, <2>3, <2>7 DEF GivenUp
    <3>3. outcome[i] \in {"done", "failed"}
      BY <1>t, <2>7, <3>1, <3>2 DEF Typed, Outcomes
    <3>4. Through(i, q)
      BY <1>t, <2>7, <3>3 DEF Concluded
    <3> QED  BY <1>t, <3>4, ThroughKept
  <2> QED  BY <2>4, <2>5, <2>6, <2>7
<1>3. ASSUME NEW i \in Jobs, stage'[i] = "leave", outcome'[i] \in {"done", "failed"}
      PROVE  Through(i, lease[i])'
  BY <1>1, <1>3 DEF Through
<1> QED  BY <1>2, <1>3 DEF Concluded

-----------------------------------------------------------------------------
(* The theorems. *)

(* The initial state. *)
LEMMA AnswerInitial == RelayInit => StageInv /\ AnswerInv
<1> SUFFICES ASSUME RelayInit PROVE StageInv /\ AnswerInv
  OBVIOUS
<1>1. StageInv
  BY DEF RelayInit, Init, StageInv, Stages
<1>2. Typed
  BY DEF RelayInit, Typed, Outcomes, Runs
<1>3. \A j \in Jobs, p \in Providers : ~Touched(j, p)
  BY DEF RelayInit, Touched, Speaks
<1>4. Strangers /\ SentOnce /\ OneAttempt /\ Halves
  BY <1>3 DEF RelayInit, Strangers, SentOnce, OneAttempt, Halves, Broken
<1>5. Answering /\ Heard
  BY DEF RelayInit, Answering, Heard, HeardOK
<1>6. GivenUp /\ Concluded
  BY DEF RelayInit, Init, GivenUp, Concluded
<1> QED  BY <1>1, <1>2, <1>4, <1>5, <1>6 DEF AnswerInv

(* The invariant holds, whatever is lost, requeued or cancelled. *)
LEMMA RelayInvariance == RelaySpec => []RelayInv
<1>1. RelaySpec => []SlotInv
  BY SlotInvariance, RelayIsPool, PTL
<1>2. SlotInv /\ StageInv /\ AnswerInv /\ [RelayNext]_rvars => StageInv' /\ AnswerInv'
  <2> SUFFICES ASSUME SlotInv, StageInv, AnswerInv, [RelayNext]_rvars
               PROVE  StageInv' /\ AnswerInv'
    OBVIOUS
  <2>1. StageInv'
    BY StageStep DEF SlotInv
  <2>2. Typed'
    BY TypedStep
  <2>3. Strangers' /\ SentOnce' /\ OneAttempt' /\ Halves'
    BY StrangersStep, SentOnceStep, OneAttemptStep, HalvesStep
  <2>4. Answering' /\ Heard'
    BY AnsweringStep, HeardStep
  <2>5. GivenUp' /\ Concluded'
    BY GivenUpStep, ConcludedStep
  <2> QED  BY <2>1, <2>2, <2>3, <2>4, <2>5 DEF AnswerInv
<1> QED  BY <1>1, <1>2, AnswerInitial, PTL DEF RelaySpec, RelayInv

(***************************************************************************)
(* However often a job is tried again, at however many providers, and      *)
(* whatever links are lost on the way: what its submitter hears is one     *)
(* answer, or the beginning of one.                                        *)
(***************************************************************************)
THEOREM SubmittersHearOneAnswer == RelaySpec => []AnswerWellFormed
<1>1. RelayInv => AnswerWellFormed
  <2> SUFFICES ASSUME RelayInv, NEW j \in Jobs PROVE Legal(answer[j])
    BY DEF AnswerWellFormed, Legal
  <2>1. HeardOK(stage[j], outcome[j], started[j], answer[j], inbox[j]) /\ stage[j] \in Stages
    BY DEF RelayInv, AnswerInv, Heard, StageInv
  <2>2. Legal(<<>>)
    BY DEF Legal
  <2> QED  BY <2>1, <2>2 DEF HeardOK, Partial, Stages
<1> QED  BY <1>1, RelayInvariance, PTL

(***************************************************************************)
(* relay returns without having ended the answer only when its submitter   *)
(* has left: no error path is silent towards one who is there.             *)
(***************************************************************************)
THEOREM SilenceIsOnlyForTheGone == RelaySpec => []EndedMeansAnswered
<1>1. RelayInv => EndedMeansAnswered
  BY DEF RelayInv, AnswerInv, GivenUp, Left, EndedMeansAnswered, Answered, Whole, Last
<1> QED  BY <1>1, RelayInvariance, PTL


-----------------------------------------------------------------------------
(* The count of the slots. *)

(* A provider whose link is up and whole has only jobs with a lease on it, when no
   submitter has left. *)
LEMMA OutstandingHolds ==
  ASSUME RelayInv, NEW p \in Providers, srvUp[p], ~Broken(p), NEW j \in Outstanding(p), ~Left(j)
  PROVE  j \in Jobs /\ lease[j] = p
<1>t. Typed /\ SentOnce /\ OneAttempt /\ Concluded
  BY DEF RelayInv, AnswerInv
<1>1. /\ j \in Jobs
      /\ \/ Contains(toClient[p], Msg(j, "REQUEST"))
         \/ run[<<j, p>>] \in {"start", "asked", "head", "body"}
  BY DEF Outstanding
<1>2. Msg(j, "REQUEST").job = j /\ Msg(j, "REQUEST").kind = "REQUEST"
  BY DEF Msg
<1>3. ASSUME Contains(toClient[p], Msg(j, "REQUEST"))
      PROVE  Speaks(toClient[p], j) /\ run[<<j, p>>] = "none"
  <2>1. PICK i \in 1..Len(toClient[p]) : toClient[p][i] = Msg(j, "REQUEST")
    BY <1>3 DEF Contains
  <2>2. toClient[p][i].job = j /\ toClient[p][i].kind = "REQUEST"
    BY <1>2, <2>1
  <2>3. Speaks(toClient[p], j)
    BY <2>2 DEF Speaks
  <2>4. run[<<toClient[p][i].job, p>>] = "none"
    BY <1>t, <2>2 DEF SentOnce
  <2> QED  BY <2>2, <2>3, <2>4
<1>4. Touched(j, p) /\ ~Through(j, p) /\ j \notin half[p]
  BY <1>1, <1>3 DEF Touched, Through, Broken
<1>5. stage[j] # "ended"
  BY <1>t, <1>1, <1>4 DEF Concluded
<1> QED  BY <1>t, <1>1, <1>4, <1>5 DEF OneAttempt

(* As many jobs as have a lease on p are not too many. *)
LEMMA LeasesFit ==
  ASSUME RelayInv, NEW p \in Providers, NEW S, \A j \in S : j \in Jobs /\ lease[j] = p
  PROVE  Cardinality(S) <= Slots[p]
<1> DEFINE L == {j \in Jobs : lease[j] = p}
<1>1. S \subseteq L /\ IsFiniteSet(L)
  BY JobsAssumption, FS_Subset
<1>2. Cardinality(L) <= Slots[p] /\ Slots[p] \in Nat
  BY SlotsAssumption DEF RelayInv, SlotInv, SlotAccounting, SlotsKept
<1> HIDE DEF L
<1>3. /\ Cardinality(S) \in Nat /\ Cardinality(L) \in Nat
      /\ Cardinality(S) <= Cardinality(L)
  BY <1>1, FS_Subset, FS_CardinalityType
<1> QED  BY <1>2, <1>3

(* A job becomes outstanding only by dispatch's REQUEST on a whole link. *)
LEMMA OutstandingStep ==
  ASSUME SlotInv, StageInv, AnswerInv, [RelayNext]_rvars, NEW q \in Providers,
         NEW i \in Outstanding(q)'
  PROVE  \/ i \in Outstanding(q)
         \/ lease[i] = q /\ stage[i] = "newJob" /\ ~Broken(q)
<1>t. Typed /\ SentOnce /\ i \in Jobs
  BY DEF AnswerInv, Outstanding
<1> DEFINE R == Msg(i, "REQUEST")
           s == toClient[q]
           t == toClient'[q]
           Goal == i \in Outstanding(q) \/ (lease[i] = q /\ stage[i] = "newJob" /\ ~Broken(q))
<1>r. R.job = i /\ R.kind = "REQUEST"
  BY DEF Msg
<1>s. s \in Seq(Message)
  BY <1>t DEF Typed
<1>0. ASSUME \A k \in 1..Len(t) : t[k] = R => \E l \in 1..Len(s) : s[l] = R,
             \/ run'[<<i, q>>] \notin {"start", "asked", "head", "body"}
             \/ run[<<i, q>>] \in {"start", "asked", "head", "body"}
             \/ \E l \in 1..Len(s) : s[l] = R
      PROVE  Goal
  BY <1>0, <1>t DEF Outstanding, Contains
<1>1. ASSUME UNCHANGED <<toClient, run>> PROVE Goal
  BY <1>0, <1>1, <1>t DEF Outstanding, Contains
<1>2. ASSUME NEW j \in Jobs, NEW p \in Providers, NEW k \in Kinds, SendToClient(p, Msg(j, k)),
             run' = run, stage[j] = "newJob" \/ k # "REQUEST", lease[j] = p
      PROVE  Goal
  <2> DEFINE m == Msg(j, k)
  <2>1. m \in Message /\ m.job = j /\ m.kind = k
    BY MsgType
  <2>2. t = s \/ (q = p /\ t = Append(s, m) /\ ~Broken(q))
    BY <1>2, <1>t, <2>1, SendsTo
  <2>3. CASE t = s
    BY <1>0, <1>2, <1>t, <2>3 DEF Outstanding, Contains
  <2>4. CASE q = p /\ t = Append(s, m) /\ ~Broken(q)
    <3>1. /\ Len(s) \in Nat /\ Len(t) = Len(s) + 1
          /\ \A l \in 1..Len(s) : t[l] = s[l]
          /\ t[Len(s) + 1] = m
      BY <1>s, <2>1, <2>4, Appended
    <3>2. CASE m = R
      BY <1>2, <1>r, <2>1, <2>4, <3>2
    <3>3. CASE m # R
      <4> HIDE DEF m, R, s, t, Goal
      <4>1. \A l \in 1..Len(t) : l \in 1..Len(s) \/ l = Len(s) + 1
        BY <3>1
      <4>2. \A l \in 1..Len(t) : t[l] = R => \E n \in 1..Len(s) : s[n] = R
        BY <3>1, <3>3, <4>1
      <4>3. \/ run'[<<i, q>>] \notin {"start", "asked", "head", "body"}
            \/ run[<<i, q>>] \in {"start", "asked", "head", "body"}
        BY <1>2
      <4> QED  BY <1>0, <4>2, <4>3
    <3> QED  BY <3>2, <3>3
  <2> QED  BY <2>2, <2>3, <2>4
<1>3. ASSUME NEW j \in Jobs, NewJob(j) \/ Forward(j) \/ NoMore(j) PROVE Goal
  <2>1. lease[j] \in Providers /\ run' = run
    BY <1>3, HasLease DEF NewJob, Forward, NoMore, Holding, runVars
  <2>2. \/ toClient' = toClient
        \/ \E k \in Kinds : /\ SendToClient(lease[j], Msg(j, k))
                            /\ stage[j] = "newJob" \/ k # "REQUEST"
    BY <1>3 DEF NewJob, Forward, NoMore, Kinds
  <2> QED  BY <1>1, <1>2, <2>1, <2>2
<1>4. ASSUME NEW p \in Providers, ClientReads(p) PROVE Goal
  <2> DEFINE m == Head(toClient[p])
  <2>1. toClient[p] \in Seq(Message) /\ toClient[p] # <<>>
    BY <1>4, <1>t DEF ClientReads, Typed
  <2>2. /\ q # p => t = s
        /\ q = p => s # <<>> /\ t = Tail(s) /\ m = Head(s)
        /\ run' = run \/ (m.kind = "REQUEST" /\ run' = [run EXCEPT ![<<m.job, p>>] = "start"])
    BY <1>4, <1>t DEF ClientReads, Typed
  <2>3. m \in Message
    BY <2>1, Tailed
  <2>4. \A k \in 1..Len(t) : t[k] = R => \E l \in 1..Len(s) : s[l] = R
    <3>1. CASE q = p
      <4>1. s # <<>> /\ t = Tail(s)
        BY <2>2, <3>1
      <4>2. \A k \in 1..Len(t) : k + 1 \in 1..Len(s) /\ t[k] = s[k + 1]
        BY <1>s, <4>1, Tailed
      <4> HIDE DEF s, t, R
      <4> QED  BY <4>2
    <3> QED  BY <2>2, <3>1
  <2>5. \/ run'[<<i, q>>] = run[<<i, q>>]
        \/ m.job = i /\ q = p /\ m.kind = "REQUEST"
    <3> HIDE DEF m
    <3> QED  BY <1>t, <2>2 DEF Typed
  <2>6. m.job = i /\ q = p /\ m.kind = "REQUEST" => \E l \in 1..Len(s) : s[l] = R
    <3> SUFFICES ASSUME m.job = i, q = p, m.kind = "REQUEST" PROVE \E l \in 1..Len(s) : s[l] = R
      OBVIOUS
    <3>1. 1 \in 1..Len(s) /\ s[1] = m
      BY <2>1, Tailed
    <3>2. m = R
      BY <2>3 DEF Message, Msg
    <3> QED  BY <3>1, <3>2
  <2> HIDE DEF m, s, t, R, Goal
  <2> QED  BY <1>0, <2>4, <2>5, <2>6
<1>5. ASSUME NEW p \in Providers, ClientCloses(p),
             run' = run \/ \E j \in Jobs : run' = [run EXCEPT ![<<j, p>>] = "over"]
      PROVE  Goal
  <2>1. t \in {s, <<>>}
    BY <1>5, <1>t DEF ClientCloses, Typed
  <2>2. run'[<<i, q>>] \in {run[<<i, q>>], "over"}
    BY <1>5, <1>t DEF Typed
  <2>3. \A k \in 1..Len(t) : t[k] = R => \E l \in 1..Len(s) : s[l] = R
    BY <2>1
  <2> HIDE DEF s, t, R, Goal
  <2> QED  BY <1>0, <2>2, <2>3
<1>6. ASSUME NEW p \in Providers, ClientLoses(p) PROVE Goal
  BY <1>5, <1>6 DEF ClientLoses
<1>7. ASSUME NEW j \in Jobs, NEW p \in Providers, Refuse(j, p) PROVE Goal
  BY <1>5, <1>7 DEF Refuse
<1>8. ASSUME NEW j \in Jobs, NEW p \in Providers,
             Take(j, p) \/ Upstream(j, p) \/ UpstreamFails(j, p) \/ Give(j, p)
      PROVE  Goal
  <2>1. /\ toClient' = toClient
        /\ \E r \in Runs : /\ run' = [run EXCEPT ![<<j, p>>] = r]
                           /\ \/ r \notin {"start", "asked", "head", "body"}
                              \/ run[<<j, p>>] \in {"start", "asked", "head", "body"}
    BY <1>8 DEF Take, Upstream, UpstreamFails, Give, Runs, linkVars
  <2>2. \/ run'[<<i, q>>] \notin {"start", "asked", "head", "body"}
        \/ run[<<i, q>>] \in {"start", "asked", "head", "body"}
    BY <1>t, <2>1 DEF Typed, Outstanding
  <2>3. t = s
    BY <2>1
  <2> HIDE DEF s, t, R, Goal
  <2> QED  BY <1>0, <2>2, <2>3
<1>9. ASSUME \/ \E j \in Jobs : \/ Submit(j) \/ SubmitterSends(j) \/ SubmitterLost(j) \/ Collect(j)
                                \/ WatchCancel(j) \/ Acquiring(j) \/ AcquireFailed(j) \/ Leave(j)
             \/ \E p \in Providers : Connect(p) \/ ServerReads(p) \/ ServerLoses(p) \/ Unregister(p)
             \/ RelayRest \/ UNCHANGED rvars
      PROVE  UNCHANGED <<toClient, run>>
  BY <1>9 DEF Submit, SubmitterSends, SubmitterLost, Collect, WatchCancel, Acquiring,
       AcquireFailed, Leave, Connect, ServerReads, ServerLoses, Unregister, RelayRest, rvars,
       linkVars, runVars
<1>10. Goal
  <2> HIDE DEF Goal
  <2> QED  BY <1>1, <1>3, <1>4, <1>6, <1>7, <1>8, <1>9 DEF RelayNext
<1> QED  BY <1>10

(* Where nobody may leave, nobody does. *)
NobodyLeft == MayLeave = {} => \A j \in Jobs : ~Left(j)

LEMMA NobodyLeaves == Typed /\ NobodyLeft /\ [RelayNext]_rvars => NobodyLeft'
<1> SUFFICES ASSUME Typed, NobodyLeft, [RelayNext]_rvars, MayLeave = {}, NEW i \in Jobs
             PROVE  ~Left(i)'
  BY DEF NobodyLeft
<1>0. ~Left(i)
  BY DEF NobodyLeft
<1>1. ASSUME NEW j \in Jobs, SubmitterSends(j) \/ SubmitterLost(j) PROVE ~Left(i)'
  BY <1>0, <1>1 DEF SubmitterSends, SubmitterLost, Left, Typed
<1>2. CASE UNCHANGED <<subUp, got>>
  BY <1>0, <1>2 DEF Left
<1>3. ASSUME NEW j \in Jobs,
             \/ Submit(j) \/ Collect(j) \/ WatchCancel(j) \/ Acquiring(j) \/ AcquireFailed(j)
             \/ NewJob(j) \/ Forward(j) \/ NoMore(j) \/ Leave(j)
      PROVE  UNCHANGED <<subUp, got>>
  BY <1>3 DEF Submit, Collect, WatchCancel, Acquiring, AcquireFailed, NewJob, Forward, NoMore,
       Leave, relayVars
<1>4. ASSUME NEW p \in Providers, \/ Connect(p) \/ ServerReads(p) \/ ServerLoses(p)
                                  \/ Unregister(p) \/ ClientLoses(p) \/ ClientReads(p)
      PROVE  UNCHANGED <<subUp, got>>
  BY <1>4 DEF Connect, ServerReads, ServerLoses, Unregister, ClientLoses, ClientReads, relayVars
<1>5. ASSUME NEW j \in Jobs, NEW p \in Providers,
             Take(j, p) \/ Refuse(j, p) \/ Upstream(j, p) \/ UpstreamFails(j, p) \/ Give(j, p)
      PROVE  UNCHANGED <<subUp, got>>
  BY <1>5 DEF Take, Refuse, Upstream, UpstreamFails, Give, relayVars
<1>6. CASE RelayRest \/ UNCHANGED rvars
  BY <1>2, <1>6 DEF RelayRest, rvars, relayVars
<1> QED  BY <1>1, <1>2, <1>3, <1>4, <1>5, <1>6 DEF RelayNext

(* Where nobody may leave, the count is kept, and on a whole link for the reason that
   every job that is outstanding has its lease. *)
CountKept == MayLeave = {} => SlotBusyUntilTerminated
WholeKept ==
  MayLeave = {} =>
    \A p \in Providers : srvUp[p] /\ ~Broken(p) => Cardinality(Outstanding(p)) <= Slots[p]

LEMMA WholeCount == RelayInv /\ NobodyLeft => WholeKept
<1> SUFFICES ASSUME RelayInv, NobodyLeft, MayLeave = {}, NEW p \in Providers, srvUp[p], ~Broken(p)
             PROVE  Cardinality(Outstanding(p)) <= Slots[p]
  BY DEF WholeKept
<1>1. ASSUME NEW j \in Outstanding(p) PROVE j \in Jobs /\ lease[j] = p
  <2>1. j \in Jobs
    BY <1>1 DEF Outstanding
  <2> QED  BY <1>1, <2>1, OutstandingHolds DEF NobodyLeft
<1> QED  BY <1>1, LeasesFit

(* Every step keeps the count: on a link that is broken no job becomes outstanding. *)
LEMMA CountStep ==
  ASSUME RelayInv, NobodyLeft, CountKept, WholeKept', [RelayNext]_rvars
  PROVE  CountKept'
<1>t. SlotInv /\ StageInv /\ AnswerInv /\ Typed /\ Strangers
  BY DEF RelayInv, AnswerInv
<1> SUFFICES ASSUME MayLeave = {}, NEW p \in Providers, srvUp'[p], cliUp'[p]
             PROVE  Cardinality(Outstanding(p)') <= Slots[p]
  BY DEF CountKept, SlotBusyUntilTerminated
<1>1. CASE ~Broken(p)'
  BY <1>1 DEF WholeKept
<1>2. CASE Broken(p)'
  <2>1. srvUp[p] /\ cliUp[p]
    <3>1. Joined(p)
      <4>1. CASE Broken(p)
        BY <1>t, <4>1 DEF Strangers
      <4>2. CASE ~Broken(p)
        BY <1>2, <1>t, <4>2, HalfStep DEF Strangers, Broken
      <4> QED  BY <4>1, <4>2
    <3> QED  BY <1>t, <3>1, LinkUp
  <2>2. CASE Broken(p)
    <3>1. Outstanding(p)' \subseteq Outstanding(p)
      BY <1>t, <2>2, OutstandingStep
    <3>2. Cardinality(Outstanding(p)) <= Slots[p]
      BY <2>1 DEF CountKept, SlotBusyUntilTerminated
    <3>3. IsFiniteSet(Outstanding(p))
      BY JobsAssumption, FS_Subset DEF Outstanding
    <3>4. /\ Cardinality(Outstanding(p)') \in Nat /\ Cardinality(Outstanding(p)) \in Nat
          /\ Cardinality(Outstanding(p)') <= Cardinality(Outstanding(p))
      BY <3>1, <3>3, FS_Subset, FS_CardinalityType
    <3> QED  BY <3>2, <3>4, SlotsAssumption
  <2>3. CASE ~Broken(p)
    <3> DEFINE S == Outstanding(p)'
    <3>1. \A j \in S : j \in Jobs /\ lease[j] = p
      <4> SUFFICES ASSUME NEW j \in S PROVE j \in Jobs /\ lease[j] = p
        OBVIOUS
      <4>1. j \in Jobs
        BY DEF Outstanding
      <4>2. CASE j \in Outstanding(p)
        BY <2>1, <2>3, <4>1, <4>2, OutstandingHolds DEF NobodyLeft
      <4>3. j \in Outstanding(p) \/ lease[j] = p
        BY <1>t, OutstandingStep
      <4> QED  BY <4>1, <4>2, <4>3
    <3> HIDE DEF S
    <3>2. Cardinality(S) <= Slots[p]
      BY <3>1, LeasesFit
    <3> QED  BY <3>2 DEF S
  <2> QED  BY <2>2, <2>3
<1> QED  BY <1>1, <1>2

(***************************************************************************)
(* PROTOCOL.md:201 for any number of jobs, providers and slots, as far as  *)
(* the server keeps it: where no job is cancelled, a provider whose link   *)
(* is up has no more jobs outstanding than slots, since a slot that is     *)
(* free again at the server is free at the provider; a job that the write  *)
(* deadline cut in two keeps its slot until the link that it broke ends.   *)
(***************************************************************************)
THEOREM ServerKeepsCount == RelaySpec => [](MayLeave = {} => SlotBusyUntilTerminated)
<1>1. RelayInit => NobodyLeft /\ CountKept
  <2> SUFFICES ASSUME RelayInit PROVE NobodyLeft /\ CountKept
    OBVIOUS
  <2>1. NobodyLeft
    BY DEF RelayInit, NobodyLeft, Left
  <2>2. CountKept
    BY DEF RelayInit, CountKept, SlotBusyUntilTerminated
  <2> QED  BY <2>1, <2>2
<1>2. RelaySpec => []NobodyLeft
  <2>1. RelayInv => Typed
    BY DEF RelayInv, AnswerInv
  <2> QED  BY <1>1, <2>1, NobodyLeaves, RelayInvariance, PTL DEF RelaySpec
<1>3. RelaySpec => []WholeKept
  BY <1>2, WholeCount, RelayInvariance, PTL
<1>4. RelayInv /\ NobodyLeft /\ CountKept /\ WholeKept' /\ [RelayNext]_rvars => CountKept'
  BY CountStep
<1>5. RelaySpec => []CountKept
  BY <1>1, <1>2, <1>3, <1>4, RelayInvariance, PTL DEF RelaySpec
<1> QED  BY <1>5 DEF CountKept
=============================================================================
