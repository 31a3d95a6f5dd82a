--------------------------- MODULE ChannelProofs ----------------------------
(***************************************************************************)
(* What Channel promises: the counters of its cipher states, their keys,   *)
(* what is delivered and what is refused, for every message, secret,       *)
(* version and number of faults, and for every size of a record and every  *)
(* width of the counter.  One part for each, in this order.                *)
(***************************************************************************)
EXTENDS Channel, SequenceTheorems, NaturalsInduction, WellFoundedInduction, TLAPS

(* What newCipherState makes and Advanced keeps. *)
IsCipherState(c) ==
  /\ c = [key |-> c.key, nonce |-> c.nonce]
  /\ c.nonce \in 0..NonceReserved

(* The counters u are the ones below n, in their order. *)
CountsUpTo(u, n) ==
  /\ u \in Seq(Nat) /\ Len(u) = n
  /\ \A i \in 1..Len(u) : u[i] = i - 1

(***************************************************************************)
(* The inductive invariant: a side has sealed with every counter below its *)
(* own, once, and the counter never moves past the reserved value, where   *)
(* it would wrap; a side that is not open yet, which Split will give a     *)
(* state that starts from 0, has sealed nothing.                           *)
(***************************************************************************)
NonceInv ==
  /\ place \in [Sides -> {"start", "answer", "open", "closed"}]
  /\ send = [x \in Sides |-> send[x]]
  /\ used = [x \in Sides |-> used[x]]
  /\ \A x \in Sides : IsCipherState(send[x])
  /\ \A x \in Sides : CountsUpTo(used[x], send[x].nonce)
  /\ \A x \in Sides : place[x] \in {"start", "answer"} => used[x] = <<>>

-----------------------------------------------------------------------------
(* Every set of naturals that is not empty has a least element. *)
LEMMA LeastElement ==
  ASSUME NEW T \in SUBSET Nat, T # {}
  PROVE  \E x \in T : \A y \in T : x <= y
<1> DEFINE R == OpToRel(<, Nat)
<1>1. \E x \in T : \A y \in T : ~ (<<y, x>> \in R)
  <2>1. IsWellFoundedOn(R, Nat)
    BY NatLessThanWellFounded
  <2> HIDE DEF R
  <2> QED  BY <2>1, WFMin
<1>2. \A x, y \in Nat : y < x => <<y, x>> \in R
  BY DEF OpToRel
<1> HIDE DEF R
<1>3. PICK x \in T : \A y \in T : ~ (<<y, x>> \in R)
  BY <1>1
<1>4. ASSUME NEW y \in T PROVE x <= y
  <2>1. ~ (y < x)
    BY <1>2, <1>3
  <2> QED  BY <2>1
<1> QED  BY <1>4

(* What is written has a length. *)
LEMMA EncodingCounted ==
  /\ \A x \in Sides : \A src \in Says[x] :
       Encodable(MessageOf(src)) => Len(Encode(MessageOf(src))) \in Nat
  /\ \A bytes \in Strays : Len(bytes) \in Nat
<1>1. \A b \in Bytes : Len(b) \in Nat
  BY DEF Bytes
<1> QED  BY <1>1, EncodingAssumption

(* A counter that does not pass the reserved value does not wrap. *)
LEMMA NoWrap ==
  ASSUME NEW c, IsCipherState(c), NEW n \in Nat, c.nonce + n <= NonceReserved
  PROVE  Advanced(c, n) = [key |-> c.key, nonce |-> c.nonce + n]
<1>1. NonceReserved \in Nat
  BY NoiseAssumption
<1>2. c.nonce \in Nat
  BY <1>1 DEF IsCipherState
<1>3. (c.nonce + n) % (NonceReserved + 1) = c.nonce + n
  <2> DEFINE a == c.nonce + n
  <2>1. a \in Nat /\ a <= NonceReserved
    BY <1>2
  <2> HIDE DEF a
  <2>2. a % (NonceReserved + 1) = a
    BY <1>1, <2>1
  <2> QED  BY <2>2 DEF a
<1>4. Advanced(c, n) = [c EXCEPT !.nonce = (c.nonce + n) % (NonceReserved + 1)]
  BY DEF Advanced
<1> DEFINE v == (c.nonce + n) % (NonceReserved + 1)
<1>5. v = c.nonce + n
  BY <1>3
<1> HIDE DEF v
<1>6. [c EXCEPT !.nonce = v] = [key |-> c.key, nonce |-> v]
  BY DEF IsCipherState
<1> QED  BY <1>4, <1>5, <1>6 DEF v

(* Records that Encrypt takes, one after the other, leave the counter at or below
   the reserved value: it refuses there (state.go, seal). *)
LEMMA SealingStaysBelow ==
  ASSUME NEW c, IsCipherState(c), NEW s \in Nat, NEW chunks,
         \A i \in 1..s : CanSeal(Advanced(c, i - 1), chunks[i])
  PROVE  c.nonce + s <= NonceReserved
<1>1. NonceReserved \in Nat /\ c.nonce \in Nat /\ c.nonce <= NonceReserved
  BY NoiseAssumption DEF IsCipherState
<1> SUFFICES ASSUME ~ (c.nonce + s <= NonceReserved) PROVE FALSE
  OBVIOUS
<1> DEFINE d == NonceReserved - c.nonce
<1>2. d \in Nat /\ d + 1 \in 1..s /\ c.nonce + d = NonceReserved
  BY <1>1
<1> HIDE DEF d
<1>3. Advanced(c, d) = [key |-> c.key, nonce |-> c.nonce + d]
  BY <1>1, <1>2, NoWrap
<1>4. CanSeal(Advanced(c, (d + 1) - 1), chunks[d + 1])
  BY <1>2
<1>5. (d + 1) - 1 = d
  BY <1>2
<1>6. Advanced(c, d).nonce # NonceReserved
  BY <1>4, <1>5 DEF CanSeal
<1> QED  BY <1>2, <1>3, <1>6

(* CanSend is how many records Encrypt takes before it refuses one, or all. *)
LEMMA CanSendIs ==
  ASSUME NEW x, NEW chunks, Len(chunks) \in Nat
  PROVE  /\ CanSend(x, chunks) \in 0..Len(chunks)
         /\ \A i \in 1..CanSend(x, chunks) : CanSeal(Advanced(send[x], i - 1), chunks[i])
         /\ CanSend(x, chunks) < Len(chunks) =>
              ~CanSeal(Advanced(send[x], CanSend(x, chunks)), chunks[CanSend(x, chunks) + 1])
<1> DEFINE Takes1(i) == CanSeal(Advanced(send[x], i - 1), chunks[i])
           T == {n \in 0..Len(chunks) : n = Len(chunks) \/ ~Takes1(n + 1)}
<1>1. \E n \in 0..Len(chunks) :
        /\ \A i \in 1..n : Takes1(i)
        /\ n < Len(chunks) => ~Takes1(n + 1)
  <2> HIDE DEF Takes1
  <2>1. T \in SUBSET Nat /\ Len(chunks) \in T
    OBVIOUS
  <2>2. PICK n \in T : \A m \in T : n <= m
    <3> HIDE DEF T
    <3> QED  BY <2>1, LeastElement
  <2>3. n \in 0..Len(chunks) /\ (n < Len(chunks) => ~Takes1(n + 1))
    OBVIOUS
  <2>4. ASSUME NEW i \in 1..n PROVE Takes1(i)
    <3>1. i - 1 \in 0..Len(chunks) /\ i - 1 # Len(chunks) /\ ~ (n <= i - 1)
      BY <2>3
    <3>2. i - 1 \notin T
      BY <2>2, <3>1
    <3>3. Takes1((i - 1) + 1)
      BY <3>1, <3>2
    <3>4. (i - 1) + 1 = i
      OBVIOUS
    <3> QED  BY <3>3, <3>4
  <2> QED  BY <2>3, <2>4
<1>2. \A n \in 0..Len(chunks) : n \in Int
  OBVIOUS
<1>3. \A n \in Int : (n + 1) - 1 = n
  OBVIOUS
<1> DEFINE P(n) == /\ \A i \in 1..n : CanSeal(Advanced(send[x], i - 1), chunks[i])
                   /\ n < Len(chunks) => ~CanSeal(Advanced(send[x], n), chunks[n + 1])
<1>4. \E n \in 0..Len(chunks) : P(n)
  BY <1>1, <1>2, <1>3
<1>5. CanSend(x, chunks) = CHOOSE n \in 0..Len(chunks) : P(n)
  BY DEF CanSend
<1>6. CanSend(x, chunks) \in 0..Len(chunks) /\ P(CanSend(x, chunks))
  <2> HIDE DEF P
  <2> QED  BY <1>4, <1>5
<1> QED  BY <1>6

(* What a string of bytes is cut into has a length. *)
LEMMA ChunksAreCounted ==
  ASSUME NEW bytes, Len(bytes) \in Nat
  PROVE  Len(Chunks(bytes)) \in Nat
<1> DEFINE n == (Len(bytes) + MaxPlaintext - 1) \div MaxPlaintext
<1>1. n \in Nat
  BY NoiseAssumption
<1> HIDE DEF n
<1>2. \E f : Chunks(bytes) = [i \in 1..n |-> f[i]]
  <2> DEFINE F == Chunks(bytes)
  <2>1. Chunks(bytes) = [i \in 1..n |-> F[i]]
    BY DEF Chunks, n
  <2> QED  BY <2>1
<1>3. PICK f : Chunks(bytes) = [i \in 1..n |-> f[i]]
  BY <1>2
<1>4. Len([i \in 1..n |-> f[i]]) = n
  BY <1>1
<1> QED  BY <1>1, <1>3, <1>4

(* A sequence of the counters below n with the s behind them put to it. *)
LEMMA CountsOn ==
  ASSUME NEW n \in Nat, NEW u, CountsUpTo(u, n), NEW s \in Nat, NEW f,
         f = [i \in 1..s |-> n + i - 1]
  PROVE  CountsUpTo(u \o f, n + s)
<1>1. u \in Seq(Nat) /\ Len(u) = n /\ \A i \in 1..n : u[i] = i - 1
  BY DEF CountsUpTo
<1>2. f \in Seq(Nat) /\ Len(f) = s
  OBVIOUS
<1>3. u \o f \in Seq(Nat) /\ Len(u \o f) = n + s
  BY <1>1, <1>2
<1>4. ASSUME NEW i \in 1..(n + s) PROVE (u \o f)[i] = i - 1
  <2>1. CASE i <= n
    <3>1. i \in 1..n /\ (u \o f)[i] = u[i]
      BY <1>1, <1>2, <2>1
    <3> QED  BY <1>1, <3>1
  <2>2. CASE ~ (i <= n)
    <3>1. i - n \in 1..s /\ (u \o f)[i] = f[i - n]
      BY <1>1, <1>2, <2>2
    <3>2. f[i - n] = n + (i - n) - 1
      BY <3>1
    <3>3. n + (i - n) - 1 = i - 1
      BY <2>2
    <3> QED  BY ONLY <3>1, <3>2, <3>3
  <2> QED  BY <2>1, <2>2
<1> QED  BY <1>3, <1>4 DEF CountsUpTo

(* RecordWriter.Write, however much of it is written, seals with the counters that
   come next and moves past them. *)
LEMMA WritingCountsOn ==
  ASSUME NonceInv, NEW x \in Sides, NEW bytes, Len(bytes) \in Nat, NEW n, NEW tail,
         NEW s \in Nat, s <= CanSend(x, Chunks(bytes)),
         WritesRecords(x, bytes, n, s, tail), place[x] = "open"
  PROVE  /\ send' = [y \in Sides |-> send'[y]] /\ used' = [y \in Sides |-> used'[y]]
         /\ \A y \in Sides : IsCipherState(send'[y])
         /\ \A y \in Sides : CountsUpTo(used'[y], send'[y].nonce)
         /\ \A y \in Sides : y # x => used'[y] = used[y]
<1> DEFINE chunks == Chunks(bytes)
           c == send[x]
<1>1. Len(chunks) \in Nat
  BY ChunksAreCounted
<1>2. /\ CanSend(x, chunks) \in Nat
      /\ \A i \in 1..CanSend(x, chunks) : CanSeal(Advanced(c, i - 1), chunks[i])
  <2> HIDE DEF chunks
  <2> QED  BY <1>1, CanSendIs
<1>3. \A i \in 1..s : CanSeal(Advanced(c, i - 1), chunks[i])
  <2>1. 1..s \subseteq 1..CanSend(x, chunks)
    BY <1>2
  <2> QED  BY <1>2, <2>1
<1>4. IsCipherState(c) /\ CountsUpTo(used[x], c.nonce)
  BY DEF NonceInv
<1>5. c.nonce \in Nat /\ NonceReserved \in Nat
  BY <1>4, NoiseAssumption DEF IsCipherState
<1>6. send' = [send EXCEPT ![x] = Advanced(@, s)]
  BY DEF WritesRecords
<1>7. used' = [used EXCEPT ![x] = @ \o [i \in 1..s |-> Advanced(send[x], i - 1).nonce]]
  BY DEF WritesRecords
<1>8. DOMAIN send = Sides /\ DOMAIN used = Sides
  BY DEF NonceInv
<1> DEFINE f == [i \in 1..s |-> Advanced(send[x], i - 1).nonce]
<1>9. /\ send'[x] = Advanced(c, s) /\ used'[x] = used[x] \o f
      /\ \A y \in Sides : y # x => send'[y] = send[y] /\ used'[y] = used[y]
      /\ send' = [y \in Sides |-> send'[y]] /\ used' = [y \in Sides |-> used'[y]]
  <2> HIDE DEF f
  <2> QED  BY <1>6, <1>7, <1>8 DEF f
<1>10. c.nonce + s <= NonceReserved
  <2> HIDE DEF c, chunks
  <2> QED  BY <1>3, <1>4, SealingStaysBelow
<1>11. Advanced(c, s) = [key |-> c.key, nonce |-> c.nonce + s]
  <2> HIDE DEF c
  <2> QED  BY <1>4, <1>10, NoWrap
<1>12. ASSUME NEW i \in 1..s PROVE Advanced(c, i - 1).nonce = c.nonce + i - 1
  <2>1. i - 1 \in Nat /\ c.nonce + (i - 1) <= NonceReserved
    BY <1>5, <1>10
  <2>2. Advanced(c, i - 1) = [key |-> c.key, nonce |-> c.nonce + (i - 1)]
    <3> HIDE DEF c
    <3> QED  BY <1>4, <2>1, NoWrap
  <2>3. Advanced(c, i - 1).nonce = c.nonce + (i - 1)
    BY <2>2
  <2> QED  BY <1>5, <2>3
<1>13. f = [i \in 1..s |-> c.nonce + i - 1]
  BY <1>12
<1>14. CountsUpTo(used[x] \o f, c.nonce + s)
  <2> HIDE DEF c, f
  <2> QED  BY <1>4, <1>5, <1>13, CountsOn
<1>15. IsCipherState(Advanced(c, s)) /\ Advanced(c, s).nonce = c.nonce + s
  BY <1>5, <1>10, <1>11 DEF IsCipherState
<1>16. IsCipherState(send'[x]) /\ CountsUpTo(used'[x], send'[x].nonce)
  BY ONLY <1>9, <1>14, <1>15
<1>17. \A y \in Sides : y # x => IsCipherState(send'[y]) /\ CountsUpTo(used'[y], send'[y].nonce)
  BY <1>9 DEF NonceInv
<1> QED  BY <1>9, <1>16, <1>17

-----------------------------------------------------------------------------
(* The states that begin a connection. *)
LEMMA NonceInvInit == Init => NonceInv
<1> SUFFICES ASSUME Init PROVE NonceInv
  OBVIOUS
<1>1. send = [x \in Sides |-> [key |-> <<>>, nonce |-> 0]]
  BY DEF Init, newCipherState
<1>2. \A x \in Sides : IsCipherState(send[x]) /\ send[x].nonce = 0
  BY <1>1, NoiseAssumption DEF IsCipherState
<1>3. used = [x \in Sides |-> <<>>] /\ place = [x \in Sides |-> "start"]
  BY DEF Init
<1>4. CountsUpTo(<<>>, 0)
  BY DEF CountsUpTo
<1> QED  BY <1>1, <1>2, <1>3, <1>4 DEF NonceInv

(* A step that seals nothing and opens no side. *)
LEMMA QuietStep ==
  ASSUME NonceInv, UNCHANGED <<send, used>>,
         place' \in [Sides -> {"start", "answer", "open", "closed"}],
         \A x \in Sides : place'[x] \in {"start", "answer"} => place[x] \in {"start", "answer"}
  PROVE  NonceInv'
BY DEF NonceInv

(* A handshake that ends gives its side a state that has sealed nothing. *)
LEMMA OpenedStep ==
  ASSUME NonceInv, NEW x \in Sides, NEW h, Opened(x, h), place[x] \in {"start", "answer"},
         UNCHANGED used
  PROVE  NonceInv'
<1>1. used[x] = <<>>
  BY DEF NonceInv
<1>2. \E k : Split(h).send = [key |-> k, nonce |-> 0]
  <2>1. \/ Split(h).send = newCipherState(hkdfExpand(h.sym.ck, <<"end", "none">>, 1))
        \/ Split(h).send = newCipherState(hkdfExpand(h.sym.ck, <<"end", "none">>, 2))
    BY DEF Split
  <2> QED  BY <2>1 DEF newCipherState
<1>3. PICK k : Split(h).send = [key |-> k, nonce |-> 0]
  BY <1>2
<1>4. /\ send' = [send EXCEPT ![x] = [key |-> k, nonce |-> 0]]
      /\ place' = [place EXCEPT ![x] = "open"]
  BY <1>3 DEF Opened
<1>5. DOMAIN send = Sides
  BY DEF NonceInv
<1>6. /\ send'[x] = [key |-> k, nonce |-> 0]
      /\ \A y \in Sides : y # x => send'[y] = send[y]
      /\ send' = [y \in Sides |-> send'[y]]
  BY <1>4, <1>5
<1>7. IsCipherState(send'[x]) /\ send'[x].nonce = 0
  BY <1>6, NoiseAssumption DEF IsCipherState
<1>8. CountsUpTo(<<>>, 0)
  BY DEF CountsUpTo
<1>9. /\ place' \in [Sides -> {"start", "answer", "open", "closed"}]
      /\ place'[x] = "open" /\ \A y \in Sides : y # x => place'[y] = place[y]
  BY <1>4 DEF NonceInv
<1>10. CountsUpTo(used'[x], send'[x].nonce)
  BY <1>1, <1>7, <1>8
<1>11. \A y \in Sides : y # x => IsCipherState(send'[y]) /\ CountsUpTo(used'[y], send'[y].nonce)
  BY <1>6 DEF NonceInv
<1> QED  BY <1>6, <1>7, <1>9, <1>10, <1>11 DEF NonceInv

(* A write by an open side, which it may close. *)
LEMMA WritingStep ==
  ASSUME NonceInv, NEW x \in Sides, NEW bytes, Len(bytes) \in Nat, NEW n, NEW tail,
         NEW s \in Nat, s <= CanSend(x, Chunks(bytes)),
         WritesRecords(x, bytes, n, s, tail), place[x] = "open",
         NEW p \in {"open", "closed"}, place' = [place EXCEPT ![x] = p]
  PROVE  NonceInv'
<1>1. /\ send' = [y \in Sides |-> send'[y]] /\ used' = [y \in Sides |-> used'[y]]
      /\ \A y \in Sides : IsCipherState(send'[y])
      /\ \A y \in Sides : CountsUpTo(used'[y], send'[y].nonce)
      /\ \A y \in Sides : y # x => used'[y] = used[y]
  BY WritingCountsOn
<1>2. /\ place' \in [Sides -> {"start", "answer", "open", "closed"}]
      /\ place'[x] \in {"open", "closed"} /\ \A y \in Sides : y # x => place'[y] = place[y]
  BY DEF NonceInv
<1>3. \A y \in Sides : place'[y] \in {"start", "answer"} => used'[y] = <<>>
  BY <1>1, <1>2 DEF NonceInv
<1> QED  BY <1>1, <1>2, <1>3 DEF NonceInv

(* Every step keeps the invariant. *)
LEMMA NonceInvNext ==
  ASSUME NonceInv, [Next]_vars
  PROVE  NonceInv'
<1>a. place \in [Sides -> {"start", "answer", "open", "closed"}]
  BY DEF NonceInv
<1>1. CASE Initiate
  <2>1. place' = [place EXCEPT !["client"] = "answer"] /\ place["client"] = "start"
    BY <1>1 DEF Initiate
  <2>2. UNCHANGED <<send, used>>
    BY <1>1 DEF Initiate, Unread
  <2> QED  BY <1>a, <2>1, <2>2, QuietStep DEF Sides
<1>2. CASE Respond
  <2>1. PICK h : Opened("server", h)
    BY <1>2 DEF Respond
  <2>2. place["server"] = "start" /\ UNCHANGED used
    BY <1>2 DEF Respond, Unread
  <2> QED  BY <2>1, <2>2, OpenedStep DEF Sides
<1>3. CASE Complete
  <2>1. PICK h : Opened("client", h)
    BY <1>3 DEF Complete
  <2>2. place["client"] = "answer" /\ UNCHANGED used
    BY <1>3 DEF Complete, Unread
  <2> QED  BY <2>1, <2>2, OpenedStep DEF Sides
<1>4. ASSUME NEW x \in Sides, Closes(x), UNCHANGED <<send, used>> PROVE NonceInv'
  <2>1. place' = [place EXCEPT ![x] = "closed"]
    BY <1>4 DEF Closes
  <2> QED  BY <1>a, <1>4, <2>1, QuietStep
<1>5. ASSUME UNCHANGED <<place, send, used>> PROVE NonceInv'
  BY <1>5 DEF NonceInv
<1>6. ASSUME NEW x \in Sides,
             HandshakeFails(x) \/ RefuseRecord(x) \/ RefuseMessage(x) \/ EndOfStream(x)
               \/ Close(x)
      PROVE  NonceInv'
  BY <1>4, <1>6 DEF HandshakeFails, RefuseRecord, RefuseMessage, EndOfStream, Close, Refuses,
                    Unread
<1>7. ASSUME NEW x \in Sides, ReadRecord(x) \/ NextMessage(x) \/ Disturb(x)
      PROVE  NonceInv'
  BY <1>5, <1>7 DEF ReadRecord, NextMessage, Disturb
<1>8. ASSUME NEW x \in Sides, place[x] = "open", NEW bytes, Len(bytes) \in Nat, NEW tail,
             UNCHANGED place,
             WritesRecords(x, bytes, Len(Chunks(bytes)), Len(Chunks(bytes)), tail),
             CanSend(x, Chunks(bytes)) = Len(Chunks(bytes))
      PROVE  NonceInv'
  <2> DEFINE k == Len(Chunks(bytes))
  <2>1. k \in Nat
    BY <1>8, ChunksAreCounted
  <2>2. place' = [place EXCEPT ![x] = "open"]
    BY <1>8, <1>a
  <2>3. k <= CanSend(x, Chunks(bytes)) /\ WritesRecords(x, bytes, k, k, tail)
    BY <1>8, <2>1
  <2> HIDE DEF k
  <2> QED  BY <1>8, <2>1, <2>2, <2>3, WritingStep
<1>9. ASSUME NEW x \in Sides, NEW src \in Says[x], Say(x, src) PROVE NonceInv'
  <2> DEFINE b == Encode(MessageOf(src))
  <2>1. Len(b) \in Nat
    BY <1>9, EncodingCounted DEF Say
  <2>2. /\ place[x] = "open" /\ UNCHANGED place
        /\ WritesRecords(x, b, Len(Chunks(b)), Len(Chunks(b)), <<>>)
        /\ CanSend(x, Chunks(b)) = Len(Chunks(b))
    BY <1>9 DEF Say
  <2> HIDE DEF b
  <2> QED  BY <1>8, <2>1, <2>2
<1>10. ASSUME NEW x \in Sides, NEW src \in Says[x], SayInPart(x, src) PROVE NonceInv'
  <2> DEFINE m == MessageOf(src)
             b == Encode(m)
             most == CanSend(x, Chunks(b))
             p == IF m.kind = "HELLO" THEN "closed" ELSE "open"
  <2>1. Len(b) \in Nat
    BY <1>10, EncodingCounted DEF SayInPart
  <2>2. place[x] = "open" /\ place' = [place EXCEPT ![x] = p]
    BY <1>10 DEF SayInPart
  <2>3. \/ \E n \in 0..(most - 1), tail \in {<<>>, <<CutShort>>} :
             WritesRecords(x, b, n, n + 1, tail)
        \/ WritesRecords(x, b, most, most, <<>>)
    BY <1>10 DEF SayInPart
  <2>4. p \in {"open", "closed"}
    OBVIOUS
  <2>5. most \in Nat
    <3>1. Len(Chunks(b)) \in Nat
      BY <2>1, ChunksAreCounted
    <3> QED  BY <3>1, CanSendIs
  <2> HIDE DEF p, b, m
  <2>6. ASSUME NEW n \in 0..(most - 1), NEW tail, WritesRecords(x, b, n, n + 1, tail)
        PROVE  NonceInv'
    <3>1. n + 1 \in Nat /\ n + 1 <= most
      BY <2>5
    <3> DEFINE s == n + 1
    <3>2. s \in Nat /\ s <= CanSend(x, Chunks(b)) /\ WritesRecords(x, b, n, s, tail)
      BY <2>6, <3>1
    <3> HIDE DEF s
    <3> QED  BY <2>1, <2>2, <2>4, <3>2, WritingStep
  <2>7. ASSUME WritesRecords(x, b, most, most, <<>>) PROVE NonceInv'
    <3>1. most <= CanSend(x, Chunks(b))
      BY <2>5
    <3> HIDE DEF most
    <3> QED  BY <2>1, <2>2, <2>4, <2>5, <2>7, <3>1, WritingStep
  <2> QED  BY <2>3, <2>6, <2>7
<1>11. ASSUME NEW bytes \in Strays, SayStray(bytes) PROVE NonceInv'
  <2>1. Len(bytes) \in Nat
    BY EncodingCounted
  <2>2. /\ place["server"] = "open" /\ UNCHANGED place
        /\ WritesRecords("server", bytes, Len(Chunks(bytes)), Len(Chunks(bytes)), <<>>)
        /\ CanSend("server", Chunks(bytes)) = Len(Chunks(bytes))
    BY <1>11 DEF SayStray
  <2>3. "server" \in Sides
    BY DEF Sides
  <2> QED  BY <1>8, <2>1, <2>2, <2>3
<1>12. CASE Over \/ UNCHANGED vars
  BY <1>5, <1>12 DEF Over, vars
<1> QED  BY <1>1, <1>2, <1>3, <1>6, <1>7, <1>9, <1>10, <1>11, <1>12 DEF Next

(***************************************************************************)
(* No counter seals two records under one key, whatever is written, in     *)
(* part or whole, however short the counter and whatever the carrier does  *)
(* (state.go, seal; record.go, RecordWriter.Write).                        *)
(***************************************************************************)
THEOREM CountersAreFresh == Spec => []NonceNeverReused
<1>1. NonceInv => NonceNeverReused
  <2> SUFFICES ASSUME NonceInv, NEW x \in Sides PROVE IsInjective(used[x])
    BY DEF NonceNeverReused
  <2>1. used[x] \in Seq(Nat) /\ \A i \in 1..Len(used[x]) : used[x][i] = i - 1
    BY DEF NonceInv, CountsUpTo
  <2>2. DOMAIN used[x] = 1..Len(used[x]) /\ Len(used[x]) \in Nat
    BY <2>1
  <2> QED  BY <2>1, <2>2 DEF IsInjective
<1>2. Spec => []NonceInv
  BY NonceInvInit, NonceInvNext, PTL DEF Spec
<1> QED  BY <1>1, <1>2, PTL

-----------------------------------------------------------------------------
(* What the handshake derives, in closed form.  Output i of the HKDF over the
   secret: 1 is the chaining key, 2 is hashed. *)
PskOut(psk, i) == hkdfExpand(ProtocolName, <<"psk", psk>>, i)

(* After the initiator's message with the ephemeral e: its chaining key, or the key
   that its payload is sealed with. *)
FirstOut(psk, e, i) == hkdfExpand(PskOut(psk, 1), <<"e", e>>, i)

(* What has been hashed by then. *)
FirstHash(psk, v, e) ==
  Append(Append(Append(ProtocolName, <<"preamble", v>>), PskOut(psk, 2)), <<"e", e>>)

(* The same of the responder's message with the ephemeral f. *)
SecondOut(psk, e, f, shared, i) ==
  hkdfExpand(hkdfExpand(FirstOut(psk, e, 1), <<"e", f>>, 1), <<"ee", shared>>, i)

(* The chaining key that both sides end with when nothing was tampered with. *)
FinalKey(psk) == SecondOut(psk, "client", "server", {"client", "server"}, 1)

(* A sealed text, whole or spoilt. *)
IsBox(b) ==
  b = [key |-> b.key, nonce |-> b.nonce, ad |-> b.ad, text |-> b.text, intact |-> b.intact]

(* What a box in a handshake message to side x that nobody has spoilt says of p,
   the two sides.  The responder has only answered an initiator like itself. *)
Genuine(p, x, b) ==
  /\ x = "server" => /\ b.key = FirstOut(p["client"].psk, "client", 2)
                     /\ b.ad = FirstHash(p["client"].psk, p["client"].version, "client")
                     /\ b.text = <<>> /\ b.intact = TRUE
  /\ x = "client" => /\ p["client"] = p["server"]
                     /\ b.key = SecondOut(p["server"].psk, "client", "server",
                                          {"client", "server"}, 2)

(* What may be on its way to side x. *)
Carried(p, x, item) ==
  \/ /\ item.is = "preamble"
     /\ item = [is |-> "preamble", magic |-> item.magic, version |-> item.version]
  \/ /\ item.is = "frame"
     /\ item = [is |-> "frame", e |-> item.e, box |-> item.box]
     /\ IsBox(item.box) /\ (item.box.intact => Genuine(p, x, item.box))
  \/ /\ item.is = "record"
     /\ item = [is |-> "record", box |-> item.box] /\ IsBox(item.box)
  \/ item = CutShort

(* The carrier holds nothing else on the way to side x. *)
Flows(p, x, s) ==
  /\ s \in Seq(ToSet(s))
  /\ \A item \in ToSet(s) : Carried(p, x, item)

(* The handshake that side x begins with. *)
Fresh(p, x) == NewHandshake(x = "client", p[x].psk, <<"preamble", p[x].version>>)

(* The initiator's message. *)
FirstFrame(p) == Frame(HandshakeMessage(Fresh(p, "client"), "client"))

(* The keys that side x, when it is open, has of a peer like itself. *)
HasKeys(p, x) ==
  LET out(i) == hkdfExpand(FinalKey(p[x].psk), <<"end", "none">>, i) IN
  /\ p["client"] = p["server"]
  /\ send[x].key = out(IF x = "client" THEN 1 ELSE 2)
  /\ receive[x].key = out(IF x = "client" THEN 2 ELSE 1)

(***************************************************************************)
(* The inductive invariant: the handshakes under way are the ones the code *)
(* made, every handshake message on its way that nobody spoilt is genuine, *)
(* and an open side has the keys of a peer like itself.                    *)
(***************************************************************************)
KeyInv ==
  /\ peer \in Peerings
  /\ DOMAIN hs = Sides /\ DOMAIN net = Sides /\ DOMAIN receive = Sides
  /\ \A x \in Sides : receive[x] = [key |-> receive[x].key, nonce |-> receive[x].nonce]
  /\ \A x \in Sides : place[x] = "start" => hs[x] = Fresh(peer, x)
  /\ place["client"] = "answer" => hs["client"] = WriteMessage(Fresh(peer, "client"), "client")
  /\ place["server"] # "answer"
  /\ \A x \in Sides : Flows(peer, x, net[x])
  /\ \A x \in Sides : place[x] = "open" => HasKeys(peer, x)
-----------------------------------------------------------------------------
(* The HKDF is taken to be ideal: an output tells what it was derived from. *)
LEMMA HkdfTells ==
  ASSUME NEW S, NEW a \in Seq(S), NEW b \in Seq(S), NEW x, NEW y, NEW i, NEW j,
         hkdfExpand(a, x, i) = hkdfExpand(b, y, j)
  PROVE  a = b /\ x = y /\ i = j
<1> DEFINE T == S \cup {x, y, i, j}
<1>1. a \in Seq(T) /\ b \in Seq(T)
  OBVIOUS
<1>2. <<x, i>> \in Seq(T) /\ <<y, j>> \in Seq(T)
  OBVIOUS
<1> HIDE DEF T
<1>3. a \o <<x, i>> = b \o <<y, j>>
  BY DEF hkdfExpand
<1>4. /\ Len(a \o <<x, i>>) = Len(a) + 2
      /\ \A k \in 1..Len(a) : (a \o <<x, i>>)[k] = a[k]
      /\ (a \o <<x, i>>)[Len(a) + 1] = x /\ (a \o <<x, i>>)[Len(a) + 2] = i
  BY <1>1, <1>2, ConcatProperties
<1>5. /\ Len(b \o <<y, j>>) = Len(b) + 2
      /\ \A k \in 1..Len(b) : (b \o <<y, j>>)[k] = b[k]
      /\ (b \o <<y, j>>)[Len(b) + 1] = y /\ (b \o <<y, j>>)[Len(b) + 2] = j
  BY <1>1, <1>2, ConcatProperties
<1>6. Len(a) \in Nat /\ Len(b) \in Nat
  OBVIOUS
<1>7. Len(a) = Len(b)
  BY <1>3, <1>4, <1>5, <1>6
<1>8. \A k \in 1..Len(a) : a[k] = b[k]
  BY <1>3, <1>4, <1>5, <1>7
<1>9. a = b
  BY <1>7, <1>8
<1> QED  BY <1>3, <1>4, <1>5, <1>7, <1>9

(* And it is a sequence. *)
LEMMA HkdfIsSeq ==
  ASSUME NEW S, NEW a \in Seq(S), NEW x \in S, NEW i \in S
  PROVE  hkdfExpand(a, x, i) \in Seq(S)
<1>1. <<x, i>> \in Seq(S)
  OBVIOUS
<1> QED  BY <1>1, ConcatProperties DEF hkdfExpand

(* A symmetric state with another chaining key and another cipher state. *)
LEMMA Rekeyed ==
  ASSUME NEW H, NEW C, NEW X, NEW u, NEW w, NEW s, s = [h |-> H, ck |-> C, cipher |-> X]
  PROVE  [s EXCEPT !.ck = u, !.cipher = w] = [h |-> H, ck |-> u, cipher |-> w]
<1> DEFINE t == [s EXCEPT !.ck = u]
<1>1. t = [h |-> H, ck |-> u, cipher |-> X]
  OBVIOUS
<1>2. [s EXCEPT !.ck = u, !.cipher = w] = [t EXCEPT !.cipher = w]
  OBVIOUS
<1> HIDE DEF t
<1>3. [t EXCEPT !.cipher = w] = [h |-> H, ck |-> u, cipher |-> w]
  BY <1>1
<1> QED  BY <1>2, <1>3

(* What the operations of the symmetric state make of its three parts: mixHash. *)
LEMMA MixHashIs ==
  ASSUME NEW H, NEW C, NEW X, NEW d, NEW s, s = [h |-> H, ck |-> C, cipher |-> X]
  PROVE  mixHash(s, d) = [h |-> Append(H, d), ck |-> C, cipher |-> X]
BY DEF mixHash

(* mixKey. *)
LEMMA MixKeyIs ==
  ASSUME NEW H, NEW C, NEW X, NEW d, NEW s, s = [h |-> H, ck |-> C, cipher |-> X]
  PROVE  mixKey(s, d) = [h |-> H, ck |-> hkdfExpand(C, d, 1),
                         cipher |-> [key |-> hkdfExpand(C, d, 2), nonce |-> 0]]
<1> DEFINE u == hkdfExpand(C, d, 1)
           w == [key |-> hkdfExpand(C, d, 2), nonce |-> 0]
<1>1. mixKey(s, d) = [s EXCEPT !.ck = u, !.cipher = w]
  BY DEF mixKey, newCipherState
<1> HIDE DEF u, w
<1>2. mixKey(s, d) = [h |-> H, ck |-> u, cipher |-> w]
  BY <1>1, Rekeyed
<1> QED  BY <1>2 DEF u, w

(* mixKeyAndHash. *)
LEMMA MixKeyAndHashIs ==
  ASSUME NEW H, NEW C, NEW X, NEW d, NEW s, s = [h |-> H, ck |-> C, cipher |-> X]
  PROVE  mixKeyAndHash(s, d) =
           [h |-> Append(H, hkdfExpand(C, d, 2)), ck |-> hkdfExpand(C, d, 1),
            cipher |-> [key |-> hkdfExpand(C, d, 3), nonce |-> 0]]
<1> DEFINE u == hkdfExpand(C, d, 1)
           w == [key |-> hkdfExpand(C, d, 3), nonce |-> 0]
           z == hkdfExpand(C, d, 2)
           t == mixHash(s, z)
           G == Append(H, z)
<1>1. mixKeyAndHash(s, d) = [t EXCEPT !.ck = u, !.cipher = w]
  BY DEF mixKeyAndHash, newCipherState
<1>2. t = [h |-> G, ck |-> C, cipher |-> X]
  <2> HIDE DEF z
  <2> QED  BY MixHashIs
<1> HIDE DEF u, w, t, G
<1>3. mixKeyAndHash(s, d) = [h |-> G, ck |-> u, cipher |-> w]
  BY <1>1, <1>2, Rekeyed
<1> QED  BY <1>3 DEF u, w, G

(* What encryptAndHash and decryptAndHash leave behind. *)
LEMMA HashedIs ==
  ASSUME NEW H, NEW C, NEW X, NEW d, NEW s, s = [h |-> H, ck |-> C, cipher |-> X]
  PROVE  Hashed(s, d) = [h |-> Append(H, d), ck |-> C, cipher |-> Advanced(X, 1)]
<1> DEFINE t == mixHash(s, d)
           G == Append(H, d)
<1>1. t = [h |-> G, ck |-> C, cipher |-> X]
  BY MixHashIs
<1>2. Hashed(s, d) = [t EXCEPT !.cipher = Advanced(@, 1)]
  BY DEF Hashed
<1> HIDE DEF t, G
<1>3. t.cipher = X
  BY <1>1
<1>4. Hashed(s, d) = [t EXCEPT !.cipher = Advanced(X, 1)]
  BY <1>2, <1>3
<1> DEFINE w == Advanced(X, 1)
<1> HIDE DEF w
<1>5. [t EXCEPT !.cipher = w] = [h |-> G, ck |-> C, cipher |-> w]
  BY <1>1
<1> QED  BY <1>4, <1>5 DEF w, G

(* The first message, on either side. *)
LEMMA FirstTokens ==
  ASSUME NEW g, NEW psk, NEW v, NEW e, NEW shared,
         g.step = 0, g.psk = psk, g.sym = newSymmetric(<<"preamble", v>>)
  PROVE  Tokens(g, e, shared) =
           [h |-> FirstHash(psk, v, e), ck |-> FirstOut(psk, e, 1),
            cipher |-> [key |-> FirstOut(psk, e, 2), nonce |-> 0]]
<1> DEFINE X == newCipherState(<<>>)
           P == <<"psk", psk>>
           E == <<"e", e>>
           V == <<"preamble", v>>
           s0 == g.sym
           s1 == mixKeyAndHash(s0, P)
           s2 == mixHash(s1, E)
           s3 == mixKey(s2, E)
           H1 == Append(Append(ProtocolName, V), hkdfExpand(ProtocolName, P, 2))
           X1 == [key |-> hkdfExpand(ProtocolName, P, 3), nonce |-> 0]
           C1 == hkdfExpand(ProtocolName, P, 1)
<1>1. s0 = [h |-> Append(ProtocolName, V), ck |-> ProtocolName, cipher |-> X]
  <2> DEFINE s == [h |-> ProtocolName, ck |-> ProtocolName, cipher |-> X]
  <2>1. s0 = mixHash(s, V)
    BY DEF newSymmetric
  <2> HIDE DEF X, V, s0
  <2> QED  BY <2>1, MixHashIs
<1>2. s1 = [h |-> H1, ck |-> C1, cipher |-> X1]
  <2> DEFINE H0 == Append(ProtocolName, V)
  <2>1. s0 = [h |-> H0, ck |-> ProtocolName, cipher |-> X]
    BY <1>1
  <2> HIDE DEF H0, X, P, V, s0
  <2>2. s1 = [h |-> Append(H0, hkdfExpand(ProtocolName, P, 2)),
              ck |-> hkdfExpand(ProtocolName, P, 1),
              cipher |-> [key |-> hkdfExpand(ProtocolName, P, 3), nonce |-> 0]]
    BY ONLY <2>1, MixKeyAndHashIs, SMTT(20)
  <2> QED  BY <2>2 DEF H0
<1>3. s2 = [h |-> Append(H1, E), ck |-> C1, cipher |-> X1]
  <2> HIDE DEF s1, H1, C1, X1, E
  <2> QED  BY ONLY <1>2, MixHashIs
<1>4. s3 = [h |-> Append(H1, E), ck |-> hkdfExpand(C1, E, 1),
            cipher |-> [key |-> hkdfExpand(C1, E, 2), nonce |-> 0]]
  <2> DEFINE H2 == Append(H1, E)
  <2>1. s2 = [h |-> H2, ck |-> C1, cipher |-> X1]
    BY <1>3
  <2> HIDE DEF s2, H2, C1, X1, E
  <2>2. s3 = [h |-> H2, ck |-> hkdfExpand(C1, E, 1),
              cipher |-> [key |-> hkdfExpand(C1, E, 2), nonce |-> 0]]
    BY <2>1, MixKeyIs
  <2> QED  BY <2>2 DEF H2
<1>5. Tokens(g, e, shared) = s3
  <2> HIDE DEF s0, P, E
  <2> QED  BY DEF Tokens, s0, P, E
<1> QED  BY <1>4, <1>5 DEF FirstHash, FirstOut, PskOut

(* The second message, on either side. *)
LEMMA SecondTokens ==
  ASSUME NEW g, NEW H, NEW C, NEW X, NEW f, NEW shared,
         g.step = 1, g.sym = [h |-> H, ck |-> C, cipher |-> X]
  PROVE  \E h : Tokens(g, f, shared) =
           [h |-> h, ck |-> hkdfExpand(hkdfExpand(C, <<"e", f>>, 1), <<"ee", shared>>, 1),
            cipher |-> [key |-> hkdfExpand(hkdfExpand(C, <<"e", f>>, 1), <<"ee", shared>>, 2),
                        nonce |-> 0]]
<1> DEFINE F == <<"e", f>>
           D == <<"ee", shared>>
           s0 == g.sym
           s1 == mixHash(s0, F)
           s2 == mixKey(s1, F)
           s3 == mixKey(s2, D)
           H1 == Append(H, F)
           C2 == hkdfExpand(C, F, 1)
           X2 == [key |-> hkdfExpand(C, F, 2), nonce |-> 0]
<1> HIDE DEF F, D, s0
<1>0. s0 = [h |-> H, ck |-> C, cipher |-> X]
  BY DEF s0
<1>1. s1 = [h |-> H1, ck |-> C, cipher |-> X]
  <2>1. mixHash(s0, F) = [h |-> Append(H, F), ck |-> C, cipher |-> X]
    BY ONLY <1>0, MixHashIs
  <2> QED  BY <2>1
<1> HIDE DEF H1, s1
<1>2. s2 = [h |-> H1, ck |-> C2, cipher |-> X2]
  BY <1>1, MixKeyIs
<1> HIDE DEF C2, X2, s2
<1>3. s3 = [h |-> H1, ck |-> hkdfExpand(C2, D, 1),
            cipher |-> [key |-> hkdfExpand(C2, D, 2), nonce |-> 0]]
  BY <1>2, MixKeyIs
<1> HIDE DEF s3
<1>4. Tokens(g, f, shared) = s3
  <2>1. Tokens(g, f, shared) =
          mixKey(mixKey(mixHash(g.sym, <<"e", f>>), <<"e", f>>), <<"ee", shared>>)
    BY DEF Tokens
  <2> QED  BY <2>1 DEF s3, s2, s1, s0, F, D
<1> QED  BY <1>3, <1>4 DEF C2, F, D

(* The key that the initiator's message is sealed with tells the secret and the
   ephemeral, and what it authenticates tells the version. *)
LEMMA FirstTells ==
  ASSUME NEW p, NEW q, NEW v, NEW w, NEW e, NEW f,
         FirstOut(p, e, 2) = FirstOut(q, f, 2), FirstHash(p, v, e) = FirstHash(q, w, f)
  PROVE  p = q /\ e = f /\ v = w
<1> DEFINE S == {"Noise_NNpsk0", <<"psk", p>>, <<"psk", q>>, 1, 2}
<1>1. ProtocolName \in Seq(S)
  BY DEF ProtocolName
<1>2. 1 \in S /\ 2 \in S /\ <<"psk", p>> \in S /\ <<"psk", q>> \in S
  OBVIOUS
<1> HIDE DEF S
<1>3. /\ PskOut(p, 1) \in Seq(S) /\ PskOut(q, 1) \in Seq(S)
      /\ PskOut(p, 2) \in Seq(S) /\ PskOut(q, 2) \in Seq(S)
  BY <1>1, <1>2, HkdfIsSeq DEF PskOut
<1>4. PskOut(p, 1) = PskOut(q, 1) /\ <<"e", e>> = <<"e", f>>
  <2> DEFINE E == <<"e", e>>
             F == <<"e", f>>
  <2>1. hkdfExpand(PskOut(p, 1), E, 2) = hkdfExpand(PskOut(q, 1), F, 2)
    BY DEF FirstOut
  <2> HIDE DEF E, F
  <2>2. PskOut(p, 1) = PskOut(q, 1) /\ E = F
    BY <1>3, <2>1, HkdfTells
  <2> QED  BY <2>2 DEF E, F
<1>5. <<"psk", p>> = <<"psk", q>>
  <2> DEFINE P == <<"psk", p>>
             Q == <<"psk", q>>
  <2>1. hkdfExpand(ProtocolName, P, 1) = hkdfExpand(ProtocolName, Q, 1)
    BY <1>4 DEF PskOut
  <2> HIDE DEF P, Q
  <2>2. P = Q
    BY <1>1, <2>1, HkdfTells
  <2> QED  BY <2>2 DEF P, Q
<1>6. <<"preamble", v>> = <<"preamble", w>>
  <2> DEFINE V == <<"preamble", v>>
             W == <<"preamble", w>>
             E == <<"e", e>>
             F == <<"e", f>>
             T == S \cup {V, W, E, F, PskOut(p, 2), PskOut(q, 2)}
  <2>1. V \in T /\ W \in T /\ E \in T /\ F \in T /\ PskOut(p, 2) \in T /\ PskOut(q, 2) \in T
    OBVIOUS
  <2>2. ProtocolName \in Seq(T)
    BY <1>1
  <2>3. Append(Append(Append(ProtocolName, V), PskOut(p, 2)), E)
          = Append(Append(Append(ProtocolName, W), PskOut(q, 2)), F)
    BY DEF FirstHash
  <2> HIDE DEF V, W, E, F, T
  <2>4. Append(ProtocolName, V) \in Seq(T) /\ Append(ProtocolName, W) \in Seq(T)
    BY <2>1, <2>2, AppendProperties
  <2>5. /\ Append(Append(ProtocolName, V), PskOut(p, 2)) \in Seq(T)
        /\ Append(Append(ProtocolName, W), PskOut(q, 2)) \in Seq(T)
    BY <2>1, <2>4, AppendProperties
  <2>6. Append(Append(ProtocolName, V), PskOut(p, 2))
          = Append(Append(ProtocolName, W), PskOut(q, 2))
    BY <2>1, <2>3, <2>5, AppendInjective
  <2>7. Append(ProtocolName, V) = Append(ProtocolName, W)
    BY <2>1, <2>4, <2>6, AppendInjective
  <2>8. V = W
    BY <2>1, <2>2, <2>7, AppendInjective
  <2> QED  BY <2>8 DEF V, W
<1> QED  BY <1>4, <1>5, <1>6

(* The key of the responder's message tells the chaining key it was made with, for
   which the whole message before it and both ephemerals were absorbed. *)
LEMMA SecondTells ==
  ASSUME NEW psk, NEW e, NEW f, NEW g, NEW k, NEW m,
         SecondOut(psk, e, f, k, 2) = SecondOut(psk, e, g, m, 2)
  PROVE  SecondOut(psk, e, f, k, 1) = SecondOut(psk, e, g, m, 1)
<1> DEFINE F == <<"e", f>>
           G == <<"e", g>>
           E == <<"e", e>>
           P == <<"psk", psk>>
           K == <<"ee", k>>
           M == <<"ee", m>>
           S == {"Noise_NNpsk0", P, E, F, G, 1, 2}
           a == hkdfExpand(FirstOut(psk, e, 1), F, 1)
           b == hkdfExpand(FirstOut(psk, e, 1), G, 1)
<1>1. ProtocolName \in Seq(S)
  BY DEF ProtocolName
<1>2. 1 \in S /\ P \in S /\ E \in S /\ F \in S /\ G \in S
  OBVIOUS
<1>3. FirstOut(psk, e, 1) = hkdfExpand(hkdfExpand(ProtocolName, P, 1), E, 1)
  BY DEF FirstOut, PskOut
<1>4. hkdfExpand(a, K, 2) = hkdfExpand(b, M, 2)
  BY DEF SecondOut
<1> HIDE DEF S, P, E, F, G, K, M
<1>5. hkdfExpand(ProtocolName, P, 1) \in Seq(S)
  BY <1>1, <1>2, HkdfIsSeq
<1>6. FirstOut(psk, e, 1) \in Seq(S)
  BY <1>2, <1>3, <1>5, HkdfIsSeq
<1>7. a \in Seq(S) /\ b \in Seq(S)
  BY <1>2, <1>6, HkdfIsSeq
<1> HIDE DEF a, b
<1>8. a = b /\ K = M
  BY <1>4, <1>7, HkdfTells
<1> QED  BY <1>8 DEF a, b, K, M, F, G, SecondOut

(* The two directions have different keys. *)
LEMMA OutputsDiffer ==
  ASSUME NEW psk
  PROVE  hkdfExpand(FinalKey(psk), <<"end", "none">>, 1)
           # hkdfExpand(FinalKey(psk), <<"end", "none">>, 2)
<1> DEFINE F == <<"e", "server">>
           E == <<"e", "client">>
           P == <<"psk", psk>>
           K == <<"ee", {"client", "server"}>>
           N == <<"end", "none">>
           S == {"Noise_NNpsk0", P, E, F, K, 1}
           a == hkdfExpand(hkdfExpand(ProtocolName, P, 1), E, 1)
           b == hkdfExpand(hkdfExpand(a, F, 1), K, 1)
<1>1. ProtocolName \in Seq(S)
  BY DEF ProtocolName
<1>2. 1 \in S /\ P \in S /\ E \in S /\ F \in S /\ K \in S
  OBVIOUS
<1>3. FinalKey(psk) = b
  BY DEF FinalKey, SecondOut, FirstOut, PskOut
<1> HIDE DEF S, P, E, F, K, N
<1>4. hkdfExpand(ProtocolName, P, 1) \in Seq(S)
  BY <1>1, <1>2, HkdfIsSeq
<1>5. a \in Seq(S)
  BY <1>2, <1>4, HkdfIsSeq
<1> HIDE DEF a
<1>6. hkdfExpand(a, F, 1) \in Seq(S)
  BY <1>2, <1>5, HkdfIsSeq
<1>7. b \in Seq(S)
  BY <1>2, <1>6, HkdfIsSeq
<1> HIDE DEF b
<1>8. ASSUME hkdfExpand(b, N, 1) = hkdfExpand(b, N, 2) PROVE FALSE
  <2>1. 1 = 2
    BY <1>7, <1>8, HkdfTells
  <2> QED  BY <2>1
<1> QED  BY <1>3, <1>8 DEF N

-----------------------------------------------------------------------------
(* A stream is made of what it may carry. *)
LEMMA FlowsOver ==
  ASSUME NEW p, NEW x, NEW S, NEW s \in Seq(S), \A item \in S : Carried(p, x, item)
  PROVE  Flows(p, x, s)
<1>1. ToSet(s) \subseteq S
  BY DEF ToSet
<1>2. s \in Seq(ToSet(s))
  <2>1. \A i \in 1..Len(s) : s[i] \in ToSet(s)
    BY DEF ToSet
  <2> QED  BY <2>1
<1> QED  BY <1>1, <1>2 DEF Flows

(* One stream behind another. *)
LEMMA FlowsConcat ==
  ASSUME NEW p, NEW x, NEW s, Flows(p, x, s), NEW t, Flows(p, x, t)
  PROVE  Flows(p, x, s \o t)
<1> DEFINE S == ToSet(s) \cup ToSet(t)
<1>1. s \in Seq(S) /\ t \in Seq(S) /\ \A item \in S : Carried(p, x, item)
  BY DEF Flows
<1> HIDE DEF S
<1>2. s \o t \in Seq(S)
  BY <1>1, ConcatProperties
<1> QED  BY <1>1, <1>2, FlowsOver

(* A stretch of a stream. *)
LEMMA FlowsSubSeq ==
  ASSUME NEW p, NEW x, NEW s, Flows(p, x, s), NEW m \in Int, NEW n \in Int,
         m >= 1, n <= Len(s)
  PROVE  Flows(p, x, SubSeq(s, m, n))
<1> DEFINE S == ToSet(s)
<1>1. s \in Seq(S) /\ \A item \in S : Carried(p, x, item)
  BY DEF Flows
<1> HIDE DEF S
<1>2. \A i \in m..n : s[i] \in S
  BY <1>1
<1>3. SubSeq(s, m, n) \in Seq(S)
  BY <1>2, SubSeqProperties
<1> QED  BY <1>1, <1>3, FlowsOver

(* A stream whose first item has been read. *)
LEMMA FlowsTail ==
  ASSUME NEW p, NEW x, NEW s, Flows(p, x, s), s # <<>>
  PROVE  Flows(p, x, Tail(s))
<1> DEFINE S == ToSet(s)
<1>1. s \in Seq(S) /\ \A item \in S : Carried(p, x, item)
  BY DEF Flows
<1> HIDE DEF S
<1>2. Tail(s) \in Seq(S)
  BY <1>1, HeadTailProperties
<1> QED  BY <1>1, <1>2, FlowsOver

(* A stream of none, one or two items. *)
LEMMA FlowsFew ==
  ASSUME NEW p, NEW x, NEW a, Carried(p, x, a), NEW b, Carried(p, x, b)
  PROVE  Flows(p, x, <<>>) /\ Flows(p, x, <<a>>) /\ Flows(p, x, <<a, b>>)
<1> DEFINE S == {a, b}
<1>1. <<>> \in Seq(S) /\ <<a>> \in Seq(S) /\ <<a, b>> \in Seq(S)
  OBVIOUS
<1>2. \A item \in S : Carried(p, x, item)
  OBVIOUS
<1> HIDE DEF S
<1> QED  BY <1>1, <1>2, FlowsOver

(* A box whose intact is changed is a box. *)
LEMMA SpoiltBox ==
  ASSUME NEW c, IsBox(c), NEW f
  PROVE  IsBox([c EXCEPT !.intact = f]) /\ [c EXCEPT !.intact = f].intact = f
<1>1. PICK k, n, a, t, i :
        c = [key |-> k, nonce |-> n, ad |-> a, text |-> t, intact |-> i]
  BY DEF IsBox
<1>2. [c EXCEPT !.intact = f] =
        [key |-> k, nonce |-> n, ad |-> a, text |-> t, intact |-> f]
  BY <1>1
<1> QED  BY <1>2 DEF IsBox

(* Spoiling an item makes nothing genuine. *)
LEMMA SpoiltCarried ==
  ASSUME NEW p, NEW x, NEW item, Carried(p, x, item), NEW t \in Spoilt(item)
  PROVE  Carried(p, x, t)
<1>1. ASSUME item.is = "preamble",
             item = [is |-> "preamble", magic |-> item.magic, version |-> item.version]
      PROVE  Carried(p, x, t)
  <2>1. t = [item EXCEPT !.magic = FALSE] \/ t = [item EXCEPT !.version = (@ + 1) % Limit(1)]
    BY <1>1 DEF Spoilt
  <2>2. \E u, w : t = [is |-> "preamble", magic |-> u, version |-> w]
    BY <1>1, <2>1
  <2> QED  BY <2>2 DEF Carried
<1>2. ASSUME item.is = "frame",
             item = [is |-> "frame", e |-> item.e, box |-> item.box],
             IsBox(item.box), item.box.intact => Genuine(p, x, item.box)
      PROVE  Carried(p, x, t)
  <2>1. t = [item EXCEPT !.e = "spoilt"] \/ t = [item EXCEPT !.box.intact = FALSE]
    BY <1>2 DEF Spoilt
  <2>2. CASE t = [item EXCEPT !.e = "spoilt"]
    <3>1. t = [is |-> "frame", e |-> "spoilt", box |-> item.box]
      BY <1>2, <2>2
    <3> QED  BY <1>2, <3>1 DEF Carried
  <2>3. CASE t = [item EXCEPT !.box.intact = FALSE]
    <3> DEFINE b == [item.box EXCEPT !.intact = FALSE]
    <3>1. IsBox(b) /\ b.intact = FALSE
      BY <1>2, SpoiltBox
    <3>2. t = [item EXCEPT !.box = b]
      BY <2>3
    <3> HIDE DEF b
    <3>3. t = [is |-> "frame", e |-> item.e, box |-> b]
      BY <1>2, <3>2
    <3> QED  BY <3>1, <3>3 DEF Carried
  <2> QED  BY <2>1, <2>2, <2>3
<1>3. ASSUME item.is = "record", item = [is |-> "record", box |-> item.box], IsBox(item.box)
      PROVE  Carried(p, x, t)
  <2> DEFINE b == [item.box EXCEPT !.intact = FALSE]
  <2>0. IsBox(b)
    BY <1>3, SpoiltBox
  <2>1. t = [item EXCEPT !.box.intact = FALSE]
    BY <1>3 DEF Spoilt
  <2>2. t = [item EXCEPT !.box = b]
    BY <2>1
  <2> HIDE DEF b
  <2>3. t = [is |-> "record", box |-> b]
    BY <1>3, <2>2
  <2> QED  BY <2>0, <2>3 DEF Carried
<1>4. ASSUME item = CutShort PROVE Carried(p, x, t)
  <2>1. item.is = "cut"
    BY <1>4 DEF CutShort
  <2>2. t = item
    BY <2>1 DEF Spoilt
  <2> QED  BY <1>4, <2>2 DEF Carried
<1> QED  BY <1>1, <1>2, <1>3, <1>4 DEF Carried

(* A disturbed stream has the items it had, and spoilt ones. *)
LEMMA DisturbedOver ==
  ASSUME NEW S, NEW s \in Seq(S), \A i \in 1..Len(s) : Spoilt(s[i]) \subseteq S,
         NEW t \in Disturbed(s)
  PROVE  t \in Seq(S)
<1>1. Len(s) \in Nat /\ \A i \in 1..Len(s) : s[i] \in S
  OBVIOUS
<1>2. \A a \in Seq(S), b \in Seq(S) : a \o b \in Seq(S)
  OBVIOUS
<1>3. ASSUME NEW i \in 1..Len(s), NEW u \in Spoilt(s[i]), t = ReplaceAt(s, i, u)
      PROVE  t \in Seq(S)
  <2>1. t = [s EXCEPT ![i] = u] /\ u \in S
    BY <1>3 DEF ReplaceAt
  <2> QED  BY <2>1, ExceptSeq
<1>4. ASSUME NEW m \in Int, NEW n \in Int, m >= 1, n <= Len(s)
      PROVE  SubSeq(s, m, n) \in Seq(S)
  <2>1. \A i \in m..n : s[i] \in S
    BY <1>1, <1>4
  <2> QED  BY <2>1, SubSeqProperties
<1>5. ASSUME NEW i \in 1..Len(s) PROVE SubSeq(s, 1, i - 1) \in Seq(S)
  BY <1>1, <1>4
<1>6. ASSUME NEW i \in 1..(Len(s) + 2) PROVE SubSeq(s, i, Len(s)) \in Seq(S)
  BY <1>1, <1>4
<1>7. ASSUME NEW i \in 1..Len(s), t = RemoveAt(s, i) PROVE t \in Seq(S)
  <2>1. i + 1 \in 1..(Len(s) + 2)
    BY <1>1
  <2>2. t = SubSeq(s, 1, i - 1) \o SubSeq(s, i + 1, Len(s))
    BY <1>7 DEF RemoveAt
  <2> QED  BY <1>2, <1>5, <1>6, <2>1, <2>2
<1>8. ASSUME NEW i \in 1..Len(s), t = InsertAt(s, i, s[i]) PROVE t \in Seq(S)
  <2>1. i \in 1..(Len(s) + 2) /\ <<s[i]>> \in Seq(S)
    BY <1>1
  <2>2. t = (SubSeq(s, 1, i - 1) \o <<s[i]>>) \o SubSeq(s, i, Len(s))
    BY <1>8 DEF InsertAt
  <2> QED  BY <1>2, <1>5, <1>6, <2>1, <2>2
<1>10. ASSUME NEW i \in 1..(Len(s) - 1),
              t = SubSeq(s, 1, i - 1) \o <<s[i + 1], s[i]>> \o SubSeq(s, i + 2, Len(s))
       PROVE  t \in Seq(S)
  <2>1. i \in 1..Len(s) /\ i + 1 \in 1..Len(s) /\ i + 2 \in 1..(Len(s) + 2)
    BY <1>1
  <2>2. <<s[i + 1], s[i]>> \in Seq(S)
    BY <1>1, <2>1
  <2> QED  BY <1>2, <1>5, <1>6, <1>10, <2>1, <2>2
<1>9. \/ \E i \in 1..Len(s) : \E u \in Spoilt(s[i]) : t = ReplaceAt(s, i, u)
      \/ \E i \in 1..Len(s) : t = RemoveAt(s, i)
      \/ \E i \in 1..Len(s) : t = InsertAt(s, i, s[i])
      \/ \E i \in 1..(Len(s) - 1) :
           t = SubSeq(s, 1, i - 1) \o <<s[i + 1], s[i]>> \o SubSeq(s, i + 2, Len(s))
  <2> DEFINE A == {{ReplaceAt(s, i, u) : u \in Spoilt(s[i])} : i \in 1..Len(s)}
             B == {RemoveAt(s, i) : i \in 1..Len(s)}
             C == {InsertAt(s, i, s[i]) : i \in 1..Len(s)}
             D == {SubSeq(s, 1, i - 1) \o <<s[i + 1], s[i]>> \o SubSeq(s, i + 2, Len(s)) :
                     i \in 1..(Len(s) - 1)}
  <2>1. t \in (((UNION A) \cup B) \cup C) \cup D
    BY DEF Disturbed
  <2>2. ASSUME t \in UNION A
        PROVE  \E i \in 1..Len(s) : \E u \in Spoilt(s[i]) : t = ReplaceAt(s, i, u)
    BY <2>2, Zenon
  <2>3. ASSUME t \in B PROVE \E i \in 1..Len(s) : t = RemoveAt(s, i)
    BY <2>3, Zenon
  <2>4. ASSUME t \in C PROVE \E i \in 1..Len(s) : t = InsertAt(s, i, s[i])
    BY <2>4, Zenon
  <2>5. ASSUME t \in D
        PROVE  \E i \in 1..(Len(s) - 1) :
                 t = SubSeq(s, 1, i - 1) \o <<s[i + 1], s[i]>> \o SubSeq(s, i + 2, Len(s))
    BY <2>5, Zenon
  <2> HIDE DEF A, B, C, D
  <2> QED  BY <2>1, <2>2, <2>3, <2>4, <2>5
<1> QED  BY <1>3, <1>7, <1>8, <1>9, <1>10

(* Neither does losing, repeating or swapping items. *)
LEMMA DisturbedFlows ==
  ASSUME NEW p, NEW x, NEW s, Flows(p, x, s), NEW t \in Disturbed(s)
  PROVE  Flows(p, x, t)
<1> DEFINE U == UNION {Spoilt(s[i]) : i \in 1..Len(s)}
           S == ToSet(s) \cup U
<1>1. s \in Seq(ToSet(s)) /\ \A item \in ToSet(s) : Carried(p, x, item)
  BY DEF Flows
<1>2. \A i \in 1..Len(s) : Carried(p, x, s[i])
  BY <1>1
<1>3. \A i \in 1..Len(s) : Spoilt(s[i]) \subseteq U
  OBVIOUS
<1>4. \A item \in U : Carried(p, x, item)
  <2>1. \A item \in U : \E i \in 1..Len(s) : item \in Spoilt(s[i])
    BY Zenon
  <2> HIDE DEF U
  <2> QED  BY <1>2, <2>1, SpoiltCarried
<1> HIDE DEF U
<1>5. s \in Seq(S) /\ \A i \in 1..Len(s) : Spoilt(s[i]) \subseteq S
  BY <1>1, <1>3
<1>6. \A item \in S : Carried(p, x, item)
  BY <1>1, <1>4
<1> HIDE DEF S
<1>7. t \in Seq(S)
  BY <1>5, DisturbedOver
<1> QED  BY <1>6, <1>7, FlowsOver

-----------------------------------------------------------------------------
(* A handshake, written out. *)
HandshakeState(sym, initiator, psk, e, re, step, failed) ==
  [sym |-> sym, initiator |-> initiator, psk |-> psk, e |-> e, re |-> re, step |-> step,
   failed |-> failed]

(* What writing a message makes of it. *)
LEMMA WrittenIs ==
  ASSUME NEW s, NEW i, NEW psk, NEW e, NEW re, NEW n, NEW f, NEW g,
         g = HandshakeState(s, i, psk, e, re, n, f), NEW y, NEW T, T = Tokens(g, y, {y, re})
  PROVE  WriteMessage(g, y) =
           HandshakeState(Hashed(T, encryptAndHash(T)), i, psk, y, re, n + 1, f)
<1> DEFINE t == Hashed(T, encryptAndHash(T))
           h == WriteMessage(g, y)
<1>a. g.re = re
  BY DEF HandshakeState
<1>0. h = [g EXCEPT !.sym = t, !.e = y, !.step = @ + 1]
  BY <1>a DEF WriteMessage
<1> HIDE DEF t, h
<1> DEFINE g1 == [g EXCEPT !.sym = t]
           g2 == [g1 EXCEPT !.e = y]
<1>1. g1 = HandshakeState(t, i, psk, e, re, n, f)
  BY DEF HandshakeState
<1>2. h = [g2 EXCEPT !.step = @ + 1]
  BY <1>0
<1> HIDE DEF g1
<1>3. g2 = HandshakeState(t, i, psk, y, re, n, f)
  BY <1>1 DEF HandshakeState
<1> HIDE DEF g2
<1> DEFINE m == n + 1
<1>4. g2.step + 1 = m
  BY <1>3 DEF HandshakeState
<1> HIDE DEF m
<1>5. h = [g2 EXCEPT !.step = m]
  BY <1>2, <1>4
<1>6. [g2 EXCEPT !.step = m] = HandshakeState(t, i, psk, y, re, m, f)
  BY <1>3 DEF HandshakeState
<1> QED  BY <1>5, <1>6 DEF m, h, t

(* What reading a message that opens does: t and y are what it makes of the symmetric
   state, and the ephemeral in it. *)
ReadWith(g, t, y) == [g EXCEPT !.sym = t, !.re = y, !.step = @ + 1]

(* And what is in it then. *)
LEMMA ReadIs ==
  ASSUME NEW s, NEW i, NEW psk, NEW e, NEW re, NEW n, NEW f, NEW g,
         g = HandshakeState(s, i, psk, e, re, n, f), NEW t, NEW y
  PROVE  ReadWith(g, t, y) = HandshakeState(t, i, psk, e, y, n + 1, f)
<1> DEFINE h == ReadWith(g, t, y)
<1>0. h = [g EXCEPT !.sym = t, !.re = y, !.step = @ + 1]
  BY DEF ReadWith
<1> HIDE DEF h
<1> DEFINE g1 == [g EXCEPT !.sym = t]
           g2 == [g1 EXCEPT !.re = y]
<1>1. g1 = HandshakeState(t, i, psk, e, re, n, f)
  BY DEF HandshakeState
<1>2. h = [g2 EXCEPT !.step = @ + 1]
  BY <1>0
<1> HIDE DEF g1
<1>3. g2 = HandshakeState(t, i, psk, e, y, n, f)
  BY <1>1 DEF HandshakeState
<1> HIDE DEF g2
<1> DEFINE m == n + 1
<1>4. g2.step + 1 = m
  BY <1>3 DEF HandshakeState
<1> HIDE DEF m
<1>5. h = [g2 EXCEPT !.step = m]
  BY <1>2, <1>4
<1>6. [g2 EXCEPT !.step = m] = HandshakeState(t, i, psk, e, y, m, f)
  BY <1>3 DEF HandshakeState
<1> QED  BY <1>5, <1>6 DEF m, h

(* What reading one that does not open does. *)
LEMMA ReadFails ==
  ASSUME NEW s, NEW i, NEW psk, NEW e, NEW re, NEW n, NEW f, NEW g,
         g = HandshakeState(s, i, psk, e, re, n, f), NEW m1, NEW T,
         T = Tokens(g, m1.e, {e, m1.e}), ~Opens(T.cipher, T.h, m1.box)
  PROVE  ReadMessage(g, m1).failed
<1>1. g.e = e
  BY DEF HandshakeState
<1>2. ReadMessage(g, m1) = [g EXCEPT !.failed = TRUE]
  BY <1>1 DEF ReadMessage
<1>3. [g EXCEPT !.failed = TRUE].failed
  BY DEF HandshakeState
<1> QED  BY <1>2, <1>3

(* What is in it. *)
LEMMA HandshakeFields ==
  ASSUME NEW s, NEW i, NEW psk, NEW e, NEW re, NEW n, NEW f, NEW g,
         g = HandshakeState(s, i, psk, e, re, n, f)
  PROVE  /\ g.sym = s /\ g.initiator = i /\ g.psk = psk /\ g.e = e /\ g.re = re
         /\ g.step = n /\ g.failed = f
BY DEF HandshakeState

(* The handshake a side begins with, written out. *)
LEMMA FreshIs ==
  ASSUME NEW p, NEW x
  PROVE  Fresh(p, x) = HandshakeState(newSymmetric(<<"preamble", p[x].version>>),
                                      x = "client", p[x].psk, "none", "none", 0, FALSE)
BY DEF Fresh, NewHandshake, HandshakeState

(***************************************************************************)
(* The initiator's message: what it puts on the wire, and what it waits    *)
(* for the answer with.                                                    *)
(***************************************************************************)
LEMMA InitiatorWrites ==
  ASSUME NEW p
  PROVE  /\ Carried(p, "server", FirstFrame(p))
         /\ FirstFrame(p) = [is |-> "frame", e |-> "client", box |->
              [key |-> FirstOut(p["client"].psk, "client", 2), nonce |-> 0,
               ad |-> FirstHash(p["client"].psk, p["client"].version, "client"),
               text |-> <<>>, intact |-> TRUE]]
         /\ \E H, X : WriteMessage(Fresh(p, "client"), "client") =
              HandshakeState([h |-> H, ck |-> FirstOut(p["client"].psk, "client", 1),
                              cipher |-> X],
                             TRUE, p["client"].psk, "client", "none", 1, FALSE)
<1> DEFINE psk == p["client"].psk
           v == p["client"].version
           s == newSymmetric(<<"preamble", v>>)
           b == ("client" = "client")
           g == Fresh(p, "client")
           H == FirstHash(psk, v, "client")
           C == FirstOut(psk, "client", 1)
           X == [key |-> FirstOut(psk, "client", 2), nonce |-> 0]
           T == Tokens(g, "client", {"client", g.re})
           no == FALSE
<1>0. b = TRUE
  OBVIOUS
<1>1. g = HandshakeState(s, b, psk, "none", "none", 0, no)
  BY FreshIs
<1> HIDE DEF g, b, psk, v, no, s
<1>2. g.step = 0 /\ g.psk = psk /\ g.sym = newSymmetric(<<"preamble", v>>) /\ g.re = "none"
  <2>1. g.step = 0 /\ g.psk = psk /\ g.sym = s /\ g.re = "none"
    BY ONLY <1>1, HandshakeFields
  <2> QED  BY <2>1 DEF s
<1>3. T = [h |-> H, ck |-> C, cipher |-> X]
  BY <1>2, FirstTokens
<1> DEFINE box == encryptAndHash(T)
<1>4. box = [key |-> FirstOut(psk, "client", 2), nonce |-> 0, ad |-> H, text |-> <<>>,
             intact |-> TRUE]
  <2>1. box = seal(T.cipher, T.h, <<>>)
    BY DEF encryptAndHash
  <2>2. T.cipher = X /\ T.h = H
    BY ONLY <1>3
  <2>3. box = seal(X, H, <<>>)
    BY ONLY <2>1, <2>2
  <2> QED  BY ONLY <2>3 DEF seal, X
<1>5. HandshakeMessage(g, "client") = [e |-> "client", box |-> box]
  BY DEF HandshakeMessage
<1> HIDE DEF H, C, X, T, box
<1>7. Hashed(T, box) = [h |-> Append(H, box), ck |-> C, cipher |-> Advanced(X, 1)]
  BY ONLY <1>3, HashedIs
<1> DEFINE s2 == Hashed(T, box)
<1> HIDE DEF s2
<1>8. WriteMessage(g, "client") = HandshakeState(s2, b, psk, "client", "none", 0 + 1, no)
  <2>1. T = Tokens(g, "client", {"client", "none"})
    BY <1>2 DEF T
  <2> QED  BY <1>1, <2>1, WrittenIs DEF s2, box
<1>9. \E G, Y : WriteMessage(g, "client") =
        HandshakeState([h |-> G, ck |-> C, cipher |-> Y], TRUE, psk, "client", "none", 1, FALSE)
  <2>1. 0 + 1 = 1
    OBVIOUS
  <2>2. WriteMessage(g, "client") = HandshakeState(s2, b, psk, "client", "none", 1, no)
    BY <1>8, <2>1
  <2>3. s2 = [h |-> Append(H, box), ck |-> C, cipher |-> Advanced(X, 1)]
    BY <1>7 DEF s2
  <2> QED  BY <1>0, <2>2, <2>3, Zenon DEF no
<1>10. Frame(HandshakeMessage(g, "client")) = [is |-> "frame", e |-> "client", box |-> box]
  BY <1>5 DEF Frame
<1>11. IsBox(box) /\ Genuine(p, "server", box)
  BY <1>4 DEF IsBox, Genuine, H, psk, v
<1>12. Carried(p, "server", Frame(HandshakeMessage(g, "client")))
  BY <1>10, <1>11 DEF Carried
<1>13. Frame(HandshakeMessage(g, "client")) = FirstFrame(p)
  BY DEF FirstFrame, g
<1> QED  BY <1>4, <1>9, <1>10, <1>12, <1>13 DEF g, C, psk, H, v

(***************************************************************************)
(* The responder that has opened the initiator's message has a peer like   *)
(* itself; it ends with the final key, and its answer is genuine.  What it *)
(* opened is what the initiator wrote.                                     *)
(***************************************************************************)
LEMMA ResponderAnswers ==
  ASSUME NEW p, \A x \in Sides : p[x] = [psk |-> p[x].psk, version |-> p[x].version],
         NEW m, Carried(p, "server", m), m.is = "frame",
         NEW read, read = ReadMessage(Fresh(p, "server"), m), ~read.failed
  PROVE  /\ p["client"] = p["server"]
         /\ WriteMessage(read, "server").sym.ck = FinalKey(p["server"].psk)
         /\ WriteMessage(read, "server").initiator = FALSE
         /\ Carried(p, "client", Frame(HandshakeMessage(read, "server")))
         /\ m = FirstFrame(p)
<1> DEFINE psk == p["server"].psk
           v == p["server"].version
           s == newSymmetric(<<"preamble", v>>)
           b == ("server" = "client")
           no == FALSE
           g == Fresh(p, "server")
           H == FirstHash(psk, v, m.e)
           C == FirstOut(psk, m.e, 1)
           X == [key |-> FirstOut(psk, m.e, 2), nonce |-> 0]
           T == Tokens(g, m.e, {"none", m.e})
<1>0. b = FALSE
  OBVIOUS
<1>1. g = HandshakeState(s, b, psk, "none", "none", 0, no)
  BY FreshIs
<1>2. read = ReadMessage(g, m)
  OBVIOUS
<1> HIDE DEF g, b, psk, v, no, s
<1>3. g.step = 0 /\ g.psk = psk /\ g.sym = newSymmetric(<<"preamble", v>>)
  <2>1. g.step = 0 /\ g.psk = psk /\ g.sym = s
    BY ONLY <1>1, HandshakeFields
  <2> QED  BY <2>1 DEF s
<1>4. T = [h |-> H, ck |-> C, cipher |-> X]
  BY <1>3, FirstTokens
<1> HIDE DEF T
<1>5. Opens(T.cipher, T.h, m.box)
  BY <1>1, <1>2, ReadFails DEF T
<1>6. m.box.intact /\ m.box.key = FirstOut(psk, m.e, 2) /\ m.box.ad = H
  BY <1>4, <1>5 DEF Opens
<1>7. Genuine(p, "server", m.box)
  BY <1>6 DEF Carried, CutShort
<1>8. p["client"].psk = psk /\ p["client"].version = v /\ m.e = "client"
  <2>1. /\ FirstOut(psk, m.e, 2) = FirstOut(p["client"].psk, "client", 2)
        /\ FirstHash(psk, v, m.e) = FirstHash(p["client"].psk, p["client"].version, "client")
    BY <1>6, <1>7 DEF Genuine
  <2> QED  BY <2>1, FirstTells
<1>9. p["client"] = p["server"]
  <2>1. p["client"] = [psk |-> p["client"].psk, version |-> p["client"].version]
    BY DEF Sides
  <2>2. p["server"] = [psk |-> p["server"].psk, version |-> p["server"].version]
    BY DEF Sides
  <2> QED  BY <1>8, <2>1, <2>2 DEF psk, v
<1> HIDE DEF H, C, X
<1> DEFINE s2 == Hashed(T, m.box)
<1>10. s2 = [h |-> Append(H, m.box), ck |-> C, cipher |-> Advanced(X, 1)]
  BY ONLY <1>4, HashedIs
<1> HIDE DEF s2
<1>11. read = HandshakeState(s2, b, psk, "none", "client", 1, no)
  <2>1. read = HandshakeState(s2, b, psk, "none", m.e, 0 + 1, no)
    <3>1. T = Tokens(g, m.e, {"none", m.e})
      BY DEF T
    <3> DEFINE y == m.e
    <3>2. s2 = Hashed(T, m.box) /\ y = m.e
      BY DEF s2
    <3> HIDE DEF y
    <3>3. g.e = "none"
      BY ONLY <1>1, HandshakeFields
    <3>4. ReadMessage(g, m) = ReadWith(g, s2, y)
      BY ONLY <1>5, <3>1, <3>2, <3>3 DEF ReadMessage, ReadWith
    <3>5. ReadWith(g, s2, y) = HandshakeState(s2, b, psk, "none", y, 0 + 1, no)
      BY ONLY <1>1, ReadIs
    <3> QED  BY <1>2, <3>4, <3>5 DEF y
  <2>2. 0 + 1 = 1
    OBVIOUS
  <2> QED  BY <1>8, <2>1, <2>2
<1> DEFINE both == {"server", "client"}
           T2 == Tokens(read, "server", both)
<1> HIDE DEF both
<1>12. read.step = 1 /\ read.sym = s2 /\ read.re = "client"
  BY ONLY <1>11, HandshakeFields
<1> DEFINE H2 == Append(H, m.box)
           X2 == Advanced(X, 1)
<1>13. read.sym = [h |-> H2, ck |-> C, cipher |-> X2]
  BY <1>10, <1>12
<1> HIDE DEF H2, X2, T2
<1>14. PICK h : T2 = [h |-> h,
           ck |-> hkdfExpand(hkdfExpand(C, <<"e", "server">>, 1), <<"ee", both>>, 1),
           cipher |-> [key |-> hkdfExpand(hkdfExpand(C, <<"e", "server">>, 1), <<"ee", both>>, 2),
                       nonce |-> 0]]
  BY <1>12, <1>13, SecondTokens DEF T2
<1>15. both = {"client", "server"}
  BY DEF both
<1>16. C = FirstOut(psk, "client", 1)
  BY <1>8 DEF C
<1> DEFINE K1 == SecondOut(psk, "client", "server", both, 1)
           K2 == SecondOut(psk, "client", "server", both, 2)
           X3 == [key |-> K2, nonce |-> 0]
<1>17. T2 = [h |-> h, ck |-> K1, cipher |-> X3]
  BY <1>14, <1>16 DEF SecondOut
<1>18. K1 = FinalKey(psk)
  BY <1>15 DEF FinalKey
<1> DEFINE box == encryptAndHash(T2)
           s3 == Hashed(T2, box)
<1> HIDE DEF K1, K2
<1>19. box = [key |-> K2, nonce |-> 0, ad |-> h, text |-> <<>>, intact |-> TRUE]
  <2>1. box = seal(T2.cipher, T2.h, <<>>)
    BY DEF encryptAndHash
  <2>2. T2.cipher = X3 /\ T2.h = h
    BY ONLY <1>17
  <2>3. box = seal(X3, h, <<>>)
    BY ONLY <2>1, <2>2
  <2> QED  BY ONLY <2>3 DEF seal, X3
<1> HIDE DEF box, X3
<1>20. s3 = [h |-> Append(h, box), ck |-> K1, cipher |-> Advanced(X3, 1)]
  BY ONLY <1>17, HashedIs
<1> HIDE DEF s3
<1>21. WriteMessage(read, "server") = HandshakeState(s3, b, psk, "server", "client", 1 + 1, no)
  <2>1. T2 = Tokens(read, "server", {"server", "client"})
    BY DEF T2, both
  <2> QED  BY <1>11, <2>1, WrittenIs DEF s3, box
<1>22. WriteMessage(read, "server").sym = s3 /\ WriteMessage(read, "server").initiator = b
  BY ONLY <1>21, HandshakeFields
<1>23. Frame(HandshakeMessage(read, "server")) = [is |-> "frame", e |-> "server", box |-> box]
  <2>1. HandshakeMessage(read, "server") = [e |-> "server", box |-> box]
    BY <1>12 DEF HandshakeMessage, T2, both, box
  <2> QED  BY <2>1 DEF Frame
<1>24. IsBox(box) /\ Genuine(p, "client", box)
  BY <1>9, <1>15, <1>19 DEF IsBox, Genuine, K2, psk
<1>25. Carried(p, "client", Frame(HandshakeMessage(read, "server")))
  BY <1>23, <1>24 DEF Carried
<1>26. WriteMessage(read, "server").sym.ck = FinalKey(p["server"].psk)
  BY <1>18, <1>20, <1>22 DEF psk
<1>27. m = FirstFrame(p)
  <2>1. m = [is |-> "frame", e |-> m.e, box |-> m.box] /\ IsBox(m.box)
    BY DEF Carried, CutShort
  <2>2. m.box.nonce = 0
    BY <1>4, <1>5 DEF Opens, X
  <2>3. /\ m.box.key = FirstOut(p["client"].psk, "client", 2) /\ m.box.text = <<>>
        /\ m.box.ad = FirstHash(p["client"].psk, p["client"].version, "client")
        /\ m.box.intact = TRUE
    BY <1>7 DEF Genuine
  <2>4. m.box = [key |-> FirstOut(p["client"].psk, "client", 2), nonce |-> 0,
                 ad |-> FirstHash(p["client"].psk, p["client"].version, "client"),
                 text |-> <<>>, intact |-> TRUE]
    BY ONLY <2>1, <2>2, <2>3 DEF IsBox
  <2> QED  BY <1>8, <2>1, <2>4, InitiatorWrites
<1> QED  BY <1>0, <1>9, <1>22, <1>25, <1>26, <1>27

(***************************************************************************)
(* The initiator that has opened the answer to its message ends with the   *)
(* final key, and its peer is like itself.                                 *)
(***************************************************************************)
LEMMA InitiatorCompletes ==
  ASSUME NEW p, NEW m, Carried(p, "client", m), m.is = "frame",
         NEW read, read = ReadMessage(WriteMessage(Fresh(p, "client"), "client"), m),
         ~read.failed
  PROVE  /\ p["client"] = p["server"]
         /\ read.sym.ck = FinalKey(p["client"].psk)
         /\ read.initiator = TRUE
<1> DEFINE psk == p["client"].psk
           g == WriteMessage(Fresh(p, "client"), "client")
           C == FirstOut(psk, "client", 1)
           no == FALSE
           yes == TRUE
<1>1. PICK H, X : g = HandshakeState([h |-> H, ck |-> C, cipher |-> X], yes, psk, "client",
                                     "none", 1, no)
  BY InitiatorWrites
<1>2. read = ReadMessage(g, m)
  OBVIOUS
<1> DEFINE s == [h |-> H, ck |-> C, cipher |-> X]
           shared == {"client", m.e}
           T == Tokens(g, m.e, shared)
<1>3. g = HandshakeState(s, yes, psk, "client", "none", 1, no)
  BY <1>1
<1> HIDE DEF g, C, psk, no, yes, s, T, shared
<1>4. g.step = 1 /\ g.sym = s
  BY ONLY <1>3, HandshakeFields
<1>5. PICK h : T = [h |-> h,
           ck |-> hkdfExpand(hkdfExpand(C, <<"e", m.e>>, 1), <<"ee", shared>>, 1),
           cipher |-> [key |-> hkdfExpand(hkdfExpand(C, <<"e", m.e>>, 1), <<"ee", shared>>, 2),
                       nonce |-> 0]]
  <2>1. g.sym = [h |-> H, ck |-> C, cipher |-> X]
    BY <1>4 DEF s
  <2>2. g.step = 1
    BY <1>4
  <2> DEFINE f == m.e
  <2> HIDE DEF f
  <2>3. \E h : Tokens(g, f, shared) = [h |-> h,
           ck |-> hkdfExpand(hkdfExpand(C, <<"e", f>>, 1), <<"ee", shared>>, 1),
           cipher |-> [key |-> hkdfExpand(hkdfExpand(C, <<"e", f>>, 1), <<"ee", shared>>, 2),
                       nonce |-> 0]]
    BY ONLY <2>1, <2>2, SecondTokens
  <2> QED  BY <2>3 DEF T, f
<1> DEFINE K1 == SecondOut(psk, "client", m.e, shared, 1)
           K2 == SecondOut(psk, "client", m.e, shared, 2)
           X3 == [key |-> K2, nonce |-> 0]
<1>6. T = [h |-> h, ck |-> K1, cipher |-> X3]
  BY <1>5 DEF SecondOut, C
<1>7. T = Tokens(g, m.e, {"client", m.e})
  BY DEF T, shared
<1>8. Opens(T.cipher, T.h, m.box)
  BY <1>2, <1>3, <1>7, ReadFails
<1>9. m.box.intact /\ m.box.key = K2
  BY <1>6, <1>8 DEF Opens
<1>10. Genuine(p, "client", m.box)
  BY <1>9 DEF Carried, CutShort
<1>11. /\ p["client"] = p["server"]
       /\ m.box.key = SecondOut(p["server"].psk, "client", "server", {"client", "server"}, 2)
  BY <1>10 DEF Genuine
<1>12. K1 = FinalKey(psk)
  <2>1. K2 = SecondOut(psk, "client", "server", {"client", "server"}, 2)
    BY <1>9, <1>11 DEF psk
  <2>2. K1 = SecondOut(psk, "client", "server", {"client", "server"}, 1)
    BY <2>1, SecondTells
  <2> QED  BY <2>2 DEF FinalKey
<1> HIDE DEF K1, K2, X3
<1> DEFINE s2 == Hashed(T, m.box)
<1>13. s2 = [h |-> Append(h, m.box), ck |-> K1, cipher |-> Advanced(X3, 1)]
  BY ONLY <1>6, HashedIs
<1> HIDE DEF s2
<1>14. read = HandshakeState(s2, yes, psk, "client", m.e, 1 + 1, no)
  <2> DEFINE y == m.e
  <2>1. s2 = Hashed(T, m.box) /\ y = m.e
    BY DEF s2
  <2> HIDE DEF y
  <2>2. g.e = "client"
    BY ONLY <1>3, HandshakeFields
  <2>3. ReadMessage(g, m) = ReadWith(g, s2, y)
    BY ONLY <1>7, <1>8, <2>1, <2>2 DEF ReadMessage, ReadWith
  <2>4. ReadWith(g, s2, y) = HandshakeState(s2, yes, psk, "client", y, 1 + 1, no)
    BY ONLY <1>3, ReadIs
  <2> QED  BY <1>2, <2>3, <2>4 DEF y
<1>15. read.sym = s2 /\ read.initiator = yes
  BY ONLY <1>14, HandshakeFields
<1>16. read.sym.ck = FinalKey(psk)
  BY <1>12, <1>13, <1>15
<1> QED  BY <1>11, <1>15, <1>16 DEF psk, yes

-----------------------------------------------------------------------------
(* What Written leaves on its way. *)
LEMMA WrittenFlows ==
  ASSUME NEW p, NEW n, DOMAIN n = Sides, \A y \in Sides : Flows(p, y, n[y]),
         NEW x \in Sides, NEW items, Flows(p, Other(x), items),
         NEW w, w = Written(n, x, items)
  PROVE  DOMAIN w = Sides /\ \A y \in Sides : Flows(p, y, w[y])
<1>1. CASE place[Other(x)] = "closed"
  BY <1>1 DEF Written
<1>2. CASE place[Other(x)] # "closed"
  <2>1. w = [n EXCEPT ![Other(x)] = n[Other(x)] \o items]
    BY <1>2 DEF Written
  <2>2. Other(x) \in Sides
    BY DEF Other, Sides
  <2>3. Flows(p, Other(x), n[Other(x)] \o items)
    BY <2>2, FlowsConcat
  <2> QED  BY <2>1, <2>2, <2>3
<1> QED  BY <1>1, <1>2

(* A connection begins without keys and with nothing on its way. *)
LEMMA KeyInvInit == Init => KeyInv
<1> SUFFICES ASSUME Init PROVE KeyInv
  OBVIOUS
<1>1. peer \in Peerings
  BY DEF Init
<1>2. hs = [x \in Sides |-> Fresh(peer, x)]
  BY DEF Init, Fresh
<1>3. receive = [x \in Sides |-> [key |-> <<>>, nonce |-> 0]]
  BY DEF Init, newCipherState
<1>4. net = [x \in Sides |-> <<>>] /\ place = [x \in Sides |-> "start"]
  BY DEF Init
<1>5. \A x \in Sides : Flows(peer, x, net[x])
  <2>1. \A x \in Sides : Carried(peer, x, CutShort)
    BY DEF Carried
  <2> QED  BY <1>4, <2>1, FlowsFew
<1>6. DOMAIN hs = Sides /\ \A x \in Sides : hs[x] = Fresh(peer, x)
  BY <1>2
<1>7. DOMAIN receive = Sides
      /\ \A x \in Sides : receive[x] = [key |-> receive[x].key, nonce |-> receive[x].nonce]
  BY <1>3
<1>8. DOMAIN net = Sides /\ \A x \in Sides : place[x] = "start"
  BY <1>4
<1>9. "client" \in Sides /\ "server" \in Sides
  BY DEF Sides
<1> QED  BY <1>1, <1>5, <1>6, <1>7, <1>8, <1>9 DEF KeyInv

(* A step after which every side is closed, or as far as it was. *)
LEMMA KeepsKeys ==
  ASSUME KeyInv, peer' = peer, DOMAIN hs' = Sides, DOMAIN receive' = Sides, DOMAIN net' = Sides,
         \A x \in Sides : Flows(peer, x, net'[x]),
         \A x \in Sides : receive'[x] = [key |-> receive'[x].key, nonce |-> receive'[x].nonce],
         \A x \in Sides : \/ place'[x] = "closed"
                          \/ /\ place'[x] = place[x] /\ hs'[x] = hs[x]
                             /\ send'[x].key = send[x].key
                             /\ receive'[x].key = receive[x].key
  PROVE  KeyInv'
<1>1. "client" \in Sides /\ "server" \in Sides
  BY DEF Sides
<1>2. \A x \in Sides : place'[x] = "start" => hs'[x] = Fresh(peer, x)
  BY DEF KeyInv
<1>3. /\ place'["client"] = "answer"
           => hs'["client"] = WriteMessage(Fresh(peer, "client"), "client")
      /\ place'["server"] # "answer"
  BY <1>1 DEF KeyInv
<1>4. ASSUME NEW x \in Sides, place'[x] = "open" PROVE HasKeys(peer, x)'
  <2>1. HasKeys(peer, x) /\ send'[x].key = send[x].key /\ receive'[x].key = receive[x].key
    BY <1>4 DEF KeyInv
  <2> QED  BY <2>1 DEF HasKeys
<1> QED  BY <1>2, <1>3, <1>4 DEF KeyInv

(* A side whose handshake ends has the keys of the final one. *)
LEMMA OpenedHasKeys ==
  ASSUME NEW x \in Sides, NEW h, Opened(x, h), DOMAIN send = Sides, DOMAIN receive = Sides,
         peer' = peer, h.initiator = (x = "client"), peer["client"] = peer["server"],
         h.sym.ck = FinalKey(peer[x].psk)
  PROVE  /\ HasKeys(peer, x)'
         /\ receive'[x] = [key |-> receive'[x].key, nonce |-> receive'[x].nonce]
         /\ DOMAIN receive' = Sides
         /\ \A y \in Sides : y # x => /\ send'[y] = send[y] /\ receive'[y] = receive[y]
<1> DEFINE out(i) == hkdfExpand(FinalKey(peer[x].psk), <<"end", "none">>, i)
<1>1. /\ send' = [send EXCEPT ![x] = Split(h).send]
      /\ receive' = [receive EXCEPT ![x] = Split(h).receive]
  BY DEF Opened
<1>2. /\ send'[x] = Split(h).send /\ receive'[x] = Split(h).receive
      /\ DOMAIN receive' = Sides
      /\ \A y \in Sides : y # x => /\ send'[y] = send[y] /\ receive'[y] = receive[y]
  BY <1>1
<1>3. CASE x = "client"
  <2>1. h.initiator
    BY <1>3
  <2>2. /\ Split(h).send = [key |-> out(1), nonce |-> 0]
        /\ Split(h).receive = [key |-> out(2), nonce |-> 0]
    BY <2>1 DEF Split, newCipherState
  <2>3. send'[x].key = out(1) /\ receive'[x].key = out(2)
    BY <1>2, <2>2
  <2>4. receive'[x] = [key |-> receive'[x].key, nonce |-> receive'[x].nonce]
    BY <1>2, <2>2
  <2>5. HasKeys(peer, x)'
    BY <1>3, <2>3 DEF HasKeys
  <2> QED  BY <1>2, <2>4, <2>5
<1>4. CASE x # "client"
  <2>1. ~h.initiator
    BY <1>4
  <2>2. /\ Split(h).send = [key |-> out(2), nonce |-> 0]
        /\ Split(h).receive = [key |-> out(1), nonce |-> 0]
    BY <2>1 DEF Split, newCipherState
  <2>3. send'[x].key = out(2) /\ receive'[x].key = out(1)
    BY <1>2, <2>2
  <2>4. receive'[x] = [key |-> receive'[x].key, nonce |-> receive'[x].nonce]
    BY <1>2, <2>2
  <2>5. HasKeys(peer, x)'
    BY <1>4, <2>3 DEF HasKeys
  <2> QED  BY <1>2, <2>4, <2>5
<1> QED  BY <1>3, <1>4

(* The first answer that a side reads is of this build's version and is a frame, or
   its handshake has failed. *)
LEMMA AnsweredReads ==
  ASSUME KeyInv, NEW x \in Sides, ~Answered(x).failed, NEW g, hs[x] = g,
         [g EXCEPT !.failed = TRUE].failed, ThereIsAnswer(x)
  PROVE  /\ Len(net[x]) >= 2 /\ net[x][2].is = "frame" /\ Carried(peer, x, net[x][2])
         /\ Answered(x) = ReadMessage(g, net[x][2])
<1>1. GoodVersion(x, net[x][1]) /\ net[x][2].is = "frame"
  BY DEF Answered
<1>2. Answered(x) = ReadMessage(g, net[x][2])
  BY <1>1 DEF Answered
<1>3. Len(net[x]) >= 2
  BY <1>1 DEF ThereIsAnswer
<1>4. Flows(peer, x, net[x])
  BY DEF KeyInv
<1>5. net[x] \in Seq(ToSet(net[x])) /\ \A item \in ToSet(net[x]) : Carried(peer, x, item)
  BY <1>4 DEF Flows
<1>6. net[x][2] \in ToSet(net[x])
  BY <1>3, <1>5
<1> QED  BY <1>1, <1>2, <1>3, <1>5, <1>6

(* A handshake that is made to fail has failed. *)
LEMMA FailingFails ==
  ASSUME NEW s, NEW i, NEW psk, NEW e, NEW re, NEW n, NEW f, NEW g,
         g = HandshakeState(s, i, psk, e, re, n, f)
  PROVE  [g EXCEPT !.failed = TRUE].failed
BY DEF HandshakeState

(* Initiate: the first message is on its way, and it is genuine. *)
LEMMA InitiateKeepsKeys ==
  ASSUME NonceInv, KeyInv, Initiate
  PROVE  KeyInv'
<1>0. "client" \in Sides /\ "server" \in Sides /\ Other("client") = "server"
  BY DEF Sides, Other
<1>1. hs["client"] = Fresh(peer, "client")
  BY <1>0 DEF Initiate, KeyInv
<1> DEFINE pre == Preamble(peer["client"].version)
           frame == Frame(HandshakeMessage(hs["client"], "client"))
<1>2. /\ net' = Written(net, "client", <<pre, frame>>)
      /\ hs' = [hs EXCEPT !["client"] = WriteMessage(hs["client"], "client")]
      /\ place' = [place EXCEPT !["client"] = "answer"]
      /\ UNCHANGED <<send, receive, peer>>
  BY DEF Initiate, Ephemeral, Unread
<1>3. Carried(peer, "server", frame)
  BY <1>1, InitiatorWrites DEF FirstFrame
<1>4. Carried(peer, "server", pre)
  BY DEF Carried, Preamble
<1> HIDE DEF pre, frame
<1>5. Flows(peer, "server", <<pre, frame>>)
  BY <1>3, <1>4, FlowsFew
<1>6. DOMAIN net' = Sides /\ \A y \in Sides : Flows(peer, y, net'[y])
  <2> DEFINE items == <<pre, frame>>
  <2>1. /\ DOMAIN net = Sides /\ (\A y \in Sides : Flows(peer, y, net[y]))
        /\ "client" \in Sides /\ Flows(peer, Other("client"), items)
        /\ net' = Written(net, "client", items)
    BY <1>0, <1>2, <1>5 DEF KeyInv
  <2> HIDE DEF items
  <2> QED  BY ONLY <2>1, WrittenFlows
<1>7. /\ place'["client"] = "answer" /\ place'["server"] = place["server"]
      /\ hs'["client"] = WriteMessage(Fresh(peer, "client"), "client")
      /\ hs'["server"] = hs["server"] /\ DOMAIN hs' = Sides
  BY <1>0, <1>1, <1>2 DEF KeyInv, NonceInv
<1>8. ASSUME NEW x \in Sides, place'[x] = "open" PROVE HasKeys(peer, x)'
  <2>1. place[x] = "open"
    BY <1>7, <1>8 DEF Sides
  <2>2. HasKeys(peer, x)
    BY <2>1 DEF KeyInv
  <2> QED  BY <1>2, <2>2 DEF HasKeys
<1>9. \A x \in Sides : place'[x] = "start" => hs'[x] = Fresh(peer, x)
  BY <1>7 DEF Sides, KeyInv
<1> QED  BY <1>2, <1>6, <1>7, <1>8, <1>9 DEF KeyInv

(* What is behind the answer that a side has read. *)
LEMMA RestFlows ==
  ASSUME KeyInv, NEW x \in Sides, Len(net[x]) >= 2,
         NEW n, n = [net EXCEPT ![x] = SubSeq(net[x], 3, Len(net[x]))]
  PROVE  DOMAIN n = Sides /\ \A y \in Sides : Flows(peer, y, n[y])
<1>1. DOMAIN net = Sides /\ \A y \in Sides : Flows(peer, y, net[y])
  BY DEF KeyInv
<1>2. Len(net[x]) \in Int
  BY <1>1 DEF Flows
<1>3. Flows(peer, x, SubSeq(net[x], 3, Len(net[x])))
  BY <1>1, <1>2, FlowsSubSeq
<1> QED  BY <1>1, <1>3

(* A side whose handshake ends with the final key; the other is as it was. *)
LEMMA OpeningKeepsKeys ==
  ASSUME NonceInv, KeyInv, NEW x \in Sides, NEW h, Opened(x, h), peer' = peer,
         h.initiator = (x = "client"), peer["client"] = peer["server"],
         h.sym.ck = FinalKey(peer[x].psk),
         DOMAIN net' = Sides, \A y \in Sides : Flows(peer, y, net'[y])
  PROVE  KeyInv'
<1>0. "client" \in Sides /\ "server" \in Sides
  BY DEF Sides
<1>1. DOMAIN send = Sides /\ DOMAIN receive = Sides
  BY DEF NonceInv, KeyInv
<1>2. /\ HasKeys(peer, x)'
      /\ receive'[x] = [key |-> receive'[x].key, nonce |-> receive'[x].nonce]
      /\ DOMAIN receive' = Sides
      /\ \A y \in Sides : y # x => /\ send'[y] = send[y] /\ receive'[y] = receive[y]
  BY <1>1, OpenedHasKeys
<1>3. /\ place'[x] = "open" /\ DOMAIN hs' = Sides
      /\ \A y \in Sides : y # x => place'[y] = place[y] /\ hs'[y] = hs[y]
  BY DEF Opened, NonceInv, KeyInv
<1>4. \A y \in Sides : receive'[y] = [key |-> receive'[y].key, nonce |-> receive'[y].nonce]
  BY <1>2 DEF KeyInv
<1>5. ASSUME NEW y \in Sides, place'[y] = "open" PROVE HasKeys(peer, y)'
  <2>1. CASE y = x
    BY <1>2, <2>1
  <2>2. CASE y # x
    <3>1. HasKeys(peer, y)
      BY <1>3, <1>5, <2>2 DEF KeyInv
    <3> QED  BY <1>2, <2>2, <3>1 DEF HasKeys
  <2> QED  BY <2>1, <2>2
<1>6. \A y \in Sides : place'[y] = "start" => hs'[y] = Fresh(peer, y)
  BY <1>3 DEF KeyInv
<1>7. /\ place'["client"] = "answer"
           => hs'["client"] = WriteMessage(Fresh(peer, "client"), "client")
      /\ place'["server"] # "answer"
  BY <1>0, <1>3 DEF KeyInv
<1> QED  BY <1>2, <1>3, <1>4, <1>5, <1>6, <1>7 DEF KeyInv

(* Respond: the message opened, so the initiator is like the responder. *)
LEMMA RespondKeepsKeys ==
  ASSUME NonceInv, KeyInv, Respond
  PROVE  KeyInv'
<1>0. "client" \in Sides /\ "server" \in Sides /\ Other("server") = "client"
  BY DEF Sides, Other
<1> DEFINE read == Answered("server")
           written == WriteMessage(read, "server")
           pre == Preamble(peer["server"].version)
           frame == Frame(HandshakeMessage(read, "server"))
           rest == [net EXCEPT !["server"] = SubSeq(net["server"], 3, Len(net["server"]))]
<1>1. /\ place["server"] = "start" /\ ThereIsAnswer("server") /\ ~read.failed
      /\ Opened("server", written) /\ peer' = peer
      /\ net' = Written(rest, "server", <<pre, frame>>)
  BY DEF Respond, Ephemeral, TurnToWrite, Unread
<1>2. hs["server"] = Fresh(peer, "server")
  BY <1>0, <1>1 DEF KeyInv
<1> DEFINE g == Fresh(peer, "server")
<1>3. [g EXCEPT !.failed = TRUE].failed
  BY FreshIs, FailingFails
<1> HIDE DEF g
<1>4. /\ Len(net["server"]) >= 2 /\ net["server"][2].is = "frame"
      /\ Carried(peer, "server", net["server"][2])
      /\ read = ReadMessage(g, net["server"][2])
  BY <1>0, <1>1, <1>2, <1>3, AnsweredReads DEF g
<1>5. \A x \in Sides : peer[x] = [psk |-> peer[x].psk, version |-> peer[x].version]
  BY PeeringsAssumption DEF KeyInv
<1> HIDE DEF read
<1>6. /\ peer["client"] = peer["server"]
      /\ written.sym.ck = FinalKey(peer["server"].psk) /\ written.initiator = FALSE
      /\ Carried(peer, "client", frame)
  <2> DEFINE m == net["server"][2]
             p == peer
  <2>1. /\ Carried(p, "server", m) /\ m.is = "frame" /\ ~read.failed
        /\ read = ReadMessage(Fresh(p, "server"), m)
        /\ \A x \in Sides : p[x] = [psk |-> p[x].psk, version |-> p[x].version]
    BY <1>1, <1>4, <1>5 DEF g
  <2> HIDE DEF m, p
  <2>2. /\ p["client"] = p["server"]
        /\ WriteMessage(read, "server").sym.ck = FinalKey(p["server"].psk)
        /\ WriteMessage(read, "server").initiator = FALSE
        /\ Carried(p, "client", Frame(HandshakeMessage(read, "server")))
    BY ONLY <2>1, ResponderAnswers
  <2> QED  BY <2>2 DEF p
<1>7. Carried(peer, "client", pre)
  BY DEF Carried, Preamble
<1> HIDE DEF pre, frame, written, rest
<1>8. Flows(peer, "client", <<pre, frame>>)
  BY <1>6, <1>7, FlowsFew
<1>9. DOMAIN rest = Sides /\ \A y \in Sides : Flows(peer, y, rest[y])
  BY <1>0, <1>4, RestFlows DEF rest
<1>10. DOMAIN net' = Sides /\ \A y \in Sides : Flows(peer, y, net'[y])
  BY <1>0, <1>1, <1>8, <1>9, WrittenFlows
<1>11. written.initiator = ("server" = "client")
  BY <1>6
<1> QED  BY <1>0, <1>1, <1>6, <1>10, <1>11, OpeningKeepsKeys

(* Complete: the answer opened, so the responder is like the initiator. *)
LEMMA CompleteKeepsKeys ==
  ASSUME NonceInv, KeyInv, Complete
  PROVE  KeyInv'
<1>0. "client" \in Sides
  BY DEF Sides
<1> DEFINE read == Answered("client")
<1>1. /\ place["client"] = "answer" /\ ThereIsAnswer("client") /\ ~read.failed
      /\ Opened("client", read) /\ peer' = peer
      /\ net' = [net EXCEPT !["client"] = SubSeq(net["client"], 3, Len(net["client"]))]
  BY DEF Complete, CanSplit, Unread
<1> DEFINE g == WriteMessage(Fresh(peer, "client"), "client")
<1>2. hs["client"] = g
  BY <1>1 DEF KeyInv
<1>3. [g EXCEPT !.failed = TRUE].failed
  BY InitiatorWrites, FailingFails
<1> HIDE DEF g
<1>4. /\ Len(net["client"]) >= 2 /\ net["client"][2].is = "frame"
      /\ Carried(peer, "client", net["client"][2])
      /\ read = ReadMessage(g, net["client"][2])
  BY <1>0, <1>1, <1>2, <1>3, AnsweredReads
<1> HIDE DEF read
<1>5. /\ peer["client"] = peer["server"]
      /\ read.sym.ck = FinalKey(peer["client"].psk) /\ read.initiator = TRUE
  BY <1>1, <1>4, InitiatorCompletes DEF g
<1>6. DOMAIN net' = Sides /\ \A y \in Sides : Flows(peer, y, net'[y])
  BY <1>0, <1>1, <1>4, RestFlows
<1>7. read.initiator = ("client" = "client")
  BY <1>5
<1> QED  BY <1>0, <1>1, <1>5, <1>6, <1>7, OpeningKeepsKeys

(* A cipher state keeps its key as its counter moves. *)
LEMMA AdvancedKeepsKey ==
  ASSUME NEW c, c = [key |-> c.key, nonce |-> c.nonce], NEW n
  PROVE  /\ Advanced(c, n).key = c.key
         /\ Advanced(c, n) = [key |-> Advanced(c, n).key, nonce |-> Advanced(c, n).nonce]
<1> DEFINE v == (c.nonce + n) % (NonceReserved + 1)
<1>1. Advanced(c, n) = [c EXCEPT !.nonce = v]
  BY DEF Advanced
<1> HIDE DEF v
<1>2. [c EXCEPT !.nonce = v] = [key |-> c.key, nonce |-> v]
  OBVIOUS
<1>3. Advanced(c, n) = [key |-> c.key, nonce |-> v]
  BY <1>1, <1>2
<1> QED  BY <1>3

(* Records, with or without half of one behind them, carry no handshake. *)
LEMMA RecordsFlow ==
  ASSUME NEW p, NEW y, NEW n \in Nat, NEW f,
         \A i \in 1..n : \E b : IsBox(b) /\ f[i] = Record(b),
         f = [i \in 1..n |-> f[i]], NEW tail \in {<<>>, <<CutShort>>}
  PROVE  Flows(p, y, f \o tail)
<1> DEFINE S == {f[i] : i \in 1..n}
<1>1. \A item \in S : Carried(p, y, item)
  BY DEF Carried, Record
<1>2. f \in Seq(S)
  <2>1. \A i \in 1..n : f[i] \in S
    OBVIOUS
  <2> HIDE DEF S
  <2> QED  BY <2>1
<1> HIDE DEF S
<1>3. Flows(p, y, f)
  BY <1>1, <1>2, FlowsOver
<1>4. Carried(p, y, CutShort)
  BY DEF Carried
<1>5. Flows(p, y, tail)
  BY <1>4, FlowsFew
<1> QED  BY <1>3, <1>5, FlowsConcat

(* A write changes neither key nor handshake of any side. *)
LEMMA WritingKeepsKeys ==
  ASSUME NonceInv, KeyInv, NEW x \in Sides, NEW bytes, NEW n \in Nat, NEW s,
         NEW tail \in {<<>>, <<CutShort>>}, WritesRecords(x, bytes, n, s, tail),
         UNCHANGED <<peer, hs, receive>>,
         NEW p \in {"closed", "open"}, place[x] = "open", place' = [place EXCEPT ![x] = p]
  PROVE  KeyInv'
<1> DEFINE f == [i \in 1..n |-> Sealed(x, Chunks(bytes), i)]
<1>1. /\ net' = Written(net, x, f \o tail)
      /\ send' = [send EXCEPT ![x] = Advanced(send[x], s)]
  BY DEF WritesRecords
<1>2. /\ f = [i \in 1..n |-> f[i]]
      /\ \A i \in 1..n : \E b : IsBox(b) /\ f[i] = Record(b)
  <2>1. \A c, text : IsBox(seal(c, <<>>, text))
    BY DEF IsBox, seal
  <2> QED  BY <2>1 DEF Sealed
<1> HIDE DEF f
<1>3. Flows(peer, Other(x), f \o tail)
  BY <1>2, RecordsFlow
<1> DEFINE items == f \o tail
<1> HIDE DEF items
<1>4. DOMAIN net' = Sides /\ \A y \in Sides : Flows(peer, y, net'[y])
  <2>1. /\ DOMAIN net = Sides /\ \A y \in Sides : Flows(peer, y, net[y])
        /\ Flows(peer, Other(x), items) /\ net' = Written(net, x, items)
    BY <1>1, <1>3 DEF KeyInv, items
  <2> QED  BY <2>1, WrittenFlows
<1>5. \A y \in Sides : send'[y].key = send[y].key
  <2>1. send[x] = [key |-> send[x].key, nonce |-> send[x].nonce] /\ DOMAIN send = Sides
    BY DEF NonceInv, IsCipherState
  <2>2. Advanced(send[x], s).key = send[x].key
    BY <2>1, AdvancedKeepsKey
  <2> QED  BY <1>1, <2>1, <2>2
<1>6. \A y \in Sides : place'[y] = "closed" \/ place'[y] = place[y]
  BY DEF NonceInv
<1>7. /\ DOMAIN hs' = Sides /\ DOMAIN receive' = Sides /\ peer' = peer
      /\ \A y \in Sides : /\ hs'[y] = hs[y] /\ receive'[y] = receive[y]
                          /\ receive[y] = [key |-> receive[y].key, nonce |-> receive[y].nonce]
  BY DEF KeyInv
<1>8. \A y \in Sides : receive'[y] = [key |-> receive'[y].key, nonce |-> receive'[y].nonce]
  BY <1>7
<1>9. \A y \in Sides : \/ place'[y] = "closed"
                       \/ /\ place'[y] = place[y] /\ hs'[y] = hs[y]
                          /\ send'[y].key = send[y].key
                          /\ receive'[y].key = receive[y].key
  BY <1>5, <1>6, <1>7
<1> QED  BY <1>4, <1>7, <1>8, <1>9, KeepsKeys

(* Every step keeps the keys that agree. *)
LEMMA KeyInvNext ==
  ASSUME NonceInv, KeyInv, [Next]_vars
  PROVE  KeyInv'
<1>a. /\ DOMAIN hs = Sides /\ DOMAIN net = Sides /\ DOMAIN receive = Sides
      /\ \A x \in Sides : Flows(peer, x, net[x])
      /\ \A x \in Sides : receive[x] = [key |-> receive[x].key, nonce |-> receive[x].nonce]
  BY DEF KeyInv
<1>1. CASE Initiate
  BY <1>1, InitiateKeepsKeys
<1>2. CASE Respond
  BY <1>2, RespondKeepsKeys
<1>3. CASE Complete
  BY <1>3, CompleteKeepsKeys
<1>4. ASSUME NEW x \in Sides, Closes(x), UNCHANGED <<peer, send, receive>>,
             DOMAIN hs' = Sides, \A y \in Sides : y # x => hs'[y] = hs[y]
      PROVE  KeyInv'
  <2>1. /\ place' = [place EXCEPT ![x] = "closed"]
        /\ net' = [net EXCEPT ![x] = <<>>]
    BY <1>4 DEF Closes
  <2>2. \A y \in Sides : Flows(peer, y, <<>>)
    <3>1. \A y \in Sides : Carried(peer, y, CutShort)
      BY DEF Carried
    <3> QED  BY <3>1, FlowsFew
  <2>3. DOMAIN net' = Sides /\ \A y \in Sides : Flows(peer, y, net'[y])
    BY <1>a, <2>1, <2>2
  <2>4. place'[x] = "closed" /\ \A y \in Sides : y # x => place'[y] = place[y]
    BY <2>1 DEF NonceInv
  <2>5. \A y \in Sides : \/ place'[y] = "closed"
                         \/ /\ place'[y] = place[y] /\ hs'[y] = hs[y]
                            /\ send'[y].key = send[y].key
                            /\ receive'[y].key = receive[y].key
    BY <1>4, <2>4
  <2>6. \A y \in Sides : receive'[y] = [key |-> receive'[y].key, nonce |-> receive'[y].nonce]
    BY <1>4, <1>a
  <2> QED  BY <1>4, <1>a, <2>3, <2>5, <2>6, KeepsKeys
<1>5. ASSUME NEW x \in Sides, HandshakeFails(x) PROVE KeyInv'
  <2>1. /\ Closes(x) /\ UNCHANGED <<peer, send, receive>>
        /\ hs' = [hs EXCEPT ![x] = Answered(x)]
    BY <1>5 DEF HandshakeFails, Refuses, Unread
  <2> QED  BY <1>4, <1>a, <2>1
<1>6. ASSUME NEW x \in Sides,
             RefuseRecord(x) \/ RefuseMessage(x) \/ EndOfStream(x) \/ Close(x)
      PROVE  KeyInv'
  <2>1. Closes(x) /\ UNCHANGED <<peer, send, receive, hs>>
    BY <1>6 DEF RefuseRecord, RefuseMessage, EndOfStream, Close, Refuses, Unread
  <2> QED  BY <1>4, <1>a, <2>1
<1>7. ASSUME NEW x \in Sides, ReadRecord(x) PROVE KeyInv'
  <2>1. /\ receive' = [receive EXCEPT ![x] = Advanced(receive[x], 1)]
        /\ net' = [net EXCEPT ![x] = Tail(net[x])] /\ net[x] # <<>>
        /\ UNCHANGED <<peer, place, hs, send>>
    BY <1>7 DEF ReadRecord
  <2>2. Flows(peer, x, Tail(net[x]))
    BY <1>a, <2>1, FlowsTail
  <2>3. DOMAIN net' = Sides /\ \A y \in Sides : Flows(peer, y, net'[y])
    BY <1>a, <2>1, <2>2
  <2>4. /\ Advanced(receive[x], 1).key = receive[x].key
        /\ Advanced(receive[x], 1) = [key |-> Advanced(receive[x], 1).key,
                                      nonce |-> Advanced(receive[x], 1).nonce]
    BY <1>a, AdvancedKeepsKey
  <2>5. /\ DOMAIN receive' = Sides
        /\ \A y \in Sides : /\ receive'[y].key = receive[y].key
                            /\ receive'[y] = [key |-> receive'[y].key, nonce |-> receive'[y].nonce]
    BY <1>a, <2>1, <2>4
  <2> QED  BY <1>a, <2>1, <2>3, <2>5, KeepsKeys
<1>8. ASSUME UNCHANGED <<peer, place, hs, send, receive>>, DOMAIN net' = Sides,
             \A y \in Sides : Flows(peer, y, net'[y])
      PROVE  KeyInv'
  <2>1. \A y \in Sides : receive'[y] = [key |-> receive'[y].key, nonce |-> receive'[y].nonce]
    BY <1>8, <1>a
  <2> QED  BY <1>8, <1>a, <2>1, KeepsKeys
<1>9. ASSUME NEW x \in Sides, Disturb(x) PROVE KeyInv'
  <2>1. PICK s \in Disturbed(net[x]) : net' = [net EXCEPT ![x] = s]
    BY <1>9 DEF Disturb
  <2>2. UNCHANGED <<peer, place, hs, send, receive>>
    BY <1>9 DEF Disturb
  <2>3. Flows(peer, x, s)
    BY <1>a, DisturbedFlows
  <2> QED  BY <1>8, <1>a, <2>1, <2>2, <2>3
<1>10. ASSUME NEW x \in Sides, NextMessage(x) PROVE KeyInv'
  BY <1>8, <1>10, <1>a DEF NextMessage
<1>12. ASSUME NEW x \in Sides, NEW src \in Says[x], Say(x, src) PROVE KeyInv'
  <2> DEFINE b == Encode(MessageOf(src))
             k == Len(Chunks(b))
  <2>1. k \in Nat
    BY <1>12, EncodingCounted, ChunksAreCounted DEF Say
  <2>2. /\ WritesRecords(x, b, k, k, <<>>) /\ UNCHANGED <<peer, hs, receive, place>>
        /\ place[x] = "open"
    BY <1>12 DEF Say
  <2>3. place' = [place EXCEPT ![x] = "open"]
    BY <2>2 DEF NonceInv
  <2> HIDE DEF b, k
  <2> QED  BY <2>1, <2>2, <2>3, WritingKeepsKeys
<1>13. ASSUME NEW x \in Sides, NEW src \in Says[x], SayInPart(x, src) PROVE KeyInv'
  <2> DEFINE m == MessageOf(src)
             b == Encode(m)
             most == CanSend(x, Chunks(b))
             p == IF m.kind = "HELLO" THEN "closed" ELSE "open"
  <2>1. Len(b) \in Nat
    BY <1>13, EncodingCounted DEF SayInPart
  <2>2. /\ place[x] = "open" /\ place' = [place EXCEPT ![x] = p]
        /\ UNCHANGED <<peer, hs, receive>>
    BY <1>13 DEF SayInPart
  <2>3. \/ \E n \in 0..(most - 1), tail \in {<<>>, <<CutShort>>} :
             WritesRecords(x, b, n, n + 1, tail)
        \/ WritesRecords(x, b, most, most, <<>>)
    BY <1>13 DEF SayInPart
  <2>4. p \in {"open", "closed"}
    OBVIOUS
  <2>5. most \in Nat
    <3>1. Len(Chunks(b)) \in Nat
      BY <2>1, ChunksAreCounted
    <3> QED  BY <3>1, CanSendIs
  <2>6. \E n \in Nat, s \in Nat, tail \in {<<>>, <<CutShort>>} : WritesRecords(x, b, n, s, tail)
    <3> HIDE DEF b, most
    <3>1. \A n \in 0..(most - 1) : n \in Nat /\ n + 1 \in Nat
      BY <2>5
    <3> QED  BY <2>3, <2>5, <3>1
  <2> HIDE DEF p, b, m, most
  <2> QED  BY <2>2, <2>4, <2>6, WritingKeepsKeys
<1>14. ASSUME NEW bytes \in Strays, SayStray(bytes) PROVE KeyInv'
  <2> DEFINE k == Len(Chunks(bytes))
  <2>1. k \in Nat
    BY EncodingCounted, ChunksAreCounted
  <2>2. /\ WritesRecords("server", bytes, k, k, <<>>) /\ UNCHANGED <<peer, hs, receive, place>>
        /\ place["server"] = "open"
    BY <1>14 DEF SayStray
  <2>3. place' = [place EXCEPT !["server"] = "open"] /\ "server" \in Sides
    BY <2>2 DEF NonceInv, Sides
  <2> HIDE DEF k
  <2> QED  BY <2>1, <2>2, <2>3, WritingKeepsKeys
<1>15. CASE Over \/ UNCHANGED vars
  BY <1>8, <1>15, <1>a DEF Over, vars
<1> QED  BY <1>1, <1>2, <1>3, <1>5, <1>6, <1>7, <1>9, <1>10, <1>12, <1>13, <1>14, <1>15 DEF Next

(***************************************************************************)
(* A side whose handshake succeeded has a peer with its secret and its     *)
(* version, and two open sides read with the key the other writes with,    *)
(* whatever the carrier did to the two messages: for every secret, every   *)
(* version and any number of faults, from the ideal primitives alone       *)
(* (noise.go, ReadMessage and Split; record.go, Handshake).                *)
(***************************************************************************)
THEOREM HandshakeAgrees == Spec => []KeysAgree
<1>1. NonceInv /\ KeyInv => KeysAgree
  <2> SUFFICES ASSUME KeyInv PROVE KeysAgree
    OBVIOUS
  <2>0. Sides = {"client", "server"} /\ Other("client") = "server" /\ Other("server") = "client"
    BY DEF Sides, Other
  <2>1. \A x \in Sides : place[x] = "open" => peer["client"] = peer["server"]
    BY DEF KeyInv, HasKeys
  <2>2. \A x \in Sides : place[x] = "open" => peer[x] = peer[Other(x)]
    BY <2>0, <2>1
  <2>3. ASSUME \A x \in Sides : place[x] = "open"
        PROVE  /\ \A x \in Sides : send[x].key = receive[Other(x)].key
               /\ send["client"].key # send["server"].key
    <3> DEFINE out(i) == hkdfExpand(FinalKey(peer["client"].psk), <<"end", "none">>, i)
    <3>1. HasKeys(peer, "client") /\ HasKeys(peer, "server")
      BY <2>0, <2>3 DEF KeyInv
    <3>2. /\ send["client"].key = out(1) /\ receive["client"].key = out(2)
          /\ send["server"].key = out(2) /\ receive["server"].key = out(1)
      BY <3>1 DEF HasKeys
    <3>3. out(1) # out(2)
      BY OutputsDiffer
    <3> HIDE DEF out
    <3> QED  BY <2>0, <3>2, <3>3
  <2> QED  BY <2>2, <2>3 DEF KeysAgree
<1>2. Init => NonceInv /\ KeyInv
  BY NonceInvInit, KeyInvInit
<1>3. NonceInv /\ KeyInv /\ [Next]_vars => NonceInv' /\ KeyInv'
  BY NonceInvNext, KeyInvNext
<1> QED  BY <1>1, <1>2, <1>3, PTL DEF Spec

-----------------------------------------------------------------------------
(* Delivery: what a side has read is what the other has said. *)

(* In how many records a message of bytes b travels. *)
Parts(b) == Len(Chunks(b))

(* How many of its bytes are in the first k of them. *)
Upto(b, k) == IF k * MaxPlaintext < Len(b) THEN k * MaxPlaintext ELSE Len(b)

(* The quotient of two natural numbers. *)
LEMMA Quotient ==
  ASSUME NEW a \in Nat, NEW m \in Nat \ {0}
  PROVE  /\ a \div m \in Nat
         /\ m * (a \div m) <= a /\ a < m * (a \div m) + m
OBVIOUS

(* More of them are not less. *)
LEMMA TimesMono ==
  ASSUME NEW m \in Nat \ {0}, NEW i \in Nat, NEW k \in Nat, i <= k
  PROVE  i * m <= k * m
OBVIOUS

(* How bytes are cut. *)
LEMMA PartsAre ==
  ASSUME NEW b \in Bytes
  PROVE  /\ Parts(b) \in Nat /\ (b # <<>> => Parts(b) >= 1)
         /\ \A k \in 1..Parts(b) :
              /\ Chunks(b)[k] = SubSeq(b, (k - 1) * MaxPlaintext + 1, Upto(b, k))
              /\ (k - 1) * MaxPlaintext < Len(b)
         /\ Upto(b, Parts(b)) = Len(b)
<1> DEFINE M == MaxPlaintext
           n == (Len(b) + M - 1) \div M
<1>1. M \in Nat \ {0} /\ Len(b) \in Nat
  BY NoiseAssumption DEF Bytes
<1>2. n \in Nat /\ M * n <= Len(b) + M - 1 /\ Len(b) + M - 1 < M * n + M
  <2> DEFINE a == Len(b) + M - 1
  <2>1. a \in Nat
    BY <1>1
  <2> HIDE DEF a, M
  <2>2. a \div M \in Nat /\ M * (a \div M) <= a /\ a < M * (a \div M) + M
    BY <1>1, <2>1, Quotient
  <2> QED  BY <2>2 DEF a
<1>3. Chunks(b) = [k \in 1..n |-> SubSeq(b, (k - 1) * M + 1, Upto(b, k))]
  BY DEF Chunks, Upto
<1> HIDE DEF n, M
<1>4. Parts(b) = n
  <2> DEFINE F == Chunks(b)
  <2>1. F = [k \in 1..n |-> F[k]]
    BY <1>3
  <2> HIDE DEF F
  <2>2. Len(F) = n
    BY <1>2, <2>1
  <2> QED  BY <2>2 DEF F, Parts
<1>5. b # <<>> => n >= 1
  <2>1. b # <<>> => Len(b) >= 1
    BY <1>1 DEF Bytes
  <2>2. Len(b) >= 1 => n # 0
    BY <1>1, <1>2
  <2> QED  BY <1>2, <2>1, <2>2
<1>6. ASSUME NEW k \in 1..n PROVE (k - 1) * M < Len(b)
  <2>1. k - 1 \in Nat /\ k \in Nat /\ k * M <= n * M
    BY <1>1, <1>2, TimesMono
  <2>2. (k - 1) * M = k * M - M /\ n * M = M * n /\ k * M \in Nat /\ M * n \in Nat
    BY <1>1, <1>2, <2>1
  <2> QED  BY <1>1, <1>2, <2>1, <2>2
<1>7. Upto(b, n) = Len(b)
  <2>1. n * M = M * n /\ M * n \in Nat
    BY <1>1, <1>2
  <2>2. ~(n * M < Len(b))
    BY <1>1, <1>2, <2>1
  <2> QED  BY <2>2 DEF Upto, M
<1>8. \A k \in 1..n : Chunks(b)[k] = SubSeq(b, (k - 1) * M + 1, Upto(b, k))
  BY <1>3
<1> QED  BY <1>2, <1>4, <1>5, <1>6, <1>7, <1>8 DEF M

(* The parts up to one of them are what is in front of it, and more with each. *)
LEMMA UptoIs ==
  ASSUME NEW b \in Bytes, NEW k \in 1..Parts(b)
  PROVE  /\ Upto(b, k) \in 1..Len(b)
         /\ Len(Chunks(b)[k]) <= MaxPlaintext
         /\ SubSeq(b, 1, Upto(b, k)) =
              (IF k = 1 THEN <<>> ELSE SubSeq(b, 1, Upto(b, k - 1))) \o Chunks(b)[k]
         /\ k < Parts(b) => Upto(b, k) < Len(b)
         /\ SubSeq(b, 1, Upto(b, Parts(b))) = b
<1> DEFINE M == MaxPlaintext
           lo == (k - 1) * M
<1>1. M \in Nat \ {0} /\ Len(b) \in Nat /\ b \in Seq(0..(Base - 1))
  BY NoiseAssumption DEF Bytes
<1>2. Parts(b) \in Nat /\ k \in Nat /\ k - 1 \in Nat
  BY PartsAre
<1>3. lo \in Nat /\ lo < Len(b) /\ k * M = lo + M
  BY <1>1, <1>2, PartsAre
<1>4. Upto(b, k) \in 1..Len(b) /\ lo < Upto(b, k) /\ Upto(b, k) <= lo + M
  BY <1>1, <1>3 DEF Upto
<1>5. Chunks(b)[k] = SubSeq(b, lo + 1, Upto(b, k))
  BY PartsAre
<1>6. k < Parts(b) => Upto(b, k) < Len(b)
  <2> SUFFICES ASSUME k < Parts(b) PROVE Upto(b, k) < Len(b)
    OBVIOUS
  <2>1. k + 1 \in 1..Parts(b) /\ (k + 1) - 1 = k
    BY <1>2
  <2>2. k * M < Len(b)
    BY <2>1, PartsAre
  <2> QED  BY <2>2 DEF Upto
<1>7. k # 1 => Upto(b, k - 1) = lo
  BY <1>3 DEF Upto
<1>8. k = 1 => lo = 0
  BY <1>1
<1> DEFINE u == Upto(b, k)
           c == SubSeq(b, lo + 1, u)
           a == SubSeq(b, 1, lo)
<1> HIDE DEF lo, M
<1>9. u \in Nat /\ u <= Len(b) /\ lo < u
  BY <1>1, <1>4
<1> HIDE DEF u
<1>10. Len(c) = u - lo /\ c = [i \in 1..(u - lo) |-> b[lo + i]]
  BY <1>1, <1>3, <1>9
<1>11. SubSeq(b, 1, u) = a \o c
  BY <1>1, <1>3, <1>9
<1>12. lo = 0 => a = <<>>
  BY <1>1
<1>13. SubSeq(b, 1, Len(b)) = b
  BY <1>1
<1>14. Len(Chunks(b)[k]) <= MaxPlaintext
  <2>1. u <= lo + M
    BY <1>4 DEF u
  <2>2. u - lo <= M
    BY <1>1, <1>3, <1>9, <2>1
  <2>3. Chunks(b)[k] = c
    BY <1>5 DEF u
  <2> QED  BY <1>10, <2>2, <2>3 DEF M
<1>15. SubSeq(b, 1, Upto(b, k)) =
         (IF k = 1 THEN <<>> ELSE SubSeq(b, 1, Upto(b, k - 1))) \o Chunks(b)[k]
  <2>1. Chunks(b)[k] = c
    BY <1>5 DEF u
  <2>2. a = IF k = 1 THEN <<>> ELSE SubSeq(b, 1, Upto(b, k - 1))
    BY <1>7, <1>8, <1>12
  <2> HIDE DEF a, c
  <2> QED  BY <1>11, <2>1, <2>2 DEF u
<1>16. SubSeq(b, 1, Upto(b, Parts(b))) = b
  BY <1>13, PartsAre
<1> QED  BY <1>4, <1>6, <1>14, <1>15, <1>16

(* Where a record is in what its side has said: which message, which part of it. *)
Spots == [of : Nat, part : Nat]

(* The part behind e, w being the bytes of the messages. *)
After(w, e) == IF e.part < Parts(w[e.of]) THEN [of |-> e.of, part |-> e.part + 1]
               ELSE [of |-> e.of + 1, part |-> 1]

(* The parts l are the first ones of the messages w, in order and without a gap. *)
InOrder(w, l) ==
  /\ l \in Seq(Spots)
  /\ \A k \in 1..Len(l) : l[k].of \in 1..Len(w) /\ l[k].part \in 1..Parts(w[l[k].of])
  /\ l # <<>> => l[1] = [of |-> 1, part |-> 1]
  /\ \A k \in 1..(Len(l) - 1) : l[k + 1] = After(w, l[k])

(* They are all there are. *)
Ended(w, l) ==
  IF l = <<>> THEN w = <<>> ELSE l[Len(l)] = [of |-> Len(w), part |-> Parts(w[Len(w)])]

(* The first n parts of the message behind those of w. *)
NewSpots(w, n) == [i \in 1..n |-> [of |-> Len(w) + 1, part |-> i]]

(* What the record at that place holds. *)
Text(w, e) == Chunks(w[e.of])[e.part]

(* One sequence behind another. *)
LEMMA Joined ==
  ASSUME NEW S, NEW s \in Seq(S), NEW t \in Seq(S), NEW r, r = s \o t
  PROVE  /\ r \in Seq(S) /\ Len(r) = Len(s) + Len(t)
         /\ \A k \in 1..Len(s) : r[k] = s[k]
         /\ \A i \in 1..Len(t) : r[Len(s) + i] = t[i]
OBVIOUS

(* One element behind a sequence. *)
LEMMA Appended ==
  ASSUME NEW S, NEW s \in Seq(S), NEW e \in S, NEW r, r = Append(s, e)
  PROVE  /\ r \in Seq(S) /\ Len(r) = Len(s) + 1 /\ r[Len(s) + 1] = e /\ r # <<>>
         /\ \A k \in 1..Len(s) : r[k] = s[k]
<1>1. r \in Seq(S) /\ Len(r) = Len(s) + 1 /\ r[Len(s) + 1] = e
  OBVIOUS
<1>2. \A k \in 1..Len(s) : r[k] = s[k]
  OBVIOUS
<1>3. r # <<>>
  BY <1>1
<1> QED  BY <1>1, <1>2, <1>3

(* One more message leaves the parts there are where they are. *)
LEMMA InOrderKept ==
  ASSUME NEW w \in Seq(Bytes), NEW l, InOrder(w, l), NEW b \in Bytes,
         NEW v, v = Append(w, b)
  PROVE  InOrder(v, l) /\ \A k \in 1..Len(l) : Text(v, l[k]) = Text(w, l[k])
<1>1. /\ v \in Seq(Bytes) /\ Len(v) = Len(w) + 1 /\ Len(w) \in Nat
      /\ \A i \in 1..Len(w) : v[i] = w[i]
  <2>1. w \in Seq(Bytes) /\ b \in Bytes /\ v = Append(w, b)
    OBVIOUS
  <2>2. /\ v \in Seq(Bytes) /\ Len(v) = Len(w) + 1
        /\ \A i \in 1..Len(w) : v[i] = w[i]
    BY ONLY <2>1, Appended
  <2> QED  BY <2>2
<1>2. Len(l) \in Nat /\ \A k \in 1..Len(l) : l[k].of \in 1..Len(w)
  BY DEF InOrder
<1>3. \A k \in 1..Len(l) : l[k].of \in 1..Len(v) /\ v[l[k].of] = w[l[k].of]
  BY <1>1, <1>2
<1>4. \A k \in 1..(Len(l) - 1) : l[k + 1] = After(v, l[k])
  <2>1. \A k \in 1..(Len(l) - 1) : k \in 1..Len(l)
    BY <1>2
  <2> QED  BY <1>3, <2>1 DEF InOrder, After
<1>5. InOrder(v, l)
  BY <1>3, <1>4 DEF InOrder
<1>6. \A k \in 1..Len(l) : Text(v, l[k]) = Text(w, l[k])
  BY <1>3 DEF Text
<1> QED  BY <1>5, <1>6

(* v are the messages w with b behind them, L the parts l with n parts of b behind
   them, the first of which follows the last of l. *)
Longer(w, l, b, n, v, L) ==
  /\ InOrder(v, L) /\ Len(L) = Len(l) + n
  /\ \A k \in 1..Len(l) : L[k] = l[k]
  /\ \A i \in 1..n : /\ L[Len(l) + i] = [of |-> Len(w) + 1, part |-> i]
                     /\ Text(v, [of |-> Len(w) + 1, part |-> i]) = Chunks(b)[i]
  /\ n >= 1 /\ n = Parts(b) => Ended(v, L)

(* The parts of one more message behind all that there were. *)
LEMMA InOrderLonger ==
  ASSUME NEW w \in Seq(Bytes), NEW l, InOrder(w, l), Ended(w, l), NEW b \in Bytes,
         NEW n \in 0..Parts(b), NEW v, v = Append(w, b), NEW L, L = l \o NewSpots(w, n)
  PROVE  Longer(w, l, b, n, v, L)
<1> DEFINE m == NewSpots(w, n)
           N == Len(w) + 1
<1>1. /\ v \in Seq(Bytes) /\ Len(v) = N /\ Len(w) \in Nat /\ v[N] = b
      /\ \A i \in 1..Len(w) : v[i] = w[i]
  <2>1. /\ v \in Seq(Bytes) /\ Len(v) = Len(w) + 1 /\ v[Len(w) + 1] = b
        /\ \A i \in 1..Len(w) : v[i] = w[i]
    <3>1. w \in Seq(Bytes) /\ b \in Bytes /\ v = Append(w, b)
      OBVIOUS
    <3> QED  BY ONLY <3>1, Appended
  <2> QED  BY <2>1
<1>2. l \in Seq(Spots) /\ Len(l) \in Nat /\ InOrder(v, l)
  <2>1. w \in Seq(Bytes) /\ InOrder(w, l) /\ b \in Bytes /\ v = Append(w, b)
    OBVIOUS
  <2>2. InOrder(v, l)
    BY ONLY <2>1, InOrderKept
  <2> QED  BY <2>2 DEF InOrder
<1>3. Parts(b) \in Nat /\ n \in Nat /\ n <= Parts(b)
  BY PartsAre
<1>4. m \in Seq(Spots) /\ Len(m) = n /\ \A i \in 1..n : m[i] = [of |-> N, part |-> i]
  BY <1>1, <1>3 DEF NewSpots, Spots
<1> HIDE DEF m, N
<1>5. /\ L \in Seq(Spots) /\ Len(L) = Len(l) + n
      /\ \A k \in 1..Len(l) : L[k] = l[k]
      /\ \A i \in 1..n : L[Len(l) + i] = m[i]
  <2>1. /\ L \in Seq(Spots) /\ Len(L) = Len(l) + Len(m)
        /\ \A k \in 1..Len(l) : L[k] = l[k]
        /\ \A i \in 1..Len(m) : L[Len(l) + i] = m[i]
    <3>1. l \in Seq(Spots) /\ m \in Seq(Spots) /\ L = l \o m
      BY <1>2, <1>4 DEF m
    <3> QED  BY ONLY <3>1, Joined
  <2> QED  BY <1>4, <2>1
<1>6. \A i \in 1..n : L[Len(l) + i] = [of |-> N, part |-> i]
  BY <1>4, <1>5
<1>7. ASSUME NEW k \in 1..Len(L)
      PROVE  L[k].of \in 1..Len(v) /\ L[k].part \in 1..Parts(v[L[k].of])
  <2>1. CASE k <= Len(l)
    <3>1. k \in 1..Len(l) /\ L[k] = l[k]
      BY <1>2, <1>5, <2>1
    <3> QED  BY <1>2, <3>1 DEF InOrder
  <2>2. CASE ~(k <= Len(l))
    <3>1. k - Len(l) \in 1..n /\ k = Len(l) + (k - Len(l))
      BY <1>2, <1>3, <1>5, <2>2
    <3>2. L[k] = [of |-> N, part |-> k - Len(l)]
      BY <1>6, <3>1
    <3>3. N \in 1..Len(v) /\ k - Len(l) \in 1..Parts(b)
      BY <1>1, <1>3, <3>1 DEF N
    <3> QED  BY <1>1, <3>2, <3>3
  <2> QED  BY <2>1, <2>2
<1>8. L # <<>> => L[1] = [of |-> 1, part |-> 1]
  <2> SUFFICES ASSUME L # <<>> PROVE L[1] = [of |-> 1, part |-> 1]
    OBVIOUS
  <2>1. CASE l # <<>>
    <3>1. 1 \in 1..Len(l)
      BY <1>2, <2>1
    <3> QED  BY <1>2, <1>5, <2>1, <3>1 DEF InOrder
  <2>2. CASE l = <<>>
    <3>1. Len(l) = 0 /\ w = <<>> /\ N = 1
      BY <2>2 DEF Ended, N
    <3>2. 1 \in 1..n /\ 0 + 1 = 1
      BY <1>3, <1>5, <3>1
    <3> QED  BY <1>6, <3>1, <3>2
  <2> QED  BY <2>1, <2>2
<1>9. ASSUME NEW k \in 1..(Len(L) - 1) PROVE L[k + 1] = After(v, L[k])
  <2>0. k \in Nat /\ k >= 1 /\ k + 1 <= Len(l) + n
    BY <1>2, <1>3, <1>5
  <2>1. CASE k + 1 <= Len(l)
    <3>1. k \in 1..Len(l) /\ k + 1 \in 1..Len(l) /\ k \in 1..(Len(l) - 1)
      BY <1>2, <2>0, <2>1
    <3>2. l[k + 1] = After(v, l[k])
      BY <1>2, <3>1 DEF InOrder
    <3> QED  BY <1>5, <3>1, <3>2
  <2>2. CASE k = Len(l)
    <3>1. l # <<>> /\ k \in 1..Len(l) /\ 1 \in 1..n
      BY <1>2, <1>3, <2>0, <2>2
    <3>2. L[k] = [of |-> Len(w), part |-> Parts(w[Len(w)])]
      BY <1>5, <2>2, <3>1 DEF Ended
    <3>3. L[k].of \in 1..Len(w)
      BY <1>5, <3>1 DEF InOrder
    <3>4. Len(w) \in 1..Len(w) /\ v[Len(w)] = w[Len(w)]
      BY <1>1, <3>2, <3>3
    <3>5. Parts(w[Len(w)]) \in Nat
      <4>1. w[Len(w)] \in Bytes
        BY <3>4
      <4> QED  BY <4>1, PartsAre
    <3>6. After(v, L[k]) = [of |-> Len(w) + 1, part |-> 1]
      BY <3>2, <3>4, <3>5 DEF After
    <3>7. L[k + 1] = [of |-> N, part |-> 1]
      BY <1>6, <2>2, <3>1
    <3> QED  BY <3>6, <3>7 DEF N
  <2>3. CASE k > Len(l)
    <3> DEFINE i == k - Len(l)
    <3>1. i \in 1..n /\ i + 1 \in 1..n /\ k = Len(l) + i /\ k + 1 = Len(l) + (i + 1)
      BY <1>2, <1>3, <2>0, <2>3
    <3> HIDE DEF i
    <3>2. L[k] = [of |-> N, part |-> i] /\ L[k + 1] = [of |-> N, part |-> i + 1]
      BY <1>6, <3>1
    <3>3. i < Parts(b)
      BY <1>3, <3>1
    <3> QED  BY <1>1, <3>2, <3>3 DEF After
  <2> QED  BY <1>2, <2>0, <2>1, <2>2, <2>3
<1>10. InOrder(v, L)
  BY <1>5, <1>7, <1>8, <1>9 DEF InOrder
<1>11. \A i \in 1..n : Text(v, [of |-> N, part |-> i]) = Chunks(b)[i]
  BY <1>1 DEF Text
<1>12. n >= 1 /\ n = Parts(b) => Ended(v, L)
  <2> SUFFICES ASSUME n >= 1, n = Parts(b) PROVE Ended(v, L)
    OBVIOUS
  <2>1. n \in 1..n /\ L # <<>>
    BY <1>2, <1>3, <1>5
  <2>2. L[Len(L)] = [of |-> N, part |-> n]
    BY <1>5, <1>6, <2>1
  <2> QED  BY <1>1, <2>1, <2>2 DEF Ended
<1> QED  BY <1>5, <1>6, <1>10, <1>11, <1>12 DEF N, Longer

(* The i-th thing that side x has said is s, and b are its bytes.  Only to a side that
   was harmed, which h says, may that be something its encoder would not write. *)
Uttered(x, i, s, b, h) ==
  \/ /\ s \in Says[x] /\ Encodable(MessageOf(s)) /\ b = Encode(MessageOf(s))
     /\ MessageOf(s).kind = "HELLO" <=> x = "client" /\ i = 1
  \/ h /\ x = "server" /\ s.kind = "stray" /\ b \in Strays

(* w are the bytes of what side x has said.  A client says HELLO first. *)
Wrote(x, w) ==
  /\ said[x] \in Seq(Says[x] \cup {[kind |-> "stray"]})
  /\ w \in Seq(Bytes) /\ Len(w) = Len(said[x])
  /\ \A i \in 1..Len(w) : Uttered(x, i, said[x][i], w[i], harmed[Other(x)])
  /\ x = "client" /\ place[x] # "closed" => sentHello[x] = (w # <<>>)

(* The records l, one for each counter from 0 on, are the ones that side x has sealed
   and written whole before it first wrote one in part or had no counter left, which
   is all of them as long as the other side was not harmed. *)
Logged(x, w, l) ==
  /\ InOrder(w, l)
  /\ Len(l) <= send[x].nonce
  /\ Len(l) < send[x].nonce \/ send[x].nonce = NonceReserved \/ Ended(w, l)
  /\ ~harmed[Other(x)] => Len(l) = send[x].nonce /\ Ended(w, l)

(* A record on its way that nobody has spoilt is one of those, or comes behind one
   that never will. c counters have been used. *)
RecordOK(w, l, c, item) ==
  item.is = "record" /\ item.box.intact =>
    /\ item.box.nonce \in 0..(c - 1) /\ item.box.nonce # Len(l)
    /\ item.box.nonce < Len(l) => item.box.text = Text(w, l[item.box.nonce + 1])

(* Who has opened r records and taken q messages is at the start, or has a part of
   the next message, or nothing behind the last one. *)
Halfway(r, q, text, w, l) ==
  \/ r = 0 /\ q = 0 /\ text = <<>>
  \/ r > 0 /\ l[r].of = q + 1 /\ text = SubSeq(w[q + 1], 1, Upto(w[q + 1], l[r].part))
  \/ r > 0 /\ l[r].of = q /\ l[r].part = Parts(w[q]) /\ text = <<>>

(* What side y has read of them. *)
HasRead(y, w, l) ==
  /\ receive[y].nonce \in 0..Len(l)
  /\ place[y] \in {"start", "answer"} => receive[y].nonce = 0
  /\ \E S : got[y] \in Seq(S)
  /\ gotHello[y] \in BOOLEAN /\ (y = "server" => gotHello[y] = (got[y] # <<>>))
  /\ Halfway(receive[y].nonce, Len(got[y]), plain[y], w, l)
  /\ \A i \in 1..Len(got[y]) :
       LET src == said[Other(y)][i] IN src.kind # "stray" => got[y][i] = MessageOf(src)

(* From side x to side y: what was written, logged, read and is on its way agree. *)
Direction(x, y, w, l) ==
  /\ Wrote(x, w) /\ Logged(x, w, l) /\ HasRead(y, w, l)
  /\ \A i \in 1..Len(net[y]) : RecordOK(w, l, send[x].nonce, net[y][i])

(***************************************************************************)
(* The inductive invariant, in each direction.                             *)
(***************************************************************************)
DeliveryInv ==
  /\ DOMAIN said = Sides /\ DOMAIN sentHello = Sides /\ DOMAIN gotHello = Sides
  /\ DOMAIN got = Sides /\ DOMAIN plain = Sides /\ DOMAIN harmed = Sides
  /\ \A x \in Sides : \E w, l : Direction(x, Other(x), w, l)

(* The two sides. *)
LEMMA Others ==
  ASSUME NEW x \in Sides
  PROVE  Other(x) \in Sides /\ Other(x) # x /\ Other(Other(x)) = x
         /\ \A z \in Sides : z = x \/ z = Other(x)
BY DEF Other, Sides

(* No more is taken than was said. *)
LEMMA HalfwayBounds ==
  ASSUME NEW w \in Seq(Bytes), NEW l, InOrder(w, l), NEW r \in 0..Len(l), NEW q \in Nat,
         NEW text, Halfway(r, q, text, w, l)
  PROVE  q <= Len(w)
<1>1. Len(w) \in Nat /\ Len(l) \in Nat
  BY DEF InOrder
<1>2. r > 0 => l[r].of \in 1..Len(w)
  BY <1>1 DEF InOrder
<1> QED  BY <1>1, <1>2 DEF Halfway

(* A step that changes nothing of what x says or of what y reads. *)
LEMMA DirectionKept ==
  ASSUME NEW x, NEW y, NEW w, NEW l, Direction(x, y, w, l), x = Other(y), y = Other(x),
         harmed[y] => harmed'[y],
         said'[x] = said[x], sentHello'[x] = sentHello[x],
         place'[x] # "closed" => place[x] # "closed",
         send'[x].nonce = send[x].nonce, receive'[y].nonce = receive[y].nonce,
         place'[y] \in {"start", "answer"} => place[y] \in {"start", "answer"},
         got'[y] = got[y], plain'[y] = plain[y], gotHello'[y] = gotHello[y],
         \A i \in 1..Len(net'[y]) : RecordOK(w, l, send[x].nonce, net'[y][i])
  PROVE  Direction(x, y, w, l)'
<1>1. Wrote(x, w)'
  <2>1. Wrote(x, w)
    BY DEF Direction
  <2>2. \A i \in 1..Len(w) : Uttered(x, i, said'[x][i], w[i], harmed'[Other(x)])
    BY <2>1 DEF Wrote, Uttered
  <2> QED  BY <2>1, <2>2 DEF Wrote
<1>2. Logged(x, w, l)'
  BY DEF Direction, Logged
<1>3. HasRead(y, w, l)'
  <2>1. HasRead(y, w, l)
    BY DEF Direction
  <2>2. \A i \in 1..Len(got'[y]) :
          LET src == said'[Other(y)][i] IN src.kind # "stray" => got'[y][i] = MessageOf(src)
    BY <2>1 DEF HasRead
  <2> QED  BY <2>1, <2>2 DEF HasRead
<1> QED  BY <1>1, <1>2, <1>3 DEF Direction

(* What is under way to y after a step was so before or is of items. *)
AddedTo(y, items) ==
  \A i \in 1..Len(net'[y]) :
    \/ \E k \in 1..Len(net[y]) : net'[y][i] = net[y][k]
    \/ \E k \in 1..Len(items) : net'[y][i] = items[k]

(* What a write puts on its way. *)
LEMMA WrittenItems ==
  ASSUME KeyInv, NEW x \in Sides, NEW y, y = Other(x), NEW S, NEW items \in Seq(S),
         NEW n, DOMAIN n = Sides, n[y] = net[y], net' = Written(n, x, items)
  PROVE  /\ net'[x] = n[x] /\ DOMAIN net' = Sides
         /\ net'[y] = net[y] \/ net'[y] = net[y] \o items
         /\ AddedTo(y, items)
<1>1. DOMAIN net = Sides /\ y \in Sides /\ y # x
  BY Others DEF KeyInv
<1>2. net[y] \in Seq(ToSet(net[y]))
  BY <1>1 DEF KeyInv, Flows
<1>3. CASE place[y] = "closed"
  BY <1>1, <1>3 DEF Written, AddedTo
<1>4. CASE place[y] # "closed"
  <2> DEFINE t == net[y] \o items
  <2>1. net' = [n EXCEPT ![y] = t]
    BY <1>4 DEF Written
  <2> DEFINE U == ToSet(net[y]) \cup S
  <2>2. net[y] \in Seq(U) /\ items \in Seq(U)
    BY <1>2
  <2> HIDE DEF U
  <2>3. t = net[y] \o items
    OBVIOUS
  <2> HIDE DEF t
  <2>4. /\ Len(t) = Len(net[y]) + Len(items)
        /\ \A k \in 1..Len(net[y]) : t[k] = net[y][k]
        /\ \A k \in 1..Len(items) : t[Len(net[y]) + k] = items[k]
    BY ONLY <2>2, <2>3, Joined
  <2>5. Len(net[y]) \in Nat /\ Len(items) \in Nat
    BY <1>2
  <2>6. ASSUME NEW i \in 1..Len(t)
        PROVE  \/ \E k \in 1..Len(net[y]) : t[i] = net[y][k]
               \/ \E k \in 1..Len(items) : t[i] = items[k]
    <3>1. CASE i <= Len(net[y])
      BY <2>4, <2>5, <3>1
    <3>2. CASE ~(i <= Len(net[y]))
      <4>1. i - Len(net[y]) \in 1..Len(items) /\ i = Len(net[y]) + (i - Len(net[y]))
        BY <2>4, <2>5, <3>2
      <4> QED  BY <2>4, <4>1
    <3> QED  BY <3>1, <3>2
  <2>7. /\ net'[x] = n[x] /\ DOMAIN net' = Sides /\ net'[y] = t
    BY <1>1, <2>1
  <2>8. AddedTo(y, items)
    BY <2>6, <2>7 DEF AddedTo
  <2> QED  BY <2>3, <2>7, <2>8
<1> QED  BY <1>3, <1>4

(* The records that a write makes. *)
LEMMA SealedAre ==
  ASSUME NonceInv, NEW x \in Sides, NEW b, NEW s \in Nat, send[x].nonce + s <= NonceReserved,
         NEW i \in 1..s
  PROVE  /\ Sealed(x, Chunks(b), i) =
              Record([key |-> send[x].key, nonce |-> send[x].nonce + (i - 1), ad |-> <<>>,
                      text |-> Chunks(b)[i], intact |-> TRUE])
         /\ send[x].nonce \in Nat
<1>1. IsCipherState(send[x]) /\ NonceReserved \in Nat
  BY NoiseAssumption DEF NonceInv
<1>2. send[x].nonce \in Nat /\ i - 1 \in Nat /\ send[x].nonce + (i - 1) <= NonceReserved
  BY <1>1 DEF IsCipherState
<1> DEFINE c == send[x]
           j == i - 1
<1>3. c.nonce + j <= NonceReserved /\ j \in Nat
  BY <1>2
<1>4. Advanced(c, j) = [key |-> c.key, nonce |-> c.nonce + j]
  <2> HIDE DEF c, j
  <2> QED  BY <1>1, <1>3, NoWrap DEF c
<1> DEFINE d == Advanced(c, j)
<1>5. Sealed(x, Chunks(b), i) = Record(seal(d, <<>>, Chunks(b)[i]))
  BY DEF Sealed
<1>6. d.key = c.key /\ d.nonce = c.nonce + j
  BY <1>4
<1> HIDE DEF d
<1>7. seal(d, <<>>, Chunks(b)[i]) = [key |-> c.key, nonce |-> c.nonce + j, ad |-> <<>>,
                                     text |-> Chunks(b)[i], intact |-> TRUE]
  BY <1>6 DEF seal
<1> QED  BY <1>2, <1>5, <1>7

(* What is under way to y after a step was so before, or is one of the first n records
   that x makes of b, or half a record. *)
SentTo(x, y, b, n) ==
  \A k \in 1..Len(net'[y]) :
    \/ \E j \in 1..Len(net[y]) : net'[y][k] = net[y][j]
    \/ \E i \in 1..n : net'[y][k] = Sealed(x, Chunks(b), i)
    \/ net'[y][k] = CutShort

(* What RecordWriter.Write does to the counter and to the other side's stream. *)
LEMMA WritesAre ==
  ASSUME NonceInv, KeyInv, NEW x \in Sides, NEW y, y = Other(x), NEW b \in Bytes,
         NEW s \in Nat, s <= CanSend(x, Chunks(b)), NEW n \in 0..s,
         NEW tail \in {<<>>, <<CutShort>>}, WritesRecords(x, b, n, s, tail)
  PROVE  /\ send[x].nonce \in Nat /\ send[x].nonce + s <= NonceReserved /\ s <= Parts(b)
         /\ send'[x].nonce = send[x].nonce + s
         /\ send'[y] = send[y] /\ net'[x] = net[x] /\ DOMAIN net' = Sides
         /\ SentTo(x, y, b, n)
<1> DEFINE c == send[x]
<1>1. IsCipherState(c) /\ NonceReserved \in Nat /\ DOMAIN send = Sides
  BY NoiseAssumption DEF NonceInv
<1>2. Parts(b) \in Nat
  BY PartsAre
<1>3. CanSend(x, Chunks(b)) \in 0..Parts(b)
      /\ \A i \in 1..CanSend(x, Chunks(b)) : CanSeal(Advanced(send[x], i - 1), Chunks(b)[i])
  <2>1. Len(Chunks(b)) \in Nat
    BY <1>2 DEF Parts
  <2> DEFINE chunks == Chunks(b)
  <2> HIDE DEF chunks
  <2>2. /\ CanSend(x, chunks) \in 0..Len(chunks)
        /\ \A i \in 1..CanSend(x, chunks) : CanSeal(Advanced(send[x], i - 1), chunks[i])
    BY <2>1, CanSendIs DEF chunks
  <2> QED  BY <2>2 DEF chunks, Parts
<1>4. s <= Parts(b) /\ \A i \in 1..s : CanSeal(Advanced(c, i - 1), Chunks(b)[i])
  BY <1>2, <1>3
<1>5. c.nonce + s <= NonceReserved
  <2> HIDE DEF c
  <2> QED  BY <1>1, <1>4, SealingStaysBelow
<1>6. Advanced(c, s) = [key |-> c.key, nonce |-> c.nonce + s]
  <2> HIDE DEF c
  <2> QED  BY <1>1, <1>5, NoWrap
<1>7. send' = [send EXCEPT ![x] = Advanced(c, s)]
  BY DEF WritesRecords
<1>8. send'[x].nonce = c.nonce + s /\ send'[y] = send[y]
  <2>1. send'[x] = Advanced(c, s)
    BY <1>1, <1>7
  <2>2. send'[y] = send[y]
    BY <1>1, <1>7, Others
  <2> QED  BY <1>6, <2>1, <2>2
<1> DEFINE f == [i \in 1..n |-> Sealed(x, Chunks(b), i)]
           items == f \o tail
           S == {Sealed(x, Chunks(b), i) : i \in 1..n} \cup {CutShort}
<1>9. net' = Written(net, x, items)
  BY DEF WritesRecords
<1>10. n \in Nat /\ f = [i \in 1..n |-> f[i]] /\ \A i \in 1..n : f[i] \in S
  OBVIOUS
<1>11. \A i \in 1..n : f[i] = Sealed(x, Chunks(b), i)
  OBVIOUS
<1>t. tail \in Seq(S) /\ \A i \in 1..Len(tail) : tail[i] = CutShort
  <2>0. CutShort \in S
    OBVIOUS
  <2> HIDE DEF S
  <2>1. CASE tail = <<>>
    BY <2>1
  <2>2. CASE tail = <<CutShort>>
    BY <2>0, <2>2
  <2> QED  BY <2>1, <2>2
<1> HIDE DEF f, S
<1>12. f \in Seq(S) /\ Len(f) = n
  BY <1>10
<1>14. items = f \o tail
  OBVIOUS
<1> HIDE DEF items
<1>15. /\ items \in Seq(S) /\ Len(items) = n + Len(tail)
       /\ \A k \in 1..n : items[k] = f[k]
       /\ \A i \in 1..Len(tail) : items[n + i] = tail[i]
  <2>1. /\ items \in Seq(S) /\ Len(items) = Len(f) + Len(tail)
        /\ \A k \in 1..Len(f) : items[k] = f[k]
        /\ \A i \in 1..Len(tail) : items[Len(f) + i] = tail[i]
    <3>1. f \in Seq(S) /\ tail \in Seq(S)
      BY <1>12, <1>t
    <3> QED  BY ONLY <1>14, <3>1, Joined
  <2> QED  BY <1>12, <2>1
<1>16. ASSUME NEW k \in 1..Len(items)
       PROVE  items[k] = CutShort \/ \E i \in 1..n : items[k] = Sealed(x, Chunks(b), i)
  <2>1. CASE k <= n
    BY <1>10, <1>11, <1>15, <2>1
  <2>2. CASE ~(k <= n)
    <3>1. Len(tail) \in Nat
      BY <1>t
    <3>2. k - n \in 1..Len(tail) /\ k = n + (k - n)
      BY <1>10, <1>15, <2>2, <3>1
    <3> QED  BY <1>t, <1>15, <3>2
  <2> QED  BY <2>1, <2>2
<1>17. /\ net'[x] = net[x] /\ DOMAIN net' = Sides
       /\ AddedTo(y, items)
  <2>1. /\ items \in Seq(S) /\ net' = Written(net, x, items) /\ KeyInv /\ x \in Sides
        /\ y = Other(x) /\ DOMAIN net = Sides
    BY <1>9, <1>15 DEF KeyInv
  <2> QED  BY ONLY <2>1, WrittenItems
<1>18. c.nonce \in Nat
  BY <1>1 DEF IsCipherState
<1> QED  BY <1>4, <1>5, <1>8, <1>16, <1>17, <1>18 DEF AddedTo, SentTo

(* Side x says src, whose bytes are b: it seals s records of it and writes n of them
   whole.  When these are as many, they are all of it or the counter is exhausted. *)
Speaks(x, src, b, n, s, tail) ==
  /\ src \in Says[x] \cup {[kind |-> "stray"]}
  /\ Uttered(x, Len(said[x]) + 1, src, b, harmed'[Other(x)])
  /\ harmed[Other(x)] => harmed'[Other(x)]
  /\ ~harmed'[Other(x)] => n = s /\ s = Parts(b)
  /\ b \in Bytes /\ b # <<>>
  /\ s \in Nat /\ s <= CanSend(x, Chunks(b)) /\ n \in {s - 1, s} /\ n \in Nat
  /\ tail \in {<<>>, <<CutShort>>} /\ WritesRecords(x, b, n, s, tail)
  /\ n = s => s = Parts(b) \/ send[x].nonce + s = NonceReserved
  /\ said'[x] = Append(said[x], src)
  /\ x = "client" /\ place'[x] # "closed" => sentHello'[x] = TRUE
  /\ UNCHANGED <<receive, got, plain, gotHello>>

(* A write that takes the sender's direction on: everything of it is sealed and
   written, or one record is sealed that never arrives, or the counter is exhausted. *)
LEMMA WritingDelivers ==
  ASSUME NonceInv, KeyInv, NEW x \in Sides, NEW y, y = Other(x), NEW w, NEW l,
         Direction(x, y, w, l),
         NEW src, NEW b, NEW n, NEW s, NEW tail, Speaks(x, src, b, n, s, tail),
         place'[y] = place[y]
  PROVE  \E w2, l2 : Direction(x, y, w2, l2)'
<1> DEFINE c == send[x].nonce
           v == Append(w, b)
<1>s. /\ src \in Says[x] \cup {[kind |-> "stray"]}
      /\ Uttered(x, Len(said[x]) + 1, src, b, harmed'[y])
      /\ harmed[y] => harmed'[y]
      /\ ~harmed'[y] => n = s /\ s = Parts(b)
      /\ b \in Bytes /\ b # <<>>
      /\ s \in Nat /\ s <= CanSend(x, Chunks(b)) /\ n \in {s - 1, s} /\ n \in Nat
      /\ tail \in {<<>>, <<CutShort>>} /\ WritesRecords(x, b, n, s, tail)
      /\ n = s => s = Parts(b) \/ send[x].nonce + s = NonceReserved
      /\ said'[x] = Append(said[x], src)
      /\ x = "client" /\ place'[x] # "closed" => sentHello'[x] = TRUE
      /\ receive' = receive /\ got' = got /\ plain' = plain /\ gotHello' = gotHello
  BY DEF Speaks
<1> USE <1>s
<1>0. n \in 0..s
  OBVIOUS
<1>1. /\ c \in Nat /\ c + s <= NonceReserved /\ s <= Parts(b)
      /\ send'[x].nonce = c + s
      /\ \A k \in 1..Len(net'[y]) :
           \/ \E j \in 1..Len(net[y]) : net'[y][k] = net[y][j]
           \/ \E i \in 1..n : net'[y][k] = Sealed(x, Chunks(b), i)
           \/ net'[y][k] = CutShort
  <2>1. /\ NonceInv /\ KeyInv /\ x \in Sides /\ y = Other(x) /\ b \in Bytes /\ s \in Nat
        /\ s <= CanSend(x, Chunks(b)) /\ n \in 0..s /\ tail \in {<<>>, <<CutShort>>}
        /\ WritesRecords(x, b, n, s, tail)
    BY <1>0
  <2>2. /\ send[x].nonce \in Nat /\ send[x].nonce + s <= NonceReserved /\ s <= Parts(b)
        /\ send'[x].nonce = send[x].nonce + s /\ SentTo(x, y, b, n)
    BY ONLY <2>1, WritesAre
  <2> QED  BY <2>2 DEF SentTo
<1>r. \A e : Record(e).box = e /\ Record(e).is = "record"
  BY DEF Record
<1>2. ASSUME NEW i \in 1..n
      PROVE  Sealed(x, Chunks(b), i) =
               Record([key |-> send[x].key, nonce |-> c + (i - 1), ad |-> <<>>,
                       text |-> Chunks(b)[i], intact |-> TRUE])
  <2>1. i \in 1..s
    OBVIOUS
  <2> QED  BY <1>1, <2>1, SealedAre
<1>3. Parts(b) \in Nat /\ Parts(b) >= 1
  BY PartsAre
<1>4. /\ w \in Seq(Bytes) /\ Len(w) = Len(said[x]) /\ InOrder(w, l) /\ l \in Seq(Spots)
      /\ Len(l) \in Nat /\ Len(w) \in Nat /\ Len(l) <= c
      /\ said[x] \in Seq(Says[x] \cup {[kind |-> "stray"]})
  BY DEF Direction, Wrote, Logged, InOrder
<1>5. Wrote(x, v)'
  <2> DEFINE U == Says[x] \cup {[kind |-> "stray"]}
             t == Append(said[x], src)
  <2>1. t \in Seq(U) /\ Len(t) = Len(said[x]) + 1 /\ t[Len(said[x]) + 1] = src
        /\ \A i \in 1..Len(said[x]) : t[i] = said[x][i]
    BY <1>4
  <2>2. v \in Seq(Bytes) /\ Len(v) = Len(w) + 1 /\ v[Len(w) + 1] = b /\ v # <<>>
        /\ \A i \in 1..Len(w) : v[i] = w[i]
    <3>1. w \in Seq(Bytes) /\ b \in Bytes /\ v = Append(w, b)
      BY <1>4
    <3> HIDE DEF v
    <3> QED  BY ONLY <3>1, Appended
  <2> HIDE DEF t, v, U
  <2>3. ASSUME NEW i \in 1..Len(v) PROVE Uttered(x, i, t[i], v[i], harmed'[y])
    <3>1. CASE i \in 1..Len(w)
      <4>1. Uttered(x, i, said[x][i], w[i], harmed[y])
        BY <3>1 DEF Direction, Wrote
      <4>2. Uttered(x, i, said[x][i], w[i], harmed'[y])
        BY <4>1 DEF Uttered
      <4> QED  BY <1>4, <2>1, <2>2, <3>1, <4>2
    <3>2. CASE i = Len(w) + 1
      BY <1>4, <2>1, <2>2, <3>2
    <3> QED  BY <1>4, <2>2, <3>1, <3>2
  <2>4. Len(v) = Len(t)
    BY <1>4, <2>1, <2>2
  <2>5. said'[x] = t
    BY DEF t
  <2>6. x = "client" /\ place'[x] # "closed" => sentHello'[x] = (v # <<>>)
    BY <2>2
  <2> QED  BY <2>1, <2>2, <2>3, <2>4, <2>5, <2>6 DEF Wrote, U
<1>6. ASSUME NEW L, InOrder(v, L), Len(l) <= Len(L),
             \A k \in 1..Len(l) : L[k] = l[k] /\ Text(v, L[k]) = Text(w, l[k])
      PROVE  HasRead(y, v, L)'
  <2>1. HasRead(y, w, l)
    BY DEF Direction
  <2>2. PICK S : got[y] \in Seq(S)
    BY <2>1 DEF HasRead
  <2>3. Len(got[y]) \in Nat
    BY <2>2
  <2> DEFINE r == receive[y].nonce
             q == Len(got[y])
  <2>4. r \in 0..Len(l) /\ Halfway(r, q, plain[y], w, l)
    BY <2>1 DEF HasRead
  <2>5. q <= Len(w)
    <3> HIDE DEF r, q
    <3> QED  BY <1>4, <2>3, <2>4, HalfwayBounds DEF q
  <2>6. \A i \in 1..Len(w) : v[i] = w[i]
    BY <1>4
  <2>7. Len(L) \in Nat
    BY <1>6 DEF InOrder
  <2> HIDE DEF v
  <2>8. Halfway(r, q, plain[y], v, L)
    <3>1. CASE r = 0
      BY <2>4, <3>1 DEF Halfway
    <3>2. CASE r # 0
      <4>1. r \in 1..Len(l) /\ r > 0
        BY <1>4, <2>4, <3>2
      <4>2. L[r] = l[r] /\ l[r].of \in 1..Len(w)
        BY <1>4, <1>6, <4>1 DEF InOrder
      <4> QED  BY <2>4, <2>6, <4>1, <4>2 DEF Halfway
    <3> QED  BY <3>1, <3>2
  <2>9. \A i \in 1..q : said'[x][i] = said[x][i]
    <3>1. \A i \in 1..Len(said[x]) : Append(said[x], src)[i] = said[x][i]
      BY <1>4
    <3> QED  BY <1>4, <2>3, <2>5, <3>1
  <2>10. x = Other(y)
    BY Others
  <2>11. \A i \in 1..q :
          LET e == said'[Other(y)][i] IN e.kind # "stray" => got[y][i] = MessageOf(e)
    <3>1. \A i \in 1..q :
            LET e == said[x][i] IN e.kind # "stray" => got[y][i] = MessageOf(e)
      BY <2>1, <2>10 DEF HasRead
    <3> HIDE DEF q
    <3> QED  BY <2>9, <2>10, <3>1
  <2>12. r \in 0..Len(L)
    BY <1>4, <1>6, <2>4, <2>7
  <2> QED  BY <2>1, <2>2, <2>8, <2>11, <2>12 DEF HasRead
<1>7. ASSUME NEW L, NEW k \in 1..Len(net'[y]),
             \A j \in 1..Len(net[y]) : RecordOK(v, L, c + s, net[y][j]),
             \A i \in 1..n : RecordOK(v, L, c + s, Sealed(x, Chunks(b), i))
      PROVE  RecordOK(v, L, c + s, net'[y][k])
  <2> HIDE DEF v, c
  <2>1. RecordOK(v, L, c + s, CutShort)
    BY DEF RecordOK, CutShort
  <2> QED  BY <1>1, <1>7, <2>1
<1>8. \A j \in 1..Len(net[y]) : RecordOK(w, l, c, net[y][j])
  BY DEF Direction
<1>9. InOrder(v, l) /\ \A k \in 1..Len(l) : Text(v, l[k]) = Text(w, l[k])
  <2>1. w \in Seq(Bytes) /\ InOrder(w, l) /\ b \in Bytes /\ v = Append(w, b)
    BY <1>4
  <2> HIDE DEF v
  <2> QED  BY ONLY <2>1, InOrderKept
<1>10. CASE Len(l) < c \/ c = NonceReserved
  <2>1. c = NonceReserved => s = 0 /\ n = 0
    BY <1>0, <1>1
  <2>2. Logged(x, v, l)'
    <3>1. Len(l) <= c + s
      BY <1>1, <1>4
    <3>2. Len(l) < c + s \/ c + s = NonceReserved
      BY <1>1, <1>4, <1>10, <2>1
    <3>3. harmed'[y]
      <4> SUFFICES ASSUME ~harmed'[y] PROVE FALSE
        OBVIOUS
      <4>1. Len(l) = c
        BY DEF Direction, Logged
      <4>2. c = NonceReserved /\ s >= 1
        BY <1>1, <1>3, <1>4, <1>10, <4>1
      <4> QED  BY <2>1, <4>2
    <3> QED  BY <1>1, <1>9, <3>1, <3>2, <3>3 DEF Logged
  <2>3. HasRead(y, v, l)'
    BY <1>4, <1>6, <1>9
  <2>4. \A j \in 1..Len(net[y]) : RecordOK(v, l, c + s, net[y][j])
    <3> HIDE DEF v, c
    <3>1. \A m \in 0..(c - 1) : m \in 0..((c + s) - 1) /\ (m < Len(l) => m + 1 \in 1..Len(l))
      BY <1>1, <1>4
    <3> QED  BY <1>8, <1>9, <3>1 DEF RecordOK
  <2>5. ASSUME NEW i \in 1..n PROVE RecordOK(v, l, c + s, Sealed(x, Chunks(b), i))
    <3> HIDE DEF v, c
    <3>1. Len(l) < c
      BY <1>10, <2>1
    <3>2. c + (i - 1) \in 0..((c + s) - 1) /\ c + (i - 1) # Len(l) /\ ~(c + (i - 1) < Len(l))
      BY <1>0, <1>1, <1>4, <3>1
    <3> DEFINE box == [key |-> send[x].key, nonce |-> c + (i - 1), ad |-> <<>>,
                       text |-> Chunks(b)[i], intact |-> TRUE]
    <3>3. Sealed(x, Chunks(b), i).box = box /\ box.nonce = c + (i - 1)
      BY <1>2, <1>r
    <3> HIDE DEF box
    <3> QED  BY <3>2, <3>3 DEF RecordOK
  <2>6. \A k \in 1..Len(net'[y]) : RecordOK(v, l, send'[x].nonce, net'[y][k])
    BY <1>1, <1>7, <2>4, <2>5
  <2>7. Direction(x, y, v, l)'
    <3> HIDE DEF v
    <3> QED  BY <1>5, <2>2, <2>3, <2>6 DEF Direction
  <2> QED  BY <2>7
<1>11. CASE ~(Len(l) < c \/ c = NonceReserved)
  <2>1. Len(l) = c /\ Ended(w, l)
    BY <1>1, <1>4, <1>11 DEF Direction, Logged
  <2> DEFINE L == l \o NewSpots(w, n)
  <2>0. n \in 0..Parts(b)
    BY <1>0, <1>1, <1>3
  <2>2. /\ InOrder(v, L) /\ Len(L) = Len(l) + n
        /\ \A k \in 1..Len(l) : L[k] = l[k]
        /\ \A i \in 1..n : /\ L[Len(l) + i] = [of |-> Len(w) + 1, part |-> i]
                           /\ Text(v, [of |-> Len(w) + 1, part |-> i]) = Chunks(b)[i]
        /\ n >= 1 /\ n = Parts(b) => Ended(v, L)
    <3>1. /\ w \in Seq(Bytes) /\ InOrder(w, l) /\ Ended(w, l) /\ b \in Bytes
          /\ n \in 0..Parts(b) /\ v = Append(w, b) /\ L = l \o NewSpots(w, n)
      BY <1>4, <2>0, <2>1
    <3> HIDE DEF v, L
    <3>2. Longer(w, l, b, n, v, L)
      BY ONLY <3>1, InOrderLonger
    <3> QED  BY <3>2 DEF Longer
  <2> HIDE DEF L
  <2>3. Logged(x, v, L)'
    <3>1. Len(L) <= c + s
      BY <1>0, <1>1, <2>1, <2>2
    <3>2. Len(L) < c + s \/ c + s = NonceReserved \/ Ended(v, L)
      <4>1. CASE n = s
        BY <1>1, <1>3, <2>2, <4>1
      <4>2. CASE n = s - 1
        BY <1>0, <1>1, <2>1, <2>2, <4>2
      <4> QED  BY <4>1, <4>2
    <3>3. ~harmed'[y] => Len(L) = c + s /\ Ended(v, L)
      BY <1>1, <1>3, <2>1, <2>2
    <3> HIDE DEF v
    <3> QED  BY <1>1, <2>2, <3>1, <3>2, <3>3 DEF Logged
  <2>4. \A k \in 1..Len(l) : L[k] = l[k] /\ Text(v, L[k]) = Text(w, l[k])
    BY <1>9, <2>2
  <2>5. HasRead(y, v, L)'
    <3>1. Len(l) <= Len(L)
      BY <1>4, <2>0, <2>2, <1>3
    <3> HIDE DEF v
    <3> QED  BY <1>6, <2>2, <2>4, <3>1
  <2>6. \A j \in 1..Len(net[y]) : RecordOK(v, L, c + s, net[y][j])
    <3> HIDE DEF v, c
    <3>1. \A m \in 0..(c - 1) : /\ m \in 0..((c + s) - 1) /\ m + 1 \in 1..Len(l)
                                /\ m < Len(l) /\ m < Len(L) /\ m # Len(L)
      <4>1. Len(L) = Len(l) + n /\ Len(l) = c /\ c \in Nat
        BY <1>1, <2>1, <2>2
      <4> QED  BY ONLY <1>0, <1>s, <4>1
    <3> QED  BY <1>8, <2>4, <3>1 DEF RecordOK
  <2>7. ASSUME NEW i \in 1..n PROVE RecordOK(v, L, c + s, Sealed(x, Chunks(b), i))
    <3> HIDE DEF v, c
    <3> DEFINE m == c + (i - 1)
               box == [key |-> send[x].key, nonce |-> m, ad |-> <<>>,
                       text |-> Chunks(b)[i], intact |-> TRUE]
    <3>1. m \in 0..((c + s) - 1) /\ m # Len(L) /\ m + 1 = Len(l) + i
      BY <1>0, <1>1, <2>1, <2>2
    <3>2. Sealed(x, Chunks(b), i).box = box /\ box.nonce = m /\ box.text = Chunks(b)[i]
      BY <1>2, <1>r
    <3>3. Chunks(b)[i] = Text(v, L[m + 1])
      BY <2>2, <3>1
    <3> HIDE DEF box, m
    <3> QED  BY <3>1, <3>2, <3>3 DEF RecordOK
  <2>8. \A k \in 1..Len(net'[y]) : RecordOK(v, L, send'[x].nonce, net'[y][k])
    BY <1>1, <1>7, <2>6, <2>7
  <2>9. Direction(x, y, v, L)'
    <3> HIDE DEF v
    <3> QED  BY <1>5, <2>3, <2>5, <2>8 DEF Direction
  <2> QED  BY <2>9
<1> QED  BY <1>10, <1>11

(* What is under way to side z after a step has been before, or is no whole record. *)
NoNewRecord(z) ==
  \A i \in 1..Len(net'[z]) :
    \/ \E k \in 1..Len(net[z]) : net'[z][i] = net[z][k]
    \/ ~(net'[z][i].is = "record" /\ net'[z][i].box.intact)

(* Side z comes back to nothing it has left, and its counters stay. *)
NoReopening(z) ==
  /\ place'[z] # "closed" => place[z] # "closed"
  /\ place'[z] \in {"start", "answer"} => place[z] \in {"start", "answer"}
  /\ send'[z].nonce = send[z].nonce /\ receive'[z].nonce = receive[z].nonce
  /\ harmed[z] => harmed'[z]

(* A step that neither says nor reads anything. *)
LEMMA QuietDelivers ==
  ASSUME DeliveryInv, UNCHANGED <<said, sentHello, got, plain, gotHello>>,
         DOMAIN harmed' = Sides,
         \A z \in Sides : NoReopening(z) /\ NoNewRecord(z)
  PROVE  DeliveryInv'
<1>1. ASSUME NEW x \in Sides PROVE \E w, l : Direction(x, Other(x), w, l)'
  <2>1. PICK w, l : Direction(x, Other(x), w, l)
    BY DEF DeliveryInv
  <2> DEFINE y == Other(x)
  <2>2. y \in Sides /\ x = Other(y) /\ y = Other(x)
    BY Others
  <2> HIDE DEF y
  <2>3. Direction(x, y, w, l)
    BY <2>1 DEF y
  <2>4. \A i \in 1..Len(net[y]) : RecordOK(w, l, send[x].nonce, net[y][i])
    BY <2>3 DEF Direction
  <2>5. \A i \in 1..Len(net'[y]) : RecordOK(w, l, send[x].nonce, net'[y][i])
    <3>1. \A item : ~(item.is = "record" /\ item.box.intact) => RecordOK(w, l, send[x].nonce, item)
      BY DEF RecordOK
    <3> QED  BY <2>2, <2>4, <3>1 DEF NoNewRecord
  <2>6. Direction(x, y, w, l)'
    BY <2>2, <2>3, <2>5, DirectionKept DEF NoReopening
  <2> QED  BY <2>6 DEF y
<1>2. /\ DOMAIN said' = Sides /\ DOMAIN sentHello' = Sides /\ DOMAIN gotHello' = Sides
      /\ DOMAIN got' = Sides /\ DOMAIN plain' = Sides
  BY DEF DeliveryInv
<1> QED  BY <1>1, <1>2 DEF DeliveryInv

(* A side that is not open has sealed nothing and opened nothing; when it is, its
   counters start from 0. *)
LEMMA OpenedCounters ==
  ASSUME NonceInv, KeyInv, DeliveryInv, NEW x \in Sides, NEW h, Opened(x, h),
         place[x] \in {"start", "answer"}, harmed' = harmed
  PROVE  \A z \in Sides : NoReopening(z)
<1>1. \E k, j : /\ Split(h).send = [key |-> k, nonce |-> 0]
               /\ Split(h).receive = [key |-> j, nonce |-> 0]
  <2> DEFINE a == newCipherState(hkdfExpand(h.sym.ck, <<"end", "none">>, 1))
             b == newCipherState(hkdfExpand(h.sym.ck, <<"end", "none">>, 2))
  <2>1. \/ Split(h).send = a /\ Split(h).receive = b
        \/ Split(h).send = b /\ Split(h).receive = a
    BY DEF Split
  <2>2. (\E k : a = [key |-> k, nonce |-> 0]) /\ (\E k : b = [key |-> k, nonce |-> 0])
    BY DEF newCipherState
  <2> HIDE DEF a, b
  <2> QED  BY <2>1, <2>2
<1>2. PICK k, j : /\ Split(h).send = [key |-> k, nonce |-> 0]
                 /\ Split(h).receive = [key |-> j, nonce |-> 0]
  BY <1>1
<1>3. /\ send' = [send EXCEPT ![x] = [key |-> k, nonce |-> 0]]
      /\ receive' = [receive EXCEPT ![x] = [key |-> j, nonce |-> 0]]
      /\ place' = [place EXCEPT ![x] = "open"]
  BY <1>2 DEF Opened
<1>4. DOMAIN send = Sides /\ DOMAIN receive = Sides /\ DOMAIN place = Sides
  BY DEF NonceInv, KeyInv
<1>5. /\ send'[x].nonce = 0 /\ receive'[x].nonce = 0 /\ place'[x] = "open"
      /\ \A z \in Sides : z # x => /\ send'[z] = send[z] /\ receive'[z] = receive[z]
                                   /\ place'[z] = place[z]
  BY <1>3, <1>4
<1>6. send[x].nonce = 0
  <2>1. used[x] = <<>> /\ CountsUpTo(used[x], send[x].nonce)
    BY DEF NonceInv
  <2> QED  BY <2>1 DEF CountsUpTo
<1>7. receive[x].nonce = 0
  <2>1. Other(x) \in Sides /\ Other(Other(x)) = x
    BY Others
  <2>2. PICK w, l : Direction(Other(x), x, w, l)
    BY <2>1 DEF DeliveryInv
  <2> QED  BY <2>2 DEF Direction, HasRead
<1> QED  BY <1>5, <1>6, <1>7 DEF NoReopening

(* A side closes. *)
LEMMA ClosingDelivers ==
  ASSUME NonceInv, KeyInv, DeliveryInv, NEW x \in Sides, Closes(x),
         UNCHANGED <<send, receive, said, sentHello, got, plain, gotHello, harmed>>
  PROVE  DeliveryInv'
<1>1. DOMAIN place = Sides /\ DOMAIN net = Sides
  BY DEF NonceInv, KeyInv
<1>2. /\ place'[x] = "closed" /\ net'[x] = <<>>
      /\ \A z \in Sides : z # x => place'[z] = place[z] /\ net'[z] = net[z]
  BY <1>1 DEF Closes
<1>3. \A z \in Sides : NoNewRecord(z)
  <2>1. NoNewRecord(x)
    BY <1>2 DEF NoNewRecord
  <2>2. \A z \in Sides : z # x => NoNewRecord(z)
    BY <1>2 DEF NoNewRecord
  <2> QED  BY <2>1, <2>2
<1>4. \A z \in Sides : NoReopening(z)
  BY <1>2 DEF NoReopening
<1> QED  BY <1>3, <1>4, QuietDelivers DEF DeliveryInv

(* A preamble and a frame are no records. *)
LEMMA HandshakeItems ==
  ASSUME KeyInv, NEW x \in Sides, NEW v, NEW m, NEW items, items = <<Preamble(v), Frame(m)>>,
         NEW n, DOMAIN n = Sides, n[Other(x)] = net[Other(x)], net' = Written(n, x, items)
  PROVE  net'[x] = n[x] /\ NoNewRecord(Other(x))
<1> DEFINE y == Other(x)
           S == {Preamble(v), Frame(m)}
<1>1. /\ items \in Seq(S) /\ Len(items) = 2
      /\ \A k \in 1..2 : items[k].is # "record"
  BY DEF Preamble, Frame
<1>2. n[y] = net[y] /\ y = Other(x)
  OBVIOUS
<1> HIDE DEF y, S
<1>3. net'[x] = n[x] /\ AddedTo(y, items)
  <2>1. /\ KeyInv /\ x \in Sides /\ y = Other(x) /\ items \in Seq(S) /\ DOMAIN n = Sides
        /\ n[y] = net[y] /\ net' = Written(n, x, items)
    BY <1>1, <1>2
  <2> QED  BY ONLY <2>1, WrittenItems
<1>4. NoNewRecord(y)
  BY <1>1, <1>3 DEF NoNewRecord, AddedTo
<1> QED  BY <1>3, <1>4 DEF y

(* What is behind the first two items of a stream is of that stream. *)
LEMMA Behind ==
  ASSUME NEW S, NEW s \in Seq(S), Len(s) >= 2
  PROVE  /\ SubSeq(s, 3, Len(s)) \in Seq(S)
         /\ \A i \in 1..Len(SubSeq(s, 3, Len(s))) :
              \E k \in 1..Len(s) : SubSeq(s, 3, Len(s))[i] = s[k]
<1> DEFINE t == SubSeq(s, 3, Len(s))
<1>1. Len(s) \in Nat
  OBVIOUS
<1>2. Len(t) = Len(s) - 2 /\ \A i \in 1..(Len(s) - 2) : t[i] = s[i + 2]
  <2>1. Len(t) = Len(s) - 2 /\ \A i \in 1..(Len(s) - 2) : t[i] = s[3 + i - 1]
    <3>1. \A i \in 3..Len(s) : s[i] \in S
      BY <1>1
    <3>2. /\ Len(t) = IF 3 <= Len(s) THEN Len(s) - 3 + 1 ELSE 0
          /\ \A i \in 1..(Len(s) - 3 + 1) : t[i] = s[3 + i - 1]
      BY <1>1, <3>1, SubSeqProperties
    <3> HIDE DEF t
    <3>3. Len(s) - 3 + 1 = Len(s) - 2 /\ (3 <= Len(s) \/ Len(s) - 2 = 0)
      <4> DEFINE n == Len(s)
      <4>1. n \in Nat /\ n >= 2
        BY <1>1
      <4> HIDE DEF n
      <4>2. n - 3 + 1 = n - 2 /\ (3 <= n \/ n - 2 = 0)
        BY <4>1
      <4> QED  BY <4>2 DEF n
    <3> QED  BY <3>2, <3>3
  <2>2. \A i \in 1..(Len(s) - 2) : 3 + i - 1 = i + 2
    BY <1>1
  <2> HIDE DEF t
  <2> QED  BY <2>1, <2>2
<1>3. t \in Seq(S)
  BY <1>1
<1> HIDE DEF t
<1>4. \A i \in 1..(Len(s) - 2) : i + 2 \in 1..Len(s)
  BY <1>1
<1>5. \A i \in 1..Len(t) : \E k \in 1..Len(s) : t[i] = s[k]
  BY <1>2, <1>4
<1> QED  BY <1>3, <1>5 DEF t

(* The handshake says nothing. *)
LEMMA InitiateDelivers ==
  ASSUME NonceInv, KeyInv, DeliveryInv, Initiate
  PROVE  DeliveryInv'
<1> DEFINE items == <<Preamble(peer["client"].version),
                      Frame(HandshakeMessage(hs["client"], Ephemeral("client")))>>
           v == peer["client"].version
           m == HandshakeMessage(hs["client"], Ephemeral("client"))
<1>1. /\ net' = Written(net, "client", items) /\ place["client"] = "start"
      /\ place' = [place EXCEPT !["client"] = "answer"]
      /\ UNCHANGED <<send, receive, said, sentHello, got, plain, gotHello, harmed>>
  BY DEF Initiate, Unread
<1>2. items = <<Preamble(v), Frame(m)>>
  OBVIOUS
<1>3. "client" \in Sides /\ Other("client") = "server" /\ Sides = {"client", "server"}
  BY DEF Sides, Other
<1>4. DOMAIN net = Sides /\ DOMAIN place = Sides
  BY DEF NonceInv, KeyInv
<1> HIDE DEF items, v, m
<1>5. net'["client"] = net["client"] /\ NoNewRecord("server")
  BY <1>1, <1>2, <1>3, <1>4, HandshakeItems
<1>6. NoNewRecord("client")
  BY <1>5 DEF NoNewRecord
<1>7. \A z \in Sides : NoReopening(z)
  BY <1>1, <1>3, <1>4 DEF NoReopening
<1>8. \A z \in Sides : NoNewRecord(z)
  BY <1>3, <1>5, <1>6
<1> QED  BY <1>1, <1>7, <1>8, QuietDelivers DEF DeliveryInv

(* Nor does a side that is done with it. *)
LEMMA RespondDelivers ==
  ASSUME NonceInv, KeyInv, DeliveryInv, Respond
  PROVE  DeliveryInv'
<1> DEFINE read == Answered("server")
           m == HandshakeMessage(read, Ephemeral("server"))
           v == peer["server"].version
           items == <<Preamble(v), Frame(m)>>
           t == SubSeq(net["server"], 3, Len(net["server"]))
           n == [net EXCEPT !["server"] = t]
           h == WriteMessage(read, Ephemeral("server"))
<1>1. /\ place["server"] = "start" /\ ThereIsAnswer("server") /\ ~read.failed
      /\ Opened("server", h) /\ net' = Written(n, "server", items)
      /\ UNCHANGED <<said, sentHello, got, plain, gotHello, harmed>>
  BY DEF Respond, TurnToWrite, Unread
<1>2. "server" \in Sides /\ Other("server") = "client" /\ Sides = {"client", "server"}
  BY DEF Sides, Other
<1>3. DOMAIN net = Sides /\ net["server"] \in Seq(ToSet(net["server"]))
  BY <1>2 DEF KeyInv, Flows
<1>4. items = <<Preamble(v), Frame(m)>>
  OBVIOUS
<1>5. Len(net["server"]) >= 2
  <2> DEFINE g == Fresh(peer, "server")
  <2>1. hs["server"] = g
    BY <1>1, <1>2 DEF KeyInv
  <2>2. [g EXCEPT !.failed = TRUE].failed
    BY FreshIs, FailingFails
  <2> HIDE DEF g
  <2> QED  BY <1>1, <1>2, <2>1, <2>2, AnsweredReads
<1> HIDE DEF items, h, read, v, m
<1>6. DOMAIN n = Sides /\ n["client"] = net["client"] /\ n["server"] = t
  BY <1>2, <1>3
<1>7. \A i \in 1..Len(t) : \E k \in 1..Len(net["server"]) : t[i] = net["server"][k]
  BY <1>3, <1>5, Behind
<1> HIDE DEF n, t
<1>8. net'["server"] = n["server"] /\ NoNewRecord("client")
  BY <1>1, <1>2, <1>4, <1>6, HandshakeItems
<1>9. NoNewRecord("server")
  BY <1>6, <1>7, <1>8 DEF NoNewRecord
<1>10. \A z \in Sides : NoNewRecord(z)
  BY <1>2, <1>8, <1>9
<1>11. \A z \in Sides : NoReopening(z)
  BY <1>1, <1>2, OpenedCounters
<1> QED  BY <1>1, <1>10, <1>11, QuietDelivers DEF DeliveryInv

(* Nor does the initiator. *)
LEMMA CompleteDelivers ==
  ASSUME NonceInv, KeyInv, DeliveryInv, Complete
  PROVE  DeliveryInv'
<1> DEFINE read == Answered("client")
           t == SubSeq(net["client"], 3, Len(net["client"]))
<1>1. /\ place["client"] = "answer" /\ ThereIsAnswer("client") /\ ~read.failed
      /\ Opened("client", read) /\ net' = [net EXCEPT !["client"] = t]
      /\ UNCHANGED <<said, sentHello, got, plain, gotHello, harmed>>
  BY DEF Complete, CanSplit, Unread
<1>2. "client" \in Sides /\ Sides = {"client", "server"}
  BY DEF Sides
<1>3. DOMAIN net = Sides /\ net["client"] \in Seq(ToSet(net["client"]))
  BY <1>2 DEF KeyInv, Flows
<1>4. Len(net["client"]) >= 2
  <2> DEFINE g == WriteMessage(Fresh(peer, "client"), "client")
  <2>1. hs["client"] = g
    BY <1>1 DEF KeyInv
  <2>2. [g EXCEPT !.failed = TRUE].failed
    BY InitiatorWrites, FailingFails
  <2> HIDE DEF g
  <2> QED  BY <1>1, <1>2, <2>1, <2>2, AnsweredReads
<1> HIDE DEF read
<1>5. \A i \in 1..Len(t) : \E k \in 1..Len(net["client"]) : t[i] = net["client"][k]
  BY <1>3, <1>4, Behind
<1> HIDE DEF t
<1>6. net'["client"] = t /\ net'["server"] = net["server"]
  BY <1>1, <1>2, <1>3
<1>7. NoNewRecord("client") /\ NoNewRecord("server")
  BY <1>5, <1>6 DEF NoNewRecord
<1>8. \A z \in Sides : NoNewRecord(z)
  BY <1>2, <1>7
<1>9. \A z \in Sides : NoReopening(z)
  BY <1>1, <1>2, OpenedCounters
<1> QED  BY <1>1, <1>8, <1>9, QuietDelivers DEF DeliveryInv

(* A spoilt item is no whole record. *)
LEMMA SpoiltRecord ==
  ASSUME NEW p, NEW x, NEW item, Carried(p, x, item), NEW t \in Spoilt(item)
  PROVE  ~(t.is = "record" /\ t.box.intact)
<1>1. ASSUME item.is = "preamble",
             item = [is |-> "preamble", magic |-> item.magic, version |-> item.version]
      PROVE  t.is # "record"
  <2>1. t = [item EXCEPT !.magic = FALSE] \/ t = [item EXCEPT !.version = (@ + 1) % Limit(1)]
    BY <1>1 DEF Spoilt
  <2>2. \E u, w : t = [is |-> "preamble", magic |-> u, version |-> w]
    BY <1>1, <2>1
  <2> QED  BY <2>2
<1>2. ASSUME item.is = "frame", item = [is |-> "frame", e |-> item.e, box |-> item.box]
      PROVE  t.is # "record"
  <2>1. t = [item EXCEPT !.e = "spoilt"] \/ t = [item EXCEPT !.box.intact = FALSE]
    BY <1>2 DEF Spoilt
  <2>2. \E e, b : t = [is |-> "frame", e |-> e, box |-> b]
    <3>1. CASE t = [item EXCEPT !.e = "spoilt"]
      BY <1>2, <3>1
    <3>2. CASE t = [item EXCEPT !.box.intact = FALSE]
      <4> DEFINE b == [item.box EXCEPT !.intact = FALSE]
      <4>1. t = [item EXCEPT !.box = b]
        BY <3>2
      <4> HIDE DEF b
      <4> QED  BY <1>2, <4>1
    <3> QED  BY <2>1, <3>1, <3>2
  <2> QED  BY <2>2
<1>3. ASSUME item.is = "record", item = [is |-> "record", box |-> item.box], IsBox(item.box)
      PROVE  ~t.box.intact
  <2> DEFINE b == [item.box EXCEPT !.intact = FALSE]
  <2>1. t = [item EXCEPT !.box.intact = FALSE]
    BY <1>3 DEF Spoilt
  <2>2. t = [item EXCEPT !.box = b]
    BY <2>1
  <2>3. ~b.intact
    BY <1>3, SpoiltBox
  <2> HIDE DEF b
  <2>4. t = [is |-> "record", box |-> b]
    BY <1>3, <2>2
  <2> QED  BY <2>3, <2>4
<1>4. ASSUME item = CutShort PROVE t.is # "record"
  BY <1>4 DEF CutShort, Spoilt
<1> QED  BY <1>1, <1>2, <1>3, <1>4 DEF Carried

(* The carrier makes no record. *)
LEMMA DisturbDelivers ==
  ASSUME NonceInv, KeyInv, DeliveryInv, NEW x \in Sides, Disturb(x)
  PROVE  DeliveryInv'
<1>1. PICK t \in Disturbed(net[x]) : net' = [net EXCEPT ![x] = t]
  BY DEF Disturb
<1>2. /\ UNCHANGED <<place, send, receive, said, sentHello, got, plain, gotHello>>
      /\ harmed' = [harmed EXCEPT ![x] = TRUE]
  BY DEF Disturb
<1> DEFINE s == net[x]
           U == UNION {Spoilt(s[i]) : i \in 1..Len(s)}
           S == ToSet(s) \cup U
<1>3. DOMAIN net = Sides /\ s \in Seq(ToSet(s)) /\ \A i \in 1..Len(s) : Carried(peer, x, s[i])
  BY DEF KeyInv, Flows
<1>4. \A i \in 1..Len(s) : Spoilt(s[i]) \subseteq U
  OBVIOUS
<1>5. \A item \in U : ~(item.is = "record" /\ item.box.intact)
  <2>1. \A item \in U : \E i \in 1..Len(s) : item \in Spoilt(s[i])
    BY Zenon
  <2> HIDE DEF U
  <2>2. ASSUME NEW item \in U PROVE ~(item.is = "record" /\ item.box.intact)
    <3>1. PICK i \in 1..Len(s) : item \in Spoilt(s[i])
      BY <2>1
    <3> DEFINE a == s[i]
    <3>2. Carried(peer, x, a) /\ item \in Spoilt(a)
      BY <1>3, <3>1
    <3> HIDE DEF a
    <3> QED  BY <3>2, SpoiltRecord
  <2> QED  BY <2>2
<1>6. \A item \in ToSet(s) : \E k \in 1..Len(s) : item = s[k]
  BY <1>3 DEF ToSet
<1> HIDE DEF U
<1>7. s \in Seq(S) /\ \A i \in 1..Len(s) : Spoilt(s[i]) \subseteq S
  BY <1>3, <1>4
<1>8. \A item \in S : item \in ToSet(s) \/ item \in U
  OBVIOUS
<1> HIDE DEF S
<1>9. t \in Seq(S)
  BY <1>7, DisturbedOver
<1>10. \A i \in 1..Len(t) : \/ \E k \in 1..Len(s) : t[i] = s[k]
                            \/ ~(t[i].is = "record" /\ t[i].box.intact)
  <2>1. \A i \in 1..Len(t) : t[i] \in S
    BY <1>9
  <2> QED  BY <1>5, <1>6, <1>8, <2>1
<1>11. net'[x] = t /\ \A z \in Sides : z # x => net'[z] = net[z]
  BY <1>1, <1>3
<1>12. NoNewRecord(x)
  BY <1>10, <1>11 DEF NoNewRecord
<1>13. \A z \in Sides : z # x => NoNewRecord(z)
  BY <1>11 DEF NoNewRecord
<1>14. \A z \in Sides : NoNewRecord(z)
  BY <1>12, <1>13
<1>15. DOMAIN harmed' = Sides /\ \A z \in Sides : harmed[z] => harmed'[z]
  BY <1>2 DEF DeliveryInv
<1>16. \A z \in Sides : NoReopening(z)
  BY <1>2, <1>15 DEF NoReopening
<1> QED  BY <1>2, <1>14, <1>15, <1>16, QuietDelivers

(* One more part is read by who does not have the whole message yet. *)
LEMMA NextPart ==
  ASSUME NEW w \in Seq(Bytes), NEW l, InOrder(w, l), NEW r \in Nat, r < Len(l),
         NEW q \in Nat, NEW text, Halfway(r, q, text, w, l),
         ~(r > 0 /\ l[r].of = q + 1 /\ l[r].part = Parts(w[q + 1]))
  PROVE  Halfway(r + 1, q, text \o Text(w, l[r + 1]), w, l)
<1>1. Len(l) \in Nat /\ r + 1 \in 1..Len(l) /\ r + 1 > 0
  BY DEF InOrder
<1> DEFINE e == l[r + 1]
<1>2. e.of \in 1..Len(w) /\ e.part \in 1..Parts(w[e.of]) /\ e \in Spots
  BY <1>1 DEF InOrder
<1>3. Text(w, e) = Chunks(w[e.of])[e.part]
  BY DEF Text
<1>4. w[e.of] \in Bytes
  BY <1>2
<1>5. SubSeq(w[e.of], 1, Upto(w[e.of], e.part)) =
        (IF e.part = 1 THEN <<>> ELSE SubSeq(w[e.of], 1, Upto(w[e.of], e.part - 1)))
          \o Text(w, e)
  <2> DEFINE b == w[e.of]
             k == e.part
  <2>1. b \in Bytes /\ k \in 1..Parts(b)
    BY <1>2, <1>4
  <2> HIDE DEF b, k
  <2>2. SubSeq(b, 1, Upto(b, k)) =
          (IF k = 1 THEN <<>> ELSE SubSeq(b, 1, Upto(b, k - 1))) \o Chunks(b)[k]
    BY ONLY <2>1, UptoIs
  <2> QED  BY <1>3, <2>2 DEF b, k
<1>6. ASSUME e.of = q + 1,
             text = IF e.part = 1 THEN <<>> ELSE SubSeq(w[e.of], 1, Upto(w[e.of], e.part - 1))
      PROVE  Halfway(r + 1, q, text \o Text(w, e), w, l)
  BY <1>1, <1>5, <1>6 DEF Halfway
<1> DEFINE d == l[r]
<1>7. r > 0 => /\ e = After(w, d) /\ d.of \in 1..Len(w) /\ d.part \in 1..Parts(w[d.of])
               /\ Parts(w[d.of]) \in Nat
  <2> SUFFICES ASSUME r > 0
               PROVE  /\ e = After(w, d) /\ d.of \in 1..Len(w) /\ d.part \in 1..Parts(w[d.of])
                      /\ Parts(w[d.of]) \in Nat
    OBVIOUS
  <2>1. r \in 1..(Len(l) - 1) /\ r \in 1..Len(l)
    BY <1>1
  <2>2. e = After(w, d) /\ d.of \in 1..Len(w) /\ d.part \in 1..Parts(w[d.of])
    BY <2>1 DEF InOrder
  <2>3. w[d.of] \in Bytes
    BY <2>2
  <2> QED  BY <2>2, <2>3, PartsAre
<1>8. CASE r = 0 /\ q = 0 /\ text = <<>>
  <2>1. l # <<>> /\ e = l[1]
    BY <1>1, <1>8
  <2>2. e.of = 1 /\ e.part = 1
    BY <2>1 DEF InOrder
  <2> QED  BY <1>6, <1>8, <2>2
<1>9. CASE r > 0 /\ d.of = q + 1 /\ text = SubSeq(w[q + 1], 1, Upto(w[q + 1], d.part))
  <2>1. d.part < Parts(w[d.of])
    BY <1>7, <1>9
  <2>2. e.of = d.of /\ e.part = d.part + 1
    BY <1>7, <1>9, <2>1 DEF After
  <2>3. e.part # 1 /\ e.part - 1 = d.part
    BY <1>7, <1>9, <2>2
  <2> QED  BY <1>6, <1>9, <2>2, <2>3
<1>10. CASE r > 0 /\ d.of = q /\ d.part = Parts(w[q]) /\ text = <<>>
  <2>1. ~(d.part < Parts(w[d.of]))
    BY <1>7, <1>10
  <2>2. e.of = q + 1 /\ e.part = 1
    BY <1>7, <1>10, <2>1 DEF After
  <2> QED  BY <1>6, <1>10, <2>2
<1>11. \/ r = 0 /\ q = 0 /\ text = <<>>
       \/ r > 0 /\ d.of = q + 1 /\ text = SubSeq(w[q + 1], 1, Upto(w[q + 1], d.part))
       \/ r > 0 /\ d.of = q /\ d.part = Parts(w[q]) /\ text = <<>>
  BY DEF Halfway
<1> QED  BY <1>8, <1>9, <1>10, <1>11

(* What the decoder makes of the next message that is on its way. *)
LEMMA Expected ==
  ASSUME CodecFaithful, NEW x \in Sides, NEW y, x = Other(y), y = Other(x), NEW w, NEW l,
         Direction(x, y, w, l), NEW q, q = Len(got[y]), q + 1 \in 1..Len(w),
         NEW b, b = w[q + 1], NEW g, g = gotHello[y], NEW s, s = said[x][q + 1]
  PROVE  /\ Parse(b, y, g).st # "more"
         /\ \A n \in 0..(Len(b) - 1) : Parse(SubSeq(b, 1, n), y, g).st # "ok"
         /\ Parse(b, y, g).st = "ok" =>
              /\ Parse(b, y, g).rest = <<>>
              /\ s.kind # "stray" => Parse(b, y, g).m = MessageOf(s)
              /\ y = "server" /\ q = 0 => Parse(b, y, g).m.kind = "HELLO"
<1>1. Uttered(x, q + 1, s, b, harmed[y]) /\ g \in BOOLEAN /\ (y = "server" => g = (got[y] # <<>>))
  BY DEF Direction, Wrote, HasRead
<1>2. q \in Nat /\ (q = 0 <=> got[y] = <<>>)
  <2>1. PICK S : got[y] \in Seq(S)
    BY DEF Direction, HasRead
  <2> QED  BY <2>1
<1>3. /\ x = "client" <=> y = "server"
      /\ x = "server" <=> y = "client"
      /\ x = "client" \/ x = "server"
  BY DEF Sides, Other
<1>4. CASE s \in Says[x] /\ Encodable(MessageOf(s)) /\ b = Encode(MessageOf(s))
           /\ (MessageOf(s).kind = "HELLO" <=> x = "client" /\ q + 1 = 1)
  <2> DEFINE m == MessageOf(s)
  <2>1. HelloInPlace(y, g, m.kind)
    BY <1>1, <1>2, <1>3, <1>4 DEF HelloInPlace
  <2>2. /\ \A n \in 0..(Len(b) - 1) : Parse(SubSeq(b, 1, n), y, g).st = "more"
        /\ Parse(b, y, g) = [st |-> "ok", m |-> m, rest |-> <<>>]
    BY <1>1, <1>4, <2>1 DEF CodecFaithful
  <2>3. y = "server" /\ q = 0 => m.kind = "HELLO"
    BY <1>3, <1>4
  <2> HIDE DEF m
  <2>4. /\ Parse(b, y, g).st = "ok" /\ Parse(b, y, g).m = m /\ Parse(b, y, g).rest = <<>>
    BY <2>2
  <2> QED  BY <2>2, <2>3, <2>4 DEF m
<1>5. CASE harmed[y] /\ x = "server" /\ s.kind = "stray" /\ b \in Strays
  <2>1. /\ \A n \in 0..(Len(b) - 1) : Parse(SubSeq(b, 1, n), y, g).st # "ok"
        /\ Parse(b, y, g).st = "bad" \/ (Parse(b, y, g).st = "ok" /\ Parse(b, y, g).rest = <<>>)
    BY <1>1, <1>3, <1>5 DEF CodecFaithful
  <2> QED  BY <1>3, <1>5, <2>1
<1> QED  BY <1>1, <1>4, <1>5 DEF Uttered

(* And when nothing went wrong on the way it waits for all of the message, and then
   takes it. *)
LEMMA ExpectedWhole ==
  ASSUME CodecFaithful, NEW x \in Sides, NEW y, x = Other(y), y = Other(x), NEW w, NEW l,
         Direction(x, y, w, l), ~harmed[y], NEW q, q = Len(got[y]), q + 1 \in 1..Len(w),
         NEW b, b = w[q + 1], NEW g, g = gotHello[y]
  PROVE  /\ Parse(b, y, g).st = "ok"
         /\ \A n \in 0..(Len(b) - 1) : Parse(SubSeq(b, 1, n), y, g).st = "more"
<1> DEFINE s == said[x][q + 1]
<1>1. Uttered(x, q + 1, s, b, harmed[y]) /\ g \in BOOLEAN /\ (y = "server" => g = (got[y] # <<>>))
  BY DEF Direction, Wrote, HasRead
<1>2. q \in Nat /\ (q = 0 <=> got[y] = <<>>)
  <2>1. PICK S : got[y] \in Seq(S)
    BY DEF Direction, HasRead
  <2> QED  BY <2>1
<1>3. /\ x = "client" <=> y = "server"
      /\ x = "server" <=> y = "client"
      /\ x = "client" \/ x = "server"
  BY DEF Sides, Other
<1> HIDE DEF s
<1>4. s \in Says[x] /\ Encodable(MessageOf(s)) /\ b = Encode(MessageOf(s))
      /\ (MessageOf(s).kind = "HELLO" <=> x = "client" /\ q + 1 = 1)
  BY <1>1 DEF Uttered
<1> DEFINE m == MessageOf(s)
<1>5. HelloInPlace(y, g, m.kind)
  BY <1>1, <1>2, <1>3, <1>4 DEF HelloInPlace
<1>6. /\ \A n \in 0..(Len(b) - 1) : Parse(SubSeq(b, 1, n), y, g).st = "more"
      /\ Parse(b, y, g) = [st |-> "ok", m |-> m, rest |-> <<>>]
  BY <1>1, <1>4, <1>5 DEF CodecFaithful
<1> QED  BY <1>6

(* A side has either a part of the next message, or nothing of it. *)
LEMMA PartOrNothing ==
  ASSUME NEW x, NEW y, NEW w, NEW l, Direction(x, y, w, l)
  PROVE  LET r == receive[y].nonce
             q == Len(got[y])
         IN \/ plain[y] = <<>> /\ (r > 0 => l[r].of # q + 1)
            \/ /\ r \in 1..Len(l) /\ l[r].of = q + 1 /\ q + 1 \in 1..Len(w)
               /\ w[q + 1] \in Bytes /\ l[r].part \in 1..Parts(w[q + 1])
               /\ plain[y] = SubSeq(w[q + 1], 1, Upto(w[q + 1], l[r].part))
<1> DEFINE r == receive[y].nonce
           q == Len(got[y])
<1>1. /\ InOrder(w, l) /\ Len(l) \in Nat /\ r \in 0..Len(l) /\ w \in Seq(Bytes)
      /\ Halfway(r, q, plain[y], w, l)
  <2>1. InOrder(w, l) /\ w \in Seq(Bytes)
    BY DEF Direction, Wrote, Logged
  <2>2. r \in 0..Len(l) /\ Halfway(r, q, plain[y], w, l)
    BY DEF Direction, HasRead
  <2>3. Len(l) \in Nat
    BY <2>1 DEF InOrder
  <2> QED  BY <2>1, <2>2, <2>3
<1>2. q \in Nat
  <2>1. PICK S : got[y] \in Seq(S)
    BY DEF Direction, HasRead
  <2> QED  BY <2>1
<1> HIDE DEF r, q
<1>3. r > 0 => /\ r \in 1..Len(l) /\ l[r].of \in 1..Len(w)
               /\ l[r].part \in 1..Parts(w[l[r].of])
  BY <1>1 DEF InOrder
<1>4. CASE r = 0 /\ q = 0 /\ plain[y] = <<>>
  BY <1>4 DEF r, q
<1>5. CASE r > 0 /\ l[r].of = q + 1 /\ plain[y] = SubSeq(w[q + 1], 1, Upto(w[q + 1], l[r].part))
  <2>1. q + 1 \in 1..Len(w)
    BY <1>3, <1>5
  <2>2. w[q + 1] \in Bytes
    BY <1>1, <2>1
  <2> QED  BY <1>3, <1>5, <2>1, <2>2 DEF r, q
<1>6. CASE r > 0 /\ l[r].of = q /\ plain[y] = <<>>
  <2>1. l[r].of # q + 1
    BY <1>2, <1>6
  <2> QED  BY <1>6, <2>1 DEF r, q
<1>7. \/ r = 0 /\ q = 0 /\ plain[y] = <<>>
      \/ r > 0 /\ l[r].of = q + 1 /\ plain[y] = SubSeq(w[q + 1], 1, Upto(w[q + 1], l[r].part))
      \/ r > 0 /\ l[r].of = q /\ plain[y] = <<>>
  BY <1>1 DEF Halfway
<1> QED  BY <1>4, <1>5, <1>6, <1>7

(* A record that opens is the next one that was sealed. *)
LEMMA ReadDelivers ==
  ASSUME CodecFaithful, NonceInv, KeyInv, DeliveryInv, NEW y \in Sides, ReadRecord(y)
  PROVE  DeliveryInv'
<1> DEFINE x == Other(y)
           box == net[y][1].box
           r == receive[y].nonce
           q == Len(got[y])
<1>0. x \in Sides /\ x # y /\ Other(x) = y /\ (\A z \in Sides : z = x \/ z = y) /\ x = Other(y)
  BY Others
<1>1. /\ place[y] = "open" /\ Decoded(y).st = "more"
      /\ net[y] # <<>> /\ net[y][1].is = "record"
      /\ Opens(receive[y], <<>>, box)
      /\ plain' = [plain EXCEPT ![y] = plain[y] \o box.text]
      /\ receive' = [receive EXCEPT ![y] = Advanced(receive[y], 1)]
      /\ net' = [net EXCEPT ![y] = Tail(net[y])]
      /\ UNCHANGED <<place, send, sentHello, gotHello, said, got, harmed>>
  BY DEF ReadRecord
<1>2. box.intact /\ box.nonce = r
  BY <1>1 DEF Opens
<1> HIDE DEF x
<1>3. PICK w, l : Direction(x, y, w, l)
  BY <1>0 DEF DeliveryInv
<1>4. /\ InOrder(w, l) /\ Len(l) \in Nat /\ r \in 0..Len(l) /\ w \in Seq(Bytes)
      /\ Halfway(r, q, plain[y], w, l) /\ Len(l) <= send[x].nonce
  <2>1. InOrder(w, l) /\ w \in Seq(Bytes) /\ Len(l) <= send[x].nonce
    BY <1>3 DEF Direction, Wrote, Logged
  <2>2. r \in 0..Len(l) /\ Halfway(r, q, plain[y], w, l)
    BY <1>3 DEF Direction, HasRead
  <2>3. Len(l) \in Nat
    BY <2>1 DEF InOrder
  <2> QED  BY <2>1, <2>2, <2>3
<1>5. q \in Nat
  <2>1. PICK S : got[y] \in Seq(S)
    BY <1>3 DEF Direction, HasRead
  <2> QED  BY <2>1
<1>6. DOMAIN net = Sides /\ net[y] \in Seq(ToSet(net[y]))
  BY DEF KeyInv, Flows
<1>7. 1 \in 1..Len(net[y])
  BY <1>1, <1>6
<1>8. r < Len(l) /\ box.text = Text(w, l[r + 1])
  <2>1. RecordOK(w, l, send[x].nonce, net[y][1])
    BY <1>3, <1>7 DEF Direction
  <2>2. r # Len(l) /\ (r < Len(l) => box.text = Text(w, l[r + 1]))
    BY <1>1, <1>2, <2>1 DEF RecordOK
  <2> QED  BY <1>4, <2>2
<1>9. ~(r > 0 /\ l[r].of = q + 1 /\ l[r].part = Parts(w[q + 1]))
  <2> SUFFICES ASSUME r > 0, l[r].of = q + 1, l[r].part = Parts(w[q + 1]) PROVE FALSE
    OBVIOUS
  <2>1. /\ q + 1 \in 1..Len(w) /\ w[q + 1] \in Bytes /\ l[r].part \in 1..Parts(w[q + 1])
        /\ plain[y] = SubSeq(w[q + 1], 1, Upto(w[q + 1], l[r].part))
    BY <1>3, PartOrNothing
  <2> DEFINE b == w[q + 1]
             k == Parts(b)
             g == gotHello[y]
             s == said[x][q + 1]
  <2>2. b \in Bytes /\ k \in 1..Parts(b) /\ b = w[q + 1] /\ g = gotHello[y] /\ s = said[x][q + 1]
    BY <2>1
  <2> HIDE DEF b
  <2>3. SubSeq(b, 1, Upto(b, Parts(b))) = b
    BY <2>2, UptoIs
  <2>4. plain[y] = b
    BY <2>1, <2>3 DEF b
  <2> HIDE DEF k, g, s, q
  <2>5. q = Len(got[y])
    BY DEF q
  <2>6. Parse(b, y, g).st # "more"
    BY ONLY CodecFaithful, <1>0, <1>3, <2>1, <2>2, <2>5, Expected
  <2> QED  BY <1>1, <2>4, <2>6 DEF Decoded, g
<1> HIDE DEF r, q
<1> DEFINE text == plain[y] \o Text(w, l[r + 1])
<1>10. Halfway(r + 1, q, text, w, l)
  BY <1>4, <1>5, <1>8, <1>9, NextPart
<1>11. receive'[y].nonce = r + 1 /\ receive'[x] = receive[x]
  <2> DEFINE c == receive[y]
  <2>1. IsCipherState(send[x]) /\ NonceReserved \in Nat
    BY <1>0, NoiseAssumption DEF NonceInv
  <2>2. r + 1 <= NonceReserved /\ r \in 0..NonceReserved /\ r \in Nat
    BY <1>4, <1>8, <2>1 DEF IsCipherState
  <2>3. IsCipherState(c) /\ c.nonce + 1 <= NonceReserved
    BY <2>2 DEF IsCipherState, KeyInv, r
  <2> HIDE DEF c
  <2>4. Advanced(c, 1) = [key |-> c.key, nonce |-> c.nonce + 1]
    BY <2>3, NoWrap
  <2>5. receive'[y] = Advanced(c, 1) /\ receive'[x] = receive[x]
    BY <1>0, <1>1 DEF KeyInv, c
  <2> QED  BY <2>4, <2>5 DEF c, r
<1> HIDE DEF box
<1>12. plain'[y] = text /\ plain'[x] = plain[x] /\ DOMAIN plain' = Sides
  BY <1>0, <1>1, <1>8 DEF DeliveryInv
<1> HIDE DEF text
<1>13. net'[x] = net[x] /\ net'[y] = Tail(net[y])
  BY <1>0, <1>1, <1>6
<1>14. \A i \in 1..Len(Tail(net[y])) : \E k \in 1..Len(net[y]) : Tail(net[y])[i] = net[y][k]
  <2> DEFINE s == net[y]
  <2>1. Len(s) \in Nat /\ s # <<>> /\ s \in Seq(ToSet(s))
    BY <1>1, <1>6
  <2> HIDE DEF s
  <2>2. Len(Tail(s)) = Len(s) - 1 /\ \A i \in 1..(Len(s) - 1) : Tail(s)[i] = s[i + 1]
    BY <2>1
  <2>3. \A i \in 1..(Len(s) - 1) : i + 1 \in 1..Len(s)
    BY <2>1
  <2> QED  BY <2>2, <2>3 DEF s
<1>15. Direction(x, y, w, l)'
  <2>1. Wrote(x, w)'
    BY <1>1, <1>3 DEF Direction, Wrote
  <2>2. Logged(x, w, l)'
    BY <1>1, <1>3 DEF Direction, Logged
  <2>3. HasRead(y, w, l)'
    <3>1. HasRead(y, w, l)
      BY <1>3 DEF Direction
    <3>2. receive'[y].nonce \in 0..Len(l)
      BY <1>4, <1>8, <1>11
    <3>3. Halfway(receive'[y].nonce, Len(got'[y]), plain'[y], w, l)
      BY <1>1, <1>10, <1>11, <1>12 DEF q
    <3>4. \A i \in 1..Len(got'[y]) :
            LET e == said'[Other(y)][i] IN e.kind # "stray" => got'[y][i] = MessageOf(e)
      BY <1>1, <3>1 DEF HasRead
    <3> QED  BY <1>1, <3>1, <3>2, <3>3, <3>4 DEF HasRead
  <2>4. \A i \in 1..Len(net'[y]) : RecordOK(w, l, send'[x].nonce, net'[y][i])
    <3>1. \A i \in 1..Len(net[y]) : RecordOK(w, l, send[x].nonce, net[y][i])
      BY <1>3 DEF Direction
    <3> QED  BY <1>1, <1>13, <1>14, <3>1
  <2> QED  BY <2>1, <2>2, <2>3, <2>4 DEF Direction
<1>16. \E v, m : Direction(y, x, v, m)'
  <2>1. PICK v, m : Direction(y, x, v, m)
    BY <1>0 DEF DeliveryInv
  <2>2. \A i \in 1..Len(net'[x]) : RecordOK(v, m, send[y].nonce, net'[x][i])
    BY <1>13, <2>1 DEF Direction
  <2>3. Direction(y, x, v, m)'
    BY <1>0, <1>1, <1>11, <1>12, <2>1, <2>2, DirectionKept
  <2> QED  BY <2>3
<1>17. \A z \in Sides : \E v, m : Direction(z, Other(z), v, m)'
  BY <1>0, <1>15, <1>16
<1> QED  BY <1>1, <1>12, <1>17 DEF DeliveryInv

(* A message that is taken is the next one that was said. *)
LEMMA TakeDelivers ==
  ASSUME CodecFaithful, NonceInv, KeyInv, DeliveryInv, NEW y \in Sides, NextMessage(y)
  PROVE  DeliveryInv'
<1> DEFINE x == Other(y)
           r == receive[y].nonce
           q == Len(got[y])
           d == Decoded(y)
<1>0. x \in Sides /\ x # y /\ Other(x) = y /\ (\A z \in Sides : z = x \/ z = y) /\ x = Other(y)
  BY Others
<1>1. /\ place[y] = "open" /\ d.st = "ok"
      /\ got' = [got EXCEPT ![y] = Append(got[y], d.m)]
      /\ plain' = [plain EXCEPT ![y] = d.rest]
      /\ gotHello' = [gotHello EXCEPT ![y] = gotHello[y] \/ d.m.kind = "HELLO"]
      /\ UNCHANGED <<place, send, receive, net, sentHello, said, harmed>>
  BY DEF NextMessage, Takes
<1> HIDE DEF x
<1>2. PICK w, l : Direction(x, y, w, l)
  BY <1>0 DEF DeliveryInv
<1>3. PICK S : got[y] \in Seq(S)
  BY <1>2 DEF Direction, HasRead
<1>4. q \in Nat
  BY <1>3
<1>5. plain[y] # <<>>
  BY <1>1 DEF Decoded, Parse
<1>6. /\ r \in 1..Len(l) /\ l[r].of = q + 1 /\ q + 1 \in 1..Len(w)
      /\ w[q + 1] \in Bytes /\ l[r].part \in 1..Parts(w[q + 1])
      /\ plain[y] = SubSeq(w[q + 1], 1, Upto(w[q + 1], l[r].part))
  BY <1>2, <1>5, PartOrNothing
<1> DEFINE b == w[q + 1]
           k == l[r].part
           g == gotHello[y]
           s == said[x][q + 1]
<1>7. /\ b = w[q + 1] /\ g = gotHello[y] /\ s = said[x][q + 1] /\ q = Len(got[y])
      /\ b \in Bytes /\ k \in 1..Parts(b) /\ plain[y] = SubSeq(b, 1, Upto(b, k))
      /\ q + 1 \in 1..Len(w) /\ d = Parse(plain[y], y, g)
  BY <1>6 DEF Decoded
<1> HIDE DEF b, k, g, s, q, d
<1>8. /\ \A n \in 0..(Len(b) - 1) : Parse(SubSeq(b, 1, n), y, g).st # "ok"
      /\ Parse(b, y, g).st = "ok" =>
              /\ Parse(b, y, g).rest = <<>>
              /\ s.kind # "stray" => Parse(b, y, g).m = MessageOf(s)
              /\ y = "server" /\ q = 0 => Parse(b, y, g).m.kind = "HELLO"
  BY ONLY CodecFaithful, <1>0, <1>2, <1>7, Expected
<1>9. Parts(b) \in Nat /\ Len(b) \in Nat
  BY <1>7, PartsAre DEF Bytes
<1>10. k = Parts(b)
  <2> SUFFICES ASSUME k < Parts(b) PROVE FALSE
    BY <1>7, <1>9
  <2>1. Upto(b, k) \in 1..Len(b) /\ Upto(b, k) < Len(b)
    BY <1>7, UptoIs
  <2>2. Upto(b, k) \in 0..(Len(b) - 1)
    BY <1>9, <2>1
  <2> QED  BY <1>1, <1>7, <1>8, <2>2
<1>11. plain[y] = b
  <2>1. SubSeq(b, 1, Upto(b, Parts(b))) = b
    BY <1>7, UptoIs
  <2> QED  BY <1>7, <1>10, <2>1
<1>12. /\ d.rest = <<>> /\ (s.kind # "stray" => d.m = MessageOf(s))
       /\ y = "server" /\ q = 0 => d.m.kind = "HELLO"
  BY <1>1, <1>7, <1>8, <1>11
<1>13. /\ got'[y] = Append(got[y], d.m) /\ got'[x] = got[x] /\ DOMAIN got' = Sides
       /\ plain'[y] = <<>> /\ plain'[x] = plain[x] /\ DOMAIN plain' = Sides
       /\ gotHello'[y] = (g \/ d.m.kind = "HELLO") /\ gotHello'[x] = gotHello[x]
       /\ DOMAIN gotHello' = Sides
  BY <1>0, <1>1, <1>12 DEF DeliveryInv, g
<1> DEFINE T == S \cup {d.m}
<1>14. /\ got'[y] \in Seq(T) /\ Len(got'[y]) = q + 1 /\ got'[y][q + 1] = d.m
       /\ got'[y] # <<>> /\ \A i \in 1..q : got'[y][i] = got[y][i]
  <2> DEFINE a == got[y]
             m == d.m
             c == got'[y]
  <2>1. a \in Seq(T) /\ m \in T /\ Len(a) = q /\ c = Append(a, m)
    BY <1>3, <1>7, <1>13
  <2> HIDE DEF T, a, m, c
  <2>2. /\ c \in Seq(T) /\ Len(c) = Len(a) + 1 /\ c[Len(a) + 1] = m /\ c # <<>>
        /\ \A i \in 1..Len(a) : c[i] = a[i]
    BY ONLY <2>1, Appended
  <2> QED  BY <2>1, <2>2 DEF a, m, c
<1> HIDE DEF T
<1>15. HasRead(y, w, l)'
  <2>1. HasRead(y, w, l)
    BY <1>2 DEF Direction
  <2>2. /\ receive'[y].nonce \in 0..Len(l)
        /\ place'[y] \in {"start", "answer"} => receive'[y].nonce = 0
    BY <1>1, <2>1 DEF HasRead
  <2>3. Halfway(receive'[y].nonce, Len(got'[y]), plain'[y], w, l)
    <3>1. Len(l) \in Nat
      BY <1>2 DEF Direction, Logged, InOrder
    <3>2. r > 0 /\ receive'[y].nonce = r
      BY <1>1, <1>6, <3>1
    <3>3. l[r].of = q + 1 /\ l[r].part = Parts(w[q + 1])
      BY <1>6, <1>7, <1>10 DEF k
    <3> HIDE DEF r
    <3> QED  BY <1>13, <1>14, <3>2, <3>3 DEF Halfway
  <2>4. \A i \in 1..Len(got'[y]) :
          LET e == said'[Other(y)][i] IN e.kind # "stray" => got'[y][i] = MessageOf(e)
    <3>1. \A i \in 1..q : LET e == said[x][i] IN e.kind # "stray" => got[y][i] = MessageOf(e)
      BY <1>0, <2>1 DEF HasRead, q
    <3>2. ASSUME NEW i \in 1..(q + 1), said[x][i].kind # "stray"
          PROVE  got'[y][i] = MessageOf(said[x][i])
      <4>1. CASE i = q + 1
        BY <1>7, <1>12, <1>14, <3>2, <4>1
      <4>2. CASE i \in 1..q
        BY <1>14, <3>1, <3>2, <4>2
      <4> QED  BY <1>4, <4>1, <4>2 DEF q
    <3> QED  BY <1>0, <1>1, <1>14, <3>2
  <2>5. gotHello'[y] \in BOOLEAN /\ (y = "server" => gotHello'[y] = (got'[y] # <<>>))
    <3>1. g \in BOOLEAN /\ (y = "server" => g = (got[y] # <<>>))
      BY <2>1 DEF HasRead, g
    <3>2. q # 0 => got[y] # <<>>
      BY <1>3, <1>7
    <3>3. gotHello'[y] \in BOOLEAN
      BY <1>13
    <3>4. y = "server" => gotHello'[y] = TRUE
      BY <1>12, <1>13, <3>1, <3>2
    <3> QED  BY <1>14, <3>3, <3>4
  <2> QED  BY <1>14, <2>2, <2>3, <2>4, <2>5 DEF HasRead
<1>16. Direction(x, y, w, l)'
  <2>1. Wrote(x, w)'
    BY <1>1, <1>2 DEF Direction, Wrote
  <2>2. Logged(x, w, l)'
    BY <1>1, <1>2 DEF Direction, Logged
  <2>3. \A i \in 1..Len(net'[y]) : RecordOK(w, l, send'[x].nonce, net'[y][i])
    BY <1>1, <1>2 DEF Direction
  <2> QED  BY <1>15, <2>1, <2>2, <2>3 DEF Direction
<1>17. \E v, m : Direction(y, x, v, m)'
  <2>1. PICK v, m : Direction(y, x, v, m)
    BY <1>0 DEF DeliveryInv
  <2>2. \A i \in 1..Len(net'[x]) : RecordOK(v, m, send[y].nonce, net'[x][i])
    BY <1>1, <2>1 DEF Direction
  <2>3. Direction(y, x, v, m)'
    BY <1>0, <1>1, <1>13, <2>1, <2>2, DirectionKept
  <2> QED  BY <2>3
<1>18. \A z \in Sides : \E v, m : Direction(z, Other(z), v, m)'
  BY <1>0, <1>16, <1>17
<1> QED  BY <1>1, <1>13, <1>18 DEF DeliveryInv

(* A side says something. *)
LEMMA SpeakingDelivers ==
  ASSUME NonceInv, KeyInv, DeliveryInv, NEW x \in Sides,
         NEW src, NEW b, NEW n, NEW s, NEW tail, Speaks(x, src, b, n, s, tail),
         said' = [said EXCEPT ![x] = Append(said[x], src)],
         DOMAIN sentHello' = Sides, \A z \in Sides : z # x => sentHello'[z] = sentHello[z],
         place[x] # "closed", \A z \in Sides : z # x => place'[z] = place[z],
         place'[x] \in {"open", "closed"},
         DOMAIN harmed' = Sides, \A z \in Sides : harmed[z] => harmed'[z]
  PROVE  DeliveryInv'
<1> DEFINE y == Other(x)
<1>0. y \in Sides /\ x # y /\ Other(y) = x /\ (\A z \in Sides : z = x \/ z = y) /\ y = Other(x)
  BY Others
<1> HIDE DEF y
<1>1. PICK w, l : Direction(x, y, w, l)
  BY <1>0 DEF DeliveryInv
<1>2. said'[x] = Append(said[x], src) /\ said'[y] = said[y] /\ DOMAIN said' = Sides
  BY <1>0 DEF DeliveryInv
<1>3. \E v, m : Direction(x, y, v, m)'
  <2>1. place'[y] = place[y]
    BY <1>0
  <2>2. NonceInv /\ KeyInv /\ x \in Sides /\ Speaks(x, src, b, n, s, tail)
    OBVIOUS
  <2> QED  BY ONLY <1>0, <1>1, <2>1, <2>2, WritingDelivers
<1>4. \E v, m : Direction(y, x, v, m)'
  <2>1. PICK v, m : Direction(y, x, v, m)
    BY <1>0 DEF DeliveryInv
  <2>2. send'[y] = send[y] /\ net'[x] = net[x]
    <3>1. /\ NonceInv /\ KeyInv /\ x \in Sides /\ y = Other(x) /\ b \in Bytes /\ s \in Nat
          /\ s <= CanSend(x, Chunks(b)) /\ n \in 0..s /\ tail \in {<<>>, <<CutShort>>}
          /\ WritesRecords(x, b, n, s, tail)
      BY <1>0 DEF Speaks
    <3> QED  BY ONLY <3>1, WritesAre
  <2>3. \A i \in 1..Len(net'[x]) : RecordOK(v, m, send[y].nonce, net'[x][i])
    BY <2>1, <2>2 DEF Direction
  <2>4. /\ sentHello'[y] = sentHello[y] /\ place'[y] = place[y]
        /\ place'[x] \in {"start", "answer"} => place[x] \in {"start", "answer"}
        /\ harmed[x] => harmed'[x]
    BY <1>0
  <2>5. Direction(y, x, v, m)'
    BY <1>0, <1>2, <2>1, <2>2, <2>3, <2>4, DirectionKept DEF Speaks
  <2> QED  BY <2>5
<1>5. \A z \in Sides : \E v, m : Direction(z, Other(z), v, m)'
  BY <1>0, <1>3, <1>4
<1>6. DOMAIN gotHello' = Sides /\ DOMAIN got' = Sides /\ DOMAIN plain' = Sides
  BY DEF DeliveryInv, Speaks
<1> QED  BY <1>2, <1>5, <1>6 DEF DeliveryInv

(* An encoding is some bytes. *)
LEMMA EncodingIsSome ==
  ASSUME CodecFaithful, NEW x \in Sides, NEW src \in Says[x], Encodable(MessageOf(src)),
         NEW b, b = Encode(MessageOf(src)), x = "server" => MessageOf(src).kind # "HELLO"
  PROVE  b \in Bytes /\ b # <<>>
<1> DEFINE m == MessageOf(src)
           g == m.kind # "HELLO"
<1>1. (x = "client" \/ x = "server") /\ (x = "client" => Other(x) = "server")
      /\ (x = "server" => Other(x) = "client")
  BY DEF Sides, Other
<1>2. HelloInPlace(Other(x), g, m.kind) /\ g \in BOOLEAN
  BY <1>1 DEF HelloInPlace
<1>3. Parse(b, Other(x), g) = [st |-> "ok", m |-> m, rest |-> <<>>]
  <2> HIDE DEF g
  <2> QED  BY <1>2 DEF CodecFaithful
<1> HIDE DEF m, g
<1>4. Parse(b, Other(x), g).st = "ok"
  BY <1>3
<1>5. Parse(<<>>, Other(x), g).st = "more"
  BY DEF Parse
<1>6. b \in Bytes
  BY EncodingAssumption
<1> QED  BY <1>4, <1>5, <1>6

(* The encoder keeps HELLO to the front of what a client says. *)
LEMMA HelloOnce ==
  ASSUME DeliveryInv, NEW x \in Sides, NEW src \in Says[x], Encodable(MessageOf(src)),
         helloOrder(x, MessageOf(src)), place[x] = "open"
  PROVE  /\ \A t : Uttered(x, Len(said[x]) + 1, src, Encode(MessageOf(src)), t)
         /\ x = "server" => MessageOf(src).kind # "HELLO"
         /\ x = "client" => sentHello[x] = (MessageOf(src).kind # "HELLO")
<1>1. PICK w, l : Direction(x, Other(x), w, l)
  BY DEF DeliveryInv
<1> DEFINE i == Len(said[x]) + 1
           h == MessageOf(src).kind = "HELLO"
<1>2. /\ said[x] \in Seq(Says[x] \cup {[kind |-> "stray"]}) /\ w \in Seq(Bytes)
      /\ Len(w) = Len(said[x])
      /\ x = "client" => sentHello[x] = (w # <<>>)
  BY <1>1 DEF Direction, Wrote
<1>3. Len(w) \in Nat /\ (w = <<>> <=> Len(w) = 0) /\ (i = 1 <=> Len(w) = 0)
  BY <1>2
<1>4. x = "client" => (h <=> ~sentHello[x])
  BY <1>2 DEF helloOrder
<1>5. x = "server" => ~h
  BY DEF helloOrder
<1>6. h <=> x = "client" /\ i = 1
  BY <1>2, <1>3, <1>4, <1>5 DEF Sides
<1>7. \A t : Uttered(x, i, src, Encode(MessageOf(src)), t)
  BY <1>6 DEF Uttered
<1>8. x = "client" => sentHello[x] = ~h
  BY <1>2, <1>4
<1> QED  BY <1>5, <1>7, <1>8

(* Say. *)
LEMMA SayDelivers ==
  ASSUME CodecFaithful, NonceInv, KeyInv, DeliveryInv, NEW x \in Sides, NEW src \in Says[x],
         Say(x, src)
  PROVE  DeliveryInv'
<1> DEFINE m == MessageOf(src)
           b == Encode(m)
           k == Len(Chunks(b))
<1>1. /\ place[x] = "open" /\ helloOrder(x, m) /\ Encodable(m)
      /\ CanSend(x, Chunks(b)) = k /\ WritesRecords(x, b, k, k, <<>>)
      /\ sentHello' = [sentHello EXCEPT ![x] = sentHello[x] \/ m.kind = "HELLO"]
      /\ said' = [said EXCEPT ![x] = Append(said[x], src)]
      /\ UNCHANGED <<place, receive, got, plain, gotHello, harmed>>
  BY DEF Say
<1>2. /\ Uttered(x, Len(said[x]) + 1, src, b, harmed'[Other(x)])
      /\ x = "server" => m.kind # "HELLO"
      /\ x = "client" => sentHello[x] = (m.kind # "HELLO")
  BY <1>1, HelloOnce
<1>3. b \in Bytes /\ b # <<>>
  BY <1>1, <1>2, EncodingIsSome
<1>4. /\ DOMAIN sentHello' = Sides /\ \A z \in Sides : z # x => sentHello'[z] = sentHello[z]
      /\ x = "client" => sentHello'[x] = TRUE
  BY <1>1, <1>2 DEF DeliveryInv
<1>5. k = Parts(b) /\ Parts(b) \in Nat
  BY <1>3, PartsAre DEF Parts
<1>6. src \in Says[x] \cup {[kind |-> "stray"]} /\ <<>> \in {<<>>, <<CutShort>>}
  OBVIOUS
<1> HIDE DEF b, k, m
<1>7. k \in {k - 1, k} /\ k \in Nat /\ k <= CanSend(x, Chunks(b))
  BY <1>1, <1>5
<1>8. /\ k = k => k = Parts(b) \/ send[x].nonce + k = NonceReserved
      /\ x = "client" /\ place'[x] # "closed" => sentHello'[x] = TRUE
      /\ place[x] # "closed" /\ (\A z \in Sides : z # x => place'[z] = place[z])
      /\ place'[x] \in {"open", "closed"}
  BY <1>1, <1>4, <1>5
<1>9. said'[x] = Append(said[x], src)
  BY <1>1 DEF DeliveryInv
<1>10. Speaks(x, src, b, k, k, <<>>)
  BY <1>1, <1>2, <1>3, <1>5, <1>6, <1>7, <1>8, <1>9 DEF Speaks
<1>11. DOMAIN harmed' = Sides /\ \A z \in Sides : harmed[z] => harmed'[z]
  BY <1>1 DEF DeliveryInv
<1> QED  BY <1>1, <1>4, <1>8, <1>10, <1>11, SpeakingDelivers

(* A message that is not sealed to its end has used up the counter. *)
LEMMA StoppedAtTheEnd ==
  ASSUME NonceInv, NEW x \in Sides, NEW b \in Bytes, NEW most, most = CanSend(x, Chunks(b)),
         most < Len(Chunks(b))
  PROVE  most \in Nat /\ send[x].nonce + most = NonceReserved
<1> DEFINE c == send[x]
           chunks == Chunks(b)
<1>1. IsCipherState(c) /\ NonceReserved \in Nat /\ c.nonce \in Nat
  BY NoiseAssumption DEF NonceInv, IsCipherState
<1>2. Len(chunks) \in Nat
  BY PartsAre DEF Parts
<1> HIDE DEF chunks
<1>3. /\ most \in 0..Len(chunks)
      /\ \A i \in 1..most : CanSeal(Advanced(c, i - 1), chunks[i])
      /\ ~CanSeal(Advanced(c, most), chunks[most + 1])
  BY <1>2, CanSendIs DEF chunks
<1>4. Len(chunks[most + 1]) <= MaxPlaintext
  <2>1. most + 1 \in 1..Parts(b)
    BY <1>2, <1>3 DEF chunks, Parts
  <2> QED  BY <2>1, UptoIs DEF chunks
<1> HIDE DEF c
<1>5. c.nonce + most <= NonceReserved
  BY <1>1, <1>3, SealingStaysBelow
<1>6. Advanced(c, most) = [key |-> c.key, nonce |-> c.nonce + most]
  BY <1>1, <1>3, <1>5, NoWrap
<1>7. Advanced(c, most).nonce = NonceReserved
  BY <1>3, <1>4 DEF CanSeal
<1> QED  BY <1>2, <1>3, <1>6, <1>7 DEF c

(* SayInPart. *)
LEMMA SayInPartDelivers ==
  ASSUME CodecFaithful, NonceInv, KeyInv, DeliveryInv, NEW x \in Sides, NEW src \in Says[x],
         SayInPart(x, src)
  PROVE  DeliveryInv'
<1> DEFINE m == MessageOf(src)
           b == Encode(m)
           k == Len(Chunks(b))
           most == CanSend(x, Chunks(b))
<1>1. /\ place[x] = "open" /\ helloOrder(x, m) /\ Encodable(m)
      /\ said' = [said EXCEPT ![x] = Append(said[x], src)]
      /\ place' = [place EXCEPT ![x] = IF m.kind = "HELLO" THEN "closed" ELSE place[x]]
      /\ harmed' = [harmed EXCEPT ![Other(x)] = TRUE]
      /\ UNCHANGED <<receive, got, plain, gotHello, sentHello>>
  BY DEF SayInPart
<1>w. \/ \E n \in 0..(most - 1), tail \in {<<>>, <<CutShort>>} :
           WritesRecords(x, b, n, n + 1, tail)
      \/ most < k /\ WritesRecords(x, b, most, most, <<>>)
  BY DEF SayInPart
<1>2. /\ Uttered(x, Len(said[x]) + 1, src, b, harmed'[Other(x)])
      /\ x = "server" => m.kind # "HELLO"
      /\ x = "client" => sentHello[x] = (m.kind # "HELLO")
  BY <1>1, HelloOnce
<1>3. b \in Bytes /\ b # <<>>
  BY <1>1, <1>2, EncodingIsSome
<1>4. /\ DOMAIN sentHello' = Sides /\ \A z \in Sides : z # x => sentHello'[z] = sentHello[z]
  BY <1>1 DEF DeliveryInv
<1>5. k = Parts(b) /\ Parts(b) \in Nat
  BY <1>3, PartsAre DEF Parts
<1>6. src \in Says[x] \cup {[kind |-> "stray"]} /\ <<>> \in {<<>>, <<CutShort>>}
  OBVIOUS
<1> HIDE DEF b, k, m
<1>7. /\ place[x] # "closed" /\ (\A z \in Sides : z # x => place'[z] = place[z])
      /\ place'[x] = IF m.kind = "HELLO" THEN "closed" ELSE "open"
  BY <1>1 DEF NonceInv
<1>8. /\ x = "client" /\ place'[x] # "closed" => sentHello'[x] = TRUE
      /\ place'[x] \in {"open", "closed"}
  BY <1>1, <1>2, <1>7
<1>h. /\ DOMAIN harmed' = Sides /\ (\A z \in Sides : harmed[z] => harmed'[z])
      /\ harmed'[Other(x)]
  BY <1>1, Others DEF DeliveryInv
<1>9. ASSUME NEW s \in Nat, s <= most, NEW n \in {s - 1, s}, n \in Nat,
             NEW tail \in {<<>>, <<CutShort>>}, WritesRecords(x, b, n, s, tail),
             n = s => send[x].nonce + s = NonceReserved
      PROVE  DeliveryInv'
  <2>1. n = s => s = Parts(b) \/ send[x].nonce + s = NonceReserved
    BY <1>9
  <2>2. s <= CanSend(x, Chunks(b))
    BY <1>9
  <2> HIDE DEF most
  <2>3. said'[x] = Append(said[x], src)
    BY <1>1 DEF DeliveryInv
  <2>4. Speaks(x, src, b, n, s, tail)
    BY <1>1, <1>2, <1>3, <1>6, <1>8, <1>h, <1>9, <2>1, <2>2, <2>3 DEF Speaks
  <2> QED  BY <1>1, <1>4, <1>7, <1>8, <1>h, <2>4, SpeakingDelivers
<1>10. most \in Nat
  <2>1. Len(Chunks(b)) \in Nat
    BY <1>5 DEF k
  <2> QED  BY <2>1, CanSendIs
<1>11. ASSUME NEW n \in 0..(most - 1), NEW tail \in {<<>>, <<CutShort>>},
              WritesRecords(x, b, n, n + 1, tail)
       PROVE  DeliveryInv'
  <2> HIDE DEF most
  <2> DEFINE s == n + 1
  <2>1. s \in Nat /\ s <= most /\ n \in {s - 1, s} /\ n \in Nat /\ n # s
    BY <1>10
  <2>2. WritesRecords(x, b, n, s, tail)
    BY <1>11
  <2> HIDE DEF s
  <2> QED  BY <1>9, <2>1, <2>2
<1>12. ASSUME most < k, WritesRecords(x, b, most, most, <<>>)
       PROVE  DeliveryInv'
  <2>1. send[x].nonce + most = NonceReserved
    BY <1>3, <1>12, StoppedAtTheEnd DEF k
  <2> HIDE DEF most
  <2>2. most <= most /\ most \in {most - 1, most}
    BY <1>10
  <2> QED  BY <1>6, <1>9, <1>10, <1>12, <2>1, <2>2
<1> QED  BY <1>w, <1>11, <1>12

(* SayStray. *)
LEMMA SayStrayDelivers ==
  ASSUME CodecFaithful, NonceInv, KeyInv, DeliveryInv, NEW b \in Strays, SayStray(b)
  PROVE  DeliveryInv'
<1> DEFINE k == Len(Chunks(b))
           x == "server"
           src == [kind |-> "stray"]
<1>1. /\ place[x] = "open"
      /\ CanSend(x, Chunks(b)) = k /\ WritesRecords(x, b, k, k, <<>>)
      /\ said' = [said EXCEPT ![x] = Append(said[x], src)]
      /\ harmed' = [harmed EXCEPT ![Other(x)] = TRUE]
      /\ UNCHANGED <<place, receive, got, plain, gotHello, sentHello>>
  BY DEF SayStray
<1>h. /\ DOMAIN harmed' = Sides /\ (\A z \in Sides : harmed[z] => harmed'[z])
      /\ harmed'[Other(x)]
  <2>1. Other(x) \in Sides
    BY DEF Sides, Other
  <2> QED  BY <1>1, <2>1 DEF DeliveryInv
<1>2. x \in Sides /\ x # "client" /\ src.kind = "stray"
  BY DEF Sides
<1>3. b \in Bytes /\ b # <<>>
  <2>1. b \in Bytes
    BY EncodingAssumption
  <2>2. Parse(b, "client", FALSE).st = "bad" \/ Parse(b, "client", FALSE).st = "ok"
    BY DEF CodecFaithful
  <2>3. Parse(<<>>, "client", FALSE).st = "more"
    BY DEF Parse
  <2> QED  BY <2>1, <2>2, <2>3
<1>4. Uttered(x, Len(said[x]) + 1, src, b, harmed'[Other(x)])
  BY <1>h DEF Uttered
<1>5. k = Parts(b) /\ Parts(b) \in Nat
  BY <1>3, PartsAre DEF Parts
<1>6. src \in Says[x] \cup {[kind |-> "stray"]} /\ <<>> \in {<<>>, <<CutShort>>}
  OBVIOUS
<1> HIDE DEF k, x, src
<1>7. k \in {k - 1, k} /\ k \in Nat /\ k <= CanSend(x, Chunks(b))
  BY <1>1, <1>5
<1>8. /\ k = k => k = Parts(b) \/ send[x].nonce + k = NonceReserved
      /\ x = "client" /\ place'[x] # "closed" => sentHello'[x] = TRUE
      /\ place[x] # "closed" /\ (\A z \in Sides : z # x => place'[z] = place[z])
      /\ place'[x] \in {"open", "closed"}
  BY <1>1, <1>2, <1>5
<1>9. /\ DOMAIN sentHello' = Sides /\ \A z \in Sides : z # x => sentHello'[z] = sentHello[z]
  BY <1>1 DEF DeliveryInv
<1>10. said'[x] = Append(said[x], src)
  BY <1>1, <1>2 DEF DeliveryInv
<1>11. Speaks(x, src, b, k, k, <<>>)
  BY <1>1, <1>h, <1>3, <1>4, <1>6, <1>7, <1>8, <1>10 DEF Speaks
<1> QED  BY <1>1, <1>h, <1>2, <1>8, <1>9, <1>11, SpeakingDelivers

(* Nothing has been said or read. *)
LEMMA DeliveryInvInit == Init => DeliveryInv
<1> SUFFICES ASSUME Init PROVE DeliveryInv
  OBVIOUS
<1>1. \A z \in Sides : /\ place[z] = "start" /\ send[z].nonce = 0 /\ receive[z].nonce = 0
                       /\ net[z] = <<>> /\ sentHello[z] = FALSE /\ gotHello[z] = FALSE
                       /\ plain[z] = <<>> /\ said[z] = <<>> /\ got[z] = <<>>
                       /\ harmed[z] = FALSE
  BY DEF Init, newCipherState
<1>2. ASSUME NEW x \in Sides, NEW y \in Sides PROVE Direction(x, y, <<>>, <<>>)
  <2>1. Wrote(x, <<>>)
    <3>1. <<>> \in Seq(Says[x] \cup {[kind |-> "stray"]}) /\ <<>> \in Seq(Bytes) /\ Len(<<>>) = 0
      OBVIOUS
    <3>2. said[x] \in Seq(Says[x] \cup {[kind |-> "stray"]}) /\ Len(<<>>) = Len(said[x])
          /\ sentHello[x] = (<<>> # <<>>)
      BY <1>1, <3>1
    <3> QED  BY <3>1, <3>2 DEF Wrote
  <2>2. Logged(x, <<>>, <<>>)
    <3>1. InOrder(<<>>, <<>>)
      BY DEF InOrder
    <3>2. Ended(<<>>, <<>>)
      BY DEF Ended
    <3> QED  BY <1>1, <3>1, <3>2 DEF Logged
  <2>3. HasRead(y, <<>>, <<>>)
    <3>1. Halfway(0, 0, <<>>, <<>>, <<>>)
      BY DEF Halfway
    <3>0. <<>> \in Seq(Nat) /\ Len(<<>>) = 0
      OBVIOUS
    <3>2. got[y] \in Seq(Nat) /\ Len(got[y]) = 0
      BY <1>1, <3>0
    <3>3. \A i \in 1..Len(got[y]) :
            LET src == said[Other(y)][i] IN src.kind # "stray" => got[y][i] = MessageOf(src)
      BY <3>2
    <3>4. 0 \in 0..Len(<<>>)
      OBVIOUS
    <3> QED  BY <1>1, <3>1, <3>2, <3>3, <3>4 DEF HasRead
  <2>4. \A i \in 1..Len(net[y]) : RecordOK(<<>>, <<>>, send[x].nonce, net[y][i])
    BY <1>1
  <2> QED  BY <2>1, <2>2, <2>3, <2>4 DEF Direction
<1>3. \A x \in Sides : Other(x) \in Sides
  BY Others
<1>4. /\ DOMAIN said = Sides /\ DOMAIN sentHello = Sides /\ DOMAIN gotHello = Sides
      /\ DOMAIN got = Sides /\ DOMAIN plain = Sides /\ DOMAIN harmed = Sides
  BY DEF Init
<1> QED  BY <1>2, <1>3, <1>4 DEF DeliveryInv

(* Every step keeps it. *)
LEMMA DeliveryInvNext ==
  ASSUME CodecFaithful, NonceInv, KeyInv, DeliveryInv, [Next]_vars
  PROVE  DeliveryInv'
<1>1. CASE Initiate
  BY <1>1, InitiateDelivers
<1>2. CASE Respond
  BY <1>2, RespondDelivers
<1>3. CASE Complete
  BY <1>3, CompleteDelivers
<1>4. ASSUME NEW x \in Sides, HandshakeFails(x) PROVE DeliveryInv'
  <2>1. Closes(x) /\ UNCHANGED <<send, receive, said, sentHello, got, plain, gotHello, harmed>>
    BY <1>4 DEF HandshakeFails, Refuses, Unread
  <2> QED  BY <2>1, ClosingDelivers
<1>5. ASSUME NEW x \in Sides,
             RefuseRecord(x) \/ RefuseMessage(x) \/ EndOfStream(x) \/ Close(x)
      PROVE  DeliveryInv'
  <2>1. Closes(x) /\ UNCHANGED <<send, receive, said, sentHello, got, plain, gotHello, harmed>>
    BY <1>5 DEF RefuseRecord, RefuseMessage, EndOfStream, Close, Refuses, Unread
  <2> QED  BY <2>1, ClosingDelivers
<1>6. ASSUME NEW x \in Sides, ReadRecord(x) PROVE DeliveryInv'
  BY <1>6, ReadDelivers
<1>7. ASSUME NEW x \in Sides, NextMessage(x) PROVE DeliveryInv'
  BY <1>7, TakeDelivers
<1>8. ASSUME NEW x \in Sides, Disturb(x) PROVE DeliveryInv'
  BY <1>8, DisturbDelivers
<1>9. ASSUME NEW x \in Sides, NEW src \in Says[x], Say(x, src) PROVE DeliveryInv'
  BY <1>9, SayDelivers
<1>10. ASSUME NEW x \in Sides, NEW src \in Says[x], SayInPart(x, src) PROVE DeliveryInv'
  BY <1>10, SayInPartDelivers
<1>11. ASSUME NEW bytes \in Strays, SayStray(bytes) PROVE DeliveryInv'
  BY <1>11, SayStrayDelivers
<1>12. CASE Over \/ UNCHANGED vars
  <2>1. UNCHANGED <<place, send, receive, net, said, sentHello, got, plain, gotHello, harmed>>
    BY <1>12 DEF Over, vars
  <2>2. \A z \in Sides : NoNewRecord(z)
    BY <2>1 DEF NoNewRecord
  <2>3. \A z \in Sides : NoReopening(z)
    BY <2>1 DEF NoReopening
  <2>4. DOMAIN harmed' = Sides
    BY <2>1 DEF DeliveryInv
  <2> QED  BY <2>1, <2>2, <2>3, <2>4, QuietDelivers
<1> QED  BY <1>1, <1>2, <1>3, <1>4, <1>5, <1>6, <1>7, <1>8, <1>9, <1>10, <1>11, <1>12 DEF Next

(* What the invariant says of what has been read. *)
LEMMA InvDelivers == DeliveryInv => DeliveredAsSaid
<1> SUFFICES ASSUME DeliveryInv, NEW y \in Sides
             PROVE  /\ Len(got[y]) <= Len(said[Other(y)])
                    /\ \A i \in 1..Len(got[y]) :
                         LET src == said[Other(y)][i]
                         IN src.kind # "stray" => got[y][i] = MessageOf(src)
  BY DEF DeliveredAsSaid
<1> DEFINE x == Other(y)
<1>1. x \in Sides /\ Other(x) = y
  BY Others
<1>2. PICK w, l : Direction(x, y, w, l)
  BY <1>1 DEF DeliveryInv
<1>3. /\ InOrder(w, l) /\ w \in Seq(Bytes) /\ Len(w) = Len(said[x])
      /\ receive[y].nonce \in 0..Len(l)
      /\ Halfway(receive[y].nonce, Len(got[y]), plain[y], w, l)
  BY <1>2 DEF Direction, Wrote, Logged, HasRead
<1>4. Len(got[y]) \in Nat
  <2>1. PICK S : got[y] \in Seq(S)
    BY <1>2 DEF Direction, HasRead
  <2> QED  BY <2>1
<1>5. Len(got[y]) <= Len(w)
  BY <1>3, <1>4, HalfwayBounds
<1>6. \A i \in 1..Len(got[y]) :
        LET src == said[Other(y)][i] IN src.kind # "stray" => got[y][i] = MessageOf(src)
  BY <1>2 DEF Direction, HasRead
<1> QED  BY <1>3, <1>5, <1>6

(***************************************************************************)
(* What a side has read is what the other wrote, from the first message    *)
(* on, in order and without a gap, for any number of messages, records,    *)
(* faults and half-written records, as soon as the codec is faithful       *)
(* message by message (record.go, RecordReader.next; conn.go, run).        *)
(***************************************************************************)
THEOREM DeliveryInOrder == CodecFaithful => (Spec => []DeliveredAsSaid)
<1> SUFFICES ASSUME CodecFaithful PROVE Spec => []DeliveredAsSaid
  OBVIOUS
<1>1. Init => NonceInv /\ KeyInv /\ DeliveryInv
  BY NonceInvInit, KeyInvInit, DeliveryInvInit
<1>2. NonceInv /\ KeyInv /\ DeliveryInv /\ [Next]_vars => NonceInv' /\ KeyInv' /\ DeliveryInv'
  BY NonceInvNext, KeyInvNext, DeliveryInvNext
<1>3. NonceInv /\ KeyInv /\ DeliveryInv => DeliveredAsSaid
  BY InvDelivers
<1> QED  BY <1>1, <1>2, <1>3, PTL DEF Spec

-----------------------------------------------------------------------------
(* Refusals: with nothing harmed on its way, what a side reads it can open. *)

(* The responder's message, to an initiator like itself. *)
SecondFrame(p) ==
  Frame(HandshakeMessage(ReadMessage(Fresh(p, "server"), FirstFrame(p)), "server"))

(* A message opens for who has absorbed the same tokens. *)
LEMMA OpensAlike ==
  ASSUME NEW T, T.cipher.nonce = 0
  PROVE  Opens(T.cipher, T.h, encryptAndHash(T))
BY NoiseAssumption DEF Opens, encryptAndHash, seal

(* The responder opens the message of an initiator like itself, and both are then in
   one symmetric state. *)
LEMMA ServerReads ==
  ASSUME NEW p, p["client"] = p["server"]
  PROVE  \E H, C, X :
           /\ WriteMessage(Fresh(p, "client"), "client") =
                HandshakeState([h |-> H, ck |-> C, cipher |-> X], TRUE, p["client"].psk,
                               "client", "none", 1, FALSE)
           /\ ReadMessage(Fresh(p, "server"), FirstFrame(p)) =
                HandshakeState([h |-> H, ck |-> C, cipher |-> X], FALSE, p["client"].psk,
                               "none", "client", 1, FALSE)
<1> DEFINE psk == p["client"].psk
           v == p["client"].version
           s == newSymmetric(<<"preamble", v>>)
           yes == TRUE
           no == FALSE
           g == Fresh(p, "client")
           k == Fresh(p, "server")
           m == FirstFrame(p)
           H == FirstHash(psk, v, "client")
           C == FirstOut(psk, "client", 1)
           X == [key |-> FirstOut(psk, "client", 2), nonce |-> 0]
           T == Tokens(g, "client", {"client", "none"})
           U == Tokens(k, "client", {"none", "client"})
<1>1. /\ g = HandshakeState(s, yes, psk, "none", "none", 0, no)
      /\ k = HandshakeState(s, no, psk, "none", "none", 0, no)
  BY FreshIs
<1>2. m = Frame(HandshakeMessage(g, "client"))
  BY DEF FirstFrame
<1> HIDE DEF g, k, psk, v, yes, no, s, m
<1>3. /\ g.step = 0 /\ g.psk = psk /\ g.sym = s /\ g.re = "none"
      /\ k.step = 0 /\ k.psk = psk /\ k.sym = s /\ k.e = "none"
  BY ONLY <1>1, HandshakeFields
<1>4. T = [h |-> H, ck |-> C, cipher |-> X] /\ U = [h |-> H, ck |-> C, cipher |-> X]
  BY <1>3, FirstTokens DEF s
<1>5. U = T /\ T.cipher.nonce = 0
  <2>1. U = T
    BY ONLY <1>4
  <2>2. T.cipher.nonce = 0
    BY ONLY <1>4 DEF X
  <2> QED  BY <2>1, <2>2
<1> DEFINE box == encryptAndHash(T)
           S == Hashed(T, box)
<1>6. m.e = "client" /\ m.box = box
  <2>1. HandshakeMessage(g, "client") = [e |-> "client", box |-> box]
    BY <1>3 DEF HandshakeMessage
  <2> HIDE DEF box
  <2> QED  BY <1>2, <2>1 DEF Frame
<1> HIDE DEF T, U, H, C, X
<1>7. Opens(T.cipher, T.h, box)
  BY <1>5, OpensAlike
<1> HIDE DEF box
<1>8. S = [h |-> Append(H, box), ck |-> C, cipher |-> Advanced(X, 1)]
  BY ONLY <1>4, HashedIs
<1>9. WriteMessage(g, "client") = HandshakeState(S, yes, psk, "client", "none", 0 + 1, no)
  <2>1. T = Tokens(g, "client", {"client", "none"})
    BY DEF T
  <2> QED  BY <1>1, <2>1, WrittenIs DEF box
<1> HIDE DEF S
<1>10. ReadMessage(k, m) = HandshakeState(S, no, psk, "none", "client", 0 + 1, no)
  <2> DEFINE y == m.e
  <2>1. S = Hashed(T, m.box) /\ y = m.e /\ y = "client"
    BY <1>6 DEF S
  <2> HIDE DEF y
  <2>2. T = Tokens(k, m.e, {k.e, m.e})
    BY <1>3, <1>5, <1>6 DEF U
  <2>3. Opens(T.cipher, T.h, m.box)
    BY <1>6, <1>7
  <2>4. ReadMessage(k, m) = ReadWith(k, S, y)
    BY ONLY <2>1, <2>2, <2>3 DEF ReadMessage, ReadWith
  <2>5. ReadWith(k, S, y) = HandshakeState(S, no, psk, "none", y, 0 + 1, no)
    BY ONLY <1>1, ReadIs
  <2> QED  BY <2>1, <2>4, <2>5
<1>11. 0 + 1 = 1
  OBVIOUS
<1>12. \E G, D, Y : /\ S = [h |-> G, ck |-> D, cipher |-> Y]
                    /\ WriteMessage(g, "client") =
                         HandshakeState(S, yes, psk, "client", "none", 1, no)
                    /\ ReadMessage(k, m) = HandshakeState(S, no, psk, "none", "client", 1, no)
  BY <1>8, <1>9, <1>10, <1>11
<1> QED  BY <1>12 DEF g, k, m, psk, yes, no

(* And the initiator opens the answer. *)
LEMMA ClientReads ==
  ASSUME NEW p, p["client"] = p["server"]
  PROVE  ~ReadMessage(WriteMessage(Fresh(p, "client"), "client"), SecondFrame(p)).failed
<1> DEFINE psk == p["client"].psk
           yes == TRUE
           no == FALSE
           g == WriteMessage(Fresh(p, "client"), "client")
           k == ReadMessage(Fresh(p, "server"), FirstFrame(p))
           m == SecondFrame(p)
<1>1. PICK H, C, X : /\ g = HandshakeState([h |-> H, ck |-> C, cipher |-> X], yes, psk,
                                           "client", "none", 1, no)
                     /\ k = HandshakeState([h |-> H, ck |-> C, cipher |-> X], no, psk,
                                           "none", "client", 1, no)
  BY ServerReads
<1> DEFINE S == [h |-> H, ck |-> C, cipher |-> X]
<1>2. /\ g = HandshakeState(S, yes, psk, "client", "none", 1, no)
      /\ k = HandshakeState(S, no, psk, "none", "client", 1, no)
      /\ m = Frame(HandshakeMessage(k, "server"))
  BY <1>1 DEF SecondFrame
<1>0. no = FALSE
  OBVIOUS
<1> HIDE DEF g, k, psk, yes, no, S, m
<1>3. /\ g.step = 1 /\ g.sym = S /\ g.e = "client"
      /\ k.step = 1 /\ k.sym = S /\ k.re = "client"
  BY ONLY <1>2, HandshakeFields
<1> DEFINE both == {"client", "server"}
           T == Tokens(g, "server", both)
           U == Tokens(k, "server", both)
<1> HIDE DEF both
<1>4. U = T
  BY <1>3 DEF Tokens
<1>5. T.cipher.nonce = 0
  <2>1. g.sym = [h |-> H, ck |-> C, cipher |-> X] /\ g.step = 1
    BY <1>3 DEF S
  <2>2. \E h : Tokens(g, "server", both) =
           [h |-> h, ck |-> hkdfExpand(hkdfExpand(C, <<"e", "server">>, 1), <<"ee", both>>, 1),
            cipher |-> [key |-> hkdfExpand(hkdfExpand(C, <<"e", "server">>, 1), <<"ee", both>>, 2),
                        nonce |-> 0]]
    BY ONLY <2>1, SecondTokens
  <2> QED  BY <2>2
<1> DEFINE box == encryptAndHash(U)
<1> HIDE DEF T, U
<1>6. m.e = "server" /\ m.box = box
  <2>1. {"server", k.re} = both
    BY <1>3 DEF both
  <2>2. HandshakeMessage(k, "server") = [e |-> "server", box |-> box]
    BY <2>1 DEF HandshakeMessage, U
  <2> HIDE DEF box
  <2> QED  BY <1>2, <2>2 DEF Frame
<1>7. Opens(T.cipher, T.h, m.box)
  BY <1>4, <1>5, <1>6, OpensAlike
<1> HIDE DEF box
<1> DEFINE y == m.e
           R == Hashed(T, m.box)
<1>8. T = Tokens(g, m.e, {g.e, m.e})
  BY <1>3, <1>6 DEF T, both
<1>9. ReadMessage(g, m) = ReadWith(g, R, y)
  BY ONLY <1>7, <1>8 DEF ReadMessage, ReadWith
<1> HIDE DEF R, y
<1>10. ReadWith(g, R, y) = HandshakeState(R, yes, psk, "client", y, 1 + 1, no)
  BY ONLY <1>2, ReadIs
<1> DEFINE h == ReadMessage(g, m)
<1>11. h = HandshakeState(R, yes, psk, "client", y, 1 + 1, no)
  BY <1>9, <1>10
<1> HIDE DEF h
<1>12. h.failed = no
  BY ONLY <1>11, HandshakeFields
<1> QED  BY <1>0, <1>12 DEF h, g, m

(* The handshake message that side y waits for. *)
FrameTo(p, y) == IF y = "server" THEN FirstFrame(p) ELSE SecondFrame(p)

(* The key that the records to side y are sealed with. *)
StreamKey(p, y) ==
  hkdfExpand(FinalKey(p[y].psk), <<"end", "none">>, IF y = "client" THEN 2 ELSE 1)

(* The record to side y with the counter k, as it was written. *)
Crisp(p, y, k, item) ==
  /\ item.is = "record" /\ item.box.intact /\ item.box.key = StreamKey(p, y)
  /\ item.box.nonce = k /\ item.box.ad = <<>>

(* On its way to side y is what was written: h items of a handshake, which are both or
   none, and then the records from the counter r up to c. *)
InShape(p, y, h, s, r, c) ==
  /\ Len(s) = h + (c - r)
  /\ \A i \in 1..Len(s) : i > h => Crisp(p, y, r + (i - h) - 1, s[i])
  /\ h = 2 => s[1] = Preamble(p[y].version) /\ s[2] = FrameTo(p, y)

(* The handshake of a side that a peer like itself answers goes well. *)
LEMMA GoodAnswer ==
  ASSUME KeyInv, NEW y \in Sides, place[y] = (IF y = "client" THEN "answer" ELSE "start"),
         peer["client"] = peer["server"],
         net[y][1] = Preamble(peer[y].version), net[y][2] = FrameTo(peer, y)
  PROVE  ~Answered(y).failed /\ Answered(y) = ReadMessage(hs[y], net[y][2])
<1>1. GoodVersion(y, net[y][1])
  BY DEF GoodVersion, Preamble
<1>2. net[y][2].is = "frame"
  BY DEF FrameTo, FirstFrame, SecondFrame, Frame
<1> DEFINE yes == TRUE
           no == FALSE
           psk == peer["client"].psk
<1>3. CASE y = "server"
  <2> DEFINE s == newSymmetric(<<"preamble", peer["server"].version>>)
             k == peer["server"].psk
             g == Fresh(peer, "server")
             b == ("server" = "client")
  <2>1. hs[y] = g
    BY <1>3 DEF KeyInv
  <2>2. g = HandshakeState(s, b, k, "none", "none", 0, no)
    BY FreshIs
  <2>b. b = FALSE
    OBVIOUS
  <2> HIDE DEF s, k, g, no, b
  <2>3. g.step = 0 /\ g.initiator = b /\ g.failed = no
    BY ONLY <2>2, HandshakeFields
  <2>4. TurnToRead(g)
    <3>1. g.step < 2
      BY <2>3
    <3>2. g.initiator # (g.step = 0) /\ ~g.failed
      BY <2>3, <2>b, Zenon DEF no
    <3> QED  BY <3>1, <3>2 DEF TurnToRead
  <2>5. Answered(y) = ReadMessage(g, net[y][2])
    BY <1>1, <1>2, <2>1, <2>4 DEF Answered
  <2>6. PICK S : ReadMessage(g, FirstFrame(peer)) =
                   HandshakeState(S, no, psk, "none", "client", 1, no)
    BY ServerReads DEF g, no
  <2> DEFINE r == ReadMessage(g, FirstFrame(peer))
  <2>7. r = HandshakeState(S, no, psk, "none", "client", 1, no)
    BY <2>6
  <2> HIDE DEF r, psk
  <2>8. r.failed = no
    BY ONLY <2>7, HandshakeFields
  <2>9. net[y][2] = FirstFrame(peer)
    BY <1>3 DEF FrameTo
  <2> QED  BY <2>1, <2>5, <2>8, <2>9 DEF r, no
<1>4. CASE y = "client"
  <2> DEFINE g == WriteMessage(Fresh(peer, "client"), "client")
  <2>1. hs[y] = g
    BY <1>4 DEF KeyInv
  <2>2. PICK S : g = HandshakeState(S, yes, psk, "client", "none", 1, no)
    BY ServerReads
  <2> HIDE DEF g, no, yes, psk
  <2>3. g.step = 1 /\ g.initiator = yes /\ g.failed = no
    BY ONLY <2>2, HandshakeFields
  <2>4. TurnToRead(g)
    <3>1. g.step < 2 /\ g.step # 0
      BY <2>3
    <3>2. g.initiator # (g.step = 0) /\ ~g.failed
      BY <2>3, <3>1, Zenon DEF no, yes
    <3> QED  BY <3>1, <3>2 DEF TurnToRead
  <2>5. Answered(y) = ReadMessage(g, net[y][2])
    BY <1>1, <1>2, <2>1, <2>4 DEF Answered
  <2>6. net[y][2] = SecondFrame(peer)
    BY <1>4 DEF FrameTo
  <2> QED  BY <2>1, <2>5, <2>6, ClientReads DEF g
<1> QED  BY <1>3, <1>4 DEF Sides

(* Records are written behind. *)
LEMMA ShapeLonger ==
  ASSUME NEW p, NEW y, NEW h \in {0, 2}, NEW S, NEW s \in Seq(S), NEW f \in Seq(S),
         NEW r \in Nat, NEW c \in Nat, r <= c, InShape(p, y, h, s, r, c),
         NEW t, t = s \o f, NEW d, d = c + Len(f),
         \A i \in 1..Len(f) : Crisp(p, y, c + (i - 1), f[i])
  PROVE  InShape(p, y, h, t, r, d)
<1>1. /\ Len(t) = Len(s) + Len(f)
      /\ \A i \in 1..Len(s) : t[i] = s[i]
      /\ \A i \in 1..Len(f) : t[Len(s) + i] = f[i]
  BY ONLY s \in Seq(S), f \in Seq(S), t = s \o f, Joined
<1>2. Len(s) \in Nat /\ Len(f) \in Nat /\ h \in Nat
  OBVIOUS
<1>3. Len(s) = h + (c - r) /\ Len(t) = h + (d - r)
  BY <1>1, <1>2 DEF InShape
<1>4. ASSUME NEW i \in 1..Len(t), i > h PROVE Crisp(p, y, r + (i - h) - 1, t[i])
  <2>1. CASE i <= Len(s)
    BY <1>1, <1>2, <1>4, <2>1 DEF InShape
  <2>2. CASE ~(i <= Len(s))
    <3> DEFINE k == i - Len(s)
    <3>1. k \in 1..Len(f) /\ i = Len(s) + k /\ r + (i - h) - 1 = c + (k - 1)
      BY <1>1, <1>2, <1>3, <2>2
    <3> HIDE DEF k
    <3>2. t[i] = f[k] /\ Crisp(p, y, c + (k - 1), f[k])
      BY <1>1, <3>1
    <3> QED  BY <3>1, <3>2
  <2> QED  BY <2>1, <2>2
<1>5. h = 2 => t[1] = Preamble(p[y].version) /\ t[2] = FrameTo(p, y)
  <2> SUFFICES ASSUME h = 2 PROVE t[1] = s[1] /\ t[2] = s[2]
    BY DEF InShape
  <2>1. 1 \in 1..Len(s) /\ 2 \in 1..Len(s)
    BY <1>2, <1>3
  <2> QED  BY <1>1, <2>1
<1> QED  BY <1>3, <1>4, <1>5 DEF InShape

(* The first record is taken off. *)
LEMMA ShapeTail ==
  ASSUME NEW p, NEW y, NEW S, NEW s \in Seq(S), s # <<>>, NEW r \in Nat, NEW c \in Nat,
         InShape(p, y, 0, s, r, c), NEW t, t = Tail(s)
  PROVE  r < c /\ Crisp(p, y, r, s[1]) /\ InShape(p, y, 0, t, r + 1, c)
<1>1. Len(s) \in Nat /\ Len(s) >= 1 /\ Len(s) = 0 + (c - r)
  BY DEF InShape
<1>2. Len(t) = Len(s) - 1 /\ \A i \in 1..Len(t) : t[i] = s[i + 1]
  BY <1>1
<1>3. Crisp(p, y, r + (1 - 0) - 1, s[1]) /\ r + (1 - 0) - 1 = r
  BY <1>1 DEF InShape
<1>4. ASSUME NEW i \in 1..Len(t) PROVE Crisp(p, y, (r + 1) + (i - 0) - 1, t[i])
  <2>1. i + 1 \in 1..Len(s) /\ i + 1 > 0 /\ r + ((i + 1) - 0) - 1 = (r + 1) + (i - 0) - 1
    BY <1>1, <1>2
  <2>2. Crisp(p, y, r + ((i + 1) - 0) - 1, s[i + 1])
    BY <2>1 DEF InShape
  <2> QED  BY <1>2, <2>1, <2>2
<1>5. Len(t) = 0 + (c - (r + 1))
  BY <1>1, <1>2
<1> HIDE DEF InShape
<1>6. InShape(p, y, 0, t, r + 1, c)
  BY <1>4, <1>5 DEF InShape
<1> QED  BY <1>1, <1>3, <1>6

(* The handshake is taken off. *)
LEMMA ShapeRest ==
  ASSUME NEW p, NEW y, NEW S, NEW s \in Seq(S), NEW r \in Nat, NEW c \in Nat, r <= c,
         InShape(p, y, 2, s, r, c), NEW t, t = SubSeq(s, 3, Len(s))
  PROVE  InShape(p, y, 0, t, r, c)
<1>1. Len(s) \in Nat /\ Len(s) >= 2 /\ Len(s) = 2 + (c - r)
  BY DEF InShape
<1>2. Len(t) = Len(s) - 2 /\ \A i \in 1..Len(t) : t[i] = s[i + 2]
  BY <1>1
<1>4. ASSUME NEW i \in 1..Len(t) PROVE Crisp(p, y, r + (i - 0) - 1, t[i])
  <2>1. i + 2 \in 1..Len(s) /\ i + 2 > 2 /\ r + ((i + 2) - 2) - 1 = r + (i - 0) - 1
    BY <1>1, <1>2
  <2>2. Crisp(p, y, r + ((i + 2) - 2) - 1, s[i + 2])
    BY <2>1 DEF InShape
  <2> QED  BY <1>2, <2>1, <2>2
<1>5. Len(t) = 0 + (c - r)
  BY <1>1, <1>2
<1> QED  BY <1>4, <1>5 DEF InShape

(* The handshake is written. *)
LEMMA ShapeStarts ==
  ASSUME NEW p, NEW y, NEW t, t = <<Preamble(p[y].version), FrameTo(p, y)>>
  PROVE  InShape(p, y, 2, t, 0, 0)
<1>1. Len(t) = 2 /\ t[1] = Preamble(p[y].version) /\ t[2] = FrameTo(p, y)
  OBVIOUS
<1> QED  BY <1>1 DEF InShape

(* Side y is open and records come to it; or its handshake is on its way, with the
   records behind it; or side x has written nothing and, if it closed, never will. *)
Coming(x, y) ==
  \/ /\ place[y] = "open" /\ place[x] # "start"
     /\ InShape(peer, y, 0, net[y], receive[y].nonce, send[x].nonce)
  \/ /\ place[y] # "open" /\ place[x] # "start"
     /\ InShape(peer, y, 2, net[y], receive[y].nonce, send[x].nonce)
  \/ place[y] # "open" /\ place[x] \in {"start", "closed"} /\ net[y] = <<>>

(* A side that was not harmed, with a peer like itself, has not refused. *)
Orderly(x, y) ==
  ~harmed[y] /\ peer["client"] = peer["server"] =>
    ~refused[y] /\ (place[y] # "closed" => Coming(x, y))

(***************************************************************************)
(* The inductive invariant: what is on its way to a side that was not      *)
(* harmed is exactly what was written and not read yet.                    *)
(***************************************************************************)
Tidy ==
  /\ DOMAIN refused = Sides
  /\ \A y \in Sides : Orderly(Other(y), y)

(* The counters of the two ends. *)
LEMMA CountersOf ==
  ASSUME NonceInv, KeyInv, DeliveryInv, NEW y \in Sides, NEW x, x = Other(y)
  PROVE  /\ x \in Sides /\ x # y /\ y = Other(x)
         /\ net[y] \in Seq(ToSet(net[y])) /\ DOMAIN net = Sides
         /\ receive[y].nonce \in Nat /\ send[x].nonce \in Nat
         /\ receive[y].nonce <= send[x].nonce /\ send[x].nonce <= NonceReserved
         /\ NonceReserved \in Nat
         /\ place[y] \in {"start", "answer"} => receive[y].nonce = 0
         /\ place[x] \in {"start", "answer"} => send[x].nonce = 0
<1>1. x \in Sides /\ x # y /\ y = Other(x)
  BY Others
<1>2. net[y] \in Seq(ToSet(net[y])) /\ DOMAIN net = Sides
  BY DEF KeyInv, Flows
<1>3. PICK w, l : Direction(x, y, w, l)
  BY <1>1 DEF DeliveryInv
<1>4. /\ Len(l) \in Nat /\ Len(l) <= send[x].nonce
      /\ receive[y].nonce \in 0..Len(l)
      /\ place[y] \in {"start", "answer"} => receive[y].nonce = 0
  BY <1>3 DEF Direction, Logged, HasRead, InOrder
<1>5. send[x].nonce \in 0..NonceReserved /\ NonceReserved \in Nat
  BY <1>1, NoiseAssumption DEF NonceInv, IsCipherState
<1>6. place[x] \in {"start", "answer"} => send[x].nonce = 0
  <2> SUFFICES ASSUME place[x] \in {"start", "answer"} PROVE send[x].nonce = 0
    OBVIOUS
  <2>1. used[x] = <<>> /\ Len(used[x]) = send[x].nonce
    BY <1>1 DEF NonceInv, CountsUpTo
  <2>2. Len(<<>>) = 0
    OBVIOUS
  <2> QED  BY <2>1, <2>2
<1> QED  BY <1>1, <1>2, <1>4, <1>5, <1>6

(* Side y is as open as it was and nothing new is on its way to it, or it has closed. *)
Untouched(x, y) ==
  \/ place'[y] = "closed"
  \/ /\ place[y] # "closed" /\ (place'[y] = "open" <=> place[y] = "open")
     /\ net'[y] = net[y]
     /\ receive'[y].nonce = receive[y].nonce /\ send'[x].nonce = send[x].nonce
     /\ place[x] # "start" => place'[x] # "start"
     /\ place[x] \in {"start", "closed"} => place'[x] \in {"start", "closed"}

(* Such a step, when the side has not refused. *)
LEMMA StaysOrderly ==
  ASSUME NEW x, NEW y, Orderly(x, y), peer' = peer, harmed[y] => harmed'[y],
         refused'[y] = refused[y], Untouched(x, y)
  PROVE  Orderly(x, y)'
<1> SUFFICES ASSUME ~harmed'[y], peer["client"] = peer["server"]
             PROVE  ~refused'[y] /\ (place'[y] # "closed" => Coming(x, y)')
  BY DEF Orderly
<1>1. ~refused[y] /\ (place[y] # "closed" => Coming(x, y))
  BY DEF Orderly
<1>2. ASSUME place'[y] # "closed" PROVE Coming(x, y)'
  <2>1. /\ place[y] # "closed" /\ (place'[y] = "open" <=> place[y] = "open")
        /\ net'[y] = net[y]
        /\ receive'[y].nonce = receive[y].nonce /\ send'[x].nonce = send[x].nonce
        /\ place[x] # "start" => place'[x] # "start"
        /\ place[x] \in {"start", "closed"} => place'[x] \in {"start", "closed"}
    BY <1>2 DEF Untouched
  <2>2. Coming(x, y)
    BY <1>1, <2>1
  <2> QED  BY <2>1, <2>2 DEF Coming
<1> QED  BY <1>1, <1>2

(* A step that lets both sides be. *)
LEMMA TidyKept ==
  ASSUME Tidy, peer' = peer, refused' = refused, \A y \in Sides : harmed[y] => harmed'[y],
         \A y \in Sides : harmed'[y] \/ Untouched(Other(y), y)
  PROVE  Tidy'
<1>1. ASSUME NEW y \in Sides PROVE Orderly(Other(y), y)'
  <2> DEFINE x == Other(y)
  <2>1. Orderly(x, y)
    BY DEF Tidy
  <2> HIDE DEF x
  <2>2. CASE harmed'[y] /\ ~Untouched(x, y)
    <3>1. Orderly(x, y)'
      BY <2>2 DEF Orderly
    <3> QED  BY <3>1 DEF x
  <2>3. CASE Untouched(x, y)
    <3>1. Orderly(x, y)'
      BY <2>1, <2>3, StaysOrderly
    <3> QED  BY <3>1 DEF x
  <2> QED  BY <2>2, <2>3 DEF x
<1>2. DOMAIN refused' = Sides
  BY DEF Tidy
<1> QED  BY <1>1, <1>2 DEF Tidy

(* One direction changes, and the other does not. *)
LEMMA TidyOneWay ==
  ASSUME Tidy, NEW y \in Sides, NEW x, x = Other(y), peer' = peer, refused' = refused,
         Orderly(x, y)', harmed[x] => harmed'[x], Untouched(y, x)
  PROVE  Tidy'
<1>1. x \in Sides /\ y = Other(x) /\ \A z \in Sides : z = x \/ z = y
  BY Others
<1>2. Orderly(y, x)
  BY <1>1 DEF Tidy
<1>3. Orderly(y, x)'
  BY <1>2, StaysOrderly
<1>4. ASSUME NEW z \in Sides PROVE Orderly(Other(z), z)'
  BY <1>1, <1>3
<1>5. DOMAIN refused' = Sides
  BY DEF Tidy
<1> QED  BY <1>4, <1>5 DEF Tidy

(* The next record opens. *)
LEMMA RecordOpens ==
  ASSUME NonceInv, KeyInv, DeliveryInv, Tidy, NEW y \in Sides, ~harmed[y],
         peer["client"] = peer["server"], place[y] = "open", net[y] # <<>>
  PROVE  net[y][1].is = "record" /\ Opens(receive[y], <<>>, net[y][1].box)
<1> DEFINE x == Other(y)
           r == receive[y].nonce
           c == send[x].nonce
           s == net[y]
           S == ToSet(net[y])
           p == peer
<1>1. /\ s \in Seq(S) /\ r \in Nat /\ c \in Nat /\ c <= NonceReserved /\ NonceReserved \in Nat
  BY CountersOf
<1>2. InShape(p, y, 0, s, r, c)
  BY DEF Tidy, Orderly, Coming
<1>3. s # <<>>
  OBVIOUS
<1> DEFINE t == Tail(s)
<1> HIDE DEF x, r, c, s, S, t, p
<1>4. t = Tail(s)
  BY DEF t
<1>5. r < c /\ Crisp(p, y, r, s[1])
  BY ONLY <1>1, <1>2, <1>3, <1>4, ShapeTail
<1>6. receive[y].key = StreamKey(p, y)
  <2>1. HasKeys(peer, y)
    BY DEF KeyInv
  <2> QED  BY <2>1 DEF HasKeys, StreamKey, p
<1>7. r # NonceReserved
  BY <1>1, <1>5
<1> QED  BY <1>5, <1>6, <1>7 DEF Crisp, Opens, r, s

(* What has been decrypted is part of a message, or all of it. *)
LEMMA MessageIsGood ==
  ASSUME CodecFaithful, DeliveryInv, NEW y \in Sides, ~harmed[y]
  PROVE  Decoded(y).st # "bad"
<1> DEFINE x == Other(y)
           r == receive[y].nonce
           q == Len(got[y])
<1>0. x \in Sides /\ Other(x) = y /\ x = Other(y)
  BY Others
<1> HIDE DEF x
<1>1. PICK w, l : Direction(x, y, w, l)
  BY <1>0 DEF DeliveryInv
<1>2. CASE plain[y] = <<>>
  BY <1>2 DEF Decoded, Parse
<1>3. CASE plain[y] # <<>>
  <2>1. /\ r \in 1..Len(l) /\ l[r].of = q + 1 /\ q + 1 \in 1..Len(w)
        /\ w[q + 1] \in Bytes /\ l[r].part \in 1..Parts(w[q + 1])
        /\ plain[y] = SubSeq(w[q + 1], 1, Upto(w[q + 1], l[r].part))
    BY <1>0, <1>1, <1>3, PartOrNothing
  <2> DEFINE b == w[q + 1]
             k == l[r].part
             g == gotHello[y]
  <2>2. /\ b = w[q + 1] /\ g = gotHello[y] /\ q = Len(got[y]) /\ b \in Bytes
        /\ k \in 1..Parts(b) /\ plain[y] = SubSeq(b, 1, Upto(b, k)) /\ q + 1 \in 1..Len(w)
        /\ Decoded(y) = Parse(plain[y], y, g)
    BY <2>1 DEF Decoded
  <2> HIDE DEF b, k, g, q
  <2>3. /\ Parse(b, y, g).st = "ok"
        /\ \A n \in 0..(Len(b) - 1) : Parse(SubSeq(b, 1, n), y, g).st = "more"
    <3>1. ~harmed[y]
      OBVIOUS
    <3> QED  BY ONLY CodecFaithful, <1>0, <1>1, <2>2, <3>1, ExpectedWhole
  <2>4. Parts(b) \in Nat /\ Len(b) \in Nat
    BY <2>2, PartsAre DEF Bytes
  <2>5. CASE k = Parts(b)
    <3>1. SubSeq(b, 1, Upto(b, Parts(b))) = b
      BY <2>2, UptoIs
    <3> QED  BY <2>2, <2>3, <2>5, <3>1
  <2>6. CASE k # Parts(b)
    <3>1. Upto(b, k) \in 1..Len(b) /\ (k < Parts(b) => Upto(b, k) < Len(b))
      BY <2>2, UptoIs
    <3>2. Upto(b, k) \in 0..(Len(b) - 1)
      BY <2>2, <2>4, <2>6, <3>1
    <3> QED  BY <2>2, <2>3, <3>2
  <2> QED  BY <2>5, <2>6
<1> QED  BY <1>2, <1>3

(* The handshake does not fail. *)
LEMMA HandshakeGoesWell ==
  ASSUME KeyInv, Tidy, NEW y \in Sides, ~harmed[y], peer["client"] = peer["server"],
         place[y] = (IF y = "client" THEN "answer" ELSE "start"), ThereIsAnswer(y)
  PROVE  ~Answered(y).failed
<1>1. place[y] # "open" /\ place[y] # "closed"
  OBVIOUS
<1>2. net[y] # <<>>
  <2>1. Len(<<>>) = 0
    OBVIOUS
  <2> QED  BY <2>1 DEF ThereIsAnswer
<1>3. InShape(peer, y, 2, net[y], receive[y].nonce, send[Other(y)].nonce)
  BY <1>1, <1>2 DEF Tidy, Orderly, Coming
<1>4. net[y][1] = Preamble(peer[y].version) /\ net[y][2] = FrameTo(peer, y)
  BY <1>3 DEF InShape
<1> QED  BY <1>4, GoodAnswer

(* A side that closes, and refuses only with a reason. *)
LEMMA ClosingIsTidy ==
  ASSUME NonceInv, KeyInv, Tidy, NEW y \in Sides, Closes(y),
         UNCHANGED <<peer, send, receive, harmed>>, DOMAIN refused' = Sides,
         \A z \in Sides : z # y => refused'[z] = refused[z],
         refused'[y] = refused[y] \/ harmed[y] \/ peer["client"] # peer["server"]
  PROVE  Tidy'
<1> DEFINE x == Other(y)
<1>0. x \in Sides /\ x # y /\ Other(x) = y /\ \A z \in Sides : z = x \/ z = y
  BY Others
<1> HIDE DEF x
<1>1. /\ refused'[x] = refused[x]
      /\ place'[y] = "closed" /\ place'[x] = place[x] /\ net'[x] = net[x]
  BY <1>0 DEF Tidy, Closes, NonceInv, KeyInv
<1>2. Orderly(x, y)'
  <2>1. Orderly(x, y)
    BY <1>0 DEF Tidy, x
  <2> QED  BY <1>1, <2>1 DEF Orderly
<1>3. Orderly(y, x)'
  <2>1. Orderly(y, x)
    BY <1>0 DEF Tidy
  <2>2. Untouched(y, x)
    BY <1>1 DEF Untouched
  <2> QED  BY <1>1, <2>1, <2>2, StaysOrderly
<1>4. ASSUME NEW z \in Sides PROVE Orderly(Other(z), z)'
  BY <1>0, <1>2, <1>3 DEF x
<1> QED  BY <1>1, <1>4 DEF Tidy

(* A handshake is written to side y, to which nothing was. *)
LEMMA GreetingIsTidy ==
  ASSUME NonceInv, KeyInv, DeliveryInv, NEW y \in Sides, NEW x, x = Other(y),
         Orderly(x, y), place[x] = "start", place'[x] \in {"answer", "open"},
         NEW n, DOMAIN n = Sides, n[y] = net[y],
         net' = Written(n, x, <<Preamble(peer[x].version), FrameTo(peer, y)>>),
         place'[y] = "open" <=> place[y] = "open", place'[y] = "closed" <=> place[y] = "closed",
         receive'[y].nonce = receive[y].nonce, send'[x].nonce = 0,
         peer' = peer, harmed' = harmed, refused'[y] = refused[y]
  PROVE  Orderly(x, y)'
<1> SUFFICES ASSUME ~harmed[y], peer["client"] = peer["server"]
             PROVE  ~refused[y] /\ (place'[y] # "closed" => Coming(x, y)')
  BY DEF Orderly
<1>1. ~refused[y]
  BY DEF Orderly
<1>2. ASSUME place[y] # "closed" PROVE Coming(x, y)'
  <2>0. x \in Sides /\ y = Other(x) /\ peer[x] = peer[y]
    <3>1. x \in Sides /\ y = Other(x)
      BY Others
    <3> QED  BY <3>1 DEF Sides, Other
  <2>1. Coming(x, y)
    BY <1>2 DEF Orderly
  <2>2. place[y] # "open" /\ net[y] = <<>>
    BY <2>1 DEF Coming
  <2>3. place[y] \in {"start", "answer"}
    BY <1>2, <2>2 DEF NonceInv
  <2>4. receive[y].nonce = 0
    BY <2>3, CountersOf
  <2> DEFINE p == peer
             t == <<Preamble(p[y].version), FrameTo(p, y)>>
  <2>5. net'[y] = t
    <3>1. net' = [n EXCEPT ![y] = n[y] \o t]
      BY <1>2, <2>0 DEF Written
    <3>2. <<>> \o t = t
      OBVIOUS
    <3> QED  BY <2>2, <3>1, <3>2
  <2>6. t = <<Preamble(p[y].version), FrameTo(p, y)>>
    OBVIOUS
  <2> HIDE DEF t, p
  <2>7. InShape(p, y, 2, t, 0, 0)
    BY ONLY <2>6, ShapeStarts
  <2> QED  BY <2>2, <2>4, <2>5, <2>7 DEF Coming, p
<1> QED  BY <1>1, <1>2

(* Initiate. *)
LEMMA InitiateIsTidy ==
  ASSUME NonceInv, KeyInv, DeliveryInv, Tidy, Initiate
  PROVE  Tidy'
<1> DEFINE y == "server"
           x == "client"
<1>0. y \in Sides /\ x \in Sides /\ x = Other(y) /\ y = Other(x) /\ x # y
  BY DEF Sides, Other
<1>1. /\ place[x] = "start" /\ place' = [place EXCEPT ![x] = "answer"]
      /\ net' = Written(net, x, <<Preamble(peer[x].version), Frame(HandshakeMessage(hs[x], x))>>)
      /\ UNCHANGED <<send, receive, refused, peer, harmed>>
  BY DEF Initiate, Ephemeral, Unread
<1>2. Frame(HandshakeMessage(hs[x], x)) = FrameTo(peer, y)
  BY <1>0, <1>1 DEF KeyInv, FrameTo, FirstFrame
<1>3. send[x].nonce = 0 /\ DOMAIN net = Sides
  BY <1>0, <1>1, CountersOf
<1>4. place'[x] = "answer" /\ place'[y] = place[y]
  BY <1>0, <1>1 DEF NonceInv
<1>5. Orderly(x, y)
  BY <1>0 DEF Tidy
<1>6. net' = Written(net, x, <<Preamble(peer[x].version), FrameTo(peer, y)>>)
  BY <1>1, <1>2
<1>7. net'[x] = net[x]
  BY <1>0, <1>3, <1>6 DEF Written
<1> HIDE DEF x, y
<1>8. Orderly(x, y)'
  <2> DEFINE n == net
  <2>1. /\ NonceInv /\ KeyInv /\ DeliveryInv /\ y \in Sides /\ x = Other(y) /\ Orderly(x, y)
        /\ place[x] = "start" /\ place'[x] \in {"answer", "open"}
        /\ DOMAIN n = Sides /\ n[y] = net[y]
        /\ net' = Written(n, x, <<Preamble(peer[x].version), FrameTo(peer, y)>>)
        /\ (place'[y] = "open" <=> place[y] = "open")
        /\ (place'[y] = "closed" <=> place[y] = "closed")
        /\ receive'[y].nonce = receive[y].nonce /\ send'[x].nonce = 0
        /\ peer' = peer /\ harmed' = harmed /\ refused'[y] = refused[y]
    BY <1>0, <1>1, <1>3, <1>4, <1>5, <1>6
  <2> QED  BY ONLY <2>1, GreetingIsTidy
<1>9. Untouched(y, x)
  BY <1>1, <1>4, <1>7 DEF Untouched
<1> QED  BY <1>0, <1>1, <1>8, <1>9, TidyOneWay

(* Side y reads the handshake on its way to it and opens. *)
LEMMA OpeningIsTidy ==
  ASSUME NonceInv, KeyInv, DeliveryInv, NEW y \in Sides, NEW x, x = Other(y),
         Orderly(x, y), place[y] \in {"start", "answer"}, Len(net[y]) >= 2,
         place'[y] = "open", place'[x] = place[x],
         net'[y] = SubSeq(net[y], 3, Len(net[y])),
         receive'[y].nonce = receive[y].nonce, send'[x].nonce = send[x].nonce,
         peer' = peer, harmed' = harmed, refused'[y] = refused[y]
  PROVE  Orderly(x, y)'
<1> SUFFICES ASSUME ~harmed[y], peer["client"] = peer["server"]
             PROVE  ~refused[y] /\ Coming(x, y)'
  BY DEF Orderly
<1>1. ~refused[y] /\ Coming(x, y)
  BY DEF Orderly
<1> DEFINE p == peer
           r == receive[y].nonce
           c == send[x].nonce
           s == net[y]
           S == ToSet(net[y])
           t == SubSeq(s, 3, Len(s))
<1>2. s \in Seq(S) /\ r \in Nat /\ c \in Nat /\ r <= c
  BY CountersOf
<1>3. s # <<>>
  <2>1. Len(<<>>) = 0
    OBVIOUS
  <2> QED  BY <2>1
<1>4. InShape(p, y, 2, s, r, c) /\ place[x] # "start"
  BY <1>1, <1>3 DEF Coming
<1>5. t = SubSeq(s, 3, Len(s)) /\ net'[y] = t
  OBVIOUS
<1> HIDE DEF p, r, c, s, S, t
<1>6. InShape(p, y, 0, t, r, c)
  BY ONLY <1>2, <1>4, <1>5, ShapeRest
<1> QED  BY <1>1, <1>4, <1>5, <1>6 DEF Coming, p, r, c

(* Complete. *)
LEMMA CompleteIsTidy ==
  ASSUME NonceInv, KeyInv, DeliveryInv, Tidy, Complete
  PROVE  Tidy'
<1> DEFINE y == "client"
           x == "server"
           read == Answered(y)
<1>0. y \in Sides /\ x \in Sides /\ x = Other(y) /\ y = Other(x) /\ x # y
  BY DEF Sides, Other
<1>1. /\ place[y] = "answer" /\ ThereIsAnswer(y) /\ ~read.failed /\ Opened(y, read)
      /\ net' = [net EXCEPT ![y] = SubSeq(net[y], 3, Len(net[y]))]
      /\ UNCHANGED <<refused, peer, harmed>>
  BY DEF Complete, CanSplit, Unread
<1>2. Len(net[y]) >= 2
  <2> DEFINE g == WriteMessage(Fresh(peer, "client"), "client")
  <2>1. hs[y] = g
    BY <1>1 DEF KeyInv
  <2>2. [g EXCEPT !.failed = TRUE].failed
    BY InitiatorWrites, FailingFails
  <2> HIDE DEF g
  <2> QED  BY <1>0, <1>1, <2>1, <2>2, AnsweredReads
<1>3. \A z \in Sides : NoReopening(z)
  BY <1>0, <1>1, OpenedCounters
<1>4. /\ place'[y] = "open" /\ place'[x] = place[x]
      /\ net'[y] = SubSeq(net[y], 3, Len(net[y])) /\ net'[x] = net[x]
  BY <1>0, <1>1 DEF Opened, NonceInv, KeyInv
<1>5. Orderly(x, y)
  BY <1>0 DEF Tidy
<1> HIDE DEF x, y, read
<1>6. /\ receive'[y].nonce = receive[y].nonce /\ send'[x].nonce = send[x].nonce
      /\ receive'[x].nonce = receive[x].nonce /\ send'[y].nonce = send[y].nonce
  BY <1>0, <1>3 DEF NoReopening
<1>7. Orderly(x, y)'
  <2>1. place[y] \in {"start", "answer"} /\ refused'[y] = refused[y] /\ harmed' = harmed
        /\ peer' = peer
    BY <1>1
  <2>2. NonceInv /\ KeyInv /\ DeliveryInv
    OBVIOUS
  <2> QED  BY ONLY <1>0, <1>2, <1>4, <1>5, <1>6, <2>1, <2>2, OpeningIsTidy
<1>8. Untouched(y, x)
  <2>1. place[y] = "answer"
    BY <1>1
  <2>2. CASE place[x] = "closed"
    BY <1>4, <2>2 DEF Untouched
  <2>3. CASE place[x] # "closed"
    BY <1>4, <1>6, <2>1, <2>3 DEF Untouched
  <2> QED  BY <2>2, <2>3
<1> QED  BY <1>0, <1>1, <1>7, <1>8, TidyOneWay

(* Respond. *)
LEMMA RespondIsTidy ==
  ASSUME NonceInv, KeyInv, DeliveryInv, Tidy, Respond
  PROVE  Tidy'
<1> DEFINE y == "server"
           x == "client"
           read == Answered(y)
           t == SubSeq(net[y], 3, Len(net[y]))
           n == [net EXCEPT ![y] = t]
           frame == Frame(HandshakeMessage(read, y))
           items == <<Preamble(peer[y].version), frame>>
<1>0. y \in Sides /\ x \in Sides /\ x = Other(y) /\ y = Other(x) /\ x # y
      /\ \A z \in Sides : z = x \/ z = y
  BY DEF Sides, Other
<1>1. /\ place[y] = "start" /\ ThereIsAnswer(y) /\ ~read.failed
      /\ Opened(y, WriteMessage(read, y)) /\ net' = Written(n, y, items)
      /\ UNCHANGED <<refused, peer, harmed>>
  BY DEF Respond, Ephemeral, TurnToWrite, Unread
<1>2. Len(net[y]) >= 2 /\ frame = FrameTo(peer, x)
  <2> DEFINE g == Fresh(peer, "server")
             m == net[y][2]
             p == peer
  <2>1. hs[y] = g
    BY <1>0, <1>1 DEF KeyInv
  <2>2. [g EXCEPT !.failed = TRUE].failed
    BY FreshIs, FailingFails
  <2> HIDE DEF g
  <2>3. /\ Len(net[y]) >= 2 /\ m.is = "frame" /\ Carried(p, "server", m)
        /\ read = ReadMessage(g, m) /\ ~read.failed
    BY <1>0, <1>1, <2>1, <2>2, AnsweredReads
  <2>4. \A z \in Sides : p[z] = [psk |-> p[z].psk, version |-> p[z].version]
    BY PeeringsAssumption DEF KeyInv
  <2>5. read = ReadMessage(Fresh(p, "server"), m)
    BY <2>3 DEF g
  <2> HIDE DEF m, p, read
  <2>6. m = FirstFrame(p)
    BY ONLY <2>3, <2>4, <2>5, ResponderAnswers
  <2> QED  BY <2>3, <2>5, <2>6 DEF FrameTo, SecondFrame, p
<1>3. \A z \in Sides : NoReopening(z)
  BY <1>0, <1>1, OpenedCounters
<1>4. /\ place'[y] = "open" /\ place'[x] = place[x]
  BY <1>0, <1>1 DEF Opened, NonceInv
<1>5. Orderly(x, y) /\ Orderly(y, x)
  BY <1>0 DEF Tidy
<1>6. DOMAIN n = Sides /\ n[x] = net[x] /\ n[y] = t
  BY <1>0 DEF KeyInv
<1>7. items = <<Preamble(peer[y].version), FrameTo(peer, x)>>
  BY <1>2
<1> HIDE DEF x, y, read, n, items, frame
<1>8. net'[y] = t
  BY <1>0, <1>1, <1>6 DEF Written
<1>9. /\ receive'[y].nonce = receive[y].nonce /\ send'[x].nonce = send[x].nonce
      /\ receive'[x].nonce = receive[x].nonce /\ send'[y].nonce = send[y].nonce
  BY <1>0, <1>3 DEF NoReopening
<1>10. send[y].nonce = 0
  BY <1>0, <1>1, CountersOf
<1>11. NonceInv /\ KeyInv /\ DeliveryInv /\ peer' = peer /\ harmed' = harmed
       /\ refused'[x] = refused[x] /\ refused'[y] = refused[y]
  BY <1>1
<1>12. Orderly(x, y)'
  <2>1. place[y] \in {"start", "answer"} /\ Len(net[y]) >= 2
    BY <1>1, <1>2
  <2>2. net'[y] = SubSeq(net[y], 3, Len(net[y]))
    BY <1>8
  <2> QED  BY ONLY <1>0, <1>4, <1>5, <1>9, <1>11, <2>1, <2>2, OpeningIsTidy
<1>13. Orderly(y, x)'
  <2>1. /\ place[y] = "start" /\ place'[y] \in {"answer", "open"}
        /\ send'[y].nonce = 0
        /\ net' = Written(n, y, <<Preamble(peer[y].version), FrameTo(peer, x)>>)
        /\ (place'[x] = "open" <=> place[x] = "open")
        /\ (place'[x] = "closed" <=> place[x] = "closed")
    BY <1>1, <1>4, <1>7, <1>9, <1>10
  <2> QED  BY ONLY <1>0, <1>5, <1>6, <1>9, <1>11, <2>1, GreetingIsTidy
<1>14. ASSUME NEW z \in Sides PROVE Orderly(Other(z), z)'
  <2>1. CASE z = x
    BY <1>0, <1>13, <2>1
  <2>2. CASE z = y
    BY <1>0, <1>12, <2>2
  <2> QED  BY <1>0, <2>1, <2>2
<1>15. DOMAIN refused' = Sides
  BY <1>1 DEF Tidy
<1> QED  BY <1>14, <1>15 DEF Tidy

(* ReadRecord. *)
LEMMA ReadIsTidy ==
  ASSUME NonceInv, KeyInv, DeliveryInv, Tidy, NEW y \in Sides, ReadRecord(y)
  PROVE  Tidy'
<1> DEFINE x == Other(y)
           p == peer
           r == receive[y].nonce
           c == send[x].nonce
           s == net[y]
           S == ToSet(net[y])
           t == Tail(s)
<1>0. /\ x = Other(y) /\ x \in Sides /\ x # y /\ y = Other(x)
      /\ s \in Seq(S) /\ r \in Nat /\ c \in Nat /\ r <= c /\ c <= NonceReserved
      /\ NonceReserved \in Nat /\ DOMAIN net = Sides
  BY CountersOf
<1>1. /\ place[y] = "open" /\ s # <<>> /\ net' = [net EXCEPT ![y] = t]
      /\ receive' = [receive EXCEPT ![y] = Advanced(receive[y], 1)]
      /\ UNCHANGED <<peer, place, send, refused, harmed>>
  BY DEF ReadRecord
<1>2. net'[y] = t /\ net'[x] = net[x] /\ receive'[x] = receive[x] /\ t = Tail(s)
      /\ receive'[y] = Advanced(receive[y], 1)
  BY <1>0, <1>1 DEF KeyInv
<1> HIDE DEF x, p, r, c, s, S, t
<1>3. Orderly(x, y)'
  <2> SUFFICES ASSUME ~harmed[y], peer["client"] = peer["server"]
               PROVE  ~refused[y] /\ Coming(x, y)'
    BY <1>1 DEF Orderly
  <2>1. ~refused[y] /\ Coming(x, y)
    BY <1>1 DEF Tidy, Orderly, x
  <2>2. InShape(p, y, 0, s, r, c) /\ place[x] # "start"
    BY <1>1, <2>1 DEF Coming, p, r, c, s
  <2>3. r < c /\ InShape(p, y, 0, t, r + 1, c)
    BY ONLY <1>0, <1>1, <1>2, <2>2, ShapeTail
  <2>4. receive'[y].nonce = r + 1
    <3> DEFINE d == receive[y]
    <3>1. d = [key |-> d.key, nonce |-> d.nonce] /\ d.nonce = r
      BY DEF KeyInv, r
    <3>2. IsCipherState(d) /\ d.nonce + 1 <= NonceReserved
      BY <1>0, <2>3, <3>1 DEF IsCipherState
    <3> HIDE DEF d
    <3>3. Advanced(d, 1) = [key |-> d.key, nonce |-> d.nonce + 1]
      BY <3>2, NoWrap
    <3> QED  BY <1>2, <3>1, <3>3 DEF d
  <2> QED  BY <1>1, <1>2, <2>1, <2>2, <2>3, <2>4 DEF Coming, p, c
<1>4. Untouched(y, x)
  <2>1. CASE place[x] = "closed"
    BY <1>1, <2>1 DEF Untouched
  <2>2. CASE place[x] # "closed"
    BY <1>1, <1>2, <2>2 DEF Untouched
  <2> QED  BY <2>1, <2>2
<1> QED  BY <1>0, <1>1, <1>3, <1>4, TidyOneWay

(* Say. *)
LEMMA SayIsTidy ==
  ASSUME CodecFaithful, NonceInv, KeyInv, DeliveryInv, Tidy, NEW x \in Sides,
         NEW src \in Says[x], Say(x, src)
  PROVE  Tidy'
<1> DEFINE y == Other(x)
           m == MessageOf(src)
           b == Encode(m)
           n == Len(Chunks(b))
           p == peer
           r == receive[y].nonce
           c == send[x].nonce
           s == net[y]
<1>0. y \in Sides /\ x = Other(y) /\ y = Other(x) /\ x # y
  BY Others
<1>1. /\ place[x] = "open" /\ helloOrder(x, m) /\ Encodable(m)
      /\ CanSend(x, Chunks(b)) = n /\ WritesRecords(x, b, n, n, <<>>)
      /\ UNCHANGED <<peer, place, receive, refused, harmed>>
  BY DEF Say
<1>2. b \in Bytes
  BY <1>1, EncodingAssumption
<1>3. n = Parts(b) /\ n \in Nat
  BY <1>2, PartsAre DEF Parts
<1> HIDE DEF m, b, n
<1>4. /\ c \in Nat /\ c + n <= NonceReserved /\ send'[x].nonce = c + n
      /\ send'[y] = send[y] /\ net'[x] = net[x]
  <2> DEFINE tail == <<>>
  <2>1. /\ NonceInv /\ KeyInv /\ x \in Sides /\ y = Other(x) /\ b \in Bytes /\ n \in Nat
        /\ n <= CanSend(x, Chunks(b)) /\ n \in 0..n /\ tail \in {<<>>, <<CutShort>>}
        /\ WritesRecords(x, b, n, n, tail)
    BY <1>0, <1>1, <1>2, <1>3
  <2> HIDE DEF tail, y
  <2>2. /\ send[x].nonce \in Nat /\ send[x].nonce + n <= NonceReserved
        /\ send'[x].nonce = send[x].nonce + n
        /\ send'[y] = send[y] /\ net'[x] = net[x]
    BY ONLY <2>1, WritesAre
  <2> QED  BY <2>2
<1> HIDE DEF y
<1>5. Orderly(x, y)'
  <2> SUFFICES ASSUME ~harmed[y], peer["client"] = peer["server"]
               PROVE  ~refused[y] /\ (place[y] # "closed" => Coming(x, y)')
    BY <1>1 DEF Orderly
  <2>1. Orderly(x, y)
    BY <1>0 DEF Tidy
  <2>2. ASSUME place[y] # "closed" PROVE Coming(x, y)'
    <3>1. Coming(x, y)
      BY <2>1, <2>2 DEF Orderly
    <3>2. PICK h \in {0, 2} : /\ InShape(p, y, h, s, r, c)
                              /\ h = 0 <=> place[y] = "open"
      BY <1>1, <3>1 DEF Coming
    <3> DEFINE f == [i \in 1..n |-> Sealed(x, Chunks(b), i)]
               items == f \o <<>>
               S == ToSet(net[y]) \cup {Sealed(x, Chunks(b), i) : i \in 1..n}
               t == s \o items
    <3>3. net'[y] = t
      <4>1. net' = Written(net, x, items) /\ DOMAIN net = Sides
        BY <1>1 DEF WritesRecords, KeyInv
      <4> QED  BY <1>0, <2>2, <4>1 DEF Written
    <3>4. s \in Seq(S) /\ r \in Nat /\ r <= c
      <4>1. s \in Seq(ToSet(net[y])) /\ r \in Nat /\ r <= c
        BY <1>0, CountersOf
      <4> QED  BY <4>1
    <3>5. f = [i \in 1..n |-> f[i]] /\ \A i \in 1..n : f[i] \in S
      OBVIOUS
    <3>6. \A i \in 1..n : f[i] = Sealed(x, Chunks(b), i)
      OBVIOUS
    <3> HIDE DEF S, f
    <3>7. f \in Seq(S) /\ Len(f) = n /\ <<>> \in Seq(S)
      BY <1>3, <3>5
    <3>8. items = f \o <<>> /\ t = s \o items
      OBVIOUS
    <3> HIDE DEF items, t
    <3>9. items \in Seq(S) /\ Len(items) = n /\ \A i \in 1..n : items[i] = f[i]
      <4> DEFINE e == <<>>
      <4>1. f \in Seq(S) /\ e \in Seq(S) /\ items = f \o e /\ Len(e) = 0
        BY <3>7, <3>8
      <4> HIDE DEF e
      <4>2. /\ items \in Seq(S) /\ Len(items) = Len(f) + Len(e)
            /\ \A k \in 1..Len(f) : items[k] = f[k]
        BY ONLY <4>1, Joined
      <4> QED  BY <1>3, <3>7, <4>1, <4>2
    <3>10. send[x].key = StreamKey(p, y)
      <4>1. HasKeys(peer, x)
        BY <1>1 DEF KeyInv
      <4>2. peer[x].psk = peer[y].psk /\ (x = "client" <=> y # "client")
        BY <1>0 DEF Sides, Other
      <4> QED  BY <4>1, <4>2 DEF HasKeys, StreamKey
    <3>11. ASSUME NEW i \in 1..Len(items) PROVE Crisp(p, y, c + (i - 1), items[i])
      <4>1. i \in 1..n
        BY <3>9
      <4> DEFINE box == [key |-> send[x].key, nonce |-> send[x].nonce + (i - 1), ad |-> <<>>,
                         text |-> Chunks(b)[i], intact |-> TRUE]
      <4>2. items[i] = Record(box)
        BY <1>3, <1>4, <3>6, <3>9, <4>1, SealedAre
      <4>3. Record(box).is = "record" /\ Record(box).box = box
        <5> HIDE DEF box
        <5> QED  BY DEF Record
      <4>4. box.intact /\ box.key = send[x].key /\ box.nonce = c + (i - 1) /\ box.ad = <<>>
        OBVIOUS
      <4> HIDE DEF box
      <4> QED  BY <3>10, <4>2, <4>3, <4>4 DEF Crisp
    <3> DEFINE d == c + n
    <3>12. d = c + Len(items)
      BY <3>9
    <3>13. c \in Nat
      BY <1>4
    <3> HIDE DEF d, s, r, c, p
    <3>14. InShape(p, y, h, t, r, d)
      <4>1. InShape(p, y, h, s, r, c)
        BY <3>2
      <4> QED  BY ONLY <3>4, <3>8, <3>9, <3>11, <3>12, <3>13, <4>1, ShapeLonger
    <3>15. /\ peer' = p /\ place'[y] = place[y] /\ place'[x] # "start" /\ net'[y] = t
           /\ receive'[y].nonce = r /\ send'[x].nonce = d
      BY <1>1, <1>4, <3>3 DEF p, r, c, d
    <3>16. h = 0 \/ h = 2
      OBVIOUS
    <3> QED  BY <3>2, <3>14, <3>15, <3>16 DEF Coming
  <2> QED  BY <2>1, <2>2 DEF Orderly
<1>6. Untouched(y, x)
  BY <1>1, <1>4 DEF Untouched
<1> QED  BY <1>0, <1>1, <1>5, <1>6, TidyOneWay

(* A write harms the other side, and nothing of what is on its way to the writer. *)
LEMMA HarmingIsTidy ==
  ASSUME NonceInv, KeyInv, DeliveryInv, Tidy, NEW x \in Sides, NEW y, y = Other(x),
         NEW b, NEW n, NEW s, NEW tail, WritesRecords(x, b, n, s, tail),
         UNCHANGED <<peer, receive, refused>>, harmed' = [harmed EXCEPT ![y] = TRUE],
         place[x] = "open", place'[x] \in {"open", "closed"}, place'[y] = place[y]
  PROVE  Tidy'
<1>0. y \in Sides /\ x # y /\ x = Other(y) /\ \A z \in Sides : z = x \/ z = y
  BY Others
<1>1. \A z \in Sides : harmed[z] => harmed'[z]
  BY DEF DeliveryInv
<1>2. harmed'[y]
  BY <1>0 DEF DeliveryInv
<1>3. net'[x] = net[x]
  BY <1>0 DEF WritesRecords, Written, KeyInv
<1>4. send'[y] = send[y]
  BY <1>0 DEF WritesRecords, NonceInv
<1>5. Untouched(y, x)
  BY <1>3, <1>4 DEF Untouched
<1>6. \A z \in Sides : harmed'[z] \/ Untouched(Other(z), z)
  BY <1>0, <1>2, <1>5
<1> QED  BY <1>1, <1>6, TidyKept

(* SayInPart. *)
LEMMA SayInPartIsTidy ==
  ASSUME NonceInv, KeyInv, DeliveryInv, Tidy, NEW x \in Sides, NEW src, SayInPart(x, src)
  PROVE  Tidy'
<1> DEFINE y == Other(x)
           b == Encode(MessageOf(src))
<1>0. y = Other(x) /\ x # y /\ y \in Sides
  BY Others
<1>1. /\ place[x] = "open"
      /\ \E q : place' = [place EXCEPT ![x] = q] /\ q \in {"open", "closed"}
      /\ harmed' = [harmed EXCEPT ![y] = TRUE]
      /\ UNCHANGED <<peer, receive, refused>>
  BY DEF SayInPart
<1>2. place'[x] \in {"open", "closed"} /\ place'[y] = place[y]
  BY <1>0, <1>1 DEF NonceInv
<1>3. \E n, s, tail : WritesRecords(x, b, n, s, tail)
  BY DEF SayInPart
<1> HIDE DEF y, b
<1>4. PICK n, s, tail : WritesRecords(x, b, n, s, tail)
  BY <1>3
<1> QED  BY <1>0, <1>1, <1>2, <1>4, HarmingIsTidy

(* SayStray. *)
LEMMA SayStrayIsTidy ==
  ASSUME NonceInv, KeyInv, DeliveryInv, Tidy, NEW b, SayStray(b)
  PROVE  Tidy'
<1> DEFINE x == "server"
           y == Other(x)
           n == Len(Chunks(b))
           tail == <<>>
<1>0. x \in Sides /\ y = Other(x) /\ y \in Sides
  BY DEF Sides, Other
<1>1. /\ place[x] = "open" /\ WritesRecords(x, b, n, n, tail)
      /\ harmed' = [harmed EXCEPT ![y] = TRUE]
      /\ UNCHANGED <<peer, place, receive, refused>>
  BY DEF SayStray
<1> HIDE DEF x, y, n, tail
<1> QED  BY <1>0, <1>1, HarmingIsTidy

(* Disturb. *)
LEMMA DisturbIsTidy ==
  ASSUME NonceInv, KeyInv, DeliveryInv, Tidy, NEW y \in Sides, Disturb(y)
  PROVE  Tidy'
<1> DEFINE x == Other(y)
<1>0. x \in Sides /\ x # y /\ y = Other(x) /\ \A z \in Sides : z = x \/ z = y
  BY Others
<1>1. /\ \E s : net' = [net EXCEPT ![y] = s]
      /\ harmed' = [harmed EXCEPT ![y] = TRUE]
      /\ UNCHANGED <<peer, place, send, receive, refused>>
  BY DEF Disturb
<1>2. (\A z \in Sides : harmed[z] => harmed'[z]) /\ harmed'[y]
  BY <1>1 DEF DeliveryInv
<1>3. net'[x] = net[x]
  BY <1>0, <1>1 DEF KeyInv
<1> HIDE DEF x
<1>4. Untouched(y, x)
  BY <1>1, <1>3 DEF Untouched
<1>5. \A z \in Sides : harmed'[z] \/ Untouched(Other(z), z)
  BY <1>0, <1>2, <1>4
<1> QED  BY <1>1, <1>2, <1>5, TidyKept

(* A step that is none. *)
LEMMA IdleIsTidy ==
  ASSUME Tidy, UNCHANGED <<peer, place, send, receive, net, refused, harmed>>
  PROVE  Tidy'
<1>1. \A z \in Sides : Untouched(Other(z), z)
  BY DEF Untouched
<1> QED  BY <1>1, TidyKept

(* A side that closes without a word. *)
LEMMA LeavingIsTidy ==
  ASSUME NonceInv, KeyInv, Tidy, NEW y \in Sides, EndOfStream(y) \/ Close(y)
  PROVE  Tidy'
<1>1. Closes(y) /\ UNCHANGED <<peer, send, receive, harmed, refused>>
  BY DEF EndOfStream, Close, Unread
<1>2. DOMAIN refused' = Sides
  BY <1>1 DEF Tidy
<1> QED  BY <1>1, <1>2, ClosingIsTidy

(* A side that refuses has a reason to. *)
LEMMA RefusingIsTidy ==
  ASSUME CodecFaithful, NonceInv, KeyInv, DeliveryInv, Tidy, NEW y \in Sides,
         HandshakeFails(y) \/ RefuseRecord(y) \/ RefuseMessage(y)
  PROVE  Tidy'
<1>1. /\ Closes(y) /\ refused' = [refused EXCEPT ![y] = TRUE]
      /\ UNCHANGED <<peer, send, receive, harmed>>
  BY DEF HandshakeFails, RefuseRecord, RefuseMessage, Refuses, Unread
<1>2. DOMAIN refused' = Sides /\ \A z \in Sides : z # y => refused'[z] = refused[z]
  BY <1>1 DEF Tidy
<1>3. harmed[y] \/ peer["client"] # peer["server"]
  <2> SUFFICES ASSUME ~harmed[y], peer["client"] = peer["server"] PROVE FALSE
    OBVIOUS
  <2>1. CASE HandshakeFails(y)
    <3>1. /\ place[y] = (IF y = "client" THEN "answer" ELSE "start") /\ ThereIsAnswer(y)
          /\ Answered(y).failed
      BY <2>1 DEF HandshakeFails
    <3> QED  BY <3>1, HandshakeGoesWell
  <2>2. CASE RefuseRecord(y)
    <3>1. /\ place[y] = "open" /\ net[y] # <<>>
          /\ net[y][1].is = "record" => ~Opens(receive[y], <<>>, net[y][1].box)
      BY <2>2 DEF RefuseRecord
    <3> QED  BY <3>1, RecordOpens
  <2>3. CASE RefuseMessage(y)
    BY <2>3, MessageIsGood DEF RefuseMessage
  <2> QED  BY <2>1, <2>2, <2>3
<1> QED  BY <1>1, <1>2, <1>3, ClosingIsTidy

(* Every step keeps it. *)
LEMMA TidyNext ==
  ASSUME CodecFaithful, NonceInv, KeyInv, DeliveryInv, Tidy, [Next]_vars
  PROVE  Tidy'
<1>1. CASE Initiate
  BY <1>1, InitiateIsTidy
<1>2. CASE Respond
  BY <1>2, RespondIsTidy
<1>3. CASE Complete
  BY <1>3, CompleteIsTidy
<1>4. ASSUME NEW x \in Sides, HandshakeFails(x) \/ RefuseRecord(x) \/ RefuseMessage(x)
      PROVE  Tidy'
  BY <1>4, RefusingIsTidy
<1>5. ASSUME NEW x \in Sides, EndOfStream(x) \/ Close(x) PROVE Tidy'
  BY <1>5, LeavingIsTidy
<1>6. ASSUME NEW x \in Sides, ReadRecord(x) PROVE Tidy'
  BY <1>6, ReadIsTidy
<1>7. ASSUME NEW x \in Sides, NextMessage(x) PROVE Tidy'
  <2>1. UNCHANGED <<peer, place, send, receive, net, refused, harmed>>
    BY <1>7 DEF NextMessage
  <2> QED  BY <2>1, IdleIsTidy
<1>8. ASSUME NEW x \in Sides, Disturb(x) PROVE Tidy'
  BY <1>8, DisturbIsTidy
<1>9. ASSUME NEW x \in Sides, NEW src \in Says[x], Say(x, src) PROVE Tidy'
  BY <1>9, SayIsTidy
<1>10. ASSUME NEW x \in Sides, NEW src \in Says[x], SayInPart(x, src) PROVE Tidy'
  BY <1>10, SayInPartIsTidy
<1>11. ASSUME NEW bytes \in Strays, SayStray(bytes) PROVE Tidy'
  BY <1>11, SayStrayIsTidy
<1>12. CASE Over \/ UNCHANGED vars
  <2>1. UNCHANGED <<peer, place, send, receive, net, refused, harmed>>
    BY <1>12 DEF Over, vars
  <2> QED  BY <2>1, IdleIsTidy
<1> QED  BY <1>1, <1>2, <1>3, <1>4, <1>5, <1>6, <1>7, <1>8, <1>9, <1>10, <1>11, <1>12 DEF Next

(* Nothing has been written or refused. *)
LEMMA TidyInit == Init => Tidy
<1> SUFFICES ASSUME Init PROVE Tidy
  OBVIOUS
<1>1. \A z \in Sides : /\ place[z] = "start" /\ net[z] = <<>> /\ refused[z] = FALSE
                       /\ Other(z) \in Sides
  BY Others DEF Init
<1>2. ASSUME NEW y \in Sides PROVE Orderly(Other(y), y)
  BY <1>1 DEF Orderly, Coming
<1>3. DOMAIN refused = Sides
  BY DEF Init
<1> QED  BY <1>2, <1>3 DEF Tidy

(***************************************************************************)
(* A side refuses only when something went wrong on the way to it, or the  *)
(* two disagree on the secret or the version: as long as the codec is      *)
(* faithful message by message, no order of handshakes, messages, records  *)
(* cut anywhere, exhausted counters and closing sides makes one peer's     *)
(* encoder and record layer write what the other's refuse (record.go,      *)
(* Handshake and RecordReader.next; decode.go, Next).                      *)
(***************************************************************************)
THEOREM RefusalHasAReason == CodecFaithful => (Spec => []RefusedOnlyIfHarmed)
<1> SUFFICES ASSUME CodecFaithful PROVE Spec => []RefusedOnlyIfHarmed
  OBVIOUS
<1>1. Init => NonceInv /\ KeyInv /\ DeliveryInv /\ Tidy
  BY NonceInvInit, KeyInvInit, DeliveryInvInit, TidyInit
<1>2. NonceInv /\ KeyInv /\ DeliveryInv /\ Tidy /\ [Next]_vars
        => NonceInv' /\ KeyInv' /\ DeliveryInv' /\ Tidy'
  BY NonceInvNext, KeyInvNext, DeliveryInvNext, TidyNext
<1>3. Tidy => RefusedOnlyIfHarmed
  <2> SUFFICES ASSUME Tidy, NEW x \in Sides, refused[x], ~harmed[x]
               PROVE  peer[x] # peer[Other(x)]
    BY DEF RefusedOnlyIfHarmed
  <2>1. peer["client"] # peer["server"]
    BY DEF Tidy, Orderly
  <2> QED  BY <2>1 DEF Sides, Other
<1> QED  BY <1>1, <1>2, <1>3, PTL DEF Spec
=============================================================================
