--------------------------- MODULE SessionProofs ----------------------------
(***************************************************************************)
(* Proofs about Session: what happens in time, and what is left behind.    *)
(***************************************************************************)
EXTENDS Session, FiniteSetTheorems, TLAPS

(* PROTOCOL.md:122, of the HELLO: no service is announced twice. *)
AnnouncedOnce == \A i, k \in 1..Len(Announced) : Announced[i] = Announced[k] => i = k

-----------------------------------------------------------------------------
(* The inductive invariants. *)

Item == [kind : Kinds, age : 0..MaxDelay]

Typed ==
  /\ place \in [Sides -> Places] /\ place["client"] \in {"handshake", "run", "over"}
  /\ quiet \in [Sides -> 0..IdleTimeout]
  /\ stream \in [Sides -> Seq(Item)]
  /\ pongs \in [Sides -> BOOLEAN]
  /\ sincePing \in 0..PingEvery
  /\ ended \subseteq {"ping"} \cup Sides
  /\ cut \in BOOLEAN
  /\ silence \in Nat
  /\ timedOut \subseteq Sides
  /\ now \in Nat

(* The providers join in order, after HELLO and before the read loop runs. *)
Joined ==
  /\ entries \subseteq 1..Len(Announced)
  /\ place["server"] \in {"handshake", "hello"} => entries = {}
  /\ place["server"] = "register" => \E k \in 0..Len(Announced) : entries = 1..k

(* A side that reads has been without a word at least as long as the network is cut;
   nobody waits in a place that has no deadline. *)
Counted ==
  /\ ~cut => silence = 0
  /\ \A x \in Sides : cut /\ place[x] \in Reading => quiet[x] >= silence
  /\ place["server"] = "register" => silence = 0
  /\ place["server"] = "remove" => silence <= IdleTimeout

(* A message of kind k that is at least q old is on its way. *)
Carries(s, k, q) == \E i \in 1..Len(s) : s[i].kind = k /\ q <= s[i].age

(* Both sides are there, and the network is. *)
Up == ~cut /\ \A x \in Sides : place[x] \notin {"remove", "over"}

(* How long a side can have heard nothing, by what is on its way to it or to the side
   it waits for: the handshake, the answer to it, HELLO, and then PING and PONG. *)
Shaking ==
  /\ place["server"] = "handshake" /\ place["client"] = "handshake"
  /\ Len(stream["server"]) = 1 /\ Len(stream["client"]) = 0
  /\ \A x \in Sides : Carries(stream["server"], "HANDSHAKE", quiet[x])

Answered ==
  /\ place["server"] = "hello" /\ place["client"] = "handshake"
  /\ Len(stream["server"]) = 0
  /\ Carries(stream["client"], "HANDSHAKE", quiet["server"])
  /\ Carries(stream["client"], "HANDSHAKE", quiet["client"] - MaxDelay)

Greeting ==
  /\ place["server"] = "hello" /\ place["client"] = "run"
  /\ Carries(stream["server"], "HELLO", quiet["server"] - MaxDelay)
  /\ Carries(stream["server"], "HELLO", quiet["client"])

Joining ==
  /\ place["server"] = "register" /\ place["client"] = "run"
  /\ quiet["client"] <= MaxDelay

ClientHears ==
  \/ quiet["client"] <= MaxDelay + sincePing
  \/ Carries(stream["client"], "PING", quiet["client"] - (MaxDelay + PingEvery))

ServerHears ==
  \/ quiet["server"] <= sincePing
  \/ Carries(stream["client"], "PING", quiet["server"] - PingEvery)
  \/ pongs["client"] /\ quiet["server"] <= MaxDelay + PingEvery
  \/ Carries(stream["server"], "PONG", quiet["server"] - (MaxDelay + PingEvery))

Pinging ==
  /\ place["server"] = "run" /\ place["client"] = "run"
  /\ ClientHears /\ ServerHears

Phases == Shaking \/ Answered \/ Greeting \/ Joining \/ Pinging

(* While they are, no goroutine has had a send error. *)
Lively == Up => Phases /\ ended = {}

-----------------------------------------------------------------------------
(* Messages and their ages. *)

(* The times, as the steps below need them. *)
LEMMA Times ==
  /\ PingEvery \in Nat /\ IdleTimeout \in Nat /\ MaxDelay \in Nat /\ MaxTime \in Nat
  /\ PingEvery > 0 /\ PingEvery + 2 * MaxDelay < IdleTimeout
BY TimesAssumption

(* A stream, a tick later. *)
Older(s) == [i \in DOMAIN s |-> [s[i] EXCEPT !.age = @ + 1]]

(* Every message is a tick older. *)
LEMMA OlderType ==
  ASSUME NEW s \in Seq(Item), \A i \in 1..Len(s) : s[i].age # MaxDelay
  PROVE  /\ Older(s) \in Seq(Item) /\ Len(Older(s)) = Len(s)
         /\ \A i \in 1..Len(s) : Older(s)[i].kind = s[i].kind /\ Older(s)[i].age = s[i].age + 1
<1>1. DOMAIN s = 1..Len(s) /\ Len(s) \in Nat
  OBVIOUS
<1>2. ASSUME NEW i \in 1..Len(s)
      PROVE  /\ [s[i] EXCEPT !.age = @ + 1] \in Item
             /\ [s[i] EXCEPT !.age = @ + 1].kind = s[i].kind
             /\ [s[i] EXCEPT !.age = @ + 1].age = s[i].age + 1
  <2>1. s[i] \in Item /\ s[i].age # MaxDelay
    BY <1>2
  <2>2. s[i].age \in 0..MaxDelay /\ s[i].kind \in Kinds
    BY <2>1 DEF Item
  <2>3. s[i].age + 1 \in 0..MaxDelay
    BY <2>1, <2>2, Times
  <2> QED  BY <2>1, <2>2, <2>3 DEF Item
<1>3. Older(s) = [i \in 1..Len(s) |-> [s[i] EXCEPT !.age = @ + 1]]
  BY <1>1 DEF Older
<1>4. Older(s) \in [1..Len(s) -> Item]
  BY <1>2, <1>3
<1>5. Older(s) \in Seq(Item) /\ Len(Older(s)) = Len(s)
  BY <1>1, <1>4
<1> QED  BY <1>2, <1>3, <1>5

(* One message more. *)
LEMMA MoreType ==
  ASSUME NEW s \in Seq(Item), NEW k \in Kinds
  PROVE  /\ Append(s, [kind |-> k, age |-> 0]) \in Seq(Item)
         /\ Len(Append(s, [kind |-> k, age |-> 0])) = Len(s) + 1
<1>1. [kind |-> k, age |-> 0] \in Item
  BY Times DEF Item
<1> QED  BY <1>1

(* What is sent. *)
LEMMA SentType ==
  ASSUME NEW f \in [Sides -> Seq(Item)], NEW x \in Sides, NEW k \in Kinds
  PROVE  Sent(f, x, k) \in [Sides -> Seq(Item)]
<1>1. Other(x) \in Sides /\ Append(f[Other(x)], [kind |-> k, age |-> 0]) \in Seq(Item)
  BY MoreType DEF Other, Sides
<1> QED  BY <1>1 DEF Sent

(* What is left of the streams after a message is read. *)
LEMMA RestType ==
  ASSUME Typed, NEW x \in Sides, stream[x] # <<>>
  PROVE  Rest(x) \in [Sides -> Seq(Item)]
<1>1. stream \in [Sides -> Seq(Item)] /\ Tail(stream[x]) \in Seq(Item)
  BY DEF Typed
<1> QED  BY <1>1 DEF Rest

(* A side that closes. *)
LEMMA ClosesType ==
  ASSUME Typed, NEW x \in Sides, Closes(x)
  PROVE  /\ place' \in [Sides -> Places] /\ place'["client"] \in {"handshake", "run", "over"}
         /\ stream' \in [Sides -> Seq(Item)]
BY DEF Typed, Closes, Goes, Places, Sides

(* Every step keeps the types. *)
LEMMA TypeStep == Typed /\ [Next]_vars => Typed'
<1> SUFFICES ASSUME Typed, [Next]_vars PROVE Typed'
  OBVIOUS
<1> USE Times
<1>k. /\ "server" \in Sides /\ "client" \in Sides
      /\ {"HANDSHAKE", "HELLO", "PING", "PONG", "BUSY"} \subseteq Kinds
  BY DEF Sides, Kinds
<1>g. ASSUME NEW x \in Sides, NEW g \in {"ping"} \cup Sides, NEW k \in Kinds,
             GoroutineSends(x, g, k)
      PROVE  stream' \in [Sides -> Seq(Item)] /\ ended' \subseteq {"ping"} \cup Sides
  <2>1. stream \in [Sides -> Seq(Item)] /\ ended \subseteq {"ping"} \cup Sides
    BY DEF Typed
  <2>2. Sent(stream, x, k) \in [Sides -> Seq(Item)]
    BY <2>1, SentType
  <2> QED  BY <1>g, <2>1, <2>2 DEF GoroutineSends
<1>1. CASE Accept
  <2>1. stream' \in [Sides -> Seq(Item)]
    BY <1>1, <1>k, SentType, RestType DEF Accept, Incoming
  <2> QED  BY <1>1, <2>1 DEF Accept, Goes, Fresh, Typed, Places, Sides
<1>2. CASE Serve
  <2>1. stream' \in [Sides -> Seq(Item)]
    BY <1>2, <1>k, SentType, RestType DEF Serve, Incoming
  <2> QED  BY <1>2, <2>1 DEF Serve, Goes, Fresh, Typed, Places, Sides
<1>3. CASE Hello
  <2>1. stream' \in [Sides -> Seq(Item)]
    BY <1>3, <1>k, RestType DEF Hello, Incoming
  <2> QED  BY <1>3, <2>1 DEF Hello, Goes, Fresh, Typed, Places, Sides
<1>4. CASE Register
  <2>1. CASE Closes("server")
    BY <1>4, <1>k, <2>1, ClosesType DEF Register, Typed
  <2>2. CASE UNCHANGED <<place, stream>>
    BY <1>4, <2>2 DEF Register, Typed
  <2> QED  BY <1>4, <2>1, <2>2 DEF Register
<1>5. CASE Registered
  BY <1>5 DEF Registered, Goes, Fresh, Typed, Places, Sides
<1>13. CASE Remove
  BY <1>13 DEF Remove, Goes, Typed, Places, Sides
<1>6. CASE Ping
  <2>1. stream' \in [Sides -> Seq(Item)] /\ ended' \subseteq {"ping"} \cup Sides
    BY <1>6, <1>k, <1>g DEF Ping
  <2> QED  BY <1>6, <2>1 DEF Ping, Typed
<1>7. CASE Cut
  BY <1>7 DEF Cut, Typed
<1>8. CASE Tick
  <2>1. /\ \A x \in Sides : ~(place[x] \in Reading /\ quiet[x] = IdleTimeout)
        /\ \A x \in Sides : \A i \in 1..Len(stream[x]) : stream[x][i].age # MaxDelay
        /\ ~(place["server"] = "run" /\ sincePing = PingEvery)
    BY <1>8 DEF Tick, Due, Deadline
  <2>2. stream' = [x \in Sides |-> Older(stream[x])]
    BY <1>8 DEF Tick, Older
  <2>3. ASSUME NEW x \in Sides PROVE Older(stream[x]) \in Seq(Item)
    BY <2>1, OlderType DEF Typed
  <2>4. stream' \in [Sides -> Seq(Item)]
    BY <2>2, <2>3
  <2>5. quiet' \in [Sides -> 0..IdleTimeout]
    <3>1. \A x \in Sides : quiet[x] \in 0..IdleTimeout
      BY DEF Typed
    <3>2. \A x \in Sides : (IF place[x] \in Reading THEN quiet[x] + 1 ELSE 0) \in 0..IdleTimeout
      BY <2>1, <3>1
    <3>3. quiet' = [x \in Sides |-> IF place[x] \in Reading THEN quiet[x] + 1 ELSE 0]
      BY <1>8 DEF Tick
    <3> QED  BY <3>2, <3>3
  <2>6. sincePing' \in 0..PingEvery
    BY <1>8, <2>1 DEF Tick, Typed
  <2>7. silence' \in Nat /\ now' \in Nat /\ UNCHANGED <<place, pongs, ended, cut, timedOut>>
    BY <1>8 DEF Tick, Typed
  <2> QED  BY <2>4, <2>5, <2>6, <2>7 DEF Typed
<1>9. ASSUME NEW x \in Sides, Read(x) PROVE Typed'
  <2>1. stream' \in [Sides -> Seq(Item)]
    BY <1>9, RestType DEF Read
  <2>2. pongs' \in [Sides -> BOOLEAN]
    BY <1>9 DEF Read, Typed
  <2> QED  BY <1>9, <2>1, <2>2 DEF Read, Fresh, Typed
<1>10. ASSUME NEW x \in Sides, Pong(x) PROVE Typed'
  <2>1. stream' \in [Sides -> Seq(Item)] /\ ended' \subseteq {"ping"} \cup Sides
    BY <1>10, <1>k, <1>g DEF Pong
  <2>2. pongs' \in [Sides -> BOOLEAN]
    BY <1>10 DEF Pong, Typed
  <2> QED  BY <1>10, <2>1, <2>2 DEF Pong, Typed
<1>14. ASSUME NEW x \in Sides, Busy(x) PROVE Typed'
  <2>1. stream' \in [Sides -> Seq(Item)]
    BY <1>14, <1>k, SentType DEF Busy, Typed
  <2> QED  BY <1>14, <2>1 DEF Busy, Typed
<1>11. ASSUME NEW x \in Sides, TimeOut(x) \/ EndOfFile(x) \/ Stop(x) PROVE Typed'
  BY <1>11, ClosesType DEF TimeOut, EndOfFile, Stop, Typed
<1>12. CASE Done \/ UNCHANGED vars
  BY <1>12 DEF Done, vars, Typed
<1> QED
  BY <1>1, <1>2, <1>3, <1>4, <1>5, <1>6, <1>7, <1>8, <1>9, <1>10, <1>11, <1>12, <1>13,
     <1>14 DEF Next

-----------------------------------------------------------------------------
(* The providers. *)

(* No provider is left when the connection is over. *)
Providers == Joined /\ NoGhostProviders

(* Closing takes a server that has providers to their removal. *)
LEMMA ClosesProviders ==
  ASSUME Typed, Providers, NEW x \in Sides, Closes(x), UNCHANGED entries,
         place[x] \in Reading
  PROVE  Providers'
BY DEF Typed, Providers, Joined, NoGhostProviders, Closes, Goes, Reading, Sides

(* Every step keeps the providers in order, when no service is announced twice. *)
LEMMA ProvidersStep ==
  ASSUME AnnouncedOnce
  PROVE  Typed /\ Providers /\ [Next]_vars => Providers'
<1> SUFFICES ASSUME Typed, Providers, [Next]_vars PROVE Providers'
  OBVIOUS
<1> USE AnnouncedAssumption
<1>1. CASE UNCHANGED <<place, entries>>
  BY <1>1 DEF Providers, Joined, NoGhostProviders
<1>2. CASE Accept \/ Serve \/ Registered
  <2>1. /\ UNCHANGED entries
        /\ \/ place["server"] = "handshake" /\ place'["server"] = "hello"
           \/ place'["server"] = place["server"]
           \/ place["server"] = "register" /\ place'["server"] = "run"
    BY <1>2 DEF Accept, Serve, Registered, Goes, Typed, Sides
  <2> QED  BY <2>1 DEF Providers, Joined, NoGhostProviders
<1>3. CASE Hello
  <2>1. entries = {} /\ entries' = {} /\ place'["server"] = "register"
    BY <1>3 DEF Hello, Goes, Typed, Providers, Joined, Sides
  <2>2. entries' = 1..0
    BY <2>1
  <2> QED  BY <2>1, <2>2 DEF Providers, Joined, NoGhostProviders
<1>4. CASE Register
  <2>1. PICK k \in 0..Len(Announced) : entries = 1..k /\ place["server"] = "register"
    BY <1>4 DEF Register, Providers, Joined
  <2>2. Cardinality(entries) = k
    BY <2>1, FS_Interval
  <2>3. k + 1 \in 1..Len(Announced) /\ ~\E j \in 1..((k + 1) - 1) : Announced[j] = Announced[k + 1]
    BY <1>4, <2>2 DEF Register, AnnouncedOnce
  <2>4. entries' = entries \cup {k + 1} /\ UNCHANGED place
    BY <1>4, <2>2, <2>3 DEF Register
  <2>5. entries' = 1..(k + 1) /\ k + 1 \in 0..Len(Announced)
    BY <2>1, <2>3, <2>4
  <2> QED  BY <2>1, <2>3, <2>4, <2>5 DEF Providers, Joined, NoGhostProviders
<1>5. CASE Remove
  BY <1>5 DEF Remove, Goes, Typed, Providers, Joined, NoGhostProviders, Sides
<1>6. ASSUME NEW x \in Sides, TimeOut(x) \/ EndOfFile(x) \/ Stop(x) PROVE Providers'
  BY <1>6, ClosesProviders DEF TimeOut, EndOfFile, Stop, Deadline, AtEnd, Reading
<1>7. CASE \/ Ping \/ Cut \/ Tick \/ Done \/ UNCHANGED vars
           \/ \E x \in Sides : Read(x) \/ Pong(x) \/ Busy(x)
  BY <1>1, <1>7 DEF Ping, Cut, Tick, Done, vars, Read, Pong, Busy
<1> QED
  BY <1>2, <1>3, <1>4, <1>5, <1>6, <1>7 DEF Next

-----------------------------------------------------------------------------
(* Silence. *)

(* Every step keeps the count. *)
LEMMA CountedStep == Typed /\ Counted /\ [Next]_vars => Counted'
<1> SUFFICES ASSUME Typed, Counted, [Next]_vars PROVE Counted'
  OBVIOUS
<1> USE Times
<1>1. CASE UNCHANGED <<place, quiet, cut, silence>>
  BY <1>1 DEF Counted
<1>2. CASE Accept \/ Serve \/ Hello
  BY <1>2 DEF Accept, Serve, Hello, Incoming, Goes, Fresh, Typed, Counted, Sides, Reading
<1>3. CASE Registered
  BY <1>3 DEF Registered, Goes, Fresh, Typed, Counted, Sides, Reading
<1>4. CASE Remove
  BY <1>4 DEF Remove, Goes, Typed, Counted, Sides, Reading
<1>5. CASE Cut
  BY <1>5 DEF Cut, Typed, Counted, Sides, Reading
<1>6. CASE Tick
  <2>1. place["server"] \notin {"register", "remove"}
    BY <1>6 DEF Tick, Due
  <2>2. \A x \in Sides : quiet[x] \in Nat
    BY DEF Typed
  <2>3. /\ \A x \in Sides : place[x] \in Reading => quiet'[x] = quiet[x] + 1
        /\ silence' = (IF cut THEN silence + 1 ELSE 0) /\ silence \in Nat
        /\ UNCHANGED <<place, cut>>
    BY <1>6 DEF Tick, Typed
  <2> QED  BY <2>1, <2>2, <2>3 DEF Counted
<1>7. ASSUME NEW x \in Sides, Read(x) PROVE Counted'
  BY <1>7 DEF Read, Fresh, Typed, Counted
<1>8. ASSUME NEW x \in Sides, Closes(x), place[x] \in Reading \cup {"register"},
             UNCHANGED <<quiet, cut, silence>>
      PROVE  Counted'
  <2>1. /\ place' = [place EXCEPT ![x] = IF x = "server" /\ place[x] = "run" THEN "remove" ELSE "over"]
    BY <1>8 DEF Closes, Goes
  <2>2. place[x] = "run" => silence <= IdleTimeout
    BY <1>8 DEF Typed, Counted, Reading
  <2> QED  BY <1>8, <2>1, <2>2 DEF Typed, Counted, Reading, Sides
<1>9. CASE Register
  BY <1>1, <1>8, <1>9 DEF Register, Sides
<1>10. ASSUME NEW x \in Sides, TimeOut(x) \/ EndOfFile(x) \/ Stop(x) PROVE Counted'
  BY <1>8, <1>10 DEF TimeOut, EndOfFile, Stop, Deadline, AtEnd, Reading
<1>11. CASE \/ Ping \/ Done \/ UNCHANGED vars
           \/ \E x \in Sides : Pong(x) \/ Busy(x)
  BY <1>1, <1>11 DEF Ping, Done, vars, Pong, Busy
<1> QED
  BY <1>2, <1>3, <1>4, <1>5, <1>6, <1>7, <1>9, <1>10, <1>11 DEF Next

(* Where silence is counted, it is noticed. *)
LEMMA CountedIsNoticed == Typed /\ Counted /\ NoGhostProviders => SilenceIsNoticed
<1> SUFFICES ASSUME Typed, Counted, NoGhostProviders, silence > IdleTimeout
             PROVE  (\A x \in Sides : place[x] = "over") /\ entries = {}
  BY DEF SilenceIsNoticed
<1> USE Times
<1>1. cut /\ \A x \in Sides : place[x] \notin Reading
  BY DEF Typed, Counted
<1>2. place["server"] \notin {"register", "remove"}
  BY DEF Typed, Counted
<1>3. \A x \in Sides : place[x] = "over"
  BY <1>1, <1>2 DEF Typed, Places, Reading, Sides
<1> QED  BY <1>3 DEF NoGhostProviders, Sides

-----------------------------------------------------------------------------
(* What is on its way. *)

(* Nothing is under way for longer than MaxDelay. *)
LEMMA CarriesBound ==
  ASSUME NEW s \in Seq(Item), NEW k, NEW q \in Int, Carries(s, k, q)
  PROVE  q <= MaxDelay /\ Carries(s, k, 0) /\ \A p \in Int : p <= q => Carries(s, k, p)
<1>1. PICK i \in 1..Len(s) : s[i].kind = k /\ q <= s[i].age
  BY DEF Carries
<1>2. s[i].age \in 0..MaxDelay
  <2>1. s[i] \in Item
    OBVIOUS
  <2> QED  BY <2>1 DEF Item
<1> QED  BY <1>1, <1>2, Times DEF Carries

(* A message more, of any kind or of this one. *)
LEMMA CarriesMore ==
  ASSUME NEW s \in Seq(Item), NEW j \in Kinds, NEW t, t = Append(s, [kind |-> j, age |-> 0])
  PROVE  /\ \A k, q : Carries(s, k, q) => Carries(t, k, q)
         /\ \A q \in Int : q <= 0 => Carries(t, j, q)
<1> DEFINE m == [kind |-> j, age |-> 0]
<1>0. t = Append(s, m)
  OBVIOUS
<1>1. m \in Item /\ m.kind = j /\ m.age = 0
  BY Times DEF Item
<1> HIDE DEF m
<1>2. Len(s) \in Nat /\ Len(t) = Len(s) + 1 /\ t[Len(s) + 1] = m /\ \A i \in 1..Len(s) : t[i] = s[i]
  BY <1>0, <1>1
<1>3. \A i \in 1..Len(s) : i \in 1..Len(t)
  BY <1>2
<1>4. Len(s) + 1 \in 1..Len(t)
  BY <1>2
<1>5. \A k, q : Carries(s, k, q) => Carries(t, k, q)
  BY <1>2, <1>3 DEF Carries
<1>6. \A q \in Int : q <= 0 => Carries(t, j, q)
  BY <1>1, <1>2, <1>4 DEF Carries
<1> QED  BY <1>5, <1>6

(* Without its first message the stream carries what it carried, unless that was it. *)
LEMMA CarriesRest ==
  ASSUME NEW s \in Seq(Item), s # <<>>, NEW k, NEW q \in Int, Carries(s, k, q)
  PROVE  Carries(Tail(s), k, q) \/ Head(s).kind = k
<1>1. PICK i \in 1..Len(s) : s[i].kind = k /\ q <= s[i].age
  BY DEF Carries
<1>2. /\ Len(s) \in Nat \ {0} /\ Len(Tail(s)) = Len(s) - 1 /\ Head(s) = s[1]
      /\ \A j \in 1..Len(Tail(s)) : Tail(s)[j] = s[j + 1]
  OBVIOUS
<1>3. CASE i # 1
  <2>1. i - 1 \in 1..Len(Tail(s)) /\ Tail(s)[i - 1] = s[i]
    BY <1>2, <1>3
  <2> QED  BY <1>1, <2>1 DEF Carries
<1> QED  BY <1>1, <1>2, <1>3

(* A tick later it carries older messages. *)
LEMMA CarriesOlder ==
  ASSUME NEW s \in Seq(Item), \A i \in 1..Len(s) : s[i].age # MaxDelay,
         NEW k, NEW q \in Int, Carries(s, k, q)
  PROVE  Carries(Older(s), k, q + 1)
<1>1. PICK i \in 1..Len(s) : s[i].kind = k /\ q <= s[i].age
  BY DEF Carries
<1>2. s[i].age \in Nat
  <2>1. s[i] \in Item
    OBVIOUS
  <2> QED  BY <2>1, Times DEF Item
<1>3. /\ Len(Older(s)) = Len(s) /\ Older(s)[i].kind = s[i].kind /\ Older(s)[i].age = s[i].age + 1
  BY OlderType
<1>4. q + 1 <= Older(s)[i].age
  BY <1>1, <1>2, <1>3
<1> QED  BY <1>1, <1>3, <1>4 DEF Carries

(* An empty stream carries nothing, and one message is the first. *)
LEMMA CarriesFew ==
  ASSUME NEW s \in Seq(Item), NEW k, NEW q
  PROVE  /\ Len(s) = 0 => s = <<>> /\ ~Carries(s, k, q)
         /\ Len(s) = 1 => Len(Tail(s)) = 0
<1>1. Len(s) = 0 => ~Carries(s, k, q)
  BY DEF Carries
<1> QED  BY <1>1

-----------------------------------------------------------------------------
(* Nobody's deadline passes while both sides are there. *)

(* The two sides, one by one. *)
LEMMA SideTypes ==
  ASSUME Typed
  PROVE  /\ "server" \in Sides /\ "client" \in Sides /\ Sides = {"server", "client"}
         /\ quiet["server"] \in Nat /\ quiet["client"] \in Nat
         /\ stream["server"] \in Seq(Item) /\ stream["client"] \in Seq(Item)
         /\ sincePing \in Nat /\ sincePing <= PingEvery
BY Times DEF Typed, Sides

(* What a side sends goes to the end of the other's stream. *)
LEMMA UpSends ==
  ASSUME Typed, Up, NEW f \in [Sides -> Seq(Item)], NEW k
  PROVE  /\ Sent(f, "server", k)["server"] = f["server"]
         /\ Sent(f, "server", k)["client"] = Append(f["client"], [kind |-> k, age |-> 0])
         /\ Sent(f, "client", k)["client"] = f["client"]
         /\ Sent(f, "client", k)["server"] = Append(f["server"], [kind |-> k, age |-> 0])
BY DEF Up, Sent, Unheard, Other, Sides

(* Nobody's send fails while both sides are there. *)
LEMMA UpSendsWell ==
  ASSUME Typed, Up, NEW x \in Sides, NEW g, NEW k, GoroutineSends(x, g, k)
  PROVE  stream' = Sent(stream, x, k) /\ ended' = ended
BY DEF Up, GoroutineSends, Unheard, Other, Sides

(* In every phase the deadlines are still ahead. *)
LEMMA InTime ==
  ASSUME Typed, Phases, NEW x \in Sides
  PROVE  ~Deadline(x)
<1> USE Times, SideTypes DEF Reading
<1>1. CASE Shaking
  <2>1. quiet[x] \in Int /\ Carries(stream["server"], "HANDSHAKE", quiet[x])
    BY <1>1 DEF Shaking, Typed
  <2>2. quiet[x] <= MaxDelay
    BY <2>1, CarriesBound
  <2> QED  BY <2>1, <2>2 DEF Deadline
<1>2. CASE Answered
  <2>1. /\ Carries(stream["client"], "HANDSHAKE", quiet["server"])
        /\ Carries(stream["client"], "HANDSHAKE", quiet["client"] - MaxDelay)
    BY <1>2 DEF Answered
  <2>2. quiet["server"] <= MaxDelay /\ quiet["client"] - MaxDelay <= MaxDelay
    BY <2>1, CarriesBound
  <2> QED  BY <2>2 DEF Deadline
<1>3. CASE Greeting
  <2>1. /\ Carries(stream["server"], "HELLO", quiet["client"])
        /\ Carries(stream["server"], "HELLO", quiet["server"] - MaxDelay)
    BY <1>3 DEF Greeting
  <2>2. quiet["client"] <= MaxDelay /\ quiet["server"] - MaxDelay <= MaxDelay
    BY <2>1, CarriesBound
  <2> QED  BY <2>2 DEF Deadline
<1>4. CASE Joining
  BY <1>4 DEF Joining, Deadline
<1>5. CASE Pinging
  <2>1. quiet["client"] <= 2 * MaxDelay + PingEvery
    <3>1. CASE Carries(stream["client"], "PING", quiet["client"] - (MaxDelay + PingEvery))
      <4>1. quiet["client"] - (MaxDelay + PingEvery) <= MaxDelay
        BY <3>1, CarriesBound
      <4> QED  BY <4>1
    <3> QED  BY <1>5, <3>1 DEF Pinging, ClientHears
  <2>2. quiet["server"] <= 2 * MaxDelay + PingEvery
    <3>1. CASE Carries(stream["client"], "PING", quiet["server"] - PingEvery)
      <4>1. quiet["server"] - PingEvery <= MaxDelay
        BY <3>1, CarriesBound
      <4> QED  BY <4>1
    <3>2. CASE Carries(stream["server"], "PONG", quiet["server"] - (MaxDelay + PingEvery))
      <4>1. quiet["server"] - (MaxDelay + PingEvery) <= MaxDelay
        BY <3>2, CarriesBound
      <4> QED  BY <4>1
    <3> QED  BY <1>5, <3>1, <3>2 DEF Pinging, ServerHears
  <2> QED  BY <2>1, <2>2 DEF Deadline
<1> QED  BY <1>1, <1>2, <1>3, <1>4, <1>5 DEF Phases

(* Up to the read loops. *)
LEMMA GreetStep ==
  ASSUME Typed, Up, Phases, Accept \/ Serve \/ Hello \/ Registered
  PROVE  Phases'
<1> USE Times, SideTypes
<1>1. CASE Accept
  <2>1. Shaking /\ stream["server"] # <<>>
    BY <1>1 DEF Accept, Incoming, Phases, Shaking, Answered, Greeting, Joining, Pinging
  <2>2. Rest("server") \in [Sides -> Seq(Item)] /\ Rest("server")["server"] = Tail(stream["server"])
        /\ Rest("server")["client"] = stream["client"]
    BY <2>1, RestType DEF Rest, Typed
  <2>3. /\ stream'["server"] = Tail(stream["server"])
        /\ stream'["client"] = Append(stream["client"], [kind |-> "HANDSHAKE", age |-> 0])
    BY <1>1, <2>2, UpSends DEF Accept
  <2>4. quiet["client"] <= MaxDelay
    BY <2>1, CarriesBound DEF Shaking
  <2>5. /\ place'["server"] = "hello" /\ place'["client"] = "handshake"
        /\ quiet'["server"] = 0 /\ quiet'["client"] = quiet["client"]
    BY <1>1, <2>1 DEF Accept, Goes, Fresh, Shaking, Typed
  <2>6. Len(stream'["server"]) = 0
    BY <2>1, <2>3, CarriesFew DEF Shaking
  <2>7. /\ Carries(stream'["client"], "HANDSHAKE", quiet'["server"])
        /\ Carries(stream'["client"], "HANDSHAKE", quiet'["client"] - MaxDelay)
    <3>1. \A q \in Int : q <= 0 => Carries(stream'["client"], "HANDSHAKE", q)
      BY <2>3, CarriesMore DEF Kinds
    <3> QED  BY <2>4, <2>5, <3>1
  <2> QED  BY <2>5, <2>6, <2>7 DEF Phases, Answered
<1>2. CASE Serve
  <2>1. Answered /\ stream["client"] # <<>>
    BY <1>2 DEF Serve, Incoming, Phases, Shaking, Answered, Greeting, Joining, Pinging
  <2>2. Rest("client") \in [Sides -> Seq(Item)] /\ Rest("client")["client"] = Tail(stream["client"])
        /\ Rest("client")["server"] = stream["server"]
    BY <2>1, RestType DEF Rest, Typed
  <2>3. stream'["server"] = Append(stream["server"], [kind |-> "HELLO", age |-> 0])
    <3>1. Sent(Rest("client"), "client", "HELLO")["server"]
            = Append(Rest("client")["server"], [kind |-> "HELLO", age |-> 0])
      BY ONLY <2>2, Typed, Up, UpSends
    <3> QED  BY <1>2, <2>2, <3>1 DEF Serve
  <2>4. quiet["server"] <= MaxDelay
    BY <2>1, CarriesBound DEF Answered
  <2>5. /\ place'["server"] = "hello" /\ place'["client"] = "run"
        /\ quiet'["client"] = 0 /\ quiet'["server"] = quiet["server"]
    BY <1>2, <2>1 DEF Serve, Goes, Fresh, Answered, Typed
  <2>6. /\ Carries(stream'["server"], "HELLO", quiet'["server"] - MaxDelay)
        /\ Carries(stream'["server"], "HELLO", quiet'["client"])
    <3>1. \A q \in Int : q <= 0 => Carries(stream'["server"], "HELLO", q)
      BY <2>3, CarriesMore DEF Kinds
    <3> QED  BY <2>4, <2>5, <3>1
  <2> QED  BY <2>5, <2>6 DEF Phases, Greeting
<1>3. CASE Hello
  <2>1. Greeting
    BY <1>3 DEF Hello, Incoming, Phases, Shaking, Answered, Joining, Pinging
  <2>2. quiet["client"] <= MaxDelay
    BY <2>1, CarriesBound DEF Greeting
  <2>3. place'["server"] = "register" /\ place'["client"] = "run" /\ quiet'["client"] = quiet["client"]
    BY <1>3, <2>1 DEF Hello, Goes, Fresh, Greeting, Typed
  <2> QED  BY <2>2, <2>3 DEF Phases, Joining
<1>4. CASE Registered
  <2>1. Joining
    BY <1>4 DEF Registered, Phases, Shaking, Answered, Greeting, Pinging
  <2>2. /\ place'["server"] = "run" /\ place'["client"] = "run" /\ quiet'["client"] = quiet["client"]
        /\ quiet'["server"] = 0 /\ sincePing' = 0
    BY <1>4, <2>1 DEF Registered, Goes, Fresh, Joining, Typed
  <2> QED  BY <2>1, <2>2 DEF Phases, Joining, Pinging, ClientHears, ServerHears
<1> QED  BY <1>1, <1>2, <1>3, <1>4

(* A message is sent, and nothing else changes: PONG and the messages of jobs. *)
LEMMA SendStep ==
  ASSUME Typed, Up, Phases, NEW x \in Sides, place[x] = "run", NEW k \in Kinds,
         stream' = Sent(stream, x, k), UNCHANGED <<place, quiet, sincePing>>,
         \/ pongs' = pongs
         \/ k = "PONG" /\ pongs' = [pongs EXCEPT ![x] = FALSE]
  PROVE  Phases'
<1> USE Times, SideTypes
<1>1. stream \in [Sides -> Seq(Item)]
  BY DEF Typed
<1>2. /\ x = "server" => /\ stream'["server"] = stream["server"]
                         /\ stream'["client"] = Append(stream["client"], [kind |-> k, age |-> 0])
      /\ x = "client" => /\ stream'["client"] = stream["client"]
                         /\ stream'["server"] = Append(stream["server"], [kind |-> k, age |-> 0])
  BY <1>1, UpSends
<1>3. /\ \A j, q : Carries(stream["server"], j, q) => Carries(stream'["server"], j, q)
      /\ \A j, q : Carries(stream["client"], j, q) => Carries(stream'["client"], j, q)
      /\ x = "client" => \A q \in Int : q <= 0 => Carries(stream'["server"], k, q)
  <2>1. CASE x = "server"
    <3>1. \A j, q : Carries(stream["client"], j, q) => Carries(stream'["client"], j, q)
      <4>1. stream["client"] \in Seq(Item)
        OBVIOUS
      <4> QED  BY ONLY <1>2, <2>1, <4>1, k \in Kinds, CarriesMore
    <3> QED  BY <1>2, <2>1, <3>1
  <2>2. CASE x = "client"
    <3>1. /\ \A j, q : Carries(stream["server"], j, q) => Carries(stream'["server"], j, q)
          /\ \A q \in Int : q <= 0 => Carries(stream'["server"], k, q)
      <4>1. stream["server"] \in Seq(Item)
        OBVIOUS
      <4> QED  BY ONLY <1>2, <2>2, <4>1, k \in Kinds, CarriesMore
    <3> QED  BY <1>2, <2>2, <3>1
  <2> QED  BY <2>1, <2>2
<1>4. CASE Greeting
  BY <1>3, <1>4 DEF Greeting, Phases
<1>5. CASE Joining
  BY <1>5 DEF Joining, Phases
<1>6. CASE Pinging
  <2>1. ClientHears'
    BY <1>3, <1>6 DEF Pinging, ClientHears
  <2>2. ASSUME pongs["client"] /\ quiet["server"] <= MaxDelay + PingEvery PROVE ServerHears'
    <3>1. CASE pongs'["client"]
      BY <2>2, <3>1 DEF ServerHears
    <3>2. CASE ~pongs'["client"]
      <4>1. x = "client" /\ k = "PONG"
        BY <2>2, <3>2 DEF Typed
      <4>2. Carries(stream'["server"], "PONG", quiet["server"] - (MaxDelay + PingEvery))
        BY <1>3, <2>2, <4>1
      <4> QED  BY <4>2 DEF ServerHears
    <3> QED  BY <3>1, <3>2
  <2>3. ServerHears'
    BY <1>3, <1>6, <2>2 DEF Pinging, ServerHears
  <2> QED  BY <1>6, <2>1, <2>3 DEF Pinging, Phases
<1> QED  BY <1>4, <1>5, <1>6 DEF Phases, Shaking, Answered

(* The server's PING. *)
LEMMA PingStep ==
  ASSUME Typed, Up, Phases, Ping
  PROVE  Phases'
<1> USE Times, SideTypes
<1>1. stream \in [Sides -> Seq(Item)]
  BY DEF Typed
<1>2. /\ stream'["server"] = stream["server"]
      /\ stream'["client"] = Append(stream["client"], [kind |-> "PING", age |-> 0])
  BY <1>1, UpSends, UpSendsWell DEF Ping
<1>3. /\ \A j, q : Carries(stream["client"], j, q) => Carries(stream'["client"], j, q)
      /\ \A q \in Int : q <= 0 => Carries(stream'["client"], "PING", q)
  BY <1>2, CarriesMore DEF Kinds
<1>4. Pinging /\ sincePing = PingEvery /\ UNCHANGED <<place, quiet, pongs>>
  BY DEF Ping, Phases, Shaking, Answered, Greeting, Joining
<1>5. ClientHears'
  BY <1>3, <1>4 DEF Pinging, ClientHears
<1>6. ServerHears'
  BY <1>2, <1>3, <1>4 DEF Pinging, ServerHears
<1> QED  BY <1>4, <1>5, <1>6 DEF Pinging, Phases

(* A message is read, which counts as life. *)
LEMMA ReadStep ==
  ASSUME Typed, Up, Phases, NEW x \in Sides, Read(x)
  PROVE  Phases'
<1> USE Times, SideTypes
<1>1. /\ stream[x] # <<>> /\ place[x] = "run" /\ UNCHANGED <<place, sincePing>>
      /\ stream' = Rest(x) /\ quiet' = [quiet EXCEPT ![x] = 0]
      /\ pongs' = [pongs EXCEPT ![x] = @ \/ Head(stream[x]).kind = "PING"]
  BY DEF Read, Fresh
<1>2. CASE x = "client"
  <2>1. /\ stream'["server"] = stream["server"] /\ stream'["client"] = Tail(stream["client"])
        /\ quiet'["client"] = 0 /\ quiet'["server"] = quiet["server"]
        /\ pongs["client"] \/ Head(stream["client"]).kind = "PING" => pongs'["client"]
    BY <1>1, <1>2 DEF Rest, Typed
  <2>2. CASE Greeting
    <3>1. Carries(stream["server"], "HELLO", 0)
      BY <2>2, CarriesBound DEF Greeting
    <3> QED  BY <1>1, <2>1, <2>2, <3>1 DEF Greeting, Phases
  <2>3. CASE Joining
    BY <1>1, <2>1, <2>3 DEF Joining, Phases
  <2>4. CASE Pinging
    <3>1. ClientHears'
      BY <1>1, <2>1 DEF ClientHears
    <3>2. ASSUME Carries(stream["client"], "PING", quiet["server"] - PingEvery) PROVE ServerHears'
      <4>1. quiet["server"] - PingEvery <= MaxDelay
        BY <3>2, CarriesBound
      <4>2. \/ Carries(Tail(stream["client"]), "PING", quiet["server"] - PingEvery)
            \/ Head(stream["client"]).kind = "PING"
        BY <1>1, <1>2, <3>2, CarriesRest
      <4>3. quiet["server"] <= MaxDelay + PingEvery
        BY <4>1
      <4> QED  BY <2>1, <4>2, <4>3 DEF ServerHears
    <3>3. ServerHears'
      BY <1>1, <2>1, <2>4, <3>2 DEF Pinging, ServerHears
    <3> QED  BY <1>1, <2>4, <3>1, <3>3 DEF Pinging, Phases
  <2> QED  BY <1>1, <1>2, <2>2, <2>3, <2>4 DEF Phases, Shaking, Answered
<1>3. CASE x = "server"
  <2>1. Pinging
    BY <1>1, <1>3 DEF Phases, Shaking, Answered, Greeting, Joining
  <2>2. /\ stream'["client"] = stream["client"]
        /\ quiet'["client"] = quiet["client"] /\ quiet'["server"] = 0
    BY <1>1, <1>3 DEF Rest, Typed
  <2> QED  BY <1>1, <2>1, <2>2 DEF Pinging, Phases, ClientHears, ServerHears
<1> QED  BY <1>2, <1>3

(* Time passes. *)
LEMMA TickStep ==
  ASSUME Typed, Up, Phases, ended = {}, Tick
  PROVE  Phases'
<1> USE Times, SideTypes
<1>1. /\ \A x \in Sides : \A i \in 1..Len(stream[x]) : stream[x][i].age # MaxDelay
      /\ ~(place["client"] = "run" /\ pongs["client"])
      /\ place["server"] # "register"
  BY DEF Tick, Due
<1>2. /\ stream' = [x \in Sides |-> Older(stream[x])]
      /\ quiet' = [x \in Sides |-> IF place[x] \in Reading THEN quiet[x] + 1 ELSE 0]
      /\ sincePing' = IF place["server"] = "run" THEN sincePing + 1 ELSE 0
      /\ UNCHANGED <<place, pongs>>
  BY DEF Tick, Older
<1>3. stream'["server"] = Older(stream["server"]) /\ stream'["client"] = Older(stream["client"])
  BY <1>2
<1>4. /\ \A k : \A q \in Int : Carries(stream["server"], k, q) => Carries(stream'["server"], k, q + 1)
      /\ \A k : \A q \in Int : Carries(stream["client"], k, q) => Carries(stream'["client"], k, q + 1)
      /\ Len(stream'["server"]) = Len(stream["server"]) /\ Len(stream'["client"]) = Len(stream["client"])
  BY <1>1, <1>3, CarriesOlder, OlderType
<1>5. \A x \in Sides : place[x] \in Reading => quiet'[x] = quiet[x] + 1
  BY <1>2
<1>6. CASE Shaking
  BY <1>2, <1>4, <1>5, <1>6 DEF Shaking, Phases, Reading
<1>7. CASE Answered
  <2>1. /\ quiet'["server"] = quiet["server"] + 1
        /\ quiet'["client"] - MaxDelay = (quiet["client"] - MaxDelay) + 1
    BY <1>5, <1>7 DEF Answered, Reading
  <2> QED  BY <1>2, <1>4, <1>7, <2>1 DEF Answered, Phases
<1>8. CASE Greeting
  <2>1. /\ quiet'["client"] = quiet["client"] + 1
        /\ quiet'["server"] - MaxDelay = (quiet["server"] - MaxDelay) + 1
    <3>1. quiet'["client"] = quiet["client"] + 1 /\ quiet'["server"] = quiet["server"] + 1
      BY <1>5, <1>8 DEF Greeting, Reading
    <3> QED  BY <3>1
  <2> QED  BY <1>2, <1>4, <1>8, <2>1 DEF Greeting, Phases
<1>9. CASE Pinging
  <2>1. /\ quiet'["client"] = quiet["client"] + 1 /\ quiet'["server"] = quiet["server"] + 1
        /\ sincePing' = sincePing + 1
        /\ quiet'["client"] - (MaxDelay + PingEvery) = (quiet["client"] - (MaxDelay + PingEvery)) + 1
        /\ quiet'["server"] - (MaxDelay + PingEvery) = (quiet["server"] - (MaxDelay + PingEvery)) + 1
        /\ quiet'["server"] - PingEvery = (quiet["server"] - PingEvery) + 1
    <3>1. /\ quiet'["client"] = quiet["client"] + 1 /\ quiet'["server"] = quiet["server"] + 1
          /\ sincePing' = sincePing + 1
      BY <1>2, <1>5, <1>9 DEF Pinging, Reading
    <3>2. /\ quiet["client"] \in Nat /\ quiet["server"] \in Nat
          /\ MaxDelay \in Nat /\ PingEvery \in Nat
      OBVIOUS
    <3> QED  BY ONLY <3>1, <3>2
  <2>2. ClientHears'
    <3>1. CASE quiet["client"] <= MaxDelay + sincePing
      BY <2>1, <3>1 DEF ClientHears
    <3>2. CASE Carries(stream["client"], "PING", quiet["client"] - (MaxDelay + PingEvery))
      BY <1>4, <2>1, <3>2 DEF ClientHears
    <3> QED  BY <1>9, <3>1, <3>2 DEF Pinging, ClientHears
  <2>3. ServerHears'
    <3>1. CASE quiet["server"] <= sincePing
      BY <2>1, <3>1 DEF ServerHears
    <3>2. CASE \/ Carries(stream["client"], "PING", quiet["server"] - PingEvery)
               \/ Carries(stream["server"], "PONG", quiet["server"] - (MaxDelay + PingEvery))
      BY <1>4, <2>1, <3>2 DEF ServerHears
    <3> QED  BY <1>1, <1>9, <3>1, <3>2 DEF Pinging, ServerHears
  <2> QED  BY <1>2, <1>9, <2>2, <2>3 DEF Pinging, Phases
<1> QED  BY <1>1, <1>6, <1>7, <1>8, <1>9 DEF Phases, Joining

(* A closing side is closed, and the other stays where it is. *)
LEMMA ClosedStays ==
  ASSUME Typed, [Next]_vars
  PROVE  /\ \A x \in Sides : place[x] \in {"remove", "over"} => place'[x] \in {"remove", "over"}
         /\ cut => cut'
<1>1. ASSUME NEW y \in Sides, Closes(y)
      PROVE  \A x \in Sides : place[x] \in {"remove", "over"} => place'[x] \in {"remove", "over"}
  BY <1>1 DEF Closes, Goes, Typed
<1>2. CASE UNCHANGED <<place, cut>>
  BY <1>2
<1>3. CASE Accept \/ Serve \/ Hello \/ Registered \/ Remove
  BY <1>3 DEF Accept, Serve, Hello, Registered, Remove, Goes, Typed
<1>4. CASE Register
  BY <1>1, <1>2, <1>4 DEF Register, Sides
<1>5. ASSUME NEW x \in Sides, TimeOut(x) \/ EndOfFile(x) \/ Stop(x)
      PROVE  cut' = cut /\ Closes(x)
  BY <1>5 DEF TimeOut, EndOfFile, Stop
<1>6. CASE \/ Ping \/ Tick \/ Done \/ UNCHANGED vars
           \/ \E x \in Sides : Read(x) \/ Pong(x) \/ Busy(x)
  BY <1>2, <1>6 DEF Ping, Tick, Done, vars, Read, Pong, Busy
<1>7. CASE Cut
  BY <1>7 DEF Cut
<1> QED
  BY <1>1, <1>3, <1>4, <1>5, <1>6, <1>7 DEF Next

(* Every step leads from one phase to another, or ends the session. *)
LEMMA LivelyStep == Typed /\ Lively /\ [Next]_vars => Lively'
<1> SUFFICES ASSUME Typed, Lively, [Next]_vars, Up' PROVE Phases' /\ ended' = {}
  BY DEF Lively
<1>1. Up /\ Phases /\ ended = {}
  BY ClosedStays DEF Up, Lively
<1>14. ended' = {}
  <2>1. ASSUME NEW x \in Sides, NEW g, NEW k, GoroutineSends(x, g, k) PROVE ended' = ended
    BY <1>1, <2>1, UpSendsWell
  <2>2. ended' = ended
    BY <2>1 DEF Next, Accept, Serve, Hello, Register, Registered, Remove, Ping, Cut, Tick, Done,
         vars, Read, Pong, Busy, TimeOut, EndOfFile, Stop, Sides
  <2> QED  BY <1>1, <2>2
<1> SUFFICES Phases'
  BY <1>14
<1>2. CASE UNCHANGED <<place, quiet, stream, pongs, sincePing>>
  BY <1>1, <1>2 DEF Phases, Shaking, Answered, Greeting, Joining, Pinging, ClientHears, ServerHears
<1>3. CASE Accept \/ Serve \/ Hello \/ Registered
  BY <1>1, <1>3, GreetStep
<1>4. ASSUME NEW x \in Sides, Closes(x) PROVE FALSE
  BY <1>4 DEF Closes, Goes, Up, Typed
<1>5. CASE Register
  BY <1>2, <1>4, <1>5 DEF Register, Sides
<1>6. CASE Remove \/ Cut
  BY <1>1, <1>6 DEF Remove, Cut, Up, Sides
<1>7. CASE Ping
  BY <1>1, <1>7, PingStep
<1>8. CASE Tick
  BY <1>1, <1>8, TickStep
<1>9. ASSUME NEW x \in Sides, Read(x) PROVE Phases'
  BY <1>1, <1>9, ReadStep
<1>10. ASSUME NEW x \in Sides, Pong(x) PROVE Phases'
  <2>1. "PONG" \in Kinds
    BY DEF Kinds
  <2> QED  BY <1>1, <1>10, <2>1, SendStep, UpSendsWell DEF Pong
<1>11. ASSUME NEW x \in Sides, Busy(x) PROVE Phases'
  <2>1. "BUSY" \in Kinds
    BY DEF Kinds
  <2> QED  BY <1>1, <1>11, <2>1, SendStep DEF Busy
<1>12. ASSUME NEW x \in Sides, TimeOut(x) \/ EndOfFile(x) \/ Stop(x) PROVE FALSE
  BY <1>4, <1>12 DEF TimeOut, EndOfFile, Stop
<1>13. CASE Done \/ UNCHANGED vars
  BY <1>2, <1>13 DEF Done, vars
<1> QED
  BY <1>3, <1>5, <1>6, <1>7, <1>8, <1>9, <1>10, <1>11, <1>12, <1>13 DEF Next

(* A deadline passes only when the network is cut or the other side has gone. *)
LEMMA TimeoutStep == Typed /\ Lively /\ NoFalseTimeout /\ [Next]_vars => NoFalseTimeout'
<1> SUFFICES ASSUME Typed, Lively, NoFalseTimeout, [Next]_vars PROVE NoFalseTimeout'
  OBVIOUS
<1>1. /\ \A x \in Sides : place[x] \in {"remove", "over"} => place'[x] \in {"remove", "over"}
      /\ cut => cut'
  BY ClosedStays
<1>2. CASE timedOut' = timedOut
  BY <1>1, <1>2 DEF NoFalseTimeout
<1>3. ASSUME NEW x \in Sides, TimeOut(x) PROVE NoFalseTimeout'
  <2>1. Deadline(x) /\ timedOut' = timedOut \cup {x} /\ place[x] \notin {"remove", "over"}
    BY <1>3 DEF TimeOut, Deadline, Reading
  <2>2. ~Up
    BY <2>1, InTime DEF Lively
  <2>3. CASE cut
    BY <1>1, <2>3 DEF NoFalseTimeout
  <2>4. CASE ~cut
    <3>1. PICK y \in Sides : place[y] \in {"remove", "over"}
      BY <2>2, <2>4 DEF Up
    <3>2. y # x
      BY <2>1, <3>1
    <3>3. y \notin timedOut
      BY <2>1, <2>4, <3>1, <3>2 DEF NoFalseTimeout, Sides
    <3> QED  BY <1>1, <2>1, <3>1, <3>2, <3>3 DEF NoFalseTimeout
  <2> QED  BY <2>3, <2>4
<1>4. CASE \/ Accept \/ Serve \/ Hello \/ Register \/ Registered \/ Remove
           \/ Ping \/ Cut \/ Tick \/ Done \/ UNCHANGED vars
           \/ \E x \in Sides : Read(x) \/ Pong(x) \/ Busy(x) \/ EndOfFile(x) \/ Stop(x)
  BY <1>2, <1>4 DEF Accept, Serve, Hello, Register, Registered, Remove, Ping, Cut, Tick, Done,
       vars, Read, Pong, Busy, EndOfFile, Stop
<1> QED  BY <1>3, <1>4 DEF Next

-----------------------------------------------------------------------------
(* The theorems. *)

(* The session begins with the client's handshake message on its way. *)
LEMMA InitInv == Init => Typed /\ Providers /\ Counted /\ Lively /\ NoFalseTimeout
<1> SUFFICES ASSUME Init PROVE Typed /\ Providers /\ Counted /\ Lively /\ NoFalseTimeout
  OBVIOUS
<1> USE Times
<1> DEFINE m == [kind |-> "HANDSHAKE", age |-> 0]
<1>1. m \in Item
  BY DEF Item, Kinds
<1>2. <<m>> \in Seq(Item) /\ Len(<<m>>) = 1 /\ <<m>>[1] = m
  BY <1>1
<1>3. stream \in [Sides -> Seq(Item)] /\ stream["server"] = <<m>> /\ stream["client"] = <<>>
  BY <1>2 DEF Init, Sides
<1>4. Typed
  <2>1. /\ place = [x \in Sides |-> "handshake"] /\ quiet = [x \in Sides |-> 0]
        /\ pongs = [x \in Sides |-> FALSE]
        /\ sincePing = 0 /\ ended = {} /\ cut = FALSE /\ silence = 0 /\ timedOut = {} /\ now = 0
    BY DEF Init
  <2>2. place \in [Sides -> Places] /\ place["client"] = "handshake"
    BY <2>1 DEF Places, Sides
  <2>3. quiet \in [Sides -> 0..IdleTimeout] /\ pongs \in [Sides -> BOOLEAN]
    BY <2>1
  <2>5. cut \in BOOLEAN
    BY <2>1, Zenon
  <2>4. sincePing \in 0..PingEvery /\ ended \subseteq {"ping"} \cup Sides
        /\ silence \in Nat /\ timedOut \subseteq Sides
        /\ now \in Nat
    BY <2>1
  <2> QED  BY <1>3, <2>2, <2>3, <2>4, <2>5 DEF Typed
<1>5. Providers /\ Counted /\ NoFalseTimeout
  BY DEF Init, Providers, Joined, NoGhostProviders, Counted, NoFalseTimeout, Sides
<1>6. \A x \in Sides : quiet[x] = 0
  BY DEF Init
<1>7. Carries(stream["server"], "HANDSHAKE", 0)
  BY <1>2, <1>3 DEF Carries
<1>8. Shaking
  BY <1>2, <1>3, <1>6, <1>7 DEF Init, Shaking, Sides
<1> QED  BY <1>4, <1>5, <1>8 DEF Init, Lively, Phases

(***************************************************************************)
(* For all times with PingEvery + 2 * MaxDelay < IdleTimeout: while the    *)
(* network delivers and both sides are there, no deadline of the           *)
(* handshake, of HELLO or of the read loops passes, however quiet the jobs *)
(* are (conn.go:320, :334).                                                *)
(***************************************************************************)
THEOREM NoFalseAlarm == Spec => []NoFalseTimeout
<1>1. Typed /\ Lively /\ NoFalseTimeout /\ [Next]_vars => (Typed /\ Lively /\ NoFalseTimeout)'
  BY TypeStep, LivelyStep, TimeoutStep
<1> QED  BY <1>1, InitInv, PTL DEF Spec

(***************************************************************************)
(* When the HELLO announces no service twice, no provider stays in the     *)
(* pool once the connection is over, wherever it broke (server.go:137).    *)
(***************************************************************************)
THEOREM ProvidersLeaveWithTheirPeer ==
  ASSUME AnnouncedOnce
  PROVE  Spec => []NoGhostProviders
<1>1. Typed /\ Providers /\ [Next]_vars => (Typed /\ Providers)'
  BY TypeStep, ProvidersStep
<1>2. Providers => NoGhostProviders
  BY DEF Providers
<1> QED  BY <1>1, <1>2, InitInv, PTL DEF Spec

(***************************************************************************)
(* For all times and every HELLO that announces no service twice: when     *)
(* nothing has arrived for longer than IdleTimeout, both sides have ended  *)
(* the session and its providers are out of the pool (server.go:102, :142, *)
(* conn.go:98, :246).                                                      *)
(***************************************************************************)
THEOREM SilenceEndsTheSession ==
  ASSUME AnnouncedOnce
  PROVE  Spec => []SilenceIsNoticed
<1> DEFINE Inv == Typed /\ Providers /\ Counted
<1>1. Inv /\ [Next]_vars => Inv'
  BY TypeStep, ProvidersStep, CountedStep
<1>2. Inv => SilenceIsNoticed
  BY CountedIsNoticed DEF Providers
<1>3. Init => Inv
  BY InitInv
<1> HIDE DEF Inv
<1> QED  BY <1>1, <1>2, <1>3, PTL DEF Spec
=============================================================================
