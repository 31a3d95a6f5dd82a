------------------------------ MODULE Session -------------------------------
(***************************************************************************)
(* One connection from its first byte to its last, with time: the          *)
(* handshake and its deadline (server.go accept, client.go session), HELLO *)
(* and the registration of its providers (server.go handle, register), the *)
(* read loops with their idle timeout and the PINGs and PONGs that keep a  *)
(* quiet connection alive (conn.go run, dispatch, ping, pong).             *)
(*                                                                         *)
(* The network delivers a message within MaxDelay ticks, or, once it is    *)
(* cut, not at all and without telling anybody.  Jobs send messages at any *)
(* moment; they are the BUSY messages here.  The clock does not pass a     *)
(* deadline that has not been acted upon.                                  *)
(***************************************************************************)
EXTENDS Integers, Sequences, FiniteSets

CONSTANTS
  Announced,    \* the services in the HELLO's providers, in order
  PingEvery, IdleTimeout,
  MaxDelay,     \* bound: how long the network, and a writer's turn, take
  MaxBusy,      \* bound: how many messages of jobs are on their way to one side
  MaxTime       \* bound: the clock stops here

ASSUME TimesAssumption ==
  /\ {PingEvery, IdleTimeout, MaxDelay, MaxBusy, MaxTime} \subseteq Nat
  /\ PingEvery > 0 /\ PingEvery + 2 * MaxDelay < IdleTimeout

(* The providers of a HELLO are a list. *)
ASSUME AnnouncedAssumption == Len(Announced) \in Nat

Sides == {"server", "client"}
Other(x) == IF x = "server" THEN "client" ELSE "server"

VARIABLES
  place,      \* where each side is: see Places
  quiet,      \* ticks since the side's read deadline was last set
  stream,     \* what is on its way to each side, with its age
  pongs,      \* Conn.pongs of each side holds a token
  sincePing,  \* ticks since the server's ping ticker last fired
  ended,      \* the goroutines that returned on a send error: ping, a side's pong
  entries,    \* the places in Announced whose provider is in the pool
  cut,        \* the network is cut
  silence,    \* ticks since then
  timedOut,   \* history: the sides that failed because their deadline passed
  now         \* the clock

vars == <<place, quiet, stream, pongs, sincePing, ended, entries, cut, silence, timedOut, now>>

(***************************************************************************)
(* "handshake" in wire.Handshake     "hello"  HELLO is awaited, or next    *)
(* "register"  the server registers  "run"    the read loop runs           *)
(* "remove"    run returned          "over"   the session ended            *)
(***************************************************************************)
Places == {"handshake", "hello", "register", "run", "remove", "over"}
Kinds == {"HANDSHAKE", "HELLO", "PING", "PONG", "BUSY"}
Reading == {"handshake", "hello", "run"}

TypeOK ==
  /\ place \in [Sides -> Places]
  /\ quiet \in [Sides -> 0..IdleTimeout]
  /\ stream \in [Sides -> Seq([kind : Kinds, age : 0..MaxTime])]
  /\ pongs \in [Sides -> BOOLEAN]
  /\ sincePing \in 0..PingEvery
  /\ ended \subseteq {"ping"} \cup Sides
  /\ entries \subseteq 1..Len(Announced)
  /\ cut \in BOOLEAN
  /\ silence \in 0..MaxTime
  /\ timedOut \subseteq Sides
  /\ now \in 0..MaxTime

(* The client has dialled and its first handshake message is under way. *)
Init ==
  /\ place = [x \in Sides |-> "handshake"]
  /\ quiet = [x \in Sides |-> 0]
  /\ stream = [x \in Sides |-> IF x = "server" THEN <<[kind |-> "HANDSHAKE", age |-> 0]>>
                               ELSE <<>>]
  /\ pongs = [x \in Sides |-> FALSE]
  /\ sincePing = 0
  /\ ended = {}
  /\ entries = {}
  /\ cut = FALSE /\ silence = 0
  /\ timedOut = {}
  /\ now = 0

-----------------------------------------------------------------------------
(* What side x sends does not arrive: the network is cut or the other side has closed. *)
Unheard(x) == cut \/ place[Other(x)] \in {"remove", "over"}

(* Side x sends a message of kind k. *)
Sent(s, x, k) ==
  IF Unheard(x) THEN s
  ELSE [s EXCEPT ![Other(x)] = Append(@, [kind |-> k, age |-> 0])]

(* The next message that side x reads. *)
Incoming(x, k) == ~cut /\ stream[x] # <<>> /\ Head(stream[x]).kind = k

(* The streams without it. *)
Rest(x) == [stream EXCEPT ![x] = Tail(@)]

(* A side's deadline is set again. *)
Fresh(x) == quiet' = [quiet EXCEPT ![x] = 0]

Goes(x, p) == place' = [place EXCEPT ![x] = p]

(* Handshake, responder: it answers, is done, and waits for HELLO. *)
Accept ==
  /\ place["server"] = "handshake"
  /\ Incoming("server", "HANDSHAKE")
  /\ stream' = Sent(Rest("server"), "server", "HANDSHAKE")
  /\ Goes("server", "hello")
  /\ Fresh("server")
  /\ UNCHANGED <<pongs, sincePing, ended, entries, cut, silence, timedOut, now>>

(* Handshake, initiator: it is done, and Serve sends HELLO and runs. *)
Serve ==
  /\ place["client"] = "handshake"
  /\ Incoming("client", "HANDSHAKE")
  /\ stream' = Sent(Rest("client"), "client", "HELLO")
  /\ Goes("client", "run")
  /\ Fresh("client")
  /\ UNCHANGED <<pongs, sincePing, ended, entries, cut, silence, timedOut, now>>

(* Conn.hello: the first message. *)
Hello ==
  /\ place["server"] = "hello"
  /\ Incoming("server", "HELLO")
  /\ stream' = Rest("server")
  /\ Goes("server", "register")
  /\ Fresh("server")
  /\ UNCHANGED <<pongs, sincePing, ended, entries, cut, silence, timedOut, now>>

(* Conn.fail and the closing of the socket: the other side reads what it was sent
   and then the end.  What run left to do is only the server's. *)
Closes(x) ==
  /\ Goes(x, IF x = "server" /\ place[x] = "run" THEN "remove" ELSE "over")
  /\ stream' = [stream EXCEPT ![x] = <<>>]

(* register's loop: a provider joins the pool, or is the second of its service. *)
Register ==
  LET i == Cardinality(entries) + 1 IN
  /\ place["server"] = "register"
  /\ i <= Len(Announced)
  /\ IF \E k \in 1..(i - 1) : Announced[k] = Announced[i]
     THEN Closes("server") /\ UNCHANGED entries
     ELSE entries' = entries \cup {i} /\ UNCHANGED <<place, stream>>
  /\ UNCHANGED <<quiet, pongs, sincePing, ended, cut, silence, timedOut, now>>

(* register returned them all: the ping goroutine and the read loop start. *)
Registered ==
  /\ place["server"] = "register"
  /\ Cardinality(entries) = Len(Announced)
  /\ Goes("server", "run")
  /\ Fresh("server")
  /\ sincePing' = 0
  /\ UNCHANGED <<stream, pongs, ended, entries, cut, silence, timedOut, now>>

(* Mutant of Read: only the messages of jobs count as life. *)
ReadOnlyJobs(x) ==
  /\ place[x] = "run" /\ ~cut /\ stream[x] # <<>>
  /\ stream' = Rest(x)
  /\ pongs' = [pongs EXCEPT ![x] = @ \/ Head(stream[x]).kind = "PING"]
  /\ IF Head(stream[x]).kind = "BUSY" THEN Fresh(x) ELSE UNCHANGED quiet
  /\ UNCHANGED <<place, sincePing, ended, entries, cut, silence, timedOut, now>>

(* The read loop: any message counts as life, a PING leaves a token for pong. *)
Read(x) ==
  /\ place[x] = "run"
  /\ ~cut /\ stream[x] # <<>>
  /\ stream' = Rest(x)
  /\ pongs' = [pongs EXCEPT ![x] = @ \/ Head(stream[x]).kind = "PING"]
  /\ Fresh(x)
  /\ UNCHANGED <<place, sincePing, ended, entries, cut, silence, timedOut, now>>

(* Side x's goroutine g sends a message of kind k.  What does not arrive may come
   back as an error, a reset or the write deadline: then g returns, and is not started
   again, while the connection stays open to its reader. *)
GoroutineSends(x, g, k) ==
  \/ stream' = Sent(stream, x, k) /\ UNCHANGED ended
  \/ Unheard(x) /\ ended' = ended \cup {g} /\ UNCHANGED stream

(* The pong goroutine. *)
Pong(x) ==
  /\ place[x] = "run"
  /\ pongs[x] /\ x \notin ended
  /\ pongs' = [pongs EXCEPT ![x] = FALSE]
  /\ GoroutineSends(x, x, "PONG")
  /\ UNCHANGED <<place, quiet, sincePing, entries, cut, silence, timedOut, now>>

(* The ping goroutine, which only handle starts. *)
Ping ==
  /\ place["server"] = "run"
  /\ sincePing = PingEvery
  /\ sincePing' = 0
  /\ GoroutineSends("server", "ping", "PING")
  /\ UNCHANGED <<place, quiet, pongs, entries, cut, silence, timedOut, now>>

(* A job on this connection sends something. *)
Busy(x) ==
  /\ place[x] = "run"
  /\ Cardinality({i \in 1..Len(stream[Other(x)]) : stream[Other(x)][i].kind = "BUSY"}) < MaxBusy
  /\ stream' = Sent(stream, x, "BUSY")
  /\ UNCHANGED <<place, quiet, pongs, sincePing, ended, entries, cut, silence, timedOut, now>>

(* Mutant of Deadline: only the read loop has one. *)
DeadlineInRun(x) == place[x] = "run" /\ quiet[x] = IdleTimeout

(* The deadline of the handshake, of HELLO or of the next read has passed. *)
Deadline(x) == place[x] \in Reading /\ quiet[x] = IdleTimeout

TimeOut(x) ==
  /\ Deadline(x)
  /\ Closes(x)
  /\ timedOut' = timedOut \cup {x}
  /\ UNCHANGED <<quiet, pongs, sincePing, ended, entries, cut, silence, now>>

(* A side has read to the end of what the other sent before it closed. *)
AtEnd(x) ==
  /\ place[x] \in Reading
  /\ ~cut /\ stream[x] = <<>>
  /\ place[Other(x)] \in {"remove", "over"}

EndOfFile(x) ==
  /\ AtEnd(x)
  /\ Closes(x)
  /\ UNCHANGED <<quiet, pongs, sincePing, ended, entries, cut, silence, timedOut, now>>

(* A side closes for a reason of its own: its daemon stops, or a job is out of
   step. *)
Stop(x) ==
  /\ place[x] = "run"
  /\ Closes(x)
  /\ UNCHANGED <<quiet, pongs, sincePing, ended, entries, cut, silence, timedOut, now>>

(* Mutant of Remove: only the first provider is taken out. *)
RemoveFirst ==
  /\ place["server"] = "remove"
  /\ entries' = entries \ {1}
  /\ Goes("server", "over")
  /\ UNCHANGED <<quiet, stream, pongs, sincePing, ended, cut, silence, timedOut, now>>

(* handle's deferred pool.Remove, one provider after the other. *)
Remove ==
  /\ place["server"] = "remove"
  /\ \/ \E i \in entries :
          /\ \A k \in entries : i <= k
          /\ entries' = entries \ {i}
          /\ UNCHANGED place
     \/ entries = {} /\ Goes("server", "over") /\ UNCHANGED entries
  /\ UNCHANGED <<quiet, stream, pongs, sincePing, ended, cut, silence, timedOut, now>>

(* The network is cut, or a machine dies: nobody is told. *)
Cut ==
  /\ ~cut
  /\ cut' = TRUE
  /\ stream' = [x \in Sides |-> <<>>]
  /\ UNCHANGED <<place, quiet, pongs, sincePing, ended, entries, silence, timedOut, now>>

(***************************************************************************)
(* Time passes.  What is due happens first: deadlines, the ping ticker, a  *)
(* token for pong, the steps of handle, and a message of age MaxDelay.     *)
(***************************************************************************)
Due ==
  \/ \E x \in Sides : Deadline(x)
  \/ \E x \in Sides : place[x] = "run" /\ pongs[x] /\ x \notin ended
  \/ \E x \in Sides : \E i \in 1..Len(stream[x]) : stream[x][i].age = MaxDelay
  \/ \E x \in Sides : AtEnd(x)
  \/ place["server"] = "run" /\ sincePing = PingEvery
  \/ place["server"] \in {"register", "remove"}

Tick ==
  /\ now < MaxTime
  /\ ~Due
  /\ now' = now + 1
  /\ quiet' = [x \in Sides |-> IF place[x] \in Reading THEN quiet[x] + 1 ELSE 0]
  /\ sincePing' = IF place["server"] = "run" /\ "ping" \notin ended THEN sincePing + 1 ELSE 0
  /\ stream' = [x \in Sides |-> [i \in DOMAIN stream[x] |-> [stream[x][i] EXCEPT !.age = @ + 1]]]
  /\ silence' = IF cut THEN silence + 1 ELSE 0
  /\ UNCHANGED <<place, pongs, ended, entries, cut, timedOut>>

Done ==
  /\ now = MaxTime \/ \A x \in Sides : place[x] = "over"
  /\ UNCHANGED vars

Next ==
  \/ Accept \/ Serve \/ Hello \/ Register \/ Registered \/ Remove
  \/ Ping \/ Cut \/ Tick \/ Done
  \/ \E x \in Sides : Read(x) \/ Pong(x) \/ Busy(x) \/ TimeOut(x) \/ EndOfFile(x) \/ Stop(x)

Spec == Init /\ [][Next]_vars

-----------------------------------------------------------------------------
(***************************************************************************)
(* No false alarm: while the network delivers and both sides are there,    *)
(* nobody's deadline passes, however quiet the jobs are.  A client hears   *)
(* the server's PINGs and a server the client's PONGs (conn.go:320, :334). *)
(***************************************************************************)
NoFalseTimeout ==
  timedOut # {} => cut \/ \E x \in Sides : place[x] \in {"remove", "over"} /\ x \notin timedOut

(***************************************************************************)
(* A peer that vanished without a word is noticed by the other side within *)
(* IdleTimeout, in the handshake, before HELLO and after it, and then its  *)
(* providers are out of the pool (server.go:102, :142, conn.go:98, :246).  *)
(***************************************************************************)
SilenceIsNoticed ==
  silence > IdleTimeout => (\A x \in Sides : place[x] = "over") /\ entries = {}

(***************************************************************************)
(* PROTOCOL.md:122-124: a HELLO that announces a service twice is refused  *)
(* and the connection closed.  A provider is in the pool only while its    *)
(* connection is handled (server.go:137-146).                              *)
(***************************************************************************)
NoGhostProviders == place["server"] = "over" => entries = {}
=============================================================================
