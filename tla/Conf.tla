-------------------------------- MODULE Conf --------------------------------
(***************************************************************************)
(* The configuration file (src/internal/conf): from the lines of a file to *)
(* a Conf with its defaults, or to a refusal of the whole file.  Which     *)
(* line a refusal names is left out, and with it the order of the checks:  *)
(* a file is refused when any of them fails.                               *)
(*                                                                         *)
(* A line is what the grammar makes of its text: blank (or a comment), a   *)
(* section header, a setting, or neither.  A value is what its text says:  *)
(* an address is a host and a port (0 when it is no number), a duration    *)
(* and a number are integers (-1 when they are none), a secret is how many *)
(* characters it has and whether they are hexadecimal.  A name is its      *)
(* bytes.                                                                  *)
(***************************************************************************)
EXTENDS Wire

CONSTANTS
  SecretSize,            \* bytes in a shared secret
  DefaultListen,         \* conf.DefaultListen
  DefaultQueueTimeout,   \* conf.DefaultQueueTimeout
  DefaultPriority,       \* conf.DefaultPriority
  MaxPort,               \* the largest port there is, 65535
  OsHostname             \* what os.Hostname says, <<>> when it fails

(* Conf.Concurrent when the file does not say: DefaultConcurrent. *)
DefaultConcurrent == 1

-----------------------------------------------------------------------------
(* parse.go *)

(* The sections that exist, and whether each is named. *)
sectionKinds == [kind \in {"peer", "consume", "provide"} |-> kind # "peer"]

(* header takes the line: a known section, named exactly when it has to be. *)
header(line) ==
  /\ line.kind \in DOMAIN sectionKinds
  /\ sectionKinds[line.kind] <=> line.name # <<>>

(* setting takes the line under the current section: there is one, and the key is
   not set in it yet. *)
setting(line, sections) ==
  sections # <<>> /\ line.key \notin DOMAIN Last(sections).keys

NewSection(line) == [kind |-> line.kind, name |-> line.name, keys |-> [key \in {} |-> 0]]

(* The section with one more key. *)
WithKey(section, key, value) ==
  [section EXCEPT !.keys = [k \in DOMAIN @ \cup {key} |-> IF k = key THEN value ELSE @[k]]]

(* One turn of split's loop. *)
SplitLine(acc, line) ==
  LET ss == acc.sections
  IN CASE line.form = "blank" -> acc
       [] line.form = "section" /\ header(line) ->
            [acc EXCEPT !.sections = Append(@, NewSection(line))]
       [] line.form = "setting" /\ setting(line, ss) ->
            [acc EXCEPT !.sections[Len(ss)] = WithKey(@, line.key, line.value)]
       [] OTHER -> [acc EXCEPT !.ok = FALSE]

(* The sections of a file, and whether all of its lines were taken. *)
split(lines) == FoldLeft(SplitLine, [ok |-> TRUE, sections |-> <<>>], lines)

-----------------------------------------------------------------------------
(* build.go: the values that parse. *)

role(v) == v \in {"server", "client"}

address(v, needHost) == v.port \in 1..MaxPort /\ (needHost => v.host # "")

secret(v) == v.chars = 2 * SecretSize /\ v.hex

duration(v) == v > 0

number(v, low) == v >= low /\ v < Limit(2)

(* The shape every name has. *)
name(s) == s # <<>> /\ Len(s) < Limit(1) /\ ValidText(s)

(* Mutant of hostname: what the system says is taken as it is. *)
hostnameUnchecked == OsHostname

(* What a peer is called when the file does not say; "httppooler" is any name. *)
hostname == IF name(OsHostname) THEN OsHostname ELSE <<0>>

-----------------------------------------------------------------------------
(* build.go: the sections. *)

Has(section, key) == key \in DOMAIN section.keys

(* The value of a key, or its default. *)
Value(section, key, default) == IF Has(section, key) THEN section.keys[key] ELSE default

(* section.known. *)
known(section, allowed) == DOMAIN section.keys \subseteq allowed

(* Conf.peer does not refuse: every key that is there parses. *)
peerTaken(s) ==
  /\ known(s, {"role", "listen", "server", "secret", "name", "queue_timeout"})
  /\ Has(s, "role") => role(s.keys["role"])
  /\ Has(s, "listen") => address(s.keys["listen"], FALSE)
  /\ Has(s, "server") => address(s.keys["server"], TRUE)
  /\ Has(s, "secret") => secret(s.keys["secret"])
  /\ Has(s, "name") => name(s.keys["name"])
  /\ Has(s, "queue_timeout") => duration(s.keys["queue_timeout"])

(* Conf.consume does not refuse. *)
consumeTaken(s) ==
  known(s, {"listen"}) /\ name(s.name) /\ Has(s, "listen") /\ address(s.keys["listen"], FALSE)

(* Conf.provide does not refuse. *)
provideTaken(s) ==
  /\ known(s, {"upstream", "max_concurrent", "priority"})
  /\ name(s.name)
  /\ Has(s, "upstream") /\ address(s.keys["upstream"], TRUE)
  /\ Has(s, "max_concurrent") => number(s.keys["max_concurrent"], 1)
  /\ Has(s, "priority") => number(s.keys["priority"], 0)

(* One [peer], and one section of a kind about a service: the peer section has no
   name, so this is the same rule. *)
NoneTwice(ss) ==
  \A i, k \in 1..Len(ss) : ss[i].kind = ss[k].kind /\ ss[i].name = ss[k].name => i = k

(* Conf.checkRole does not refuse. *)
checkRole(peer) ==
  Has(peer, "role") =>
    /\ Has(peer, "secret")
    /\ IF peer.keys["role"] = "client"
       THEN Has(peer, "server") /\ ~Has(peer, "listen") /\ ~Has(peer, "queue_timeout")
       ELSE ~Has(peer, "server")

(* What Load gives for a file it refuses. *)
Refused == [role |-> "refused"]

OfKind(ss, kind) == SelectSeq(ss, LAMBDA s : s.kind = kind)

(* build: the Conf of these sections, defaults filled in. *)
build(ss) ==
  LET peers == OfKind(ss, "peer")
      consumes == OfKind(ss, "consume")
      provides == OfKind(ss, "provide")
      peer == IF peers = <<>> THEN NewSection([kind |-> "peer", name |-> <<>>]) ELSE peers[1]
  IN IF /\ NoneTwice(ss) /\ checkRole(peer)
        /\ \A s \in ToSet(peers) : peerTaken(s)
        /\ \A s \in ToSet(consumes) : consumeTaken(s)
        /\ \A s \in ToSet(provides) : provideTaken(s)
     THEN [role |-> Value(peer, "role", "none"),
           listen |-> Value(peer, "listen", DefaultListen),
           server |-> Value(peer, "server", [host |-> "", port |-> 0]),
           secret |-> Value(peer, "secret", [chars |-> 0, hex |-> TRUE]),
           name |-> Value(peer, "name", hostname),
           queueTimeout |-> Value(peer, "queue_timeout", DefaultQueueTimeout),
           consume |-> [i \in 1..Len(consumes) |->
             [service |-> consumes[i].name, listen |-> consumes[i].keys["listen"]]],
           provide |-> [i \in 1..Len(provides) |->
             [service |-> provides[i].name, upstream |-> provides[i].keys["upstream"],
              slots |-> Value(provides[i], "max_concurrent", DefaultConcurrent),
              priority |-> Value(provides[i], "priority", DefaultPriority)]]]
     ELSE Refused

(* Parse. *)
ParseConf(lines) ==
  LET r == split(lines) IN IF r.ok THEN build(r.sections) ELSE Refused

-----------------------------------------------------------------------------
(* peer/endpoint.go: what a peer with this Conf announces. *)

(* Endpoint.hello. *)
hello(c) ==
  [kind |-> "HELLO", name |-> c.name,
   providers |-> [i \in 1..Len(c.provide) |->
     [service |-> c.provide[i].service, slots |-> c.provide[i].slots,
      priority |-> c.provide[i].priority]]]

(* NewEndpoint's byName: the provide section a REQUEST for the service is run with. *)
byName(c) ==
  [s \in {c.provide[i].service : i \in 1..Len(c.provide)} |->
     c.provide[CHOOSE i \in 1..Len(c.provide) :
                 /\ c.provide[i].service = s
                 /\ \A k \in (i + 1)..Len(c.provide) : c.provide[k].service # s]]
=============================================================================
