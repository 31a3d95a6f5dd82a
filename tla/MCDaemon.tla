------------------------------ MODULE MCDaemon ------------------------------
(***************************************************************************)
(* An instance of Daemon for TLC.  A byte is a decimal digit: a name has   *)
(* at most 9 bytes, a HELLO 9 providers, a number is at most 99.  The      *)
(* digit 9 is no text.                                                     *)
(***************************************************************************)
EXTENDS Daemon, TLC

MCKindByte ==
  "HELLO" :> 1 @@ "PING" :> 2 @@ "PONG" :> 3 @@ "REQUEST" :> 4 @@ "RESPONSE" :> 5
    @@ "BODY" :> 6 @@ "END" :> 7 @@ "CANCEL" :> 8 @@ "FAIL" :> 9
MCValidText(s) == 9 \notin ToSet(s)

Port(n) == [host |-> "", port |-> n]
Host(n) == [host |-> "h", port |-> n]
MCDefaultListen == Port(1)
MCContended == {Port(1), Port(2)}
MCOsHostname == <<4, 9>>

Blank == [form |-> "blank"]
Neither == [form |-> "neither"]
Section(kind, n) == [form |-> "section", kind |-> kind, name |-> n]
Set(key, v) == [form |-> "setting", key |-> key, value |-> v]

Key == Set("secret", [chars |-> 4, hex |-> TRUE])
AsServer == <<Section("peer", <<>>), Set("role", "server"), Key>>
AsClient == <<Section("peer", <<>>), Set("role", "client"), Key, Set("server", Host(7))>>
Consume(n, port) == <<Section("consume", n), Set("listen", Port(port))>>
Provide(n) == <<Section("provide", n), Set("upstream", Host(8))>>
Long == [i \in 1..9 |-> 4]
TooLong == [i \in 1..10 |-> 4]

(* Accepted: two with no role yet, servers and clients, one whose ports collide, and
   one with more providers than a HELLO can count. *)
Good ==
  "fresh" :> <<Blank, Section("peer", <<>>)>>
  @@ "server" :> AsServer \o Consume(<<4>>, 2) \o Provide(<<4>>)
  @@ "limits" :> AsServer \o <<Set("listen", Host(9)), Set("queue_timeout", 1),
                               Set("name", Long)>>
                 \o Provide(Long) \o <<Set("max_concurrent", 99), Set("priority", 0)>>
  @@ "client" :> Provide(<<5>>) \o AsClient \o Consume(<<4>>, 2) \o Consume(<<5>>, 3)
  @@ "collide" :> AsServer \o Consume(<<4>>, 2) \o Consume(<<5>>, 2)
  @@ "many" :> AsServer \o FlattenSeq([i \in 1..10 |-> Provide(<<i \div 5, i % 5>>)])
               \o Consume(<<4>>, 3)

(* One file for each thing that is refused. *)
Bad ==
  "torn" :> AsServer \o <<Neither>>
  @@ "early" :> <<Key>> \o AsServer
  @@ "twice" :> AsServer \o <<Key>>
  @@ "unknown" :> AsServer \o <<Section("pier", <<>>)>>
  @@ "named" :> <<Section("peer", <<4>>)>>
  @@ "nameless" :> AsServer \o Consume(<<>>, 2)
  @@ "peers" :> AsServer \o <<Section("peer", <<>>)>>
  @@ "key" :> AsServer \o <<Set("upstream", Host(8))>>
  @@ "role" :> <<Section("peer", <<>>), Set("role", "both")>>
  @@ "port" :> AsServer \o Consume(<<4>>, 0)
  @@ "host" :> AsServer \o <<Section("provide", <<4>>), Set("upstream", Port(8))>>
  @@ "secret" :> <<Section("peer", <<>>), Set("secret", [chars |-> 3, hex |-> TRUE])>>
  @@ "nosecret" :> <<Section("peer", <<>>), Set("role", "server")>>
  @@ "wait" :> AsServer \o <<Set("queue_timeout", 0)>>
  @@ "slots" :> AsServer \o Provide(<<4>>) \o <<Set("max_concurrent", 0)>>
  @@ "priority" :> AsServer \o Provide(<<4>>) \o <<Set("priority", 100)>>
  @@ "long" :> AsServer \o <<Set("name", TooLong)>>
  @@ "notext" :> AsServer \o Provide(<<9>>)
  @@ "again" :> AsServer \o Provide(<<4>>) \o Provide(<<4>>)
  @@ "nowhere" :> AsServer \o <<Section("provide", <<4>>)>>
  @@ "deaf" :> AsServer \o <<Section("consume", <<4>>)>>
  @@ "undialled" :> <<Section("peer", <<>>), Set("role", "client"), Key>>
  @@ "listens" :> AsClient \o <<Set("listen", Port(1))>>
  @@ "dials" :> AsServer \o <<Set("server", Host(7))>>

MCFiles == Good @@ Bad
MCFileNames == DOMAIN MCFiles \cup {"missing"}
MCWritten == DOMAIN Good \cup {"torn", "missing"}

(* Every file of Good is accepted, and every file of Bad is refused. *)
ASSUME AsNamed ==
  \A f \in DOMAIN MCFiles : (ParseConf(MCFiles[f]) = Refused) <=> f \in DOMAIN Bad
=============================================================================
