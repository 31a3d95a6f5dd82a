------------------------------ MODULE Channel -------------------------------
(***************************************************************************)
(* One connection between a client and the server, from its first byte to  *)
(* its last: the preamble and the framed Noise handshake                   *)
(* (src/internal/wire/wire.go and record.go Handshake), the records (the   *)
(* rest of record.go), and the messages that Encoder and Decoder put in    *)
(* them and take out (Conn.send and Conn.run in src/internal/peer).        *)
(*                                                                         *)
(* The carrier is a byte stream that may lose, repeat, swap or spoil what  *)
(* it carries, MaxFaults times; a write may be cut short by its deadline,  *)
(* which does not end the connection.  Either side may close at any moment *)
(* (an idle timeout, the daemon stopping).                                 *)
(***************************************************************************)
EXTENDS Noise, Wire, Headers

CONSTANTS
  Peerings,    \* the secrets and protocol versions the two sides may have
  Says,        \* what each side may have to say, see MessageOf
  Strays,      \* plaintext that a server of another make writes
  MaxSaid,     \* bound: how many messages each side writes
  MaxFaults    \* bound: faults of the carrier and of writes

Sides == {"client", "server"}
Other(x) == IF x = "client" THEN "server" ELSE "client"

ASSUME ChannelAssumption ==
  {Connection, ContentLength} \subseteq {Canonical(n) : n \in {Connection, ContentLength}}

(* A side is its secret and its version. *)
ASSUME PeeringsAssumption ==
  \A p \in Peerings : \A x \in Sides :
    p[x] = [psk |-> p[x].psk, version |-> p[x].version]

(* The message for src: a REQUEST as consume makes it of the application's
   request, a RESPONSE as runUpstream makes it of the upstream's answer, and
   any other message as it is. *)
MessageOf(src) ==
  CASE src.kind = "REQUEST" ->
         [kind |-> "REQUEST", job |-> src.job, service |-> src.service,
          method |-> src.method, target |-> src.target,
          headers |-> requestHeaders(src.http, src.length)]
    [] src.kind = "RESPONSE" ->
         [kind |-> "RESPONSE", job |-> src.job, status |-> src.status,
          headers |-> fromHTTP(src.http, {})]
    [] OTHER -> src

(* A string of bytes. *)
Bytes == Seq(0..(Base - 1))

(* An encoding is a string of bytes, and so is what another make writes. *)
ASSUME EncodingAssumption ==
  /\ \A x \in Sides : \A src \in Says[x] :
       Encodable(MessageOf(src)) => Encode(MessageOf(src)) \in Bytes
  /\ Strays \subseteq Bytes

VARIABLES
  peer,        \* the secret of each side, and VersionNewest of its build
  place,       \* "start", "answer", "open" or "closed", of each side
  hs,          \* the Noise handshake of each side
  send,        \* the RecordWriter's cipher state
  receive,     \* the RecordReader's cipher state
  net,         \* what is on its way to each side
  sentHello,   \* Encoder.sentHello
  gotHello,    \* Decoder.gotHello
  plain,       \* the plaintext that is decrypted and not decoded
  said,        \* history: what each side has tried to write
  got,         \* history: the messages each side has read
  taken,       \* history: the bytes those messages were read from
  refused,     \* history: the side has refused what came in
  harmed,      \* history: something went wrong on the way to each side
  used,        \* history: the counters each side has sealed a record with
  faults       \* how many faults there have been

vars == <<peer, place, hs, send, receive, net, sentHello, gotHello, plain, said, got, taken,
          refused, harmed, used, faults>>

(* The client is the initiator. *)
Init ==
  /\ peer \in Peerings
  /\ place = [x \in Sides |-> "start"]
  /\ hs = [x \in Sides |->
            NewHandshake(x = "client", peer[x].psk, <<"preamble", peer[x].version>>)]
  /\ send = [x \in Sides |-> newCipherState(<<>>)]
  /\ receive = [x \in Sides |-> newCipherState(<<>>)]
  /\ net = [x \in Sides |-> <<>>]
  /\ sentHello = [x \in Sides |-> FALSE]
  /\ gotHello = [x \in Sides |-> FALSE]
  /\ plain = [x \in Sides |-> <<>>]
  /\ said = [x \in Sides |-> <<>>]
  /\ got = [x \in Sides |-> <<>>]
  /\ taken = [x \in Sides |-> <<>>]
  /\ refused = [x \in Sides |-> FALSE]
  /\ harmed = [x \in Sides |-> FALSE]
  /\ used = [x \in Sides |-> <<>>]
  /\ faults = 0

-----------------------------------------------------------------------------
(* The stream.  A preamble, a framed handshake message and a record are each one
   item of it; cut is a record of which only a part was written. *)

Preamble(v) == [is |-> "preamble", magic |-> TRUE, version |-> v]
Frame(m) == [is |-> "frame", e |-> m.e, box |-> m.box]
Record(box) == [is |-> "record", box |-> box]
CutShort == [is |-> "cut"]

(* The stream to the side other than x with items behind it. *)
Written(n, x, items) ==
  IF place[Other(x)] = "closed" THEN n ELSE [n EXCEPT ![Other(x)] = @ \o items]

(* Side x closes; nothing that is under way to it is read any more. *)
Closes(x) ==
  /\ place' = [place EXCEPT ![x] = "closed"]
  /\ net' = [net EXCEPT ![x] = <<>>]

(* Side x has met something wrong, which ends the connection. *)
Refuses(x) ==
  /\ Closes(x)
  /\ refused' = [refused EXCEPT ![x] = TRUE]

Unread == <<peer, sentHello, gotHello, plain, said, got, taken, harmed, used, faults>>

-----------------------------------------------------------------------------
(* Handshake. *)

(* The ephemeral key that a side's random bytes give it. *)
Ephemeral(x) == x

(* The initiator writes its preamble and its message without waiting. *)
Initiate ==
  /\ place["client"] = "start"
  /\ TurnToWrite(hs["client"])
  /\ LET e == Ephemeral("client") IN
       /\ net' = Written(net, "client", <<Preamble(peer["client"].version),
                                          Frame(HandshakeMessage(hs["client"], e))>>)
       /\ hs' = [hs EXCEPT !["client"] = WriteMessage(@, e)]
  /\ place' = [place EXCEPT !["client"] = "answer"]
  /\ UNCHANGED <<send, receive, refused, Unread>>

(* readVersion: the magic is there and the version is this build's. *)
GoodVersion(x, item) == item.is = "preamble" /\ item.magic /\ item.version = peer[x].version

(* There is enough of them to read: both, or a preamble that is refused. *)
ThereIsAnswer(x) == Len(net[x]) >= 2 \/ (net[x] # <<>> /\ ~GoodVersion(x, net[x][1]))

(* The handshake of side x after the preamble and the message it reads next. *)
Answered(x) ==
  IF GoodVersion(x, net[x][1]) /\ net[x][2].is = "frame" /\ TurnToRead(hs[x])
  THEN ReadMessage(hs[x], net[x][2]) ELSE [hs[x] EXCEPT !.failed = TRUE]

Opened(x, h) ==
  /\ place' = [place EXCEPT ![x] = "open"]
  /\ hs' = [hs EXCEPT ![x] = h]
  /\ send' = [send EXCEPT ![x] = Split(h).send]
  /\ receive' = [receive EXCEPT ![x] = Split(h).receive]

(* The responder reads both, answers both, and is done. *)
Respond ==
  LET read == Answered("server")
      e == Ephemeral("server")
      written == WriteMessage(read, e)
  IN
  /\ place["server"] = "start"
  /\ ThereIsAnswer("server")
  /\ TurnToWrite(read) /\ CanSplit(written)
  /\ Opened("server", written)
  /\ net' = Written([net EXCEPT !["server"] = SubSeq(@, 3, Len(@))], "server",
                    <<Preamble(peer["server"].version), Frame(HandshakeMessage(read, e))>>)
  /\ UNCHANGED <<refused, Unread>>

(* The initiator reads the answer and is done. *)
Complete ==
  LET read == Answered("client") IN
  /\ place["client"] = "answer"
  /\ ThereIsAnswer("client")
  /\ CanSplit(read)
  /\ Opened("client", read)
  /\ net' = [net EXCEPT !["client"] = SubSeq(@, 3, Len(@))]
  /\ UNCHANGED <<refused, Unread>>

(* Either refuses what it reads: another version, another secret, or spoilt. *)
HandshakeFails(x) ==
  /\ place[x] = (IF x = "client" THEN "answer" ELSE "start")
  /\ ThereIsAnswer(x)
  /\ Answered(x).failed
  /\ Refuses(x)
  /\ hs' = [hs EXCEPT ![x] = Answered(x)]
  /\ UNCHANGED <<send, receive, Unread>>

-----------------------------------------------------------------------------
(* Writing. *)

(* Mutant of helloOrder: a message is written whenever there is one. *)
helloOrderUnchecked(x, m) == TRUE

(* Encoder.helloOrder. *)
helloOrder(x, m) ==
  IF x = "server" THEN m.kind # "HELLO" ELSE (m.kind = "HELLO") # sentHello[x]

(* The plaintexts of the records that RecordWriter.Write makes of bytes. *)
Chunks(bytes) ==
  [i \in 1..((Len(bytes) + MaxPlaintext - 1) \div MaxPlaintext) |->
     SubSeq(bytes, (i - 1) * MaxPlaintext + 1,
            IF i * MaxPlaintext < Len(bytes) THEN i * MaxPlaintext ELSE Len(bytes))]

(* Record i of those, sealed with the counter it has by then. *)
Sealed(x, chunks, i) == Record(seal(Advanced(send[x], i - 1), <<>>, chunks[i]))

(* How many of the records Encrypt does not refuse. *)
CanSend(x, chunks) ==
  CHOOSE n \in 0..Len(chunks) :
    /\ \A i \in 1..n : CanSeal(Advanced(send[x], i - 1), chunks[i])
    /\ n < Len(chunks) => ~CanSeal(Advanced(send[x], n), chunks[n + 1])

(* RecordWriter.Write of bytes when it seals this many records and n of them are
   written whole, with tail behind them. *)
WritesRecords(x, bytes, n, sealed, tail) ==
  LET chunks == Chunks(bytes) IN
  /\ net' = Written(net, x, [i \in 1..n |-> Sealed(x, chunks, i)] \o tail)
  /\ send' = [send EXCEPT ![x] = Advanced(@, sealed)]
  /\ used' = [used EXCEPT ![x] =
                @ \o [i \in 1..sealed |-> Advanced(send[x], i - 1).nonce]]

(* Encoder.Write writes the whole message. *)
Say(x, src) ==
  LET m == MessageOf(src)
      chunks == Chunks(Encode(m))
  IN
  /\ place[x] = "open" /\ Len(said[x]) < MaxSaid[x]
  /\ helloOrder(x, m) /\ Encodable(m)
  /\ CanSend(x, chunks) = Len(chunks)
  /\ WritesRecords(x, Encode(m), Len(chunks), Len(chunks), <<>>)
  /\ sentHello' = [sentHello EXCEPT ![x] = @ \/ m.kind = "HELLO"]
  /\ said' = [said EXCEPT ![x] = Append(@, src)]
  /\ UNCHANGED <<peer, place, hs, receive, gotHello, plain, got, taken, refused, harmed,
                 faults>>

(* It does not: the deadline passes in the middle of a record, whose counter is
   used up all the same, or the counter is exhausted.  The error goes to the sender;
   only Serve, whose HELLO it was, ends the session for it. *)
SayInPart(x, src) ==
  LET m == MessageOf(src)
      chunks == Chunks(Encode(m))
      most == CanSend(x, chunks)
  IN
  /\ place[x] = "open" /\ Len(said[x]) < MaxSaid[x]
  /\ helloOrder(x, m) /\ Encodable(m)
  /\ \/ /\ faults < MaxFaults
        /\ \E n \in 0..(most - 1), tail \in {<<>>, <<CutShort>>} :
             WritesRecords(x, Encode(m), n, n + 1, tail)
        /\ faults' = faults + 1
     \/ /\ most < Len(chunks)
        /\ WritesRecords(x, Encode(m), most, most, <<>>)
        /\ UNCHANGED faults
  /\ place' = [place EXCEPT ![x] = IF m.kind = "HELLO" THEN "closed" ELSE @]
  /\ said' = [said EXCEPT ![x] = Append(@, src)]
  /\ harmed' = [harmed EXCEPT ![Other(x)] = TRUE]
  /\ UNCHANGED <<peer, hs, receive, sentHello, gotHello, plain, got, taken, refused>>

(* A server of another make writes something that this one's encoder may not. *)
SayStray(bytes) ==
  LET x == "server" IN
  /\ place[x] = "open" /\ Len(said[x]) < MaxSaid[x]
  /\ CanSend(x, Chunks(bytes)) = Len(Chunks(bytes))
  /\ WritesRecords(x, bytes, Len(Chunks(bytes)), Len(Chunks(bytes)), <<>>)
  /\ said' = [said EXCEPT ![x] = Append(@, [kind |-> "stray"])]
  /\ harmed' = [harmed EXCEPT ![Other(x)] = TRUE]
  /\ UNCHANGED <<peer, place, hs, receive, sentHello, gotHello, plain, got, taken, refused,
                 faults>>

-----------------------------------------------------------------------------
(* Reading. *)

Decoded(x) == Parse(plain[x], x, gotHello[x])

(* RecordReader.next, when the decoder needs bytes that are not there. *)
ReadRecord(x) ==
  /\ place[x] = "open" /\ Decoded(x).st = "more"
  /\ net[x] # <<>> /\ net[x][1].is = "record"
  /\ Opens(receive[x], <<>>, net[x][1].box)
  /\ plain' = [plain EXCEPT ![x] = @ \o net[x][1].box.text]
  /\ receive' = [receive EXCEPT ![x] = Advanced(@, 1)]
  /\ net' = [net EXCEPT ![x] = Tail(@)]
  /\ UNCHANGED <<peer, place, hs, send, sentHello, gotHello, said, got, taken, refused, harmed,
                 used, faults>>

(* It does not open, or it is the rest of one that was cut and what came after. *)
RefuseRecord(x) ==
  /\ place[x] = "open" /\ Decoded(x).st = "more"
  /\ net[x] # <<>>
  /\ CASE net[x][1].is = "record" -> ~Opens(receive[x], <<>>, net[x][1].box)
       [] net[x][1].is = "cut" -> Len(net[x]) > 1
       [] OTHER -> TRUE
  /\ Refuses(x)
  /\ UNCHANGED <<hs, send, receive, Unread>>

(* Side x has read the message of d. *)
Takes(x, d) ==
  /\ d.st = "ok"
  /\ got' = [got EXCEPT ![x] = Append(@, d.m)]
  /\ taken' = [taken EXCEPT ![x] = @ \o SubSeq(plain[x], 1, Len(plain[x]) - Len(d.rest))]
  /\ plain' = [plain EXCEPT ![x] = d.rest]
  /\ gotHello' = [gotHello EXCEPT ![x] = @ \/ d.m.kind = "HELLO"]

(* Decoder.Next returns a message. *)
NextMessage(x) ==
  /\ place[x] = "open"
  /\ Takes(x, Decoded(x))
  /\ UNCHANGED <<peer, place, hs, send, receive, net, sentHello, said, refused, harmed, used,
                 faults>>

(* It refuses, and so does the read loop. *)
RefuseMessage(x) ==
  /\ place[x] = "open" /\ Decoded(x).st = "bad"
  /\ Refuses(x)
  /\ UNCHANGED <<hs, send, receive, Unread>>

(* The other side has closed and there is nothing more to read. *)
EndOfStream(x) ==
  /\ place[x] # "closed" /\ place[Other(x)] = "closed"
  /\ place[x] = "open" => Decoded(x).st = "more" /\ net[x] \in {<<>>, <<CutShort>>}
  /\ place[x] # "open" => ~ThereIsAnswer(x)
  /\ Closes(x)
  /\ UNCHANGED <<hs, send, receive, refused, Unread>>

(* A deadline passes, or this side is done. *)
Close(x) ==
  /\ place[x] # "closed"
  /\ Closes(x)
  /\ UNCHANGED <<hs, send, receive, refused, Unread>>

-----------------------------------------------------------------------------
(* The carrier. *)

(* An item spoilt on the way. *)
Spoilt(item) ==
  CASE item.is = "preamble" -> {[item EXCEPT !.magic = FALSE],
                                [item EXCEPT !.version = (@ + 1) % Limit(1)]}
    [] item.is = "frame" -> {[item EXCEPT !.e = "spoilt"], [item EXCEPT !.box.intact = FALSE]}
    [] item.is = "record" -> {[item EXCEPT !.box.intact = FALSE]}
    [] item.is = "cut" -> {item}

(* An item is spoilt, lost, repeated, or overtaken by the one behind it. *)
Disturbed(s) ==
  (UNION {{ReplaceAt(s, i, t) : t \in Spoilt(s[i])} : i \in 1..Len(s)})
    \cup {RemoveAt(s, i) : i \in 1..Len(s)}
    \cup {InsertAt(s, i, s[i]) : i \in 1..Len(s)}
    \cup {SubSeq(s, 1, i - 1) \o <<s[i + 1], s[i]>> \o SubSeq(s, i + 2, Len(s)) :
            i \in 1..(Len(s) - 1)}

Disturb(x) ==
  /\ faults < MaxFaults
  /\ \E s \in Disturbed(net[x]) \ {net[x]} : net' = [net EXCEPT ![x] = s]
  /\ harmed' = [harmed EXCEPT ![x] = TRUE]
  /\ faults' = faults + 1
  /\ UNCHANGED <<peer, place, hs, send, receive, sentHello, gotHello, plain, said, got, taken,
                 refused, used>>

Over == (\A x \in Sides : place[x] = "closed") /\ UNCHANGED vars

Next ==
  \/ Initiate \/ Respond \/ Complete
  \/ \E x \in Sides :
       \/ HandshakeFails(x) \/ ReadRecord(x) \/ RefuseRecord(x) \/ NextMessage(x)
       \/ RefuseMessage(x) \/ EndOfStream(x) \/ Close(x) \/ Disturb(x)
       \/ \E src \in Says[x] : Say(x, src) \/ SayInPart(x, src)
  \/ \E bytes \in Strays : SayStray(bytes)
  \/ Over

Spec == Init /\ [][Next]_vars

-----------------------------------------------------------------------------
(* Properties. *)

(***************************************************************************)
(* The codec is faithful: the decoder takes what the encoder wrote for the *)
(* message that was meant, whole and with nothing left over, and waits as  *)
(* long as a part of it is missing; what another make writes as a message  *)
(* it takes whole or refuses.  The decoder's state is one in which the     *)
(* message may come (encode.go, decode.go).                                *)
(***************************************************************************)
CodecFaithful ==
  \A g \in BOOLEAN :
    /\ \A x \in Sides : \A src \in Says[x] :
         LET m == MessageOf(src)
             bytes == Encode(m)
         IN Encodable(m) /\ HelloInPlace(Other(x), g, m.kind) =>
              /\ \A n \in 0..(Len(bytes) - 1) :
                   Parse(SubSeq(bytes, 1, n), Other(x), g).st = "more"
              /\ Parse(bytes, Other(x), g) = [st |-> "ok", m |-> m, rest |-> <<>>]
    /\ \A bytes \in Strays :
         /\ \A n \in 0..(Len(bytes) - 1) :
              Parse(SubSeq(bytes, 1, n), "client", g).st # "ok"
         /\ LET d == Parse(bytes, "client", g)
            IN d.st = "bad" \/ (d.st = "ok" /\ d.rest = <<>>)

(***************************************************************************)
(* A side whose handshake succeeded has a peer with its secret and its     *)
(* version, and when both have succeeded each reads with the key the other *)
(* writes with, a different one in each direction, whatever the carrier    *)
(* did to the two messages (noise.go:152, record.go:154).                  *)
(***************************************************************************)
KeysAgree ==
  /\ \A x \in Sides : place[x] = "open" => peer[x] = peer[Other(x)]
  /\ (\A x \in Sides : place[x] = "open") =>
       /\ \A x \in Sides : send[x].key = receive[Other(x)].key
       /\ send["client"].key # send["server"].key

(***************************************************************************)
(* What a side has read is what the other wrote, from the first message    *)
(* on, in order and without a gap: nothing behind a lost, repeated,        *)
(* swapped, spoilt or half-written record is ever taken (record.go:89,     *)
(* conn.go:116).                                                           *)
(***************************************************************************)
DeliveredAsSaid ==
  \A x \in Sides :
    /\ Len(got[x]) <= Len(said[Other(x)])
    /\ \A i \in 1..Len(got[x]) :
         LET src == said[Other(x)][i] IN src.kind # "stray" => got[x][i] = MessageOf(src)

(***************************************************************************)
(* A side refuses only when something went wrong on the way to it, or the  *)
(* two disagree on the secret or the version: the encoder puts nothing on  *)
(* the wire that the decoder at the other end would not take (encode.go:3, *)
(* "every range PROTOCOL.md states is checked on both sides").             *)
(***************************************************************************)
RefusedOnlyIfHarmed ==
  \A x \in Sides : refused[x] => harmed[x] \/ peer[x] # peer[Other(x)]

(***************************************************************************)
(* The decoder takes nothing that the encoder would not write: the bytes   *)
(* behind the messages a side has read are those messages' own encodings,  *)
(* also when the peer is of another make (decode.go:3).                    *)
(***************************************************************************)
TakenAsEncoded ==
  \A x \in Sides :
    /\ \A i \in 1..Len(got[x]) : Encodable(got[x][i])
    /\ taken[x] = FlattenSeq([i \in 1..Len(got[x]) |-> Encode(got[x][i])])

(***************************************************************************)
(* No counter is used twice under one key, also when a write failed and    *)
(* when the counter runs out in the middle of a message (state.go:203).    *)
(***************************************************************************)
NonceNeverReused == \A x \in Sides : IsInjective(used[x])

(* The names a Connection header lists, in whatever letters. *)
Listed(h, n) ==
  /\ Connection \in DOMAIN h
  /\ \E v \in ToSet(h[Connection]) : \E t \in TokensOf(v) : Canonical(t) = n

(* The headers of h, but for those in drop, that belong to the message. *)
EndToEnd(h, drop) ==
  [n \in {n \in DOMAIN h : n \notin HopByHop \cup drop /\ ~Listed(h, n)} |-> h[n]]

(***************************************************************************)
(* An upstream gets the application's headers, and the application those   *)
(* of the answer, every value in its order, without the ones that belong   *)
(* to a single connection; a request's Content-Length is that of the body  *)
(* it travels with (headers.go:31, consume.go:141, :118, provide.go:72).   *)
(***************************************************************************)
HeadersTravel ==
  \A x \in Sides : \A i \in 1..Len(got[x]) :
    LET src == said[Other(x)][i]
        headers == got[x][i].headers
    IN /\ src.kind = "REQUEST" =>
            /\ toHTTP(headers, {ContentLength}) = EndToEnd(src.http, {ContentLength})
            /\ {h \in ToSet(headers) : Canonical(h.name) = ContentLength} =
                 IF src.length > 0 \/ ContentLength \in DOMAIN src.http
                 THEN {[name |-> ContentLength, value |-> Itoa(src.length)]} ELSE {}
       /\ src.kind = "RESPONSE" => writeHead(headers) = EndToEnd(src.http, {})
=============================================================================
