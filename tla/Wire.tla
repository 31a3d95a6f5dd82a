-------------------------------- MODULE Wire --------------------------------
(***************************************************************************)
(* The messages and their bytes (src/internal/wire/message.go, encode.go   *)
(* and decode.go).  Encode and the decoder are written against each other  *)
(* in the code, field by field; they are here too.                         *)
(*                                                                         *)
(* A byte is a digit of base Base, 256 in the code, so that with a small   *)
(* Base a small message can overflow every count the format has.  A string *)
(* is the sequence of its bytes.                                           *)
(***************************************************************************)
EXTENDS Integers, Sequences, SequencesExt

CONSTANTS
  Base,                   \* how many values a byte has
  KindByte,               \* the byte of each kind of message
  MinStatus, MaxStatus,   \* minStatus and maxStatus, 100 and 599 in the code
  ValidText(_)            \* utf8.ValidString

Kinds == {"HELLO", "PING", "PONG", "REQUEST", "RESPONSE", "BODY", "END", "CANCEL", "FAIL"}

ASSUME WireAssumption ==
  /\ Base \in Nat /\ Base > 1
  /\ KindByte \in [Kinds -> 0..(Base - 1)] /\ IsInjective(KindByte)
  /\ {MinStatus, MaxStatus} \subseteq 0..(Base^2 - 1)

(* One past the largest number that n bytes count. *)
Limit(n) == Base^n

-----------------------------------------------------------------------------
(* encode.go *)

(* v in n bytes, little-endian. *)
LittleEndian(v, n) == [i \in 1..n |-> (v \div Base^(i - 1)) % Base]

(***************************************************************************)
(* A field is its type and its value.  The types are those of the builder: *)
(* u16, str8, str16, name8, text16, job (a u64), slots and status (u16),   *)
(* count8, count16 (how many headers there are) and chunk (a u32 count and *)
(* its bytes).                                                             *)
(***************************************************************************)
Field(type, value) == [type |-> type, value |-> value]

(* builder.count8 does not refuse. *)
count8(n) == n < Limit(1)

(* The builder does not refuse the field. *)
Sayable(f) ==
  CASE f.type = "u16" -> TRUE
    [] f.type = "str8" -> Len(f.value) < Limit(1)
    [] f.type = "name8" -> Len(f.value) < Limit(1) /\ ValidText(f.value)
    [] f.type = "str16" -> Len(f.value) < Limit(2)
    [] f.type = "text16" -> Len(f.value) < Limit(2) /\ ValidText(f.value)
    [] f.type = "job" -> f.value # 0
    [] f.type = "slots" -> f.value >= 1
    [] f.type = "status" -> f.value \in MinStatus..MaxStatus
    [] f.type = "count8" -> count8(f.value)
    [] f.type = "count16" -> f.value < Limit(2)
    [] f.type = "chunk" -> Len(f.value) >= 1 /\ Len(f.value) < Limit(4)

(* How many bytes the number in front of a field, or the number it is, has. *)
Width(type) ==
  CASE type \in {"str8", "name8", "count8"} -> 1
    [] type \in {"u16", "str16", "text16", "slots", "status", "count16"} -> 2
    [] type = "chunk" -> 4
    [] type = "job" -> 8

Counted(type) == type \in {"str8", "name8", "str16", "text16", "chunk"}

(* The bytes the builder appends for a field. *)
FieldBytes(f) ==
  IF Counted(f.type) THEN LittleEndian(Len(f.value), Width(f.type)) \o f.value
  ELSE LittleEndian(f.value, Width(f.type))

(* builder.headers: the count, and every name and value in order. *)
HeaderFields(hs) ==
  <<Field("count16", Len(hs))>>
    \o FlattenSeq([i \in 1..Len(hs) |->
                     <<Field("str8", hs[i].name), Field("str16", hs[i].value)>>])

(* The switch of Encode: the fields of each kind, in order. *)
Fields(m) ==
  CASE m.kind = "HELLO" ->
         <<Field("name8", m.name), Field("count8", Len(m.providers))>>
           \o FlattenSeq([i \in 1..Len(m.providers) |->
                <<Field("name8", m.providers[i].service),
                  Field("slots", m.providers[i].slots),
                  Field("u16", m.providers[i].priority)>>])
    [] m.kind \in {"PING", "PONG"} -> <<>>
    [] m.kind = "REQUEST" ->
         <<Field("job", m.job), Field("name8", m.service), Field("str8", m.method),
           Field("str16", m.target)>> \o HeaderFields(m.headers)
    [] m.kind = "RESPONSE" ->
         <<Field("job", m.job), Field("status", m.status)>> \o HeaderFields(m.headers)
    [] m.kind = "BODY" -> <<Field("job", m.job), Field("chunk", m.bytes)>>
    [] m.kind = "END" -> <<Field("job", m.job)>> \o HeaderFields(m.headers)
    [] m.kind = "CANCEL" -> <<Field("job", m.job)>>
    [] m.kind = "FAIL" -> <<Field("job", m.job), Field("text16", m.reason)>>

(* Encode does not refuse the message. *)
Encodable(m) == LET fs == Fields(m) IN \A i \in 1..Len(fs) : Sayable(fs[i])

(* What Encode appends. *)
Encode(m) ==
  LET fs == Fields(m)
  IN <<KindByte[m.kind]>> \o FlattenSeq([i \in 1..Len(fs) |-> FieldBytes(fs[i])])

-----------------------------------------------------------------------------
(* decode.go *)

(***************************************************************************)
(* The decoder as it goes through the bytes it has: the ones not read yet, *)
(* the value of the last field, and "ok", "more" when it waits for bytes   *)
(* that have not come, or "bad" when it has refused.  Like the code's, it  *)
(* refuses a field as soon as that field is there.                         *)
(***************************************************************************)
Cursor(bytes) == [rest |-> bytes, value |-> 0, st |-> "ok"]

FromLittleEndian(bytes) ==
  FoldLeft(LAMBDA sum, i : sum + bytes[i] * Base^(i - 1), 0, [i \in 1..Len(bytes) |-> i])

(* Decoder.read of n bytes. *)
ReadBytes(c, n) ==
  IF Len(c.rest) < n THEN [c EXCEPT !.st = "more"]
  ELSE [c EXCEPT !.value = SubSeq(c.rest, 1, n), !.rest = SubSeq(c.rest, n + 1, Len(c.rest))]

(* u8, u16, u32 and u64. *)
AsNumber(c) == IF c.st = "ok" THEN [c EXCEPT !.value = FromLittleEndian(@)] ELSE c
ReadNumber(c, n) == AsNumber(ReadBytes(c, n))

(* Mutant of TakesJob: job 0 is taken. *)
TakesJobZero(id) == TRUE

(* Decoder.job does not refuse. *)
TakesJob(id) == id # 0

(* Decoder.status does not refuse. *)
TakesStatus(n) == n >= MinStatus /\ n <= MaxStatus

(* What the decoder asks of a field it has read. *)
Acceptable(type, value) ==
  CASE type \in {"name8", "text16"} -> ValidText(value)
    [] type = "job" -> TakesJob(value)
    [] type = "slots" -> value >= 1
    [] type = "status" -> TakesStatus(value)
    [] OTHER -> TRUE

(* A field whose number has been read: the bytes it counts come next.  An empty
   chunk is refused before its bytes, which are none. *)
ReadCounted(c, type) ==
  IF ~Counted(type) \/ c.st # "ok" THEN c
  ELSE IF type = "chunk" /\ c.value = 0 THEN [c EXCEPT !.st = "bad"]
  ELSE ReadBytes(c, c.value)

(* A field that has been read is refused when it has to be. *)
Checked(c, type) ==
  IF c.st = "ok" /\ ~Acceptable(type, c.value) THEN [c EXCEPT !.st = "bad"] ELSE c

(* One field. *)
ReadField(c, type) ==
  IF c.st # "ok" THEN c ELSE Checked(ReadCounted(ReadNumber(c, Width(type)), type), type)

(* The values there are, with the one the cursor has read. *)
WithValue(values, c) == [c |-> c, values |-> Append(values, c.value)]

(* The fields of these types one after the other, and their values. *)
ReadFields(c, types) ==
  FoldLeft(LAMBDA acc, type : WithValue(acc.values, ReadField(acc.c, type)),
           [c |-> c, values |-> <<>>], types)

(* The groups there are, with one more. *)
WithGroup(groups, r) == [c |-> r.c, values |-> Append(groups, r.values)]

(* A list: as many groups of these types as the number read last says. *)
ReadList(c, types) ==
  FoldLeft(LAMBDA acc, i : WithGroup(acc.values, ReadFields(acc.c, types)),
           [c |-> c, values |-> <<>>],
           [i \in 1..(IF c.st = "ok" THEN c.value ELSE 0) |-> i])

(* Decoder.headers. *)
HeadersOf(l) ==
  [c |-> l.c,
   values |-> [i \in 1..Len(l.values) |->
                 [name |-> l.values[i][1], value |-> l.values[i][2]]]]
ReadHeaders(c) == HeadersOf(ReadList(ReadField(c, "count16"), <<"str8", "str16">>))

(* Decoder.hello, past its rules about when HELLO may come. *)
HelloOf(name, l) ==
  [c |-> l.c,
   m |-> [kind |-> "HELLO", name |-> name,
          providers |-> [i \in 1..Len(l.values) |->
            [service |-> l.values[i][1], slots |-> l.values[i][2],
             priority |-> l.values[i][3]]]]]
ReadHello(c) ==
  LET head == ReadFields(c, <<"name8", "count8">>)
  IN HelloOf(head.values[1], ReadList(head.c, <<"name8", "slots", "u16">>))

(* The switch of Decoder.message: the fields before the headers. *)
HeadTypes(kind) ==
  CASE kind \in {"PING", "PONG"} -> <<>>
    [] kind = "REQUEST" -> <<"job", "name8", "str8", "str16">>
    [] kind = "RESPONSE" -> <<"job", "status">>
    [] kind = "BODY" -> <<"job", "chunk">>
    [] kind \in {"END", "CANCEL"} -> <<"job">>
    [] kind = "FAIL" -> <<"job", "text16">>

(* The message of this kind with the values that were read. *)
Assemble(kind, v, headers) ==
  CASE kind \in {"PING", "PONG"} -> [kind |-> kind]
    [] kind = "REQUEST" -> [kind |-> kind, job |-> v[1], service |-> v[2], method |-> v[3],
                            target |-> v[4], headers |-> headers]
    [] kind = "RESPONSE" -> [kind |-> kind, job |-> v[1], status |-> v[2],
                             headers |-> headers]
    [] kind = "BODY" -> [kind |-> kind, job |-> v[1], bytes |-> v[2]]
    [] kind = "END" -> [kind |-> kind, job |-> v[1], headers |-> headers]
    [] kind = "CANCEL" -> [kind |-> kind, job |-> v[1]]
    [] kind = "FAIL" -> [kind |-> kind, job |-> v[1], reason |-> v[2]]

MessageRead(kind, head, hs) ==
  [c |-> hs.c,
   m |-> IF hs.c.st = "ok" THEN Assemble(kind, head.values, hs.values) ELSE [kind |-> kind]]
ReadKind(c, kind) ==
  LET head == ReadFields(c, HeadTypes(kind))
  IN MessageRead(kind, head,
                 IF kind \in {"REQUEST", "RESPONSE", "END"} THEN ReadHeaders(head.c)
                 ELSE [c |-> head.c, values |-> <<>>])

(* HELLO is a client's first message, its only one, and nobody else's. *)
HelloInPlace(role, gotHello, kind) ==
  /\ kind = "HELLO" => role = "server" /\ ~gotHello
  /\ role = "server" /\ ~gotHello => kind = "HELLO"

(* The message that was read, and the bytes behind it. *)
Outcome(r) == [st |-> r.c.st, m |-> r.m, rest |-> r.c.rest]

(* Decoder.Next on the bytes there are: "more", "bad", or "ok" with its outcome. *)
Parse(bytes, role, gotHello) ==
  IF bytes = <<>> THEN [st |-> "more", m |-> [kind |-> "PING"], rest |-> bytes]
  ELSE IF \A k \in Kinds : KindByte[k] # bytes[1] \/ ~HelloInPlace(role, gotHello, k)
  THEN [st |-> "bad", m |-> [kind |-> "PING"], rest |-> bytes]
  ELSE LET kind == CHOOSE k \in Kinds : KindByte[k] = bytes[1]
           c == Cursor(Tail(bytes))
       IN Outcome(IF kind = "HELLO" THEN ReadHello(c) ELSE ReadKind(c, kind))
=============================================================================
