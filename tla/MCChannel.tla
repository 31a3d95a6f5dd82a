----------------------------- MODULE MCChannel ------------------------------
(***************************************************************************)
(* An instance of Channel for TLC.  A byte is a decimal digit, so a str8   *)
(* has at most 9 bytes, a HELLO at most 9 providers, and a u64 eight       *)
(* digits.  A status is 10 to 59.  The digit 9 is no text, 5 is the small  *)
(* letter of 4, and 0 separates the tokens of a value.                     *)
(***************************************************************************)
EXTENDS Channel, TLC

MCKindByte ==
  "HELLO" :> 1 @@ "PING" :> 2 @@ "PONG" :> 3 @@ "REQUEST" :> 4 @@ "RESPONSE" :> 5
    @@ "BODY" :> 6 @@ "END" :> 7 @@ "CANCEL" :> 8 @@ "FAIL" :> 9
MCValidText(s) == 9 \notin ToSet(s)
MCCanonical(s) == [i \in 1..Len(s) |-> IF s[i] = 5 THEN 4 ELSE s[i]]
MCTokensOf(v) ==
  LET Starts == {i \in 1..Len(v) : v[i] # 0 /\ (i = 1 \/ v[i - 1] = 0)}
      Ends == {i \in 1..Len(v) : v[i] # 0 /\ (i = Len(v) \/ v[i + 1] = 0)}
  IN {SubSeq(v, i, CHOOSE k \in Ends : k >= i /\ \A n \in i..k : v[n] # 0) : i \in Starts}
MCItoa(n) == <<n>>
MCHopByHop == {<<1>>, <<2>>}
MCConnection == <<1>>
MCContentLength == <<3>>

Agree == [x \in Sides |-> [psk |-> "k", version |-> 0]]
MCPeerings == {Agree,
               [Agree EXCEPT !["client"].psk = "other"],
               [Agree EXCEPT !["client"].version = 1]}

(* Connection lists the name 4, as 5, and the name 8; 2 is hop-by-hop as well. *)
Http ==
  <<1>> :> <<<<5, 0, 8>>>> @@ <<2>> :> <<<<6>>>> @@ <<3>> :> <<<<7>>>>
    @@ <<4>> :> <<<<7>>>> @@ <<4, 4>> :> <<<<2>>, <<1>>>> @@ <<7>> :> <<<<>>>>
NoHttp == [n \in {} |-> <<>>]

Hello(name, n, slots) ==
  [kind |-> "HELLO", name |-> name,
   providers |-> [i \in 1..n |-> [service |-> <<4>>, slots |-> slots, priority |-> i]]]
Request(http, length) ==
  [kind |-> "REQUEST", job |-> 1, service |-> <<4>>, method |-> <<>>, target |-> <<6, 6>>,
   http |-> http, length |-> length]

(* Three of the HELLOs are not encodable: a provider too many, one without slots, a
   name that is not text.  Neither is the empty BODY. *)
MCSays ==
  "client" :> {Hello(<<4, 4, 4, 4, 4, 4, 4, 4, 4>>, 9, 99), Hello(<<4>>, 10, 1),
               Hello(<<4>>, 1, 0), Hello(<<9>>, 0, 1), Hello(<<>>, 0, 1),
               Request(Http, 2), Request(NoHttp, 0), [kind |-> "PONG"],
               [kind |-> "CANCEL", job |-> 99999999]}
  @@ "server" :> {[kind |-> "RESPONSE", job |-> 12345678, status |-> 59, http |-> Http],
                  [kind |-> "BODY", job |-> 1, bytes |-> <<>>],
                  [kind |-> "BODY", job |-> 1, bytes |-> [i \in 1..27 |-> 9]],
                  [kind |-> "FAIL", job |-> 1, reason |-> <<7>>],
                  [kind |-> "END", job |-> 1,
                   headers |-> <<[name |-> <<4>>, value |-> <<9>>]>>]}
MCMaxSaid == "client" :> 2 @@ "server" :> 1

(* CANCEL of job 0, a kind there is none of, a HELLO, and text that is none. *)
MCStrays == {<<8, 0, 0, 0, 0, 0, 0, 0, 0>>, <<0>>, <<1, 0, 0>>,
             <<9, 1, 0, 0, 0, 0, 0, 0, 0, 1, 0, 9>>}

(* What the theorems about delivery take of the codec, on these messages. *)
ASSUME CodecIsFaithful == CodecFaithful
=============================================================================
