------------------------------ MODULE Headers -------------------------------
(***************************************************************************)
(* HTTP headers on their way to the wire and back                          *)
(* (src/internal/peer/headers.go, and requestHeaders and writeHead in      *)
(* consume.go).  An HTTP header map is a function from names to sequences  *)
(* of values; names and values are sequences of bytes.                     *)
(***************************************************************************)
EXTENDS Integers, Sequences, FiniteSets, SequencesExt

CONSTANTS
  HopByHop,          \* hopByHop, Host included
  Connection,        \* the name Connection
  ContentLength,     \* the name Content-Length
  Canonical(_),      \* textproto.CanonicalMIMEHeaderKey
  TokensOf(_),       \* the tokens of a comma-separated value, trimmed, none empty
  Itoa(_)            \* strconv.Itoa

(* sort.Strings: byte by byte, the shorter first. *)
Sorted(names) ==
  LET Less(s, t) == \/ IsStrictPrefix(s, t)
                    \/ \E i \in 1..Len(s) : /\ i <= Len(t) /\ s[i] < t[i]
                                            /\ SubSeq(s, 1, i - 1) = SubSeq(t, 1, i - 1)
  IN SetToSortSeq(names, Less)

(* Mutant of connectionHeaders: the names are taken as they are written. *)
connectionHeadersAsWritten(h) ==
  IF Connection \notin DOMAIN h THEN {}
  ELSE UNION {TokensOf(h[Connection][i]) : i \in 1..Len(h[Connection])}

(* The names a Connection header lists, in canonical form. *)
connectionHeaders(h) ==
  IF Connection \notin DOMAIN h THEN {}
  ELSE {Canonical(t) : t \in UNION {TokensOf(h[Connection][i]) : i \in 1..Len(h[Connection])}}

(* fromHTTP: the names sorted, the values of one name in their order. *)
fromHTTP(h, drop) ==
  LET skip == connectionHeaders(h) \cup {Canonical(n) : n \in drop}
      names == Sorted(DOMAIN h \ (HopByHop \cup skip))
  IN FlattenSeq([i \in 1..Len(names) |->
       [k \in 1..Len(h[names[i]]) |-> [name |-> names[i], value |-> h[names[i]][k]]]])

(* The values of hs gathered under their canonical names, in order, but for the
   names in drop. *)
Gathered(hs, drop) ==
  [n \in {Canonical(hs[i].name) : i \in 1..Len(hs)} \ drop |->
     LET of == SelectSeq(hs, LAMBDA x : Canonical(x.name) = n)
     IN [k \in 1..Len(of) |-> of[k].value]]

(* toHTTP, at the provider. *)
toHTTP(hs, drop) == Gathered(hs, HopByHop \cup {Canonical(n) : n \in drop})

(* writeHead, at the consumer, onto an empty header map. *)
writeHead(hs) == Gathered(hs, HopByHop)

(* requestHeaders: Content-Length is rewritten to the body that is sent. *)
requestHeaders(h, length) ==
  fromHTTP(h, {ContentLength})
    \o (IF \/ length > 0
           \/ ContentLength \in DOMAIN h /\ h[ContentLength] # <<>> /\ h[ContentLength][1] # <<>>
        THEN <<[name |-> ContentLength, value |-> Itoa(length)]>> ELSE <<>>)
=============================================================================
