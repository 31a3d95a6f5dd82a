------------------------------- MODULE Noise --------------------------------
(***************************************************************************)
(* The NNpsk0 handshake and the cipher states it ends in                   *)
(* (src/internal/noise/noise.go and state.go), with symbolic cryptography: *)
(* a hash is the sequence of what was hashed, a derived key names what it  *)
(* was derived from and which output it is, and a ciphertext opens only    *)
(* with the key, the nonce and the associated data it was sealed with.     *)
(* X25519, SHA-256, HKDF and ChaCha20-Poly1305 are taken to be ideal.      *)
(***************************************************************************)
EXTENDS Integers, Sequences

CONSTANTS
  NonceReserved,   \* nonceReserved, 2^64 - 1 in the code
  MaxPlaintext     \* MaxPlaintextSize, 65519 in the code

ASSUME NoiseAssumption == NonceReserved \in Nat \ {0} /\ MaxPlaintext \in Nat \ {0}

-----------------------------------------------------------------------------
(* state.go: the cipher state. *)

newCipherState(key) == [key |-> key, nonce |-> 0]

(* Mutant of CanSeal: the counter is not looked at. *)
CanSealAlways(c, text) == Len(text) <= MaxPlaintext

(* seal does not refuse: the counter is not exhausted and the text fits. *)
CanSeal(c, text) == c.nonce # NonceReserved /\ Len(text) <= MaxPlaintext

(* What seal returns. *)
seal(c, ad, text) ==
  [key |-> c.key, nonce |-> c.nonce, ad |-> ad, text |-> text, intact |-> TRUE]

(* Mutant of Opens: the nonce is not part of what is authenticated. *)
OpensAnyNonce(c, ad, box) ==
  c.nonce # NonceReserved /\ box.intact /\ box.key = c.key /\ box.ad = ad

(* open does not refuse. *)
Opens(c, ad, box) ==
  /\ c.nonce # NonceReserved
  /\ box.intact /\ box.key = c.key /\ box.nonce = c.nonce /\ box.ad = ad

(* The counter after n messages.  A uint64 wraps after its reserved value. *)
Advanced(c, n) == [c EXCEPT !.nonce = (@ + n) % (NonceReserved + 1)]

-----------------------------------------------------------------------------
(* state.go: the symmetric state. *)

ProtocolName == <<"Noise_NNpsk0">>

(* Output i of HKDF over the chaining key ck and the input ikm. *)
hkdfExpand(ck, ikm, i) == ck \o <<ikm, i>>

mixHash(s, data) == [s EXCEPT !.h = Append(@, data)]

newSymmetric(prologue) ==
  mixHash([h |-> ProtocolName, ck |-> ProtocolName, cipher |-> newCipherState(<<>>)],
          prologue)

mixKey(s, ikm) ==
  [s EXCEPT !.ck = hkdfExpand(s.ck, ikm, 1),
            !.cipher = newCipherState(hkdfExpand(s.ck, ikm, 2))]

mixKeyAndHash(s, ikm) ==
  [mixHash(s, hkdfExpand(s.ck, ikm, 2)) EXCEPT
     !.ck = hkdfExpand(s.ck, ikm, 1),
     !.cipher = newCipherState(hkdfExpand(s.ck, ikm, 3))]

(* The ciphertext of encryptAndHash, and the state that it and decryptAndHash,
   once it has opened the same ciphertext, are left in. *)
encryptAndHash(s) == seal(s.cipher, s.h, <<>>)
Hashed(s, box) == [mixHash(s, box) EXCEPT !.cipher = Advanced(@, 1)]

-----------------------------------------------------------------------------
(* noise.go: the handshake.  step is 0 for the initiator's message, 1 for the
   responder's, 2 when both have gone by. *)

NewHandshake(initiator, psk, prologue) ==
  [sym |-> newSymmetric(prologue), initiator |-> initiator, psk |-> psk,
   e |-> "none", re |-> "none", step |-> 0, failed |-> FALSE]

(* Whose turn it is. *)
TurnToWrite(hs) == ~hs.failed /\ hs.step < 2 /\ hs.initiator = (hs.step = 0)
TurnToRead(hs) == ~hs.failed /\ hs.step < 2 /\ hs.initiator # (hs.step = 0)

(* The tokens of the message of this step, which the writer and the reader
   absorb in one order: psk and e in the first, e and ee in the second. *)
Tokens(hs, public, shared) ==
  LET psk == IF hs.step = 0 THEN mixKeyAndHash(hs.sym, <<"psk", hs.psk>>) ELSE hs.sym
      keyed == mixKey(mixHash(psk, <<"e", public>>), <<"e", public>>)
  IN IF hs.step = 1 THEN mixKey(keyed, <<"ee", shared>>) ELSE keyed

(* WriteMessage with the fresh ephemeral e: the message, and the handshake after. *)
HandshakeMessage(hs, e) == [e |-> e, box |-> encryptAndHash(Tokens(hs, e, {e, hs.re}))]
WriteMessage(hs, e) ==
  LET sym == Tokens(hs, e, {e, hs.re})
  IN [hs EXCEPT !.sym = Hashed(sym, encryptAndHash(sym)), !.e = e, !.step = @ + 1]

(* ReadMessage: a message that does not open fails the handshake for good. *)
ReadMessage(hs, m) ==
  LET sym == Tokens(hs, m.e, {hs.e, m.e})
  IN IF Opens(sym.cipher, sym.h, m.box)
     THEN [hs EXCEPT !.sym = Hashed(sym, m.box), !.re = m.e, !.step = @ + 1]
     ELSE [hs EXCEPT !.failed = TRUE]

CanSplit(hs) == ~hs.failed /\ hs.step = 2

(* Mutant of Split: both sides take the two states in the same order. *)
SplitUnswapped(hs) ==
  [send |-> newCipherState(hkdfExpand(hs.sym.ck, <<"end", "none">>, 1)),
   receive |-> newCipherState(hkdfExpand(hs.sym.ck, <<"end", "none">>, 2))]

(* Split: the two cipher states, this side's sending one first. *)
Split(hs) ==
  LET out(i) == newCipherState(hkdfExpand(hs.sym.ck, <<"end", "none">>, i))
  IN IF hs.initiator THEN [send |-> out(1), receive |-> out(2)]
                     ELSE [send |-> out(2), receive |-> out(1)]
=============================================================================
