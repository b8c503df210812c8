---------------------------- MODULE NoiseHandler ----------------------------
(***************************************************************************)
(* The Noise XX state of one end of a connection.  Cryptography is         *)
(* symbolic: the transcript hash is the sequence of what was mixed into    *)
(* it, the salt is the sequence of secrets mixed into the key, and an      *)
(* HKDF output is named by the secrets behind it and by the half taken.    *)
(***************************************************************************)
EXTENDS Integers, Sequences

CONSTANT MAX_COUNTER   \* the largest counter generateIV can write: 2^32 - 1

ASSUME CounterAssumption == MAX_COUNTER \in Nat \ {0}

----------------------------------------------------------------------------
sharedKey(a, b) == {a, b}

\* The protocol name is the first salt and the first key.
newHandler(prologue, ephemeralPublic, role) ==
  [hash |-> <<prologue, ephemeralPublic>>, salt |-> << >>,
   encKey |-> [secrets |-> << >>, half |-> 0], decKey |-> [secrets |-> << >>, half |-> 0],
   readCounter |-> 0, writeCounter |-> 0, handshakeFinished |-> FALSE, role |-> role]

\* Inert once the handshake is done.
authenticate(noise, data) ==
  IF noise.handshakeFinished THEN noise ELSE [noise EXCEPT !.hash = Append(@, data)]

localHKDF(noise, data) ==
  [half \in {1, 2} |-> [secrets |-> Append(noise.salt, data), half |-> half]]

mixIntoKey(noise, data) ==
  LET key == localHKDF(noise, data)
  IN  [noise EXCEPT !.salt = key[1].secrets, !.encKey = key[2], !.decKey = key[2],
                    !.readCounter = 0, !.writeCounter = 0]

\* A slip in finishInit: both roles take the same halves.
finishInitUnswapped(noise) ==
  LET key == localHKDF(noise, "nothing")
  IN  [noise EXCEPT !.encKey = key[1], !.decKey = key[2], !.hash = << >>,
                    !.readCounter = 0, !.writeCounter = 0, !.handshakeFinished = TRUE]

\* The final split: what one role writes with, the other reads with.
finishInit(noise) ==
  LET key == localHKDF(noise, "nothing")
      mine == IF noise.role = "initiator" THEN 1 ELSE 2
  IN  [noise EXCEPT !.encKey = key[mine], !.decKey = key[3 - mine], !.hash = << >>,
                    !.readCounter = 0, !.writeCounter = 0, !.handshakeFinished = TRUE]

----------------------------------------------------------------------------
\* encrypt: what it returns, and the state it leaves.  It throws, and changes
\* nothing, when the counter no longer fits the IV.
CanEncrypt(noise) == noise.writeCounter <= MAX_COUNTER

\* The four bytes of a counter: generateIV throws rather than start over.
generateIV(counter) == counter % (MAX_COUNTER + 1)

Sealed(noise, plaintext) ==
  [key |-> noise.encKey, nonce |-> generateIV(noise.writeCounter), ad |-> noise.hash, text |-> plaintext]

AfterEncrypt(noise, plaintext) ==
  authenticate([noise EXCEPT !.writeCounter = @ + 1], Sealed(noise, plaintext))

\* decrypt: during the handshake both directions share the write counter, and
\* the counter moves before the ciphertext is looked at.
ReadCounter(noise) == IF noise.handshakeFinished THEN noise.readCounter ELSE noise.writeCounter

\* Slips in Counted: the handshake keeps a read counter of its own; both
\* directions go on sharing one counter after it.
CountedApart(noise) == [noise EXCEPT !.readCounter = @ + 1]
CountedTogether(noise) ==
  [noise EXCEPT !.readCounter = @ + 1, !.writeCounter = @ + 1]

Counted(noise) ==
  IF noise.handshakeFinished THEN [noise EXCEPT !.readCounter = @ + 1]
  ELSE [noise EXCEPT !.writeCounter = @ + 1]

CanDecrypt(noise, ciphertext) ==
  /\ ReadCounter(noise) <= MAX_COUNTER
  /\ ciphertext.nonce = generateIV(ReadCounter(noise))
  /\ ciphertext.key = noise.decKey
  /\ ciphertext.ad = noise.hash

AfterDecrypt(noise, ciphertext) == authenticate(Counted(noise), ciphertext)
=============================================================================
