--------------------------- MODULE NoiseXXProofs ---------------------------
(***************************************************************************)
(* The handshake and the frames after it, for any number of connections,   *)
(* any counter limit and any length of queue: no key encrypts twice under  *)
(* one nonce, both ends agree, no genuine server is refused and nodes go   *)
(* to no other.                                                            *)
(***************************************************************************)
EXTENDS NoiseXX, SequenceTheorems, FiniteSetTheorems, TLAPS

USE CounterAssumption, ServersAssumption

----------------------------------------------------------------------------
(* The secrets, hashes and messages of the handshake of connection n.      *)

EE(n) == {<<"server", n>>, <<"client", n>>}
ES(n) == {serverStatic, <<"client", n>>}
SE(n) == {<<"server", n>>, clientStatic}

Key(secrets, half) == [secrets |-> secrets, half |-> half]
Cipher(key, nonce, ad, text) == [key |-> key, nonce |-> nonce, ad |-> ad, text |-> text]

Fields == {"hash", "salt", "encKey", "decKey", "readCounter", "writeCounter", "handshakeFinished", "role"}

\* One end in the middle of its handshake.
InHandshake(x, hash, secrets, counter, role) ==
  /\ DOMAIN x = Fields
  /\ x.hash = hash /\ x.salt = secrets /\ x.encKey = Key(secrets, 2) /\ x.decKey = Key(secrets, 2)
  /\ x.writeCounter = counter /\ x.handshakeFinished = FALSE /\ x.role = role

Secrets1(n) == Append(<< >>, EE(n))
Secrets2(n) == Append(Secrets1(n), ES(n))
Secrets3(n) == Append(Secrets2(n), SE(n))
Secrets4(n) == Append(Secrets3(n), "nothing")

\* What the server seals, whose header is h.
EEHash(n, h) == Append(<<h, <<"client", n>>>>, <<"server", n>>)
StaticOf(n, h) == Cipher(Key(Secrets1(n), 2), 0, EEHash(n, h), serverStatic)
ESHash(n, h) == Append(EEHash(n, h), StaticOf(n, h))
CertOf(n, h, issuer) == Cipher(Key(Secrets2(n), 2), 0, ESHash(n, h), issuer)
CertHash(n, h, issuer) == Append(ESHash(n, h), CertOf(n, h, issuer))

ServerWaits(x, n, h, issuer) == InHandshake(x, CertHash(n, h, issuer), Secrets2(n), 1, "responder")

HeaderOf(kind) == waHeader("server", kind)
IssuerOf(kind) == IF kind = "otherIssuer" THEN "other" ELSE "expected"
HelloOf(n, kind) ==
  IF kind = "incomplete" THEN [ephemeral |-> <<"server", n>>]
  ELSE [ephemeral |-> <<"server", n>>, static |-> StaticOf(n, HeaderOf(kind)),
        payload |-> CertOf(n, HeaderOf(kind), IssuerOf(kind))]

\* What the client answers a genuine server.
ClientStaticOf(n) ==
  Cipher(Key(Secrets2(n), 2), 1, CertHash(n, "WA3", "expected"), clientStatic)
SEHash(n) == Append(CertHash(n, "WA3", "expected"), ClientStaticOf(n))
PayloadOf(n) == Cipher(Key(Secrets3(n), 2), 0, SEHash(n), "payload")
FinishOf(n) == [static |-> ClientStaticOf(n), payload |-> PayloadOf(n)]

\* Transport mode.
HalfOf(e) == IF e = "client" THEN 1 ELSE 2
RoleOf(e) == IF e = "client" THEN "initiator" ELSE "responder"
SplitKey(n, half) == Key(Secrets4(n), half)
IsReady(x, e, n) ==
  /\ DOMAIN x = Fields
  /\ x.hash = << >> /\ x.encKey = SplitKey(n, HalfOf(e)) /\ x.decKey = SplitKey(n, 3 - HalfOf(e))
  /\ x.readCounter \in Nat /\ x.writeCounter \in 0 .. MAX_COUNTER + 1 /\ x.handshakeFinished = TRUE

\* Frames in flight, their nonces one after the other; and after the client's finish.
Node(key, nonce) == Cipher(key, nonce, << >>, "node")
Frames(key, from, k) == [i \in 1 .. k |-> Node(key, from + i - 1)]
AfterFinish(n, k) == <<FinishOf(n)>> \o Frames(SplitKey(n, 1), 0, k)

----------------------------------------------------------------------------
(* The invariant.                                                          *)

Shape ==
  /\ number \in Nat /\ open \in BOOLEAN /\ server \in Servers \union {"none"}
  /\ phase \in [Ends -> {"closed", "hello", "finish", "transport"}]
  /\ noise = [e \in Ends |-> noise[e]] /\ wire = [e \in Ends |-> wire[e]]
  /\ refused \subseteq Ends
  /\ number = 0 => \A e \in Ends : phase[e] = "closed"

Finished(e) == noise[e].handshakeFinished
Written(e) == IF Finished(e) THEN noise[e].writeCounter ELSE 0

\* An end that has finished its handshake has the keys of this connection.
FinishedKeys ==
  \A e \in Ends : Finished(e) \in BOOLEAN /\ (Finished(e) => IsReady(noise[e], e, number))

ClientPhases ==
  /\ phase["client"] # "finish"
  /\ phase["client"] = "hello" =>
       /\ server \in Servers /\ ~Finished("server") /\ phase["server"] # "transport"
       /\ noise["client"] = newHandler("WA3", <<"client", number>>, "initiator")
       /\ wire["client"] \in {<< >>, <<HelloOf(number, server)>>}
       /\ phase["server"] = "hello" => wire["client"] = << >>
  /\ phase["client"] = "transport" => Finished("client")
  /\ Finished("client") => server = "genuine" /\ phase["server"] # "hello"

ServerPhases ==
  /\ phase["server"] = "hello" =>
       /\ server \in Servers /\ ~Finished("server")
       /\ wire["server"] = <<[ephemeral |-> <<"client", number>>]>>
  /\ phase["server"] = "finish" =>
       /\ ~Finished("server")
       /\ ServerWaits(noise["server"], number, HeaderOf(server), IssuerOf(server))
       /\ open => wire["server"] = IF Finished("client") THEN AfterFinish(number, Written("client")) ELSE << >>
  /\ phase["server"] = "transport" => Finished("server")
  /\ Finished("server") => Finished("client")

\* What is in flight follows on what has been read, up to what has been written,
\* but for frames lost when the transport went down.
InFlight ==
  \A e \in Ends : phase[e] = "transport" =>
    /\ Len(wire[e]) \in Nat
    /\ wire[e] = Frames(noise[e].decKey, noise[e].readCounter, Len(wire[e]))
    /\ noise[e].readCounter + Len(wire[e]) <= Written(Other(e))
    /\ open => noise[e].readCounter + Len(wire[e]) = Written(Other(e))

\* Keys belong to a connection, by their first secret; those of this one are used as
\* far as its ends have come.
OfConnection(u, n) == u[1].secrets[1] = EE(n)
UsedKeys ==
  /\ IsFiniteSet(used) /\ Cardinality(used) = sealed /\ sealed \in Nat
  /\ \A u \in used :
       /\ u[2] \in Nat /\ \E n \in 1 .. number : OfConnection(u, n)
       /\ OfConnection(u, number) =>
            /\ phase["server"] # "hello"
            /\ phase["client"] = "hello" => u[2] = 0 /\ Len(u[1].secrets) \in {1, 2}
            /\ \A e \in Ends : Len(u[1].secrets) = 4 /\ u[1].half = HalfOf(e) => u[2] < Written(e)

IInv ==
  /\ Shape /\ FinishedKeys /\ ClientPhases /\ ServerPhases /\ InFlight /\ UsedKeys
  /\ GenuineServerAccepted

----------------------------------------------------------------------------
(* The operations of a Noise state.                                        *)

\* HKDF gives the two halves of the salt with the new secret.
LEMMA SplitOfSalt ==
  ASSUME NEW x, NEW data
  PROVE  /\ localHKDF(x, data)[1] = Key(Append(x.salt, data), 1)
         /\ localHKDF(x, data)[2] = Key(Append(x.salt, data), 2)
         /\ localHKDF(x, data)[1].secrets = Append(x.salt, data)
  BY DEF localHKDF, Key

\* mixIntoKey adds a secret, and counts from 0 again.
LEMMA MixState ==
  ASSUME NEW x, DOMAIN x = Fields, x.handshakeFinished = FALSE, NEW secret
  PROVE  InHandshake(mixIntoKey(x, secret), x.hash, Append(x.salt, secret), 0, x.role)
<1> DEFINE more == Append(x.salt, secret)
           key == Key(more, 2)
<1>1. localHKDF(x, secret)[1].secrets = more /\ localHKDF(x, secret)[2] = key
  BY SplitOfSalt
<1> HIDE DEF key, more
<1>2. mixIntoKey(x, secret)
        = [x EXCEPT !.salt = more, !.encKey = key, !.decKey = key, !.readCounter = 0, !.writeCounter = 0]
  BY <1>1 DEF mixIntoKey
<1>3. InHandshake(mixIntoKey(x, secret), x.hash, more, 0, x.role)
  BY <1>2 DEF InHandshake, Fields, key
<1>4. QED
  BY <1>3 DEF more

\* encrypt in the handshake: sealed under hash and counter, then both move on.
LEMMA SealState ==
  ASSUME NEW x, NEW hash, NEW secrets, NEW counter \in 0 .. MAX_COUNTER, NEW role,
         InHandshake(x, hash, secrets, counter, role), NEW text
  PROVE  LET c == Cipher(Key(secrets, 2), counter, hash, text)
         IN  /\ Sealed(x, text) = c
             /\ InHandshake(AfterEncrypt(x, text), Append(hash, c), secrets, counter + 1, role)
<1> DEFINE c == Cipher(Key(secrets, 2), counter, hash, text)
<1>1. generateIV(counter) = counter
  BY DEF generateIV
<1>2. Sealed(x, text) = c
  BY <1>1 DEF Sealed, InHandshake, Cipher
<1> HIDE DEF c
<1>3. AfterEncrypt(x, text) = [[x EXCEPT !.writeCounter = @ + 1] EXCEPT !.hash = Append(@, c)]
  BY <1>2 DEF AfterEncrypt, authenticate, InHandshake, Fields
<1>4. InHandshake(AfterEncrypt(x, text), Append(hash, c), secrets, counter + 1, role)
  BY <1>3 DEF InHandshake, Fields
<1>5. QED
  BY <1>2, <1>4 DEF c

\* decrypt in the handshake opens what was sealed in the same state, and moves on as encrypt does.
LEMMA OpenState ==
  ASSUME NEW x, NEW hash, NEW secrets, NEW counter \in 0 .. MAX_COUNTER, NEW role,
         InHandshake(x, hash, secrets, counter, role), NEW c
  PROVE  /\ InHandshake(AfterDecrypt(x, c), Append(hash, c), secrets, counter + 1, role)
         /\ CanDecrypt(x, c) <=> c.nonce = counter /\ c.key = Key(secrets, 2) /\ c.ad = hash
<1>1. generateIV(counter) = counter
  BY DEF generateIV
<1>2. CanDecrypt(x, c) <=> c.nonce = counter /\ c.key = Key(secrets, 2) /\ c.ad = hash
  BY <1>1 DEF InHandshake, CanDecrypt, ReadCounter
<1>3. AfterDecrypt(x, c) = [[x EXCEPT !.writeCounter = @ + 1] EXCEPT !.hash = Append(@, c)]
  BY DEF AfterDecrypt, Counted, authenticate, InHandshake, Fields
<1>4. InHandshake(AfterDecrypt(x, c), Append(hash, c), secrets, counter + 1, role)
  BY <1>3 DEF InHandshake, Fields
<1>5. QED
  BY <1>2, <1>4

\* finishInit after the three secrets: the keys of transport mode, each counter at 0.
LEMMA FinishState ==
  ASSUME NEW x, NEW hash, NEW n, NEW counter, NEW e \in Ends,
         InHandshake(x, hash, Secrets3(n), counter, RoleOf(e))
  PROVE  LET y == finishInit(x)
         IN  IsReady(y, e, n) /\ y.readCounter = 0 /\ y.writeCounter = 0
<1> DEFINE mine == SplitKey(n, HalfOf(e))
           theirs == SplitKey(n, 3 - HalfOf(e))
<1>1. x.role = "initiator" <=> e = "client"
  BY DEF InHandshake, RoleOf, Ends
<1>2. /\ HalfOf(e) = IF x.role = "initiator" THEN 1 ELSE 2
      /\ HalfOf(e) \in {1, 2} /\ 3 - HalfOf(e) \in {1, 2}
  BY <1>1 DEF HalfOf
<1>3. localHKDF(x, "nothing")[HalfOf(e)] = mine /\ localHKDF(x, "nothing")[3 - HalfOf(e)] = theirs
  BY <1>2, SplitOfSalt DEF InHandshake, SplitKey, Secrets4
<1> HIDE DEF mine, theirs
<1>4. finishInit(x) = [x EXCEPT !.encKey = mine, !.decKey = theirs, !.hash = << >>,
                                !.readCounter = 0, !.writeCounter = 0, !.handshakeFinished = TRUE]
  BY <1>2, <1>3 DEF finishInit
<1>5. QED
  BY <1>4 DEF InHandshake, Fields, IsReady, mine, theirs

\* Once finished: a frame is sealed under the next nonce, and opens under it.
LEMMA SealReady ==
  ASSUME NEW x, NEW e \in Ends, NEW n, IsReady(x, e, n), CanEncrypt(x), NEW text
  PROVE  /\ Sealed(x, text) = Cipher(SplitKey(n, HalfOf(e)), x.writeCounter, << >>, text)
         /\ IsReady(AfterEncrypt(x, text), e, n)
         /\ AfterEncrypt(x, text).readCounter = x.readCounter
         /\ AfterEncrypt(x, text).writeCounter = x.writeCounter + 1
<1>1. x.writeCounter \in 0 .. MAX_COUNTER /\ generateIV(x.writeCounter) = x.writeCounter
  BY DEF IsReady, CanEncrypt, generateIV
<1>2. Sealed(x, text) = Cipher(SplitKey(n, HalfOf(e)), x.writeCounter, << >>, text)
  BY <1>1 DEF Sealed, IsReady, Cipher
<1>3. AfterEncrypt(x, text) = [x EXCEPT !.writeCounter = @ + 1]
  BY DEF AfterEncrypt, authenticate, IsReady, Fields
<1>4. QED
  BY <1>1, <1>2, <1>3 DEF IsReady, Fields

\* And the next frame of the other end opens.
LEMMA OpenReady ==
  ASSUME NEW x, NEW e \in Ends, NEW n, IsReady(x, e, n), x.readCounter \in 0 .. MAX_COUNTER
  PROVE  LET c == Node(x.decKey, x.readCounter)
         IN  /\ CanDecrypt(x, c)
             /\ IsReady(AfterDecrypt(x, c), e, n)
             /\ AfterDecrypt(x, c).readCounter = x.readCounter + 1
             /\ AfterDecrypt(x, c).writeCounter = x.writeCounter
<1> DEFINE c == Node(x.decKey, x.readCounter)
<1>1. generateIV(x.readCounter) = x.readCounter
  BY DEF generateIV
<1>2. CanDecrypt(x, c)
  BY <1>1 DEF CanDecrypt, ReadCounter, IsReady, Node, Cipher
<1> HIDE DEF c
<1>3. AfterDecrypt(x, c) = [x EXCEPT !.readCounter = @ + 1]
  BY DEF AfterDecrypt, Counted, authenticate, IsReady, Fields
<1>4. IsReady(AfterDecrypt(x, c), e, n) /\ AfterDecrypt(x, c).readCounter = x.readCounter + 1
      /\ AfterDecrypt(x, c).writeCounter = x.writeCounter
  BY <1>3 DEF IsReady, Fields
<1>5. QED
  BY <1>2, <1>4 DEF c

----------------------------------------------------------------------------
(* Frames in flight.                                                       *)

NodesOf(key) == {Node(key, nonce) : nonce \in Nat}

\* Frames in flight are a sequence of nodes, as long as it says.
LEMMA FramesType ==
  ASSUME NEW key, NEW from \in Nat, NEW k \in Nat
  PROVE  /\ Frames(key, from, k) \in Seq(NodesOf(key))
         /\ Len(Frames(key, from, k)) = k
         /\ DOMAIN Frames(key, from, k) = 1 .. k
<1>1. \A i \in 1 .. k : from + i - 1 \in Nat
  OBVIOUS
<1>2. Frames(key, from, k) \in [1 .. k -> NodesOf(key)]
  BY <1>1 DEF Frames, NodesOf
<1>3. QED
  BY <1>2

\* One more is written at the end of the queue.
LEMMA FramesPut ==
  ASSUME NEW key, NEW from \in Nat, NEW k \in Nat
  PROVE  Append(Frames(key, from, k), Node(key, from + k)) = Frames(key, from, k + 1)
<1> DEFINE S == NodesOf(key)
           more == Append(Frames(key, from, k), Node(key, from + k))
<1>1. /\ Frames(key, from, k) \in Seq(S) /\ Len(Frames(key, from, k)) = k
      /\ Frames(key, from, k + 1) \in Seq(S) /\ Len(Frames(key, from, k + 1)) = k + 1
  BY FramesType
<1>2. Node(key, from + k) \in S
  BY DEF NodesOf
<1>3. /\ more \in Seq(S) /\ Len(more) = k + 1 /\ more[k + 1] = Node(key, from + k)
      /\ \A i \in 1 .. k : more[i] = Frames(key, from, k)[i]
  BY <1>1, <1>2, AppendProperties
<1>4. \A i \in 1 .. k + 1 : more[i] = Frames(key, from, k + 1)[i]
  <2>1. SUFFICES ASSUME NEW i \in 1 .. k + 1 PROVE more[i] = Node(key, from + i - 1)
    BY DEF Frames
  <2>2. CASE i = k + 1
    <3>1. from + i - 1 = from + k
      BY <2>2
    <3>2. QED
      BY <1>3, <2>2, <3>1
  <2>3. CASE i # k + 1
    BY <1>3, <2>3 DEF Frames
  <2>4. QED
    BY <2>2, <2>3
<1>5. QED
  BY <1>1, <1>3, <1>4, SeqEqual

\* One is read at its head.
LEMMA FramesTaken ==
  ASSUME NEW key, NEW from \in Nat, NEW k \in Nat \ {0}
  PROVE  /\ Head(Frames(key, from, k)) = Node(key, from)
         /\ Tail(Frames(key, from, k)) = Frames(key, from + 1, k - 1)
<1> DEFINE S == NodesOf(key)
           s == Frames(key, from, k)
<1>1. s \in Seq(S) /\ Len(s) = k
  <2>1. k \in Nat
    OBVIOUS
  <2>2. QED
    BY <2>1, FramesType
<1>2. from + 1 \in Nat /\ k - 1 \in Nat
  OBVIOUS
<1>3. Frames(key, from + 1, k - 1) \in Seq(S) /\ Len(Frames(key, from + 1, k - 1)) = k - 1
  BY <1>2, FramesType
<1>4. Head(s) = Node(key, from)
  <2>1. from + 1 - 1 = from
    OBVIOUS
  <2>2. Head(s) = s[1] /\ s[1] = Node(key, from + 1 - 1)
    BY <1>1 DEF Frames
  <2>3. QED
    BY <2>1, <2>2
<1>5. /\ Tail(s) \in Seq(S) /\ Len(Tail(s)) = k - 1
      /\ \A i \in 1 .. k - 1 : Tail(s)[i] = s[i + 1]
  BY <1>1, HeadTailProperties
<1>6. ASSUME NEW i \in 1 .. k - 1 PROVE Tail(s)[i] = Frames(key, from + 1, k - 1)[i]
  <2>1. from + (i + 1) - 1 = (from + 1) + i - 1 /\ i + 1 \in 1 .. k
    OBVIOUS
  <2>2. Tail(s)[i] = Node(key, from + (i + 1) - 1)
    BY <1>5, <2>1 DEF Frames
  <2>3. QED
    BY <2>1, <2>2 DEF Frames
<1>7. QED
  BY <1>3, <1>4, <1>5, <1>6, SeqEqual

\* The client's finish is ahead of its frames.
LEMMA FinishFirst ==
  ASSUME NEW n, NEW k \in Nat
  PROVE  /\ Head(AfterFinish(n, k)) = FinishOf(n)
         /\ Tail(AfterFinish(n, k)) = Frames(SplitKey(n, 1), 0, k)
         /\ Append(AfterFinish(n, k), Node(SplitKey(n, 1), k)) = AfterFinish(n, k + 1)
         /\ AfterFinish(n, 0) = <<FinishOf(n)>>
<1> DEFINE S == NodesOf(SplitKey(n, 1)) \union {FinishOf(n)}
           s == Frames(SplitKey(n, 1), 0, k)
           f == <<FinishOf(n)>>
<1>1. s \in Seq(S)
  <2>1. s \in Seq(NodesOf(SplitKey(n, 1)))
    BY FramesType
  <2>2. QED
    BY <2>1
<1>2. f \in Seq(S) /\ Len(f) = 1 /\ f[1] = FinishOf(n)
  OBVIOUS
<1>3. Node(SplitKey(n, 1), k) \in S
  BY DEF NodesOf
<1>4. Append(s, Node(SplitKey(n, 1), k)) = Frames(SplitKey(n, 1), 0, k + 1)
  <2>1. Append(s, Node(SplitKey(n, 1), 0 + k)) = Frames(SplitKey(n, 1), 0, k + 1)
    BY FramesPut
  <2>2. QED
    BY <2>1
<1>5. Frames(SplitKey(n, 1), 0, 0) = << >>
  BY DEF Frames
<1> HIDE DEF S, s, f
<1>6. /\ f \o s \in Seq(S) /\ Len(f \o s) = 1 + Len(s) /\ Len(s) \in Nat
      /\ \A i \in 1 .. 1 + Len(s) : (f \o s)[i] = IF i <= 1 THEN f[i] ELSE s[i - 1]
  <2>1. Len(s) \in Nat
    BY <1>1, LenProperties
  <2>2. f \in Seq(S)
    BY <1>2
  <2>3. /\ f \o s \in Seq(S) /\ Len(f \o s) = Len(f) + Len(s)
        /\ \A i \in 1 .. Len(f) + Len(s) : (f \o s)[i] = IF i <= Len(f) THEN f[i] ELSE s[i - Len(f)]
    BY <1>1, <2>2, ConcatProperties
  <2>4. QED
    BY <1>2, <2>1, <2>3
<1>7. Head(f \o s) = FinishOf(n)
  BY <1>2, <1>6
<1>8. Tail(f \o s) = s
  <2>1. f \o s # << >>
    BY <1>6
  <2>2. /\ Tail(f \o s) \in Seq(S) /\ Len(Tail(f \o s)) = Len(s)
        /\ \A i \in 1 .. Len(s) : Tail(f \o s)[i] = (f \o s)[i + 1]
    BY <1>6, <2>1, HeadTailProperties
  <2>3. ASSUME NEW i \in 1 .. Len(s) PROVE Tail(f \o s)[i] = s[i]
    <3>1. i + 1 \in 1 .. 1 + Len(s) /\ ~(i + 1 <= 1) /\ (i + 1) - 1 = i
      BY <1>6
    <3>2. QED
      BY <1>6, <2>2, <3>1
  <2>4. QED
    BY <1>1, <2>2, <2>3, SeqEqual
<1>9. Append(f \o s, Node(SplitKey(n, 1), k)) = f \o Append(s, Node(SplitKey(n, 1), k))
  BY <1>1, <1>2, <1>3
<1>10. f \o << >> = f
  BY <1>2, ConcatEmptySeq
<1>11. QED
  BY <1>4, <1>5, <1>7, <1>8, <1>9, <1>10 DEF AfterFinish, f, s

----------------------------------------------------------------------------
(* The handshake, step by step.                                            *)

\* e and ee.
LEMMA AfterEphemerals ==
  ASSUME NEW h, NEW n, NEW role
  PROVE  InHandshake(mixIntoKey(authenticate(newHandler(h, <<"client", n>>, role), <<"server", n>>), EE(n)),
                     EEHash(n, h), Secrets1(n), 0, role)
<1> DEFINE public == <<"client", n>>
           x == newHandler(h, public, role)
           y == authenticate(x, <<"server", n>>)
<1> HIDE DEF public
<1>1. /\ DOMAIN x = Fields /\ x.hash = <<h, public>> /\ x.salt = << >>
      /\ x.handshakeFinished = FALSE /\ x.role = role
  BY DEF newHandler, Fields
<1> HIDE DEF x
<1>2. y = [x EXCEPT !.hash = Append(@, <<"server", n>>)]
  BY <1>1 DEF authenticate
<1>3. /\ DOMAIN y = Fields /\ y.hash = EEHash(n, h) /\ y.salt = << >>
      /\ y.handshakeFinished = FALSE /\ y.role = role
  BY <1>1, <1>2 DEF Fields, EEHash, public
<1> HIDE DEF y
<1>4. InHandshake(mixIntoKey(y, EE(n)), y.hash, Append(y.salt, EE(n)), 0, y.role)
  BY <1>3, MixState
<1>5. InHandshake(mixIntoKey(y, EE(n)), EEHash(n, h), Secrets1(n), 0, role)
  BY <1>3, <1>4 DEF Secrets1
<1>6. QED
  BY <1>5 DEF x, y, public

\* A secret more.
LEMMA MixMore ==
  ASSUME NEW x, NEW hash, NEW secrets, NEW counter, NEW role, InHandshake(x, hash, secrets, counter, role),
         NEW secret
  PROVE  InHandshake(mixIntoKey(x, secret), hash, Append(secrets, secret), 0, role)
<1>1. /\ DOMAIN x = Fields /\ x.handshakeFinished = FALSE
      /\ x.hash = hash /\ x.salt = secrets /\ x.role = role
  BY DEF InHandshake
<1>2. InHandshake(mixIntoKey(x, secret), x.hash, Append(x.salt, secret), 0, x.role)
  BY <1>1, MixState
<1>3. QED
  BY <1>1, <1>2

\* What the server does with the hello.
LEMMA ServerReplies ==
  ASSUME NEW n, NEW h, NEW issuer
  PROVE  LET ee == mixIntoKey(authenticate(newHandler(h, <<"client", n>>, "responder"), <<"server", n>>), EE(n))
             es == mixIntoKey(AfterEncrypt(ee, serverStatic), ES(n))
         IN  /\ Sealed(ee, serverStatic) = StaticOf(n, h)
             /\ Sealed(es, issuer) = CertOf(n, h, issuer)
             /\ ServerWaits(AfterEncrypt(es, issuer), n, h, issuer)
<1> DEFINE ee == mixIntoKey(authenticate(newHandler(h, <<"client", n>>, "responder"), <<"server", n>>), EE(n))
           es == mixIntoKey(AfterEncrypt(ee, serverStatic), ES(n))
<1>1. InHandshake(ee, EEHash(n, h), Secrets1(n), 0, "responder")
  BY AfterEphemerals
<1> HIDE DEF ee
<1>2. 0 \in 0 .. MAX_COUNTER
  OBVIOUS
<1>3. /\ Sealed(ee, serverStatic) = StaticOf(n, h)
      /\ InHandshake(AfterEncrypt(ee, serverStatic), ESHash(n, h), Secrets1(n), 0 + 1, "responder")
  BY <1>1, <1>2, SealState DEF StaticOf, ESHash
<1>4. InHandshake(es, ESHash(n, h), Secrets2(n), 0, "responder")
  BY <1>3, MixMore DEF Secrets2
<1> HIDE DEF es
<1>5. /\ Sealed(es, issuer) = CertOf(n, h, issuer)
      /\ InHandshake(AfterEncrypt(es, issuer), CertHash(n, h, issuer), Secrets2(n), 0 + 1, "responder")
  BY <1>2, <1>4, SealState DEF CertOf, CertHash
<1>6. QED
  BY <1>3, <1>5 DEF ee, es, ServerWaits

\* What the client does with the reply of a genuine server.
LEMMA ClientReads ==
  ASSUME NEW n, NEW issuer
  PROVE  LET ee == mixIntoKey(authenticate(newHandler("WA3", <<"client", n>>, "initiator"), <<"server", n>>), EE(n))
             es == mixIntoKey(AfterDecrypt(ee, StaticOf(n, "WA3")), ES(n))
         IN  /\ CanDecrypt(ee, StaticOf(n, "WA3"))
             /\ CanDecrypt(es, CertOf(n, "WA3", issuer))
             /\ InHandshake(AfterDecrypt(es, CertOf(n, "WA3", issuer)), CertHash(n, "WA3", issuer), Secrets2(n), 1, "initiator")
<1> DEFINE h == "WA3"
           ee == mixIntoKey(authenticate(newHandler(h, <<"client", n>>, "initiator"), <<"server", n>>), EE(n))
           static == StaticOf(n, h)
           cert == CertOf(n, h, issuer)
           es == mixIntoKey(AfterDecrypt(ee, static), ES(n))
<1> HIDE DEF h
<1>1. InHandshake(ee, EEHash(n, h), Secrets1(n), 0, "initiator")
  BY AfterEphemerals
<1>2. static.nonce = 0 /\ static.key = Key(Secrets1(n), 2) /\ static.ad = EEHash(n, h)
  BY DEF StaticOf, Cipher
<1>3. cert.nonce = 0 /\ cert.key = Key(Secrets2(n), 2) /\ cert.ad = ESHash(n, h)
  BY DEF CertOf, Cipher
<1> HIDE DEF ee, static, cert
<1>4. 0 \in 0 .. MAX_COUNTER
  OBVIOUS
<1>5. /\ CanDecrypt(ee, static)
      /\ InHandshake(AfterDecrypt(ee, static), Append(EEHash(n, h), static), Secrets1(n), 0 + 1, "initiator")
  BY <1>1, <1>2, <1>4, OpenState
<1>6. InHandshake(es, ESHash(n, h), Secrets2(n), 0, "initiator")
  BY <1>5, MixMore DEF Secrets2, ESHash, static
<1> HIDE DEF es
<1>7. /\ CanDecrypt(es, cert)
      /\ InHandshake(AfterDecrypt(es, cert), Append(ESHash(n, h), cert), Secrets2(n), 0 + 1, "initiator")
  BY <1>3, <1>4, <1>6, OpenState
<1>8. InHandshake(AfterDecrypt(es, cert), CertHash(n, h, issuer), Secrets2(n), 1, "initiator")
  BY <1>7 DEF CertHash, cert
<1>9. QED
  BY <1>5, <1>7, <1>8 DEF h, ee, es, static, cert

\* Its finish, and the keys it goes on with.
LEMMA ClientFinishes ==
  ASSUME NEW n, NEW ready, InHandshake(ready, CertHash(n, "WA3", "expected"), Secrets2(n), 1, "initiator")
  PROVE  LET se == mixIntoKey(AfterEncrypt(ready, clientStatic), SE(n))
             done == finishInit(AfterEncrypt(se, "payload"))
         IN  /\ Sealed(ready, clientStatic) = ClientStaticOf(n)
             /\ Sealed(se, "payload") = PayloadOf(n)
             /\ IsReady(done, "client", n) /\ done.readCounter = 0 /\ done.writeCounter = 0
<1> DEFINE se == mixIntoKey(AfterEncrypt(ready, clientStatic), SE(n))
           paid == AfterEncrypt(se, "payload")
<1>1. 0 \in 0 .. MAX_COUNTER /\ 1 \in 0 .. MAX_COUNTER
  OBVIOUS
<1>2. /\ Sealed(ready, clientStatic) = ClientStaticOf(n)
      /\ InHandshake(AfterEncrypt(ready, clientStatic), SEHash(n), Secrets2(n), 1 + 1, "initiator")
  BY <1>1, SealState DEF ClientStaticOf, SEHash
<1>3. InHandshake(se, SEHash(n), Secrets3(n), 0, "initiator")
  BY <1>2, MixMore DEF Secrets3
<1> HIDE DEF se
<1>4. /\ Sealed(se, "payload") = PayloadOf(n)
      /\ InHandshake(paid, Append(SEHash(n), PayloadOf(n)), Secrets3(n), 0 + 1, "initiator")
  BY <1>1, <1>3, SealState DEF PayloadOf
<1> HIDE DEF paid
<1>5. "client" \in Ends /\ RoleOf("client") = "initiator"
  BY DEF Ends, RoleOf
<1>6. /\ IsReady(finishInit(paid), "client", n)
      /\ finishInit(paid).readCounter = 0 /\ finishInit(paid).writeCounter = 0
  BY <1>4, <1>5, FinishState
<1>7. QED
  BY <1>2, <1>4, <1>6 DEF se, paid

\* The server opens that finish, and has the same keys.
LEMMA ServerFinishes ==
  ASSUME NEW n, NEW x, ServerWaits(x, n, "WA3", "expected")
  PROVE  LET se == mixIntoKey(AfterDecrypt(x, ClientStaticOf(n)), SE(n))
             done == finishInit(AfterDecrypt(se, PayloadOf(n)))
         IN  /\ CanDecrypt(x, ClientStaticOf(n)) /\ CanDecrypt(se, PayloadOf(n))
             /\ IsReady(done, "server", n) /\ done.readCounter = 0 /\ done.writeCounter = 0
<1> DEFINE static == ClientStaticOf(n)
           payload == PayloadOf(n)
           hash == CertHash(n, "WA3", "expected")
           se == mixIntoKey(AfterDecrypt(x, static), SE(n))
           paid == AfterDecrypt(se, payload)
<1>1. 0 \in 0 .. MAX_COUNTER /\ 1 \in 0 .. MAX_COUNTER
  OBVIOUS
<1>2. static.nonce = 1 /\ static.key = Key(Secrets2(n), 2) /\ static.ad = hash
  BY DEF ClientStaticOf, Cipher
<1>3. payload.nonce = 0 /\ payload.key = Key(Secrets3(n), 2) /\ payload.ad = SEHash(n)
  BY DEF PayloadOf, Cipher
<1>4. InHandshake(x, hash, Secrets2(n), 1, "responder")
  BY DEF ServerWaits
<1> HIDE DEF static, payload, hash
<1>5. /\ CanDecrypt(x, static)
      /\ InHandshake(AfterDecrypt(x, static), Append(hash, static), Secrets2(n), 1 + 1, "responder")
  BY <1>1, <1>2, <1>4, OpenState
<1>6. InHandshake(se, SEHash(n), Secrets3(n), 0, "responder")
  BY <1>5, MixMore DEF Secrets3, SEHash, static, hash
<1> HIDE DEF se
<1>7. /\ CanDecrypt(se, payload)
      /\ InHandshake(paid, Append(SEHash(n), payload), Secrets3(n), 0 + 1, "responder")
  BY <1>1, <1>3, <1>6, OpenState
<1> HIDE DEF paid
<1>8. "server" \in Ends /\ RoleOf("server") = "responder"
  BY DEF Ends, RoleOf
<1>9. /\ IsReady(finishInit(paid), "server", n)
      /\ finishInit(paid).readCounter = 0 /\ finishInit(paid).writeCounter = 0
  BY <1>7, <1>8, FinishState
<1>10. QED
  BY <1>5, <1>7, <1>9 DEF se, paid, static, payload

----------------------------------------------------------------------------
(* Keys: of which connection, and of which step.                           *)

\* The first secret tells the connection.
LEMMA EphemeralsTell ==
  ASSUME NEW m, NEW n, EE(m) = EE(n)
  PROVE  m = n
<1>1. <<"server", m>> \in EE(n)
  BY DEF EE
<1>2. <<"server", m>> = <<"server", n>> \/ <<"server", m>> = <<"client", n>>
  BY <1>1 DEF EE
<1>3. QED
  BY <1>2

\* Appending keeps what is first.
LEMMA AppendShape ==
  ASSUME NEW S, NEW seq \in Seq(S), NEW e \in S, Len(seq) # 0
  PROVE  /\ Append(seq, e) \in Seq(S) /\ Len(Append(seq, e)) = Len(seq) + 1
         /\ Append(seq, e)[1] = seq[1]
<1>1. 1 \in 1 .. Len(seq)
  BY LenProperties
<1>2. /\ Append(seq, e) \in Seq(S) /\ Len(Append(seq, e)) = Len(seq) + 1
      /\ \A i \in 1 .. Len(seq) : Append(seq, e)[i] = seq[i]
  BY AppendProperties
<1>3. QED
  BY <1>1, <1>2

\* The secrets of every step begin with the first; their number tells the step.
LEMMA SecretsShape ==
  ASSUME NEW n
  PROVE  /\ Len(Secrets1(n)) = 1 /\ Secrets1(n)[1] = EE(n)
         /\ Len(Secrets2(n)) = 2 /\ Secrets2(n)[1] = EE(n)
         /\ Len(Secrets3(n)) = 3 /\ Secrets3(n)[1] = EE(n)
         /\ Len(Secrets4(n)) = 4 /\ Secrets4(n)[1] = EE(n)
<1>1. PICK S, a, b, c, d : /\ a = EE(n) /\ b = ES(n) /\ c = SE(n) /\ d = "nothing"
                           /\ a \in S /\ b \in S /\ c \in S /\ d \in S
  <2>1. WITNESS {EE(n), ES(n), SE(n), "nothing"}, EE(n), ES(n), SE(n), "nothing"
  <2>2. QED
    OBVIOUS
<1>2. PICK s1, s2, s3, s4 : /\ s1 = Append(<< >>, a) /\ s2 = Append(s1, b)
                            /\ s3 = Append(s2, c) /\ s4 = Append(s3, d)
  OBVIOUS
<1>3. s1 \in Seq(S) /\ Len(s1) = 1 /\ s1[1] = a
  BY <1>1, <1>2
<1>4. s2 \in Seq(S) /\ Len(s2) = 2 /\ s2[1] = a
  BY <1>1, <1>2, <1>3, AppendShape
<1>5. s3 \in Seq(S) /\ Len(s3) = 3 /\ s3[1] = a
  BY <1>1, <1>2, <1>4, AppendShape
<1>6. s4 \in Seq(S) /\ Len(s4) = 4 /\ s4[1] = a
  BY <1>1, <1>2, <1>5, AppendShape
<1>7. s1 = Secrets1(n) /\ s2 = Secrets2(n) /\ s3 = Secrets3(n) /\ s4 = Secrets4(n)
  BY <1>1, <1>2 DEF Secrets1, Secrets2, Secrets3, Secrets4
<1>8. QED
  BY <1>1, <1>3, <1>4, <1>5, <1>6, <1>7

\* The server's header is in all that it seals.
LEMMA HeaderTells ==
  ASSUME NEW n, NEW h, NEW g, EEHash(n, h) = EEHash(n, g)
  PROVE  h = g
<1> DEFINE public == <<"client", n>>
           other == <<"server", n>>
           S == {h, g, public, other}
<1>1. h \in S /\ g \in S /\ public \in S /\ other \in S
  OBVIOUS
<1> HIDE DEF S, public, other
<1> DEFINE s == <<h, public>>
           t == <<g, public>>
<1>2. /\ s \in Seq(S) /\ 1 \in 1 .. Len(s) /\ s[1] = h
      /\ t \in Seq(S) /\ 1 \in 1 .. Len(t) /\ t[1] = g
  BY <1>1
<1> HIDE DEF s, t
<1>3. Append(s, other)[1] = h /\ Append(t, other)[1] = g
  BY <1>1, <1>2, AppendProperties
<1>4. QED
  BY <1>3 DEF EEHash, public, other, s, t

----------------------------------------------------------------------------
(* Keys and nonces that have not been used.                                *)

\* One encryption under a pair not used before.
LEMMA ProduceOne ==
  ASSUME IsFiniteSet(used), sealed \in Nat, Cardinality(used) = sealed,
         NEW c, Produce({c}), <<c.key, c.nonce>> \notin used
  PROVE  /\ used' = used \union {<<c.key, c.nonce>>}
         /\ IsFiniteSet(used') /\ sealed' \in Nat /\ Cardinality(used') = sealed'
<1>1. used' = used \union {<<c.key, c.nonce>>} /\ sealed' = sealed + Cardinality({c})
  BY DEF Produce
<1>2. Cardinality({c}) = 1
  BY FS_Singleton
<1> DEFINE u == <<c.key, c.nonce>>
<1> HIDE DEF u
<1>3. IsFiniteSet(used \union {u}) /\ (u \notin used => Cardinality(used \union {u}) = Cardinality(used) + 1)
  BY FS_AddElement
<1>4. QED
  BY <1>1, <1>2, <1>3 DEF u

\* Two of them, under different pairs.
LEMMA ProduceTwo ==
  ASSUME IsFiniteSet(used), sealed \in Nat, Cardinality(used) = sealed,
         NEW c, NEW d, Produce({c, d}), <<c.key, c.nonce>> # <<d.key, d.nonce>>,
         <<c.key, c.nonce>> \notin used, <<d.key, d.nonce>> \notin used
  PROVE  /\ used' = used \union {<<c.key, c.nonce>>, <<d.key, d.nonce>>}
         /\ IsFiniteSet(used') /\ sealed' \in Nat /\ Cardinality(used') = sealed'
<1> DEFINE u == <<c.key, c.nonce>>
           v == <<d.key, d.nonce>>
<1>1. used' = used \union {u, v} /\ sealed' = sealed + Cardinality({c, d})
  BY DEF Produce
<1>2. c # d
  OBVIOUS
<1>3. Cardinality({c}) = 1 /\ IsFiniteSet({c})
  BY FS_Singleton
<1>4. Cardinality({c} \union {d}) = Cardinality({c}) + 1
  BY <1>2, <1>3, FS_AddElement
<1>5. {c, d} = {c} \union {d} /\ used \union {u, v} = (used \union {u}) \union {v}
  OBVIOUS
<1>6. u \notin used /\ v \notin used /\ u # v
  OBVIOUS
<1> HIDE DEF u, v
<1>7. IsFiniteSet(used \union {u}) /\ Cardinality(used \union {u}) = sealed + 1
  BY <1>6, FS_AddElement
<1> DEFINE more == used \union {u}
<1>8. v \notin more
  BY <1>6
<1> HIDE DEF more
<1>9. /\ IsFiniteSet(more \union {v})
      /\ Cardinality(more \union {v}) = IF v \in more THEN Cardinality(more) ELSE Cardinality(more) + 1
  BY <1>7, FS_AddElement DEF more
<1>10. used' = more \union {v} /\ sealed' = sealed + 2
  BY <1>1, <1>3, <1>4, <1>5 DEF more
<1>11. QED
  BY <1>1, <1>7, <1>8, <1>9, <1>10 DEF u, v, more

----------------------------------------------------------------------------
(* Every action keeps the invariant.                                       *)

\* There are two ends.
LEMMA OtherEnd == Other("client") = "server" /\ Other("server") = "client"
  BY DEF Other, Ends

LEMMA InitIInv == Init => IInv
<1> SUFFICES ASSUME Init PROVE IInv
  OBVIOUS
<1>1. \A e \in Ends : ~Finished(e) /\ Finished(e) \in BOOLEAN
  BY DEF Init, Finished, Idle, newHandler
<1>2. Shape
  BY DEF Init, Shape
<1>3. FinishedKeys /\ ClientPhases /\ ServerPhases /\ InFlight /\ GenuineServerAccepted
  BY <1>1 DEF Init, FinishedKeys, ClientPhases, ServerPhases, InFlight, GenuineServerAccepted, Ends
<1>4. UsedKeys
  BY FS_EmptySet DEF Init, UsedKeys
<1>5. QED
  BY <1>2, <1>3, <1>4 DEF IInv

\* A new connection has new ephemerals: none of its keys has been used.
LEMMA StartHandshakeKeeps ==
  ASSUME IInv, NEW kind \in Servers, StartHandshake(kind)
  PROVE  IInv'
<1>1. /\ noise'["client"] = newHandler("WA3", <<"client", number + 1>>, "initiator")
      /\ noise'["server"] = Idle
  BY DEF StartHandshake, waHeader
<1>2. \A e \in Ends : ~Finished(e)' /\ Finished(e)' = FALSE
  BY <1>1 DEF Finished, Idle, newHandler, Ends
<1>3. Shape'
  BY DEF StartHandshake, IInv, Shape, Ends
<1>4. FinishedKeys' /\ InFlight' /\ GenuineServerAccepted'
  <2>1. \A e \in Ends : phase'[e] # "transport"
    BY DEF StartHandshake, Ends
  <2>2. refused' = {}
    BY DEF StartHandshake
  <2>3. FinishedKeys'
    BY <1>2 DEF FinishedKeys
  <2>4. InFlight'
    BY <2>1 DEF InFlight
  <2>5. QED
    BY <2>2, <2>3, <2>4 DEF GenuineServerAccepted
<1>5. ClientPhases' /\ ServerPhases'
  BY <1>1, <1>2 DEF ClientPhases, ServerPhases, StartHandshake, Ends
<1>6. UsedKeys'
  <2>1. ASSUME NEW u \in used
        PROVE  (\E n \in 1 .. number + 1 : OfConnection(u, n)) /\ ~OfConnection(u, number + 1)
    <3>1. PICK n \in 1 .. number : OfConnection(u, n)
      BY <2>1 DEF IInv, UsedKeys
    <3>2. number \in Nat /\ n \in 1 .. number + 1 /\ n # number + 1
      BY <3>1 DEF IInv, Shape
    <3>3. QED
      BY <3>1, <3>2, EphemeralsTell DEF OfConnection
  <2>2. number' = number + 1 /\ used' = used /\ sealed' = sealed
    BY DEF StartHandshake
  <2>3. IsFiniteSet(used) /\ Cardinality(used) = sealed /\ sealed \in Nat
    BY DEF IInv, UsedKeys
  <2>4. QED
    BY <2>1, <2>2, <2>3 DEF UsedKeys, IInv
<1>7. QED
  BY <1>3, <1>4, <1>5, <1>6 DEF IInv

\* The server seals twice, under a key each, neither of them used.
LEMMA ServerHelloKeeps ==
  ASSUME IInv, ServerHello
  PROVE  IInv'
<1> DEFINE h == HeaderOf(server)
           issuer == IssuerOf(server)
           static == StaticOf(number, h)
           cert == CertOf(number, h, issuer)
<1>1. /\ open /\ phase["server"] = "hello" /\ server \in Servers
      /\ ~Finished("server") /\ ~Finished("client") /\ phase["client"] # "transport"
      /\ wire["server"] = <<[ephemeral |-> <<"client", number>>]>>
  BY DEF ServerHello, IInv, ClientPhases, ServerPhases
<1>2. Head(wire["server"]).ephemeral = <<"client", number>> /\ Tail(wire["server"]) = << >>
  BY <1>1
<1>3. PICK x : /\ ServerWaits(x, number, h, issuer)
               /\ noise' = [noise EXCEPT !["server"] = x]
               /\ wire' = [Take("server") EXCEPT !["client"] = <<HelloOf(number, server)>>]
               /\ Produce({static, cert})
  <2> DEFINE ee == mixIntoKey(authenticate(newHandler(h, <<"client", number>>, "responder"), <<"server", number>>), EE(number))
             es == mixIntoKey(AfterEncrypt(ee, serverStatic), ES(number))
  <2>1. /\ Sealed(ee, serverStatic) = static /\ Sealed(es, issuer) = cert
        /\ ServerWaits(AfterEncrypt(es, issuer), number, h, issuer)
    BY ServerReplies
  <2>2. /\ sharedKey(ephemeral("server"), <<"client", number>>) = EE(number)
        /\ sharedKey(serverStatic, <<"client", number>>) = ES(number)
        /\ ephemeral("server") = <<"server", number>>
    BY DEF sharedKey, ephemeral, EE, ES
  <2>3. /\ noise' = [noise EXCEPT !["server"] = AfterEncrypt(es, issuer)]
        /\ wire' = [Take("server") EXCEPT !["client"] =
                      <<IF server = "incomplete" THEN [ephemeral |-> <<"server", number>>]
                        ELSE [ephemeral |-> <<"server", number>>, static |-> Sealed(ee, serverStatic), payload |-> Sealed(es, issuer)]>>]
        /\ Produce({Sealed(ee, serverStatic), Sealed(es, issuer)})
    BY <1>2, <2>2 DEF ServerHello, HeaderOf, IssuerOf
  <2> HIDE DEF ee, es, static, cert
  <2>4. /\ wire' = [Take("server") EXCEPT !["client"] = <<HelloOf(number, server)>>]
        /\ Produce({static, cert})
    BY <2>1, <2>3 DEF HelloOf, static, cert
  <2>5. QED
    BY <2>1, <2>3, <2>4
<1>4. /\ wire'["client"] = <<HelloOf(number, server)>> /\ wire'["server"] = << >>
      /\ wire' = [e \in Ends |-> wire'[e]]
  BY <1>2, <1>3 DEF IInv, Shape, Take, Ends
<1>5. noise'["client"] = noise["client"] /\ noise'["server"] = x /\ noise' = [e \in Ends |-> noise'[e]]
  BY <1>3 DEF IInv, Shape, Ends
<1>6. /\ phase' = [phase EXCEPT !["server"] = "finish"]
      /\ number' = number /\ server' = server /\ open' = open /\ refused' = refused
  BY DEF ServerHello
<1>7. x.handshakeFinished = FALSE
  BY <1>3 DEF ServerWaits, InHandshake
<1>8. \A e \in Ends : ~Finished(e)' /\ Finished(e)' \in BOOLEAN
  BY <1>1, <1>5, <1>7 DEF Finished, Ends, IInv, FinishedKeys
<1>9. phase'["server"] = "finish" /\ phase'["client"] = phase["client"]
  BY <1>6 DEF IInv, Shape, Ends
<1> HIDE DEF h, issuer, static, cert
<1>10. Shape'
  <2>1. number # 0
    BY <1>1 DEF IInv, Shape, Ends
  <2>2. phase' \in [Ends -> {"closed", "hello", "finish", "transport"}]
    BY <1>6 DEF IInv, Shape
  <2>3. QED
    BY <1>4, <1>5, <1>6, <2>1, <2>2 DEF IInv, Shape
<1>11. FinishedKeys' /\ InFlight' /\ GenuineServerAccepted'
  BY <1>1, <1>6, <1>8, <1>9 DEF FinishedKeys, InFlight, GenuineServerAccepted, IInv, Ends
<1>12. ClientPhases'
  BY <1>1, <1>4, <1>5, <1>6, <1>8, <1>9 DEF IInv, ClientPhases, Ends
<1>13. ServerPhases'
  BY <1>3, <1>4, <1>5, <1>6, <1>8, <1>9 DEF ServerPhases, h, issuer, Ends
<1>14. UsedKeys'
  <2> DEFINE u1 == <<static.key, static.nonce>>
             u2 == <<cert.key, cert.nonce>>
  <2>1. u1 = <<Key(Secrets1(number), 2), 0>> /\ u2 = <<Key(Secrets2(number), 2), 0>>
    BY DEF static, cert, StaticOf, CertOf, Cipher
  <2>2. /\ OfConnection(u1, number) /\ u1[2] = 0 /\ Len(u1[1].secrets) = 1
        /\ OfConnection(u2, number) /\ u2[2] = 0 /\ Len(u2[1].secrets) = 2
    BY <2>1, SecretsShape DEF OfConnection, Key
  <2>3. \A u \in used : ~OfConnection(u, number)
    BY <1>1 DEF IInv, UsedKeys
  <2> HIDE DEF u1, u2
  <2>4. u1 \notin used /\ u2 \notin used /\ u1 # u2
    BY <2>2, <2>3
  <2>5. IsFiniteSet(used) /\ sealed \in Nat /\ Cardinality(used) = sealed
    BY DEF IInv, UsedKeys
  <2>6. /\ used' = used \union {u1, u2}
        /\ IsFiniteSet(used') /\ sealed' \in Nat /\ Cardinality(used') = sealed'
    BY <1>3, <2>4, <2>5, ProduceTwo DEF u1, u2
  <2>7. number \in 1 .. number
    BY <1>1 DEF IInv, Shape, Ends
  <2>8. ASSUME NEW u \in used'
        PROVE  /\ u[2] \in Nat /\ \E n \in 1 .. number : OfConnection(u, n)
               /\ OfConnection(u, number) => u[2] = 0 /\ Len(u[1].secrets) \in {1, 2} /\ Len(u[1].secrets) # 4
    <3>1. CASE u \in used
      BY <2>3, <3>1 DEF IInv, UsedKeys
    <3>2. CASE u \in {u1, u2}
      <4>1. /\ OfConnection(u, number) /\ u[2] = 0
            /\ Len(u[1].secrets) \in {1, 2} /\ Len(u[1].secrets) # 4
        BY <2>2, <3>2
      <4>2. \E n \in 1 .. number : OfConnection(u, n)
        <5>1. WITNESS number \in 1 .. number
        <5>2. QED
          BY <4>1
      <4>3. QED
        BY <4>1, <4>2
    <3>3. QED
      BY <2>6, <3>1, <3>2
  <2>9. QED
    BY <1>6, <1>9, <2>6, <2>8 DEF UsedKeys
<1>15. QED
  BY <1>10, <1>11, <1>12, <1>13, <1>14 DEF IInv

\* What was in flight when the transport went down can still be read.
LEMMA DropKeeps ==
  ASSUME IInv, Drop
  PROVE  IInv'
<1>1. /\ open /\ open' = FALSE
      /\ UNCHANGED <<number, server, phase, noise, wire, used, sealed, refused>>
  BY DEF Drop
<1>2. \A e \in Ends : Finished(e)' = Finished(e) /\ Written(e)' = Written(e)
  BY <1>1 DEF Finished, Written
<1>3. Shape' /\ FinishedKeys' /\ ClientPhases' /\ GenuineServerAccepted'
  BY <1>1, <1>2 DEF IInv, Shape, FinishedKeys, ClientPhases, GenuineServerAccepted, Ends
<1>4. ServerPhases'
  BY <1>1, <1>2 DEF IInv, ServerPhases, Ends
<1>5. InFlight'
  BY <1>1, <1>2, OtherEnd DEF IInv, InFlight, Ends
<1>6. UsedKeys'
  BY <1>1, <1>2 DEF IInv, UsedKeys
<1>7. QED
  BY <1>3, <1>4, <1>5, <1>6 DEF IInv

LEMMA StutterKeeps ==
  ASSUME IInv, UNCHANGED vars
  PROVE  IInv'
<1>1. UNCHANGED <<number, server, open, phase, noise, wire, used, sealed, refused>>
  BY DEF vars
<1>2. \A e \in Ends : Finished(e)' = Finished(e) /\ Written(e)' = Written(e)
  BY <1>1 DEF Finished, Written
<1>3. Shape' /\ FinishedKeys' /\ ClientPhases' /\ GenuineServerAccepted'
  BY <1>1, <1>2 DEF IInv, Shape, FinishedKeys, ClientPhases, GenuineServerAccepted, Ends
<1>4. ServerPhases'
  BY <1>1, <1>2 DEF IInv, ServerPhases, Ends
<1>5. InFlight'
  BY <1>1, <1>2, OtherEnd DEF IInv, InFlight, Ends
<1>6. UsedKeys'
  BY <1>1, <1>2 DEF IInv, UsedKeys
<1>7. QED
  BY <1>3, <1>4, <1>5, <1>6 DEF IInv

\* An end that closes leaves the other as it was.
LEMMA CloseKeeps ==
  ASSUME IInv, NEW end \in Ends, Close(end)
  PROVE  IInv'
<1>1. /\ ~open /\ phase[end] # "closed"
      /\ phase' = [phase EXCEPT ![end] = "closed"] /\ wire' = [wire EXCEPT ![end] = << >>]
      /\ UNCHANGED <<number, server, open, noise, used, sealed, refused>>
  BY DEF Close
<1>2. \A e \in Ends : Finished(e)' = Finished(e) /\ Written(e)' = Written(e)
  BY <1>1 DEF Finished, Written
<1>3. \A e \in Ends : /\ phase'[e] = IF e = end THEN "closed" ELSE phase[e]
                      /\ wire'[e] = IF e = end THEN << >> ELSE wire[e]
  BY <1>1 DEF IInv, Shape
<1>4. Shape'
  BY <1>1 DEF IInv, Shape
<1>5. FinishedKeys' /\ GenuineServerAccepted'
  BY <1>1, <1>2 DEF IInv, FinishedKeys, GenuineServerAccepted
<1>6. ClientPhases'
  BY <1>1, <1>2, <1>3 DEF IInv, ClientPhases, Ends
<1>7. ServerPhases'
  BY <1>1, <1>2, <1>3 DEF IInv, ServerPhases, Ends
<1>8. InFlight'
  BY <1>1, <1>2, <1>3, OtherEnd DEF IInv, InFlight, Ends
<1>9. UsedKeys'
  BY <1>1, <1>2, <1>3 DEF IInv, UsedKeys, Ends
<1>10. QED
  BY <1>4, <1>5, <1>6, <1>7, <1>8, <1>9 DEF IInv

\* What is in flight is in order, so that the next frame always opens.
LEMMA ReceiveFrameKeeps ==
  ASSUME IInv, NEW end \in Ends, ReceiveFrame(end)
  PROVE  IInv'
<1> DEFINE key == noise[end].decKey
           count == noise[end].readCounter
           k == Len(wire[end])
<1>1. /\ phase[end] = "transport" /\ wire[end] # << >>
      /\ UNCHANGED <<number, server, open, used, sealed>> /\ wire' = Take(end)
  BY DEF ReceiveFrame
<1>2. /\ Finished(end) /\ IsReady(noise[end], end, number)
      /\ Finished("client") /\ phase["client"] # "hello" /\ phase["server"] # "hello"
  BY <1>1 DEF IInv, FinishedKeys, ClientPhases, ServerPhases, Ends
<1>3. /\ k \in Nat /\ wire[end] = Frames(key, count, k) /\ count \in Nat
      /\ count + k <= Written(Other(end)) /\ (open => count + k = Written(Other(end)))
  BY <1>1, <1>2 DEF IInv, InFlight, IsReady
<1>4. \A e \in Ends : Written(e) \in 0 .. MAX_COUNTER + 1
  BY DEF IInv, FinishedKeys, Written, IsReady
<1>5. Other(end) \in Ends /\ Other(end) # end
  BY OtherEnd DEF Ends
<1>6. k # 0
  <2>1. k = 0 => Frames(key, count, k) = << >>
    BY DEF Frames
  <2>2. QED
    BY <1>1, <1>3, <2>1
<1> HIDE DEF k, count, key
<1>7. count \in 0 .. MAX_COUNTER
  BY <1>3, <1>4, <1>5, <1>6
<1>8. Head(wire[end]) = Node(key, count) /\ Tail(wire[end]) = Frames(key, count + 1, k - 1)
  <2>1. k \in Nat \ {0}
    BY <1>3, <1>6
  <2>2. QED
    BY <1>3, <2>1, FramesTaken
<1> DEFINE x == AfterDecrypt(noise[end], Head(wire[end]))
<1>9. /\ CanDecrypt(noise[end], Head(wire[end])) /\ IsReady(x, end, number)
      /\ x.readCounter = count + 1 /\ x.writeCounter = noise[end].writeCounter
  BY <1>2, <1>7, <1>8, OpenReady DEF key, count
<1>10. /\ noise' = [noise EXCEPT ![end] = x] /\ UNCHANGED <<phase, refused>>
  BY <1>9 DEF ReceiveFrame
<1> HIDE DEF x
<1>11. /\ noise'[end] = x /\ wire'[end] = Frames(key, count + 1, k - 1)
       /\ \A e \in Ends \ {end} : noise'[e] = noise[e] /\ wire'[e] = wire[e]
       /\ noise' = [e \in Ends |-> noise'[e]] /\ wire' = [e \in Ends |-> wire'[e]]
  BY <1>1, <1>8, <1>10 DEF IInv, Shape, Take
<1>12. \A e \in Ends : Finished(e)' = Finished(e) /\ Written(e)' = Written(e)
  BY <1>2, <1>9, <1>11 DEF Finished, Written, IsReady
<1>13. Shape'
  BY <1>1, <1>10, <1>11 DEF IInv, Shape
<1>14. FinishedKeys' /\ GenuineServerAccepted'
  BY <1>1, <1>9, <1>10, <1>11, <1>12 DEF IInv, FinishedKeys, GenuineServerAccepted
<1>15. ClientPhases'
  BY <1>1, <1>2, <1>10, <1>11, <1>12 DEF IInv, ClientPhases, Ends
<1>16. ServerPhases'
  BY <1>1, <1>2, <1>10, <1>11, <1>12 DEF IInv, ServerPhases, Ends
<1>17. InFlight'
  <2>1. x.decKey = key
    BY <1>2, <1>9 DEF IsReady, key
  <2>2. Len(Frames(key, count + 1, k - 1)) = k - 1
    <3>1. count + 1 \in Nat /\ k - 1 \in Nat
      BY <1>3, <1>6
    <3>2. QED
      BY <3>1, FramesType
  <2>3. SUFFICES ASSUME NEW e \in Ends, phase'[e] = "transport"
                 PROVE  /\ Len(wire'[e]) \in Nat
                        /\ wire'[e] = Frames(noise'[e].decKey, noise'[e].readCounter, Len(wire'[e]))
                        /\ noise'[e].readCounter + Len(wire'[e]) <= Written(Other(e))'
                        /\ open' => noise'[e].readCounter + Len(wire'[e]) = Written(Other(e))'
    BY DEF InFlight
  <2>4. Other(e) \in Ends /\ Written(Other(e))' = Written(Other(e))
    BY <1>12, OtherEnd DEF Ends
  <2>5. CASE e = end
    BY <1>1, <1>3, <1>6, <1>9, <1>11, <2>1, <2>2, <2>4, <2>5
  <2>6. CASE e # end
    BY <1>1, <1>10, <1>11, <2>3, <2>4, <2>6 DEF IInv, InFlight
  <2>7. QED
    BY <2>5, <2>6
<1>18. UsedKeys'
  BY <1>1, <1>10, <1>12 DEF IInv, UsedKeys
<1>19. QED
  BY <1>13, <1>14, <1>15, <1>16, <1>17, <1>18 DEF IInv

\* A nonce is the number of frames sealed before it.
LEMMA SendNodeKeeps ==
  ASSUME IInv, NEW end \in Ends, SendNode(end)
  PROVE  IInv'
<1> DEFINE key == noise[end].encKey
           count == noise[end].writeCounter
           frame == Sealed(noise[end], "node")
           x == AfterEncrypt(noise[end], "node")
           to == Other(end)
<1>1. /\ phase[end] = "transport" /\ CanEncrypt(noise[end])
      /\ UNCHANGED <<number, server, open, phase, refused>>
      /\ Produce({frame}) /\ noise' = [noise EXCEPT ![end] = x]
      /\ wire' = IF open THEN [wire EXCEPT ![to] = Append(@, frame)] ELSE wire
  BY DEF SendNode, Put
<1>2. /\ Finished(end) /\ IsReady(noise[end], end, number) /\ server = "genuine"
      /\ Finished("client") /\ phase["client"] # "hello" /\ phase["server"] # "hello"
  BY <1>1 DEF IInv, FinishedKeys, ClientPhases, ServerPhases, Ends
<1>3. /\ frame = Cipher(SplitKey(number, HalfOf(end)), count, << >>, "node")
      /\ IsReady(x, end, number)
      /\ x.readCounter = noise[end].readCounter /\ x.writeCounter = count + 1
  BY <1>1, <1>2, SealReady
<1>4. frame = Node(SplitKey(number, HalfOf(end)), count) /\ key = SplitKey(number, HalfOf(end)) /\ count \in Nat
  BY <1>2, <1>3 DEF Node, IsReady
<1>5. to \in Ends /\ to # end /\ Other(to) = end /\ Ends = {end, to}
  BY OtherEnd DEF Ends
<1> HIDE DEF key, count, frame, x, to
<1>6. /\ noise'[end] = x /\ noise'[to] = noise[to] /\ noise' = [e \in Ends |-> noise'[e]]
      /\ wire'[end] = wire[end] /\ wire'[to] = (IF open THEN Append(wire[to], frame) ELSE wire[to])
      /\ wire' = [e \in Ends |-> wire'[e]]
  BY <1>1, <1>5 DEF IInv, Shape
<1>7. /\ Finished(end)' /\ Finished(to)' = Finished(to) /\ Finished(end)' = Finished(end)
      /\ Written(end) = count /\ Written(end)' = count + 1 /\ Written(to)' = Written(to)
  BY <1>2, <1>3, <1>6 DEF Finished, Written, IsReady, count
<1>8. Shape'
  BY <1>1, <1>6 DEF IInv, Shape
<1>9. FinishedKeys' /\ GenuineServerAccepted'
  BY <1>1, <1>3, <1>5, <1>6, <1>7 DEF IInv, FinishedKeys, GenuineServerAccepted, Finished
<1>10. ClientPhases'
  BY <1>1, <1>2, <1>5, <1>6, <1>7 DEF IInv, ClientPhases, Ends
<1>11. ServerPhases'
  <2>1. phase["server"] = "finish" => end = "client" /\ to = "server"
    BY <1>1, <1>5 DEF Ends
  <2>2. ASSUME phase["server"] = "finish", open
        PROVE  wire'["server"] = AfterFinish(number, count + 1)
    <3>1. wire["server"] = AfterFinish(number, count)
      BY <1>2, <1>7, <2>1, <2>2 DEF IInv, ServerPhases
    <3>2. frame = Node(SplitKey(number, 1), count)
      BY <1>4, <2>1, <2>2 DEF HalfOf
    <3>3. Append(AfterFinish(number, count), Node(SplitKey(number, 1), count)) = AfterFinish(number, count + 1)
      BY <1>4, FinishFirst
    <3>4. QED
      BY <1>6, <2>1, <2>2, <3>1, <3>2, <3>3
  <2>3. phase["server"] = "finish" => noise'["server"] = noise["server"] /\ Written("client")' = count + 1
    BY <1>6, <1>7, <2>1
  <2>4. /\ Finished("client")' = Finished("client") /\ Finished("server")' = Finished("server")
        /\ Finished("client")'
    BY <1>2, <1>5, <1>7 DEF Ends
  <2>5. QED
    BY <1>1, <1>2, <2>2, <2>3, <2>4 DEF IInv, ServerPhases
<1>12. InFlight'
  <2>1. ASSUME phase[to] = "transport"
        PROVE  /\ Len(wire'[to]) \in Nat
               /\ wire'[to] = Frames(noise[to].decKey, noise[to].readCounter, Len(wire'[to]))
               /\ noise[to].readCounter + Len(wire'[to]) <= count + 1
               /\ open => noise[to].readCounter + Len(wire'[to]) = count + 1
    <3> DEFINE from == noise[to].readCounter
               k == Len(wire[to])
    <3>1. /\ k \in Nat /\ wire[to] = Frames(noise[to].decKey, from, k)
          /\ from + k <= count /\ (open => from + k = count)
      BY <1>5, <1>7, <2>1 DEF IInv, InFlight
    <3>2. noise[to].decKey = SplitKey(number, HalfOf(end)) /\ from \in Nat
      <4>1. IsReady(noise[to], to, number)
        BY <1>5, <2>1 DEF IInv, FinishedKeys, ClientPhases, ServerPhases, Ends
      <4>2. 3 - HalfOf(to) = HalfOf(end)
        BY <1>5 DEF HalfOf, Ends
      <4>3. QED
        BY <4>1, <4>2 DEF IsReady
    <3> HIDE DEF from, k
    <3>3. CASE open
      <4>1. wire'[to] = Frames(SplitKey(number, HalfOf(end)), from, k + 1)
        BY <1>4, <1>6, <3>1, <3>2, <3>3, FramesPut
      <4>2. Len(Frames(SplitKey(number, HalfOf(end)), from, k + 1)) = k + 1
        <5>1. k + 1 \in Nat
          BY <3>1
        <5>2. QED
          BY <3>2, <5>1, FramesType
      <4>3. QED
        BY <1>4, <3>1, <3>2, <3>3, <4>1, <4>2 DEF from
    <3>4. CASE ~open
      BY <1>4, <1>6, <3>1, <3>2, <3>4 DEF from, k
    <3>5. QED
      BY <1>1, <3>3, <3>4
  <2>2. /\ Len(wire[end]) \in Nat
        /\ wire[end] = Frames(noise[end].decKey, noise[end].readCounter, Len(wire[end]))
        /\ noise[end].readCounter + Len(wire[end]) <= Written(to)
        /\ open => noise[end].readCounter + Len(wire[end]) = Written(to)
    BY <1>1 DEF IInv, InFlight, to
  <2>3. x.decKey = noise[end].decKey
    BY <1>2, <1>3 DEF IsReady
  <2>4. Written(Other(end))' = Written(to)' /\ Written(Other(to))' = Written(end)'
    BY <1>5 DEF to
  <2>5. QED
    BY <1>1, <1>3, <1>5, <1>6, <1>7, <2>1, <2>2, <2>3, <2>4 DEF InFlight
<1>13. UsedKeys'
  <2> DEFINE u1 == <<frame.key, frame.nonce>>
  <2>1. u1 = <<SplitKey(number, HalfOf(end)), count>>
    BY <1>4 DEF Node, Cipher
  <2>2. /\ OfConnection(u1, number) /\ Len(u1[1].secrets) = 4
        /\ u1[1].half = HalfOf(end) /\ u1[2] = count
    BY <2>1, SecretsShape DEF OfConnection, SplitKey, Key
  <2> HIDE DEF u1
  <2>3. u1 \notin used
    <3>1. SUFFICES ASSUME u1 \in used PROVE FALSE
      OBVIOUS
    <3>2. u1[2] < Written(end)
      BY <2>2, <3>1 DEF IInv, UsedKeys
    <3>3. QED
      BY <1>4, <1>7, <2>2, <3>2
  <2>4. /\ used' = used \union {u1}
        /\ IsFiniteSet(used') /\ sealed' \in Nat /\ Cardinality(used') = sealed'
    BY <1>1, <2>3, ProduceOne DEF IInv, UsedKeys, u1
  <2>5. number \in 1 .. number
    BY <1>1 DEF IInv, Shape
  <2>6. ASSUME NEW u \in used'
        PROVE  /\ u[2] \in Nat /\ \E n \in 1 .. number : OfConnection(u, n)
               /\ OfConnection(u, number) =>
                    \A e \in Ends : Len(u[1].secrets) = 4 /\ u[1].half = HalfOf(e) => u[2] < Written(e)'
    <3>1. CASE u \in used
      <4>1. ASSUME NEW e \in Ends, OfConnection(u, number), Len(u[1].secrets) = 4, u[1].half = HalfOf(e)
            PROVE  u[2] < Written(e)'
        <5>1. u[2] < Written(e) /\ u[2] \in Nat
          BY <3>1, <4>1 DEF IInv, UsedKeys
        <5>2. CASE e = end
          BY <1>4, <1>7, <5>1, <5>2
        <5>3. CASE e = to
          BY <1>7, <5>1, <5>3
        <5>4. QED
          BY <1>5, <5>2, <5>3
      <4>2. QED
        BY <3>1, <4>1 DEF IInv, UsedKeys
    <3>2. CASE u = u1
      <4>1. \E n \in 1 .. number : OfConnection(u, n)
        <5>1. WITNESS number \in 1 .. number
        <5>2. QED
          BY <2>2, <3>2
      <4>2. ASSUME NEW e \in Ends, u[1].half = HalfOf(e)
            PROVE  u[2] < Written(e)'
        <5>1. e = end
          BY <2>2, <3>2, <4>2 DEF HalfOf, Ends
        <5>2. QED
          BY <1>4, <1>7, <2>2, <3>2, <5>1
      <4>3. u[2] \in Nat
        BY <1>4, <2>2, <3>2
      <4>4. QED
        BY <4>1, <4>2, <4>3
    <3>3. QED
      BY <2>4, <3>1, <3>2
  <2>7. QED
    BY <1>1, <1>2, <2>4, <2>6 DEF UsedKeys
<1>14. QED
  BY <1>8, <1>9, <1>10, <1>11, <1>12, <1>13 DEF IInv

\* The client accepts the hello of a genuine server, and no other: a header of its
\* own makes the first ciphertext unreadable, an issuer of its own the certificate
\* invalid.
LEMMA AcceptsGenuine ==
  ASSUME server \in Servers, NEW hello, hello = HelloOf(number, server),
         noise["client"] = newHandler("WA3", <<"client", number>>, "initiator")
  PROVE  /\ Acceptable(hello) <=> server = "genuine"
         /\ server = "genuine" => InHandshake(AfterDecrypt(AfterES(hello), hello.payload),
                                     CertHash(number, "WA3", "expected"), Secrets2(number), 1, "initiator")
<1> DEFINE ee == mixIntoKey(authenticate(newHandler("WA3", <<"client", number>>, "initiator"), <<"server", number>>), EE(number))
           h == HeaderOf(server)
           issuer == IssuerOf(server)
<1>1. hello.ephemeral = <<"server", number>>
  BY DEF HelloOf
<1>2. AfterEE(hello) = ee
  <2>1. sharedKey(ephemeral("client"), <<"server", number>>) = EE(number)
    BY DEF sharedKey, ephemeral, EE
  <2>2. QED
    BY <1>1, <2>1 DEF AfterEE
<1>3. InHandshake(ee, EEHash(number, "WA3"), Secrets1(number), 0, "initiator")
  BY AfterEphemerals
<1>4. CASE server = "genuine"
  <2> DEFINE static == StaticOf(number, "WA3")
             cert == CertOf(number, "WA3", "expected")
             es == mixIntoKey(AfterDecrypt(ee, static), ES(number))
  <2>1. h = "WA3" /\ issuer = "expected"
    BY <1>4 DEF HeaderOf, IssuerOf, waHeader
  <2>2. Complete(hello) /\ hello.static = static /\ hello.payload = cert
    BY <1>4, <2>1 DEF HelloOf, Complete
  <2>3. static.text = serverStatic /\ cert.text = "expected"
    BY DEF StaticOf, CertOf, Cipher
  <2>4. sharedKey(ephemeral("client"), serverStatic) = ES(number)
    BY DEF sharedKey, ephemeral, ES
  <2>5. /\ CanDecrypt(ee, static) /\ CanDecrypt(es, cert)
        /\ InHandshake(AfterDecrypt(es, cert), CertHash(number, "WA3", "expected"), Secrets2(number), 1, "initiator")
    BY ClientReads
  <2> HIDE DEF ee, static, cert
  <2>6. AfterES(hello) = es
    BY <1>2, <2>2, <2>3, <2>4 DEF AfterES
  <2> HIDE DEF es
  <2>7. Acceptable(hello)
    BY <1>2, <2>2, <2>3, <2>5, <2>6 DEF Acceptable, validServerCertificate
  <2>8. QED
    BY <1>4, <2>2, <2>5, <2>6, <2>7
<1>5. CASE server = "otherDictionary"
  <2>1. h = "WA2" /\ hello.static.ad = EEHash(number, h)
    BY <1>5 DEF HeaderOf, waHeader, HelloOf, StaticOf, Cipher
  <2>2. EEHash(number, h) # EEHash(number, "WA3")
    BY <2>1, HeaderTells
  <2> HIDE DEF ee
  <2>3. 0 \in 0 .. MAX_COUNTER
    OBVIOUS
  <2>4. CanDecrypt(ee, hello.static) => hello.static.ad = EEHash(number, "WA3")
    BY <1>3, <2>3, OpenState
  <2>5. QED
    BY <1>2, <1>5, <2>1, <2>2, <2>4 DEF Acceptable
<1>6. CASE server = "otherIssuer"
  <2>1. issuer = "other" /\ hello.payload.text = issuer
    BY <1>6 DEF IssuerOf, HelloOf, CertOf, Cipher
  <2>2. QED
    BY <1>6, <2>1 DEF Acceptable, validServerCertificate
<1>7. CASE server = "incomplete"
  BY <1>7 DEF Acceptable, Complete, HelloOf
<1>8. QED
  BY <1>4, <1>5, <1>6, <1>7

\* The client seals its static key under the key the certificate was sealed with, but with
\* the next nonce, since decrypting has counted.
LEMMA CompleteHandshakeKeeps ==
  ASSUME IInv, CompleteHandshake
  PROVE  IInv'
<1> DEFINE hello == Head(wire["client"])
<1>1. /\ phase["client"] = "hello" /\ server \in Servers
      /\ ~Finished("client") /\ ~Finished("server")
      /\ phase["server"] \in {"closed", "finish"}
      /\ noise["client"] = newHandler("WA3", <<"client", number>>, "initiator")
      /\ wire["client"] = <<HelloOf(number, server)>> /\ number # 0
  <2>1. phase["client"] = "hello" /\ wire["client"] # << >>
    BY DEF CompleteHandshake
  <2>2. /\ server \in Servers /\ ~Finished("server") /\ phase["server"] # "transport"
        /\ noise["client"] = newHandler("WA3", <<"client", number>>, "initiator")
        /\ wire["client"] = <<HelloOf(number, server)>> /\ phase["server"] # "hello"
    BY <2>1 DEF IInv, ClientPhases
  <2>3. ~Finished("client")
    BY <2>2 DEF Finished, newHandler
  <2>4. number # 0 /\ phase["server"] \in {"closed", "hello", "finish", "transport"}
    BY <2>1 DEF IInv, Shape, Ends
  <2>5. QED
    BY <2>1, <2>2, <2>3, <2>4
<1>2. hello = HelloOf(number, server) /\ Tail(wire["client"]) = << >>
  BY <1>1
<1>3. UNCHANGED <<number, server, open>>
  BY DEF CompleteHandshake
<1>4. Take("client")["client"] = << >> /\ Take("client") = [e \in Ends |-> Take("client")[e]]
      /\ Take("client")["server"] = wire["server"]
  BY <1>2 DEF Take, IInv, Shape, Ends
<1> HIDE DEF hello
<1>5. CASE ~Acceptable(hello)
  <2>1. /\ Refuse("client") /\ wire' = Take("client") /\ UNCHANGED <<noise, used, sealed>>
    BY <1>5 DEF CompleteHandshake, hello
  <2>2. server # "genuine"
    BY <1>1, <1>2, <1>5, AcceptsGenuine
  <2>3. /\ phase'["client"] = "closed" /\ phase'["server"] = phase["server"]
        /\ phase' \in [Ends -> {"closed", "hello", "finish", "transport"}]
        /\ refused' \subseteq Ends
    BY <2>1 DEF Refuse, IInv, Shape, Ends
  <2>4. \A e \in Ends : Finished(e)' = Finished(e) /\ Written(e)' = Written(e)
    BY <2>1 DEF Finished, Written
  <2>5. Shape'
    BY <1>1, <1>3, <1>4, <2>1, <2>3 DEF IInv, Shape
  <2>6. FinishedKeys' /\ GenuineServerAccepted'
    BY <1>3, <2>1, <2>2, <2>4 DEF IInv, FinishedKeys, GenuineServerAccepted
  <2>7. ClientPhases'
    BY <1>1, <2>3, <2>4 DEF ClientPhases, Ends
  <2>8. ServerPhases'
    BY <1>1, <1>3, <1>4, <2>1, <2>3, <2>4 DEF IInv, ServerPhases, Ends
  <2>9. InFlight'
    BY <1>1, <2>3 DEF InFlight, Ends
  <2>10. UsedKeys'
    BY <1>3, <1>1, <2>1, <2>3, <2>4 DEF IInv, UsedKeys
  <2>11. QED
    BY <2>5, <2>6, <2>7, <2>8, <2>9, <2>10 DEF IInv
<1>6. CASE Acceptable(hello)
  <2> DEFINE ready == AfterDecrypt(AfterES(hello), hello.payload)
             static == ClientStaticOf(number)
             payload == PayloadOf(number)
             se == mixIntoKey(AfterEncrypt(ready, clientStatic), SE(number))
             done == finishInit(AfterEncrypt(se, "payload"))
  <2>1. server = "genuine"
        /\ InHandshake(ready, CertHash(number, "WA3", "expected"), Secrets2(number), 1, "initiator")
    BY <1>1, <1>2, <1>6, AcceptsGenuine
  <2> HIDE DEF ready
  <2>2. /\ Sealed(ready, clientStatic) = static /\ Sealed(se, "payload") = payload
        /\ IsReady(done, "client", number) /\ done.readCounter = 0 /\ done.writeCounter = 0
    BY <2>1, ClientFinishes
  <2>3. sharedKey(clientStatic, hello.ephemeral) = SE(number)
    <3>1. hello.ephemeral = <<"server", number>>
      BY <1>2 DEF HelloOf
    <3>2. QED
      BY <3>1 DEF sharedKey, SE
  <2>4. /\ noise' = [noise EXCEPT !["client"] = done] /\ Produce({static, payload}) /\ refused' = refused
        /\ IF open
           THEN /\ wire' = [Take("client") EXCEPT !["server"] = Append(@, [static |-> static, payload |-> payload])]
                /\ phase' = [phase EXCEPT !["client"] = "transport"]
           ELSE /\ wire' = Take("client")
                /\ phase' = [phase EXCEPT !["client"] = "closed"]
    BY <1>6, <2>2, <2>3 DEF CompleteHandshake, hello, ready
  <2> HIDE DEF static, payload, se, done
  <2>5. /\ noise'["client"] = done /\ noise'["server"] = noise["server"] /\ noise' = [e \in Ends |-> noise'[e]]
    BY <2>4 DEF IInv, Shape, Ends
  <2>6. /\ Finished("client")' = TRUE /\ Finished("server")' = Finished("server")
        /\ Written("client")' = 0 /\ Written("server")' = 0
    BY <1>1, <2>2, <2>5 DEF Finished, Written, IsReady
  <2>7. /\ phase'["client"] = (IF open THEN "transport" ELSE "closed") /\ phase'["server"] = phase["server"]
        /\ phase' \in [Ends -> {"closed", "hello", "finish", "transport"}]
    BY <2>4 DEF IInv, Shape, Ends
  <2>8. /\ wire'["client"] = << >> /\ wire' = [e \in Ends |-> wire'[e]]
        /\ open => wire'["server"] = Append(wire["server"], [static |-> static, payload |-> payload])
    <3>1. CASE open
      BY <1>4, <2>4, <3>1 DEF Ends
    <3>2. CASE ~open
      BY <1>4, <2>4, <3>2
    <3>3. QED
      BY <3>1, <3>2
  <2>9. Shape'
    BY <1>1, <1>3, <2>4, <2>5, <2>7, <2>8 DEF IInv, Shape
  <2>10. FinishedKeys' /\ GenuineServerAccepted'
    <3>1. FinishedKeys'
      BY <1>1, <1>3, <2>2, <2>5, <2>6 DEF IInv, FinishedKeys, Ends
    <3>2. QED
      BY <1>3, <2>4, <3>1 DEF IInv, GenuineServerAccepted
  <2>11. ClientPhases'
    BY <1>1, <1>3, <2>1, <2>6, <2>7 DEF ClientPhases, Ends
  <2>12. ServerPhases'
    <3>1. ASSUME open, phase["server"] = "finish"
          PROVE  wire'["server"] = AfterFinish(number, 0)
      <4>1. wire["server"] = << >>
        BY <1>1, <3>1 DEF IInv, ServerPhases
      <4>2. AfterFinish(number, 0) = <<FinishOf(number)>>
        <5>1. 0 \in Nat
          OBVIOUS
        <5>2. QED
          BY <5>1, FinishFirst
      <4>3. FinishOf(number) = [static |-> static, payload |-> payload]
        BY DEF FinishOf, static, payload
      <4>4. QED
        BY <2>8, <3>1, <4>1, <4>2, <4>3
    <3>2. QED
      BY <1>1, <1>3, <2>5, <2>6, <2>7, <3>1 DEF IInv, ServerPhases, Ends
  <2>13. InFlight'
    <3>1. phase'["server"] # "transport"
      BY <1>1, <2>7
    <3>2. /\ Len(wire'["client"]) = 0 /\ \A key : Frames(key, 0, 0) = << >>
      BY <2>8 DEF Frames
    <3>3. noise'["client"].readCounter = 0
      BY <2>2, <2>5
    <3>4. QED
      BY <2>6, <2>8, <3>1, <3>2, <3>3, OtherEnd DEF InFlight, Ends
  <2>14. UsedKeys'
    <3> DEFINE u1 == <<static.key, static.nonce>>
               u2 == <<payload.key, payload.nonce>>
    <3>1. u1 = <<Key(Secrets2(number), 2), 1>> /\ u2 = <<Key(Secrets3(number), 2), 0>>
      BY DEF static, payload, ClientStaticOf, PayloadOf, Cipher
    <3>2. /\ OfConnection(u1, number) /\ u1[2] = 1 /\ Len(u1[1].secrets) = 2
          /\ OfConnection(u2, number) /\ u2[2] = 0 /\ Len(u2[1].secrets) = 3
      BY <3>1, SecretsShape DEF OfConnection, Key
    <3>3. \A u \in used : OfConnection(u, number) => u[2] = 0 /\ Len(u[1].secrets) \in {1, 2}
      BY <1>1 DEF IInv, UsedKeys
    <3> HIDE DEF u1, u2
    <3>4. u1 \notin used /\ u2 \notin used /\ u1 # u2
      BY <3>2, <3>3
    <3>5. IsFiniteSet(used) /\ sealed \in Nat /\ Cardinality(used) = sealed
      BY DEF IInv, UsedKeys
    <3>6. /\ used' = used \union {u1, u2}
          /\ IsFiniteSet(used') /\ sealed' \in Nat /\ Cardinality(used') = sealed'
      BY <2>4, <3>4, <3>5, ProduceTwo DEF u1, u2
    <3>7. number \in 1 .. number
      BY <1>1 DEF IInv, Shape
    <3>8. ASSUME NEW u \in used'
          PROVE  /\ u[2] \in Nat /\ \E n \in 1 .. number : OfConnection(u, n)
                 /\ OfConnection(u, number) => Len(u[1].secrets) # 4
      <4>1. CASE u \in used
        BY <3>3, <4>1 DEF IInv, UsedKeys
      <4>2. CASE u \in {u1, u2}
        <5>1. /\ OfConnection(u, number) /\ u[2] \in Nat /\ Len(u[1].secrets) # 4
          BY <3>2, <4>2
        <5>2. \E n \in 1 .. number : OfConnection(u, n)
          <6>1. WITNESS number \in 1 .. number
          <6>2. QED
            BY <5>1
        <5>3. QED
          BY <5>1, <5>2
      <4>3. QED
        BY <3>6, <4>1, <4>2
    <3>9. phase'["server"] # "hello" /\ phase'["client"] # "hello"
      BY <1>1, <2>7
    <3>10. QED
      BY <1>3, <3>6, <3>8, <3>9 DEF UsedKeys
  <2>15. QED
    BY <2>9, <2>10, <2>11, <2>12, <2>13, <2>14 DEF IInv
<1>7. QED
  BY <1>5, <1>6

\* The server's last step: it reads the finish and has the keys the client has.
LEMMA ServerFinishKeeps ==
  ASSUME IInv, ServerFinish
  PROVE  IInv'
<1> DEFINE k == Written("client")
           finish == Head(wire["server"])
           x == noise["server"]
           se == mixIntoKey(AfterDecrypt(x, ClientStaticOf(number)), SE(number))
           done == finishInit(AfterDecrypt(se, PayloadOf(number)))
<1>1. /\ open /\ phase["server"] = "finish" /\ wire["server"] # << >>
      /\ wire' = Take("server") /\ UNCHANGED <<number, server, open, used, sealed>>
  BY DEF ServerFinish
<1>2. /\ Finished("client") /\ server = "genuine" /\ ~Finished("server")
      /\ wire["server"] = AfterFinish(number, k) /\ k \in Nat
      /\ ServerWaits(x, number, HeaderOf(server), IssuerOf(server))
  BY <1>1 DEF IInv, ClientPhases, ServerPhases, FinishedKeys, IsReady, Written, Ends
<1>3. HeaderOf(server) = "WA3" /\ IssuerOf(server) = "expected"
  BY <1>2 DEF HeaderOf, IssuerOf, waHeader
<1> HIDE DEF k, x
<1>4. finish = FinishOf(number) /\ Tail(wire["server"]) = Frames(SplitKey(number, 1), 0, k)
  BY <1>2, FinishFirst
<1>5. finish.static = ClientStaticOf(number) /\ finish.payload = PayloadOf(number)
  BY <1>4 DEF FinishOf
<1>6. sharedKey(ephemeral("server"), finish.static.text) = SE(number)
  <2>1. finish.static.text = clientStatic
    BY <1>5 DEF ClientStaticOf, Cipher
  <2>2. QED
    BY <2>1 DEF sharedKey, ephemeral, SE
<1>7. /\ CanDecrypt(x, ClientStaticOf(number)) /\ CanDecrypt(se, PayloadOf(number))
      /\ IsReady(done, "server", number) /\ done.readCounter = 0 /\ done.writeCounter = 0
  BY <1>2, <1>3, ServerFinishes
<1> HIDE DEF finish
<1>8. /\ noise' = [noise EXCEPT !["server"] = done] /\ phase' = [phase EXCEPT !["server"] = "transport"]
      /\ refused' = refused
  BY <1>5, <1>6, <1>7 DEF ServerFinish, finish, x
<1> HIDE DEF se, done
<1>9. /\ noise'["server"] = done /\ noise'["client"] = noise["client"] /\ noise' = [e \in Ends |-> noise'[e]]
      /\ wire'["server"] = Frames(SplitKey(number, 1), 0, k) /\ wire'["client"] = wire["client"]
      /\ wire' = [e \in Ends |-> wire'[e]]
      /\ phase'["server"] = "transport" /\ phase'["client"] = phase["client"]
  BY <1>1, <1>4, <1>8 DEF IInv, Shape, Take, Ends
<1>10. /\ Finished("server")' = TRUE /\ Finished("client")' = Finished("client")
       /\ Written("server")' = 0 /\ Written("server") = 0 /\ Written("client")' = k
  BY <1>2, <1>7, <1>9 DEF Finished, Written, IsReady, k
<1>11. Shape'
  <2>1. number # 0
    BY <1>1 DEF IInv, Shape, Ends
  <2>2. phase' \in [Ends -> {"closed", "hello", "finish", "transport"}]
    BY <1>8 DEF IInv, Shape
  <2>3. QED
    BY <1>1, <1>8, <1>9, <2>1, <2>2 DEF IInv, Shape
<1>12. FinishedKeys' /\ GenuineServerAccepted'
  BY <1>1, <1>7, <1>8, <1>9, <1>10 DEF IInv, FinishedKeys, GenuineServerAccepted, Ends
<1>13. ClientPhases' /\ ServerPhases'
  BY <1>1, <1>2, <1>9, <1>10 DEF IInv, ClientPhases, ServerPhases, Finished, newHandler, Ends
<1>14. InFlight'
  <2>1. done.decKey = SplitKey(number, 1)
    BY <1>7 DEF IsReady, HalfOf
  <2>2. Len(Frames(SplitKey(number, 1), 0, k)) = k
    <3>1. 0 \in Nat
      OBVIOUS
    <3>2. QED
      BY <1>2, <3>1, FramesType
  <2>3. /\ Len(wire'["server"]) \in Nat
        /\ wire'["server"] = Frames(noise'["server"].decKey, noise'["server"].readCounter, Len(wire'["server"]))
        /\ noise'["server"].readCounter + Len(wire'["server"]) = Written(Other("server"))'
        /\ noise'["server"].readCounter + Len(wire'["server"]) <= Written(Other("server"))'
    BY <1>2, <1>7, <1>9, <1>10, <2>1, <2>2, OtherEnd
  <2>4. phase["client"] = "transport" =>
          /\ Len(wire["client"]) \in Nat
          /\ wire["client"] = Frames(noise["client"].decKey, noise["client"].readCounter, Len(wire["client"]))
          /\ noise["client"].readCounter + Len(wire["client"]) <= Written("server")
          /\ noise["client"].readCounter + Len(wire["client"]) = Written("server")
    BY <1>1, OtherEnd DEF IInv, InFlight, Ends
  <2>5. Written(Other("client"))' = Written("server")
    BY <1>10, OtherEnd
  <2>6. QED
    BY <1>9, <2>3, <2>4, <2>5 DEF InFlight, Ends
<1>15. UsedKeys'
  <2>1. \A e \in Ends : Written(e)' = Written(e)
    BY <1>10 DEF k, Ends
  <2>2. QED
    BY <1>1, <1>9, <2>1 DEF IInv, UsedKeys
<1>16. QED
  BY <1>11, <1>12, <1>13, <1>14, <1>15 DEF IInv

\* One action after the other.
LEMMA NextKeeps == IInv /\ [Next]_vars => IInv'
<1> SUFFICES ASSUME IInv, [Next]_vars PROVE IInv'
  OBVIOUS
<1>1. ASSUME NEW kind \in Servers, StartHandshake(kind) PROVE IInv'
  BY <1>1, StartHandshakeKeeps
<1>2. CASE ServerHello
  BY <1>2, ServerHelloKeeps
<1>3. CASE CompleteHandshake
  BY <1>3, CompleteHandshakeKeeps
<1>4. CASE ServerFinish
  BY <1>4, ServerFinishKeeps
<1>5. ASSUME NEW e \in Ends, SendNode(e) PROVE IInv'
  BY <1>5, SendNodeKeeps
<1>6. ASSUME NEW e \in Ends, ReceiveFrame(e) PROVE IInv'
  BY <1>6, ReceiveFrameKeeps
<1>7. ASSUME NEW e \in Ends, Close(e) PROVE IInv'
  BY <1>7, CloseKeeps
<1>8. CASE Drop
  BY <1>8, DropKeeps
<1>9. CASE UNCHANGED vars
  BY <1>9, StutterKeeps
<1>10. QED
  BY <1>1, <1>2, <1>3, <1>4, <1>5, <1>6, <1>7, <1>8, <1>9 DEF Next

----------------------------------------------------------------------------
\* The invariant holds in every reachable state, for any number of connections, any
\* counter limit and any length of queue.
THEOREM Invariance == Spec => []IInv
  BY InitIInv, NextKeeps, PTL DEF Spec

\* Every encryption of every connection has a key and a nonce of its own: keys differ
\* between connections and steps, and nonces count what a key has sealed.
THEOREM NoncesAreFresh == Spec => []NonceUsedOnce
<1>1. IInv => NonceUsedOnce
  BY DEF IInv, UsedKeys, NonceUsedOnce
<1>2. QED
  BY <1>1, Invariance, PTL

\* finishInit gives each end the other's keys, the two directions not the same one.
THEOREM EndsAgree == Spec => []KeysAgree
<1>1. IInv => KeysAgree
  <2> SUFFICES ASSUME IInv, \A e \in Ends : phase[e] = "transport" PROVE KeysAgree
    BY DEF KeysAgree
  <2>1. IsReady(noise["client"], "client", number) /\ IsReady(noise["server"], "server", number)
    BY DEF IInv, FinishedKeys, ClientPhases, ServerPhases, Ends
  <2>2. SplitKey(number, 1) # SplitKey(number, 2)
    BY DEF SplitKey, Key
  <2>3. QED
    BY <2>1, <2>2 DEF IsReady, HalfOf, KeysAgree
<1>2. QED
  BY <1>1, Invariance, PTL

\* Neither completeHandshake nor the frame handler refuses what a genuine server sends,
\* however the frames of the two directions pass each other.
THEOREM GenuineNeverRefused == Spec => []GenuineServerAccepted
<1>1. IInv => GenuineServerAccepted
  BY DEF IInv
<1>2. QED
  BY <1>1, Invariance, PTL

\* completeHandshake lets no other server through, so no node is sent to one.
THEOREM OnlyGenuineServed == Spec => []TransportOnlyWithGenuine
<1>1. IInv => TransportOnlyWithGenuine
  BY DEF IInv, ClientPhases, TransportOnlyWithGenuine
<1>2. QED
  BY <1>1, Invariance, PTL
=============================================================================
