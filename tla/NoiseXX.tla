------------------------------ MODULE NoiseXX ------------------------------
(***************************************************************************)
(* Successive connections of a client to a server: the handshake, then     *)
(* frames both ways at once.  The client is the code of this repository;   *)
(* the server is external, the responder its tests run against.  The       *)
(* transport keeps order and may go down at any moment.                    *)
(***************************************************************************)
EXTENDS NoiseHandler, FiniteSets

CONSTANTS Servers,         \* the kinds of server that may answer
          MaxConnections,  \* bound: connections
          MaxQueue         \* bound: frames in flight in one direction

ASSUME BoundsAssumption == MaxConnections \in Nat /\ MaxQueue \in Nat \ {0}
ASSUME ServersAssumption == Servers \subseteq {"genuine", "otherDictionary", "otherIssuer", "incomplete"}

VARIABLES
  number,     \* connections so far: names their ephemeral keys
  server,     \* the kind of server at the other end
  open,       \* the transport is up
  phase,      \* where each end stands
  noise,      \* the Noise state of each end
  wire,       \* frames on their way to each end
  used,       \* history: every key and nonce encrypted with
  sealed,     \* history: encryptions made
  refused     \* history: the end whose decrypt threw in this connection

vars == <<number, server, open, phase, noise, wire, used, sealed, refused>>

Ends == {"client", "server"}
Other(e) == CHOOSE x \in Ends : x # e

clientStatic == <<"client", "static">>
serverStatic == <<"server", "static">>
ephemeral(e) == <<e, number>>

waHeader(end, kind) == IF end = "server" /\ kind = "otherDictionary" THEN "WA2" ELSE "WA3"

Idle == newHandler("none", "none", "none")

Init ==
  /\ number = 0 /\ server = "none" /\ open = FALSE
  /\ phase = [e \in Ends |-> "closed"]
  /\ noise = [e \in Ends |-> Idle]
  /\ wire = [e \in Ends |-> << >>]
  /\ used = {} /\ sealed = 0 /\ refused = {}

----------------------------------------------------------------------------
\* Records the ciphertexts an end has produced.
Produce(ciphertexts) ==
  /\ used' = used \union {<<c.key, c.nonce>> : c \in ciphertexts}
  /\ sealed' = sealed + Cardinality(ciphertexts)

Put(e, frame) == [wire EXCEPT ![e] = Append(@, frame)]
Take(e) == [wire EXCEPT ![e] = Tail(@)]

\* decrypt threw: the frame handler closes the socket.  The Noise state it leaves
\* half way is never used again.
Refuse(e) ==
  /\ refused' = refused \union {e}
  /\ phase' = [phase EXCEPT ![e] = "closed"]

\* startHandshake: the ClientHello carries a fresh ephemeral key.
StartHandshake(kind) ==
  /\ phase["client"] = "closed" /\ ~open
  /\ number < MaxConnections
  /\ number' = number + 1 /\ server' = kind /\ open' = TRUE
  /\ phase' = [client |-> "hello", server |-> "hello"]
  /\ noise' = [client |-> newHandler(waHeader("client", kind), <<"client", number + 1>>, "initiator"),
               server |-> Idle]
  /\ wire' = [client |-> << >>, server |-> <<[ephemeral |-> <<"client", number + 1>>]>>]
  /\ refused' = {}
  /\ UNCHANGED <<used, sealed>>

\* The server's reply: e, ee, s, es and the certificate.
ServerHello ==
  /\ open /\ phase["server"] = "hello" /\ wire["server"] # << >>
  /\ LET theirs == Head(wire["server"]).ephemeral
         begun  == newHandler(waHeader("server", server), theirs, "responder")
         ee     == mixIntoKey(authenticate(begun, ephemeral("server")), sharedKey(ephemeral("server"), theirs))
         static == Sealed(ee, serverStatic)
         es     == mixIntoKey(AfterEncrypt(ee, serverStatic), sharedKey(serverStatic, theirs))
         issuer == IF server = "otherIssuer" THEN "other" ELSE "expected"
         cert   == Sealed(es, issuer)
     IN  /\ noise' = [noise EXCEPT !["server"] = AfterEncrypt(es, issuer)]
         /\ wire' = [Take("server") EXCEPT !["client"] =
                       <<IF server = "incomplete" THEN [ephemeral |-> ephemeral("server")]
                         ELSE [ephemeral |-> ephemeral("server"), static |-> static, payload |-> cert]>>]
         /\ Produce({static, cert})
  /\ phase' = [phase EXCEPT !["server"] = "finish"]
  /\ UNCHANGED <<number, server, open, refused>>

----------------------------------------------------------------------------
(* completeHandshake.                                                      *)

Complete(hello) == DOMAIN hello = {"ephemeral", "static", "payload"}

\* A slip in validServerCertificate: the issuer is not compared.
anyServerCertificate(certPayload) == TRUE

validServerCertificate(certPayload) == certPayload = "expected"

\* The state in which the static key of the server is decrypted, and the one in
\* which its certificate is.
AfterEE(hello) ==
  mixIntoKey(authenticate(noise["client"], hello.ephemeral),
             sharedKey(ephemeral("client"), hello.ephemeral))
AfterES(hello) ==
  mixIntoKey(AfterDecrypt(AfterEE(hello), hello.static),
             sharedKey(ephemeral("client"), hello.static.text))

Acceptable(hello) ==
  /\ Complete(hello)
  /\ CanDecrypt(AfterEE(hello), hello.static)
  /\ CanDecrypt(AfterES(hello), hello.payload)
  /\ validServerCertificate(hello.payload.text)

CompleteHandshake ==
  /\ phase["client"] = "hello" /\ wire["client"] # << >>
  /\ LET hello == Head(wire["client"])
     IN  IF ~Acceptable(hello)
         THEN /\ Refuse("client")
              /\ wire' = Take("client")
              /\ UNCHANGED <<noise, used, sealed>>
         ELSE LET ready   == AfterDecrypt(AfterES(hello), hello.payload)
                  static  == Sealed(ready, clientStatic)
                  se      == mixIntoKey(AfterEncrypt(ready, clientStatic),
                                        sharedKey(clientStatic, hello.ephemeral))
                  payload == Sealed(se, "payload")
              IN  /\ noise' = [noise EXCEPT !["client"] = finishInit(AfterEncrypt(se, "payload"))]
                  /\ Produce({static, payload})
                  /\ IF open    \* sendRawFrame
                     THEN /\ wire' = [Take("client") EXCEPT !["server"] =
                                        Append(@, [static |-> static, payload |-> payload])]
                          /\ phase' = [phase EXCEPT !["client"] = "transport"]
                     ELSE /\ wire' = Take("client")
                          /\ phase' = [phase EXCEPT !["client"] = "closed"]
                  /\ UNCHANGED refused
  /\ UNCHANGED <<number, server, open>>

\* The server takes in s, se and the payload.
ServerFinish ==
  /\ open /\ phase["server"] = "finish" /\ wire["server"] # << >>
  /\ LET finish == Head(wire["server"])
         se     == mixIntoKey(AfterDecrypt(noise["server"], finish.static),
                              sharedKey(ephemeral("server"), finish.static.text))
     IN  IF CanDecrypt(noise["server"], finish.static) /\ CanDecrypt(se, finish.payload)
         THEN /\ noise' = [noise EXCEPT !["server"] = finishInit(AfterDecrypt(se, finish.payload))]
              /\ phase' = [phase EXCEPT !["server"] = "transport"]
              /\ UNCHANGED refused
         ELSE Refuse("server") /\ UNCHANGED noise
  /\ wire' = Take("server")
  /\ UNCHANGED <<number, server, open, used, sealed>>

----------------------------------------------------------------------------
(* Transport mode, alike at both ends.                                     *)

\* sendNode: the node is encrypted first, and lost if the transport is down.
SendNode(e) ==
  /\ phase[e] = "transport"
  /\ CanEncrypt(noise[e])
  /\ Len(wire[Other(e)]) < MaxQueue
  /\ LET frame == Sealed(noise[e], "node")
     IN  /\ Produce({frame})
         /\ noise' = [noise EXCEPT ![e] = AfterEncrypt(@, "node")]
         /\ wire' = IF open THEN Put(Other(e), frame) ELSE wire
  /\ UNCHANGED <<number, server, open, phase, refused>>

\* onFrame, once the handshake is done.  A closed socket goes on decrypting
\* what its transport still delivers; the model stops there.
ReceiveFrame(e) ==
  /\ phase[e] = "transport" /\ wire[e] # << >>
  /\ noise' = [noise EXCEPT ![e] = IF CanDecrypt(@, Head(wire[e])) THEN AfterDecrypt(@, Head(wire[e]))
                                   ELSE Counted(@)]
  /\ IF CanDecrypt(noise[e], Head(wire[e])) THEN UNCHANGED <<phase, refused>> ELSE Refuse(e)
  /\ wire' = Take(e)
  /\ UNCHANGED <<number, server, open, used, sealed>>

\* The transport goes down; frames already in flight may still come in.
Drop ==
  /\ open
  /\ open' = FALSE
  /\ UNCHANGED <<number, server, phase, noise, wire, used, sealed, refused>>

\* The end is told.
Close(e) ==
  /\ ~open /\ phase[e] # "closed"
  /\ phase' = [phase EXCEPT ![e] = "closed"]
  /\ wire' = [wire EXCEPT ![e] = << >>]
  /\ UNCHANGED <<number, server, open, noise, used, sealed, refused>>

Next ==
  \/ \E kind \in Servers : StartHandshake(kind)
  \/ ServerHello \/ CompleteHandshake \/ ServerFinish
  \/ \E e \in Ends : SendNode(e) \/ ReceiveFrame(e) \/ Close(e)
  \/ Drop

Spec == Init /\ [][Next]_vars

----------------------------------------------------------------------------
TypeOK ==
  /\ number \in 0 .. MaxConnections /\ open \in BOOLEAN
  /\ server \in Servers \union {"none"}
  /\ phase \in [Ends -> {"closed", "hello", "finish", "transport"}]
  /\ \A e \in Ends : /\ Len(wire[e]) <= MaxQueue + 1
                     /\ noise[e].writeCounter \in 0 .. MAX_COUNTER + 1
                     /\ noise[e].readCounter \in 0 .. MAX_COUNTER + 1
  /\ refused \subseteq Ends

\* No key ever encrypts twice under one nonce: not in a handshake, where the
\* two ends take turns at one counter, not in transport mode, not across
\* connections that share static keys.
NonceUsedOnce == Cardinality(used) = sealed

\* "One side's write key is the other side's read key", and the two directions
\* do not share a key.
KeysAgree ==
  (\A e \in Ends : phase[e] = "transport") =>
    /\ noise["client"].encKey = noise["server"].decKey
    /\ noise["client"].decKey = noise["server"].encKey
    /\ noise["client"].encKey # noise["client"].decKey

\* Whatever the two ends send at once, a frame the other end sealed opens: a
\* server that speaks the same protocol is never refused.
GenuineServerAccepted == server = "genuine" => refused = {}

\* The client sends nodes only to a server that has its header and a
\* certificate of the expected issuer.
TransportOnlyWithGenuine == phase["client"] = "transport" => server = "genuine"
=============================================================================
