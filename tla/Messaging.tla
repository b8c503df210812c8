------------------------------ MODULE Messaging ------------------------------
(***************************************************************************)
(* A text from a device to every device of a chat.  Sessions are opened    *)
(* from the bundles other devices have uploaded; the server keeps what it  *)
(* delivers until it is acknowledged, and delivers it again after a        *)
(* connection was lost.                                                    *)
(*                                                                         *)
(* Signal is what SignalRepository shows of it: a "msg" opens once, where  *)
(* there is a session with its sender; a "pkmsg" opens as long as the      *)
(* one-time pre-key it names is held, and always if it names none.  The    *)
(* server and the application that calls the library are external.         *)
(***************************************************************************)
EXTENDS MessageNodes

CONSTANTS
  Devices,    \* the linked devices: JIDs as they are read from the wire
  Members,    \* the accounts of the group
  Texts,      \* [id, author, to, text, message, random]: the byte is drawn for the padding;
              \* a device sends another one text at most
  encodeContent(_), decodeContent(_),   \* the codec of Message, and what is read
  textOf(_), contentOf(_),     \* from one: WAProto's
  FirstId,    \* creds.nextPreKeyId of a device when the server has none of its keys
  Stocked,    \* [Devices -> Nat]: pre-keys uploaded at first
  Batch,      \* PRE_KEYS_PER_UPLOAD
  Least,      \* MIN_PRE_KEY_COUNT
  MaxUploads, \* bound: [Devices -> Nat], refills of each
  MaxDrops    \* bound: connections lost, uploads lost

\* A device is in Devices under the JID the codec reads, which has no device 0.
ASSUME DevicesAssumption ==
  /\ IsFiniteSet(Devices) /\ IsFiniteSet(Members)
  /\ \A d \in Devices : /\ d = [user |-> d.user, device |-> d.device, server |-> d.server]
                        /\ d.device = None \/ d.device \in Nat \ {0}

\* "Key ids are 3 bytes": the ids of the run fit.
ASSUME BoundsAssumption ==
  /\ Base \in Nat /\ Base > MAX_PAD
  /\ FirstId \in Nat /\ Batch \in Nat /\ Least \in Nat /\ MaxDrops \in Nat
  /\ Stocked \in [Devices -> Nat] /\ MaxUploads \in [Devices -> Nat]
  /\ \A d \in Devices : FirstId + Stocked[d] + MaxUploads[d] * Batch <= Base * Base * Base

VARIABLES
  stock,         \* the pre-keys in the key store
  nextPreKeyId,  \* of the credentials
  uploads,       \* refills so far
  posted,        \* the server: one-time keys it may still hand out
  served,        \* history: one-time keys handed out
  used,          \* history: one-time keys a device has deleted
  targets,       \* of each text: None, or the devices it goes to
  sent,          \* texts that are sent
  sessions,      \* the session records: by address
  opened,        \* history: ciphertexts a device has decrypted
  refused,       \* history: ciphertexts it could not, at first sight
  queue,         \* the server: stanzas not yet acknowledged
  position,      \* the next of them to be delivered
  answers,       \* acks and receipts on their way
  shown,         \* history: what the application has shown
  ticks,         \* history: receipts that reached an author
  drops

stockVars == <<stock, nextPreKeyId, uploads>>
serverVars == <<posted, served>>
sendVars == <<targets, sent>>
receiveVars == <<used, opened, refused, shown>>
queueVars == <<queue, position, answers, ticks>>
vars == <<stockVars, serverVars, sendVars, sessions, receiveVars, queueVars, drops>>

\* What may be absent is never None when it is there.
Jids == [user : {d.user : d \in Devices}, device : Nat \union {None}, server : {S_WHATSAPP_NET}]
ASSUME NoneAssumption ==
  None \notin Nat /\ None \notin Devices /\ None \notin [id : Nat, public : Devices \X Nat] /\ None \notin Seq(Jids)

Account(d) == jidNormalizedUser(d)
DeviceId(d) == IF d.device = None THEN 0 ELSE d.device
Creds(d) == [registrationId |-> 1, identity |-> d,
             signedPreKey |-> [keyId |-> 1, public |-> <<d, 0>>, signature |-> [by |-> d, over |-> <<d, 0>>]]]
Nothing == [id \in {} |-> None]

\* Keys put under their ids, over what was there.
storePreKeys(held, preKeys) ==
  LET keys == ToSet(preKeys)
  IN  PutAll(held, [id \in {key.keyId : key \in keys} |-> (CHOOSE key \in keys : key.keyId = id).public])

\* Of an upload the server keeps the one-time keys, node by node.
Uploaded(d, preKeys) == getBinaryNodeChild(buildPreKeyUploadNode(Creds(d), preKeys), "list").content.value

Init ==
  LET first == [d \in Devices |-> generatePreKeys(d, FirstId, Stocked[d])]
  IN  /\ stock = [d \in Devices |-> storePreKeys(Nothing, first[d])]
      /\ nextPreKeyId = [d \in Devices |-> FirstId + Stocked[d]]
      /\ posted = [d \in Devices |-> Uploaded(d, first[d])]
      /\ uploads = [d \in Devices |-> 0] /\ served = {} /\ used = {}
      /\ targets = [t \in Texts |-> None] /\ sent = {}
      /\ sessions = [d \in Devices |-> Nothing]
      /\ opened = {} /\ refused = {}
      /\ queue = [d \in Devices |-> << >>] /\ position = [d \in Devices |-> 1]
      /\ answers = [d \in Devices |-> << >>]
      /\ shown = [d \in Devices |-> << >>] /\ ticks = {} /\ drops = 0

----------------------------------------------------------------------------
(* The stock of pre-keys.                                                  *)

\* The application asks how many are left, and adds to them: "the stock has to be
\* topped up".  It stores the keys before it uploads them, and the upload may be lost.
Refill(d, lost) ==
  /\ uploads[d] < MaxUploads[d]
  /\ \E count \in parsePreKeyCount(node("iq", NoAttrs, <<bare("count", [value |-> Len(posted[d])])>>)) : count < Least
  /\ LET preKeys == generatePreKeys(d, nextPreKeyId[d], Batch)
     IN  /\ stock' = [stock EXCEPT ![d] = storePreKeys(@, preKeys)]
         /\ nextPreKeyId' = [nextPreKeyId EXCEPT ![d] = @ + Batch]
         /\ posted' = IF lost THEN posted ELSE [posted EXCEPT ![d] = @ \o Uploaded(d, preKeys)]
  /\ uploads' = [uploads EXCEPT ![d] = @ + 1]
  /\ IF lost THEN drops < MaxDrops /\ drops' = drops + 1 ELSE UNCHANGED drops
  /\ UNCHANGED <<served, sendVars, sessions, receiveVars, queueVars>>

----------------------------------------------------------------------------
(* Sending a text.                                                         *)

Accounts(t) ==
  IF isJidGroup(t.to) THEN SetToSeq(Members)
  ELSE SetToSeq({jidNormalizedUser(t.to), Account(t.author)})

\* The server's answer to a device query.
DevicesOf(query) ==
  LET Listed(jid) == Each(LAMBDA d : bare("device", [id |-> DeviceId(d)]), SetToSeq({d \in Devices : Account(d) = jid}))
      Listing(user) == node("user", user.attrs, <<node("devices", NoAttrs, <<node("device-list", NoAttrs, Listed(user.attrs.jid))>>)>>)
  IN  node("iq", NoAttrs, <<node("usync", NoAttrs,
        <<node("list", NoAttrs, Each(Listing, Below(Below(getBinaryNodeChildren(query, "usync"), "list"), "user")))>>)>>)

\* Every device but the one that sends.
TargetsOf(t) ==
  LET devices == parseDeviceQuery(DevicesOf(buildDeviceQuery(Accounts(t))))
  IN  Only(devices, {i \in DOMAIN devices : sessionAddress(devices[i]) # sessionAddress(t.author)})

AskDevices(t) ==
  /\ targets[t] = None
  /\ targets' = [targets EXCEPT ![t] = TargetsOf(t)]
  /\ UNCHANGED <<stockVars, serverVars, sent, sessions, receiveVars, queueVars, drops>>

hasSession(d, jid) == sessionAddress(jid) \in DOMAIN sessions[d]
Unopened(t) == Only(targets[t], {i \in DOMAIN targets[t] : ~hasSession(t.author, targets[t][i])})

AtMostOne(keys) == IF keys = << >> THEN << >> ELSE <<Head(keys)>>

\* The server's answer to a fetch: it knows devices by the JID it reads.
BundlesOf(query) ==
  LET users == Below(getBinaryNodeChildren(query, "key"), "user")
      Parts(d) == buildPreKeyUploadNode(Creds(d), << >>).content.value
      Listing(user) ==
        LET d == OverTheWire(user.attrs.jid)
        IN  node("user", [jid |-> d], Only(Parts(d), {i \in DOMAIN Parts(d) : Parts(d)[i].tag # "list"}) \o AtMostOne(posted[d]))
  IN  node("iq", NoAttrs, <<node("list", NoAttrs,
        Each(Listing, Only(users, {i \in DOMAIN users : OverTheWire(users[i].attrs.jid) \in Devices})))>>)

\* The session a bundle opens: until the peer answers it names the pre-key.
outgoingSession(bundle) ==
  [peer |-> bundle.identityKeyPublic, pending |-> TRUE,
   preKey |-> IF bundle.preKeyId = None THEN None ELSE [id |-> bundle.preKeyId, public |-> bundle.preKeyPublic]]

\* Bundles for the devices there is no session with, in the map under the JID the
\* server writes; a forged one opens none.
FetchBundles(t) ==
  /\ targets[t] # None /\ t \notin sent /\ Unopened(t) # << >>
  /\ \E bundles \in parsePreKeyBundles(BundlesOf(buildPreKeyFetchNode(Unopened(t)))) :
       LET valid == {jid \in DOMAIN bundles : verifyPreKeyBundle(bundles[jid])}
       IN  /\ valid # {}
           /\ sessions' = [sessions EXCEPT ![t.author] =
                PutAll(@, [address \in {sessionAddress(jid) : jid \in valid} |->
                             outgoingSession(bundles[CHOOSE jid \in valid : sessionAddress(jid) = address])])]
           /\ served' = served \union
                {[device |-> jid, to |-> t.author, id |-> bundles[jid].preKeyId, public |-> bundles[jid].preKeyPublic] :
                   jid \in {j \in valid : bundles[j].preKeyId # None}}
           /\ posted' = [d \in Devices |-> IF d \in DOMAIN bundles THEN SubSeq(posted[d], 2, Len(posted[d])) ELSE posted[d]]
  /\ UNCHANGED <<stockVars, sendVars, receiveVars, queueVars, drops>>

\* Our own devices see what we sent, and to whom.
DeviceSent(message) == [deviceSentMessage |-> [destinationJid |-> <<1>>, message |-> message]]

\* The codec of Message gives back what these texts put in.
ASSUME CodecAssumption ==
  \A t \in Texts : /\ encodeContent(t.message) \in Seq(Nat) /\ encodeContent(DeviceSent(t.message)) \in Seq(Nat)
                   /\ decodeContent(encodeContent(t.message)) = {t.message}
                   /\ decodeContent(encodeContent(DeviceSent(t.message))) = {DeviceSent(t.message)}

ForDevice(t, peer) == IF Account(peer) # Account(t.author) THEN t.message ELSE DeviceSent(t.message)

encrypt(t, jid) ==
  LET session == sessions[t.author][sessionAddress(jid)]
  IN  [type |-> IF session.pending THEN "pkmsg" ELSE "msg",
       ciphertext |-> [by |-> t.author, to |-> session.peer, id |-> t.id, preKey |-> session.preKey,
                       plaintext |-> padMessage(encodeContent(ForDevice(t, session.peer)), t.random)]]

\* The server hands each <enc> to the device it is for, and one directly under the
\* message to the account it is to, but not back to the device that sends it.
Stanzas(t, message, d) ==
  LET direct == getBinaryNodeChildren(message, "enc")
      tos    == Below(getBinaryNodeChildren(message, "participants"), "to")
      encs   == IF direct = << >> THEN Below(Only(tos, {i \in DOMAIN tos : OverTheWire(tos[i].attrs.jid) = d}), "enc")
                ELSE IF Account(d) = jidNormalizedUser(message.attrs.to) /\ d # t.author THEN direct ELSE << >>
      attrs == IF isJidGroup(t.to) THEN [id |-> message.attrs.id, from |-> t.to, participant |-> t.author]
               ELSE [id |-> message.attrs.id, from |-> t.author]
  IN  IF encs = << >> THEN << >> ELSE <<node("message", attrs, encs)>>

SendText(t) ==
  /\ targets[t] # None /\ t \notin sent /\ Unopened(t) = << >>
  /\ \E message \in buildOutgoingMessage(t.id, t.to,
                      Each(LAMBDA jid : [jid |-> jid, encrypted |-> encrypt(t, jid)], targets[t])) :
       queue' = [d \in Devices |-> queue[d] \o Stanzas(t, message, d)]
  /\ sent' = sent \union {t}
  /\ UNCHANGED <<stockVars, serverVars, targets, sessions, receiveVars, position, answers, ticks, drops>>

----------------------------------------------------------------------------
(* Receiving it.                                                           *)

\* repository.decrypt: the plaintext, if there is one.
decrypt(d, jid, enc) ==
  LET ciphertext == enc.content.value
      opens == IF enc.attrs.type = "msg"
               THEN /\ hasSession(d, jid) /\ sessions[d][sessionAddress(jid)].peer = ciphertext.by
                    /\ <<d, ciphertext.id>> \notin opened
               ELSE ciphertext.preKey # None =>
                      /\ ciphertext.preKey.id \in DOMAIN stock[d]
                      /\ stock[d][ciphertext.preKey.id] = ciphertext.preKey.public
  IN  IF opens /\ ciphertext.to = d THEN {ciphertext.plaintext} ELSE {}

\* A slip in withoutUsed: the one-time key stays in the store.
Kept(held, preKey) == held

\* "Leaving it in the store would let a replay establish the same session again."
withoutUsed(held, preKey) == IF preKey = None THEN held ELSE Restrict(held, DOMAIN held \ {preKey.id})

\* The application: decrypt, unpad, show the text, answer.
Receive(d, message) ==
  LET enc        == Head(message.encs)
      ciphertext == enc.content.value
      plain      == decrypt(d, message.senderJid, enc)
      contents   == UNION {UNION {decodeContent(bytes) : bytes \in unpadMessage(padded)} : padded \in plain}
      seen       == <<d, ciphertext.id>>
  IN  /\ IF plain = {}
         THEN /\ refused' = refused \union ({seen} \ opened)
              /\ UNCHANGED <<stock, sessions, used, opened>>
         ELSE /\ sessions' = [sessions EXCEPT ![d] =
                   Put(@, sessionAddress(message.senderJid), [peer |-> ciphertext.by, pending |-> FALSE, preKey |-> None])]
              /\ stock' = [stock EXCEPT ![d] = withoutUsed(@, ciphertext.preKey)]
              /\ used' = IF ciphertext.preKey = None THEN used ELSE used \union {<<d, ciphertext.preKey.id>>}
              /\ opened' = opened \union {seen}
              /\ UNCHANGED refused
      /\ shown' = [shown EXCEPT ![d] = @ \o
           SetToSeq({[id |-> message.id, author |-> message.senderJid, text |-> textOf(content),
                      content |-> contentOf(content)] : content \in contents})]
      /\ answers' = [answers EXCEPT ![d] =
           @ \o <<buildMessageAck(message)>> \o (IF contents = {} THEN << >> ELSE <<buildDeliveryReceipt(message)>>)]

Handle(d) ==
  /\ position[d] <= Len(queue[d])
  /\ \E message \in parseIncomingMessage(queue[d][position[d]]) : Receive(d, message)
  /\ position' = [position EXCEPT ![d] = @ + 1]
  /\ UNCHANGED <<nextPreKeyId, uploads, serverVars, sendVars, queue, ticks, drops>>

\* "the ack must echo [the id] or the message is redelivered", and the chat and the
\* participant with it.
Settled(stanza, answer) ==
  /\ answer.tag = "ack" /\ answer.attrs.id = stanza.attrs.id /\ answer.attrs.to = stanza.attrs.from
  /\ Attr(answer, "participant") = Attr(stanza, "participant")

AnswerArrives(d) ==
  /\ answers[d] # << >>
  /\ LET answer == Head(answers[d])
         Left(stanzas) == Only(stanzas, {i \in DOMAIN stanzas : ~Settled(stanzas[i], answer)})
         author == IF Has(answer, "participant") THEN answer.attrs.participant ELSE answer.attrs.to
     IN  /\ queue' = [queue EXCEPT ![d] = Left(@)]
         /\ position' = [position EXCEPT ![d] = Len(Left(SubSeq(queue[d], 1, @ - 1))) + 1]
         /\ ticks' = IF answer.tag = "ack" THEN ticks ELSE ticks \union {[id |-> answer.attrs.id, by |-> d, author |-> author]}
  /\ answers' = [answers EXCEPT ![d] = Tail(@)]
  /\ UNCHANGED <<stockVars, serverVars, sendVars, sessions, receiveVars, drops>>

\* The connection is lost, with the answers on it; the next one starts with what is
\* not acknowledged.
Disconnect(d) ==
  /\ drops < MaxDrops /\ queue[d] # << >> /\ position[d] > 1
  /\ answers' = [answers EXCEPT ![d] = << >>] /\ position' = [position EXCEPT ![d] = 1]
  /\ drops' = drops + 1
  /\ UNCHANGED <<stockVars, serverVars, sendVars, sessions, receiveVars, queue, ticks>>

Next ==
  \/ \E t \in Texts : AskDevices(t) \/ FetchBundles(t) \/ SendText(t)
  \/ \E d \in Devices : Handle(d) \/ AnswerArrives(d) \/ Disconnect(d) \/ \E lost \in BOOLEAN : Refill(d, lost)

Spec == Init /\ [][Next]_vars

----------------------------------------------------------------------------
Audience(t) == {d \in Devices : Account(d) \in ToSet(Accounts(t))} \ {t.author}

ASSUME TextsAssumption ==
  \A t \in Texts : /\ t.author \in Devices /\ t.random \in Nat
                   /\ \A u \in Texts \ {t} : /\ t.id # u.id
                                             /\ t.author = u.author => Audience(t) \intersect Audience(u) = {}

TextOf(id) == CHOOSE t \in Texts : t.id = id
TimesShown(d, t) == Cardinality({i \in DOMAIN shown[d] : shown[d][i].id = t.id})

TypeOK ==
  /\ \A d \in Devices : /\ position[d] \in 1 .. Len(queue[d]) + 1
                        /\ \A address \in DOMAIN sessions[d] : sessions[d][address].peer \in Devices
                        /\ DOMAIN stock[d] \subseteq FirstId .. nextPreKeyId[d] - 1
  /\ opened \subseteq Devices \X {t.id : t \in Texts} /\ used \subseteq Devices \X Nat
  /\ sent \subseteq Texts /\ drops \in 0 .. MaxDrops

\* A one-time key in a bundle is one its device holds, under the id and with the
\* value the bundle gives, until a message has used it; and no two bundles give the
\* same.
BundlesAreHeld ==
  \A bundle \in served :
    /\ \/ <<bundle.device, bundle.id>> \in used
       \/ bundle.id \in DOMAIN stock[bundle.device] /\ stock[bundle.device][bundle.id] = bundle.public
    /\ \A other \in served \ {bundle} : <<other.device, other.id>> # <<bundle.device, bundle.id>>

\* A device opens every message that is brought to it for the first time.
EveryCopyOpens == refused = {}

\* What is shown is the text its author sent, whatever it was wrapped and padded in,
\* with the content that holds it and under the author's own address.
TextsComeBack ==
  \A d \in Devices : \A i \in DOMAIN shown[d] :
    LET entry == shown[d][i]
        t     == TextOf(entry.id)
    IN  /\ d \in Audience(t) /\ entry.author = t.author
        /\ entry.text = {t.text} /\ textOf(entry.content) = {t.text} /\ contentOf(entry.content) = entry.content

\* A message that is brought a second time is shown a second time only if it named
\* no one-time key.
ShownAgainOnlyWithoutKey ==
  \A d \in Devices, t \in Texts :
    TimesShown(d, t) > 1 => ~\E bundle \in served : bundle.device = d /\ bundle.to = t.author

\* A tick names a device that has shown the text, and comes to the text's author.
TicksAreTrue ==
  \A tick \in ticks : /\ tick.author = TextOf(tick.id).author
                      /\ TimesShown(tick.by, TextOf(tick.id)) > 0

\* A text goes to every device of its chat, those of the others and the author's
\* own, and to no other.
TargetsAreTheAudience ==
  \A t \in Texts : targets[t] # None => {OverTheWire(jid) : jid \in ToSet(targets[t])} = Audience(t)

\* Once all that is on its way has come, every text that was sent is shown on every
\* device of its chat, and the server has nothing to deliver again.
NothingIsLeft ==
  (\A d \in Devices : position[d] > Len(queue[d]) /\ answers[d] = << >>) =>
    /\ \A d \in Devices : queue[d] = << >>
    /\ \A t \in sent : \A d \in Audience(t) : TimesShown(d, t) > 0
=============================================================================
