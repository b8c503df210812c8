---------------------------- MODULE MessageNodes ----------------------------
(***************************************************************************)
(* What the nodes of a conversation are made of and what is read from      *)
(* them: messages and their acks, lists of devices, and the pre-keys a     *)
(* session is opened with; with the padding of a text.                     *)
(*                                                                         *)
(* Attributes and children that no one reads are left out.                 *)
(*                                                                         *)
(* Pure operators.  A JID is a record, whose device may be None; a key, a  *)
(* signature and a ciphertext are symbolic.  Their strings and bytes are   *)
(* BinaryNode's.  A parser is the set of its outcomes: empty if it throws. *)
(***************************************************************************)
EXTENDS Integers, SequencesExt

CONSTANTS
  None,
  Base  \* values of a byte: 256

\* The items of a sequence at some of its places.
Only(items, places) ==
  LET only[i \in 0 .. Len(items)] ==
        IF i = 0 THEN << >> ELSE IF i \in places THEN Append(only[i - 1], items[i]) ELSE only[i - 1]
  IN  only[Len(items)]

\* Each item of a sequence put through an operator.
Each(Op(_), items) == SubSeq([i \in 1 .. Len(items) |-> Op(items[i])], 1, Len(items))

\* The value with the key set; and with every key of another set as it is there.
Put(out, key, value) == [k \in DOMAIN out \union {key} |-> IF k = key THEN value ELSE out[k]]
PutAll(out, new) == [k \in DOMAIN out \union DOMAIN new |-> IF k \in DOMAIN new THEN new[k] ELSE out[k]]

S_WHATSAPP_NET == "s.whatsapp.net"
GROUP_SERVER == "g.us"

User(user, server) == [user |-> user, device |-> None, server |-> server]

\* The codec writes device 0 as one and reads it as none.
OverTheWire(jid) == IF jid.device = 0 THEN [jid EXCEPT !.device = None] ELSE jid

jidNormalizedUser(jid) == User(jid.user, IF jid.server = "c.us" THEN S_WHATSAPP_NET ELSE jid.server)
isJidGroup(jid) == jid.server = GROUP_SERVER

\* "The device matters: [they] are two different sessions."
sessionAddress(jid) == <<jid.user, IF jid.device = None THEN 0 ELSE jid.device>>

----------------------------------------------------------------------------
(* Nodes: content is nothing, a list of nodes or an opaque value.          *)

node(tagName, attrs, children) == [tag |-> tagName, attrs |-> attrs, content |-> [kind |-> "list", value |-> children]]
leaf(tagName, attrs, value) == [tag |-> tagName, attrs |-> attrs, content |-> [kind |-> "bytes", value |-> value]]
bare(tagName, attrs) == [tag |-> tagName, attrs |-> attrs, content |-> [kind |-> "none"]]
NoAttrs == [name \in {} |-> None]
Has(from, name) == name \in DOMAIN from.attrs
Attr(from, name) == IF Has(from, name) THEN from.attrs[name] ELSE None

\* In place of a node that is not there: nothing is read from it.
NoNode == bare("", NoAttrs)

HasChildren(from) == from.content.kind = "list"
HasBuffer(from) == from.content.kind = "bytes"

getBinaryNodeChildren(from, tagName) ==
  IF HasChildren(from)
  THEN Only(from.content.value, {i \in DOMAIN from.content.value : from.content.value[i].tag = tagName})
  ELSE << >>
getBinaryNodeChild(from, tagName) ==
  LET children == getBinaryNodeChildren(from, tagName) IN IF children = << >> THEN NoNode ELSE Head(children)
getBinaryNodeChildBuffer(from, tagName) ==
  LET child == getBinaryNodeChild(from, tagName) IN IF HasBuffer(child) THEN child.content.value ELSE None

----------------------------------------------------------------------------
(* Messages.                                                               *)

\* A slip in senderJid: "Decrypting against the group JID silently finds no session."
ChatJid(from, participant) == from

senderJid(from, participant) == IF isJidGroup(from) /\ participant # None THEN participant ELSE from

parseIncomingMessage(from) ==
  LET encs == getBinaryNodeChildren(from, "enc")
      Readable(enc) == Has(enc, "type") /\ enc.attrs.type \in {"pkmsg", "msg", "skmsg"} /\ HasBuffer(enc)
  IN  IF ~Has(from, "id") \/ ~Has(from, "from") THEN {}
      ELSE {[id |-> from.attrs.id, from |-> from.attrs.from, participant |-> Attr(from, "participant"),
             senderJid |-> senderJid(from.attrs.from, Attr(from, "participant")),
             encs |-> Only(encs, {i \in DOMAIN encs : Readable(encs[i])})]}

\* An <enc> for each device; under the message itself if there is one device, of the
\* account the message is to.
buildOutgoingMessage(id, to, recipients) ==
  LET encFor(recipient) == leaf("enc", [type |-> recipient.encrypted.type], recipient.encrypted.ciphertext)
      attrs == [id |-> id, to |-> to]
  IN  IF recipients = << >> THEN {}
      ELSE {IF Len(recipients) = 1 /\ jidNormalizedUser(recipients[1].jid) = jidNormalizedUser(to)
            THEN node("message", attrs, <<encFor(recipients[1])>>)
            ELSE node("message", attrs, <<node("participants", NoAttrs,
                   Each(LAMBDA recipient : node("to", [jid |-> recipient.jid], <<encFor(recipient)>>), recipients))>>)}

\* A slip in answerAttrs: the participant of a group is left out.
AnswerWithoutParticipant(message) == [id |-> message.id, to |-> message.from]

answerAttrs(message) ==
  LET attrs == [id |-> message.id, to |-> message.from]
  IN  IF message.participant = None THEN attrs ELSE Put(attrs, "participant", message.participant)
buildMessageAck(message) == bare("ack", Put(answerAttrs(message), "class", "receipt"))
buildDeliveryReceipt(message) == bare("receipt", answerAttrs(message))

buildDeviceQuery(jids) ==
  node("iq", [to |-> S_WHATSAPP_NET, type |-> "get", xmlns |-> "usync"],
       <<node("usync", NoAttrs, <<node("list", NoAttrs, Each(LAMBDA jid : bare("user", [jid |-> jid]), jids))>>)>>)

\* The children of all nodes of a list.
Below(nodes, tagName) == FlattenSeq(Each(LAMBDA from : getBinaryNodeChildren(from, tagName), nodes))

DevicesBelow(user) == Below(Below(getBinaryNodeChildren(user, "devices"), "device-list"), "device")

\* A slip in deviceJids: of a list only the first device.
PrimaryOnly(user) ==
  IF DevicesBelow(user) = << >> THEN << >>
  ELSE <<[user |-> user.attrs.jid.user, device |-> Head(DevicesBelow(user)).attrs.id, server |-> S_WHATSAPP_NET]>>

\* The devices of an account, on s.whatsapp.net whatever server the account is on.
deviceJids(user) ==
  LET devices == DevicesBelow(user)
  IN  Each(LAMBDA device : [user |-> user.attrs.jid.user, device |-> device.attrs.id, server |-> S_WHATSAPP_NET],
           Only(devices, {i \in DOMAIN devices : Has(devices[i], "id") /\ Has(user, "jid")}))

parseDeviceQuery(result) ==
  FlattenSeq(Each(deviceJids, Below(Below(getBinaryNodeChildren(result, "usync"), "list"), "user")))

----------------------------------------------------------------------------
(* Texts.                                                                  *)

MIN_PAD == 1
MAX_PAD == 16

\* A slip in padding: "a 0 byte would be read as 'strip nothing'".
PaddingFromZero(random) == random % 16
padding(random) == (random % 16) + MIN_PAD
padMessage(plaintext, random) == plaintext \o [i \in 1 .. padding(random) |-> padding(random)]

unpadMessage(padded) ==
  IF padded = << >> THEN {}
  ELSE LET size == Last(padded)
       IN  IF size \in MIN_PAD .. MAX_PAD /\ size <= Len(padded) THEN {SubSeq(padded, 1, Len(padded) - size)} ELSE {}

----------------------------------------------------------------------------
(* Pre-keys.                                                               *)

MIN_PRE_KEY_COUNT == 5

\* A slip in encodeBigEndian: the low byte first.
LittleEndian(value, length) ==
  LET shifted[i \in 0 .. length] == IF i = 0 THEN value ELSE shifted[i - 1] \div Base
  IN  [i \in 1 .. length |-> shifted[i - 1] % Base]

\* What does not fit is cut off.
encodeBigEndian(value, length) ==
  LET shifted[i \in 0 .. length] == IF i = 0 THEN value ELSE shifted[i - 1] \div Base
  IN  [i \in 1 .. length |-> shifted[length - i] % Base]
decodeBigEndian(bytes) ==
  LET value[i \in 0 .. Len(bytes)] == IF i = 0 THEN 0 ELSE value[i - 1] * Base + bytes[i]
  IN  value[Len(bytes)]

generatePreKeys(owner, startId, count) == [i \in 1 .. count |-> [keyId |-> startId + i - 1, public |-> <<owner, startId + i - 1>>]]

\* "Key ids are 3 bytes, not 4."
keyNode(tagName, key) ==
  node(tagName, NoAttrs, <<leaf("id", NoAttrs, encodeBigEndian(key.keyId, 3)), leaf("value", NoAttrs, key.public)>>)
buildPreKeyUploadNode(creds, preKeys) ==
  node("iq", [to |-> S_WHATSAPP_NET, type |-> "set", xmlns |-> "encrypt"],
       <<leaf("registration", NoAttrs, encodeBigEndian(creds.registrationId, 4)),
         leaf("identity", NoAttrs, creds.identity),
         node("list", NoAttrs, Each(LAMBDA key : keyNode("key", key), preKeys)),
         node("skey", NoAttrs, keyNode("skey", creds.signedPreKey).content.value
                                 \o <<leaf("signature", NoAttrs, creds.signedPreKey.signature)>>)>>)

buildPreKeyCountNode == node("iq", [to |-> S_WHATSAPP_NET, type |-> "get", xmlns |-> "encrypt"], <<bare("count", NoAttrs)>>)
parsePreKeyCount(result) ==
  LET count == getBinaryNodeChild(result, "count")
  IN  IF Has(count, "value") THEN {count.attrs.value} ELSE {}

buildPreKeyFetchNode(jids) ==
  node("iq", [to |-> S_WHATSAPP_NET, type |-> "get", xmlns |-> "encrypt"],
       <<node("key", NoAttrs, Each(LAMBDA jid : bare("user", [jid |-> jid]), jids))>>)

\* A device without a <key> has run out of them: "That is normal, not an error."
bundleOf(user) ==
  LET skey    == getBinaryNodeChild(user, "skey")
      oneTime == getBinaryNodeChild(user, "key")
  IN  [registrationId        |-> decodeBigEndian(getBinaryNodeChildBuffer(user, "registration")),
       identityKeyPublic     |-> getBinaryNodeChildBuffer(user, "identity"),
       signedPreKeyId        |-> decodeBigEndian(getBinaryNodeChildBuffer(skey, "id")),
       signedPreKeyPublic    |-> getBinaryNodeChildBuffer(skey, "value"),
       signedPreKeySignature |-> getBinaryNodeChildBuffer(skey, "signature"),
       preKeyId              |-> IF HasBuffer(getBinaryNodeChild(oneTime, "id"))
                                 THEN decodeBigEndian(getBinaryNodeChildBuffer(oneTime, "id")) ELSE None,
       preKeyPublic          |-> getBinaryNodeChildBuffer(oneTime, "value")]

Complete(user) ==
  /\ \A part \in {"registration", "identity"} : HasBuffer(getBinaryNodeChild(user, part))
  /\ \A part \in {"id", "value", "signature"} : HasBuffer(getBinaryNodeChild(getBinaryNodeChild(user, "skey"), part))

\* A map by JID; one bundle with a part missing refuses them all.
parsePreKeyBundles(result) ==
  LET listed == getBinaryNodeChildren(getBinaryNodeChild(result, "list"), "user")
      users  == Only(listed, {i \in DOMAIN listed : Has(listed[i], "jid")})
  IN  IF \E i \in DOMAIN users : ~Complete(users[i]) THEN {}
      ELSE {[jid \in {users[i].attrs.jid : i \in DOMAIN users} |->
               bundleOf(users[CHOOSE i \in DOMAIN users : users[i].attrs.jid = jid /\ \A j \in DOMAIN users : users[j].attrs.jid = jid => j <= i])]}

\* The signature is the identity's, over the key with its type.
verifyPreKeyBundle(bundle) == bundle.signedPreKeySignature = [by |-> bundle.identityKeyPublic, over |-> bundle.signedPreKeyPublic]
=============================================================================
