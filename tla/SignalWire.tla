----------------------------- MODULE SignalWire -----------------------------
(***************************************************************************)
(* Signal messages on the wire: a version, the fields of the message, and  *)
(* for a SignalMessage a MAC, which is the record of what it is computed   *)
(* from.  A public key has KeyLength bytes, or one more with its type in   *)
(* front.  As in ProtoWire, a reader is the set of its outcomes.           *)
(***************************************************************************)
EXTENDS WAProto

CONSTANTS
  KeyLength,  \* 32
  None        \* no version, or no MAC

CIPHERTEXT_VERSION == 3
KEY_TYPE_DJB == 5
addKeyType(key) == IF Len(key) = KeyLength + 1 THEN key ELSE <<KEY_TYPE_DJB>> \o key

\* A slip in macInput: the identities are left out.  "[It] still produces a
\* self-consistent implementation that talks only to itself."
WithoutIdentities(sender, receiver, serialized) == << >>

macInput(sender, receiver, serialized) == <<addKeyType(sender), addKeyType(receiver)>>

\* Its first 8 bytes, which differ whenever the input does.
computeMac(macKey, sender, receiver, serialized) ==
  [key |-> macKey, between |-> macInput(sender, receiver, serialized), over |-> serialized]

Versioned(body) == [version |-> CIPHERTEXT_VERSION, body |-> body]

serializeSignalMessage(fields, macKey, sender, receiver) ==
  LET body == encode(Tables, "SignalMessage", [fields EXCEPT !.ratchetKey = addKeyType(@)])
  IN  [version |-> CIPHERTEXT_VERSION, body |-> body,
       mac |-> computeMac(macKey, sender, receiver, Versioned(body))]

OrZero(value, key) == IF key \in DOMAIN value THEN value[key] ELSE 0

\* A message of nothing but its version and its MAC is too short.
Readable(wire) == wire.body # << >> /\ wire.version = CIPHERTEXT_VERSION

parseSignalMessage(wire, macKey, sender, receiver) ==
  IF \/ ~Readable(wire)
     \/ wire.mac # computeMac(macKey, sender, receiver, [version |-> wire.version, body |-> wire.body])
  THEN {}
  ELSE {[ratchetKey |-> value.ratchetKey, ciphertext |-> value.ciphertext,
         counter |-> OrZero(value, "counter"), previousCounter |-> OrZero(value, "previousCounter")] :
          value \in {v \in decode(Tables, "SignalMessage", wire.body) : {"ratchetKey", "ciphertext"} \subseteq DOMAIN v}}

\* "Reads the counter and ratchet key without verifying the MAC."
peekSignalMessage(wire) ==
  IF wire.body = << >> THEN {}
  ELSE {[counter |-> OrZero(value, "counter"), ratchetKey |-> value.ratchetKey] :
          value \in {v \in decode(Tables, "SignalMessage", wire.body) : "ratchetKey" \in DOMAIN v}}

\* It has no MAC: the message nested in it carries one.
serializePreKeySignalMessage(fields) ==
  [version |-> CIPHERTEXT_VERSION, mac |-> None,
   body |-> encode(Tables, "PreKeySignalMessage",
                   [fields EXCEPT !.baseKey = addKeyType(@), !.identityKey = addKeyType(@)])]

parsePreKeySignalMessage(wire) ==
  IF ~Readable(wire) THEN {}
  ELSE {Set(Set(value, "registrationId", OrZero(value, "registrationId")),
            "signedPreKeyId", OrZero(value, "signedPreKeyId")) :
          value \in {v \in decode(Tables, "PreKeySignalMessage", wire.body) :
                       {"baseKey", "identityKey", "message"} \subseteq DOMAIN v}}
=============================================================================
