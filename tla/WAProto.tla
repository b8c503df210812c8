------------------------------ MODULE WAProto ------------------------------
(***************************************************************************)
(* The tables of fields: the handshake, the login and the pairing, Signal's *)
(* own messages and stored sessions, and the content of a chat message,    *)
(* with what is read from one.                                             *)
(* Two tables are called MessageKey in the code; the stored one has another *)
(* name here.                                                              *)
(***************************************************************************)
EXTENDS ProtoWire

----------------------------------------------------------------------------
(* wa.ts                                                                   *)
ClientHello == <<f("ephemeral", 1, "bytes"), f("static", 2, "bytes"), f("payload", 3, "bytes")>>
ServerHello == <<f("ephemeral", 1, "bytes"), f("static", 2, "bytes"), f("payload", 3, "bytes")>>
ClientFinish == <<f("static", 1, "bytes"), f("payload", 2, "bytes")>>
HandshakeMessage == <<f("clientHello", 2, "ClientHello"), f("serverHello", 3, "ServerHello"),
  f("clientFinish", 4, "ClientFinish")>>
NoiseCertificateDetails == <<f("serial", 1, "uint32"), f("issuerSerial", 2, "uint32"),
  f("key", 3, "bytes"), f("notBefore", 4, "uint64"), f("notAfter", 5, "uint64")>>
NoiseCertificate == <<f("details", 1, "bytes"), f("signature", 2, "bytes")>>
CertChain == <<f("leaf", 1, "NoiseCertificate"), f("intermediate", 2, "NoiseCertificate")>>
AppVersion == <<f("primary", 1, "uint32"), f("secondary", 2, "uint32"), f("tertiary", 3, "uint32"),
  f("quaternary", 4, "uint32"), f("quinary", 5, "uint32")>>
UserAgent == <<f("platform", 1, "enum"), f("appVersion", 2, "AppVersion"), f("mcc", 3, "string"),
  f("mnc", 4, "string"), f("osVersion", 5, "string"), f("manufacturer", 6, "string"),
  f("device", 7, "string"), f("osBuildNumber", 8, "string"), f("phoneId", 9, "string"),
  f("releaseChannel", 10, "enum"), f("localeLanguageIso6391", 11, "string"),
  f("localeCountryIso31661Alpha2", 12, "string"), f("deviceBoard", 13, "string"),
  f("deviceExpId", 14, "string"), f("deviceType", 15, "enum")>>
WebdPayload == <<f("usesParticipantInKey", 1, "bool"), f("supportsStarredMessages", 2, "bool"),
  f("supportsDocumentMessages", 3, "bool"), f("supportsUrlMessages", 4, "bool"),
  f("supportsMediaRetry", 5, "bool"), f("supportsE2EImage", 6, "bool"),
  f("supportsE2EVideo", 7, "bool"), f("supportsE2EAudio", 8, "bool"),
  f("supportsE2EDocument", 9, "bool"), f("documentTypes", 10, "string"), f("features", 11, "bytes")>>
WebInfo == <<f("refToken", 1, "string"), f("version", 2, "string"), f("webdPayload", 3, "WebdPayload"),
  f("webSubPlatform", 4, "enum")>>
DNSSource == <<f("dnsMethod", 15, "enum"), f("appCached", 16, "bool")>>
DevicePairingRegistrationData == <<f("eRegid", 1, "bytes"), f("eKeytype", 2, "bytes"),
  f("eIdent", 3, "bytes"), f("eSkeyId", 4, "bytes"), f("eSkeyVal", 5, "bytes"),
  f("eSkeySig", 6, "bytes"), f("buildHash", 7, "bytes"), f("deviceProps", 8, "bytes")>>
ClientPayload == <<f("username", 1, "uint64"), f("passive", 3, "bool"), f("userAgent", 5, "UserAgent"),
  f("webInfo", 6, "WebInfo"), f("pushName", 7, "string"), f("sessionId", 9, "sfixed32"),
  f("shortConnect", 10, "bool"), f("connectType", 12, "enum"), f("connectReason", 13, "enum"),
  r("shards", 14, "int32"), f("dnsSource", 15, "DNSSource"), f("connectAttemptCount", 16, "uint32"),
  f("device", 18, "uint32"), f("devicePairingData", 19, "DevicePairingRegistrationData"),
  f("product", 20, "enum"), f("fbCat", 21, "bytes"), f("fbUserAgent", 22, "bytes"), f("oc", 23, "bool"),
  f("lc", 24, "int32"), f("iosAppExtension", 30, "enum"), f("fbAppId", 31, "uint64"),
  f("fbDeviceId", 32, "bytes"), f("pull", 33, "bool"), f("paddingBytes", 34, "bytes"),
  f("yearClass", 36, "int32"), f("memClass", 37, "int32")>>
HistorySyncConfig == <<f("fullSyncDaysLimit", 1, "uint32"), f("fullSyncSizeMbLimit", 2, "uint32"),
  f("storageQuotaMb", 3, "uint32"), f("inlineInitialPayloadInE2EeMsg", 4, "bool"),
  f("recentSyncDaysLimit", 5, "uint32"), f("supportCallLogHistory", 6, "bool"),
  f("supportBotUserAgentChatHistory", 7, "bool"), f("supportCagReactionsAndPolls", 8, "bool")>>
DeviceProps == <<f("os", 1, "string"), f("version", 2, "AppVersion"), f("platformType", 3, "enum"),
  f("requireFullSync", 4, "bool"), f("historySyncConfig", 5, "HistorySyncConfig")>>
ADVSignedDeviceIdentityHMAC == <<f("details", 1, "bytes"), f("hmac", 2, "bytes"),
  f("accountType", 3, "enum")>>
ADVSignedDeviceIdentity == <<f("details", 1, "bytes"), f("accountSignatureKey", 2, "bytes"),
  f("accountSignature", 3, "bytes"), f("deviceSignature", 4, "bytes")>>
ADVDeviceIdentity == <<f("rawId", 1, "uint32"), f("timestamp", 2, "uint64"), f("keyIndex", 3, "uint32"),
  f("accountType", 4, "enum"), f("deviceType", 5, "enum")>>
ADVKeyIndexList == <<f("rawId", 1, "uint32"), f("timestamp", 2, "uint64"),
  f("currentIndex", 3, "uint32"), r("validIndexes", 4, "uint32"), f("accountType", 5, "enum")>>
ADVSignedKeyIndexList == <<f("details", 1, "bytes"), f("accountSignature", 2, "bytes"),
  f("accountSignatureKey", 3, "bytes")>>

----------------------------------------------------------------------------
(* Signal's wire messages, and stored sessions                             *)
SignalMessage == <<f("ratchetKey", 1, "bytes"), f("counter", 2, "uint32"),
  f("previousCounter", 3, "uint32"), f("ciphertext", 4, "bytes")>>
PreKeySignalMessage == <<f("preKeyId", 1, "uint32"), f("baseKey", 2, "bytes"),
  f("identityKey", 3, "bytes"), f("message", 4, "bytes"), f("registrationId", 5, "uint32"),
  f("signedPreKeyId", 6, "uint32")>>
SenderKeyMessage == <<f("id", 1, "uint32"), f("iteration", 2, "uint32"), f("ciphertext", 3, "bytes")>>
SenderKeyDistributionMessage == <<f("id", 1, "uint32"), f("iteration", 2, "uint32"),
  f("chainKey", 3, "bytes"), f("signingKey", 4, "bytes")>>
Chain == <<f("senderRatchetKey", 1, "bytes"), f("senderRatchetKeyPrivate", 2, "bytes"),
  f("chainKeyIndex", 3, "uint32"), f("chainKeyValue", 4, "bytes"),
  r("messageKeys", 5, "StoredMessageKey")>>
StoredMessageKey == <<f("index", 1, "uint32"), f("cipherKey", 2, "bytes"), f("macKey", 3, "bytes"),
  f("iv", 4, "bytes")>>
PendingPreKey == <<f("preKeyId", 1, "uint32"), f("signedPreKeyId", 2, "uint32"),
  f("baseKey", 3, "bytes")>>
SessionStructure == <<f("sessionVersion", 1, "uint32"), f("localIdentityPublic", 2, "bytes"),
  f("remoteIdentityPublic", 3, "bytes"), f("rootKey", 4, "bytes"), f("previousCounter", 5, "uint32"),
  f("senderChain", 6, "Chain"), r("receiverChains", 7, "Chain"), f("pendingPreKey", 8, "PendingPreKey"),
  f("remoteRegistrationId", 9, "uint32"), f("localRegistrationId", 10, "uint32")>>
SessionRecordStructure == <<f("currentSession", 1, "SessionStructure"),
  r("previousSessions", 2, "SessionStructure")>>

----------------------------------------------------------------------------
(* The content of a message                                                *)
MessageKey == <<f("remoteJid", 1, "string"), f("fromMe", 2, "bool"), f("id", 3, "string"),
  f("participant", 4, "string")>>
ContextInfo == <<f("stanzaId", 1, "string"), f("participant", 2, "string"),
  f("quotedMessage", 3, "Message"), f("remoteJid", 4, "string"), f("mentionedJid", 15, "string"),
  f("conversionSource", 18, "string"), f("expiration", 25, "uint32")>>
ExtendedTextMessage == <<f("text", 1, "string"), f("matchedText", 2, "string"),
  f("canonicalUrl", 4, "string"), f("description", 5, "string"), f("title", 6, "string"),
  f("jpegThumbnail", 16, "bytes"), f("contextInfo", 17, "ContextInfo")>>
DeviceSentMessage == <<f("destinationJid", 1, "string"), f("message", 2, "Message"),
  f("phash", 3, "string")>>
FutureProofMessage == <<f("message", 1, "Message")>>
Message == <<f("conversation", 1, "string"), f("senderKeyDistributionMessage", 2, "bytes"),
  f("extendedTextMessage", 14, "ExtendedTextMessage"), f("deviceSentMessage", 31, "DeviceSentMessage"),
  f("ephemeralMessage", 36, "FutureProofMessage"), f("viewOnceMessage", 38, "FutureProofMessage"),
  f("documentWithCaptionMessage", 53, "FutureProofMessage"),
  f("viewOnceMessageV2", 55, "FutureProofMessage")>>
WebMessageInfo == <<f("key", 1, "MessageKey"), f("message", 2, "Message"),
  f("messageTimestamp", 3, "uint64"), f("status", 4, "enum"), f("participant", 5, "string"),
  f("pushName", 6, "string")>>

----------------------------------------------------------------------------
Tables ==
  [ClientHello |-> ClientHello, ServerHello |-> ServerHello, ClientFinish |-> ClientFinish,
   HandshakeMessage |-> HandshakeMessage, NoiseCertificateDetails |-> NoiseCertificateDetails,
   NoiseCertificate |-> NoiseCertificate, CertChain |-> CertChain, AppVersion |-> AppVersion,
   UserAgent |-> UserAgent, WebdPayload |-> WebdPayload, WebInfo |-> WebInfo,
   DNSSource |-> DNSSource, DevicePairingRegistrationData |-> DevicePairingRegistrationData,
   ClientPayload |-> ClientPayload, HistorySyncConfig |-> HistorySyncConfig,
   DeviceProps |-> DeviceProps, ADVSignedDeviceIdentityHMAC |-> ADVSignedDeviceIdentityHMAC,
   ADVSignedDeviceIdentity |-> ADVSignedDeviceIdentity, ADVDeviceIdentity |-> ADVDeviceIdentity,
   ADVKeyIndexList |-> ADVKeyIndexList, ADVSignedKeyIndexList |-> ADVSignedKeyIndexList,
   SignalMessage |-> SignalMessage, PreKeySignalMessage |-> PreKeySignalMessage,
   SenderKeyMessage |-> SenderKeyMessage,
   SenderKeyDistributionMessage |-> SenderKeyDistributionMessage, Chain |-> Chain,
   StoredMessageKey |-> StoredMessageKey, PendingPreKey |-> PendingPreKey,
   SessionStructure |-> SessionStructure, SessionRecordStructure |-> SessionRecordStructure,
   MessageKey |-> MessageKey, ContextInfo |-> ContextInfo,
   ExtendedTextMessage |-> ExtendedTextMessage, DeviceSentMessage |-> DeviceSentMessage,
   FutureProofMessage |-> FutureProofMessage, Message |-> Message, WebMessageInfo |-> WebMessageInfo]

----------------------------------------------------------------------------
(* The text of a message, and the message in its wrappers.                 *)

\* A slip in WRAPPERS: the newer of the two view-once wrappers is not known.
WithoutV2 == <<"deviceSentMessage", "ephemeralMessage", "viewOnceMessage", "documentWithCaptionMessage">>

\* "The wrappers that hold another message inside, in the order to try them."
WRAPPERS == <<"deviceSentMessage", "ephemeralMessage", "viewOnceMessage", "viewOnceMessageV2", "documentWithCaptionMessage">>
Holds(message, wrapper) == wrapper \in DOMAIN message /\ "message" \in DOMAIN message[wrapper]

\* The message inside, if there is one.
innerMessage(message) ==
  LET i == SelectInSeq(WRAPPERS, LAMBDA wrapper : Holds(message, wrapper))
  IN  IF i = 0 THEN {} ELSE {message[WRAPPERS[i]].message}

Filled(message, key) == key \in DOMAIN message /\ message[key] # << >>

RECURSIVE extractText(_), unwrapMessage(_)
extractText(message) ==
  IF Filled(message, "conversation") THEN {message.conversation}
  ELSE IF "extendedTextMessage" \in DOMAIN message /\ Filled(message.extendedTextMessage, "text")
  THEN {message.extendedTextMessage.text}
  ELSE UNION {extractText(inner) : inner \in innerMessage(message)}

unwrapMessage(message) ==
  IF innerMessage(message) = {} THEN message ELSE unwrapMessage(CHOOSE inner \in innerMessage(message) : TRUE)
=============================================================================
