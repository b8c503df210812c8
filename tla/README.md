# JesterLib: TLA+ models and proofs

JesterLib is a TypeScript client for the WhatsApp Web protocol. It opens a WebSocket, runs a
Noise XX handshake over it, pairs a companion device by QR code or logs it in, exchanges binary
nodes with the server, and encrypts conversations with the Signal protocol (X3DH and the double
ratchet). This directory models the parts of it whose correctness depends on order: what is
derived, counted, stored, sent and forgotten, in which order, and what happens when two things
happen at once, a message comes twice, a process dies or a socket closes in the middle of a
handler. All paths below are relative to the root of the repository; `src/` is its source.

Run TLC on a configuration with `tlc -config X.cfg M`, and the proofs with `tlapm M.tla` on
`RatchetProofs`, `ReceiverChainProofs`, `SignalRepositoryProofs`, `MessagingProofs`,
`DevicePairingProofs`, `JesterSocketProofs`, `NoiseXXProofs` and `FrameStreamProofs`.
`PROJECT.json` lists the runs, and maps every definition that stands for code to the lines it
stands for.

## 1. Inventory of the system

| Component | State it keeps | Operations | Status |
|---|---|---|---|
| Symmetric ratchet, `signal/ratchet.ts`, `signal/session.ts:163-211` | a chain key and its index, the stored keys of skipped messages | `nextChainKey`, `deriveMessageKeys`, `messageKeysForCounter`, `pruneMessageKeys` | modelled, proved |
| Sessions, `signal/session.ts`, `signal/cipher.ts` | root key, our ratchet pair, a sending chain, receiver chains, the pending pre-key; a record of a current and archived sessions | `createOutgoingSession`, `createIncomingSession`, `promoteSession`, `ratchetOnReceive`, `encrypt`, `decryptSignalMessage`, `decryptPreKeyMessage` | modelled, proved in part |
| Session serialization, `session.ts:229-340` | none | `serializeSessionRecord`, `deserializeSessionRecord` | modelled, proved |
| Signal repository, `signal/repository.ts` | session records and pre-keys in the key store | `decrypt`, `encrypt`, `openSession`, `storePreKeys`, `hasSession`, `sessionAddress` | modelled, proved in part |
| Signal wire messages, `signal/message.ts`, `signal/protobuf.ts` | none | build, parse, peek, the MAC | modelled |
| Connection, `socket/connection.ts` | the state told to listeners, `closed`, the transport, pending requests, two timers, QR refs, credentials | `connect`, `end`, `query`, `sendNode`, the frame handler and the nodes it routes | modelled, proved in part |
| Transport, `socket/transport.ts` | readyState | open, send, close, and its events | modelled, without the in-memory pair of the tests |
| Noise, `noise/handler.ts`, `noise/handshake.ts` | hash, salt, keys, counters | `authenticate`, `encrypt`, `decrypt`, `mixIntoKey`, `finishInit`, `completeHandshake` | modelled, proved |
| Framing, `noise/frame.ts` | bytes buffered | `buildIntro`, `encodeFrame`, `push` | modelled, proved; `reset` is called by nothing |
| Pairing and credentials, `auth/pairing.ts`, `auth/creds.ts`, `socket/client-payload.ts` | the credentials | `initAuthCreds`, `configureSuccessfulPairing`, `buildClientPayload`, `buildQrString` | the decisions, not the fields; proved |
| Pre-key stock, `auth/prekeys.ts` | two counters in the credentials | generate, upload, count, fetch, bundles | modelled, proved |
| Key store, `auth/state.ts` | what the application stores | get, set | as single steps |
| Binary nodes, `binary/*` | none | encode, decode, tokens, JIDs | modelled |
| Protobuf runtime and schemas, `proto/*`, `signal/protobuf.ts`, `message/proto.ts` | none | varints, zigzag, words, tables of fields | modelled |
| Messages, `message/*` | none | padding, wrappers, texts; building and reading messages, acks, delivery receipts, device queries | modelled but for read receipts, presence and chat state; proved |
| Media, `media/crypto.ts` | none | AES and HMAC over one file | no: stateless calls of primitives |
| Primitives, `crypto/*` | none | X25519, XEdDSA, HKDF, AES | no: symbolic everywhere |
| Generated tokens, example, scripts | none | data and glue | no |

How they interact. `JesterSocket` owns a transport, a Noise handler, a frame decoder and the
credentials. A chunk from the transport goes through the decoder, each frame through the Noise
handler, each node through `onNode`, all synchronously in one callback; between two emits of a
handler the listeners of the application run, and they may call the socket back. Credentials
reach the application as `creds.update`, which it writes to a file. The Signal repository is
separate from the socket: the application hands it ciphertexts, and it reads and writes sessions
and pre-keys in a key store, with an `await` at each access.

What is hard here, and where it is modelled:

* *Interleaving.* Two repository operations for one peer overlap at their awaits
  (`SignalRepository`: `Slots`); a listener calls `end()` or `query()` in the middle of a handler
  (`JesterSocket`: `stack`).
* *Delivery.* Messages repeated, reordered, late or lost (`ReceiverChain`, `SignalRepository`);
  a transport that drops with frames in flight (`NoiseXX`, `JesterSocket`), or with acknowledgements
  (`Messaging`); a stream cut anywhere (`StanzaStream`).
* *Crashes.* Between two writes of the key store (`SignalRepository`), and around the pairing,
  where a file, a server and a process each remember something (`DevicePairing`).
* *Limits.* The key store of a chain, the gap a message may claim, the number of receiver chains
  and archived sessions, the Noise counter, the length prefix; the length classes of the node codec
  (`BinaryNode`) and the words of protobuf (`ProtoWire`); a device without one-time pre-keys
  (`Messaging`).
* *Two ends that must agree.* What one function writes another reads, often in another process or in
  another implementation: stored sessions (`SessionStorage`), nodes, protobuf, sealed messages
  (`ProtoExchange`), device lists and bundles, whose JIDs change their form on the way (`Messaging`).
* *Timers.* A reply against its timeout, the QR timer, the connect timeout, the keep-alive.
* *Progress.* Every query settles, every dropped transport is reported, a pairing ends.

`hazards` in `PROJECT.json` has one entry for each, with its line and the properties that watch it.

## 2. Modules

```
Ratchet ── ReceiverChain ── MCReceiverChain            FrameStream ── FrameStreamProofs
   │                                                        └──┐
   └── SignalSession ── SessionStorage                 BinaryNode ── StanzaStream ── MCStanzaStream
                             │
                        SignalRepository               NoiseHandler ── NoiseXX ── NoiseXXProofs
                             │   └── (Channel)                            └── MCNoiseXX
                             │         MessageChannel  JesterSocket ── JesterSocketProofs
                             └── MCSignalRepository         └── MCJesterSocket

ProtoWire ── WAProto ── SignalWire ── ProtoExchange    DevicePairing ── DevicePairingProofs
                │                          └── MCProtoExchange   └── MCDevicePairing
                └──────────────────────────┐
           MessageNodes ── Messaging ── MCMessaging
                               └── MessagingProofs

RatchetProofs (of Ratchet) ── ReceiverChainProofs (of ReceiverChain)
        └── SignalRepositoryProofs (of SignalRepository)
```

**Ratchet** has the pure operators of one chain. A chain key is the seed it comes from and the
number of turns made since; HMAC being one-way and collision-free, two keys are equal exactly when
these are. `index`, the counter the code keeps, is a field of its own: that turns and index stay
together is a property, not the representation. `messageKeysForCounter` returns the set of its
outcomes, empty when it throws.

**ReceiverChain** is one chain asked for any counter in any order, with a log of what it handed
out. **SignalSession** has X3DH, the root ratchet, and the trial decryption over a record. A key
pair is a tuple that also names its public key, a Diffie-Hellman output is the set of the two
pairs, a root key is the sequence of secrets mixed into it. `None`, what the code leaves undefined,
is the empty sequence, which no pair, chain or record is. A failed attempt leaves the session it
tried changed, as in the code, where sessions are mutated and not rolled back. Records are copied,
where the code shares objects until a record is saved: every operation of the repository loads a
record, works on it and saves or drops it, so the sharing that matters is the one *inside* a
record, between `currentSession` and `previousSessions`; `decryptSignalMessage` and
`promoteSession` account for it.

**SignalRepository** has two devices. An operation is a record in a slot: its kind, the await it
stands at, its input, the session record it loaded. `StartX` is the code up to the load, the other
actions are the code between two awaits. `sent` is a set that is never emptied: the network may
deliver any message, again, or never. A crash empties the slots of a device and keeps its store.
`built` and `delivered` are history. **MessageChannel** is the abstract specification: what was
accepted is delivered at most once, and nothing else is.

**JesterSocket** is one socket from `connect()` to its end. A JavaScript handler runs to its end
before the next callback, so `rx` (the rest of the chunk) and `stack` (the rest of the handlers
that are emitting) must be empty before a timer or the transport has a turn. A handler is cut where
it emits and nowhere else; `[at |-> "armQr"]` on the stack is `emitNextQr` after its emit. The
table of pending requests, the promise of each query, and whether the caller got as far as to await
it are separate variables. Frames are named by the node they carry; `Garbage` does not decrypt or
decode.

**NoiseHandler** has the operators of one Noise state, with the counters where the code has them:
the handshake uses one counter for both directions, transport mode two. Keys and hashes are
symbolic. **NoiseXX** composes the client with the server the repository's tests run against
(external), over a transport that keeps order and may drop; servers of four kinds answer.

**DevicePairing** is the life of a companion device over several processes and connections: the
credentials in memory and in the file, the QR codes shown, what phones have signed, and what the
server has linked. Server, phone, application and file are external; each is modelled from the
repository's own example, README and test helpers.

**SessionStorage** has the two directions of `SessionRecordStructure`. `SignalRepository` goes on
using records as they are, and `RecordsSurviveStorage` says that it may: every record it stores comes
back as it was.

**BinaryNode** is the node codec. A byte has `Nibble * Nibble` values and the tags sit at the top of
them, as in the code, so that every length class is reached by inputs a few dozen bytes long; a
character of the alphabet stands for each kind the codec tells apart. **StanzaStream** puts it at the
two ends of **FrameStream**, which is `buildIntro`, `encodeFrame` and `FrameDecoder.push` around a
stream cut anywhere: a node is encoded, framed, cut, reassembled and decoded. `FrameSpec` is the
frames by themselves, with any payloads: every action of `StanzaStream` that touches the stream is
one of its actions, with more conjuncts, and its initial states are initial there. The encryption
between the codec and the frames is left out here, being `NoiseXX`'s.

**ProtoWire** is the protobuf runtime with its widths as constants: `GroupBits` bits in the group of a
varint, short and long words of so many bytes. **WAProto** has the program's tables of fields,
**SignalWire** the Signal messages with their version and MAC. **ProtoExchange** sends a message from
the writer, or from another implementation that knows more fields and packs and orders them its own
way, to the reader, perhaps cut short, and opens sealed ones with any key.

**MessageNodes** has the builders and parsers of nodes (messages, acks, receipts, device queries,
pre-keys) with the padding; nodes are records here, since their bytes are `BinaryNode`'s. What the code
leaves undefined is a set without members, an attribute that is `None`, or `NoNode`, from which nothing
is read. **Messaging** is the whole path of a text: ask for the devices, fetch bundles for those
without a session, encrypt and address one copy for each, deliver, decrypt, unpad, show, acknowledge;
with refills of pre-keys that may be lost and connections that drop with the acknowledgements on them.
Sessions are what `SignalRepository` shows them to be. The server, the application and the addressing
of the server are external. The server brings a direct message to the devices of its account, and not
back to the one that sent it.

The codec of the content (`encodeContent`, `decodeContent`) and what is read from it (`textOf`,
`contentOf`) are parameters of `Messaging`, since they are recursive over messages. `MCMessaging` gives
them `WAProto`'s: the tables of fields over `ProtoWire`, `extractText` and `unwrapMessage`. Big-endian
ids, and lists filtered or mapped (`Only`, `Each`), are recursive functions, which the provers take.

Definitions introduced by "A slip in ..." are plausible mistakes, kept beside the definition they
would be made in. `PROJECT.json` pairs each with a property that the mistake breaks; no
specification uses them.

## 3. Runs

Every run is exhaustive within its bounds. `CHECK_DEADLOCK FALSE` where a bound ends the behaviour
or the system may rest (a closed socket, a conversation with nothing left to send).

| Run | Checks | Bounds, and why they are enough |
|---|---|---|
| `receiver_chain` | the right key for each counter, none twice, a bounded store that keeps the most recent keys, bounded work per message | counters 0..6, gap limit 3, store of 2: gaps are refused, the store overflows and is pruned more than once. Every order of every counter |
| `signal_serial` | `MessagesStayDecryptable`, and that the repository implements `MessageChannel` | one session, six messages, operations one at a time. Six messages give three root turns each way and chains of several messages |
| `signal_reopen` | one session for each one-time pre-key; stored records come back as they were | a second session opened at any time, an archive of 1 so that it overflows |
| `signal_crash` | a crash never makes a key seal two messages | one crash at any await of any operation, six messages, a single old receiver chain so that chains are evicted |
| `socket_session` | after closing: timers off, transport let go, queries settled, one close update; a settled request is out of the table; a dropped transport is reported; a pairing attempt ends | unpaired credentials, one query, one keep-alive ping, three chunks of up to two frames out of all the nodes the socket acts on. One chunk is the handshake; two frames in a chunk reach the handlers after a close |
| `socket_queries` | every query settles | two queries under the *same* id and a ping, made also from listeners |
| `noise` | no nonce twice under a key; both ends agree on keys; a genuine server is never refused; nodes go to a genuine server only | two connections (keys across connections), four kinds of server, queues of 2, counters up to 2 so that they run out |
| `stanzas` | frames come out as they went in, in order and as soon as they are complete; every node comes back with its strings, bytes, children and order; a body says where it ends | a byte of 36 values: contents of 35, 36, 7775 and 7776 bytes and lists of 36 children are the edges of the length classes, strings of 17 and 18 digits those of packed strings. Every JID form at devices 1, 35, 36, 37. Chunks of up to 12 bytes cut short streams everywhere, and of a stream longer than 100 the end |
| `protobuf` | the reader gets the fields it knows, whoever wrote them; a cut loses nothing but the tail; a sealed message opens only where it was sealed | groups of 3 bits, words of 3 and 6 bytes. Every table of the program, each field alone at the limits of its type and all at once; every prefix up to 24 bytes; two keys and three identities |
| `messaging` | bundles name keys that are held; every copy opens; texts come back and are shown where they should be, again only as the code lets them; ticks are true; nothing is left on the way | four devices of three accounts, a direct text, one in a group and one that goes to a second device too; one refill, one loss of a connection or an upload at any point. A device sends another at most one text, because of `signal_second_pkmsg` |
| `pairing` | paired only by an account that scanned this QR and signed this device; a linked device can log in from its file and is shown no QR | two phones, two sets of credentials, four connections, crashes and drops anywhere |
| `signal_second_pkmsg` | violated: see section 5 | the smallest conversation that reaches the case |

Every module has a `TypeOK`. It is in the runs where a theorem states it; the configurations of
the other modules take it as they stand.

Remarks on single properties:

* `MessagesStayDecryptable` is about ordinary messages, of a device with nothing in flight. With
  six messages no chain comes near its limits of 8 here (the code's 2000); the behaviour at the limits is what
  `receiver_chain` checks, with limits of its own. The theorem `RatchetsStayInStep` (section 6) names
  the limits and covers every value of the constants.
* `CrashReusesNoKey` excludes the crash after which a device rebuilds a session from a message it
  has already decrypted (section 5): that one is about pre-keys, not about the order of save and
  release.
* `ClosedSettlesQueries` speaks of queries the caller awaits; a promise nobody awaits is a
  matter of its own (section 5).
* `socket_session` runs with listeners that do not call back and with `end()` only after
  `connect()`; both restrictions are named constants, and section 5 shows what happens without them.
* `NothingIsLeft` is a safety property of quiet states, in the place of a liveness property: the code
  promises no progress when the application or the server rests.
* `NodesComeBack` names what does not come back as it was: a JID that is not canonical comes back as
  another name of the account, and one with nothing behind its `@` cannot be read at all and closes the
  receiver.
* `RecordsSurviveStorage` looks at the records about to be saved and also at the one `decrypt` holds on
  the way, a session without a sending chain: it is stored with an empty one, which must not be
  taken for a chain again.
* `ShownAgainOnlyWithoutKey` states what the code does and not what one may wish for: a first message
  that names no one-time pre-key opens again when it is delivered again (section 5, `MCSignalRetry`).
* `TransportOnlyWithGenuine` compares the header and the issuer serial of the certificate, which is all the code
  compares (`noise/handshake.ts:40-64`); the signatures of the certificate chain are not verified
  there, so "genuine" means no more than that.

## 4. Fairness

Only `JesterSocket` states fairness, and only its liveness properties use it. `WF(Run)`: a handler
that has started runs to its end, which is the run-to-completion rule of JavaScript.
`WF(ConnectTimesOut)`, `WF(QrTimerFires)`, `WF(QueryTimesOut(q))`: an armed timer that is not
cleared fires. `WF(TransportCloses)`: a WebSocket in state CLOSING emits `close`. Nothing is
assumed of the server, of the application, of the keep-alive, or of a transport that is open: it
may stay silent for ever. `PairingAttemptEnds` therefore rests on the QR timer alone and
`EveryQuerySettles` on the timer of the query alone.

## 5. Where the code and its words disagree

The run with `expect: violation`, `signal_second_pkmsg`: until the peer answers, the initiator sends
every message with the bundle data, "they may not have processed the first one yet"
(`signal/cipher.ts:213`). The receiver deletes the one-time pre-key after the first such message, and
resolves the pre-key of the second one before it looks for a session (`signal/repository.ts:136`): it
throws, and the message is lost although it came in order.

Configurations kept beside it show the following; each is a counterexample of a few steps, found by
`tlc -config <name>.cfg` on `MCSignalRepository`, `MCJesterSocket` or `MCMessaging`
(`MCSocketNotOpen` shows all of its three with `-continue`):

| Configuration | Property violated | What the code does |
|---|---|---|
| `MCSignalRetry` | `BaseKeyBuildsOneSession` | "A retried pkmsg carries the same base key. Rebuilding the session would throw away the ratchet state" (`cipher.ts:318`): the lookup compares `pendingPreKey.baseKey`, which only the initiator's session has, so on the receiver it finds nothing and the session is rebuilt |
| `MCSignalCrossReplay` | `DeliveredAtMostOnce` | `promoteSession` leaves the promoted session in the archive (`session.ts:94`). After a save and a load the archived one is a separate, older session whose keys are not spent, and a repeated message decrypts twice |
| `MCMessagingLid` | `TargetsAreTheAudience` | `parseDeviceQuery` puts every device on `s.whatsapp.net` (`node.ts:237`), whatever server its account is on: a `lid` account gets nothing |
| `MCSignalOverlap` | `MessageKeysSealOneMessage` | two overlapping `encrypt` calls for one peer load one record and seal two messages with one key (`repository.ts:153`), where `ratchet.ts:11` says "used exactly once" |
| `MCSignalReopenReuse` | `MessageKeysSealOneMessage` | a stale archived copy is promoted again and its sending chain starts over (`session.ts:94`) |
| `MCSignalFailedTrial` | `MessagesStayDecryptable` | an attempt that fails on the current session has turned its ratchet already (`cipher.ts:252`); it is saved turned when an archived session opens the message |
| `MCSignalEvictedChain` | `MessagesStayDecryptable` | a receiver chain is shifted out while a message on it is in flight (`session.ts:138`: "old ones can no longer receive anything") |
| `MCSignalCrashPreKey` | `PreKeyBuildsOneSession` | a crash between saving the session and deleting the pre-key (`repository.ts:140-146`) |
| `MCSocketLateSuccess` | `ClosedStaysClosed` | a `success` node of the same chunk, handled after `end()`, reports the socket open again (`connection.ts:474`) |
| `MCSocketQrListener` | `ClosedStopsTimers` | a listener ends the socket when shown a QR; the timer is armed after the emit (`connection.ts:427`) |
| `MCSocketNotOpen` | `NoUnhandledRejection` | `query` registers its reply promise before a send that throws (`connection.ts:196`); the promise is rejected later with nobody awaiting it |
| `MCSocketNotOpen` | `FailedConnectCloses` | when the transport does not open in time `connect()` rejects and no close update follows (`connection.ts:253`) |
| `MCSocketNotOpen` | `ClosedDisconnects` | `end()` before `connect()`: the transport is opened all the same and no later `end()` closes it (`connection.ts:227`) |

Some more, which the definitions show as they stand:

* A JID is said to be `user[:device][_agent]@server` (`jid.ts:16`); `jidEncode` writes
  `user_agent:device` (`jid.ts:29`), and `jidDecode` reads that.
* The registration id is said to have 14 bits (`creds.ts:66`); the array is made of the two bytes one
  by one, and its first element has 8.
* `encodeFrame` refuses a payload that is too large after the Noise counter has moved on
  (`connection.ts:185`): the next frame is one the server cannot read.
* A negative number in an `sfixed64` field throws (`wire.ts:172`), where the other types wrap. No
  table has such a field.
* A process that dies after the pairing is stored and before its answer reaches the server will log in
  as a device the server does not know (`connection.ts:439`); nothing in the code goes back from there.

## 6. What is proved

Eight modules of theorems, each for every value of the constants. TLC evaluates the assumptions
they rest on in the runs of the same components.

**RatchetProofs** has no theorem about a specification: it has the lemmas on sequences and on the
operators of `Ratchet` that the proofs about chains and about sessions share. A chain in order
(`InOrder`) has its turns and index in step, in its key and in every stored key, and its store in
ascending order behind it. `Answered` says what any request for a counter does to such a chain:
it gives the key of that counter, which the chain can never give again, or throws.

**ReceiverChainProofs**: the invariants and the action property of `receiver_chain`, for every
value of the two limits, every set of counters and every seed. Assumptions: `LimitsAssumption`
(the limits are natural numbers) and `CountersAssumption` (so are the counters).

The properties are not inductive by themselves. That a key is not handed out twice needs to know
that what was handed out is behind the chain *and* no longer stored (`HandedIsSpent`). That the key
is the right one needs the turns and the index in step, in the chain key and in every stored key
(`InStep`). That pruning drops the oldest keys, which is what keeps the recent ones, needs the store
to be in ascending order (`StoreAscending`); it is stated with distances, because the step needs to
know how far behind the chain an entry at a given position can be. `IInv` is their conjunction with
the type and the properties.

The proof splits a request in two: it takes a stored key (`TakesEntry`) or it turns the chain
(`TurnsChain`). `TakeStoredStep` and `DeriveStep` show that the operators of `Ratchet` do one or
the other, from the lemmas on `RemoveAt`, `SkippedKeys` and `pruneMessageKeys`;
`TakesEntryPreserves` and `TurnsChainPreserves` show that each keeps `IInv`, one step for each of
its conjuncts.

**SignalRepositoryProofs**: `RecordsSurviveStorage` for every value of the constants, any number of
operations at a time, and crashes; and `PreKeyBuildsOneSession` where operations do not overlap and no
process dies. Assumptions: `LimitsAssumption`, `SessionsAssumption` and `DevicesAssumption`.

A stored record can be read back if its sessions are well formed: every chain in order, the sending
chain a chain or nothing, the archive a sequence of such sessions (`GoodRecord`). `RecordsInOrder`
says so of what is stored, of what every operation holds at its await, and that the messages on the
way name well-formed chains. It is kept through X3DH, the ratchet turn of a trial, failed trials
(which leave the session changed, `AfterTrials`) and promotion. That the `Map` of stored keys comes
back as the list it was made of (`KeysSurvive`) is an induction over the number of keys put in, and
needs that no two have one counter, which is what the ascending store gives.

A one-time pre-key is deleted after the session built from it is saved. `PreKeysSpent` says that every
key a session was built from is gone from the store, or is about to be deleted by the one operation
at work, and that an operation works with keys that are held. Two hypotheses are needed and stated:
`OneAtATime` (two overlapping `decrypt` calls both resolve the key), and `NoCrashes`
(`MCSignalCrashPreKey`: a crash between the save and the delete).

The second half of the module is about one conversation, and its theorems name what they assume of it:
`OneAtATime`, each device finishes an operation before it begins the next (`MCSignalOverlap` shows what
happens otherwise); `OneOpening`, one device opens a session, once (`MCSignalCrossReplay` and
`MCSignalReopenReuse`: a second session makes stale copies in the archive); for some of them
`NoCrashes` (`MCSignalCrashPreKey`) and `Stocked`, the opener's bundle had a one-time pre-key
(`MCSignalRetry`). `signal_serial` satisfies all four, `signal_crash` the first two.

* `KeysSealOneMessage` states `CrashReusesNoKey`: wherever a process dies, no key seals two messages.
* `RetriesBuildNoSession`: a pkmsg builds one session, however often the network repeats it.
* `KeepsTheChannel`: every step is a step of `MessageChannel` or a stutter, crashes included, while
  no pkmsg builds its session twice; `RepositoryIsAChannel` concludes `ImplementsChannel` from the two
  before it. `ReturnCiphertext` maps to `Send`, `ReturnPlaintext` to `Deliver`, and everything else,
  crashes included, to a stutter.
* `DeliveredOnce`: no plaintext is returned twice, and no key seals two messages.
* `RatchetsStayInStep` states `MessagesStayDecryptable`, under all four hypotheses and as long as
  `WithinLimits`: no message's counter is beyond `MAX_SKIPPED_MESSAGE_KEYS` or
  `MAX_STORED_MESSAGE_KEYS`, and no root key is made of more than `2 * MAX_PREVIOUS_SESSIONS + 2`
  secrets, so that no session has had more receiving chains than it keeps. `WithinLimits` holds throughout
  `signal_serial`; `MCSignalEvictedChain` is what happens beyond it.

The inductive invariant is `Conversation`. Each device has one session and no archive. Within a
session no two chains have the same seed, and none is longer than the root key (`Lineage`), because
a turn of the root ratchet appends a secret; so a key handed out, or of a chain shifted out, is `Gone`
for good. Between the devices, the seed a device seals with contains a pair it has generated
itself and that the other had no part in (`FreshSeed`, `MadeFrom`), so the two never seal with the
same chain (`SeedsApart`). Messages on the way were sealed with keys behind the sending chain
(`Behind`); the one key that is neither is that of an operation which has saved its record and not
yet returned its ciphertext, and no message has it (`Unreleased`). A crash at that await wastes the
key and reuses none: here the order of save and return carries the proof. `BodiesApart` keeps
plaintexts apart, and `HandedOutOnce` says that a body given to the application has its key gone.

A crash can bring back a pkmsg that has built its session already, which builds it again and starts
its chains over (section 5). `ConversationSoFar` therefore is `Conversation` as long as
`BaseKeyBuildsOneSession` holds, and is inductive in this form, since `built` only grows. Without
crashes and with a one-time pre-key, `PreKeyBuildsOneSession` gives `BaseKeyBuildsOneSession`, since
every pkmsg of the conversation names that pre-key.

For `RatchetsStayInStep` the two ends are looked at together, in the invariant `InStep`. The end of a
device is its session, or, before the first pkmsg has reached it, the session which that message
will build (`Awaited`). One of the two ends is ahead of the other by the secret of both ends'
ratchet pairs (`OneAhead`, `Leads`): it has the chain the other sends on, and the other has no chain yet for
its pair. So every message on the way, lost or not, is on a chain its receiver has or on the one it
will make next (`OnChain`), and its key is still to be had from there unless the body was handed out
(`KeyKept`). Nobody has gone further along a chain than to a message that was sent on it (`ChainsApart`),
so within the limits no stored key is pruned. A step either leaves the root keys as they are
(`StayingInStep`) or is the one trial that turns the ratchet, after which the end that was behind is
ahead (`TurningInStep`). Root keys and counters only grow, so limits once passed stay passed
(`LimitsLast`), and `WithinLimits => InStep` is inductive beside `Conversation`.

**DevicePairingProofs**: `LinkedDeviceCanLogIn`, `PairedOnlyByOwnAccount` and
`LinkedDeviceShowsNoQr`, for any phones, any number of credentials and of connections, with crashes
and drops anywhere. Assumptions: the bounds are natural numbers, and `None` is neither a phone nor
credentials.

The argument goes through the file. The process knows nothing the file does not, once there is a
file (`FileUpToDate`), because the update is written before anything else happens. A connection
that registers belongs to a process that is not paired (`RegistersUnpaired`), because the payload
goes by `me`. Together: whoever registers has no linked device (`UnpairedIsUnlinked`), so storing a
new pairing cannot overwrite a linked one, and no QR is shown for a linked device. A reply in
flight is about a pairing already in the file (`PairingNode`), so linking keeps the property; it
is here that the order of storing and answering matters. `ProvenPairing` states
`PairedOnlyByOwnAccount` of the file too, since a crash brings credentials back from there.

**JesterSocketProofs**: `OneCloseUpdate`, `PendingRequestsWait` and the types, for any queries, any
assignment of ids to them (shared or not), any frames, and listeners that call back or not.
Assumption: `ConstantsAssumption`. The invariant is the conjunction of the three; one lemma for
each operator that handlers are made of (`OnClose`, `Throws`, `EmitNextQr`, `Register`, and
`SettleKeeps` for a reply or a timeout) shows that it keeps the part of the state it writes, and
the actions follow from them. `PendingRequestsWait` needs nothing but itself and the types: a timer
that clears its id under another query leaves that query out of the table, never a settled one in it.

What a close leaves behind is proved where the code keeps it: `ClosedStopsTimers`,
`ClosedDisconnects` and `ClosedSettlesQueries` under `Orderly`: listeners do not call back, `end()`
comes after `connect()`, and no two queries share an id. Without the first two the code breaks the
first two (`MCSocketQrListener`, `MCSocketNotOpen`). They need to know what a handler may still do:
one runs at a time and its last act is to emit (`OneHandler`); before `connect()` there is nothing to
stop (`NothingBegun`); and once the socket is closed no handler is left that arms a timer or opens a
transport (`NothingGoesOn`). These make `HandlerInv`. That nobody waits for ever on a closed socket
needs that everyone who is awaited is in the table, which `onClose` empties (`TableInv`); an id
shared by two queries would push one of them out of it.

**NoiseXXProofs**: the four properties of `noise`, for any number of connections, any limit of the
counters and any length of the queues. Assumptions: `CounterAssumption`, `BoundsAssumption` and
`ServersAssumption`, which says that a server is of one of the four kinds of the model.

A handshake has few states, and the invariant names them: the hash, the secrets and the counter of
each end while it waits (`ClientPhases`, `ServerPhases`, with `HelloOf` and `FinishOf` for what the
other end has sent it). One lemma for each Noise operation says what it does to such a state
(`MixState`, `SealState`, `OpenState`, `FinishState`); chained, they give the server's hello, the
client's verdict on it and the finish. From there three facts carry the properties. An end that has
finished has the keys of this connection, one for each direction (`FinishedKeys`; hence `KeysAgree`).
What is in flight continues what was read, up to what was written while the transport was open
(`InFlight`; hence a reader's next frame opens, and `GenuineServerAccepted`). Every key used belongs
to a connection, by its first secret, and a key of transport mode has sealed only what its writer has
counted (`UsedKeys`; hence the next encryption is a fresh pair and `NonceUsedOnce` holds). In the
handshake it is the count of secrets in a key that tells its use, since nonces start again at 0.

**FrameStreamProofs**: `FramesInOrder` for `FrameSpec`, that is for any payloads of up to
`MAX_FRAME_SIZE` bytes, any number of values of a byte, and a stream cut anywhere. Assumptions:
`FrameAssumption` (neither the WA header nor the mark of the edge begins with the other: 'WA' and
'ED') and `RoutingAssumption` (a routing info fits its three bytes of length).

`Carries(bytes, payloads)` relates bytes to the frames they are made of, by the list of what remains
after each. The invariant says that before the intro is taken off the stream is the intro and the
frames sent (`IntroFirst`), and afterwards what is buffered and what is on the way are the frames not
yet out, none of them complete in the buffer (`TheRestOnTheWay`). Writing a frame appends one
(`CarriesOneMore`); `UnframeTakes` says that `push` takes off exactly those that are complete,
whatever follows. It is an induction over the length of the buffer, and rests on `FrontFrame`, which
reads the size back from its three places, and on `UnframeTurns`: the loop is defined by recursion, and
that the recursion has a solution, and one only, is proved first (`LoopExists`, `LoopIsUnique`), from
`AfterFrameIsShorter`. `RoutedHeader` shows that the edge takes off its own header and nothing else.

**MessagingProofs**: all seven properties of `messaging`, and the types, for any devices, accounts, chats
and texts, any stock of keys, any number of refills, and any number of uploads and connections lost.
The assumptions on the constants, which TLC evaluates:

* `DevicesAssumption`: the devices are finitely many and named as the node codec reads them, without a
  device 0; `NoneAssumption`: what may be absent is not `None` when it is there.
* `BoundsAssumption`: the ids a device may hand out fit the three bytes they are cut to on the wire
  (`prekeys.ts:94`), and a byte has more values than the longest padding.
* `CodecAssumption`: the codec of the content gives back each of the texts. `FieldsComeBack` checks the
  codec itself, in `protobuf`.
* `TextsAssumption`: the texts have distinct ids, and no author sends two texts to one device. With a
  second one before an answer the code breaks `EveryCopyOpens` (`signal_second_pkmsg`).

Two hypotheses are stated in the theorems. `OneServer`: all devices are on `s.whatsapp.net`
(`MCMessagingLid` shows a device of another domain, which gets nothing). `TextsRead`, for
`TextsComeBack` only: a text is read from what it was put in, with the wrapper of our own devices and
without; this is an induction over wrappers, and TLC evaluates it where `messaging` checks the property.

The first half of the module is about lists. The devices, bundles and copies are lists that are built,
filtered and flattened by three recursions at each end; `List(s, E)` says that a list has the members
`E`, whatever their order and number, and `ListOnly`, `ListEach` and `ListFlat` say what becomes of it.
With them the two ends are held against each other: the devices that `parseDeviceQuery` reads are those
the query asked for (`TargetsOf`), the ids in a bundle those of the key that was uploaded (a number in
three big-endian places is read back as it was), the padding of any length is taken off again, and the
sender read from a copy is its author, directly and in a group.

The invariant `Inv` follows a one-time key from hand to hand. What the server has posted is held by its
device and was handed to nobody (`PostedInv`); a key handed out is in the stock until it is used, for one
author, who has a session since (`ServedInv`); used means that a text of that author was opened
(`UsedInv`); what a session or a copy names is the key that was handed out to it, or none if there was
none (`Names`, in `SessionsInv` and `QueueInv`). Hence a first copy finds its key (`EveryCopyOpens`), and a
copy brought again finds it gone exactly if it had one (`ShownAgainOnlyWithoutKey`). `Carries` is the part
that is not obvious: a `pkmsg` in the queue is either not opened yet or its key is used, and a `msg` in the
queue means that the receiver has a session with the author, which no action takes away. For
`NothingIsLeft`, what is handled and still kept has an ack among the answers that settles it
(`AnswersInv`; a dropped connection takes the answers and starts from the first again), and what is
not shown is still queued (`ShownInv`). One lemma for each action shows that it keeps every part. TLC
has checked `Inv` itself in the instance of `messaging`.

Only model-checked: the `TypeOK` of `SignalRepository`, since the proofs rest
on the shapes in `RecordsInOrder` and need none of its bounds; and `NodesComeBack`, `SelfDelimiting`, `FieldsComeBack`, `CutLosesOnlyTheTail` and `OpensOnlyWhereSealed`, which
are about codecs with recursive operators (`BinaryNode`, `ProtoWire`) that the provers cannot reason
about. Liveness (`EveryQuerySettles`, `PairingAttemptEnds`, `DroppedTransportReported`) stays with TLC
too.

## 7. What is not modelled, and why

* Cryptography is symbolic: no key is guessed, no MAC forged, no hash collides. `Messaging` verifies
  the signatures of bundles; `SignalRepository` has only bundles that verify.
* `JesterSocket`: listeners that throw; a second `connect()` made from a listener of the first;
  the write error of a transport that closes between the check of `readyState` and the send.
* `NoiseXX`: a closed socket goes on decrypting what its transport still delivers; the model stops
  there, since nothing of it is sent.
* `StanzaStream`: the inflation of compressed frames is symbolic, and the encryption between codec and
  frames is left to `NoiseXX`.
* `DevicePairing`: malformed stanzas, the fields of the payloads, the serialization of credentials.
* `Messaging`: what ratchets do, which is `SignalRepository`'s; group sender keys, which the code has
  not; read receipts, presence and chat state, nodes nothing in the code answers to; the typing delay.
* The signed pre-key is never rotated by the code, so the models have one for each device.
* `createLinkedTransports`, the in-memory pair of the tests, and `FrameDecoder.reset`, which nothing
  calls.
* Media encryption, the primitives, the generated tokens, the example and the scripts: calls of
  primitives, arithmetic on Curve25519, data, and glue.

## 8. Plan

1. `NoiseXX` over `FrameStream` in place of its message queues.
2. An abstract specification of a connection as its listeners see it (connecting, perhaps open,
   closed, once each), implemented by `JesterSocket`.
3. The credentials file: its serialization, and its malformed stanzas in `DevicePairing`.

Theorems, in this order: that a closed socket stays closed where the code keeps it
(`MCSocketLateSuccess` has the exception); what `Messaging` promises of a second text, once the first is answered.
