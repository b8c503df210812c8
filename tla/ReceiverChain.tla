--------------------------- MODULE ReceiverChain ---------------------------
(***************************************************************************)
(* One receiving chain, asked for the keys of any counter in any order: a  *)
(* peer may claim any counter, and the network may lose, duplicate and     *)
(* reorder its messages.  handed is a history variable: the log of the     *)
(* counters asked for and of the keys handed out.                          *)
(***************************************************************************)
EXTENDS Ratchet

CONSTANTS Counters,    \* the counters a message may claim
          ratchetKey,  \* the public key the chain belongs to
          seed         \* the chain key the root turn produced

ASSUME CountersAssumption == Counters \subseteq Nat

VARIABLES chain, handed

vars == <<chain, handed>>

Init == /\ chain = newChain(ratchetKey, seed)
        /\ handed = << >>

\* decryptWithSession asks for the keys of the counter a message claims.
Request(counter) ==
  \E outcome \in messageKeysForCounter(chain, counter) :
    /\ chain' = outcome.chain
    /\ handed' = Append(handed, [counter |-> counter, keys |-> outcome.keys])

Next == \E counter \in Counters : Request(counter)

Spec == Init /\ [][Next]_vars

----------------------------------------------------------------------------
banked == chain.messageKeys
index  == chain.chainKey.index

MessageKeysType == [material : [seed : {seed}, turns : Nat], index : Nat]

HandedType == [counter : Counters, keys : MessageKeysType]

TypeOK ==
  /\ chain \in [ratchetKey : {ratchetKey},
                chainKey : [key : [seed : {seed}, turns : Nat], index : Nat],
                messageKeys : Seq(MessageKeysType)]
  /\ handed \in Seq(HandedType)

\* The key for a counter is the one the sender derived for it: the turns made
\* and the index counted never drift apart, whatever order counters come in.
RightKeyForCounter ==
  \A n \in DOMAIN handed :
    /\ handed[n].keys.index = handed[n].counter
    /\ handed[n].keys.material = Key(seed, handed[n].counter)

\* "Each key is used exactly once; keeping it would allow a replay": no two
\* requests are ever answered with the same key.
EachKeyHandedOutOnce ==
  \A m, n \in DOMAIN handed : m # n => handed[m].keys.material # handed[n].keys.material

\* No counter gap makes the store outgrow its limit.
StoreBounded == Len(banked) <= MAX_STORED_MESSAGE_KEYS

\* Pruning drops the oldest keys only: a message at most
\* MAX_STORED_MESSAGE_KEYS behind the newest one received is either already
\* decrypted or still decryptable.
RecentKeysKept ==
  \A c \in 0 .. index - 1 :
    index - 1 - c <= MAX_STORED_MESSAGE_KEYS =>
      \/ \E i \in DOMAIN banked : banked[i].index = c
      \/ \E n \in DOMAIN handed : handed[n].counter = c

\* No claimed counter makes one message cost more than
\* MAX_SKIPPED_MESSAGE_KEYS derivations beyond its own.
WorkPerMessageBounded ==
  [][chain'.chainKey.index - index <= MAX_SKIPPED_MESSAGE_KEYS + 1]_vars

----------------------------------------------------------------------------
(* The inductive invariant behind the properties above.                    *)

\* Turns and index advance together, in the chain key and in every stored key.
InStep ==
  /\ chain.chainKey.key.turns = index
  /\ \A i \in DOMAIN banked : banked[i].material.turns = banked[i].index

\* The comment on pruneMessageKeys: insertion order is ascending counter order,
\* so the oldest keys come first.  Stated with distances, which also bounds how
\* far behind the chain the entry at a position can be.
StoreAscending ==
  /\ \A i, j \in DOMAIN banked : i <= j => banked[j].index - banked[i].index >= j - i
  /\ \A i \in DOMAIN banked : banked[i].index < index

\* What was handed out is behind the chain and no longer stored.
HandedIsSpent ==
  \A n \in DOMAIN handed :
    /\ handed[n].counter < index
    /\ \A i \in DOMAIN banked : banked[i].index # handed[n].counter

IInv ==
  /\ TypeOK
  /\ InStep
  /\ StoreAscending
  /\ HandedIsSpent
  /\ RightKeyForCounter
  /\ EachKeyHandedOutOnce
  /\ StoreBounded
  /\ RecentKeysKept
=============================================================================
