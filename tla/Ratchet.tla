------------------------------ MODULE Ratchet ------------------------------
(***************************************************************************)
(* The symmetric half of the Double Ratchet: chain keys, message keys and  *)
(* the store of skipped keys of a receiving chain.  Cryptography is        *)
(* symbolic: the chain key reached after n HMAC turns of a seed is the     *)
(* record [seed, turns |-> n], and two keys are equal exactly when they    *)
(* were derived the same way.                                              *)
(***************************************************************************)
EXTENDS Integers, SequencesExt

CONSTANTS MAX_SKIPPED_MESSAGE_KEYS,  \* keys derived to catch up with one gap
          MAX_STORED_MESSAGE_KEYS    \* skipped keys a chain keeps

ASSUME LimitsAssumption == /\ MAX_SKIPPED_MESSAGE_KEYS \in Nat
                           /\ MAX_STORED_MESSAGE_KEYS \in Nat

----------------------------------------------------------------------------
Key(seed, n) == [seed |-> seed, turns |-> n]

\* n applications of nextChainKey, the body of the catch-up loop.
turnChainKey(chainKey, n) ==
  [key |-> Key(chainKey.key.seed, chainKey.key.turns + n), index |-> chainKey.index + n]

nextChainKey(chainKey) == turnChainKey(chainKey, 1)

\* A slip in deriveMessageKeys: the keys are named by the counter before.
KeysOfPrevious(chainKey) == [material |-> chainKey.key, index |-> chainKey.index - 1]

\* The cipher key, MAC key and IV are one symbolic value: the key they come from.
deriveMessageKeys(chainKey) == [material |-> chainKey.key, index |-> chainKey.index]

newChain(ratchetKey, seed) ==
  [ratchetKey |-> ratchetKey, chainKey |-> [key |-> Key(seed, 0), index |-> 0],
   messageKeys |-> << >>]

----------------------------------------------------------------------------
(* messageKeys is a JavaScript Map from counters to keys.  A Map iterates   *)
(* in insertion order, so it is the sequence of its values; the counter of  *)
(* an entry is the index of its keys.                                       *)

StoredAt(messageKeys, counter) ==
  {i \in DOMAIN messageKeys : messageKeys[i].index = counter}

\* Slips in pruneMessageKeys: one key too many stays; the newest are dropped.
PruneOneShort(messageKeys) ==
  LET excess == Len(messageKeys) - MAX_STORED_MESSAGE_KEYS
  IN  IF excess <= 1 THEN messageKeys ELSE SubSeq(messageKeys, excess, Len(messageKeys))

PruneNewest(messageKeys) ==
  SubSeq(messageKeys, 1, IF Len(messageKeys) <= MAX_STORED_MESSAGE_KEYS THEN Len(messageKeys)
                         ELSE MAX_STORED_MESSAGE_KEYS)

pruneMessageKeys(messageKeys) ==
  LET excess == Len(messageKeys) - MAX_STORED_MESSAGE_KEYS
  IN  IF excess <= 0 THEN messageKeys
      ELSE SubSeq(messageKeys, excess + 1, Len(messageKeys))

\* Slips in SkippedKeys: the chain is turned before its keys are derived;
\* nothing is banked.
KeysAfterTurn(chainKey, counter) ==
  [i \in 1 .. counter - chainKey.index |->
     [material |-> turnChainKey(chainKey, i).key, index |-> chainKey.index + i - 1]]

NothingBanked(chainKey, counter) == << >>

\* The keys the catch-up loop banks before it reaches counter.
SkippedKeys(chainKey, counter) ==
  [i \in 1 .. counter - chainKey.index |-> deriveMessageKeys(turnChainKey(chainKey, i - 1))]

\* A slip in TakeStored: the key stays stored.
KeepStored(chain, i) == [chain |-> chain, keys |-> chain.messageKeys[i]]

\* What each successful return leaves: the chain and the keys handed out.
TakeStored(chain, i) ==
  [chain |-> [chain EXCEPT !.messageKeys = RemoveAt(@, i)], keys |-> chain.messageKeys[i]]

DeriveUpTo(chain, counter) ==
  LET reached == turnChainKey(chain.chainKey, counter - chain.chainKey.index)
      banked  == chain.messageKeys \o SkippedKeys(chain.chainKey, counter)
  IN  [chain |-> [chain EXCEPT !.chainKey = nextChainKey(reached),
                               !.messageKeys = pruneMessageKeys(banked)],
       keys |-> deriveMessageKeys(reached)]

\* A slip in InReach: any gap is walked.
AnyGap(chain, counter) == counter >= chain.chainKey.index

InReach(chain, counter) ==
  /\ counter >= chain.chainKey.index
  /\ counter - chain.chainKey.index <= MAX_SKIPPED_MESSAGE_KEYS

\* The set of outcomes of messageKeysForCounter: empty when it throws (the
\* chain is then unchanged), one outcome when it returns.
messageKeysForCounter(chain, counter) ==
  LET stored == StoredAt(chain.messageKeys, counter)
  IN  IF stored # {} THEN {TakeStored(chain, CHOOSE i \in stored : TRUE)}
      ELSE IF InReach(chain, counter) THEN {DeriveUpTo(chain, counter)}
      ELSE {}
=============================================================================
