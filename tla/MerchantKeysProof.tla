-------------------------- MODULE MerchantKeysProof -------------------------
(***************************************************************************)
(* Proofs about MerchantKeys and Derivation, for any number of calls,      *)
(* merchants, failing calls and restarts, any registry and any indices.    *)
(***************************************************************************)
EXTENDS MerchantKeys, TLAPS

-----------------------------------------------------------------------------
(* Derivation paths tell indices apart.                                    *)

\* The hardened bit forgets nothing of a segment that does not have it.
LEMMA WithBitExact ==
    ASSUME NEW i \in 0..(HardenedBit - 1)
    PROVE  WithBit(i) = HardenedBit + i
<1>1. i % HardenedBit = i
  BY DerivationAssumption
<1>2. QED BY <1>1 DEF WithBit

LEMMA PathsTyped ==
    ASSUME NEW coin \in Nat, NEW i \in Nat
    PROVE  EvmPath(coin, i) \in Seq(Nat) /\ SolanaPath(coin, i) \in Seq(Nat)
<1>1. \A s \in Nat : Hardened(s) \in Nat /\ WithBit(s) \in Nat
  BY DerivationAssumption DEF Hardened, WithBit
<1>2. QED BY <1>1 DEF EvmPath, SolanaPath

\* Keys are equal when seed, chain type and index are, and only then.
LEMMA KeysDistinct ==
    ASSUME NEW s, NEW t, NEW m, NEW n, NEW i \in Nat, NEW j \in Nat,
           \A k \in {m, n} :
              ChainType(k) = "solana" => {i, j} \subseteq 0..(HardenedBit - 1)
    PROVE  DeriveKey(s, m, i) = DeriveKey(t, n, j)
              <=> s = t /\ ChainType(m) = ChainType(n) /\ i = j
<1>1. ChainType(m) = ChainType(n) => CoinType(m) = CoinType(n)
  BY DEF ChainType, CoinType
<1>2. CASE ChainType(m) # ChainType(n)
  BY <1>2 DEF DeriveKey, ChainType
<1>3. CASE ChainType(m) = "evm" /\ ChainType(n) = "evm"
  BY <1>1, <1>3 DEF DeriveKey, EvmPath
<1>4. CASE ChainType(m) = "solana" /\ ChainType(n) = "solana"
  <2>1. WithBit(i) = HardenedBit + i /\ WithBit(j) = HardenedBit + j
    BY <1>4, WithBitExact
  <2>2. WithBit(i) = WithBit(j) <=> i = j
    BY <2>1, DerivationAssumption
  <2>3. QED BY <1>1, <1>4, <2>2 DEF DeriveKey, SolanaPath
<1>5. QED BY <1>2, <1>3, <1>4 DEF ChainType

-----------------------------------------------------------------------------
(* The inductive invariant.                                                *)

\* A name in the KMS belongs to the call that created its key, and the process
\* remembers that key's id or none.
NameInv ==
    \A m \in Merchants :
        /\ kmsKey[m] # None =>
              /\ pc[kmsKey[m]] \notin {"idle", "createKey"}
              /\ msg[kmsKey[m]].op = "create" /\ MerchantOf(kmsKey[m]) = m
        /\ keys[m] \in {None, kmsKey[m]}

\* What a call holds at a given point: the id of its merchant's key; the seed it
\* has drawn or decrypted, and no longer than it needs it.
CallInv(c) ==
    /\ pc[c] # "idle" => msg[c] \in Messages
    /\ pc[c] \in {"createKey", "storeKey"} => msg[c].op = "create"
    /\ pc[c] = "derive" => msg[c].op = "use"
    /\ pc[c] = "storeKey" => keyID[c] = c
    /\ pc[c] \in {"storeKey", "storeID", "apply"} =>
          keyID[c] = kmsKey[MerchantOf(c)] /\ keyID[c] # None
    /\ pc[c] \in {"resolve", "lookup", "storeID", "apply"} =>
          IF msg[c].op = "create"
          THEN seed[c] = c /\ kmsKey[MerchantOf(c)] = c
          ELSE seed[c] = None
    /\ pc[c] = "derive" => seed[c] = msg[c].ciphertext.seed
    /\ pc[c] \in {"idle", "createKey", "storeKey"} \cup Stopped => seed[c] = None

\* A call works on a ciphertext of its merchant, for a network of the registry,
\* and what it returns is derived from them.
UseInv(c) ==
    /\ pc[c] # "idle" /\ msg[c].op = "use" =>
          /\ msg[c].ciphertext \in stored
          /\ MerchantOf(c) = msg[c].ciphertext.merchant
    /\ derived[c] # None =>
          /\ pc[c] = "done" /\ msg[c].op = "use"
          /\ derived[c] = DeriveKey(msg[c].ciphertext.seed,
                                    msg[c].use.network, msg[c].use.index)

\* A ciphertext is under the key of its merchant, by the call that made the key
\* and the seed.
StoredInv ==
    \A x \in stored : x.key = kmsKey[x.merchant] /\ x.seed = x.key

IInv ==
    /\ TypeOK
    /\ NameInv
    /\ \A c \in Calls : CallInv(c) /\ UseInv(c)
    /\ StoredInv

-----------------------------------------------------------------------------
(* The invariant holds initially, and every step preserves it.             *)

USE KeysAssumption
    DEF vars, budget, At, Goto, MerchantOf, Running, Stopped, Messages, Ciphertexts

LEMMA InitIInv == Init => IInv
  BY DEF Init, IInv, TypeOK, NameInv, CallInv, UseInv, StoredInv

LEMMA CallStep ==
    ASSUME IInv, NEW c \in Calls, NEW m \in Sendable, Call(c, m)
    PROVE  IInv'
<1>1. TypeOK'
  BY DEF Call, Sendable, IInv, TypeOK, CallInv, UseInv
<1>2. NameInv' /\ StoredInv'
  BY DEF Call, Sendable, IInv, TypeOK, NameInv, CallInv, UseInv, StoredInv
<1>3. ASSUME NEW d \in Calls PROVE CallInv(d)'
  BY DEF Call, Sendable, IInv, TypeOK, NameInv, CallInv, UseInv, StoredInv
<1>4. ASSUME NEW d \in Calls PROVE UseInv(d)'
  BY DEF Call, Sendable, IInv, TypeOK, CallInv, UseInv, StoredInv
<1>5. QED BY <1>1, <1>2, <1>3, <1>4 DEF IInv

LEMMA CreateKeyStep ==
    ASSUME IInv, NEW c \in Calls, CreateKey(c)
    PROVE  IInv'
<1>1. TypeOK'
  <2>1. msg[c] \in Messages
    BY DEF CreateKey, IInv, CallInv
  <2>2. MerchantOf(c) \in Merchants
    BY <2>1
  <2> HIDE DEF Messages
  <2>3. CASE kmsKey[MerchantOf(c)] = None
    BY <2>2, <2>3 DEF CreateKey, IInv, TypeOK
  <2>4. CASE kmsKey[MerchantOf(c)] # None
    BY <2>4 DEF CreateKey, IInv, TypeOK
  <2>5. QED BY <2>3, <2>4
<1>2. NameInv' /\ StoredInv'
  <2>1. CASE kmsKey[MerchantOf(c)] = None
    \* There is no ciphertext of the merchant yet, and no other call has an id.
    <3>1. msg[c] \in Messages /\ MerchantOf(c) \in Merchants /\ msg[c].op = "create"
      BY DEF CreateKey, IInv, CallInv
    <3>2. \A x \in stored : x.merchant # MerchantOf(c)
      BY <2>1 DEF IInv, TypeOK, StoredInv
    <3>3. StoredInv'
      BY <2>1, <3>1, <3>2 DEF CreateKey, IInv, TypeOK, StoredInv
    <3>4. NameInv'
      BY <2>1, <3>1 DEF CreateKey, IInv, TypeOK, NameInv
    <3>5. QED BY <3>3, <3>4
  <2>2. CASE kmsKey[MerchantOf(c)] # None
    BY <2>2 DEF CreateKey, IInv, TypeOK, NameInv, StoredInv
  <2>3. QED BY <2>1, <2>2
<1>3. ASSUME NEW d \in Calls PROVE CallInv(d)'
  BY DEF CreateKey, IInv, TypeOK, NameInv, CallInv, UseInv, StoredInv
<1>4. ASSUME NEW d \in Calls PROVE UseInv(d)'
  BY DEF CreateKey, IInv, TypeOK, CallInv, UseInv, StoredInv
<1>5. QED BY <1>1, <1>2, <1>3, <1>4 DEF IInv

LEMMA StoreKeyStep ==
    ASSUME IInv, NEW c \in Calls, StoreKey(c)
    PROVE  IInv'
  BY DEF StoreKey, IInv, TypeOK, NameInv, CallInv, UseInv, StoredInv

LEMMA ResolveKeyIDStep ==
    ASSUME IInv, NEW c \in Calls, ResolveKeyID(c)
    PROVE  IInv'
  BY DEF ResolveKeyID, IInv, TypeOK, NameInv, CallInv, UseInv, StoredInv

LEMMA LookUpKeyStep ==
    ASSUME IInv, NEW c \in Calls, LookUpKey(c) \/ StoreID(c)
    PROVE  IInv'
<1>1. TypeOK'
  <2>1. msg[c] \in Messages
    BY DEF LookUpKey, StoreID, IInv, CallInv
  <2>2. MerchantOf(c) \in Merchants
    BY <2>1
  <2> HIDE DEF Messages
  <2>3. QED BY <2>2 DEF LookUpKey, StoreID, IInv, TypeOK
<1>2. NameInv' /\ StoredInv'
  BY DEF LookUpKey, StoreID, IInv, TypeOK, NameInv, CallInv, UseInv, StoredInv
<1>3. ASSUME NEW d \in Calls PROVE CallInv(d)'
  BY DEF LookUpKey, StoreID, IInv, TypeOK, NameInv, CallInv, UseInv, StoredInv
<1>4. ASSUME NEW d \in Calls PROVE UseInv(d)'
  BY DEF LookUpKey, StoreID, IInv, TypeOK, CallInv, UseInv, StoredInv
<1>5. QED BY <1>1, <1>2, <1>3, <1>4 DEF IInv

LEMMA EncryptStep ==
    ASSUME IInv, NEW c \in Calls, Encrypt(c)
    PROVE  IInv'
<1>1. TypeOK'
  BY DEF Encrypt, IInv, TypeOK, CallInv, UseInv
<1>2. NameInv' /\ StoredInv'
  BY DEF Encrypt, IInv, TypeOK, NameInv, CallInv, UseInv, StoredInv
<1>3. ASSUME NEW d \in Calls PROVE CallInv(d)'
  BY DEF Encrypt, IInv, TypeOK, NameInv, CallInv, UseInv, StoredInv
<1>4. ASSUME NEW d \in Calls PROVE UseInv(d)'
  BY DEF Encrypt, IInv, TypeOK, CallInv, UseInv, StoredInv
<1>5. QED BY <1>1, <1>2, <1>3, <1>4 DEF IInv

LEMMA DecryptStep ==
    ASSUME IInv, NEW c \in Calls, Decrypt(c)
    PROVE  IInv'
<1>1. TypeOK'
  <2>1. msg[c] \in Messages
    BY DEF Decrypt, IInv, CallInv
  <2>2. msg[c].op = "use" => msg[c].ciphertext.seed \in Calls
    BY <2>1
  <2> HIDE DEF Messages
  <2>3. QED BY <2>2 DEF Decrypt, IInv, TypeOK
<1>2. NameInv' /\ StoredInv'
  BY DEF Decrypt, IInv, TypeOK, NameInv, CallInv, UseInv, StoredInv
<1>3. ASSUME NEW d \in Calls PROVE CallInv(d)'
  BY DEF Decrypt, IInv, TypeOK, NameInv, CallInv, UseInv, StoredInv
<1>4. ASSUME NEW d \in Calls PROVE UseInv(d)'
  BY DEF Decrypt, IInv, TypeOK, CallInv, UseInv, StoredInv
<1>5. QED BY <1>1, <1>2, <1>3, <1>4 DEF IInv

LEMMA DeriveStep ==
    ASSUME IInv, NEW c \in Calls, Derive(c)
    PROVE  IInv'
<1>1. TypeOK'
  <2>1. msg[c] \in Messages
    BY DEF Derive, IInv, CallInv
  <2>2. /\ seed[c] \in Calls /\ msg[c].use.index \in Nat
        /\ CoinType(msg[c].use.network) \in Nat
    BY <2>1, DerivationAssumption DEF Derive, IInv, CallInv, CoinType
  <2>3. DeriveKey(seed[c], msg[c].use.network, msg[c].use.index)
          \in [scheme : {"BIP-32", "SLIP-0010"}, seed : Calls, path : Seq(Nat)]
    BY <2>2, PathsTyped DEF DeriveKey
  <2> DEFINE Derived == [scheme : {"BIP-32", "SLIP-0010"}, seed : Calls, path : Seq(Nat)]
  <2>4. derived' \in [Calls -> Derived \cup {None}]
    <3>1. derived \in [Calls -> Derived \cup {None}]
      BY DEF IInv, TypeOK
    <3> HIDE DEF Derived
    <3>2. QED BY <2>3, <3>1 DEF Derive, Derived
  <2> HIDE DEF Messages, Derived
  <2>5. pc' \in [Calls -> {"idle"} \cup Running \cup Stopped]
    BY DEF Derive, IInv, TypeOK
  <2>6. QED BY <2>4, <2>5 DEF Derive, Derived, IInv, TypeOK
<1>2. NameInv' /\ StoredInv'
  BY DEF Derive, IInv, TypeOK, NameInv, CallInv, UseInv, StoredInv
<1>3. ASSUME NEW d \in Calls PROVE CallInv(d)'
  BY DEF Derive, IInv, TypeOK, NameInv, CallInv, UseInv, StoredInv
<1>4. ASSUME NEW d \in Calls PROVE UseInv(d)'
  BY DEF Derive, IInv, TypeOK, CallInv, UseInv, StoredInv
<1>5. QED BY <1>1, <1>2, <1>3, <1>4 DEF IInv

LEMMA KMSFailsStep ==
    ASSUME IInv, NEW c \in Calls, KMSFails(c)
    PROVE  IInv'
  BY DEF KMSFails, IInv, TypeOK, NameInv, CallInv, UseInv, StoredInv

LEMMA CrashStep ==
    ASSUME IInv, Crash
    PROVE  IInv'
  BY DEF Crash, IInv, TypeOK, NameInv, CallInv, UseInv, StoredInv

THEOREM NextIInv == IInv /\ [Next]_vars => IInv'
<1>1. CASE UNCHANGED vars
  BY <1>1 DEF IInv, TypeOK, NameInv, CallInv, UseInv, StoredInv
<1>2. QED
  BY <1>1, CallStep, CreateKeyStep, StoreKeyStep, ResolveKeyIDStep, LookUpKeyStep,
     EncryptStep, DecryptStep, DeriveStep, KMSFailsStep, CrashStep
  DEF Next, Step, Finished

-----------------------------------------------------------------------------
(* The safety properties of MerchantKeys.                                  *)

LEMMA Invariance == Spec => []IInv
  BY InitIInv, NextIInv, PTL DEF Spec

\* Every variable keeps its type.
THEOREM TypeCorrect == Spec => []TypeOK
<1>1. IInv => TypeOK
  BY DEF IInv
<1>2. QED BY Invariance, <1>1, PTL

\* No two calls of CreateMerchantSeed both return a ciphertext for a merchant.
THEOREM OneSeedPerMerchantHolds == Spec => []OneSeedPerMerchant
<1>1. IInv => OneSeedPerMerchant
  BY DEF IInv, TypeOK, StoredInv, OneSeedPerMerchant
<1>2. QED BY Invariance, <1>1, PTL

\* Every ciphertext that was returned can be decrypted, by every later call.
THEOREM SeedRecoverableHolds == Spec => []SeedRecoverable
<1>1. IInv => SeedRecoverable
  BY DEF IInv, TypeOK, NameInv, CallInv, UseInv, StoredInv, SeedRecoverable
<1>2. QED BY Invariance, <1>1, PTL

\* No call that has ended leaves a seed in its byte slice.
THEOREM SliceClearedHolds == Spec => []SliceCleared
<1>1. IInv => SliceCleared
  BY DEF IInv, CallInv, SliceCleared
<1>2. QED BY Invariance, <1>1, PTL

\* The key that signs for a deposit address is the key of that address, and of
\* no other address.
THEOREM OneKeyPerAddressHolds == Spec => []OneKeyPerAddress
<1>1. ASSUME IInv PROVE OneKeyPerAddress
  <2> SUFFICES
        ASSUME NEW c \in Calls, NEW d \in Calls,
               derived[c] # None, derived[d] # None,
               \A n \in {msg[c].use.network, msg[d].use.network} :
                  ChainType(n) = "solana" =>
                     {msg[c].use.index, msg[d].use.index} \subseteq 0..(HardenedBit - 1)
        PROVE  derived[c] = derived[d]
                  <=> /\ MerchantOf(c) = MerchantOf(d)
                      /\ ChainType(msg[c].use.network) = ChainType(msg[d].use.network)
                      /\ msg[c].use.index = msg[d].use.index
    BY DEF OneKeyPerAddress
  <2>1. \A x \in {c, d} :
           /\ msg[x] \in Messages /\ msg[x].op = "use" /\ msg[x].use \in Uses
           /\ msg[x].ciphertext \in stored
           /\ MerchantOf(x) = msg[x].ciphertext.merchant /\ MerchantOf(x) \in Merchants
           /\ derived[x] = DeriveKey(msg[x].ciphertext.seed,
                                     msg[x].use.network, msg[x].use.index)
    BY <1>1 DEF IInv, CallInv, UseInv
  <2>2. \A x \in {c, d} : msg[x].use.index \in Nat
    BY <2>1, DerivationAssumption
  \* A seed names its merchant: it is the call that created the merchant's key.
  <2>3. \A x \in {c, d} :
           /\ msg[x].ciphertext.seed = kmsKey[MerchantOf(x)]
           /\ kmsKey[MerchantOf(x)] # None
    BY <1>1, <2>1 DEF IInv, TypeOK, StoredInv
  <2>4. msg[c].ciphertext.seed = msg[d].ciphertext.seed
           <=> MerchantOf(c) = MerchantOf(d)
    BY <1>1, <2>1, <2>3 DEF IInv, NameInv
  <2>5. QED BY <2>1, <2>2, <2>4, KeysDistinct
<1>2. QED BY Invariance, <1>1, PTL
=============================================================================
