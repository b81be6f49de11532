---------------------------- MODULE MerchantKeys ----------------------------
(***************************************************************************)
(* Merchant seeds and the keys that protect them                           *)
(* (internal/signer/signer.go over internal/signer/infisical.go).          *)
(* CreateMerchantSeed creates a key in the KMS, draws a seed and encrypts  *)
(* it; DeriveAddress and the Sign functions decrypt a stored ciphertext    *)
(* and derive the key of a network and an index from it.                   *)
(* The KMS knows keys by id; InfisicalKMS maps names to ids and remembers  *)
(* the ids in a sync.Map that all goroutines share and a restart empties.  *)
(*                                                                         *)
(* The name of a key contains the merchant's id and is represented by the  *)
(* merchant; a key id and a seed by the call that made them.  The token    *)
(* of a call is the concern of module KmsToken.                            *)
(*                                                                         *)
(* Of the copies of a seed only the byte slice that signer.go clears is    *)
(* kept here.  The base64 strings and bodies that infisical.go makes of it *)
(* for the KMS, and the derived keys, are left to the garbage collector.   *)
(***************************************************************************)
EXTENDS Derivation, Sequences

CONSTANTS
    Calls,       \* CreateMerchantSeed and DeriveAddress / Sign calls
    Merchants,
    Uses,        \* what a key may be asked for: records [op, network, index]
    None,
    MaxFaults,   \* bound: calls to the KMS that fail
    MaxCrashes   \* bound: restarts of the process

ASSUME KeysAssumption ==
    /\ None \notin Calls
    /\ \A use \in Uses : use.op \in {"address", "signEVM", "signSolana"}
                         /\ use.index \in 0..(2 * HardenedBit - 1)
    /\ MaxFaults \in Nat /\ MaxCrashes \in Nat

VARIABLES
    kmsKey,      \* KMS: kmsKey[m] is the id of the key with m's name, or None
    keys,        \* the process: the id remembered for m's name, or None
    pc, msg,     \* where a call is, and what it was called with
    keyID,       \* the id a call has resolved or was answered
    seed,        \* the seed in the byte slice of a call of signer.go, or None
    stored,      \* ciphertexts CreateMerchantSeed has returned
    derived,     \* the key whose address a call returned, or that it signed with
    faults, crashes

budget == <<faults, crashes>>
vars == <<kmsKey, keys, pc, msg, keyID, seed, stored, derived, budget>>

-----------------------------------------------------------------------------
\* A ciphertext opens under the key it was made with.
Ciphertexts == [merchant : Merchants, key : Calls, seed : Calls]

Messages ==
    [op : {"create"}, merchant : Merchants]
    \cup [op : {"use"}, merchant : Merchants, ciphertext : Ciphertexts, use : Uses]

Running == {"createKey", "storeKey", "resolve", "lookup", "storeID", "apply",
            "derive"}
Stopped == {"done", "failed", "lost"}

Init ==
    /\ kmsKey = [m \in Merchants |-> None]
    /\ keys = [m \in Merchants |-> None]
    /\ pc = [c \in Calls |-> "idle"]
    /\ msg = [c \in Calls |-> None]
    /\ keyID = [c \in Calls |-> None]
    /\ seed = [c \in Calls |-> None]
    /\ stored = {}
    /\ derived = [c \in Calls |-> None]
    /\ faults = 0 /\ crashes = 0

At(c, label) == pc[c] = label
Goto(c, label) == pc' = [pc EXCEPT ![c] = label]
MerchantOf(c) == msg[c].merchant

-----------------------------------------------------------------------------
\* The callers keep a ciphertext with its merchant.
Sendable ==
    {m \in Messages : m.op = "use" =>
        m.ciphertext \in stored /\ m.merchant = m.ciphertext.merchant}

\* The network is in the registry, and of the chain that is to be signed for.
Supported(use) ==
    /\ LookupNetwork(use.network)
    /\ use.op = "signEVM" => ChainType(use.network) = "evm"
    /\ use.op = "signSolana" => ChainType(use.network) = "solana"

\* A call, and its local code before the first call to the KMS.
Call(c, m) ==
    /\ At(c, "idle")
    /\ msg' = [msg EXCEPT ![c] = m]
    /\ Goto(c, CASE m.op = "create" -> "createKey"
                 [] m.op = "use" /\ Supported(m.use) -> "resolve"
                 [] m.op = "use" /\ ~ Supported(m.use) -> "failed")
    /\ UNCHANGED <<kmsKey, keys, keyID, seed, stored, derived, budget>>

\* Mutant of CreateKey: the status of the answer is not looked at, and a name
\* that is taken passes for a key that was created.
CreateKeyUnchecked(c) ==
    /\ At(c, "createKey")
    /\ kmsKey' = [kmsKey EXCEPT ![MerchantOf(c)] = IF @ = None THEN c ELSE @]
    /\ keyID' = [keyID EXCEPT ![c] = kmsKey'[MerchantOf(c)]]
    /\ Goto(c, "storeKey")
    /\ UNCHANGED <<keys, msg, seed, stored, derived, budget>>

\* CreateKey reaches the KMS, which has one key for a name.
CreateKey(c) ==
    /\ At(c, "createKey")
    /\ IF kmsKey[MerchantOf(c)] = None
       THEN /\ kmsKey' = [kmsKey EXCEPT ![MerchantOf(c)] = c]
            /\ keyID' = [keyID EXCEPT ![c] = c]
            /\ Goto(c, "storeKey")
       ELSE /\ Goto(c, "failed")
            /\ UNCHANGED <<kmsKey, keyID>>
    /\ UNCHANGED <<keys, msg, seed, stored, derived, budget>>

\* The answer arrives: the id is remembered, and a seed drawn.
StoreKey(c) ==
    /\ At(c, "storeKey")
    /\ keys' = [keys EXCEPT ![MerchantOf(c)] = keyID[c]]
    /\ seed' = [seed EXCEPT ![c] = c]
    /\ Goto(c, "resolve")
    /\ UNCHANGED <<kmsKey, msg, keyID, stored, derived, budget>>

\* resolveKeyID, at the head of Encrypt and Decrypt: the id is remembered, or
\* has to be looked up.
ResolveKeyID(c) ==
    /\ At(c, "resolve")
    /\ IF keys[MerchantOf(c)] # None
       THEN /\ keyID' = [keyID EXCEPT ![c] = keys[MerchantOf(c)]]
            /\ Goto(c, "apply")
       ELSE /\ Goto(c, "lookup")
            /\ UNCHANGED keyID
    /\ UNCHANGED <<kmsKey, keys, msg, seed, stored, derived, budget>>

\* Mutant of LookUpKey: whichever key the KMS lists first.
LookUpAnyKey(c) ==
    /\ At(c, "lookup")
    /\ \E m \in Merchants : /\ kmsKey[m] # None
                            /\ keyID' = [keyID EXCEPT ![c] = kmsKey[m]]
    /\ Goto(c, "storeID")
    /\ UNCHANGED <<kmsKey, keys, msg, seed, stored, derived, budget>>

LookUpKey(c) ==
    /\ At(c, "lookup")
    /\ IF kmsKey[MerchantOf(c)] # None
       THEN /\ keyID' = [keyID EXCEPT ![c] = kmsKey[MerchantOf(c)]]
            /\ Goto(c, "storeID")
       ELSE /\ Goto(c, "failed")
            /\ UNCHANGED keyID
    /\ UNCHANGED <<kmsKey, keys, msg, seed, stored, derived, budget>>

\* The answer arrives, and the id is remembered.
StoreID(c) ==
    /\ At(c, "storeID")
    /\ keys' = [keys EXCEPT ![MerchantOf(c)] = keyID[c]]
    /\ Goto(c, "apply")
    /\ UNCHANGED <<kmsKey, msg, keyID, seed, stored, derived, budget>>

\* Mutant of Encrypt: the slice is cleared before it is encrypted.
EncryptCleared(c) ==
    /\ At(c, "apply") /\ msg[c].op = "create"
    /\ stored' = stored \cup
          {[merchant |-> MerchantOf(c), key |-> keyID[c], seed |-> None]}
    /\ seed' = [seed EXCEPT ![c] = None]
    /\ Goto(c, "done")
    /\ UNCHANGED <<kmsKey, keys, msg, keyID, derived, budget>>

\* Encrypt: the caller gets the ciphertext, and CreateMerchantSeed clears its slice.
Encrypt(c) ==
    /\ At(c, "apply") /\ msg[c].op = "create"
    /\ stored' = stored \cup
          {[merchant |-> MerchantOf(c), key |-> keyID[c], seed |-> seed[c]]}
    /\ seed' = [seed EXCEPT ![c] = None]
    /\ Goto(c, "done")
    /\ UNCHANGED <<kmsKey, keys, msg, keyID, derived, budget>>

\* Decrypt: the caller gets the seed in a slice of its own; the KMS refuses a
\* ciphertext of another key.
Decrypt(c) ==
    /\ At(c, "apply") /\ msg[c].op = "use"
    /\ IF msg[c].ciphertext.key = keyID[c]
       THEN /\ seed' = [seed EXCEPT ![c] = msg[c].ciphertext.seed]
            /\ Goto(c, "derive")
       ELSE /\ Goto(c, "failed")
            /\ UNCHANGED seed
    /\ UNCHANGED <<kmsKey, keys, msg, keyID, stored, derived, budget>>

\* DeriveAddress or a Sign function derives its key and clears the slice.  BIP-32
\* has rare invalid children, and a transaction may not be signable.
Derive(c) ==
    LET use == msg[c].use
    IN  /\ At(c, "derive")
        /\ seed' = [seed EXCEPT ![c] = None]
        /\ \/ /\ derived' = [derived EXCEPT ![c] =
                               DeriveKey(seed[c], use.network, use.index)]
              /\ Goto(c, "done")
           \/ /\ use.op # "address" \/ ChainType(use.network) = "evm"
              /\ Goto(c, "failed")
              /\ UNCHANGED derived
        /\ UNCHANGED <<kmsKey, keys, msg, keyID, stored, budget>>

-----------------------------------------------------------------------------
\* Mutant of KMSFails: the slice is cleared on success only.
KMSFailsKeeping(c) ==
    /\ pc[c] \in {"createKey", "lookup", "apply"}
    /\ faults < MaxFaults
    /\ faults' = faults + 1
    /\ Goto(c, "failed")
    /\ UNCHANGED <<kmsKey, keys, msg, keyID, seed, stored, derived, crashes>>

\* A call to the KMS fails: no token, a timeout, an error status, a cancelled
\* context.  CreateKey may have taken effect; the slice with the seed is cleared.
KMSFails(c) ==
    /\ pc[c] \in {"createKey", "lookup", "apply"}
    /\ faults < MaxFaults
    /\ faults' = faults + 1
    /\ \/ /\ At(c, "createKey") /\ kmsKey[MerchantOf(c)] = None
          /\ kmsKey' = [kmsKey EXCEPT ![MerchantOf(c)] = c]
       \/ UNCHANGED kmsKey
    /\ seed' = [seed EXCEPT ![c] = None]
    /\ Goto(c, "failed")
    /\ UNCHANGED <<keys, msg, keyID, stored, derived, crashes>>

\* The process dies: what it remembers and its calls are gone, the KMS is not.
Crash ==
    /\ crashes < MaxCrashes
    /\ crashes' = crashes + 1
    /\ keys' = [m \in Merchants |-> None]
    /\ seed' = [c \in Calls |-> None]
    /\ pc' = [c \in Calls |-> IF pc[c] \in Running THEN "lost" ELSE pc[c]]
    /\ UNCHANGED <<kmsKey, msg, keyID, stored, derived, faults>>

-----------------------------------------------------------------------------
Step(c) ==
    \/ CreateKey(c) \/ StoreKey(c) \/ ResolveKeyID(c) \/ LookUpKey(c)
    \/ StoreID(c) \/ Encrypt(c) \/ Decrypt(c) \/ Derive(c)

\* Every call is over: nothing is left to do.
Finished ==
    /\ \A c \in Calls : pc[c] \in Stopped
    /\ UNCHANGED vars

Next ==
    \/ \E c \in Calls : \/ \E m \in Sendable : Call(c, m)
                        \/ Step(c)
                        \/ KMSFails(c)
    \/ Crash
    \/ Finished

Spec == Init /\ [][Next]_vars

-----------------------------------------------------------------------------
(* Properties.                                                             *)

TypeOK ==
    /\ kmsKey \in [Merchants -> Calls \cup {None}]
    /\ keys \in [Merchants -> Calls \cup {None}]
    /\ pc \in [Calls -> {"idle"} \cup Running \cup Stopped]
    /\ msg \in [Calls -> Messages \cup {None}]
    /\ keyID \in [Calls -> Calls \cup {None}]
    /\ seed \in [Calls -> Calls \cup {None}]
    /\ stored \subseteq Ciphertexts
    /\ derived \in [Calls -> [scheme : {"BIP-32", "SLIP-0010"}, seed : Calls,
                              path : Seq(Nat)] \cup {None}]
    /\ faults \in 0..MaxFaults
    /\ crashes \in 0..MaxCrashes

\* A merchant has one seed: two calls of CreateMerchantSeed that overlap, or
\* follow each other, never both return a ciphertext, so no deposit address is
\* derived from a seed that a later ciphertext replaces.
OneSeedPerMerchant ==
    \A x, y \in stored : x.merchant = y.merchant => x = y

\* A ciphertext CreateMerchantSeed has returned can always be decrypted: neither
\* the names of other merchants, the ids remembered from concurrent calls, nor a
\* restart that forgets them lead a later call to another key, and the KMS never
\* refuses a Decrypt.
SeedRecoverable ==
    /\ \A x \in stored :
        /\ kmsKey[x.merchant] = x.key
        /\ keys[x.merchant] \in {None, x.key}
    /\ \A c \in Calls :
        At(c, "apply") /\ msg[c].op = "use" => keyID[c] = msg[c].ciphertext.key

\* One key for each deposit address: whatever is called, and restarted, between
\* DeriveAddress and a Sign function, both use the same key if merchant, chain
\* type and index agree, and different keys otherwise.  For Solana that is so for
\* the indices that the INTEGER column derivation_index can hold.
OneKeyPerAddress ==
    \A c, d \in Calls :
        LET u == msg[c].use
            v == msg[d].use
        IN  /\ derived[c] # None /\ derived[d] # None
            /\ \A n \in {u.network, v.network} :
                  ChainType(n) = "solana" => {u.index, v.index} \subseteq 0..(HardenedBit - 1)
            => (derived[c] = derived[d]
                  <=> /\ MerchantOf(c) = MerchantOf(d)
                      /\ ChainType(u.network) = ChainType(v.network)
                      /\ u.index = v.index)

\* The byte slice that holds a seed in signer.go is cleared on every way out of a
\* call: its success, a failing KMS, a key that cannot be derived, a transaction
\* that cannot be signed.  (Nothing is said of the strings and bodies infisical.go
\* makes of a seed, which are never cleared.)
SliceCleared ==
    \A c \in Calls : pc[c] \in Stopped => seed[c] = None
=============================================================================
