------------------------ MODULE MerchantSettingsProof -----------------------
(***************************************************************************)
(* Proofs about MerchantSettings, for any number of requests, merchants,   *)
(* failing calls and crashes.                                              *)
(***************************************************************************)
EXTENDS MerchantSettings, TLAPS

-----------------------------------------------------------------------------
(* The inductive invariant.                                                *)

\* What a handler may rely on where it is: the kind of its message, and the
\* merchant of its session.
PlaceInv(r) ==
    /\ pc[r] = "idle" => reply[r] = 0
    /\ pc[r] # "idle" => msg[r] \in SessionMessages \cup KeyMessages
    /\ pc[r] = "key" => msg[r] \in KeyMessages
    /\ pc[r] \in Running \ {"key"} => msg[r] \in SessionMessages
    /\ pc[r] \in Running \ {"session", "key"} => merchant[r] = msg[r].merchant

\* A transaction is open between its first UPDATE and its COMMIT only, and has
\* updated both rows by then.
TxInv(r) ==
    /\ pc[r] = "updConfig" => tx[r] = {"merchants"}
    /\ pc[r] = "commit" => tx[r] = Tables
    /\ pc[r] \notin {"updConfig", "commit"} => tx[r] = {}

\* A key a client sends was minted by a rotation, and an unknown one is refused.
KeyInv(r) ==
    pc[r] # "idle" /\ msg[r].op = "getMe" =>
        /\ msg[r].key # None => pc[msg[r].key] # "idle"
        /\ reply[r] = 200 => msg[r].key # None

\* The key of a merchant was minted by a rotation of the merchant's session.
SecretInv ==
    \A m \in Merchants : secretKey[m] # None =>
        /\ pc[secretKey[m]] # "idle"
        /\ msg[secretKey[m]].op = "rotateKey" /\ msg[secretKey[m]].merchant = m

IInv ==
    /\ TypeOK
    /\ \A r \in Requests : PlaceInv(r) /\ TxInv(r) /\ KeyInv(r)
    /\ SecretInv
    /\ UpdatesAtomic
    /\ KeyServesItsMerchant

-----------------------------------------------------------------------------
(* The invariant holds initially, and every step preserves it.             *)

USE SettingsAssumption
    DEF vars, settings, secrets, request, budget, Values, SessionMessages,
        KeyMessages, Tables, Running, Stopped, At, Goto, Answer, Fault

LEMMA InitIInv == Init => IInv
  BY DEF Init, IInv, TypeOK, PlaceInv, TxInv, KeyInv, SecretInv, UpdatesAtomic,
         KeyServesItsMerchant

LEMMA SendStep ==
    ASSUME IInv, NEW r \in Requests, NEW m \in Sendable, Send(r, m)
    PROVE  IInv'
<1>1. TypeOK'
  BY DEF Send, Sendable, IInv, TypeOK, PlaceInv
<1>2. ASSUME NEW q \in Requests PROVE PlaceInv(q)' /\ TxInv(q)'
  BY DEF Send, Sendable, IInv, TypeOK, PlaceInv, TxInv
<1>3. ASSUME NEW q \in Requests PROVE KeyInv(q)'
  BY DEF Send, Sendable, IInv, TypeOK, PlaceInv, KeyInv
<1>4. SecretInv' /\ UpdatesAtomic'
  BY DEF Send, Sendable, IInv, TypeOK, PlaceInv, TxInv, SecretInv, UpdatesAtomic
<1>5. KeyServesItsMerchant'
  BY DEF Send, Sendable, IInv, TypeOK, PlaceInv, KeyInv, SecretInv, KeyServesItsMerchant
<1>6. QED BY <1>1, <1>2, <1>3, <1>4, <1>5 DEF IInv

LEMMA RequireSessionStep ==
    ASSUME IInv, NEW r \in Requests, RequireSession(r)
    PROVE  IInv'
<1>1. TypeOK'
  BY DEF RequireSession, IInv, TypeOK, PlaceInv
<1>2. ASSUME NEW q \in Requests PROVE PlaceInv(q)' /\ TxInv(q)'
  BY DEF RequireSession, IInv, TypeOK, PlaceInv, TxInv
<1>3. ASSUME NEW q \in Requests PROVE KeyInv(q)'
  BY DEF RequireSession, IInv, TypeOK, PlaceInv, KeyInv
<1>4. SecretInv' /\ UpdatesAtomic'
  BY DEF RequireSession, IInv, TypeOK, PlaceInv, TxInv, SecretInv, UpdatesAtomic
<1>5. KeyServesItsMerchant'
  BY DEF RequireSession, IInv, TypeOK, PlaceInv, KeyInv, SecretInv, KeyServesItsMerchant
<1>6. QED BY <1>1, <1>2, <1>3, <1>4, <1>5 DEF IInv

LEMMA RequireSecretKeyStep ==
    ASSUME IInv, NEW r \in Requests, RequireSecretKey(r)
    PROVE  IInv'
<1>1. TypeOK'
  BY DEF RequireSecretKey, FindMerchant, IInv, TypeOK, PlaceInv
<1>2. ASSUME NEW q \in Requests PROVE PlaceInv(q)' /\ TxInv(q)'
  BY DEF RequireSecretKey, FindMerchant, IInv, TypeOK, PlaceInv, TxInv
<1>3. ASSUME NEW q \in Requests PROVE KeyInv(q)'
  BY DEF RequireSecretKey, FindMerchant, IInv, TypeOK, PlaceInv, KeyInv
<1>4. SecretInv' /\ UpdatesAtomic'
  BY DEF RequireSecretKey, FindMerchant, IInv, TypeOK, PlaceInv, TxInv, SecretInv, UpdatesAtomic
<1>5. KeyServesItsMerchant'
  BY DEF RequireSecretKey, FindMerchant, IInv, TypeOK, PlaceInv, KeyInv, SecretInv, KeyServesItsMerchant
<1>6. QED BY <1>1, <1>2, <1>3, <1>4, <1>5 DEF IInv

LEMMA UpdateMerchantRowStep ==
    ASSUME IInv, NEW r \in Requests, UpdateMerchantRow(r)
    PROVE  IInv'
<1>1. TypeOK'
  BY DEF UpdateMerchantRow, IInv, TypeOK, PlaceInv
<1>2. ASSUME NEW q \in Requests PROVE PlaceInv(q)' /\ TxInv(q)'
  BY DEF UpdateMerchantRow, IInv, TypeOK, PlaceInv, TxInv
<1>3. ASSUME NEW q \in Requests PROVE KeyInv(q)'
  BY DEF UpdateMerchantRow, IInv, TypeOK, PlaceInv, KeyInv
<1>4. SecretInv' /\ UpdatesAtomic'
  BY DEF UpdateMerchantRow, IInv, TypeOK, PlaceInv, TxInv, SecretInv, UpdatesAtomic
<1>5. KeyServesItsMerchant'
  BY DEF UpdateMerchantRow, IInv, TypeOK, PlaceInv, KeyInv, SecretInv, KeyServesItsMerchant
<1>6. QED BY <1>1, <1>2, <1>3, <1>4, <1>5 DEF IInv

LEMMA UpdateConfigRowStep ==
    ASSUME IInv, NEW r \in Requests, UpdateConfigRow(r)
    PROVE  IInv'
<1>1. TypeOK'
  BY DEF UpdateConfigRow, IInv, TypeOK, PlaceInv
<1>2. ASSUME NEW q \in Requests PROVE PlaceInv(q)' /\ TxInv(q)'
  BY DEF UpdateConfigRow, IInv, TypeOK, PlaceInv, TxInv
<1>3. ASSUME NEW q \in Requests PROVE KeyInv(q)'
  BY DEF UpdateConfigRow, IInv, TypeOK, PlaceInv, KeyInv
<1>4. SecretInv' /\ UpdatesAtomic'
  BY DEF UpdateConfigRow, IInv, TypeOK, PlaceInv, TxInv, SecretInv, UpdatesAtomic
<1>5. KeyServesItsMerchant'
  BY DEF UpdateConfigRow, IInv, TypeOK, PlaceInv, KeyInv, SecretInv, KeyServesItsMerchant
<1>6. QED BY <1>1, <1>2, <1>3, <1>4, <1>5 DEF IInv

LEMMA CommitUpdateStep ==
    ASSUME IInv, NEW r \in Requests, CommitUpdate(r)
    PROVE  IInv'
<1>1. TypeOK'
  BY DEF CommitUpdate, Publish, IInv, TypeOK, PlaceInv
<1>2. ASSUME NEW q \in Requests PROVE PlaceInv(q)' /\ TxInv(q)'
  BY DEF CommitUpdate, Publish, IInv, TypeOK, PlaceInv, TxInv
<1>3. ASSUME NEW q \in Requests PROVE KeyInv(q)'
  BY DEF CommitUpdate, Publish, IInv, TypeOK, PlaceInv, KeyInv
<1>4. SecretInv' /\ UpdatesAtomic'
  BY DEF CommitUpdate, Publish, IInv, TypeOK, PlaceInv, TxInv, SecretInv, UpdatesAtomic
<1>5. KeyServesItsMerchant'
  BY DEF CommitUpdate, Publish, IInv, TypeOK, PlaceInv, KeyInv, SecretInv, KeyServesItsMerchant
<1>6. QED BY <1>1, <1>2, <1>3, <1>4, <1>5 DEF IInv

LEMMA FetchMerchantStep ==
    ASSUME IInv, NEW r \in Requests, FetchMerchant(r)
    PROVE  IInv'
<1>1. TypeOK'
  BY DEF FetchMerchant, FindMerchant, IInv, TypeOK, PlaceInv
<1>2. ASSUME NEW q \in Requests PROVE PlaceInv(q)' /\ TxInv(q)'
  BY DEF FetchMerchant, FindMerchant, IInv, TypeOK, PlaceInv, TxInv
<1>3. ASSUME NEW q \in Requests PROVE KeyInv(q)'
  BY DEF FetchMerchant, FindMerchant, IInv, TypeOK, PlaceInv, KeyInv
<1>4. SecretInv' /\ UpdatesAtomic'
  BY DEF FetchMerchant, FindMerchant, IInv, TypeOK, PlaceInv, TxInv, SecretInv, UpdatesAtomic
<1>5. KeyServesItsMerchant'
  BY DEF FetchMerchant, FindMerchant, IInv, TypeOK, PlaceInv, KeyInv, SecretInv, KeyServesItsMerchant
<1>6. QED BY <1>1, <1>2, <1>3, <1>4, <1>5 DEF IInv

LEMMA RotateStep ==
    ASSUME IInv, NEW r \in Requests, Rotate(r)
    PROVE  IInv'
<1>1. TypeOK'
  BY DEF Rotate, WriteSecret, IInv, TypeOK, PlaceInv
<1>2. ASSUME NEW q \in Requests PROVE PlaceInv(q)' /\ TxInv(q)'
  BY DEF Rotate, WriteSecret, IInv, TypeOK, PlaceInv, TxInv
<1>3. ASSUME NEW q \in Requests PROVE KeyInv(q)'
  BY DEF Rotate, WriteSecret, IInv, TypeOK, PlaceInv, KeyInv
<1>4. SecretInv' /\ UpdatesAtomic'
  BY DEF Rotate, WriteSecret, IInv, TypeOK, PlaceInv, TxInv, SecretInv, UpdatesAtomic
<1>5. KeyServesItsMerchant'
  BY DEF Rotate, WriteSecret, IInv, TypeOK, PlaceInv, KeyInv, SecretInv, KeyServesItsMerchant
<1>6. QED BY <1>1, <1>2, <1>3, <1>4, <1>5 DEF IInv

LEMMA LookupFailsStep ==
    ASSUME IInv, NEW r \in Requests, LookupFails(r)
    PROVE  IInv'
<1>1. TypeOK'
  BY DEF LookupFails, IInv, TypeOK, PlaceInv
<1>2. ASSUME NEW q \in Requests PROVE PlaceInv(q)' /\ TxInv(q)'
  BY DEF LookupFails, IInv, TypeOK, PlaceInv, TxInv
<1>3. ASSUME NEW q \in Requests PROVE KeyInv(q)'
  BY DEF LookupFails, IInv, TypeOK, PlaceInv, KeyInv
<1>4. SecretInv' /\ UpdatesAtomic'
  BY DEF LookupFails, IInv, TypeOK, PlaceInv, TxInv, SecretInv, UpdatesAtomic
<1>5. KeyServesItsMerchant'
  BY DEF LookupFails, IInv, TypeOK, PlaceInv, KeyInv, SecretInv, KeyServesItsMerchant
<1>6. QED BY <1>1, <1>2, <1>3, <1>4, <1>5 DEF IInv

LEMMA UpdateFailsStep ==
    ASSUME IInv, NEW r \in Requests, UpdateFails(r)
    PROVE  IInv'
<1>1. TypeOK'
  BY DEF UpdateFails, Rollback, IInv, TypeOK, PlaceInv
<1>2. ASSUME NEW q \in Requests PROVE PlaceInv(q)' /\ TxInv(q)'
  BY DEF UpdateFails, Rollback, IInv, TypeOK, PlaceInv, TxInv
<1>3. ASSUME NEW q \in Requests PROVE KeyInv(q)'
  BY DEF UpdateFails, Rollback, IInv, TypeOK, PlaceInv, KeyInv
<1>4. SecretInv' /\ UpdatesAtomic'
  BY DEF UpdateFails, Rollback, IInv, TypeOK, PlaceInv, TxInv, SecretInv, UpdatesAtomic
<1>5. KeyServesItsMerchant'
  BY DEF UpdateFails, Rollback, IInv, TypeOK, PlaceInv, KeyInv, SecretInv, KeyServesItsMerchant
<1>6. QED BY <1>1, <1>2, <1>3, <1>4, <1>5 DEF IInv

LEMMA CommitFailsStep ==
    ASSUME IInv, NEW r \in Requests, CommitFails(r)
    PROVE  IInv'
<1>1. TypeOK'
  BY DEF CommitFails, Publish, Rollback, IInv, TypeOK, PlaceInv
<1>2. ASSUME NEW q \in Requests PROVE PlaceInv(q)' /\ TxInv(q)'
  BY DEF CommitFails, Publish, Rollback, IInv, TypeOK, PlaceInv, TxInv
<1>3. ASSUME NEW q \in Requests PROVE KeyInv(q)'
  BY DEF CommitFails, Publish, Rollback, IInv, TypeOK, PlaceInv, KeyInv
<1>4. SecretInv' /\ UpdatesAtomic'
  BY DEF CommitFails, Publish, Rollback, IInv, TypeOK, PlaceInv, TxInv, SecretInv, UpdatesAtomic
<1>5. KeyServesItsMerchant'
  BY DEF CommitFails, Publish, Rollback, IInv, TypeOK, PlaceInv, KeyInv, SecretInv, KeyServesItsMerchant
<1>6. QED BY <1>1, <1>2, <1>3, <1>4, <1>5 DEF IInv

LEMMA RotateFailsStep ==
    ASSUME IInv, NEW r \in Requests, RotateFails(r)
    PROVE  IInv'
<1>1. TypeOK'
  BY DEF RotateFails, WriteSecret, IInv, TypeOK, PlaceInv
<1>2. ASSUME NEW q \in Requests PROVE PlaceInv(q)' /\ TxInv(q)'
  BY DEF RotateFails, WriteSecret, IInv, TypeOK, PlaceInv, TxInv
<1>3. ASSUME NEW q \in Requests PROVE KeyInv(q)'
  BY DEF RotateFails, WriteSecret, IInv, TypeOK, PlaceInv, KeyInv
<1>4. SecretInv' /\ UpdatesAtomic'
  BY DEF RotateFails, WriteSecret, IInv, TypeOK, PlaceInv, TxInv, SecretInv, UpdatesAtomic
<1>5. KeyServesItsMerchant'
  BY DEF RotateFails, WriteSecret, IInv, TypeOK, PlaceInv, KeyInv, SecretInv, KeyServesItsMerchant
<1>6. QED BY <1>1, <1>2, <1>3, <1>4, <1>5 DEF IInv

LEMMA CrashStep ==
    ASSUME IInv, Crash
    PROVE  IInv'
<1>1. TypeOK'
  BY DEF Crash, IInv, TypeOK, PlaceInv
<1>2. ASSUME NEW q \in Requests PROVE PlaceInv(q)' /\ TxInv(q)'
  BY DEF Crash, IInv, TypeOK, PlaceInv, TxInv
<1>3. ASSUME NEW q \in Requests PROVE KeyInv(q)'
  BY DEF Crash, IInv, TypeOK, PlaceInv, KeyInv
<1>4. SecretInv' /\ UpdatesAtomic'
  BY DEF Crash, IInv, TypeOK, PlaceInv, TxInv, SecretInv, UpdatesAtomic
<1>5. KeyServesItsMerchant'
  BY DEF Crash, IInv, TypeOK, PlaceInv, KeyInv, SecretInv, KeyServesItsMerchant
<1>6. QED BY <1>1, <1>2, <1>3, <1>4, <1>5 DEF IInv

THEOREM NextIInv == IInv /\ [Next]_vars => IInv'
<1>1. CASE UNCHANGED vars
  BY <1>1 DEF IInv, TypeOK, PlaceInv, TxInv, KeyInv, SecretInv, UpdatesAtomic,
              KeyServesItsMerchant
<1>2. QED
  BY <1>1, SendStep, RequireSessionStep, RequireSecretKeyStep, UpdateMerchantRowStep,
     UpdateConfigRowStep, CommitUpdateStep, FetchMerchantStep, RotateStep,
     LookupFailsStep, UpdateFailsStep, CommitFailsStep, RotateFailsStep, CrashStep
  DEF Next, Step, StepFails, Finished

-----------------------------------------------------------------------------
(* The safety properties of MerchantSettings.                              *)

LEMMA Invariance == Spec => []IInv
  BY InitIInv, NextIInv, PTL DEF Spec

\* Every variable keeps its type.
THEOREM TypeCorrect == Spec => []TypeOK
<1>1. IInv => TypeOK
  BY DEF IInv
<1>2. QED BY Invariance, <1>1, PTL

\* Name and webhook URL always come from one UpdateMe, also in every response.
THEOREM UpdatesAtomicHolds == Spec => []UpdatesAtomic
<1>1. IInv => UpdatesAtomic
  BY DEF IInv
<1>2. QED BY Invariance, <1>1, PTL

\* A secret key opens the merchant whose session rotated it, and no other.
THEOREM KeyServesItsMerchantHolds == Spec => []KeyServesItsMerchant
<1>1. IInv => KeyServesItsMerchant
  BY DEF IInv
<1>2. QED BY Invariance, <1>1, PTL

\* A secret becomes current in its own rotation only: none comes back.
THEOREM SecretsNeverReturnHolds == Spec => SecretsNeverReturn
<1> DEFINE Fresh ==
      \A m \in Merchants :
        /\ secretKey'[m] # secretKey[m] =>
               \E r \in Requests : r = secretKey'[m] /\ At(r, "rotate")
        /\ webhookSecret'[m] # webhookSecret[m] =>
               \E r \in Requests : r = webhookSecret'[m] /\ At(r, "rotate")
<1>1. IInv /\ [Next]_vars => [Fresh]_vars
  <2> SUFFICES ASSUME IInv, [Next]_vars PROVE Fresh \/ UNCHANGED secrets
    OBVIOUS
  <2>1. CASE \E r \in Requests : Rotate(r) \/ RotateFails(r)
    BY <2>1 DEF Rotate, RotateFails, WriteSecret, IInv, TypeOK
  <2>2. CASE ~ \E r \in Requests : Rotate(r) \/ RotateFails(r)
    BY <2>2 DEF Next, Step, StepFails, Finished, Send, RequireSession, RequireSecretKey,
       UpdateMerchantRow, UpdateConfigRow, CommitUpdate, FetchMerchant, LookupFails,
       UpdateFails, CommitFails, Crash
  <2>3. QED BY <2>1, <2>2
<1>2. QED BY Invariance, <1>1, PTL DEF Spec, SecretsNeverReturn
=============================================================================
