----------------------------- MODULE AuthProof ------------------------------
(***************************************************************************)
(* Proofs about Auth, for any number of requests, wallets, nonces, faults  *)
(* and crashes.                                                            *)
(***************************************************************************)
EXTENDS Auth, TLAPS

-----------------------------------------------------------------------------
(* The inductive invariant.                                                *)

\* What a handler has sent, read and minted when it is at a given point.
HandlerInv(r) ==
    /\ pc[r] # "idle" => msg[r] \in Messages
    /\ pc[r] \in {"idle"} \cup Running => reply[r] = 0
    /\ pc[r] \in {"session", "linkSigner"} => msg[r].op = "link"
    /\ pc[r] \in InTransaction => msg[r].op = "verify"
    /\ pc[r] \in {"nonce", "find", "linkSigner"} /\ msg[r].op = "link"
           => merchantOf[r] \in merchants
    /\ pc[r] = "issue" =>
           merchantOf[r] # None /\ signer[msg[r].wallet] = merchantOf[r]
    /\ r \in merchants => pc[r] \in {"issue"} \cup Stopped

\* The rows an open transaction holds are those its next statement expects.
TransactionInv(r) ==
    /\ pc[r] \notin InTransaction => tx[r] = {}
    /\ pc[r] = "insMerchant" => tx[r] = {}
    /\ pc[r] = "insConfig" => tx[r] = {"merchant"}
    /\ pc[r] = "insSigner" => tx[r] = {"merchant", "config"}
    /\ pc[r] = "commit" => tx[r] = {"merchant", "config", "signer"}

\* The key of a wallet is held by one open transaction, before any row has it.
KeyInv ==
    \A r \in Requests : "signer" \in tx[r] =>
        /\ signer[msg[r].wallet] = None
        /\ ~ KeyHeld(r)

\* A nonce that let a request in is gone.
NonceInv ==
    /\ \A r \in Requests :
        /\ pc[r] \in {"find", "linkSigner", "issue"} \cup InTransaction
               => r \in admitted
        /\ pc[r] \in {"idle", "session", "nonce"} => r \notin admitted
    /\ \A r \in admitted : nonce[msg[r].nonce] = "dead"
    /\ NonceSingleUse

IInv ==
    /\ TypeOK
    /\ \A r \in Requests : HandlerInv(r) /\ TransactionInv(r)
    /\ KeyInv
    /\ NonceInv
    /\ AccountsWhole
    /\ TokensNameOwner
    /\ RepliesAreTrue

-----------------------------------------------------------------------------
(* The invariant holds initially, and every step preserves it.             *)

USE AuthAssumption
    DEF vars, cache, database, request, budget, At, Goto, Answer, Fault,
        Running, InTransaction, Stopped

LEMMA InitIInv == Init => IInv
  BY DEF Init, IInv, TypeOK, HandlerInv, TransactionInv, KeyInv,
      NonceInv, AccountsWhole, TokensNameOwner, RepliesAreTrue,
      NonceSingleUse, KeyHeld

\* Two transactions cannot both insert the signer row of one wallet: the second
\* waits while the first is open, and fails when it has committed.
LEMMA InsertSignerStep ==
    ASSUME IInv, NEW r \in Requests, InsertSigner(r)
    PROVE  IInv'
<1>1. TypeOK'
  BY DEF InsertSigner, KeyTaken, Rollback, IInv, TypeOK
<1>2. ASSUME NEW q \in Requests PROVE HandlerInv(q)' /\ TransactionInv(q)'
  BY DEF InsertSigner, KeyTaken, Rollback, IInv, TypeOK, HandlerInv,
         TransactionInv, AccountsWhole
<1>3. KeyInv'
  <2>1. CASE KeyTaken(r)
    BY <2>1 DEF InsertSigner, Rollback, IInv, TypeOK, KeyInv, KeyHeld
  <2>2. CASE ~ KeyTaken(r)
    <3>1. /\ tx' = [tx EXCEPT ![r] = @ \cup {"signer"}]
          /\ signer' = signer /\ msg' = msg
          /\ ~ KeyHeld(r)
          /\ signer[msg[r].wallet] = None
      BY <2>2 DEF InsertSigner, KeyTaken
    <3>2. QED
      BY <3>1 DEF IInv, TypeOK, KeyInv, KeyHeld
  <2>3. QED BY <2>1, <2>2
<1>4. NonceInv'
  BY DEF InsertSigner, IInv, TypeOK, NonceInv, NonceSingleUse
<1>5. AccountsWhole' /\ TokensNameOwner' /\ RepliesAreTrue'
  BY DEF InsertSigner, IInv, TypeOK, AccountsWhole, TokensNameOwner,
         RepliesAreTrue
<1>6. QED BY <1>1, <1>2, <1>3, <1>4, <1>5 DEF IInv

\* What a commit publishes, whether or not its outcome is reported: a merchant
\* with its config and its signer, of a wallet that belonged to nobody.
LEMMA PublishStep ==
    ASSUME IInv, NEW r \in Requests, At(r, "commit"), Publish(r)
    PROVE  /\ merchants' = merchants \cup {r}
           /\ configs' = configs \cup {r}
           /\ signer' = [signer EXCEPT ![msg[r].wallet] = r]
           /\ tx' = [tx EXCEPT ![r] = {}]
           /\ msg[r] \in Messages /\ msg[r].op = "verify"
           /\ signer[msg[r].wallet] = None
           /\ r \notin merchants /\ r \in admitted
           /\ \A q \in Requests \ {r} :
                  "signer" \in tx[q] => msg[q].wallet # msg[r].wallet
<1>1. tx[r] = {"merchant", "config", "signer"}
  BY DEF IInv, TransactionInv
<1>2. /\ merchants' = merchants \cup {r}
      /\ configs' = configs \cup {r}
      /\ signer' = [signer EXCEPT ![msg[r].wallet] = r]
      /\ tx' = [tx EXCEPT ![r] = {}]
  BY <1>1 DEF Publish
<1>3. /\ signer[msg[r].wallet] = None
      /\ \A q \in Requests \ {r} :
             "signer" \in tx[q] => msg[q].wallet # msg[r].wallet
  BY <1>1 DEF IInv, KeyInv, KeyHeld
<1>4. msg[r] \in Messages /\ msg[r].op = "verify" /\ r \notin merchants
  BY DEF IInv, HandlerInv
<1>5. r \in admitted
  BY DEF IInv, NonceInv
<1>6. QED BY <1>2, <1>3, <1>4, <1>5

\* After such a commit the accounts are whole and no other handler is misled.
LEMMA CommitStep ==
    ASSUME IInv, NEW r \in Requests, Commit(r) \/ CommitFails(r)
    PROVE  IInv'
<1>1. CASE Commit(r) \/ (CommitFails(r) /\ Publish(r))
  <2>1. /\ At(r, "commit") /\ Publish(r)
        /\ UNCHANGED <<cache, tokens, msg>>
        /\ \/ /\ merchantOf' = [merchantOf EXCEPT ![r] = r]
              /\ Goto(r, "issue")
              /\ UNCHANGED budget
           \/ /\ UNCHANGED merchantOf
              /\ Answer(r, 500)
              /\ Fault
    BY <1>1 DEF Commit, CommitFails
  <2>2. /\ merchants' = merchants \cup {r}
        /\ configs' = configs \cup {r}
        /\ signer' = [signer EXCEPT ![msg[r].wallet] = r]
        /\ tx' = [tx EXCEPT ![r] = {}]
        /\ msg[r] \in Messages /\ msg[r].op = "verify"
        /\ signer[msg[r].wallet] = None
        /\ r \notin merchants /\ r \in admitted
        /\ \A q \in Requests \ {r} :
               "signer" \in tx[q] => msg[q].wallet # msg[r].wallet
    BY <2>1, PublishStep
  <2> HIDE DEF At, Goto, Answer, Fault
  <2>3. TypeOK'
    BY <2>1, <2>2 DEF IInv, TypeOK, Messages, At, Goto, Answer, Fault
  <2>4. ASSUME NEW q \in Requests PROVE HandlerInv(q)' /\ TransactionInv(q)'
    BY <2>1, <2>2 DEF IInv, TypeOK, HandlerInv, TransactionInv, Messages,
                      At, Goto, Answer
  <2>5. KeyInv'
    BY <2>1, <2>2 DEF IInv, TypeOK, KeyInv, KeyHeld, Messages
  <2>6. NonceInv'
    BY <2>1, <2>2 DEF IInv, TypeOK, NonceInv, NonceSingleUse, At, Goto, Answer
  <2>7. AccountsWhole'
    BY <2>1, <2>2 DEF IInv, TypeOK, AccountsWhole, Messages
  <2>8. TokensNameOwner'
    BY <2>1, <2>2 DEF IInv, TypeOK, TokensNameOwner, Tokens, Messages
  <2>9. RepliesAreTrue'
    BY <2>1, <2>2 DEF IInv, TypeOK, HandlerInv, RepliesAreTrue, Messages,
                      At, Goto, Answer
  <2>10. QED BY <2>3, <2>4, <2>5, <2>6, <2>7, <2>8, <2>9 DEF IInv
<1>2. CASE CommitFails(r) /\ Rollback(r) /\ UNCHANGED database
  BY <1>2 DEF CommitFails, Rollback, IInv, TypeOK, HandlerInv, TransactionInv, KeyInv,
      NonceInv, AccountsWhole, TokensNameOwner, RepliesAreTrue,
      NonceSingleUse, KeyHeld
<1>3. QED BY <1>1, <1>2 DEF CommitFails

LEMMA CreateSignerStep ==
    ASSUME IInv, NEW r \in Requests, CreateSigner(r) \/ CreateSignerFails(r)
    PROVE  IInv'
<1>1. CASE CreateSigner(r)
  BY <1>1 DEF CreateSigner, KeyTaken, Tokens, Messages,
      IInv, TypeOK, HandlerInv, TransactionInv, KeyInv,
      NonceInv, AccountsWhole, TokensNameOwner, RepliesAreTrue,
      NonceSingleUse, KeyHeld
<1>2. CASE CreateSignerFails(r)
  BY <1>2 DEF CreateSignerFails, KeyTaken, Tokens, Messages,
      IInv, TypeOK, HandlerInv, TransactionInv, KeyInv,
      NonceInv, AccountsWhole, TokensNameOwner, RepliesAreTrue,
      NonceSingleUse, KeyHeld
<1>3. QED BY <1>1, <1>2

\* Only GetDel admits a request, and the nonce it admits it by is dead after.
LEMMA ConsumeNonceStep ==
    ASSUME IInv, NEW r \in Requests, ConsumeNonce(r)
    PROVE  IInv'
<1>1. TypeOK'
  BY DEF ConsumeNonce, GetDel, IInv, TypeOK
<1>2. ASSUME NEW q \in Requests PROVE HandlerInv(q)' /\ TransactionInv(q)'
  BY DEF ConsumeNonce, IInv, TypeOK, HandlerInv, TransactionInv
<1>3. NonceInv'
  <2>1. CASE nonce[msg[r].nonce] = "live"
    <3>1. \A q \in admitted : msg[q].nonce # msg[r].nonce
      BY <2>1 DEF IInv, NonceInv
    <3>2. msg[r].nonce \in Nonces
      BY DEF ConsumeNonce, IInv, HandlerInv, Messages
    <3>3. /\ nonce' = [nonce EXCEPT ![msg[r].nonce] = "dead"]
          /\ admitted' = admitted \cup {r}
          /\ pc' = [pc EXCEPT ![r] = "find"]
          /\ msg' = msg
      BY <2>1 DEF ConsumeNonce, GetDel
    <3>4. \A q \in admitted' : nonce'[msg'[q].nonce] = "dead"
      BY <3>2, <3>3 DEF IInv, TypeOK, NonceInv
    <3>5. NonceSingleUse'
      BY <3>1, <3>3 DEF IInv, NonceInv, NonceSingleUse
    <3>6. QED
      BY <3>3, <3>4, <3>5 DEF IInv, TypeOK, NonceInv
  <2>2. CASE nonce[msg[r].nonce] # "live"
    BY <2>2 DEF ConsumeNonce, IInv, TypeOK, NonceInv, NonceSingleUse
  <2>3. QED BY <2>1, <2>2
<1>4. KeyInv' /\ AccountsWhole' /\ TokensNameOwner' /\ RepliesAreTrue'
  BY DEF ConsumeNonce, IInv, TypeOK, HandlerInv, KeyInv, KeyHeld,
         AccountsWhole, TokensNameOwner, RepliesAreTrue
<1>5. QED BY <1>1, <1>2, <1>3, <1>4 DEF IInv

LEMMA IssueJWTStep ==
    ASSUME IInv, NEW r \in Requests, IssueJWT(r)
    PROVE  IInv'
<1>1. [merchant |-> merchantOf[r], address |-> msg[r].wallet] \in Tokens
  BY DEF IssueJWT, IInv, TypeOK, HandlerInv, Messages, Tokens
<1>2. TypeOK' /\ TokensNameOwner'
  BY <1>1 DEF IssueJWT, IInv, TypeOK, HandlerInv, TokensNameOwner
<1>3. QED
  BY <1>2 DEF IssueJWT, IInv, TypeOK, HandlerInv, TransactionInv, KeyInv,
      NonceInv, AccountsWhole, TokensNameOwner, RepliesAreTrue,
      NonceSingleUse, KeyHeld

THEOREM NextIInv == IInv /\ [Next]_vars => IInv'
<1> SUFFICES ASSUME IInv, [Next]_vars PROVE IInv'
  OBVIOUS
<1>1. ASSUME NEW n \in Nonces, IssueNonce(n) PROVE IInv'
  BY <1>1 DEF IssueNonce, IInv, TypeOK, HandlerInv, TransactionInv, KeyInv,
      NonceInv, AccountsWhole, TokensNameOwner, RepliesAreTrue,
      NonceSingleUse, KeyHeld
<1>2. ASSUME NEW n \in Nonces, NonceExpires(n) PROVE IInv'
  BY <1>2 DEF NonceExpires, IInv, TypeOK, HandlerInv, TransactionInv, KeyInv,
      NonceInv, AccountsWhole, TokensNameOwner, RepliesAreTrue,
      NonceSingleUse, KeyHeld
<1>3. ASSUME NEW t \in tokens, TokenExpires(t) PROVE IInv'
  BY <1>3 DEF TokenExpires, IInv, TypeOK, HandlerInv, TransactionInv, KeyInv,
      NonceInv, AccountsWhole, TokensNameOwner, RepliesAreTrue,
      NonceSingleUse, KeyHeld
<1>4. ASSUME NEW r \in Requests, NEW m \in Sendable, Send(r, m) PROVE IInv'
  BY <1>4 DEF Send, Sendable, Messages, IInv, TypeOK, HandlerInv, TransactionInv, KeyInv,
      NonceInv, AccountsWhole, TokensNameOwner, RepliesAreTrue,
      NonceSingleUse, KeyHeld
<1>5. ASSUME NEW r \in Requests, RequireSession(r) PROVE IInv'
  BY <1>5 DEF RequireSession, Tokens, IInv, TypeOK, HandlerInv, TransactionInv, KeyInv,
      NonceInv, AccountsWhole, TokensNameOwner, RepliesAreTrue,
      NonceSingleUse, KeyHeld
<1>6. ASSUME NEW r \in Requests, RejectMessage(r) PROVE IInv'
  BY <1>6 DEF RejectMessage, IInv, TypeOK, HandlerInv, TransactionInv, KeyInv,
      NonceInv, AccountsWhole, TokensNameOwner, RepliesAreTrue,
      NonceSingleUse, KeyHeld
<1>7. ASSUME NEW r \in Requests, FindSigner(r) PROVE IInv'
  BY <1>7 DEF FindSigner, Messages, IInv, TypeOK, HandlerInv, TransactionInv, KeyInv,
      NonceInv, AccountsWhole, TokensNameOwner, RepliesAreTrue,
      NonceSingleUse, KeyHeld
<1>8. ASSUME NEW r \in Requests, InsertMerchant(r) PROVE IInv'
  BY <1>8 DEF InsertMerchant, IInv, TypeOK, HandlerInv, TransactionInv, KeyInv,
      NonceInv, AccountsWhole, TokensNameOwner, RepliesAreTrue,
      NonceSingleUse, KeyHeld
<1>9. ASSUME NEW r \in Requests, InsertConfig(r) PROVE IInv'
  BY <1>9 DEF InsertConfig, IInv, TypeOK, HandlerInv, TransactionInv, KeyInv,
      NonceInv, AccountsWhole, TokensNameOwner, RepliesAreTrue,
      NonceSingleUse, KeyHeld
<1>10. ASSUME NEW r \in Requests, SessionLookupFails(r) PROVE IInv'
  BY <1>10 DEF SessionLookupFails, IInv, TypeOK, HandlerInv, TransactionInv, KeyInv,
      NonceInv, AccountsWhole, TokensNameOwner, RepliesAreTrue,
      NonceSingleUse, KeyHeld
<1>11. ASSUME NEW r \in Requests, GetDelFails(r) PROVE IInv'
  <2>1. nonce' \in [Nonces -> {"unused", "live", "dead"}]
    BY <1>11 DEF GetDelFails, GetDel, IInv, TypeOK
  <2>2. \A n \in Nonces : nonce[n] = "dead" => nonce'[n] = "dead"
    BY <1>11 DEF GetDelFails, GetDel, IInv, TypeOK
  <2>3. NonceInv'
    <3>1. \A q \in admitted : msg[q].nonce \in Nonces
      BY DEF IInv, TypeOK, HandlerInv, NonceInv, Messages
    <3>2. QED
      BY <1>11, <2>2, <3>1
      DEF GetDelFails, IInv, TypeOK, NonceInv, NonceSingleUse
  <2>4. QED
    BY <1>11, <2>1, <2>3 DEF GetDelFails, IInv, TypeOK, HandlerInv, TransactionInv,
        KeyInv, KeyHeld, AccountsWhole, TokensNameOwner, RepliesAreTrue
<1>12. ASSUME NEW r \in Requests, FindSignerFails(r) PROVE IInv'
  BY <1>12 DEF FindSignerFails, Messages, IInv, TypeOK, HandlerInv, TransactionInv, KeyInv,
      NonceInv, AccountsWhole, TokensNameOwner, RepliesAreTrue,
      NonceSingleUse, KeyHeld
<1>13. ASSUME NEW r \in Requests, InsertFails(r) PROVE IInv'
  BY <1>13 DEF InsertFails, Rollback, IInv, TypeOK, HandlerInv, TransactionInv, KeyInv,
      NonceInv, AccountsWhole, TokensNameOwner, RepliesAreTrue,
      NonceSingleUse, KeyHeld
<1>14. CASE Crash
  BY <1>14 DEF Crash, IInv, TypeOK, HandlerInv, TransactionInv, KeyInv,
      NonceInv, AccountsWhole, TokensNameOwner, RepliesAreTrue,
      NonceSingleUse, KeyHeld
<1>15. CASE UNCHANGED vars
  BY <1>15 DEF IInv, TypeOK, HandlerInv, TransactionInv, KeyInv,
      NonceInv, AccountsWhole, TokensNameOwner, RepliesAreTrue,
      NonceSingleUse, KeyHeld
<1>16. QED
  BY <1>1, <1>2, <1>3, <1>4, <1>5, <1>6, <1>7, <1>8, <1>9, <1>10, <1>11,
     <1>12, <1>13, <1>14, <1>15, InsertSignerStep, CommitStep,
     CreateSignerStep, ConsumeNonceStep, IssueJWTStep
  DEF Next, Step, StepFails, Finished

-----------------------------------------------------------------------------
(* The safety properties of Auth.                                          *)

LEMMA Invariance == Spec => []IInv
  BY InitIInv, NextIInv, PTL DEF Spec

\* Every variable keeps its type.
THEOREM TypeCorrect == Spec => []TypeOK
<1>1. IInv => TypeOK
  BY DEF IInv
<1>2. QED BY Invariance, <1>1, PTL

\* No two requests get past GetDel with the same nonce.
THEOREM NonceSingleUseHolds == Spec => []NonceSingleUse
<1>1. IInv => NonceSingleUse
  BY DEF IInv, NonceInv
<1>2. QED BY Invariance, <1>1, PTL

\* A merchant, its config and its founding signer exist together or not at all.
THEOREM AccountsWholeHolds == Spec => []AccountsWhole
<1>1. IInv => AccountsWhole
  BY DEF IInv
<1>2. QED BY Invariance, <1>1, PTL

\* Every session token names the merchant its wallet belongs to.
THEOREM TokensNameOwnerHolds == Spec => []TokensNameOwner
<1>1. IInv => TokensNameOwner
  BY DEF IInv
<1>2. QED BY Invariance, <1>1, PTL

\* Every status sent describes the database.
THEOREM RepliesAreTrueHolds == Spec => []RepliesAreTrue
<1>1. IInv => RepliesAreTrue
  BY DEF IInv
<1>2. QED BY Invariance, <1>1, PTL

-----------------------------------------------------------------------------
(* Auth implements Accounts: a commit or the INSERT of Link is where a     *)
(* wallet gets its merchant, and every other step of a handler stutters.   *)

LEMMA KnownMerchants ==
    ASSUME IInv
    PROVE  AbstractAccounts!Known = merchants
<1>1. \A m \in merchants : msg[m].wallet \in Wallets /\ m # None
  BY DEF IInv, TypeOK, HandlerInv, Messages
<1>2. QED
  BY <1>1 DEF IInv, TypeOK, AccountsWhole, AbstractAccounts!Known

LEMMA CommitRegisters ==
    ASSUME IInv, NEW r \in Requests, At(r, "commit"), Publish(r),
           UNCHANGED tokens
    PROVE  AbstractAccounts!Register(msg[r].wallet) /\ msg[r].wallet \in Wallets
<1>1. /\ signer' = [signer EXCEPT ![msg[r].wallet] = r]
      /\ msg[r] \in Messages /\ signer[msg[r].wallet] = None
      /\ r \notin merchants
  BY PublishStep
<1>2. QED BY <1>1, KnownMerchants DEF Messages, AbstractAccounts!Register

LEMMA LinkAttaches ==
    ASSUME IInv, NEW r \in Requests, At(r, "linkSigner"), ~ KeyTaken(r),
           signer' = [signer EXCEPT ![msg[r].wallet] = merchantOf[r]],
           UNCHANGED tokens
    PROVE  AbstractAccounts!Attach(msg[r].wallet) /\ msg[r].wallet \in Wallets
<1>1. merchantOf[r] \in merchants /\ msg[r] \in Messages
  BY DEF IInv, HandlerInv
<1>2. QED
  BY <1>1, KnownMerchants DEF KeyTaken, Messages, AbstractAccounts!Attach

LEMMA IssueLogsIn ==
    ASSUME IInv, NEW r \in Requests, IssueJWT(r)
    PROVE  AbstractAccounts!LogIn(msg[r].wallet) /\ msg[r].wallet \in Wallets
<1>1. /\ msg[r] \in Messages /\ merchantOf[r] # None
      /\ signer[msg[r].wallet] = merchantOf[r]
  BY DEF IssueJWT, IInv, HandlerInv
<1>2. QED BY <1>1 DEF IssueJWT, Messages, AbstractAccounts!LogIn

LEMMA StepImplements ==
    ASSUME IInv, [Next]_vars
    PROVE  [AbstractAccounts!Next]_AbstractAccounts!vars
<1> USE DEF AbstractAccounts!Next, AbstractAccounts!vars
<1>1. ASSUME NEW n \in Nonces, IssueNonce(n) \/ NonceExpires(n)
      PROVE  UNCHANGED AbstractAccounts!vars
  BY <1>1 DEF IssueNonce, NonceExpires
<1>2. ASSUME NEW t \in tokens, TokenExpires(t)
      PROVE  AbstractAccounts!Next
  BY <1>2 DEF TokenExpires, AbstractAccounts!Expire
<1>3. ASSUME NEW r \in Requests, NEW m \in Sendable, Send(r, m)
      PROVE  UNCHANGED AbstractAccounts!vars
  BY <1>3 DEF Send
<1>4. ASSUME NEW r \in Requests, Step(r)
      PROVE  [AbstractAccounts!Next]_AbstractAccounts!vars
  <2>1. CASE Commit(r)
    BY <2>1, CommitRegisters DEF Commit
  <2>2. CASE CreateSigner(r)
    BY <2>2, LinkAttaches DEF CreateSigner
  <2>3. CASE IssueJWT(r)
    BY <2>3, IssueLogsIn
  <2>4. CASE ~ (Commit(r) \/ CreateSigner(r) \/ IssueJWT(r))
    BY <1>4, <2>4
    DEF Step, RequireSession, RejectMessage, ConsumeNonce, FindSigner,
        InsertMerchant, InsertConfig, InsertSigner
  <2>5. QED BY <2>1, <2>2, <2>3, <2>4
<1>5. ASSUME NEW r \in Requests, StepFails(r)
      PROVE  [AbstractAccounts!Next]_AbstractAccounts!vars
  <2>1. CASE CommitFails(r)
    BY <2>1, CommitRegisters DEF CommitFails
  <2>2. CASE CreateSignerFails(r)
    BY <2>2, LinkAttaches DEF CreateSignerFails
  <2>3. CASE ~ (CommitFails(r) \/ CreateSignerFails(r))
    BY <1>5, <2>3
    DEF StepFails, SessionLookupFails, GetDelFails, FindSignerFails, InsertFails
  <2>4. QED BY <2>1, <2>2, <2>3
<1>6. CASE Crash
  BY <1>6 DEF Crash
<1>7. CASE UNCHANGED vars
  BY <1>7
<1>8. QED
  BY <1>1, <1>2, <1>3, <1>4, <1>5, <1>6, <1>7 DEF Next, Finished

\* The handlers implement the abstract accounts: whatever the interleaving,
\* failures and crashes, wallets are registered, attached and logged in as
\* Accounts says.
THEOREM Implementation == Spec => ImplementsAccounts
<1>1. Init => AbstractAccounts!Init
  BY DEF Init, AbstractAccounts!Init
<1>2. IInv /\ [Next]_vars => [AbstractAccounts!Next]_AbstractAccounts!vars
  BY StepImplements
<1>3. QED
  BY Invariance, <1>1, <1>2, PTL
  DEF Spec, ImplementsAccounts, AbstractAccounts!Spec
=============================================================================
