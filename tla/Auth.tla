-------------------------------- MODULE Auth --------------------------------
(***************************************************************************)
(* Wallet authentication (internal/api/handler/auth.go): nonces, Verify    *)
(* (log in, founding a merchant at the first log-in) and Link (attach one  *)
(* more wallet to the merchant of the session).  Requests are handled      *)
(* concurrently, each by its own goroutine; a step is one call to Redis,   *)
(* one SQL statement, or the local code between two such calls.  Postgres  *)
(* runs READ COMMITTED: reads see committed rows, and an INSERT of a key   *)
(* held by an open transaction waits for that transaction.                 *)
(*                                                                         *)
(* A request mints at most one merchant id (xid, unique), so the id is     *)
(* represented by the request that mints it.                               *)
(***************************************************************************)
EXTENDS Integers, FiniteSets

CONSTANTS
    Requests,    \* POST /auth/verify and POST /auth/link requests
    Wallets,     \* wallet addresses
    Nonces,      \* nonces GetNonce may mint
    None,        \* no merchant, no token, no message
    MaxFaults,   \* bound: failed calls to Redis or Postgres
    MaxCrashes   \* bound: crashes of the process

ASSUME AuthAssumption ==
    /\ None \notin Requests
    /\ MaxFaults \in Nat
    /\ MaxCrashes \in Nat

VARIABLES
    nonce,       \* Redis: "unused" (not yet minted), "live", "dead"
    merchants,   \* committed rows of merchants
    configs,     \* merchants with a committed row in merchant_configs
    signer,      \* committed rows of signers: wallet -> merchant (UNIQUE address)
    tx,          \* rows a request has inserted in its open transaction
    tokens,      \* unexpired session tokens ever signed: [merchant, address]
    pc,          \* where the handler of a request is
    msg,         \* what the client sent
    merchantOf,  \* the merchant the handler works for
    reply,       \* HTTP status sent, 0 before
    admitted,    \* history: requests whose GetDel returned the nonce
    faults, crashes

cache == <<nonce, admitted>>
database == <<merchants, configs, signer>>
request == <<pc, reply, merchantOf>>
budget == <<faults, crashes>>
vars == <<cache, database, tx, tokens, request, msg, budget>>

-----------------------------------------------------------------------------
Tokens == [merchant : Requests, address : Wallets]

Messages ==
    [op : {"verify", "link"}, wallet : Wallets, nonce : Nonces,
     form : {"valid", "malformed", "forged"}, bearer : Tokens \cup {None}]

InTransaction == {"insMerchant", "insConfig", "insSigner", "commit"}
Stopped == {"done", "lost"}
Running ==
    {"session", "nonce", "find", "linkSigner", "issue"} \cup InTransaction

Init ==
    /\ nonce = [n \in Nonces |-> "unused"]
    /\ merchants = {} /\ configs = {}
    /\ signer = [w \in Wallets |-> None]
    /\ tx = [r \in Requests |-> {}]
    /\ tokens = {}
    /\ pc = [r \in Requests |-> "idle"]
    /\ msg = [r \in Requests |-> None]
    /\ merchantOf = [r \in Requests |-> None]
    /\ reply = [r \in Requests |-> 0]
    /\ admitted = {}
    /\ faults = 0 /\ crashes = 0

-----------------------------------------------------------------------------
(* Control flow of a handler.                                              *)

At(r, label) == pc[r] = label

Goto(r, label) ==
    /\ pc' = [pc EXCEPT ![r] = label]
    /\ UNCHANGED reply

Answer(r, status) ==
    /\ pc' = [pc EXCEPT ![r] = "done"]
    /\ reply' = [reply EXCEPT ![r] = status]

\* A call fails: the request context is cancelled, or the server is down.
Fault ==
    /\ faults < MaxFaults
    /\ faults' = faults + 1
    /\ UNCHANGED crashes

-----------------------------------------------------------------------------
(* Nonces and tokens.                                                      *)

\* GET /auth/nonce.  (When the Set fails no nonce reaches the client.)
IssueNonce(n) ==
    /\ nonce[n] = "unused"
    /\ nonce' = [nonce EXCEPT ![n] = "live"]
    /\ UNCHANGED <<admitted, database, tx, tokens, request, msg, budget>>

\* Redis drops the key after nonceTTL.
NonceExpires(n) ==
    /\ nonce[n] = "live"
    /\ nonce' = [nonce EXCEPT ![n] = "dead"]
    /\ UNCHANGED <<admitted, database, tx, tokens, request, msg, budget>>

\* The exp claim of a token passes.
TokenExpires(t) ==
    /\ t \in tokens
    /\ tokens' = tokens \ {t}
    /\ UNCHANGED <<cache, database, tx, request, msg, budget>>

\* The client sends a request; it may reuse a nonce, or sign with any wallet
\* that is its own.  A bearer token is one it was given before.
Send(r, m) ==
    /\ At(r, "idle")
    /\ msg' = [msg EXCEPT ![r] = m]
    /\ Goto(r, IF m.op = "link" THEN "session" ELSE "nonce")
    /\ UNCHANGED <<cache, database, tx, tokens, merchantOf, budget>>

\* requireSession: the token parses, has not expired, and its merchant exists.
RequireSession(r) ==
    /\ At(r, "session")
    /\ LET t == msg[r].bearer
       IN  IF t \in tokens /\ t.merchant \in merchants
           THEN /\ merchantOf' = [merchantOf EXCEPT ![r] = t.merchant]
                /\ Goto(r, "nonce")
           ELSE /\ Answer(r, 401)
                /\ UNCHANGED merchantOf
    /\ UNCHANGED <<cache, database, tx, tokens, msg, budget>>

\* The body does not bind, or neither SIWE nor SIWS verifies: the nonce stays.
RejectMessage(r) ==
    /\ At(r, "nonce")
    /\ msg[r].form # "valid"
    /\ Answer(r, IF msg[r].form = "malformed" THEN 400 ELSE 401)
    /\ UNCHANGED <<cache, database, tx, tokens, merchantOf, msg, budget>>

\* Mutant of GetDel: a plain GET.
GetOnly(n) == UNCHANGED nonce

\* Cache.GetDel: one Redis command reads the nonce and deletes it.
GetDel(n) == nonce' = [nonce EXCEPT ![n] = "dead"]

ConsumeNonce(r) ==
    /\ At(r, "nonce")
    /\ msg[r].form = "valid"
    /\ IF nonce[msg[r].nonce] = "live"
       THEN /\ GetDel(msg[r].nonce)
            /\ admitted' = admitted \cup {r}
            /\ Goto(r, "find")
       ELSE /\ Answer(r, 401)
            /\ UNCHANGED cache
    /\ UNCHANGED <<database, tx, tokens, merchantOf, msg, budget>>

-----------------------------------------------------------------------------
(* The signers table.                                                      *)

\* FindSignerByAddress, and what Verify or Link does with the answer.
FindSigner(r) ==
    LET owner == signer[msg[r].wallet]
    IN  /\ At(r, "find")
        /\ \/ /\ msg[r].op = "verify" /\ owner = None
              /\ Goto(r, "insMerchant")
              /\ UNCHANGED merchantOf
           \/ /\ msg[r].op = "verify" /\ owner # None
              /\ merchantOf' = [merchantOf EXCEPT ![r] = owner]
              /\ Goto(r, "issue")
           \/ /\ msg[r].op = "link" /\ owner = None
              /\ Goto(r, "linkSigner")
              /\ UNCHANGED merchantOf
           \/ /\ msg[r].op = "link" /\ owner # None
              /\ Answer(r, 409)
              /\ UNCHANGED merchantOf
        /\ UNCHANGED <<cache, database, tx, tokens, msg, budget>>

\* The open transaction of another request holds the key of r's wallet.
KeyHeld(r) ==
    \E q \in Requests \ {r} :
        "signer" \in tx[q] /\ msg[q].wallet = msg[r].wallet

\* The UNIQUE constraint on signers.address would be violated.
KeyTaken(r) == signer[msg[r].wallet] # None

Rollback(r) == tx' = [tx EXCEPT ![r] = {}]

InsertMerchant(r) ==
    /\ At(r, "insMerchant")
    /\ tx' = [tx EXCEPT ![r] = {"merchant"}]
    /\ Goto(r, "insConfig")
    /\ UNCHANGED <<cache, database, tokens, merchantOf, msg, budget>>

InsertConfig(r) ==
    /\ At(r, "insConfig")
    /\ tx' = [tx EXCEPT ![r] = @ \cup {"config"}]
    /\ Goto(r, "insSigner")
    /\ UNCHANGED <<cache, database, tokens, merchantOf, msg, budget>>

\* Mutant of InsertSigner: a conflict starts the transaction over.
InsertSignerRetried(r) ==
    /\ At(r, "insSigner")
    /\ ~ KeyHeld(r)
    /\ IF KeyTaken(r)
       THEN Rollback(r) /\ Goto(r, "insMerchant")
       ELSE /\ tx' = [tx EXCEPT ![r] = @ \cup {"signer"}]
            /\ Goto(r, "commit")
    /\ UNCHANGED <<cache, database, tokens, merchantOf, msg, budget>>

InsertSigner(r) ==
    /\ At(r, "insSigner")
    /\ ~ KeyHeld(r)
    /\ IF KeyTaken(r)
       THEN Rollback(r) /\ Answer(r, 500)
       ELSE /\ tx' = [tx EXCEPT ![r] = @ \cup {"signer"}]
            /\ Goto(r, "commit")
    /\ UNCHANGED <<cache, database, tokens, merchantOf, msg, budget>>

\* The rows of r's transaction become visible together.
Publish(r) ==
    /\ merchants' = IF "merchant" \in tx[r] THEN merchants \cup {r} ELSE merchants
    /\ configs' = IF "config" \in tx[r] THEN configs \cup {r} ELSE configs
    /\ signer' = IF "signer" \in tx[r]
                 THEN [signer EXCEPT ![msg[r].wallet] = r] ELSE signer
    /\ tx' = [tx EXCEPT ![r] = {}]

\* Mutant of Commit: the new merchant is not handed to issueJWT.
CommitUnassigned(r) ==
    /\ At(r, "commit")
    /\ Publish(r)
    /\ Goto(r, "issue")
    /\ UNCHANGED <<cache, tokens, merchantOf, msg, budget>>

Commit(r) ==
    /\ At(r, "commit")
    /\ Publish(r)
    /\ merchantOf' = [merchantOf EXCEPT ![r] = r]
    /\ Goto(r, "issue")
    /\ UNCHANGED <<cache, tokens, msg, budget>>

\* CreateSigner of Link: a single autocommitted INSERT.
CreateSigner(r) ==
    /\ At(r, "linkSigner")
    /\ ~ KeyHeld(r)
    /\ IF KeyTaken(r)
       THEN Answer(r, 500) /\ UNCHANGED signer
       ELSE /\ signer' = [signer EXCEPT ![msg[r].wallet] = merchantOf[r]]
            /\ Answer(r, 201)
    /\ UNCHANGED <<cache, merchants, configs, tx, tokens, merchantOf, msg, budget>>

\* issueJWT: 201 to the founder of a merchant, 200 to a returning wallet.
IssueJWT(r) ==
    /\ At(r, "issue")
    /\ tokens' = tokens \cup
            {[merchant |-> merchantOf[r], address |-> msg[r].wallet]}
    /\ Answer(r, IF merchantOf[r] = r THEN 201 ELSE 200)
    /\ UNCHANGED <<cache, database, tx, merchantOf, msg, budget>>

-----------------------------------------------------------------------------
(* Calls that fail, and crashes.                                           *)

\* requireSession reports every error of FindMerchantByID as 401.
SessionLookupFails(r) ==
    /\ At(r, "session") /\ msg[r].bearer \in tokens
    /\ Fault
    /\ Answer(r, 401)
    /\ UNCHANGED <<cache, database, tx, tokens, merchantOf, msg>>

\* Mutant of GetDelFails: only a missing nonce is refused.
GetDelErrorIgnored(r) ==
    /\ At(r, "nonce") /\ msg[r].form = "valid"
    /\ Fault
    /\ Goto(r, "find")
    /\ UNCHANGED <<cache, database, tx, tokens, merchantOf, msg>>

\* Every error of GetDel is 401; Redis may have run the command.
GetDelFails(r) ==
    /\ At(r, "nonce") /\ msg[r].form = "valid"
    /\ Fault
    /\ Answer(r, 401)
    /\ \/ nonce[msg[r].nonce] = "live" /\ GetDel(msg[r].nonce)
       \/ UNCHANGED nonce
    /\ UNCHANGED <<admitted, database, tx, tokens, merchantOf, msg>>

\* Verify answers 500; Link takes any error for "no such signer" and goes on.
FindSignerFails(r) ==
    /\ At(r, "find")
    /\ Fault
    /\ IF msg[r].op = "verify" THEN Answer(r, 500) ELSE Goto(r, "linkSigner")
    /\ UNCHANGED <<cache, database, tx, tokens, merchantOf, msg>>

\* Mutant of InsertFails: the INSERTs do not share a transaction.
InsertFailsAlone(r) ==
    /\ pc[r] \in {"insMerchant", "insConfig", "insSigner"}
    /\ Fault
    /\ Publish(r)
    /\ Answer(r, 500)
    /\ UNCHANGED <<cache, tokens, merchantOf, msg>>

\* BEGIN or an INSERT fails: RunInTx rolls back.
InsertFails(r) ==
    /\ pc[r] \in {"insMerchant", "insConfig", "insSigner"}
    /\ Fault
    /\ Rollback(r)
    /\ Answer(r, 500)
    /\ UNCHANGED <<cache, database, tokens, merchantOf, msg>>

\* Mutant of CommitFails: the error of COMMIT is not looked at.
CommitErrorIgnored(r) ==
    /\ At(r, "commit")
    /\ Fault
    /\ Publish(r) \/ (Rollback(r) /\ UNCHANGED database)
    /\ merchantOf' = [merchantOf EXCEPT ![r] = r]
    /\ Goto(r, "issue")
    /\ UNCHANGED <<cache, tokens, msg>>

\* COMMIT reports an error, and Postgres may have committed or not.
CommitFails(r) ==
    /\ At(r, "commit")
    /\ Fault
    /\ Publish(r) \/ (Rollback(r) /\ UNCHANGED database)
    /\ Answer(r, 500)
    /\ UNCHANGED <<cache, tokens, merchantOf, msg>>

\* The INSERT of Link reports an error, and may have taken effect or not.
CreateSignerFails(r) ==
    /\ At(r, "linkSigner")
    /\ Fault
    /\ \/ /\ ~ KeyHeld(r) /\ ~ KeyTaken(r)
          /\ signer' = [signer EXCEPT ![msg[r].wallet] = merchantOf[r]]
       \/ UNCHANGED signer
    /\ Answer(r, 500)
    /\ UNCHANGED <<cache, merchants, configs, tx, tokens, merchantOf, msg>>

\* The process dies and is started again: requests in flight get no answer and
\* Postgres rolls their transactions back.  Redis and Postgres live on.
Crash ==
    /\ crashes < MaxCrashes
    /\ \E r \in Requests : pc[r] \in Running
    /\ crashes' = crashes + 1
    /\ pc' = [r \in Requests |-> IF pc[r] \in Running THEN "lost" ELSE pc[r]]
    /\ tx' = [r \in Requests |-> {}]
    /\ UNCHANGED <<cache, database, tokens, reply, merchantOf, msg, faults>>

-----------------------------------------------------------------------------
Step(r) ==
    \/ RequireSession(r) \/ RejectMessage(r) \/ ConsumeNonce(r)
    \/ FindSigner(r)
    \/ InsertMerchant(r) \/ InsertConfig(r) \/ InsertSigner(r) \/ Commit(r)
    \/ CreateSigner(r)
    \/ IssueJWT(r)

StepFails(r) ==
    \/ SessionLookupFails(r) \/ GetDelFails(r) \/ FindSignerFails(r)
    \/ InsertFails(r) \/ CommitFails(r) \/ CreateSignerFails(r)

\* Sends worth enumerating: Verify ignores the Authorization header, and a
\* client presents a token it holds, or none.
Sendable ==
    {m \in [op : {"verify", "link"}, wallet : Wallets, nonce : Nonces,
            form : {"valid", "malformed", "forged"}, bearer : tokens \cup {None}] :
        m.op = "verify" => m.bearer = None}

\* Every request has been answered or lost: nothing is left to do.
Finished ==
    /\ \A r \in Requests : pc[r] \in Stopped
    /\ UNCHANGED vars

Next ==
    \/ \E n \in Nonces : IssueNonce(n) \/ NonceExpires(n)
    \/ \E t \in tokens : TokenExpires(t)
    \/ \E r \in Requests : \/ \E m \in Sendable : Send(r, m)
                           \/ Step(r)
                           \/ StepFails(r)
    \/ Crash
    \/ Finished

Spec == Init /\ [][Next]_vars

\* The Go scheduler runs every handler, and calls to Redis and Postgres return.
FairSpec == Spec /\ \A r \in Requests : WF_vars(Step(r))

-----------------------------------------------------------------------------
(* Properties.                                                             *)

TypeOK ==
    /\ nonce \in [Nonces -> {"unused", "live", "dead"}]
    /\ merchants \subseteq Requests
    /\ configs \subseteq Requests
    /\ signer \in [Wallets -> Requests \cup {None}]
    /\ tx \in [Requests -> SUBSET {"merchant", "config", "signer"}]
    /\ tokens \subseteq Tokens
    /\ pc \in [Requests -> {"idle"} \cup Running \cup Stopped]
    /\ msg \in [Requests -> Messages \cup {None}]
    /\ merchantOf \in [Requests -> Requests \cup {None}]
    /\ reply \in [Requests -> {0, 200, 201, 400, 401, 409, 500}]
    /\ admitted \subseteq Requests
    /\ faults \in 0..MaxFaults
    /\ crashes \in 0..MaxCrashes

\* A signed message logs in or links once: no two requests that carry the same
\* nonce both pass GetDel, however they interleave, fail or are retried
\* (auth_test.go "nonce is consumed after use").
NonceSingleUse ==
    \A r, q \in admitted : msg[r].nonce = msg[q].nonce => r = q

\* A first log-in creates the merchant, its config and its signer together or
\* not at all, and the founding wallet stays with the merchant it founded:
\* two first log-ins of one wallet never leave two merchants, and no failure or
\* crash inside CreateMerchantWithConfig leaves a merchant nobody can enter.
AccountsWhole ==
    /\ configs = merchants
    /\ \A m \in merchants : msg[m].op = "verify" /\ signer[msg[m].wallet] = m
    /\ \A w \in Wallets : signer[w] \in merchants \cup {None}

\* A session token speaks for the merchant its wallet belongs to: what Verify
\* read before it signed the token is still so after any later Link or Verify.
TokensNameOwner ==
    \A t \in tokens : signer[t.address] = t.merchant

\* The status a client is sent describes the database, now and ever after:
\* 200 and 201 promise that the wallet belongs to the merchant of the reply,
\* 409 that it belongs to some merchant; a merchant exists only if the request
\* that mints it had its nonce accepted.
RepliesAreTrue ==
    /\ \A r \in Requests :
        /\ reply[r] \in {200, 201} =>
               merchantOf[r] # None /\ signer[msg[r].wallet] = merchantOf[r]
        /\ reply[r] = 409 => signer[msg[r].wallet] # None
        /\ reply[r] \in {400, 401} => r \notin merchants
    /\ merchants \subseteq admitted

\* Every request that arrives is answered, or lost in a crash: nobody waits for
\* ever on a key that a finished, failed or crashed request held.
Answered ==
    \A r \in Requests : pc[r] # "idle" ~> pc[r] \in Stopped

\* The detailed handlers implement the abstract accounts.
AbstractAccounts ==
    INSTANCE Accounts WITH
        MerchantIDs <- Requests, owner <- signer, sessions <- tokens

ImplementsAccounts == AbstractAccounts!Spec

\* auth.go @Failure 400/401/409 list every way Link fails, auth_test.go "cannot
\* link already-linked wallet" expects 409: with Redis and Postgres healthy a
\* Link is never answered 500.
LinkFailsAsDocumented ==
    faults = 0 => \A r \in Requests :
        reply[r] = 500 => msg[r].op # "link"
=============================================================================
