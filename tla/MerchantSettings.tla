-------------------------- MODULE MerchantSettings --------------------------
(***************************************************************************)
(* A merchant's own settings (internal/api/handler/merchant.go over        *)
(* internal/datastore/merchant.go).  UpdateMe writes a row of merchants    *)
(* and a row of merchant_configs in one transaction and then reads the     *)
(* merchant again outside of it; RotateKey and RotateWebhookSecret are     *)
(* single UPDATEs of the same merchant_configs row; GetMe is authenticated *)
(* by a secret key, which is looked up by its hash.                        *)
(*                                                                         *)
(* Values are represented by the request that wrote them: the name and the *)
(* webhook URL an UpdateMe sent, the key or the secret a rotation minted.  *)
(* None is the value the merchant was created with.                        *)
(***************************************************************************)
EXTENDS Integers

CONSTANTS
    Requests,
    Merchants,
    None,
    MaxFaults,   \* bound: failed calls to Postgres
    MaxCrashes   \* bound: crashes of the process

ASSUME SettingsAssumption ==
    /\ None \notin Requests
    /\ MaxFaults \in Nat /\ MaxCrashes \in Nat

VARIABLES
    name,            \* merchants.name
    webhookURL,      \* merchant_configs.webhook_url
    secretKey,       \* merchant_configs.secret_key_hash
    webhookSecret,   \* merchant_configs.webhook_secret
    tx,              \* tables of which r's open transaction has updated the row
    pc, msg, reply,
    merchant,        \* the merchant a middleware put into the request context
    body,            \* the name and URL r has read
    faults, crashes

settings == <<name, webhookURL>>
secrets == <<secretKey, webhookSecret>>
request == <<pc, reply>>
budget == <<faults, crashes>>
vars == <<settings, secrets, tx, request, msg, merchant, body, budget>>

-----------------------------------------------------------------------------
Values == Requests \cup {None}

\* What clients send.  A key is one a rotation minted, or None: an unknown one.
SessionMessages ==
    [op : {"update", "rotateKey", "rotateWebhookSecret"},
     merchant : Merchants, form : {"valid", "malformed"}]
KeyMessages == [op : {"getMe"}, key : Values]

Tables == {"merchants", "merchant_configs"}
Running ==
    {"session", "key", "updMerchant", "updConfig", "commit", "fetch", "rotate"}
Stopped == {"done", "lost"}

Init ==
    /\ name = [m \in Merchants |-> None]
    /\ webhookURL = [m \in Merchants |-> None]
    /\ secretKey = [m \in Merchants |-> None]
    /\ webhookSecret = [m \in Merchants |-> None]
    /\ tx = [r \in Requests |-> {}]
    /\ pc = [r \in Requests |-> "idle"]
    /\ msg = [r \in Requests |-> None]
    /\ reply = [r \in Requests |-> 0]
    /\ merchant = [r \in Requests |-> None]
    /\ body = [r \in Requests |-> None]
    /\ faults = 0 /\ crashes = 0

-----------------------------------------------------------------------------
At(r, label) == pc[r] = label

Goto(r, label) ==
    /\ pc' = [pc EXCEPT ![r] = label]
    /\ UNCHANGED reply

Answer(r, status) ==
    /\ pc' = [pc EXCEPT ![r] = "done"]
    /\ reply' = [reply EXCEPT ![r] = status]

\* A call to Postgres fails: the request is cancelled, or the server is down.
Fault ==
    /\ faults < MaxFaults
    /\ faults' = faults + 1
    /\ UNCHANGED crashes

\* One SELECT joins a merchant with its config.
FindMerchant(r, m) ==
    body' = [body EXCEPT ![r] = [name |-> name[m], webhookURL |-> webhookURL[m]]]

-----------------------------------------------------------------------------
(* Requests and their authentication.                                      *)

Send(r, m) ==
    /\ At(r, "idle")
    /\ msg' = [msg EXCEPT ![r] = m]
    /\ Goto(r, IF m.op = "getMe" THEN "key" ELSE "session")
    /\ UNCHANGED <<settings, secrets, tx, merchant, body, budget>>

\* requireSession finds the merchant of the token; the handler binds the body
\* (the rotations have none).
RequireSession(r) ==
    /\ At(r, "session")
    /\ merchant' = [merchant EXCEPT ![r] = msg[r].merchant]
    /\ \/ msg[r].op # "update" /\ Goto(r, "rotate")
       \/ msg[r].op = "update" /\ msg[r].form = "malformed" /\ Answer(r, 400)
       \/ msg[r].op = "update" /\ msg[r].form = "valid" /\ Goto(r, "updMerchant")
    /\ UNCHANGED <<settings, secrets, tx, msg, body, budget>>

\* requireSecretKey, then GetMe answers with what the lookup has read.  A
\* merchant that has never rotated its key has none.
RequireSecretKey(r) ==
    LET hits == {m \in Merchants : secretKey[m] = msg[r].key /\ msg[r].key # None}
    IN  /\ At(r, "key")
        /\ \/ /\ hits = {}
              /\ Answer(r, 401)
              /\ UNCHANGED <<merchant, body>>
           \/ \E m \in hits :
              /\ merchant' = [merchant EXCEPT ![r] = m]
              /\ FindMerchant(r, m)
              /\ Answer(r, 200)
        /\ UNCHANGED <<settings, secrets, tx, msg, budget>>

-----------------------------------------------------------------------------
(* UpdateMe.                                                               *)

\* An open transaction of another request has updated the merchant's row.
RowHeld(r, table) ==
    \E q \in Requests \ {r} : table \in tx[q] /\ merchant[q] = merchant[r]

\* Mutant of UpdateMerchantRow: the UPDATE commits on its own.
UpdateMerchantRowAlone(r) ==
    /\ At(r, "updMerchant")
    /\ ~ RowHeld(r, "merchants")
    /\ name' = [name EXCEPT ![merchant[r]] = r]
    /\ Goto(r, "updConfig")
    /\ UNCHANGED <<webhookURL, secrets, tx, msg, merchant, body, budget>>

UpdateMerchantRow(r) ==
    /\ At(r, "updMerchant")
    /\ ~ RowHeld(r, "merchants")
    /\ tx' = [tx EXCEPT ![r] = {"merchants"}]
    /\ Goto(r, "updConfig")
    /\ UNCHANGED <<settings, secrets, msg, merchant, body, budget>>

UpdateConfigRow(r) ==
    /\ At(r, "updConfig")
    /\ ~ RowHeld(r, "merchant_configs")
    /\ tx' = [tx EXCEPT ![r] = @ \cup {"merchant_configs"}]
    /\ Goto(r, "commit")
    /\ UNCHANGED <<settings, secrets, msg, merchant, body, budget>>

\* Mutant of Rollback: the transaction is left open.
RollbackForgotten(r) == UNCHANGED tx

Rollback(r) == tx' = [tx EXCEPT ![r] = {}]

\* The columns the transaction has set become visible together.
Publish(r) ==
    /\ name' = IF "merchants" \in tx[r]
               THEN [name EXCEPT ![merchant[r]] = r] ELSE name
    /\ webhookURL' = IF "merchant_configs" \in tx[r]
                     THEN [webhookURL EXCEPT ![merchant[r]] = r] ELSE webhookURL
    /\ tx' = [tx EXCEPT ![r] = {}]

\* Mutant of CommitUpdate: the UPDATE sets every column of the config row.
CommitWholeRow(r) ==
    /\ At(r, "commit")
    /\ Publish(r)
    /\ secretKey' = [secretKey EXCEPT ![merchant[r]] = None]
    /\ Goto(r, "fetch")
    /\ UNCHANGED <<webhookSecret, msg, merchant, body, budget>>

CommitUpdate(r) ==
    /\ At(r, "commit")
    /\ Publish(r)
    /\ Goto(r, "fetch")
    /\ UNCHANGED <<secrets, msg, merchant, body, budget>>

\* The response shows the merchant as it is by then.
FetchMerchant(r) ==
    /\ At(r, "fetch")
    /\ FindMerchant(r, merchant[r])
    /\ Answer(r, 200)
    /\ UNCHANGED <<settings, secrets, tx, msg, merchant, budget>>

-----------------------------------------------------------------------------
(* Rotations.                                                              *)

\* Mutant of WriteSecret: the UPDATE has no WHERE clause.
WriteSecretEverywhere(r) ==
    /\ secretKey' = [m \in Merchants |->
                       IF msg[r].op = "rotateKey" THEN r ELSE secretKey[m]]
    /\ webhookSecret' = [m \in Merchants |->
          IF msg[r].op = "rotateWebhookSecret" THEN r ELSE webhookSecret[m]]

\* Mutant of WriteSecret: the arguments of UpdateWebhookSecret are swapped.
WriteSecretSwapped(r) ==
    /\ secretKey' = IF msg[r].op = "rotateKey"
                    THEN [secretKey EXCEPT ![merchant[r]] = r] ELSE secretKey
    /\ webhookSecret' = IF msg[r].op = "rotateWebhookSecret"
                        THEN [webhookSecret EXCEPT ![merchant[r]] = merchant[r]]
                        ELSE webhookSecret

\* UpdateSecretKeyHash or UpdateWebhookSecret: one column of the config row.
WriteSecret(r) ==
    /\ secretKey' = IF msg[r].op = "rotateKey"
                    THEN [secretKey EXCEPT ![merchant[r]] = r] ELSE secretKey
    /\ webhookSecret' = IF msg[r].op = "rotateWebhookSecret"
                        THEN [webhookSecret EXCEPT ![merchant[r]] = r]
                        ELSE webhookSecret

Rotate(r) ==
    /\ At(r, "rotate")
    /\ ~ RowHeld(r, "merchant_configs")
    /\ WriteSecret(r)
    /\ Answer(r, 200)
    /\ UNCHANGED <<settings, tx, msg, merchant, body, budget>>

-----------------------------------------------------------------------------
(* Calls that fail, and crashes.                                           *)

\* Both middlewares report every error of their lookup as 401.
LookupFails(r) ==
    /\ pc[r] \in {"session", "key"}
    /\ Fault
    /\ Answer(r, 401)
    /\ UNCHANGED <<settings, secrets, tx, msg, merchant, body>>

\* BEGIN or an UPDATE fails: RunInTx rolls back.  Or the update has been
\* committed and the SELECT after it fails.
UpdateFails(r) ==
    /\ pc[r] \in {"updMerchant", "updConfig", "fetch"}
    /\ Fault
    /\ Rollback(r)
    /\ Answer(r, 500)
    /\ UNCHANGED <<settings, secrets, msg, merchant, body>>

\* COMMIT reports an error, and Postgres may have committed or not.
CommitFails(r) ==
    /\ At(r, "commit")
    /\ Fault
    /\ Publish(r) \/ (Rollback(r) /\ UNCHANGED settings)
    /\ Answer(r, 500)
    /\ UNCHANGED <<secrets, msg, merchant, body>>

\* The UPDATE reports an error, and may have taken effect or not.
RotateFails(r) ==
    /\ At(r, "rotate")
    /\ Fault
    /\ (~ RowHeld(r, "merchant_configs") /\ WriteSecret(r)) \/ UNCHANGED secrets
    /\ Answer(r, 500)
    /\ UNCHANGED <<settings, tx, msg, merchant, body>>

\* The process dies: requests in flight get no answer, Postgres rolls back.
Crash ==
    /\ crashes < MaxCrashes
    /\ \E r \in Requests : pc[r] \in Running
    /\ crashes' = crashes + 1
    /\ pc' = [r \in Requests |-> IF pc[r] \in Running THEN "lost" ELSE pc[r]]
    /\ tx' = [r \in Requests |-> {}]
    /\ UNCHANGED <<settings, secrets, reply, msg, merchant, body, faults>>

-----------------------------------------------------------------------------
Step(r) ==
    \/ RequireSession(r) \/ RequireSecretKey(r)
    \/ UpdateMerchantRow(r) \/ UpdateConfigRow(r) \/ CommitUpdate(r)
    \/ FetchMerchant(r)
    \/ Rotate(r)

StepFails(r) ==
    LookupFails(r) \/ UpdateFails(r) \/ CommitFails(r) \/ RotateFails(r)

\* A client holds the keys rotations have answered it with.
Sendable ==
    {m \in SessionMessages \cup KeyMessages :
        /\ m.op \in {"rotateKey", "rotateWebhookSecret"} => m.form = "valid"
        /\ m.op = "getMe" /\ m.key # None
               => reply[m.key] = 200 /\ msg[m.key].op = "rotateKey"}

\* Every request has been answered or lost: nothing is left to do.
Finished ==
    /\ \A r \in Requests : pc[r] \in Stopped
    /\ UNCHANGED vars

Next ==
    \/ \E r \in Requests : \/ \E m \in Sendable : Send(r, m)
                           \/ Step(r)
                           \/ StepFails(r)
    \/ Crash
    \/ Finished

Spec == Init /\ [][Next]_vars

\* The Go scheduler runs every handler, and calls to Postgres return.
FairSpec == Spec /\ \A r \in Requests : WF_vars(Step(r))

-----------------------------------------------------------------------------
(* Properties.                                                             *)

TypeOK ==
    /\ name \in [Merchants -> Values]
    /\ webhookURL \in [Merchants -> Values]
    /\ secretKey \in [Merchants -> Values]
    /\ webhookSecret \in [Merchants -> Values]
    /\ tx \in [Requests -> SUBSET Tables]
    /\ pc \in [Requests -> {"idle"} \cup Running \cup Stopped]
    /\ msg \in [Requests -> SessionMessages \cup KeyMessages \cup {None}]
    /\ reply \in [Requests -> {0, 200, 400, 401, 500}]
    /\ merchant \in [Requests -> Merchants \cup {None}]
    /\ body \in [Requests -> [name : Values, webhookURL : Values] \cup {None}]
    /\ faults \in 0..MaxFaults
    /\ crashes \in 0..MaxCrashes

\* merchant_test.go "updates name and webhook url atomically": the name and the
\* webhook URL of a merchant always come from one and the same UpdateMe, in the
\* database and in every response, whatever runs, fails or crashes beside it.
UpdatesAtomic ==
    /\ \A m \in Merchants : name[m] = webhookURL[m]
    /\ \A r \in Requests : body[r] # None => body[r].name = body[r].webhookURL

\* merchant_test.go "old key hash is replaced": a secret becomes current only in
\* the UPDATE of the rotation that minted it, so none comes back after it was
\* replaced, not even through an UpdateMe of the same row that overlaps it.
SecretsNeverReturn ==
    [][\A m \in Merchants :
        /\ secretKey'[m] # secretKey[m] =>
               \E r \in Requests : r = secretKey'[m] /\ At(r, "rotate")
        /\ webhookSecret'[m] # webhookSecret[m] =>
               \E r \in Requests : r = webhookSecret'[m] /\ At(r, "rotate")
      ]_vars

\* A secret key opens the merchant whose session rotated it, and no other.
KeyServesItsMerchant ==
    \A r \in Requests :
        reply[r] = 200 /\ msg[r].op = "getMe" =>
            merchant[r] = msg[msg[r].key].merchant

\* Every request is answered, or lost in a crash: updates and rotations that
\* lock the rows of one merchant never wait for each other for ever.
Answered ==
    \A r \in Requests : pc[r] # "idle" ~> pc[r] \in Stopped
=============================================================================
