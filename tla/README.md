# Verification of kassi

kassi is a payment service for merchants who sign in with a wallet. This
directory holds TLA+ models of its concurrent and numeric core, the TLC
configurations that check them on small instances, and proofs, checked by
TLAPS, of what matters most for instances of any size. Paths below are relative
to `src/`; every definition that stands for code is mapped to its lines in
`PROJECT.json` (`map`).

    tlc -workers 2 -config AuthSafety.cfg MCAuth      # one run
    tlapm AuthProof.tla                               # one proof module

## 1. The system

| Component | State | Operations | Talks to | Hard part |
|---|---|---|---|---|
| Wallet authentication (`internal/api/handler/auth.go`, `internal/cache`, `internal/datastore/merchant.go`) | nonces in Redis; rows of `merchants`, `merchant_configs`, `signers`; session JWTs held by clients | `GetNonce`, `Verify`, `Link` | Redis (`GetDel`), Postgres (a transaction, a UNIQUE address) | lookup and INSERT are apart; several INSERTs; failures after the nonce is consumed |
| Settlement destinations (`handler/settlement_destination.go`, `datastore/settlement_destination.go`) | rows of `settlement_destinations`, unique per merchant and network | `Create`, `Delete`, `List` | Postgres, no transaction across statements | a multi-row upsert locks row after row; Delete acts on a row read before; pages are read by separate requests |
| Merchant settings and API keys (`handler/merchant.go`, `datastore/merchant.go`) | name, webhook URL, hash of the secret key, webhook secret | `GetMe`, `UpdateMe`, `RotateKey`, `RotateWebhookSecret` | Postgres | two tables in one transaction beside single UPDATEs of the same row |
| HTTP gateway (`api/server.go`, `api/middleware.go`) | the context and the response of a request | `wideEventLog`, `requireSession`, `requireSecretKey`, `requireAny`, `Recover`, `errorHandler` | the handlers | `requireAny` runs a handler up to twice; errors pass three layers, panics none of them; log and reply work out the status by different tests |
| KMS access token (`signer/infisical.go`, `ensureAuth`, `login`) | cached token and its expiry, a singleflight group | every call to the KMS starts here | Infisical over HTTP | many goroutines, time between check and use |
| Merchant seeds and KMS keys (`signer/signer.go`, `signer/infisical.go`) | keys in the KMS, a shared map from name to id, seeds in byte slices | `CreateMerchantSeed`, `DeriveAddress`, `Sign*` | Infisical | contention for a name, lost answers, restarts |
| Fee calculation (`pricing/fee.go`) | none | `CalculateFee` | - | rounding, and the order of division and multiplication |
| Price oracle (`pricing/price.go`) | none | `FetchPrice` | DefiLlama, CoinGecko | fallback, missing and zero prices, currencies |
| Derivation and signing (`signer/derivation.go`, `evm.go`, `solana.go`) | none | paths and keys from a seed | - | an address and its signature come from separate calls; hardened indices |
| Job workers (`internal/worker`) | a job queue | `Work` (stubs) | Postgres | - |
| Configuration, start-up, helpers, docs, test support | - | - | - | - |

A request passes the gateway, which authenticates it against what wallet
authentication (a session) or a key rotation (a secret key) has written, and
reaches one handler, which calls the datastore. Handlers share nothing in
memory: all their interaction is through Redis and Postgres. The signer is the
exception, with a token and a map of key ids shared by all goroutines. No route
calls the signer or the pricing code yet.

What makes each component correct:

- **authentication**: a nonce works once; merchant, config and founding signer
  exist together or not at all; a wallet belongs to one merchant for ever; a
  token names the merchant of its wallet; an answer is true of the database;
- **settlement**: one destination per merchant and network, of the right chain;
  concurrent Creates do not mix; what was deleted is gone; every request takes
  effect at one instant or, as its answer says, never; pages fit together;
  circles of locks are broken;
- **settings**: name and URL change together; a replaced secret never works
  again; a key opens its own merchant only;
- **gateway**: one answer, also to a panic, for a merchant of the credentials,
  and, on every route, a log that agrees with it;
- **KMS token**: never expired when used, one login at a time, none wasted;
- **seeds**: one per merchant, decryptable for ever, its slice in `signer.go`
  cleared on every way out; the key that signs for a deposit address is the key of that address;
- **price**: in the currency that was asked for, and never the product of an outage;
- **fee**: nothing lost, the cap honoured, net monotone in the amount.

The hazards behind these properties are listed, each with its line, under
`hazards` in `PROJECT.json`.

## 2. Modules

| Module | What it is |
|---|---|
| `Accounts` | abstract specification: wallets, their owners, sessions |
| `Auth`, `MCAuth`, `AuthProof` | the authentication handlers; instance; proofs |
| `Destinations` | abstract specification: a map from merchant and network to a destination, and requests that take effect at once |
| `Settlement`, `MCSettlement`, `SettlementProof` | Create, Delete and List of destinations; instance; proofs |
| `DestinationsProof` | proof that `Settlement` implements `Destinations` |
| `MerchantSettings`, `MerchantSettingsProof` | UpdateMe, rotations, GetMe; proofs |
| `Gateway`, `GatewayProof` | middleware, handler, Recover and error handler for one request; proofs |
| `KmsToken`, `KmsTokenProof` | the access token in discrete time; proofs |
| `Derivation` | the registry of networks and the derivation paths |
| `MerchantKeys`, `MCMerchantKeys`, `MerchantKeysProof` | seeds, KMS keys, the map of key ids, and `Derivation` at work; instance; proofs |
| `Fee` | the fee arithmetic |
| `Pricing`, `MCFee`, `PricingProof` | the price oracle in front of `Fee`; instance; proofs about both |

`MC*` modules exist only where an instance needs symmetry or sets a
configuration file cannot write. Operators commented "Mutant of X" are used by
no specification: each is X as a plausible bug would leave it, and putting it
in X's place breaks the property it is paired with under `mutants` in
`PROJECT.json`. That is how each property is shown to depend on the code.

### Conventions

A handler is a program counter `pc[r]` per request. A step is one call to Redis
or Postgres together with the local code up to the next such call, because only
there do requests interleave. `Goto` and `Answer` move the counter and send the
status. Each call has a failing form (`...Fails`): the code's error path, and
where a write may have taken effect although its answer was lost, both
outcomes. `Crash` ends all requests in flight as `lost`, drops their open
transactions and what the process remembers, and leaves Redis, Postgres and the
KMS as they are. A request id serves as the name of whatever unique value that
request mints (an xid, a key, a secret, a seed). `Finished` lets a specification
stutter when every request is over, so that TLC's deadlock check means
"something is stuck".

Postgres runs READ COMMITTED. A read sees committed rows; an INSERT or UPDATE of
a row, or of a unique key, that another open statement or transaction holds
waits for it; a circle of waiting statements is broken by aborting one of its
members.

### Auth

| Variable | Code |
|---|---|
| `nonce` | `nonce:*` keys in Redis, with `nonceTTL` (`NonceExpires`) |
| `merchants`, `configs`, `signer` | committed rows; `signer[w]` is the UNIQUE `signers.address` |
| `tx[r]` | rows inserted by r's `CreateMerchantWithConfig` (`RunInTx`) so far |
| `tokens` | unexpired JWTs |
| `merchantOf`, `reply` | the handler's merchant, the status sent |
| `admitted` | history: whose `GetDel` returned the nonce |

`Send` is a request with any message: verify or link, any wallet, any nonce (also
one used before), well-formed or not, with any token the client holds. Then
`RequireSession` (Link only), `RejectMessage` or `ConsumeNonce`, `FindSigner`,
and either `InsertMerchant`, `InsertConfig`, `InsertSigner`, `Commit` and
`IssueJWT`, or `IssueJWT` alone, or `CreateSigner`. Signatures are data: a
message is "valid", "malformed" or "forged".

`Accounts` knows neither requests nor transactions: a wallet registers a merchant
or attaches to one, once; a session names the owner of its wallet.
`ImplementsAccounts` instantiates it with `owner <- signer`, `sessions <- tokens`.
The commit of the transaction is `Register`, Link's INSERT is `Attach`,
`IssueJWT` is `LogIn`; every other step leaves the abstract state alone.

### Settlement

`locks[r]` are the (merchant, network) keys r's INSERT ... ON CONFLICT has
reached, `todo[r]` the ids it has not; `InsertRow` takes the next one, or waits;
`CommitInsert` makes the rows visible; `FetchRows` is the SELECT of the response.
`DeadlockVictim` is Postgres aborting a member of a circle. Delete is `FindRow`
(lookup and ownership) and `DeleteRow` (DELETE by id). A row remembers `by`, the
request whose INSERT wrote its address.

List is `CheckList` (`paginationRequest`), then `CountRows` and `ScanPage` in either
order: bun's `ScanAndCount` sends its two SELECTs at once, and no transaction joins
them. `created[r]` is `now()` of r's INSERT, which its new rows keep as `created_at`
through every later update; `ScanPage` may return the rows in any order
(`Orders`) that ORDER BY `created_at` allows. `page[r].shown` is the page, `seen`
(history) the rows it was cut from. `Earlier` are Creates that were answered
before the run begins, so that Lists find rows without a request spent on them.

`Destinations` has no rows, locks or statements: `dest[m][n]` is a destination
[id, address] or none, and a request arrives, takes effect (`Apply`) and is answered,
or is refused, or fails with its effect or without. `ImplementsDestinations`
instantiates it with `dest` the row of a merchant and network (`DestinationAt`) and
`status` the progress of a request (`StatusOf`). A Create takes effect in `CommitInsert`,
where all its rows become visible, and is "applied" until `FetchRows` answers it
("ok") or that SELECT fails ("failed"); a Delete takes effect in the step that answers
it. Everything else, every wait and every lock, is a stutter. The property holds
a whole class of bugs at once: a write to another merchant's row, one that shows
in pieces, a 4xx that changed something, a 201 whose rows never came, and an
effect after the answer or after a crash.

### MerchantSettings

`name` and `webhookURL` are written by `UpdateMerchantRow`, `UpdateConfigRow` and
`CommitUpdate`; the response of `UpdateMe` is read after the commit
(`FetchMerchant`). `Rotate` is one UPDATE of the config row, which waits for an
`UpdateMe` that has updated that row. `RequireSecretKey` finds the merchant of a
key and answers `GetMe` with what the same SELECT returned.

### Gateway

One request with a kind of route, a pair of credentials (each stands for a
merchant, or for none) and a handler that may answer or fail at every run. `ctx`
is the merchant middleware put into the context, `response` what echo has
committed, `logged` what `wideEventLog` wrote. `LinkLost` is a client that goes
away: a write then commits the response and returns an error, and that is how
a handler behind `requireAny` can run again after it has answered. `HandlerPanics`
passes by `requireAny` and `wideEventLog` to `Recover`, which is registered outside
of it (`server.go:61`): the client gets 500, and the log has no entry.

An error has a type and a status. `LoggedStatus` is the test of `wideEventLog`
(`middleware.go:25`: anything with a `StatusCode` method), `SentStatus` that of
`errorHandler` (`server.go:117`: an `AppError` or an `*echo.HTTPError`, else 500).
Handlers return AppErrors, also for what `Bind` refuses, or errors without a status
(`HandlerErrors`), and for these the two agree. A request that matches no route is
refused by echo's router, inside `wideEventLog` but outside every group
(`RouterRefuses`). Whether the errors of the router are `*echo.HTTPError`s is up to the
library, which is not in `src/`: `RouterErrors` has both kinds. Requests do not
interact here, so one is enough; and since the handlers behind `requireAny`
(`GetMe` and `List`) only read, a second run has no effect on the database, which
is why `Gateway` is not composed with the modules of the handlers.

### KmsToken

`now` is a discrete clock. `FastPath`, `Join`, `LeaderCheck`, `ServerIssues`,
`StoreToken` or `LoginFails`, `EndFlight` are `ensureAuth` and `login`;
`SendCall` and `CallEnds` are the request that uses the token. `Deadline` lets
time pass only as far as the HTTP client's timeout (`Timeout`) and the local
delay (`Lag`) allow. A token lives `Lifetime` from the moment the server issues
it; the cache counts `Lifetime - Margin` from the moment the answer arrives.

### MerchantKeys

`kmsKey` is the KMS (one key per name), `keys` the `sync.Map`, `stored` the
ciphertexts `CreateMerchantSeed` has returned, `seed` the byte slices of `signer.go` that
hold a plain seed. Other copies are not modelled: the base64 string and the body that
`infisical.go:164-166` and `infisical.go:185-202` make of a seed, and derived keys, are never cleared.
`CreateKey` and `StoreKey`, `LookUpKey` and `StoreID` are separate because the
effect in the KMS and the memory of its answer are. Callers keep a ciphertext
with its merchant; the callers themselves are not written yet.

A call of `DeriveAddress`, `SignEVMTransaction` or `SignSolanaTransaction` carries a
`use` (operation, network, index). `Supported` is its check of the registry before
the first call to the KMS, and `Derive` its end: `derived[c]` is the key whose address
is returned, or that signs. `Derivation` gives that key as seed, scheme and path. Curve
arithmetic is left out, so keys are equal when these are; the
arithmetic of path segments is kept, because `0x80000000|index` forgets whether the bit
was set. All EVM networks share coin type 60, hence one key per index among them.

### Fee and Pricing

Decimals are integers over a scale. `DivRound` is `decimal.Div`, which keeps the
digits of `DivisionScale` (10^16 in the library) and rounds half up; the
multiplication by 10^decimals (the `scale` of a deposit, from `TokenScales`) comes
after it, as in the code. The scales are constants rather than exponents, so that
nothing rests on their being powers of ten and the prover need not know of `^`. A
price of zero makes `Div` panic, which is the outcome "panic".

`Pricing` is `FetchPrice`: `FetchFromDefiLlama`, and `FetchFromCoinGecko` if that gives no
price. `NoQuote` covers every way a source gives none: a timeout, an error status
(`OnAfterResponse` turns it into an error), an answer that does not decode, an asset or
a currency that is missing. `unit` is the currency of the price that is returned.
The caller of both is not written yet: `ChargeDeposit` passes the price to
`CalculateFee`, and without a price charges nothing.

## 3. Runs

Every run finishes; deadlock is checked in all of them.

| Run | Instance | Question |
|---|---|---|
| `auth_safety` | 3 requests, 2 wallets, 3 nonces, 1 fault, 1 crash | the five invariants of `Auth`, and that it implements `Accounts` |
| `auth_liveness` | 2 requests, 1 wallet, 2 nonces, 1 fault, 1 crash | is a request that waits for another's transaction answered? |
| `auth_link_race` | as `auth_safety`, no faults | violated: a Link that loses a race is answered 500 |
| `settlement_safety` | 3 Creates and Deletes, 2 merchants, 2 + 1 networks, 7 lists, 1 fault, 1 crash; 912,760 states | the safety properties of `Settlement`, and that it implements `Destinations` |
| `settlement_liveness` | 3 requests, Lists too, 1 merchant with 2 destinations, both orders of 2 networks, 4 pages, 1 fault; 469,879 states | are circles of locks and waiting Deletes resolved, and do pages fit together? |
| `merchant_settings` | 3 requests, 2 merchants, 1 fault, 1 crash | atomic updates, replaced secrets, keys, answers |
| `gateway` | all routes and none, credentials of 2 merchants, all outcomes, panics too; 3,134 states | one answer, to the right client; where do log and reply agree? |
| `gateway_errors` | the same | violated: behind `requireAny` a handler's error is replaced |
| `kms_token` | 3 calls, clock to 10, lifetime 6, margin 4, timeout 1, lag 1 | token alive, one login, none wasted, every call ends |
| `merchant_keys` | 4 calls, 2 merchants, 8 uses on 4 networks, 2 faults, 2 restarts; 285,870 states | one seed, always decryptable, its slice cleared; one key per address |
| `fee_safety` | all inputs of the instance, 2 currencies, any outage; 2,055,456 states | sum, cap, monotonicity, and no panic out of an outage |
| `price_currency` | one deposit, one price, 2 currencies | violated: a price in dollars for a caller that asks for euros |

### What the properties say

- `NonceSingleUse`, `AccountsWhole`, `TokensNameOwner`, `RepliesAreTrue`
  (`Auth`): the four promises above. `RepliesAreTrue` speaks of every answer ever
  sent, so a later Link or Verify may not make it false.
- `OneDestinationPerNetwork`, `AddressFitsNetwork`, `NoMixing`,
  `DeletedStaysDeleted`, `PagesTile`, `ImplementsDestinations` (`Settlement`). `NoMixing`
  says that of two Creates that list the same networks one wins on all of them.
  `DeletedStaysDeleted` holds because Delete names the row by its id alone. `PagesTile`:
  two pages cut from the same destinations share none and skip none, however
  often addresses were rewritten in between; this rests on `created_at` surviving
  the upsert. It promises nothing for rows of one INSERT, which share `created_at`.
- `UpdatesAtomic`, `SecretsNeverReturn`, `KeyServesItsMerchant` (`MerchantSettings`).
- `LogMatchesReply`, `ServedToCredential`, `AnsweredOnce` (`Gateway`). The log names the
  status and the merchant of the reply on every route, except that a request that
  ends in a panic is missing from it. Without a route it need not: an error of the
  router that is no `*echo.HTTPError` is logged with its status, 404 or 405, and sent
  as 500, and `LogMatchesReply` says that this is the only way they differ.
- `TokenAlive`, `OneLogin`, `ReplacedWhenExpired` (`KmsToken`).
- `OneSeedPerMerchant`, `SeedRecoverable`, `SliceCleared`, `OneKeyPerAddress`
  (`MerchantKeys`). `SliceCleared` is about the slice that `signer.go` clears, on success
  and on every error path, and not about the copies above. The last compares any two calls that derived or signed: the
  same key if merchant, chain type and index agree, different keys otherwise.
- `NothingLost`, `CapHonoured`, `NetMonotone` (`Fee`), `PanicOnlyOnZeroQuote`
  (`Pricing`).
- `Answered`, where requests or calls wait for each other.

### Bounds, and why they are enough

- *Requests.* A race needs two requests; a Link needs a log-in before it; a Create
  that overlaps a Delete needs a row that exists: three in each case, and the
  third may also be the retry of one that failed. A rotation, an update beside it
  and a request with the new key are three.
- *Wallets, merchants, networks.* Two of a kind tell "mine" from "other"; a third
  network is of the other chain. Lists contain both orders of two networks, one
  twice, an unknown id and both chains.
- *Lists* need rows and two pages: two destinations of different age exist before the
  run (`Earlier`), pages hold one row, and the third request rewrites or
  deletes between the two. A second run holds them, so that `settlement_safety` keeps
  its three writers and two merchants; it has no crash, which would only end requests.
  `created` counts INSERTs in the order they start: two that start within a
  microsecond of each other would tie, as rows of one INSERT do.
- *Indices.* `HardenedBit` stands for 2^31, and uint32 arithmetic is modulo twice that.
  It is 1024, above the largest constant of a path (501); the uses have indices
  below it and equal to it.
- *Faults and crashes* (`MaxFaults`, `MaxCrashes`). One of each puts a failure, and
  an interruption, at every point of every interleaving. In `MerchantKeys`, where a
  lost answer matters to a later call after a restart, two of each.
- *Time* (`MaxTime`). With a lifetime of 6 and a margin of 4 a token is fresh for two
  ticks; ten ticks hold two generations and the change between them. The margin is
  the least that `KmsTokenAssumption` allows, and with a margin of 3 TLC finds a
  token that expires on its way. In the code the margin is 30 seconds and the
  timeout 10, so local delays of up to 5 seconds are covered.
- *Fee.* `DivisionScale` is 10^2 where the library has 10^16, and tokens have 0 to 3
  decimals, so that tokens lie on both sides of the precision, as those with up to
  18 decimals do of 16. `CapHonoured` is stated with the bound that the
  rounding gives.

`None` stands for NULL, "unknown" or "not yet". Requests, wallets, nonces, calls and
merchants are interchangeable, hence the symmetry sets; runs that check liveness use
none. `ImplementsAccounts` and `ImplementsDestinations` are checked with symmetry, which
is sound because `Accounts!Spec` and `Destinations!Spec` state no fairness.

### Fairness

`FairSpec` adds weak fairness of each handler's (call's) own steps: the Go scheduler
runs every goroutine that can run, a call to Redis, Postgres or Infisical returns
or fails at its timeout, and Postgres ends a circle of waiting statements. A step
that waits for a lock is not enabled, so weak fairness assumes nothing about
waiting: that the holder lets go is what `Answered` checks. Nothing is
assumed of clients, of the expiry of nonces and tokens, of faults or of crashes.

### Where code and documentation differ

1. `auth_link_race`: `Link` looks the wallet up and then inserts it. When another
   request takes the wallet in between, the UNIQUE violation is answered 500, not the
   409 that `auth.go:129` documents and `auth_test.go:251` expects of a wallet that
   is linked. No row is lost or moved. By the same window one of two overlapping first
   log-ins is answered 500.
2. `gateway_errors`: `requireAny` (`middleware.go:131`) tries the next credential
   after any error, also one of the handler, and returns `ErrUnauthorized` in the
   end. `middleware_test.go:227` has it reject "if all middlewares fail"; with a
   valid session and an invalid `per_page` it answers 401, where
   `settlement_destination_test.go:229` expects `validation_failed` of `List`.
3. `price_currency`: `FetchPrice` takes a `fiatCurrency` (`price.go:15`), "the current fiat
   price" (`price.go:13`), but asks DefiLlama for the asset alone (`price.go:38`) and returns
   what it answers, a price in US dollars. Only when DefiLlama fails does CoinGecko give a
   price in the currency. `price_test.go:96` asks for "EUR", in a test where both fail.

Smaller ones, not claimed by a run:

- `fee.go:26` documents `floor(MaxCents / 100 / exchangeRate * 10^decimals)`, but the
  division rounds at 16 digits first: for 25.00 at 3245.50 and 18 decimals the code gives
  7702973347712200, the formula 7702973347712216. `CapHonoured` states the cap with that
  rounding.
- `errorHandler` does not know every error that carries a status: one of echo's router that
  is no `*echo.HTTPError` is answered 500, although it says 404 or 405 and is logged as
  such (`middleware.go:25`, `server.go:117`).
- A seed is cleared only where `signer.go` holds it; the strings `infisical.go` makes of it
  are not.
- When the leader of a login is cancelled, the calls that wait for it fail too
  (`infisical.go:67`), although their own contexts live.
- Two Creates that list the same networks in opposite orders can deadlock, and one is
  answered 500.
- When the answer of the KMS to `CreateKey` is lost, or `Encrypt` fails after it, the name
  is taken and `CreateMerchantSeed` fails for that merchant from then on.
- `List` orders by `created_at` alone, which the rows of one Create share: their order
  may differ from page to page, and a page may repeat or skip one of them.
- A source that quotes zero, or an entry without a price, is returned as a price of zero
  without an error, and `CalculateFee` panics on it.
- An index of 2^31 or more names the same Solana key as a smaller one. The column
  `derivation_index` is an INTEGER, so that none is stored.

## 4. Proofs

Every invariant and action property that a passing run checks, and both
refinements, are proved as theorems of the specification for every value of the
constants; what stays with TLC is liveness. The proofs use only the
assumptions on constants that the models name. Two of these say more than a type:

- `SettlementAssumption` has a finite set of networks (they are rows of a table)
  and `None` for what is no destination; `EarlierAssumption` says of the Creates that
  were answered before the run that they were valid and for different destinations,
  which is what `CheckCreate` and the UNIQUE constraint left of them;
- `KmsTokenAssumption` bounds the margin of the cached token from below, as the
  constants in `infisical.go` do.

Each module follows one argument: an inductive invariant `IInv`, a lemma for each
action that can disturb it, `NextIInv`, and then the properties, which are
conjuncts of `IInv` or follow from it in any one state. Every `IInv` was checked as an
invariant of the run of its module before it was proved.

**`AuthProof`**, for any number of requests, wallets, nonces, faults and crashes:
`TypeCorrect`, `NonceSingleUseHolds`, `AccountsWholeHolds`, `TokensNameOwnerHolds`,
`RepliesAreTrueHolds` and `Implementation` (`Auth` implements `Accounts`).

None of the invariants is inductive by itself. `IInv` adds

- `HandlerInv`: what a handler has read, minted and sent at each point; in
  particular that a handler about to sign a token holds the owner of its wallet,
  and that a merchant exists only once its founder has committed;
- `TransactionInv`: the rows an open transaction holds, statement by statement;
- `KeyInv`: a wallet whose key an open transaction holds has no row, and no other
  transaction holds it. This is what makes the commit safe although the lookup was
  long ago: the UNIQUE constraint is re-checked by the INSERT, and the key stays
  held until the commit;
- `NonceInv`: a request past `GetDel` is admitted, and its nonce is dead.

`NextIInv` has one step per action, with lemmas for those that write several
variables. `signer[w]` is never changed once set, which is why `TokensNameOwner` and
`RepliesAreTrue` survive every later step. The refinement rests on the same
invariant: `AccountsWhole` identifies the merchants that exist with the owners
of wallets (`KnownMerchants`), so that a commit is a `Register` of a fresh merchant.

**`KmsTokenProof`**, for any number of calls, any timeout, lag and lifetime and any
margin of at least `2 * (Timeout + Lag)`: `TypeCorrect`, `TokenAliveHolds`,
`OneLoginHolds`, `ReplacedWhenExpiredHolds`. `CacheInv` bounds the cached expiry by
the moment of issue, `LoginInv` says that nobody else can store a token during a login,
and `CallInv` says, at each point of a call, how much of the token's life is left:
enough for what the call still has to do.

**`SettlementProof`**, for any requests, merchants, networks, lists, page sizes, faults
and crashes: `TypeCorrect`, `OneDestinationPerNetworkHolds`, `AddressFitsNetworkHolds`,
`NoMixingHolds`, `DeletedStaysDeletedHolds` and `PagesTileHolds`. Rows alone are not
inductive: what a statement will write is decided long before it writes it. `IInv` adds

- `InsertInv`: an INSERT holds the keys of its list that it has passed, and no others, and
  its list has been checked against the networks. At its end it therefore holds all of
  them and publishes one row for each (`UpsertedRows`, `PublishedRows`), whether it
  finds a row or not: that is why Creates do not mix and no second row appears;
- `RowInv`: a row goes back to two INSERTs that have ended (`Past`), the one that minted its
  id and the one that wrote its address. No INSERT that is still running can mint an
  id that was ever seen, which is why a deleted id does not return;
- `DeleteInv`: what a Delete has found is a row of its merchant with its id;
- `ClockInv`: only finitely many INSERTs have started, so that `now()` is a number.

`ListedAreKnown` is the pigeonhole argument behind `FindNetworksByIDs`: if the number of
networks found equals the length of the list, the list names known networks only.
`PagesTile` needs a second inductive invariant, `PagesInv`: if the rows a SELECT chose from
are of different INSERTs, a page shows exactly those whose `Place` (how many are not
younger) lies in its slice. It rests on `SortedPlace` and `OrdersTile` (the i-th row
of a sorted list is in place i, and the list has each row once), and on `created` being
fixed for every INSERT that has ended (`PastKept`).

**`DestinationsProof`**: `Implementation`. `DestIn` is the destination that a set of rows gives a
merchant on a network, well defined because of `OneDestinationPerNetwork`. The step at
which rows appear or vanish is shown to be `Apply` of the request, by comparing the
two maps for the merchant of the request and for all others; an answer after it
confirms, one without it refuses or fails, and every other step is a stutter.

**`MerchantSettingsProof`**, for any number of requests, merchants, faults and crashes: `TypeCorrect`,
`UpdatesAtomicHolds`, `KeyServesItsMerchantHolds`, and `SecretsNeverReturnHolds`, which
is about steps. `TxInv` says which tables an open transaction has updated at each point,
so that a commit writes both columns or none; `SecretInv` that a merchant's key was minted
by a rotation of a session of that merchant.

**`GatewayProof`**, for any merchants and credentials and all outcomes: `TypeCorrect`,
`LogMatchesReplyHolds`, `ServedToCredentialHolds`, and `AnsweredOnceHolds`, which is about
steps. `CredentialInv` follows the merchant of each attempt from the credential into the
context and the response, `ErrInv` that a router's error means that no route matched,
`ResponseInv` says that with the client there a response ends
the request, and `RunsInv` that a handler runs again only after a failure and
never after a panic. `GetMe` and `List` may run twice, and for two merchants: the
log names the one that was served because a response ends the attempts.

**`MerchantKeysProof`**, for any calls, merchants, networks, faults and restarts, and any
`HardenedBit` above 501: `TypeCorrect`, `OneSeedPerMerchantHolds`, `SeedRecoverableHolds`,
`SliceClearedHolds`, `OneKeyPerAddressHolds`. `NameInv` says that a name belongs to the call
that created its key, and that the process remembers the id of that key or none;
`CallInv` what a call holds at each point, in particular that only the creator of a key
draws a seed; `StoredInv` that a ciphertext is under its merchant's key. From
`UseInv` (what is returned is derived from the ciphertext and the network of the call),
and from `KeysDistinct`, about paths, follows that two calls agree on a key exactly when they
should: `WithBitExact` is the fact that setting the top bit forgets nothing of an
index below it.

**`PricingProof`**, for all amounts, rates, caps, prices and positive scales:
`NothingLostHolds`, `CapHonouredHolds`, `NetMonotoneHolds`, `PanicOnlyOnZeroQuoteHolds`.
The first three are arithmetic: `FeePctGrows` (the percentage, rounded down, rises by no more
than the amount), `CapBound` (what two roundings can add to the cap), `FeeType`,
`FeeCapped`, `FeeGrows`. `IInv` says that a deposit that was charged was charged at a quoted
price, with the result `CalculateFee` has for it.

Only model-checked: `Answered` of `Auth`, `Settlement`, `MerchantSettings`, `Gateway` and `KmsToken`.
It is liveness under fairness, which needs ENABLED and is beyond the prover.

## 5. Not modelled

- The number of rows that `List` reports beside a page (`Meta.Total`), which is counted by
  a SELECT of its own and may disagree with the page. That it is read at all, before or
  after the page, is modelled.
- The arithmetic on curves, the encoding and decoding of transactions and addresses, and
  `EncodeERC20Transfer` and `EncodeMulticall3`, which nothing calls: pure functions of
  libraries. A signature is valid or not, a ciphertext opens under its key.
- Which of the two types the errors of echo's router have, see `RouterErrors`; the library is
  not part of this repository. CORS preflight requests, which echo's middleware answers.
- Copies of a seed other than the slice in `signer.go`.
- A statement that Postgres goes on with after the process died: `Crash` aborts it in the
  same step, where Postgres may take a moment to notice that its client is gone.
- The bounds of `FEE_BPS` (`config.go:28`): it is read unchecked, and `NothingLost` assumes at
  most 100 percent.
- The job workers, which are stubs; `UpdatePublicKeyHash` and `requirePublicKey`, which
  no route uses; the tables of deposits, payments and webhooks, which no code
  uses.
- Configuration, start-up and shutdown, which run once and in sequence; logging other
  than the status and merchant of `wideEventLog`; generated documentation and mocks.

## 6. Plan

The properties of section 3 are proved, but for liveness. What remains worth doing:

1. proofs about the abstract specifications, so that what `Accounts` and `Destinations` promise
   is available to whoever builds on them without a look at the handlers;
2. when the callers of the signer and of the pricing code are written: a module for them,
   in place of the `ChargeDeposit` that stands for one, and for the job workers.
