----------------------------- MODULE Settlement -----------------------------
(***************************************************************************)
(* Settlement destinations (internal/api/handler/settlement_destination.go *)
(* over internal/datastore/settlement_destination.go): where a merchant    *)
(* wants its money on each network.  Create is one multi-row INSERT ... ON *)
(* CONFLICT (merchant_id, network_id) DO UPDATE followed by a SELECT;      *)
(* Delete is a SELECT, an ownership check and a DELETE by id; List is two  *)
(* SELECTs, one for a page of rows and one for their number.  None of them *)
(* spans its statements with a transaction.                                *)
(*                                                                         *)
(* The INSERT locks its rows one after the other, in the order of the      *)
(* client's list, and publishes them together when the statement ends.     *)
(* A statement waits for a row another statement holds; Postgres aborts    *)
(* one of the statements that wait for each other.                         *)
(***************************************************************************)
EXTENDS Integers, Sequences, FiniteSets

SeqExt == INSTANCE SequencesExt

CONSTANTS
    Requests,                       \* POST, GET and DELETE requests
    Merchants,                      \* merchants of the sessions
    EvmNetworks, SolanaNetworks,    \* ids in the networks table, by chain_type
    EvmWallets, SolanaWallets,      \* addresses, by the kind of signature
    NetworkLists,                   \* lists of network ids a client may send
    Pages,                          \* pairs <<page, per_page>> a client may send
    Earlier,                        \* Creates that were answered before Init
    None,
    MaxFaults,                      \* bound: failed calls to Postgres
    MaxCrashes                      \* bound: crashes of the process

Networks == EvmNetworks \cup SolanaNetworks
Wallets == EvmWallets \cup SolanaWallets

CreatesWith(lists) ==
    [op : {"create"}, merchant : Merchants, wallet : Wallets,
     networks : lists, form : {"valid"}]

Creates == CreatesWith(NetworkLists)

\* Whoever inserts rows: a request, or a Create of Earlier, known by its index.
Authors == Requests \cup DOMAIN Earlier

\* An id is minted by the INSERT of a request, one for each network it names.
Ids == Authors \X Networks

SameChain(wallet, network) ==
    wallet \in EvmWallets <=> network \in EvmNetworks

NetworksIn(m) == {m.networks[i] : i \in DOMAIN m.networks}

ASSUME SettlementAssumption ==
    /\ EvmNetworks \cap SolanaNetworks = {} /\ IsFiniteSet(Networks)
    /\ EvmWallets \cap SolanaWallets = {}
    /\ \A list \in NetworkLists : list \in Seq(Networks \cup {None})
    /\ Pages \subseteq Int \X Int
    /\ None \notin [id : Ids, address : Wallets]
    /\ MaxFaults \in Nat /\ MaxCrashes \in Nat

\* Earlier Creates were valid, and no two of them for one destination.
ASSUME EarlierAssumption ==
    /\ Earlier \in Seq(CreatesWith(Seq(Networks))) /\ Requests \cap DOMAIN Earlier = {}
    /\ \A i, j \in DOMAIN Earlier : \A n \in NetworksIn(Earlier[i]) :
        /\ SameChain(Earlier[i].wallet, n)
        /\ i # j /\ Earlier[i].merchant = Earlier[j].merchant
               => n \notin NetworksIn(Earlier[j])

VARIABLES
    rows,        \* committed rows of settlement_destinations
    locks,       \* locks[r]: the keys <<merchant, network>> r's INSERT holds
    todo,        \* todo[r]: the network ids r's INSERT has still to reach
    pc, msg, reply,
    found,       \* found[r]: the row Delete has read
    created,     \* created[r]: now() of r's INSERT, which its new rows keep; or 0
    page,        \* page[r]: what List has read, see NoPage
    faults, crashes

request == <<pc, reply>>
budget == <<faults, crashes>>
read == <<found, page>>
vars == <<rows, locks, todo, request, msg, read, created, budget>>

-----------------------------------------------------------------------------
\* A row; "by" is the request whose INSERT wrote the address.
Rows == [id : Ids, merchant : Merchants, network : Networks,
         address : Wallets, by : Authors]

Deletes ==
    [op : {"delete"}, merchant : Merchants, id : Ids \cup {None},
     form : {"valid"}]

\* A page that does not parse is refused like one that is out of range.
Lists ==
    {[op |-> "list", merchant |-> m, page |-> p[1], perPage |-> p[2],
      form |-> "valid"] : m \in Merchants, p \in Pages}

\* Requests whose body, or whose signature, is refused before it is looked into.
Refused ==
    [op : {"create", "delete"}, merchant : Merchants,
     form : {"malformed", "forged"}]

ListedBy(r) == NetworksIn(IF r \in Requests THEN msg[r] ELSE Earlier[r])

\* The ids on the page; and, as history, all those the SELECT chose from.
NoPage == [shown |-> {}, seen |-> {}]

Running ==
    {"check", "insert", "fetch", "find", "delete", "list", "both", "count", "scan"}
Stopped == {"done", "lost"}

Init ==
    /\ rows = UNION {{[id |-> <<i, n>>, merchant |-> Earlier[i].merchant,
                       network |-> n, address |-> Earlier[i].wallet, by |-> i] :
                          n \in NetworksIn(Earlier[i])} : i \in DOMAIN Earlier}
    /\ locks = [r \in Requests |-> {}]
    /\ todo = [r \in Requests |-> <<>>]
    /\ pc = [r \in Requests |-> "idle"]
    /\ msg = [r \in Requests |-> None]
    /\ reply = [r \in Requests |-> 0]
    /\ found = [r \in Requests |-> None]
    /\ created = [r \in Authors |-> IF r \in Requests THEN 0 ELSE r]
    /\ page = [r \in Requests |-> NoPage]
    /\ faults = 0 /\ crashes = 0

-----------------------------------------------------------------------------
At(r, label) == pc[r] = label

Goto(r, label) ==
    /\ pc' = [pc EXCEPT ![r] = label]
    /\ UNCHANGED reply

Answer(r, status) ==
    /\ pc' = [pc EXCEPT ![r] = "done"]
    /\ reply' = [reply EXCEPT ![r] = status]

\* A call to Postgres fails: the request is cancelled, or the server is down.
Fault ==
    /\ faults < MaxFaults
    /\ faults' = faults + 1
    /\ UNCHANGED crashes

\* What a client sends: it knows the ids of the destinations that exist; None
\* is any other id.
Sendable ==
    {m \in Creates \cup Deletes \cup Lists \cup Refused :
        m \in Deletes => m.id \in {d.id : d \in rows} \cup {None}}

\* A request reaches its handler, with the merchant of its session.
Send(r, m) ==
    /\ At(r, "idle")
    /\ msg' = [msg EXCEPT ![r] = m]
    /\ Goto(r, CASE m.op = "create" -> "check"
                 [] m.op = "delete" -> "find"
                 [] m.op = "list" -> "list")
    /\ UNCHANGED <<rows, locks, todo, read, created, budget>>

-----------------------------------------------------------------------------
(* Create.                                                                 *)

\* Mutant of NetworksExist: the count is not compared.
NetworksUnchecked(r) == TRUE

\* FindNetworksByIDs returns each network once: an unknown id, or an id listed
\* twice, makes the numbers differ.
NetworksExist(r) ==
    Cardinality(ListedBy(r) \cap Networks) = Len(msg[r].networks)

\* Mutant of ChainsMatch: the chain types are not compared.
ChainsUnchecked(r) == TRUE

ChainsMatch(r) ==
    \A n \in ListedBy(r) \cap Networks : SameChain(msg[r].wallet, n)

\* now(), of a statement that starts after all others.
Now == Cardinality({r \in Authors : created[r] # 0}) + 1

\* Bind and Validate, the signature, then the networks; the INSERT starts.
CheckCreate(r) ==
    /\ At(r, "check")
    /\ \/ /\ msg[r].form = "malformed"
          /\ Answer(r, 400) /\ UNCHANGED <<todo, created>>
       \/ /\ msg[r].form = "forged"
          /\ Answer(r, 401) /\ UNCHANGED <<todo, created>>
       \/ /\ msg[r].form = "valid"
          /\ ~ (NetworksExist(r) /\ ChainsMatch(r))
          /\ Answer(r, 400) /\ UNCHANGED <<todo, created>>
       \/ /\ msg[r].form = "valid"
          /\ NetworksExist(r) /\ ChainsMatch(r)
          /\ todo' = [todo EXCEPT ![r] = msg[r].networks]
          /\ created' = [created EXCEPT ![r] = Now]
          /\ Goto(r, "insert")
    /\ UNCHANGED <<rows, locks, msg, read, budget>>

\* The key the INSERT of r is at, and the requests that hold a key.
NextKey(r) == <<msg[r].merchant, Head(todo[r])>>
Holders(key) == {q \in Requests : key \in locks[q]}
WaitsFor(r) ==
    IF At(r, "insert") /\ todo[r] # <<>> THEN Holders(NextKey(r)) \ {r} ELSE {}

Release(r) ==
    /\ locks' = [locks EXCEPT ![r] = {}]
    /\ todo' = [todo EXCEPT ![r] = <<>>]

\* Mutant of Upserted: the table has no UNIQUE (merchant_id, network_id).
InsertedAlways(r, n) ==
    {d \in rows : d.merchant = msg[r].merchant /\ d.network = n}
    \cup {[id |-> <<r, n>>, merchant |-> msg[r].merchant, network |-> n,
           address |-> msg[r].wallet, by |-> r]}

\* What the statement leaves for one network: the row in conflict with the new
\* address, or a new row.
Upserted(r, n) ==
    LET conflict == {d \in rows : d.merchant = msg[r].merchant /\ d.network = n}
    IN  IF conflict = {}
        THEN {[id |-> <<r, n>>, merchant |-> msg[r].merchant, network |-> n,
               address |-> msg[r].wallet, by |-> r]}
        ELSE {[d EXCEPT !.address = msg[r].wallet, !.by = r] : d \in conflict}

\* The rows the statement has reached become visible, all at once.
Publish(r) ==
    LET reached == {n \in Networks : <<msg[r].merchant, n>> \in locks[r]}
    IN  rows' = {d \in rows : <<d.merchant, d.network>> \notin locks[r]}
                \cup UNION {Upserted(r, n) : n \in reached}

\* Mutant of InsertRow: one autocommitted INSERT for each network.
InsertRowAlone(r) ==
    /\ At(r, "insert") /\ todo[r] # <<>>
    /\ WaitsFor(r) = {}
    /\ rows' = {d \in rows : <<d.merchant, d.network>> # NextKey(r)}
               \cup Upserted(r, Head(todo[r]))
    /\ todo' = [todo EXCEPT ![r] = Tail(@)]
    /\ UNCHANGED <<locks, request, msg, read, created, budget>>

\* The INSERT reaches its next row: inserts it, or locks the row in conflict.
InsertRow(r) ==
    /\ At(r, "insert") /\ todo[r] # <<>>
    /\ WaitsFor(r) = {}
    /\ locks' = [locks EXCEPT ![r] = @ \cup {NextKey(r)}]
    /\ todo' = [todo EXCEPT ![r] = Tail(@)]
    /\ UNCHANGED <<rows, request, msg, read, created, budget>>

CommitInsert(r) ==
    /\ At(r, "insert") /\ todo[r] = <<>>
    /\ Publish(r)
    /\ Release(r)
    /\ Goto(r, "fetch")
    /\ UNCHANGED <<msg, read, created, budget>>

\* The SELECT that the response is made of.
FetchRows(r) ==
    /\ At(r, "fetch")
    /\ Answer(r, 201)
    /\ UNCHANGED <<rows, locks, todo, msg, read, created, budget>>

\* Postgres finds a cycle of waiting statements and aborts one of them.
Deadlocked(r) ==
    \E cycle \in SUBSET Requests :
        /\ r \in cycle
        /\ \A q \in cycle : WaitsFor(q) \cap cycle # {}
        /\ \A q \in cycle : \E p \in cycle : q \in WaitsFor(p)

DeadlockVictim(r) ==
    /\ Deadlocked(r)
    /\ Release(r)
    /\ Answer(r, 500)
    /\ UNCHANGED <<rows, msg, read, created, budget>>

-----------------------------------------------------------------------------
(* Delete.                                                                 *)

\* Mutant of FindRow: the row's merchant is not compared with the session's.
FindAnyRow(r) ==
    LET hit == {d \in rows : d.id = msg[r].id}
    IN  /\ At(r, "find")
        /\ IF msg[r].form = "valid" /\ hit # {}
           THEN /\ \E d \in hit : found' = [found EXCEPT ![r] = d]
                /\ Goto(r, "delete")
           ELSE Answer(r, 404) /\ UNCHANGED found
        /\ UNCHANGED <<rows, locks, todo, msg, created, page, budget>>

\* Bind and Validate, the signature, FindSettlementDestinationByID, and the
\* check that the row belongs to the merchant of the session.
FindRow(r) ==
    LET hit == {d \in rows : d.id = msg[r].id /\ d.merchant = msg[r].merchant}
    IN  /\ At(r, "find")
        /\ \/ /\ msg[r].form # "valid"
              /\ Answer(r, IF msg[r].form = "malformed" THEN 400 ELSE 401)
              /\ UNCHANGED found
           \/ /\ msg[r].form = "valid" /\ hit = {}
              /\ Answer(r, 404)
              /\ UNCHANGED found
           \/ /\ msg[r].form = "valid"
              /\ \E d \in hit : found' = [found EXCEPT ![r] = d]
              /\ Goto(r, "delete")
        /\ UNCHANGED <<rows, locks, todo, msg, created, page, budget>>

\* DELETE ... WHERE id: waits for the row, and does not mind if it is gone.
RowHeld(r) ==
    Holders(<<found[r].merchant, found[r].network>>) # {}

\* Mutant of Remove: DELETE of the row as it was read, address included.
RemoveAsRead(r) == rows' = rows \ {found[r]}

Remove(r) == rows' = {d \in rows : d.id # found[r].id}

DeleteRow(r) ==
    /\ At(r, "delete")
    /\ RowHeld(r) => \A d \in rows : d.id # found[r].id
    /\ Remove(r)
    /\ Answer(r, 204)
    /\ UNCHANGED <<locks, todo, msg, read, created, budget>>

-----------------------------------------------------------------------------
(* List.                                                                   *)

\* paginationRequest.Validate, which replaces zeros by its defaults.
PageOf(r) == IF msg[r].page = 0 THEN 1 ELSE msg[r].page
PerPageOf(r) == IF msg[r].perPage = 0 THEN 20 ELSE msg[r].perPage

CheckList(r) ==
    /\ At(r, "list")
    /\ IF PageOf(r) >= 1 /\ PerPageOf(r) \in 1..100
       THEN Goto(r, "both") ELSE Answer(r, 400)
    /\ UNCHANGED <<rows, locks, todo, msg, read, created, budget>>

\* ScanAndCount sends two SELECTs at once, in either order.  The number of rows
\* is only copied into the response and is not kept.
CountRows(r) ==
    /\ \/ At(r, "both") /\ Goto(r, "scan")
       \/ At(r, "count") /\ Answer(r, 200)
    /\ UNCHANGED <<rows, locks, todo, msg, read, created, budget>>

\* Mutant of CreatedAt: an update renews created_at.
TouchedAt(d) == created[d.by]

\* created_at: rows of one INSERT share it, and an update keeps it.
CreatedAt(d) == created[d.id[1]]

\* The orders in which ORDER BY created_at may return a set of rows.
Orders(set) ==
    {s \in SeqExt!SetToSeqs(set) :
        \A i, j \in DOMAIN s : i < j => CreatedAt(s[i]) <= CreatedAt(s[j])}

\* LIMIT per_page OFFSET (page - 1) * per_page.
Slice(r) == ((PageOf(r) - 1) * PerPageOf(r) + 1)..(PageOf(r) * PerPageOf(r))

ScanPage(r) ==
    LET own == {d \in rows : d.merchant = msg[r].merchant}
    IN  /\ \/ At(r, "both") /\ Goto(r, "count")
           \/ At(r, "scan") /\ Answer(r, 200)
        /\ \E s \in Orders(own) :
              page' = [page EXCEPT ![r] =
                         [shown |-> {s[i].id : i \in Slice(r) \cap DOMAIN s},
                          seen |-> {d.id : d \in own}]]
        /\ UNCHANGED <<rows, locks, todo, msg, found, created, budget>>

-----------------------------------------------------------------------------
(* Calls that fail, and crashes.                                           *)

\* FindNetworksByIDs, the SELECT of Create or of Delete, or one of List fails;
\* the rows Create has written stay.
ReadFails(r) ==
    /\ \/ pc[r] \in {"fetch", "both", "count", "scan"}
       \/ pc[r] \in {"check", "find"} /\ msg[r].form = "valid"
    /\ Fault
    /\ Answer(r, 500)
    /\ UNCHANGED <<rows, locks, todo, msg, read, created>>

\* Mutant of InsertFails: the statement is part of a transaction that is left open.
InsertFailsOpen(r) ==
    /\ At(r, "insert")
    /\ Fault
    /\ Answer(r, 500)
    /\ UNCHANGED <<rows, locks, todo, msg, read, created>>

\* The INSERT reports an error; at its end it may have taken effect or not.
InsertFails(r) ==
    /\ At(r, "insert")
    /\ Fault
    /\ (todo[r] = <<>> /\ Publish(r)) \/ UNCHANGED rows
    /\ Release(r)
    /\ Answer(r, 500)
    /\ UNCHANGED <<msg, read, created>>

\* The DELETE reports an error, and may have taken effect or not.
DeleteFails(r) ==
    /\ At(r, "delete")
    /\ Fault
    /\ (~ RowHeld(r) /\ Remove(r)) \/ UNCHANGED rows
    /\ Answer(r, 500)
    /\ UNCHANGED <<locks, todo, msg, read, created>>

\* The process dies: requests in flight get no answer, their statements abort.
Crash ==
    /\ crashes < MaxCrashes
    /\ \E r \in Requests : pc[r] \in Running
    /\ crashes' = crashes + 1
    /\ pc' = [r \in Requests |-> IF pc[r] \in Running THEN "lost" ELSE pc[r]]
    /\ locks' = [r \in Requests |-> {}]
    /\ todo' = [r \in Requests |-> <<>>]
    /\ UNCHANGED <<rows, reply, msg, read, created, faults>>

-----------------------------------------------------------------------------
Step(r) ==
    \/ CheckCreate(r) \/ InsertRow(r) \/ CommitInsert(r) \/ FetchRows(r)
    \/ DeadlockVictim(r)
    \/ FindRow(r) \/ DeleteRow(r)
    \/ CheckList(r) \/ CountRows(r) \/ ScanPage(r)

StepFails(r) == ReadFails(r) \/ InsertFails(r) \/ DeleteFails(r)

\* Every request has been answered or lost: nothing is left to do.
Finished ==
    /\ \A r \in Requests : pc[r] \in Stopped
    /\ UNCHANGED vars

Next ==
    \/ \E r \in Requests : \/ \E m \in Sendable : Send(r, m)
                           \/ Step(r)
                           \/ StepFails(r)
    \/ Crash
    \/ Finished

Spec == Init /\ [][Next]_vars

\* The Go scheduler runs every handler, calls to Postgres return, and Postgres
\* breaks deadlocks.
FairSpec == Spec /\ \A r \in Requests : WF_vars(Step(r))

-----------------------------------------------------------------------------
(* Properties.                                                             *)

TypeOK ==
    /\ rows \subseteq Rows
    /\ locks \in [Requests -> SUBSET (Merchants \X Networks)]
    /\ todo \in [Requests -> Seq(Networks)]
    /\ pc \in [Requests -> {"idle"} \cup Running \cup Stopped]
    /\ msg \in [Requests -> Creates \cup Deletes \cup Lists \cup Refused \cup {None}]
    /\ reply \in [Requests -> {0, 200, 201, 204, 400, 401, 404, 500}]
    /\ found \in [Requests -> Rows \cup {None}]
    /\ created \in [Authors -> Nat]
    /\ page \in [Requests -> [shown : SUBSET Ids, seen : SUBSET Ids]]
    /\ faults \in 0..MaxFaults
    /\ crashes \in 0..MaxCrashes

\* A merchant has at most one destination per network and an id names one
\* destination, although Create looks for rows nowhere and leaves the choice
\* between INSERT and UPDATE to a row another request may delete meanwhile.
OneDestinationPerNetwork ==
    \A d, e \in rows :
        d.id = e.id \/ (d.merchant = e.merchant /\ d.network = e.network)
            => d = e

\* Money is never sent to an address of the wrong chain: the check that Create
\* makes against its own list holds of every row that is stored.
AddressFitsNetwork ==
    \A d \in rows : SameChain(d.address, d.network)

\* Of two Creates that name the same networks the later one wins on all of
\* them: no interleaving leaves the first network to one and the second to the
\* other.
NoMixing ==
    \A d, e \in rows :
        /\ d.merchant = e.merchant
        /\ d.by # e.by
        => ~ {d.network, e.network} \subseteq ListedBy(d.by) \cap ListedBy(e.by)

\* 204 means gone: a destination reported as deleted never shows again, also
\* when a Create was rewriting its row at that moment.
DeletedStaysDeleted ==
    \A r \in Requests :
        reply[r] = 204 => \A d \in rows : d.id # msg[r].id

\* Paging works beside writers: pages 1 and 2 show no destination twice, and skip
\* none, if none was made or deleted between them, however often Creates wrote
\* new addresses.  (If two destinations are of one INSERT nothing is promised.)
PagesTile ==
    \A p, q \in Requests :
        /\ reply[p] = 200 /\ PageOf(p) = 1
        /\ reply[q] = 200 /\ PageOf(q) = 2
        /\ msg[p].merchant = msg[q].merchant /\ PerPageOf(p) = PerPageOf(q)
        /\ page[p].seen = page[q].seen
        /\ \A x, y \in page[p].seen : x # y => created[x[1]] # created[y[1]]
        => /\ page[p].shown \cap page[q].shown = {}
           /\ \A x \in page[p].seen \ (page[p].shown \cup page[q].shown) :
                \A y \in page[p].shown \cup page[q].shown :
                    created[y[1]] < created[x[1]]

\* Every request is answered, or lost in a crash: no row stays locked, and no
\* circle of Creates waits for ever.
Answered ==
    \A r \in Requests : pc[r] # "idle" ~> pc[r] \in Stopped

-----------------------------------------------------------------------------
(* The promise of module Destinations.                                     *)

\* The destination of a merchant on a network, whoever wrote it last.
DestinationAt(merchant, network) ==
    LET hit == {d \in rows : d.merchant = merchant /\ d.network = network}
    IN  IF hit = {} THEN None
        ELSE LET d == CHOOSE d \in hit : TRUE
             IN  [id |-> d.id, address |-> d.address]

\* How far a request has come: a Create has taken effect once its INSERT has
\* ended, a Delete in the step that answers it.
StatusOf(r) ==
    CASE pc[r] = "idle" -> "none"
      [] pc[r] = "fetch" -> "applied"
      [] pc[r] \in Running \ {"fetch"} -> "open"
      [] pc[r] = "lost" -> "failed"
      [] pc[r] = "done" /\ reply[r] \in {200, 201, 204} -> "ok"
      [] pc[r] = "done" /\ reply[r] \in {400, 401, 404} -> "refused"
      [] pc[r] = "done" /\ reply[r] = 500 -> "failed"

Abstract ==
    INSTANCE Destinations WITH
        Asks <- Creates \cup Deletes \cup Lists \cup Refused,
        ask <- msg,
        status <- [r \in Requests |-> StatusOf(r)],
        dest <- [m \in Merchants |-> [n \in Networks |-> DestinationAt(m, n)]]

\* Each Create and Delete takes effect at one instant between its arrival and its
\* answer, for all the networks it names and no other merchant; one answered 201
\* or 204 has taken effect, one answered 4xx never does, one answered 500 or lost
\* has or has not: settlement_destination.go implements Destinations.
ImplementsDestinations == Abstract!Spec
=============================================================================
