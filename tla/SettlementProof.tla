--------------------------- MODULE SettlementProof --------------------------
(***************************************************************************)
(* Proofs of the invariants of Settlement, for any number of requests,     *)
(* merchants, failing calls and crashes, any finite set of networks, any   *)
(* lists of them and any pages.                                            *)
(***************************************************************************)
EXTENDS Settlement, FiniteSetTheorems, FunctionTheorems, TLAPS

-----------------------------------------------------------------------------
(* The inductive invariant.                                                *)

\* What an author has asked for, and whether its INSERT has ended.
AskOf(a) == IF a \in Requests THEN msg[a] ELSE Earlier[a]
Past(a) == a \in Requests => pc[a] \notin {"idle", "check", "insert"}

\* Messages are of the kind their handlers expect, and those that are replied to
\* have ended.
PlaceInv(r) ==
    /\ pc[r] = "idle" => page[r] = NoPage
    /\ pc[r] # "idle" => msg[r] \in Creates \cup Deletes \cup Lists \cup Refused
    /\ pc[r] \in {"check", "insert", "fetch"} => msg[r].op = "create"
    /\ pc[r] \in {"find", "delete"} => msg[r].op = "delete"
    /\ pc[r] \in {"list", "both", "count", "scan"} => msg[r].op = "list"
    /\ pc[r] \in {"insert", "fetch", "delete"} => msg[r].form = "valid"
    /\ (pc[r] = "done") <=> (reply[r] # 0)

\* An INSERT has locked the networks of its list, but for those still to come,
\* and no other keys; the networks are known, and of the chain of the wallet.
InsertInv(r) ==
    /\ pc[r] # "insert" => locks[r] = {} /\ todo[r] = <<>>
    /\ pc[r] = "insert" =>
          /\ ListedBy(r) \subseteq Networks
          /\ \A n \in ListedBy(r) : SameChain(msg[r].wallet, n)
          /\ locks[r] \subseteq {msg[r].merchant} \X ListedBy(r)
          /\ \A i \in DOMAIN todo[r] : todo[r][i] \in ListedBy(r)
          /\ \A n \in ListedBy(r) :
                \/ <<msg[r].merchant, n>> \in locks[r]
                \/ \E i \in DOMAIN todo[r] : todo[r][i] = n

\* A row goes back to two INSERTs of its merchant that have ended: the one that
\* minted its id, and the one that wrote its address.  A network of a merchant has
\* one row.
RowInv(d) ==
    /\ Past(d.id[1]) /\ d.id[2] = d.network /\ AskOf(d.id[1]).merchant = d.merchant
    /\ Past(d.by) /\ d.network \in ListedBy(d.by)
    /\ AskOf(d.by).merchant = d.merchant /\ AskOf(d.by).wallet = d.address
    /\ SameChain(d.address, d.network)

RowsInv ==
    /\ \A d \in rows : RowInv(d)
    /\ \A d, e \in rows : d.merchant = e.merchant /\ d.network = e.network => d = e
    /\ NoMixing

\* A Delete has found a row of its merchant with the id it was given, which no
\* INSERT mints again.
DeleteInv(r) ==
    /\ pc[r] = "delete" =>
          /\ found[r] \in Rows /\ found[r].id = msg[r].id
          /\ Past(msg[r].id[1]) /\ AskOf(msg[r].id[1]).merchant = msg[r].merchant
    /\ reply[r] = 204 => msg[r].op = "delete" /\ Past(msg[r].id[1])

\* Time passes: only finitely many INSERTs have started.
ClockInv == IsFiniteSet({a \in Authors : created[a] # 0})

IInv ==
    /\ TypeOK
    /\ \A r \in Requests : PlaceInv(r) /\ InsertInv(r) /\ DeleteInv(r)
    /\ RowsInv
    /\ DeletedStaysDeleted
    /\ ClockInv

-----------------------------------------------------------------------------
(* Facts about messages and lists of networks.                             *)

Asks == Creates \cup Deletes \cup Lists \cup Refused

LEMMA Kinds ==
    ASSUME NEW m \in Asks
    PROVE  /\ m.merchant \in Merchants /\ m.op \in {"create", "delete", "list"}
           /\ m.form \in {"valid", "malformed", "forged"}
           /\ m.op = "create" /\ m.form = "valid" =>
                 m \in Creates /\ m.wallet \in Wallets /\ m.networks \in NetworkLists
           /\ m.op = "delete" /\ m.form = "valid" =>
                 m \in Deletes /\ m.id \in Ids \cup {None}
           /\ m.op = "list" => m.form = "valid" /\ m.page \in Int /\ m.perPage \in Int
<1>1. \A p \in Pages : p[1] \in Int /\ p[2] \in Int
  BY SettlementAssumption
<1>2. QED BY <1>1 DEF Asks, Creates, CreatesWith, Deletes, Lists, Refused

\* What is ahead of an INSERT once it has reached its next network.
LEMMA TailElements ==
    ASSUME NEW S, NEW s \in Seq(S), s # <<>>
    PROVE  /\ Head(s) \in S /\ Tail(s) \in Seq(S)
           /\ \E i \in DOMAIN s : s[i] = Head(s)
           /\ \A i \in DOMAIN Tail(s) : \E j \in DOMAIN s : s[j] = Tail(s)[i]
           /\ \A j \in DOMAIN s :
                 s[j] = Head(s) \/ \E i \in DOMAIN Tail(s) : Tail(s)[i] = s[j]
<1>1. /\ Tail(s) \in Seq(S) /\ Len(Tail(s)) = Len(s) - 1 /\ Len(s) \in Nat \ {0}
      /\ Head(s) = s[1] /\ Head(s) \in S
      /\ DOMAIN s = 1..Len(s) /\ DOMAIN Tail(s) = 1..(Len(s) - 1)
  OBVIOUS
<1>2. \A i \in 1..(Len(s) - 1) : Tail(s)[i] = s[i + 1]
  OBVIOUS
<1>3. \A i \in DOMAIN Tail(s) : i + 1 \in DOMAIN s
  BY <1>1
<1>4. \A j \in DOMAIN s : j = 1 \/ (j - 1 \in DOMAIN Tail(s) /\ Tail(s)[j - 1] = s[j])
  BY <1>1, <1>2
<1>5. \A i \in DOMAIN Tail(s) : \E j \in DOMAIN s : s[j] = Tail(s)[i]
  BY <1>1, <1>2, <1>3
<1>6. \A j \in DOMAIN s :
         s[j] = Head(s) \/ \E i \in DOMAIN Tail(s) : Tail(s)[i] = s[j]
  BY <1>1, <1>4
<1>7. QED BY <1>1, <1>5, <1>6

\* The test FindNetworksByIDs is used for finds an unknown id, however often ids
\* are repeated: a list with one names fewer networks than it has entries.
LEMMA ListedAreKnown ==
    ASSUME NEW r \in Requests, msg[r] \in Creates, NetworksExist(r)
    PROVE  /\ ListedBy(r) \subseteq Networks
           /\ msg[r].networks \in Seq(Networks)
<1> DEFINE list == msg[r].networks
           L == ListedBy(r)
           f == [i \in 1..Len(list) |-> list[i]]
<1>1. list \in Seq(Networks \cup {None})
  BY SettlementAssumption DEF Creates, CreatesWith
<1>2. L = {list[i] : i \in 1..Len(list)} /\ Len(list) \in Nat
  BY <1>1 DEF ListedBy, NetworksIn
<1>3. f \in Surjection(1..Len(list), L)
  BY <1>2 DEF Surjection
<1>4. IsFiniteSet(1..Len(list)) /\ Cardinality(1..Len(list)) = Len(list)
  BY <1>2, FS_Interval
<1>5. IsFiniteSet(L) /\ Cardinality(L) <= Len(list)
  BY <1>3, <1>4, FS_Surjection
<1> HIDE DEF L, f, list
<1>6. Cardinality(L \cap Networks) = Len(list)
  BY DEF NetworksExist, L, list
<1>7. Cardinality(L \cap Networks) <= Cardinality(L)
      /\ (Cardinality(L) = Cardinality(L \cap Networks) => L = L \cap Networks)
  <2>1. L \cap Networks \in SUBSET L
    OBVIOUS
  <2>2. QED BY <2>1, <1>5, FS_Subset
<1>8. Cardinality(L) \in Nat /\ Cardinality(L \cap Networks) \in Nat
  BY <1>2, <1>5, <1>6, FS_CardinalityType
<1>9. L \subseteq Networks
  <2>1. Cardinality(L) = Cardinality(L \cap Networks)
    BY <1>5, <1>6, <1>7, <1>8
  <2>2. QED BY <2>1, <1>7
<1>10. \A i \in 1..Len(list) : list[i] \in Networks
  BY <1>2, <1>9
<1>11. list \in Seq(Networks)
  BY <1>1, <1>10
<1>12. QED BY <1>9, <1>11 DEF L, list

-----------------------------------------------------------------------------
(* The invariant holds initially.                                          *)

USE DEF vars, request, budget, read, Running, Stopped, At, Goto, Answer, Fault

LEMMA InitRows ==
    ASSUME Init
    PROVE  RowsInv /\ rows \subseteq Rows
<1> DEFINE Row(i, n) == [id |-> <<i, n>>, merchant |-> Earlier[i].merchant,
                         network |-> n, address |-> Earlier[i].wallet, by |-> i]
<1>1. \A i \in DOMAIN Earlier :
         /\ i \in Authors \ Requests
         /\ Earlier[i].merchant \in Merchants /\ Earlier[i].wallet \in Wallets
         /\ Earlier[i].networks \in Seq(Networks)
         /\ NetworksIn(Earlier[i]) \subseteq Networks
  <2> SUFFICES ASSUME NEW i \in DOMAIN Earlier
               PROVE  /\ i \in Authors \ Requests
                      /\ Earlier[i].merchant \in Merchants /\ Earlier[i].wallet \in Wallets
                      /\ Earlier[i].networks \in Seq(Networks)
                      /\ NetworksIn(Earlier[i]) \subseteq Networks
    OBVIOUS
  <2>1. Earlier[i] \in CreatesWith(Seq(Networks))
    BY EarlierAssumption
  <2>2. Earlier[i].networks \in Seq(Networks)
    BY <2>1 DEF CreatesWith
  <2>3. NetworksIn(Earlier[i]) \subseteq Networks
    BY <2>2 DEF NetworksIn
  <2>4. QED BY <2>1, <2>2, <2>3, EarlierAssumption DEF CreatesWith, Authors
<1>2. rows = {Row(p[1], p[2]) : p \in {q \in Authors \X Networks :
                 q[1] \in DOMAIN Earlier /\ q[2] \in NetworksIn(Earlier[q[1]])}}
  BY <1>1 DEF Init
<1>3. \A d \in rows : \E i \in DOMAIN Earlier : \E n \in NetworksIn(Earlier[i]) :
         d = Row(i, n)
  BY <1>2
<1>4. \A i \in DOMAIN Earlier : \A n \in NetworksIn(Earlier[i]) :
         Row(i, n) \in Rows /\ RowInv(Row(i, n))
  BY <1>1, EarlierAssumption DEF RowInv, Rows, Ids, Past, AskOf, ListedBy
<1>5. rows \subseteq Rows /\ \A d \in rows : RowInv(d)
  BY <1>3, <1>4
<1>6. \A d, e \in rows : d.merchant = e.merchant /\ d.network = e.network => d = e
  BY <1>3, EarlierAssumption
<1>7. NoMixing
  BY <1>1, <1>3, EarlierAssumption DEF NoMixing, ListedBy
<1>8. QED BY <1>5, <1>6, <1>7 DEF RowsInv

LEMMA InitIInv == Init => IInv
<1> SUFFICES ASSUME Init PROVE IInv
  OBVIOUS
<1>1. created \in [Authors -> Nat] /\ {a \in Authors : created[a] # 0} = DOMAIN Earlier
  <2>1. DOMAIN Earlier = 1..Len(Earlier) /\ Len(Earlier) \in Nat
    BY EarlierAssumption
  <2>2. QED BY <2>1, EarlierAssumption DEF Init, Authors
<1>2. ClockInv
  <2>1. DOMAIN Earlier = 1..Len(Earlier) /\ Len(Earlier) \in Nat
    BY EarlierAssumption
  <2>2. IsFiniteSet(1..Len(Earlier))
    BY <2>1, FS_Interval
  <2>3. QED BY <1>1, <2>1, <2>2 DEF ClockInv
<1>3. TypeOK
  BY <1>1, InitRows, SettlementAssumption DEF Init, TypeOK, NoPage
<1>4. \A r \in Requests : PlaceInv(r) /\ InsertInv(r) /\ DeleteInv(r)
  BY DEF Init, PlaceInv, InsertInv, DeleteInv
<1>5. DeletedStaysDeleted
  BY DEF Init, DeletedStaysDeleted
<1>6. QED BY <1>2, <1>3, <1>4, <1>5, InitRows DEF IInv

-----------------------------------------------------------------------------
(* Every step preserves it.                                                *)

Labels == {"idle"} \cup Running \cup Stopped
Statuses == {0, 200, 201, 204, 400, 401, 404, 500}

LEMMA PlacesAndStatuses ==
    /\ "check" \in Labels /\ "find" \in Labels /\ "list" \in Labels
    /\ "insert" \in Labels /\ "fetch" \in Labels /\ "delete" \in Labels
    /\ "both" \in Labels /\ "count" \in Labels /\ "scan" \in Labels
    /\ "done" \in Labels
    /\ 200 \in Statuses /\ 400 \in Statuses /\ 401 \in Statuses /\ 404 \in Statuses
    /\ 500 \in Statuses
  BY DEF Labels, Statuses

\* A handler goes on to a place there is, or answers.
LEMMA Moves ==
    ASSUME IInv, NEW r \in Requests, NEW label \in Labels, Goto(r, label)
    PROVE  /\ pc' \in [Requests -> {"idle"} \cup Running \cup Stopped]
           /\ reply' \in [Requests -> {0, 200, 201, 204, 400, 401, 404, 500}]
<1>1. pc \in [Requests -> Labels] /\ reply \in [Requests -> Statuses]
  BY DEF IInv, TypeOK, Labels, Statuses
<1> HIDE DEF Labels, Statuses
<1>2. pc' \in [Requests -> Labels] /\ reply' \in [Requests -> Statuses]
  BY <1>1
<1>3. QED BY <1>2 DEF Labels, Statuses

LEMMA Answers ==
    ASSUME IInv, NEW r \in Requests, NEW status \in Statuses, Answer(r, status)
    PROVE  /\ pc' \in [Requests -> {"idle"} \cup Running \cup Stopped]
           /\ reply' \in [Requests -> {0, 200, 201, 204, 400, 401, 404, 500}]
<1>1. pc \in [Requests -> Labels] /\ reply \in [Requests -> Statuses]
  BY DEF IInv, TypeOK, Labels, Statuses
<1>2. "done" \in Labels
  BY PlacesAndStatuses
<1> HIDE DEF Labels, Statuses
<1>3. pc' \in [Requests -> Labels] /\ reply' \in [Requests -> Statuses]
  BY <1>1, <1>2
<1>4. QED BY <1>3 DEF Labels, Statuses

\* Rows stay good while none is written and no author of one changes.
LEMMA RowsKept ==
    ASSUME IInv, rows' \subseteq rows,
           \A a \in Authors : Past(a) => Past(a)' /\ AskOf(a)' = AskOf(a)
    PROVE  RowsInv'
<1>1. \A d \in rows : /\ d.id[1] \in Authors /\ d.by \in Authors
                      /\ Past(d.id[1]) /\ Past(d.by)
  BY DEF IInv, TypeOK, RowsInv, RowInv, Rows, Ids
<1>2. \A d \in rows : ListedBy(d.by)' = ListedBy(d.by)
  BY <1>1 DEF ListedBy, AskOf
<1>3. \A d \in rows : RowInv(d) => RowInv(d)'
  BY <1>1, <1>2 DEF RowInv, SameChain
<1>4. QED BY <1>2, <1>3 DEF IInv, RowsInv, NoMixing

\* A Delete stays where it is, or goes on to its answer.
LEMMA DeletesKept ==
    ASSUME IInv, NEW q \in Requests,
           pc'[q] = "delete" => pc[q] = "delete" /\ found'[q] = found[q],
           reply'[q] = 204 => reply[q] = 204 \/ pc[q] = "delete",
           pc[q] # "idle" => msg'[q] = msg[q],
           \A a : Past(a) => Past(a)' /\ AskOf(a)' = AskOf(a)
    PROVE  DeleteInv(q)'
<1>1. DeleteInv(q) /\ PlaceInv(q)
  BY DEF IInv
<1>2. pc[q] # "idle" => (msg[q].id)' = msg[q].id /\ (msg[q].merchant)' = msg[q].merchant
  OBVIOUS
<1>3. QED BY <1>1, <1>2 DEF DeleteInv, PlaceInv

LEMMA SendStep ==
    ASSUME IInv, NEW r \in Requests, NEW m \in Sendable, Send(r, m)
    PROVE  IInv'
<1>1. m \in Asks /\ m.op \in {"create", "delete", "list"}
  BY Kinds DEF Sendable, Asks
<1>2. /\ pc[r] = "idle" /\ reply[r] = 0
      /\ pc' = [pc EXCEPT ![r] = pc'[r]] /\ pc'[r] \in {"check", "find", "list"}
      /\ pc'[r] = "check" => m.op = "create"
      /\ pc'[r] = "find" => m.op = "delete"
      /\ pc'[r] = "list" => m.op = "list"
      /\ msg' = [msg EXCEPT ![r] = m]
      /\ UNCHANGED <<reply, rows, locks, todo, read, created, budget>>
  <2>1. pc[r] = "idle" /\ reply[r] = 0
    BY DEF Send, IInv, TypeOK, PlaceInv
  <2>2. \E label \in {"check", "find", "list"} :
           /\ pc' = [pc EXCEPT ![r] = label]
           /\ label = "check" => m.op = "create"
           /\ label = "find" => m.op = "delete"
           /\ label = "list" => m.op = "list"
    BY <1>1 DEF Send
  <2>3. DOMAIN pc = Requests
    BY DEF IInv, TypeOK
  <2>4. /\ msg' = [msg EXCEPT ![r] = m]
        /\ UNCHANGED <<reply, rows, locks, todo, read, created, budget>>
    BY DEF Send
  <2>5. QED BY <2>1, <2>2, <2>3, <2>4
<1>3. TypeOK'
  <2>1. pc' \in [Requests -> {"idle"} \cup Running \cup Stopped]
    BY <1>2, Moves, Answers, PlacesAndStatuses
  <2>2. msg' \in [Requests -> Creates \cup Deletes \cup Lists \cup Refused \cup {None}]
    BY <1>1, <1>2 DEF Asks, IInv, TypeOK
  <2>3. QED BY <1>2, <2>1, <2>2 DEF IInv, TypeOK
<1>4. ASSUME NEW q \in Requests PROVE PlaceInv(q)' /\ InsertInv(q)'
  BY <1>1, <1>2 DEF Asks, IInv, TypeOK, PlaceInv, InsertInv, ListedBy
<1>5. \A a : Past(a) => Past(a)' /\ AskOf(a)' = AskOf(a)
  BY <1>2 DEF IInv, TypeOK, Past, AskOf
<1>6. ASSUME NEW q \in Requests PROVE DeleteInv(q)'
  BY <1>2, <1>5 DEF IInv, TypeOK, DeleteInv
<1>7. RowsInv'
  BY <1>2, <1>5, RowsKept
<1>8. DeletedStaysDeleted' /\ ClockInv'
  BY <1>2 DEF IInv, TypeOK, DeletedStaysDeleted, ClockInv
<1>9. QED BY <1>3, <1>4, <1>6, <1>7, <1>8 DEF IInv

LEMMA CheckCreateStep ==
    ASSUME IInv, NEW r \in Requests, CheckCreate(r)
    PROVE  IInv'
<1>1. /\ msg[r] \in Asks /\ msg[r].op = "create" /\ pc[r] = "check" /\ reply[r] = 0
      /\ msg[r].form = "valid" => msg[r] \in Creates
  BY Kinds DEF CheckCreate, IInv, PlaceInv, Asks
<1> DEFINE Started == {a \in Authors : created[a] # 0}
<1>2. IsFiniteSet(Started) /\ Now \in Nat
  BY FS_CardinalityType DEF IInv, ClockInv, Now
<1>3. CASE /\ UNCHANGED <<rows, locks, todo, msg, read, created, budget>>
           /\ Answer(r, 400) \/ Answer(r, 401)
  <2>1. TypeOK'
    <3>1. pc' \in [Requests -> {"idle"} \cup Running \cup Stopped]
      BY <1>3, Moves, Answers, PlacesAndStatuses
    <3>2. reply' \in [Requests -> {0, 200, 201, 204, 400, 401, 404, 500}]
      BY <1>3, Moves, Answers, PlacesAndStatuses
    <3>3. QED BY <1>3, <3>1, <3>2 DEF IInv, TypeOK
  <2>2. ASSUME NEW q \in Requests PROVE PlaceInv(q)' /\ InsertInv(q)'
    <3>1. CASE q = r
      BY <1>1, <1>3, <3>1 DEF IInv, TypeOK, PlaceInv, InsertInv
    <3>2. CASE q # r
      <4>1. pc'[q] = pc[q] /\ reply'[q] = reply[q]
        BY <1>3, <3>2 DEF IInv, TypeOK
      <4>2. QED BY <1>3, <4>1 DEF IInv, PlaceInv, InsertInv, ListedBy
    <3>3. QED BY <3>1, <3>2
  <2>3. \A a : Past(a) => Past(a)' /\ AskOf(a)' = AskOf(a)
    BY <1>3 DEF IInv, TypeOK, Past, AskOf
  <2>4. ASSUME NEW q \in Requests PROVE DeleteInv(q)'
    BY <1>3, <2>3 DEF IInv, TypeOK, DeleteInv
  <2>5. RowsInv'
    BY <1>3, <2>3, RowsKept
  <2>6. DeletedStaysDeleted' /\ ClockInv'
    BY <1>3 DEF IInv, TypeOK, DeletedStaysDeleted, ClockInv
  <2>7. QED BY <2>1, <2>2, <2>4, <2>5, <2>6 DEF IInv
<1>4. CASE /\ msg[r].form = "valid" /\ NetworksExist(r) /\ ChainsMatch(r)
           /\ todo' = [todo EXCEPT ![r] = msg[r].networks]
           /\ created' = [created EXCEPT ![r] = Now]
           /\ Goto(r, "insert")
           /\ UNCHANGED <<rows, locks, msg, read, budget>>
  <2>1. ListedBy(r) \subseteq Networks /\ msg[r].networks \in Seq(Networks)
    BY <1>1, <1>4, ListedAreKnown
  <2>2. TypeOK'
    <3>1. pc' \in [Requests -> {"idle"} \cup Running \cup Stopped]
      BY <1>4 DEF IInv, TypeOK
    <3>2. created' \in [Authors -> Nat]
      BY <1>2, <1>4 DEF IInv, TypeOK
    <3>3. todo' \in [Requests -> Seq(Networks)]
      BY <1>4, <2>1 DEF IInv, TypeOK
    <3>4. QED BY <1>4, <3>1, <3>2, <3>3 DEF IInv, TypeOK
  <2>3. ASSUME NEW q \in Requests PROVE PlaceInv(q)'
    BY <1>1, <1>4 DEF IInv, TypeOK, PlaceInv
  <2>4. \A n \in ListedBy(r) : SameChain(msg[r].wallet, n)
    BY <1>4, <2>1 DEF ChainsMatch
  <2>5. ListedBy(r) = {msg[r].networks[i] : i \in DOMAIN msg[r].networks}
    BY DEF ListedBy, NetworksIn
  <2>6. locks[r] = {}
    BY <1>1 DEF IInv, InsertInv
  <2>7. ASSUME NEW q \in Requests PROVE InsertInv(q)'
    <3>1. CASE q = r
      BY <1>4, <2>1, <2>4, <2>5, <2>6, <3>1
      DEF IInv, TypeOK, InsertInv, ListedBy, SameChain
    <3>2. CASE q # r
      BY <1>4, <3>2 DEF IInv, TypeOK, InsertInv, ListedBy, SameChain
    <3>3. QED BY <3>1, <3>2
  <2>8. \A a : Past(a) => Past(a)' /\ AskOf(a)' = AskOf(a)
    BY <1>1, <1>4 DEF IInv, TypeOK, Past, AskOf
  <2>9. ASSUME NEW q \in Requests PROVE DeleteInv(q)'
    BY <1>4, <2>8 DEF IInv, TypeOK, DeleteInv
  <2>10. RowsInv'
    BY <1>4, <2>8, RowsKept
  <2>11. DeletedStaysDeleted'
    BY <1>4 DEF IInv, TypeOK, DeletedStaysDeleted
  <2>12. ClockInv'
    <3>1. {a \in Authors : created'[a] # 0} \in SUBSET (Started \cup {r})
      BY <1>4 DEF IInv, TypeOK
    <3> HIDE DEF Started
    <3>2. IsFiniteSet(Started \cup {r})
      BY <1>2, FS_AddElement
    <3>3. QED BY <3>1, <3>2, FS_Subset DEF ClockInv
  <2>13. QED BY <2>2, <2>3, <2>7, <2>9, <2>10, <2>11, <2>12 DEF IInv
<1>5. QED BY <1>3, <1>4 DEF CheckCreate

LEMMA InsertRowStep ==
    ASSUME IInv, NEW r \in Requests, InsertRow(r)
    PROVE  IInv'
<1>1. /\ pc[r] = "insert" /\ todo[r] \in Seq(Networks) /\ todo[r] # <<>>
      /\ msg[r].merchant \in Merchants
  BY Kinds DEF InsertRow, IInv, TypeOK, PlaceInv, Asks
<1> DEFINE h == Head(todo[r])
           t == Tail(todo[r])
<1>2. /\ h \in Networks /\ t \in Seq(Networks)
      /\ \E i \in DOMAIN todo[r] : todo[r][i] = h
      /\ \A i \in DOMAIN t : \E j \in DOMAIN todo[r] : todo[r][j] = t[i]
      /\ \A j \in DOMAIN todo[r] :
            todo[r][j] = h \/ \E i \in DOMAIN t : t[i] = todo[r][j]
  BY <1>1, TailElements
<1> HIDE DEF h, t
<1>3. /\ locks' = [locks EXCEPT ![r] = @ \cup {<<msg[r].merchant, h>>}]
      /\ todo' = [todo EXCEPT ![r] = t]
      /\ UNCHANGED <<rows, request, msg, read, created, budget>>
  BY DEF InsertRow, NextKey, h, t, IInv, TypeOK
<1>4. TypeOK'
  BY <1>1, <1>2, <1>3 DEF IInv, TypeOK
<1>5. ASSUME NEW q \in Requests PROVE PlaceInv(q)'
  BY <1>3 DEF IInv, PlaceInv
<1>6. ASSUME NEW q \in Requests PROVE InsertInv(q)'
  <2>1. ListedBy(q)' = ListedBy(q)
    BY <1>3 DEF ListedBy
  <2>2. CASE q = r
    <3>1. InsertInv(r)
      BY DEF IInv
    <3>2. h \in ListedBy(r)
      BY <1>1, <1>2, <3>1 DEF InsertInv
    <3>3. locks'[r] = locks[r] \cup {<<msg[r].merchant, h>>} /\ todo'[r] = t
      BY <1>3 DEF IInv, TypeOK
    <3>4. QED BY <1>1, <1>2, <1>3, <2>1, <2>2, <3>1, <3>2, <3>3
              DEF InsertInv, SameChain
  <2>3. CASE q # r
    BY <1>3, <2>1, <2>3 DEF IInv, TypeOK, InsertInv, SameChain
  <2>4. QED BY <2>2, <2>3
<1>7. \A a : Past(a) => Past(a)' /\ AskOf(a)' = AskOf(a)
  BY <1>3 DEF Past, AskOf
<1>8. ASSUME NEW q \in Requests PROVE DeleteInv(q)'
  BY <1>3, <1>7 DEF IInv, DeleteInv
<1>9. RowsInv'
  BY <1>3, <1>7, RowsKept
<1>10. DeletedStaysDeleted' /\ ClockInv'
  BY <1>3 DEF IInv, DeletedStaysDeleted, ClockInv
<1>11. QED BY <1>4, <1>5, <1>6, <1>8, <1>9, <1>10 DEF IInv

LEMMA FetchRowsStep ==
    ASSUME IInv, NEW r \in Requests, FetchRows(r)
    PROVE  IInv'
<1>1. TypeOK'
  BY DEF FetchRows, IInv, TypeOK
<1>2. ASSUME NEW q \in Requests PROVE PlaceInv(q)' /\ InsertInv(q)'
  BY DEF FetchRows, IInv, TypeOK, PlaceInv, InsertInv, ListedBy
<1>3. ASSUME NEW q \in Requests PROVE DeleteInv(q)'
  <2>1. \A a : Past(a) => Past(a)' /\ AskOf(a)' = AskOf(a)
    BY DEF FetchRows, IInv, TypeOK, Past, AskOf
  <2>2. QED BY DeletesKept, <2>1 DEF FetchRows, IInv, TypeOK
<1>4. RowsInv'
  <2>1. \A a \in Authors : Past(a) => Past(a)' /\ AskOf(a)' = AskOf(a)
    BY DEF FetchRows, IInv, TypeOK, Past, AskOf
  <2>2. QED BY <2>1, RowsKept DEF FetchRows
<1>5. DeletedStaysDeleted' /\ ClockInv'
  BY DEF FetchRows, IInv, TypeOK, PlaceInv, DeletedStaysDeleted, ClockInv
<1>6. QED BY <1>1, <1>2, <1>3, <1>4, <1>5 DEF IInv

LEMMA DeadlockVictimStep ==
    ASSUME IInv, NEW r \in Requests, DeadlockVictim(r)
    PROVE  IInv'
<1>1. pc[r] = "insert"
  BY DEF DeadlockVictim, Deadlocked, WaitsFor
<1>2. TypeOK'
  BY DEF DeadlockVictim, Release, IInv, TypeOK
<1>3. ASSUME NEW q \in Requests PROVE PlaceInv(q)' /\ InsertInv(q)'
  BY <1>1 DEF DeadlockVictim, Release, IInv, TypeOK, PlaceInv, InsertInv, ListedBy
<1>4. ASSUME NEW q \in Requests PROVE DeleteInv(q)'
  <2>1. \A a : Past(a) => Past(a)' /\ AskOf(a)' = AskOf(a)
    BY DEF DeadlockVictim, IInv, TypeOK, Past, AskOf
  <2>2. QED BY DeletesKept, <2>1 DEF DeadlockVictim, IInv, TypeOK
<1>5. RowsInv'
  <2>1. \A a : Past(a) => Past(a)' /\ AskOf(a)' = AskOf(a)
    BY DEF DeadlockVictim, IInv, TypeOK, Past, AskOf
  <2>2. QED BY <2>1, RowsKept DEF DeadlockVictim
<1>6. DeletedStaysDeleted' /\ ClockInv'
  BY DEF DeadlockVictim, IInv, TypeOK, DeletedStaysDeleted, ClockInv
<1>7. QED BY <1>2, <1>3, <1>4, <1>5, <1>6 DEF IInv

LEMMA FindRowStep ==
    ASSUME IInv, NEW r \in Requests, FindRow(r)
    PROVE  IInv'
<1>1. UNCHANGED <<rows, locks, todo, msg, created, page, budget>> /\ pc[r] = "find"
  BY DEF FindRow
<1>2. \/ (Answer(r, 400) \/ Answer(r, 401) \/ Answer(r, 404)) /\ UNCHANGED found
      \/ /\ msg[r].form = "valid" /\ Goto(r, "delete")
         /\ \E d \in rows : /\ d.id = msg[r].id /\ d.merchant = msg[r].merchant
                            /\ found' = [found EXCEPT ![r] = d]
  BY DEF FindRow
<1>3. TypeOK'
  <2>1. pc' \in [Requests -> {"idle"} \cup Running \cup Stopped]
    BY <1>2, Moves, Answers, PlacesAndStatuses
  <2>2. reply' \in [Requests -> {0, 200, 201, 204, 400, 401, 404, 500}]
    BY <1>2, Moves, Answers, PlacesAndStatuses
  <2>3. found' \in [Requests -> Rows \cup {None}]
    <3>1. rows \subseteq Rows /\ found \in [Requests -> Rows \cup {None}]
      BY DEF IInv, TypeOK
    <3>2. QED BY <1>2, <3>1
  <2>4. QED BY <1>1, <2>1, <2>2, <2>3 DEF IInv, TypeOK
<1>4. ASSUME NEW q \in Requests PROVE PlaceInv(q)' /\ InsertInv(q)'
  BY <1>1, <1>2 DEF IInv, TypeOK, PlaceInv, InsertInv, ListedBy
<1>5. \A a : Past(a) => Past(a)' /\ AskOf(a)' = AskOf(a)
  BY <1>1, <1>2 DEF IInv, TypeOK, Past, AskOf
<1>6. ASSUME NEW q \in Requests PROVE DeleteInv(q)'
  <2>1. \A d \in rows : /\ d \in Rows /\ Past(d.id[1])
                        /\ AskOf(d.id[1]).merchant = d.merchant
    BY DEF IInv, TypeOK, RowsInv, RowInv
  <2>2. DeleteInv(q)
    BY DEF IInv
  <2>3. reply[r] = 0
    BY <1>1 DEF IInv, PlaceInv
  <2>4. CASE \/ q # r
             \/ (Answer(r, 400) \/ Answer(r, 401) \/ Answer(r, 404)) /\ UNCHANGED found
    <3>1. /\ pc'[q] = "delete" => pc[q] = "delete" /\ found'[q] = found[q]
          /\ reply'[q] = 204 => reply[q] = 204
      BY <1>1, <1>2, <2>4 DEF IInv, TypeOK
    <3>2. QED BY <1>1, <1>5, <3>1, DeletesKept
  <2>5. CASE /\ q = r /\ Goto(r, "delete")
             /\ \E d \in rows : /\ d.id = msg[r].id /\ d.merchant = msg[r].merchant
                                /\ found' = [found EXCEPT ![r] = d]
    <3>1. PICK d \in rows : /\ d.id = msg[r].id /\ d.merchant = msg[r].merchant
                            /\ found' = [found EXCEPT ![r] = d]
      BY <2>5
    <3>2. found'[r] = d
      BY <3>1 DEF IInv, TypeOK
    <3>3. AskOf(d.id[1])' = AskOf(d.id[1]) /\ Past(d.id[1])'
      BY <1>5, <2>1
    <3>4. (msg[r].id)' = d.id /\ (msg[r].merchant)' = d.merchant
      BY <1>1, <3>1
    <3>5. QED BY <2>1, <2>3, <2>5, <3>2, <3>3, <3>4 DEF DeleteInv
  <2>6. QED BY <1>2, <2>4, <2>5
<1>7. RowsInv'
  BY <1>1, <1>5, RowsKept
<1>8. DeletedStaysDeleted' /\ ClockInv'
  <2>1. reply \in [Requests -> {0, 200, 201, 204, 400, 401, 404, 500}]
    BY DEF IInv, TypeOK
  <2>2. reply' = reply \/ \E status \in {400, 401, 404} : reply' = [reply EXCEPT ![r] = status]
    BY <1>2
  <2>3. QED BY <1>1, <2>1, <2>2 DEF IInv, DeletedStaysDeleted, ClockInv
<1>9. QED BY <1>3, <1>4, <1>6, <1>7, <1>8 DEF IInv

LEMMA DeleteRowStep ==
    ASSUME IInv, NEW r \in Requests, DeleteRow(r)
    PROVE  IInv'
<1>1. TypeOK'
  BY DEF DeleteRow, Remove, IInv, TypeOK
<1>2. ASSUME NEW q \in Requests PROVE PlaceInv(q)' /\ InsertInv(q)'
  BY DEF DeleteRow, Remove, IInv, TypeOK, PlaceInv, InsertInv, ListedBy
<1>3. ASSUME NEW q \in Requests PROVE DeleteInv(q)'
  <2>1. \A a : Past(a) => Past(a)' /\ AskOf(a)' = AskOf(a)
    BY DEF DeleteRow, Remove, IInv, TypeOK, Past, AskOf
  <2>2. QED BY DeletesKept, <2>1 DEF DeleteRow, Remove, IInv, TypeOK
<1>4. RowsInv'
  <2>1. \A a \in Authors : Past(a) => Past(a)' /\ AskOf(a)' = AskOf(a)
    BY DEF DeleteRow, Remove, IInv, TypeOK, Past, AskOf
  <2>2. QED BY <2>1, RowsKept DEF DeleteRow, Remove
<1>5. DeletedStaysDeleted' /\ ClockInv'
  BY DEF DeleteRow, Remove, IInv, TypeOK, DeleteInv, DeletedStaysDeleted, ClockInv
<1>6. QED BY <1>1, <1>2, <1>3, <1>4, <1>5 DEF IInv

LEMMA CheckListStep ==
    ASSUME IInv, NEW r \in Requests, CheckList(r)
    PROVE  IInv'
<1>1. UNCHANGED <<rows, locks, todo, msg, read, created, budget>> /\ pc[r] = "list"
  BY DEF CheckList
<1>2. Goto(r, "both") \/ Answer(r, 400)
  BY DEF CheckList
<1>3. TypeOK'
  <2>1. pc' \in [Requests -> {"idle"} \cup Running \cup Stopped]
    BY <1>2, Moves, Answers, PlacesAndStatuses
  <2>2. reply' \in [Requests -> {0, 200, 201, 204, 400, 401, 404, 500}]
    BY <1>2, Moves, Answers, PlacesAndStatuses
  <2>3. QED BY <1>1, <2>1, <2>2 DEF IInv, TypeOK
<1>4. ASSUME NEW q \in Requests PROVE PlaceInv(q)' /\ InsertInv(q)'
  BY <1>1, <1>2 DEF IInv, TypeOK, PlaceInv, InsertInv, ListedBy
<1>5. \A a : Past(a) => Past(a)' /\ AskOf(a)' = AskOf(a)
  BY <1>1, <1>2 DEF IInv, TypeOK, Past, AskOf
<1>6. ASSUME NEW q \in Requests PROVE DeleteInv(q)'
  BY <1>1, <1>2, <1>5 DEF IInv, TypeOK, DeleteInv
<1>7. RowsInv'
  BY <1>1, <1>5, RowsKept
<1>8. DeletedStaysDeleted' /\ ClockInv'
  BY <1>1, <1>2 DEF IInv, TypeOK, DeletedStaysDeleted, ClockInv
<1>9. QED BY <1>3, <1>4, <1>6, <1>7, <1>8 DEF IInv

LEMMA CountRowsStep ==
    ASSUME IInv, NEW r \in Requests, CountRows(r)
    PROVE  IInv'
<1>1. /\ UNCHANGED <<rows, locks, todo, msg, read, created, budget>>
      /\ pc[r] \in {"both", "count"}
  BY DEF CountRows
<1>2. Goto(r, "scan") \/ Answer(r, 200)
  BY DEF CountRows
<1>3. TypeOK'
  <2>1. pc' \in [Requests -> {"idle"} \cup Running \cup Stopped]
    BY <1>2, Moves, Answers, PlacesAndStatuses
  <2>2. reply' \in [Requests -> {0, 200, 201, 204, 400, 401, 404, 500}]
    BY <1>2, Moves, Answers, PlacesAndStatuses
  <2>3. QED BY <1>1, <2>1, <2>2 DEF IInv, TypeOK
<1>4. ASSUME NEW q \in Requests PROVE PlaceInv(q)' /\ InsertInv(q)'
  BY <1>1, <1>2 DEF IInv, TypeOK, PlaceInv, InsertInv, ListedBy
<1>5. \A a : Past(a) => Past(a)' /\ AskOf(a)' = AskOf(a)
  BY <1>1, <1>2 DEF IInv, TypeOK, Past, AskOf
<1>6. ASSUME NEW q \in Requests PROVE DeleteInv(q)'
  BY <1>1, <1>2, <1>5 DEF IInv, TypeOK, DeleteInv
<1>7. RowsInv'
  BY <1>1, <1>5, RowsKept
<1>8. DeletedStaysDeleted' /\ ClockInv'
  BY <1>1, <1>2 DEF IInv, TypeOK, DeletedStaysDeleted, ClockInv
<1>9. QED BY <1>3, <1>4, <1>6, <1>7, <1>8 DEF IInv

LEMMA ScanPageStep ==
    ASSUME IInv, NEW r \in Requests, ScanPage(r)
    PROVE  IInv'
<1>1. /\ UNCHANGED <<rows, locks, todo, msg, found, created, budget>>
      /\ pc[r] \in {"both", "scan"}
  BY DEF ScanPage
<1>2. Goto(r, "count") \/ Answer(r, 200)
  BY DEF ScanPage
<1>3. TypeOK'
  <2>1. pc' \in [Requests -> {"idle"} \cup Running \cup Stopped]
    BY <1>2, Moves, Answers, PlacesAndStatuses
  <2>2. reply' \in [Requests -> {0, 200, 201, 204, 400, 401, 404, 500}]
    BY <1>2, Moves, Answers, PlacesAndStatuses
  <2>3. page' \in [Requests -> [shown : SUBSET Ids, seen : SUBSET Ids]]
    <3> DEFINE own == {d \in rows : d.merchant = msg[r].merchant}
    <3>1. \A d \in own : d.id \in Ids
      BY DEF IInv, TypeOK, Rows
    <3> HIDE DEF own
    <3>2. PICK s \in Orders(own) :
             page' = [page EXCEPT ![r] =
                        [shown |-> {s[i].id : i \in Slice(r) \cap DOMAIN s},
                         seen |-> {d.id : d \in own}]]
      BY DEF ScanPage, own
    <3>3. \A i \in DOMAIN s : s[i] \in own
      BY DEF Orders, SeqExt!SetToSeqs
    <3>4. {s[i].id : i \in Slice(r) \cap DOMAIN s} \in SUBSET Ids
      BY <3>1, <3>3
    <3>5. {d.id : d \in own} \in SUBSET Ids
      BY <3>1
    <3>6. QED BY <3>2, <3>4, <3>5 DEF IInv, TypeOK
  <2>4. QED BY <1>1, <2>1, <2>2, <2>3 DEF IInv, TypeOK
<1>4. ASSUME NEW q \in Requests PROVE PlaceInv(q)' /\ InsertInv(q)'
  <2>1. \A p \in Requests \ {r} : page'[p] = page[p]
    BY DEF ScanPage, IInv, TypeOK
  <2>2. QED BY <1>1, <1>2, <2>1 DEF IInv, TypeOK, PlaceInv, InsertInv, ListedBy
<1>5. \A a : Past(a) => Past(a)' /\ AskOf(a)' = AskOf(a)
  BY <1>1, <1>2 DEF IInv, TypeOK, Past, AskOf
<1>6. ASSUME NEW q \in Requests PROVE DeleteInv(q)'
  BY <1>1, <1>2, <1>5 DEF IInv, TypeOK, DeleteInv
<1>7. RowsInv'
  BY <1>1, <1>5, RowsKept
<1>8. DeletedStaysDeleted' /\ ClockInv'
  BY <1>1, <1>2 DEF IInv, TypeOK, DeletedStaysDeleted, ClockInv
<1>9. QED BY <1>3, <1>4, <1>6, <1>7, <1>8 DEF IInv

LEMMA ReadFailsStep ==
    ASSUME IInv, NEW r \in Requests, ReadFails(r)
    PROVE  IInv'
<1>1. TypeOK'
  BY SettlementAssumption DEF ReadFails, IInv, TypeOK
<1>2. ASSUME NEW q \in Requests PROVE PlaceInv(q)' /\ InsertInv(q)'
  BY DEF ReadFails, IInv, TypeOK, PlaceInv, InsertInv, ListedBy
<1>3. ASSUME NEW q \in Requests PROVE DeleteInv(q)'
  <2>1. \A a : Past(a) => Past(a)' /\ AskOf(a)' = AskOf(a)
    BY DEF ReadFails, IInv, TypeOK, Past, AskOf
  <2>2. QED BY DeletesKept, <2>1 DEF ReadFails, IInv, TypeOK
<1>4. RowsInv'
  <2>1. \A a \in Authors : Past(a) => Past(a)' /\ AskOf(a)' = AskOf(a)
    BY DEF ReadFails, IInv, TypeOK, Past, AskOf
  <2>2. QED BY <2>1, RowsKept DEF ReadFails
<1>5. DeletedStaysDeleted' /\ ClockInv'
  BY DEF ReadFails, IInv, TypeOK, PlaceInv, DeletedStaysDeleted, ClockInv
<1>6. QED BY <1>1, <1>2, <1>3, <1>4, <1>5 DEF IInv

LEMMA DeleteFailsStep ==
    ASSUME IInv, NEW r \in Requests, DeleteFails(r)
    PROVE  IInv'
<1>1. TypeOK'
  BY SettlementAssumption DEF DeleteFails, Remove, IInv, TypeOK
<1>2. ASSUME NEW q \in Requests PROVE PlaceInv(q)' /\ InsertInv(q)'
  BY DEF DeleteFails, Remove, IInv, TypeOK, PlaceInv, InsertInv, ListedBy
<1>3. ASSUME NEW q \in Requests PROVE DeleteInv(q)'
  <2>1. \A a : Past(a) => Past(a)' /\ AskOf(a)' = AskOf(a)
    BY DEF DeleteFails, Remove, IInv, TypeOK, Past, AskOf
  <2>2. QED BY DeletesKept, <2>1 DEF DeleteFails, Remove, IInv, TypeOK
<1>4. RowsInv'
  <2>1. \A a \in Authors : Past(a) => Past(a)' /\ AskOf(a)' = AskOf(a)
    BY DEF DeleteFails, Remove, IInv, TypeOK, Past, AskOf
  <2>2. QED BY <2>1, RowsKept DEF DeleteFails, Remove
<1>5. DeletedStaysDeleted' /\ ClockInv'
  BY DEF DeleteFails, Remove, IInv, TypeOK, PlaceInv, DeletedStaysDeleted, ClockInv
<1>6. QED BY <1>1, <1>2, <1>3, <1>4, <1>5 DEF IInv

LEMMA CrashStep ==
    ASSUME IInv, Crash
    PROVE  IInv'
<1>1. TypeOK'
  BY SettlementAssumption DEF Crash, IInv, TypeOK
<1>2. ASSUME NEW q \in Requests PROVE PlaceInv(q)' /\ InsertInv(q)'
  BY DEF Crash, IInv, TypeOK, PlaceInv, InsertInv, ListedBy
<1>3. ASSUME NEW q \in Requests PROVE DeleteInv(q)'
  BY DEF Crash, IInv, TypeOK, PlaceInv, DeleteInv, Past
<1>4. RowsInv'
  <2>1. \A a \in Authors : Past(a) => Past(a)' /\ AskOf(a)' = AskOf(a)
    BY DEF Crash, IInv, TypeOK, Past, AskOf
  <2>2. QED BY <2>1, RowsKept DEF Crash
<1>5. DeletedStaysDeleted' /\ ClockInv'
  BY DEF Crash, IInv, TypeOK, PlaceInv, DeletedStaysDeleted, ClockInv
<1>6. QED BY <1>1, <1>2, <1>3, <1>4, <1>5 DEF IInv

-----------------------------------------------------------------------------
(* An INSERT takes effect.                                                 *)

\* The row for one network that the INSERT of r publishes.
Written(r, d) ==
    /\ d \in Rows /\ d.merchant = msg[r].merchant /\ d.network \in ListedBy(r)
    /\ d.address = msg[r].wallet /\ d.by = r
    /\ \/ \E e \in rows : /\ e.merchant = d.merchant /\ e.network = d.network
                          /\ e.id = d.id
       \/ /\ d.id = <<r, d.network>>
          /\ \A e \in rows : ~ (e.merchant = d.merchant /\ e.network = d.network)

\* At its end an INSERT holds its networks, and writes one row for each of them.
LEMMA UpsertedRows ==
    ASSUME IInv, NEW r \in Requests, pc[r] = "insert", NEW n \in ListedBy(r)
    PROVE  \E d \in Rows : /\ Upserted(r, n) = {d} /\ Written(r, d)
                           /\ d.network = n
<1>1. /\ msg[r].merchant \in Merchants /\ msg[r].wallet \in Wallets
      /\ n \in Networks /\ rows \subseteq Rows /\ r \in Authors
  BY Kinds DEF IInv, PlaceInv, InsertInv, Asks, TypeOK, Authors
<1> DEFINE conflict == {d \in rows : d.merchant = msg[r].merchant /\ d.network = n}
<1>2. CASE conflict = {}
  <2> DEFINE new == [id |-> <<r, n>>, merchant |-> msg[r].merchant, network |-> n,
                     address |-> msg[r].wallet, by |-> r]
  <2>1. Upserted(r, n) = {new}
    BY <1>2 DEF Upserted
  <2>2. new \in Rows
    BY <1>1 DEF Rows, Ids
  <2>3. Written(r, new)
    BY <1>2, <2>2 DEF Written
  <2>4. QED BY <2>1, <2>2, <2>3
<1>3. CASE conflict # {}
  <2>1. PICK e \in conflict : TRUE
    BY <1>3
  <2>2. conflict = {e}
    BY <2>1 DEF IInv, RowsInv
  <2> DEFINE new == [e EXCEPT !.address = msg[r].wallet, !.by = r]
  <2>3. Upserted(r, n) = {new}
    <3>1. Upserted(r, n) =
            {[d EXCEPT !.address = msg[r].wallet, !.by = r] : d \in conflict}
      BY <1>3 DEF Upserted
    <3> HIDE DEF conflict
    <3>2. QED BY <2>2, <3>1
  <2>4. e \in Rows
    BY <1>1
  <2>5. /\ new \in Rows /\ new.id = e.id /\ new.merchant = e.merchant
        /\ new.network = e.network /\ new.address = msg[r].wallet /\ new.by = r
    BY <1>1, <2>4 DEF Rows
  <2> HIDE DEF new
  <2>6. Written(r, new)
    BY <2>1, <2>5 DEF Written
  <2>7. QED BY <2>1, <2>3, <2>5, <2>6
<1>4. QED BY <1>2, <1>3

LEMMA PublishedRows ==
    ASSUME IInv, NEW r \in Requests, pc[r] = "insert", todo[r] = <<>>, Publish(r)
    PROVE  /\ \A d \in rows' :
                 \/ /\ d \in rows
                    /\ ~ (d.merchant = msg[r].merchant /\ d.network \in ListedBy(r))
                 \/ Written(r, d)
           /\ \A d \in rows :
                 ~ (d.merchant = msg[r].merchant /\ d.network \in ListedBy(r)) => d \in rows'
           /\ \A n \in ListedBy(r) : \E d \in rows' : Written(r, d) /\ d.network = n
<1> DEFINE m == msg[r].merchant
           L == ListedBy(r)
<1>1. locks[r] = {m} \X L /\ L \subseteq Networks
  BY DEF IInv, InsertInv
<1>2. {n \in Networks : <<m, n>> \in locks[r]} = L
  BY <1>1
<1>3. rows' = {d \in rows : <<d.merchant, d.network>> \notin locks[r]}
              \cup UNION {Upserted(r, n) : n \in L}
  BY <1>2 DEF Publish
<1> HIDE DEF L
<1>4. \A d \in rows : <<d.merchant, d.network>> \notin locks[r]
                         <=> ~ (d.merchant = m /\ d.network \in L)
  BY <1>1
<1>5. \A n \in L : \E d \in Rows : Upserted(r, n) = {d} /\ Written(r, d) /\ d.network = n
  BY UpsertedRows DEF L
<1> HIDE DEF m
<1>6. \A d \in rows' : (d \in rows /\ ~ (d.merchant = m /\ d.network \in L))
                       \/ Written(r, d)
  <2> SUFFICES ASSUME NEW d \in rows', ~ Written(r, d)
               PROVE  d \in rows /\ ~ (d.merchant = m /\ d.network \in L)
    OBVIOUS
  <2>1. \A n \in L : d \notin Upserted(r, n)
    BY <1>5
  <2>2. QED BY <1>3, <1>4, <2>1
<1>7. \A n \in L : \E d \in rows' : Written(r, d) /\ d.network = n
  BY <1>3, <1>5
<1>8. \A d \in rows : ~ (d.merchant = m /\ d.network \in L) => d \in rows'
  BY <1>3, <1>4
<1>9. QED BY <1>6, <1>7, <1>8 DEF L, m

LEMMA PublishStep ==
    ASSUME IInv, NEW r \in Requests, pc[r] = "insert", todo[r] = <<>>, Publish(r),
           UNCHANGED msg,
           pc' = [pc EXCEPT ![r] = "fetch"] \/ pc' = [pc EXCEPT ![r] = "done"],
           \A q \in Requests : reply'[q] = 204 => reply[q] = 204
    PROVE  rows' \subseteq Rows /\ RowsInv' /\ DeletedStaysDeleted'
<1> DEFINE Old(d) == /\ d \in rows
                     /\ ~ (d.merchant = msg[r].merchant /\ d.network \in ListedBy(r))
<1>1. \A d \in rows' : Old(d) \/ Written(r, d)
  BY PublishedRows
<1>2. rows \subseteq Rows /\ r \in Authors
  BY DEF IInv, TypeOK, Authors
<1>3. rows' \subseteq Rows
  BY <1>1, <1>2 DEF Written
<1>4. /\ ~ Past(r) /\ Past(r)'
      /\ \A a : Past(a) => Past(a)' /\ AskOf(a)' = AskOf(a) /\ ListedBy(a)' = ListedBy(a)
  BY DEF IInv, TypeOK, Past, AskOf, ListedBy
<1>5. \A d \in rows : RowInv(d)
  BY DEF IInv, RowsInv
<1>6. ASSUME NEW d \in rows', Old(d) PROVE RowInv(d)'
  BY <1>4, <1>5, <1>6 DEF RowInv, SameChain
<1>7. ASSUME NEW d \in rows', Written(r, d) PROVE RowInv(d)'
  <2>1. /\ d.by = r /\ d.network \in ListedBy(r) /\ d.merchant = msg[r].merchant
        /\ d.address = msg[r].wallet
    BY <1>7 DEF Written
  <2>2. AskOf(r)' = msg[r] /\ ListedBy(r)' = ListedBy(r)
    BY DEF AskOf, ListedBy
  <2>3. SameChain(d.address, d.network)
    BY <2>1 DEF IInv, InsertInv
  <2>4. Past(d.id[1])' /\ d.id[2] = d.network /\ AskOf(d.id[1])'.merchant = d.merchant
    <3>1. CASE \E e \in rows : /\ e.merchant = d.merchant /\ e.network = d.network
                               /\ e.id = d.id
      BY <1>4, <1>5, <3>1 DEF RowInv
    <3>2. CASE d.id = <<r, d.network>>
      BY <1>4, <2>1, <2>2, <3>2
    <3>3. QED BY <1>7, <3>1, <3>2 DEF Written
  <2>5. QED BY <1>4, <2>1, <2>2, <2>3, <2>4 DEF RowInv, SameChain
<1>8. \A d, e \in rows' : d.merchant = e.merchant /\ d.network = e.network => d = e
  <2> SUFFICES ASSUME NEW d \in rows', NEW e \in rows',
                      d.merchant = e.merchant, d.network = e.network
               PROVE  d = e
    OBVIOUS
  <2>1. CASE Old(d) \/ Old(e)
    BY <1>1, <2>1 DEF IInv, RowsInv, Written
  <2>2. CASE Written(r, d) /\ Written(r, e)
    <3>1. d.id = e.id
      BY <2>2 DEF Written, IInv, RowsInv
    <3>2. QED BY <2>2, <3>1 DEF Written, Rows
  <2>3. QED BY <1>1, <2>1, <2>2
<1>9. NoMixing'
  <2> SUFFICES ASSUME NEW d \in rows', NEW e \in rows', d.merchant = e.merchant,
                      d.by # e.by,
                      {d.network, e.network} \subseteq ListedBy(d.by)' \cap ListedBy(e.by)'
               PROVE  FALSE
    BY DEF NoMixing
  <2>1. CASE Old(d) /\ Old(e)
    <3>1. ListedBy(d.by)' = ListedBy(d.by) /\ ListedBy(e.by)' = ListedBy(e.by)
      BY <1>4, <1>5, <2>1 DEF RowInv
    <3>2. QED BY <2>1, <3>1 DEF IInv, RowsInv, NoMixing
  <2>2. CASE Written(r, d) \/ Written(r, e)
    <3>1. ListedBy(r)' = ListedBy(r)
      BY DEF ListedBy
    <3>2. QED BY <1>1, <2>2, <3>1 DEF Written
  <2>3. QED BY <1>1, <2>1, <2>2
<1>10. DeletedStaysDeleted'
  <2> SUFFICES ASSUME NEW q \in Requests, reply[q] = 204, NEW d \in rows'
               PROVE  d.id # msg[q].id
    BY DEF DeletedStaysDeleted
  <2>1. Past(msg[q].id[1]) /\ \A e \in rows : e.id # msg[q].id
    BY DEF IInv, DeleteInv, DeletedStaysDeleted
  <2>2. d.id[1] = r \/ \E e \in rows : e.id = d.id
    BY <1>1 DEF Written
  <2>3. QED BY <1>4, <2>1, <2>2
<1>11. RowsInv'
  BY <1>1, <1>6, <1>7, <1>8, <1>9 DEF RowsInv
<1>12. QED BY <1>3, <1>10, <1>11

LEMMA CommitInsertStep ==
    ASSUME IInv, NEW r \in Requests, CommitInsert(r)
    PROVE  IInv'
<1>1. /\ pc[r] = "insert" /\ todo[r] = <<>> /\ Publish(r) /\ Release(r)
      /\ Goto(r, "fetch") /\ UNCHANGED <<msg, read, created, budget>>
  BY DEF CommitInsert
<1>2. rows' \subseteq Rows /\ RowsInv' /\ DeletedStaysDeleted'
  BY <1>1, PublishStep
<1>3. TypeOK'
  <2>1. /\ pc' \in [Requests -> {"idle"} \cup Running \cup Stopped]
        /\ reply' \in [Requests -> {0, 200, 201, 204, 400, 401, 404, 500}]
    <3>1. Goto(r, "fetch")
      BY <1>1
    <3>2. QED BY <3>1, Moves, PlacesAndStatuses
  <2>2. QED BY <1>1, <1>2, <2>1 DEF Release, IInv, TypeOK
<1>4. ASSUME NEW q \in Requests PROVE PlaceInv(q)' /\ InsertInv(q)'
  BY <1>1 DEF Release, IInv, TypeOK, PlaceInv, InsertInv, ListedBy
<1>5. ASSUME NEW q \in Requests PROVE DeleteInv(q)'
  <2>1. \A a : Past(a) => Past(a)' /\ AskOf(a)' = AskOf(a)
    BY <1>1 DEF IInv, TypeOK, Past, AskOf
  <2>2. QED BY <1>1, DeletesKept, <2>1 DEF IInv, TypeOK
<1>6. ClockInv'
  BY <1>1 DEF IInv, ClockInv
<1>7. QED BY <1>2, <1>3, <1>4, <1>5, <1>6 DEF IInv

LEMMA InsertFailsStep ==
    ASSUME IInv, NEW r \in Requests, InsertFails(r)
    PROVE  IInv'
<1>1. /\ pc[r] = "insert" /\ Release(r) /\ Answer(r, 500) /\ Fault
      /\ UNCHANGED <<msg, read, created>>
      /\ (todo[r] = <<>> /\ Publish(r)) \/ UNCHANGED rows
  BY DEF InsertFails
<1>2. \A q \in Requests : reply'[q] = 204 => reply[q] = 204
  BY <1>1 DEF IInv, TypeOK
<1>3. rows' \subseteq Rows /\ RowsInv' /\ DeletedStaysDeleted'
  <2>1. CASE todo[r] = <<>> /\ Publish(r)
    BY <1>1, <1>2, <2>1, PublishStep
  <2>2. CASE UNCHANGED rows
    <3>1. \A a \in Authors : Past(a) => Past(a)' /\ AskOf(a)' = AskOf(a)
      BY <1>1 DEF IInv, TypeOK, Past, AskOf
    <3>2. RowsInv'
      BY <2>2, <3>1, RowsKept
    <3>3. QED BY <1>1, <1>2, <2>2, <3>2 DEF IInv, TypeOK, DeletedStaysDeleted
  <2>3. QED BY <1>1, <2>1, <2>2
<1>4. TypeOK'
  <2>1. /\ pc' \in [Requests -> {"idle"} \cup Running \cup Stopped]
        /\ reply' \in [Requests -> {0, 200, 201, 204, 400, 401, 404, 500}]
    <3>1. Answer(r, 500)
      BY <1>1
    <3> HIDE DEF Answer
    <3>2. QED BY <3>1, Answers, PlacesAndStatuses
  <2>2. QED BY <1>1, <1>3, <2>1, SettlementAssumption DEF Release, IInv, TypeOK
<1>5. ASSUME NEW q \in Requests PROVE PlaceInv(q)' /\ InsertInv(q)'
  BY <1>1 DEF Release, IInv, TypeOK, PlaceInv, InsertInv, ListedBy
<1>6. ASSUME NEW q \in Requests PROVE DeleteInv(q)'
  <2>1. \A a : Past(a) => Past(a)' /\ AskOf(a)' = AskOf(a)
    BY <1>1, <1>2 DEF IInv, TypeOK, Past, AskOf
  <2>2. QED BY <1>1, <1>2, DeletesKept, <2>1 DEF IInv, TypeOK
<1>7. ClockInv'
  BY <1>1 DEF IInv, ClockInv
<1>8. QED BY <1>3, <1>4, <1>5, <1>6, <1>7 DEF IInv

THEOREM NextIInv == IInv /\ [Next]_vars => IInv'
<1>1. CASE UNCHANGED vars
  <2>1. \A a : Past(a)' = Past(a) /\ AskOf(a)' = AskOf(a)
    BY <1>1 DEF Past, AskOf
  <2>2. IInv => RowsInv'
    BY <1>1, <2>1, RowsKept
  <2>3. QED
    BY <1>1, <2>1, <2>2
    DEF IInv, TypeOK, PlaceInv, InsertInv, DeleteInv, DeletedStaysDeleted, ClockInv,
        ListedBy, SameChain
<1>2. QED
  BY <1>1, SendStep, CheckCreateStep, InsertRowStep, CommitInsertStep, FetchRowsStep,
     DeadlockVictimStep, FindRowStep, DeleteRowStep, CheckListStep, CountRowsStep,
     ScanPageStep, ReadFailsStep, InsertFailsStep, DeleteFailsStep, CrashStep
  DEF Next, Step, StepFails, Finished

-----------------------------------------------------------------------------
(* The safety properties of Settlement.                                    *)

LEMMA Invariance == Spec => []IInv
  BY InitIInv, NextIInv, PTL DEF Spec

\* Every variable keeps its type.
THEOREM TypeCorrect == Spec => []TypeOK
<1>1. IInv => TypeOK
  BY DEF IInv
<1>2. QED BY Invariance, <1>1, PTL

\* A merchant has one destination on a network, and an id names one destination.
THEOREM OneDestinationPerNetworkHolds == Spec => []OneDestinationPerNetwork
<1>1. ASSUME IInv PROVE OneDestinationPerNetwork
  <2>1. \A d, e \in rows : d.id = e.id => d.merchant = e.merchant /\ d.network = e.network
    BY <1>1 DEF IInv, RowsInv, RowInv
  <2>2. QED BY <1>1, <2>1 DEF IInv, RowsInv, OneDestinationPerNetwork
<1>2. QED BY Invariance, <1>1, PTL

\* Every stored address is of the chain of its network.
THEOREM AddressFitsNetworkHolds == Spec => []AddressFitsNetwork
<1>1. IInv => AddressFitsNetwork
  BY DEF IInv, RowsInv, RowInv, AddressFitsNetwork
<1>2. QED BY Invariance, <1>1, PTL

\* Of two Creates for the same networks one wins on all of them.
THEOREM NoMixingHolds == Spec => []NoMixing
<1>1. IInv => NoMixing
  BY DEF IInv, RowsInv
<1>2. QED BY Invariance, <1>1, PTL

\* A destination that was reported as deleted never shows again.
THEOREM DeletedStaysDeletedHolds == Spec => []DeletedStaysDeleted
<1>1. IInv => DeletedStaysDeleted
  BY DEF IInv
<1>2. QED BY Invariance, <1>1, PTL

-----------------------------------------------------------------------------
(* The pages of List.  A second inductive invariant, on top of IInv.       *)

\* The place of a destination among those a SELECT chose from, if they are of
\* different INSERTs.
Place(x, ids) == Cardinality({y \in ids : created[y[1]] <= created[x[1]]})

Apart(ids) == \A x, y \in ids : x # y => created[x[1]] # created[y[1]]

\* A List that reads rows is for a page of a positive size, and shows the
\* destinations in the places of its slice.  Their INSERTs have ended: what they
\* have been given as created_at stays.
PageInv(r) ==
    /\ pc[r] \in {"both", "count", "scan"} \/ reply[r] = 200 =>
          PerPageOf(r) \in 1..100
    /\ \A x \in page[r].seen : Past(x[1])
    /\ IsFiniteSet(page[r].seen)
    /\ Apart(page[r].seen) =>
          page[r].shown = {x \in page[r].seen : Place(x, page[r].seen) \in Slice(r)}

PagesInv == \A r \in Requests : PageInv(r)

\* In a sorted list of different numbers each is preceded by the smaller ones.
LEMMA SortedPlace ==
    ASSUME NEW S, NEW n \in Nat, NEW f \in Bijection(1..n, S), NEW time \in [S -> Int],
           \A i, j \in 1..n : i < j => time[f[i]] <= time[f[j]],
           \A x, y \in S : x # y => time[x] # time[y],
           NEW i \in 1..n
    PROVE  Cardinality({y \in S : time[y] <= time[f[i]]}) = i
<1> DEFINE below == {y \in S : time[y] <= time[f[i]]}
           g == [j \in 1..i |-> f[j]]
<1>1. /\ f \in [1..n -> S] /\ \A y \in S : \E j \in 1..n : f[j] = y
      /\ \A j, k \in 1..n : f[j] = f[k] => j = k
  BY DEF Bijection, Injection, Surjection, IsInjective
<1>2. \A j \in 1..n : time[f[j]] \in Int
  BY <1>1
<1>3. \A j, k \in 1..n : j # k => time[f[j]] # time[f[k]]
  BY <1>1
<1>4. \A j \in 1..n : time[f[j]] <= time[f[i]] <=> j <= i
  BY <1>2, <1>3
<1>5. g \in [1..i -> below] /\ \A j \in 1..i : j \in 1..n
  BY <1>1, <1>4
<1>6. \A y \in below : \E j \in 1..i : g[j] = y
  <2> SUFFICES ASSUME NEW y \in below PROVE \E j \in 1..i : g[j] = y
    OBVIOUS
  <2>1. PICK j \in 1..n : f[j] = y
    BY <1>1
  <2>2. j \in 1..i
    BY <1>4, <2>1
  <2>3. QED BY <2>1, <2>2
<1>7. g \in Bijection(1..i, below)
  <2>1. \A j, k \in 1..i : g[j] = g[k] => j = k
    BY <1>1, <1>5
  <2> HIDE DEF below, g
  <2>2. QED BY <1>5, <1>6, <2>1, Fun_IsBij
<1>8. QED BY <1>7, FS_CountingElements DEF ExistsBijection

\* The community module counts the way FiniteSets does.
LEMMA SameCardinality == \A S : SeqExt!Cardinality(S) = Cardinality(S)
  BY Zenon DEF Cardinality, SeqExt!Cardinality

\* The rows of a merchant are no more than there are networks, and each order of
\* them shows each once.
LEMMA OrdersTile ==
    ASSUME IInv, NEW m, NEW own, own = {d \in rows : d.merchant = m}, NEW s \in Orders(own)
    PROVE  LET ids == {d.id : d \in own}
               f == [i \in DOMAIN s |-> s[i].id]
           IN  \E n \in Nat : DOMAIN s = 1..n /\ f \in Bijection(1..n, ids)
<1> DEFINE ids == {d.id : d \in own}
           f == [i \in DOMAIN s |-> s[i].id]
           n == Cardinality(own)
           net == [d \in own |-> d.network]
<1>1. /\ \A d \in own : d \in Rows
      /\ \A d, e \in own : d.network = e.network => d = e
      /\ \A d, e \in own : d.id = e.id => d = e
  BY DEF IInv, TypeOK, RowsInv, RowInv
<1>2. IsFiniteSet(own)
  <2>1. net \in [own -> Networks] /\ \A d, e \in own : net[d] = net[e] => d = e
    BY <1>1 DEF Rows
  <2> HIDE DEF net
  <2>2. net \in Injection(own, Networks)
    BY <2>1, Fun_IsInj
  <2>3. QED BY <2>2, FS_Injection, SettlementAssumption
<1>3. n \in Nat /\ IsFiniteSet(1..n) /\ Cardinality(1..n) = n
  BY <1>2, FS_CardinalityType, FS_Interval
<1>4. s \in [1..n -> own] /\ \A i, j \in 1..n : i # j => s[i] # s[j]
  <2>1. s \in SeqExt!SetToSeqs(own)
    BY DEF Orders
  <2>2. s \in {g \in [1..n -> own] : \A i, j \in 1..n : i # j => g[i] # g[j]}
    <3>1. SeqExt!Cardinality(own) = n
      BY SameCardinality
    <3> HIDE DEF n
    <3>2. QED BY <2>1, <3>1 DEF SeqExt!SetToSeqs
  <2> HIDE DEF n
  <2>3. QED BY <2>2
<1> HIDE DEF n
<1>5. s \in Surjection(1..n, own)
  <2>1. s \in Injection(1..n, own)
    BY <1>4, Fun_IsInj
  <2>2. QED BY <1>2, <1>3, <2>1, FS_Injection DEF n
<1>6. \A d \in own : \E i \in 1..n : s[i] = d
  BY <1>5 DEF Surjection
<1>7. f \in [1..n -> ids] /\ \A i, j \in 1..n : f[i] = f[j] => i = j
  BY <1>1, <1>4
<1>8. \A x \in ids : \E i \in 1..n : f[i] = x
  BY <1>4, <1>6
<1>9. DOMAIN s = 1..n
  BY <1>4
<1> HIDE DEF f, ids
<1>10. f \in Bijection(1..n, ids)
  BY <1>7, <1>8, Fun_IsBij
<1>11. QED BY <1>3, <1>9, <1>10 DEF f, ids

\* The ids the SELECT chose from, and those in its slice.
LEMMA ScanShows ==
    ASSUME IInv, NEW r \in Requests, ScanPage(r)
    PROVE  /\ \A x \in page'[r].seen : Past(x[1]) /\ x \in Ids
           /\ IsFiniteSet(page'[r].seen)
           /\ Apart(page'[r].seen) => page'[r].shown =
                 {x \in page'[r].seen : Place(x, page'[r].seen) \in Slice(r)}
           /\ \A q \in Requests \ {r} : page'[q] = page[q]
<1> DEFINE own == {d \in rows : d.merchant = msg[r].merchant}
           ids == {d.id : d \in own}
           slice == Slice(r)
<1>1. PICK s \in Orders(own) :
         page' = [page EXCEPT ![r] = [shown |-> {s[i].id : i \in slice \cap DOMAIN s},
                                      seen |-> ids]]
  BY DEF ScanPage
<1> DEFINE f == [i \in DOMAIN s |-> s[i].id]
<1>2. /\ page'[r].shown = {s[i].id : i \in slice \cap DOMAIN s} /\ page'[r].seen = ids
      /\ \A q \in Requests \ {r} : page'[q] = page[q]
  BY <1>1 DEF IInv, TypeOK
<1>3. \A d \in own : Past(d.id[1]) /\ d.id \in Ids
  BY DEF IInv, TypeOK, RowsInv, RowInv, Rows
<1>4. PICK n \in Nat : DOMAIN s = 1..n /\ f \in Bijection(1..n, ids)
  <2> HIDE DEF own
  <2>1. \E n \in Nat : DOMAIN s = 1..n /\ f \in Bijection(1..n, ids)
    BY OrdersTile DEF own
  <2>2. QED BY <2>1
<1>5. \A i, j \in 1..n : i < j => created[f[i][1]] <= created[f[j][1]]
  BY <1>4 DEF Orders, CreatedAt
<1>6. \A i \in 1..n : f[i] = s[i].id
  BY <1>4
<1>7. \A x \in ids : Past(x[1]) /\ x \in Ids
  BY <1>3
<1> HIDE DEF own, ids, f, slice
<1>8. /\ f \in [1..n -> ids] /\ f \in Surjection(1..n, ids)
      /\ \A x \in ids : \E i \in 1..n : f[i] = x
  BY <1>4, Fun_BijectionProperties, Fun_SurjectionProperties
<1>9. IsFiniteSet(ids)
  BY <1>8, FS_Surjection, FS_Interval
<1>10. ASSUME Apart(ids)
       PROVE  page'[r].shown = {x \in ids : Place(x, ids) \in slice}
  <2> DEFINE time == [x \in ids |-> created[x[1]]]
  <2>1. time \in [ids -> Int]
    BY <1>7 DEF IInv, TypeOK, Ids
  <2>2. \A i, j \in 1..n : i < j => time[f[i]] <= time[f[j]]
    BY <1>5, <1>8
  <2>3. \A x, y \in ids : x # y => time[x] # time[y]
    BY <1>10 DEF Apart
  <2>4. \A i \in 1..n : Place(f[i], ids) = Cardinality({y \in ids : time[y] <= time[f[i]]})
    BY <1>8 DEF Place
  <2> HIDE DEF time
  <2>5. \A i \in 1..n : Place(f[i], ids) = i
    <3>1. ASSUME NEW i \in 1..n
          PROVE  Cardinality({y \in ids : time[y] <= time[f[i]]}) = i
      <4>1. f \in Bijection(1..n, ids)
        BY <1>4
      <4>2. QED BY <2>1, <2>2, <2>3, <4>1, SortedPlace
    <3>2. QED BY <2>4, <3>1
  <2>6. page'[r].shown = {f[i] : i \in slice \cap (1..n)}
    BY <1>2, <1>4, <1>6
  <2>7. QED BY <1>8, <2>5, <2>6
<1>11. QED BY <1>2, <1>7, <1>9, <1>10 DEF slice

\* A page stays what it was while it is not read again.
LEMMA PageKept ==
    ASSUME IInv, NEW q \in Requests, PageInv(q), UNCHANGED page[q],
           pc[q] # "idle" => UNCHANGED msg[q],
           \A a \in Authors : Past(a) => Past(a)' /\ created'[a] = created[a],
           pc'[q] \in {"both", "count", "scan"} \/ reply'[q] = 200 =>
              PerPageOf(q)' \in 1..100
    PROVE  PageInv(q)'
<1> DEFINE seen == page[q].seen
<1>1. seen' = seen /\ (page[q].shown)' = page[q].shown
  OBVIOUS
<1>2. \A x \in seen : x[1] \in Authors /\ Past(x[1])
  BY DEF PageInv, IInv, TypeOK, Ids
<1>3. \A x \in seen : Past(x[1])' /\ created'[x[1]] = created[x[1]]
  BY <1>2
<1>4. Apart(seen)' <=> Apart(seen)
  BY <1>1, <1>3 DEF Apart
<1>5. \A x \in seen : Place(x, seen)' = Place(x, seen)
  <2> SUFFICES ASSUME NEW x \in seen PROVE Place(x, seen)' = Place(x, seen)
    OBVIOUS
  <2>1. {y \in seen : created'[y[1]] <= created'[x[1]]}
          = {y \in seen : created[y[1]] <= created[x[1]]}
    BY <1>3
  <2>2. QED BY <1>1, <2>1 DEF Place
<1>6. CASE pc[q] = "idle"
  BY <1>6, FS_EmptySet DEF IInv, PlaceInv, NoPage, PageInv
<1>7. CASE pc[q] # "idle"
  <2>1. Slice(q)' = Slice(q)
    BY <1>7 DEF Slice, PageOf, PerPageOf
  <2>2. QED BY <1>1, <1>3, <1>4, <1>5, <2>1 DEF PageInv
<1>8. QED BY <1>6, <1>7

\* An INSERT that has ended stays ended, and started when it did; an ask is
\* replaced only before its handler runs.
LEMMA PastKept ==
    ASSUME IInv, [Next]_vars
    PROVE  /\ \A a \in Authors : Past(a) => Past(a)' /\ created'[a] = created[a]
           /\ \A q \in Requests : pc[q] # "idle" => UNCHANGED msg[q]
<1>1. CASE UNCHANGED vars \/ Crash
  BY <1>1 DEF Crash, Past, IInv, TypeOK
<1>2. ASSUME NEW r \in Requests,
             \/ \E m \in Sendable : Send(r, m)
             \/ Step(r) /\ ~ CheckCreate(r)
             \/ StepFails(r)
      PROVE  /\ \A a \in Authors : Past(a) => Past(a)' /\ created'[a] = created[a]
             /\ \A q \in Requests : pc[q] # "idle" => UNCHANGED msg[q]
  <2>1. created' = created /\ \A q \in Requests : pc[q] # "idle" => UNCHANGED msg[q]
    BY <1>2
    DEF IInv, TypeOK, Send, Step, StepFails, InsertRow, CommitInsert, FetchRows,
        DeadlockVictim, FindRow, DeleteRow, CheckList, CountRows, ScanPage, ReadFails,
        InsertFails, DeleteFails
  <2>2. /\ \A q \in Requests \ {r} : pc'[q] = pc[q]
        /\ pc[r] \notin {"idle", "check", "insert"} =>
              pc'[r] \notin {"idle", "check", "insert"}
    BY <1>2
    DEF IInv, TypeOK, Send, Step, StepFails, InsertRow, CommitInsert, FetchRows,
        DeadlockVictim, FindRow, DeleteRow, CheckList, CountRows, ScanPage, ReadFails,
        InsertFails, DeleteFails
  <2>3. QED BY <2>1, <2>2 DEF Past
<1>3. ASSUME NEW r \in Requests, CheckCreate(r)
      PROVE  /\ \A a \in Authors : Past(a) => Past(a)' /\ created'[a] = created[a]
             /\ \A q \in Requests : pc[q] # "idle" => UNCHANGED msg[q]
  BY <1>3 DEF CheckCreate, Past, IInv, TypeOK
<1>4. QED BY <1>1, <1>2, <1>3 DEF Next, Finished

LEMMA NextPagesInv == IInv /\ PagesInv /\ [Next]_vars => PagesInv'
<1> SUFFICES ASSUME IInv, PagesInv, [Next]_vars, NEW q \in Requests
             PROVE  PageInv(q)'
  BY DEF PagesInv
<1>1. PageInv(q)
  BY DEF PagesInv
<1>2. CASE ScanPage(q)
  <2>1. /\ pc[q] \in {"both", "scan"} /\ UNCHANGED <<msg, created>>
        /\ UNCHANGED PerPageOf(q) /\ UNCHANGED Slice(q)
    BY <1>2 DEF ScanPage, PerPageOf, Slice, PageOf
  <2>2. PerPageOf(q) \in 1..100
    BY <1>1, <2>1 DEF PageInv
  <2>3. \A x \in page'[q].seen : Past(x[1])'
    BY <1>2, ScanShows, PastKept DEF Ids
  <2>4. \A ids : Apart(ids)' <=> Apart(ids)
    BY <2>1 DEF Apart
  <2>5. \A x, ids : Place(x, ids)' = Place(x, ids)
    BY <2>1 DEF Place
  <2>6. QED BY <1>2, <2>1, <2>2, <2>3, <2>4, <2>5, ScanShows DEF PageInv
<1>3. CASE ~ ScanPage(q)
  <2>1. page'[q] = page[q]
    <3>1. CASE UNCHANGED vars \/ Crash
      BY <3>1 DEF Crash
    <3>2. ASSUME NEW r \in Requests, ScanPage(r)
          PROVE  page'[q] = page[q]
      <4>1. r # q
        BY <1>3, <3>2
      <4>2. QED BY <3>2, <4>1, ScanShows DEF IInv, TypeOK
    <3>3. ASSUME NEW r \in Requests, Step(r), ~ ScanPage(r)
          PROVE  page' = page
      BY <3>3
      DEF Step, CheckCreate, InsertRow, CommitInsert, FetchRows, DeadlockVictim,
          FindRow, DeleteRow, CheckList, CountRows
    <3>4. ASSUME NEW r \in Requests, StepFails(r)
          PROVE  page' = page
      BY <3>4 DEF StepFails, ReadFails, InsertFails, DeleteFails
    <3>5. ASSUME NEW r \in Requests, NEW m \in Sendable, Send(r, m)
          PROVE  page' = page
      BY <3>5 DEF Send
    <3>6. QED BY <3>1, <3>2, <3>3, <3>4, <3>5 DEF Next, Finished
  <2>2. ASSUME pc'[q] \in {"both", "count", "scan"} \/ reply'[q] = 200
        PROVE  PerPageOf(q)' \in 1..100
    <3>1. \/ pc[q] \in {"both", "count", "scan"} \/ reply[q] = 200
          \/ CheckList(q) /\ pc[q] = "list" /\ PerPageOf(q) \in 1..100
      <4>1. CASE UNCHANGED vars \/ Crash
        BY <2>2, <4>1 DEF IInv, TypeOK, Crash
      <4>2. ASSUME NEW r \in Requests, NEW m \in Sendable, Send(r, m)
            PROVE  pc[q] \in {"both", "count", "scan"} \/ reply[q] = 200
        <5>1. m.op \in {"create", "delete", "list"}
          BY Kinds DEF Sendable, Asks
        <5>2. QED BY <2>2, <4>2, <5>1 DEF IInv, TypeOK, Send
      <4>3. ASSUME NEW r \in Requests, Step(r) \/ StepFails(r), ~ CheckList(q)
            PROVE  pc[q] \in {"both", "count", "scan"} \/ reply[q] = 200
        BY <2>2, <1>3, <4>3
        DEF IInv, TypeOK, Step, StepFails, CheckCreate, InsertRow, CommitInsert,
            FetchRows, DeadlockVictim, FindRow, DeleteRow, CheckList, CountRows,
            ScanPage, ReadFails, InsertFails, DeleteFails
      <4>4. CASE CheckList(q)
        <5>1. /\ pc[q] = "list"
              /\ (Goto(q, "both") /\ PerPageOf(q) \in 1..100) \/ Answer(q, 400)
          BY <4>4 DEF CheckList
        <5>2. CASE Answer(q, 400)
          BY <2>2, <5>2 DEF IInv, TypeOK
        <5>3. QED BY <4>4, <5>1, <5>2
      <4>5. QED BY <4>1, <4>2, <4>3, <4>4 DEF Next, Finished
    <3>2. pc[q] # "idle" /\ PerPageOf(q) \in 1..100
      BY <1>1, <3>1 DEF PageInv, IInv, PlaceInv
    <3>3. msg'[q] = msg[q]
      BY <3>2, PastKept
    <3>4. QED BY <3>2, <3>3 DEF PerPageOf
  <2>3. QED BY <1>1, <2>1, <2>2, PageKept, PastKept
<1>4. QED BY <1>2, <1>3

LEMMA InitPagesInv == Init => PagesInv
<1> SUFFICES ASSUME Init, NEW r \in Requests PROVE PageInv(r)
  BY DEF PagesInv
<1>1. page[r] = NoPage /\ pc[r] = "idle" /\ reply[r] = 0
  BY DEF Init
<1>2. QED BY <1>1, FS_EmptySet DEF NoPage, PageInv

\* Between two pages that follow each other no destination is shown twice, and
\* none is skipped.
THEOREM PagesTileHolds == Spec => []PagesTile
<1>1. ASSUME PagesInv, TypeOK PROVE PagesTile
  <2> SUFFICES ASSUME NEW p \in Requests, NEW q \in Requests,
                      reply[p] = 200, PageOf(p) = 1, reply[q] = 200, PageOf(q) = 2,
                      PerPageOf(p) = PerPageOf(q), page[p].seen = page[q].seen,
                      Apart(page[p].seen)
               PROVE  /\ page[p].shown \cap page[q].shown = {}
                      /\ \A x \in page[p].seen \ (page[p].shown \cup page[q].shown) :
                           \A y \in page[p].shown \cup page[q].shown :
                              created[y[1]] < created[x[1]]
    BY DEF PagesTile, Apart
  <2> DEFINE ids == page[p].seen
             k == PerPageOf(p)
             At1(x) == Place(x, ids)
  <2>1. k \in 1..100 /\ PageInv(p) /\ PageInv(q)
    BY <1>1 DEF PagesInv, PageInv
  <2>2. Slice(p) = 1..k /\ Slice(q) = (k + 1)..(2 * k)
    <3>1. /\ Slice(p) = ((1 - 1) * k + 1)..(1 * k)
          /\ Slice(q) = ((2 - 1) * k + 1)..(2 * k)
      BY Zenon DEF Slice
    <3> HIDE DEF k
    <3>2. /\ (1 - 1) * k + 1 = 1 /\ 1 * k = k
          /\ (2 - 1) * k + 1 = k + 1
      BY <2>1
    <3>3. QED BY <3>1, <3>2
  <2>3. /\ page[p].shown = {x \in ids : At1(x) \in 1..k}
        /\ page[q].shown = {x \in ids : At1(x) \in (k + 1)..(2 * k)}
    BY <2>1, <2>2 DEF PageInv
  <2>4. \A x \in ids : created[x[1]] \in Nat
    BY <1>1 DEF TypeOK, Ids
  <2>5. IsFiniteSet(ids)
    BY <2>1 DEF PageInv
  <2> DEFINE UpTo(x) == {y \in ids : created[y[1]] <= created[x[1]]}
  <2>6. ASSUME NEW x \in ids
        PROVE  IsFiniteSet(UpTo(x)) /\ At1(x) = Cardinality(UpTo(x)) /\ At1(x) \in Nat \ {0}
    <3>1. IsFiniteSet(UpTo(x)) /\ UpTo(x) # {}
      BY <2>4, <2>5, FS_Subset
    <3>2. QED BY <3>1, FS_CardinalityType, FS_EmptySet DEF Place
  <2>7. ASSUME NEW x \in ids, NEW y \in ids, created[x[1]] <= created[y[1]]
        PROVE  At1(x) <= At1(y)
    <3>1. UpTo(x) \in SUBSET UpTo(y)
      BY <2>4, <2>7
    <3> HIDE DEF UpTo, At1
    <3>2. QED BY <2>6, <3>1, FS_Subset
  <2> HIDE DEF At1, ids, UpTo, k
  <2>8. page[p].shown \cap page[q].shown = {}
    BY <2>1, <2>3
  <2>9. ASSUME NEW x \in ids \ (page[p].shown \cup page[q].shown),
               NEW y \in page[p].shown \cup page[q].shown
        PROVE  created[y[1]] < created[x[1]]
    <3>1. At1(x) \in Nat /\ At1(x) > 2 * k
      BY <2>1, <2>3, <2>6
    <3>2. y \in ids /\ At1(y) \in Nat /\ At1(y) <= 2 * k
      BY <2>1, <2>3
    <3>3. ~ created[x[1]] <= created[y[1]]
      BY <2>1, <2>7, <3>1, <3>2
    <3>4. QED BY <2>4, <3>2, <3>3
  <2>10. QED BY <2>8, <2>9 DEF ids
<1>2. IInv => TypeOK
  BY DEF IInv
<1>3. Spec => []PagesInv
  BY Invariance, InitPagesInv, NextPagesInv, PTL DEF Spec
<1>4. QED BY Invariance, <1>1, <1>2, <1>3, PTL
=============================================================================
