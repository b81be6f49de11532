-------------------------- MODULE DestinationsProof -------------------------
(***************************************************************************)
(* Settlement implements Destinations: a proof, step by step, from the     *)
(* inductive invariant of SettlementProof.                                 *)
(***************************************************************************)
EXTENDS SettlementProof

-----------------------------------------------------------------------------
(* The refinement mapping.                                                 *)

AbsStatus == [r \in Requests |-> StatusOf(r)]
AbsDest == [m \in Merchants |-> [n \in Networks |-> DestinationAt(m, n)]]

USE DEF vars, request, budget, read, Running, Stopped, At, Goto, Answer, Fault

\* The destination of m on n in a set of rows.
DestIn(set, m, n) ==
    LET hit == {d \in set : d.merchant = m /\ d.network = n}
    IN  IF hit = {} THEN None
        ELSE LET d == CHOOSE d \in hit : TRUE
             IN  [id |-> d.id, address |-> d.address]

LEMMA DestInRows ==
    ASSUME NEW set, NEW m, NEW n,
           \A d, e \in set : d.merchant = e.merchant /\ d.network = e.network => d = e
    PROVE  /\ (\A d \in set : ~ (d.merchant = m /\ d.network = n))
                 => DestIn(set, m, n) = None
           /\ \A d \in set : d.merchant = m /\ d.network = n
                 => DestIn(set, m, n) = [id |-> d.id, address |-> d.address]
<1> DEFINE hit == {d \in set : d.merchant = m /\ d.network = n}
<1>1. CASE hit = {}
  BY <1>1 DEF DestIn
<1>2. CASE hit # {}
  <2>1. PICK e \in hit : TRUE
    BY <1>2
  <2>2. hit = {e}
    BY <2>1
  <2>3. (CHOOSE d \in hit : TRUE) = e
    BY <2>2
  <2>4. DestIn(set, m, n) = [id |-> e.id, address |-> e.address]
    BY <1>2, <2>3 DEF DestIn
  <2>5. QED BY <2>1, <2>2, <2>4
<1>3. QED BY <1>1, <1>2

LEMMA DestInOf ==
    /\ AbsDest = [m \in Merchants |-> [n \in Networks |-> DestIn(rows, m, n)]]
    /\ AbsDest' = [m \in Merchants |-> [n \in Networks |-> DestIn(rows', m, n)]]
  BY DEF AbsDest, DestinationAt, DestIn

\* What is there tells a destination from none.
LEMMA DestSomeOrNone ==
    ASSUME NEW set \in SUBSET Rows, NEW m, NEW n,
           \A d, e \in set : d.merchant = e.merchant /\ d.network = e.network => d = e
    PROVE  DestIn(set, m, n) # None
              <=> \E d \in set : d.merchant = m /\ d.network = n
  BY DestInRows, SettlementAssumption DEF Rows

\* A status by the label and the reply of a request.
StatusFor(label, status) ==
    CASE label = "idle" -> "none"
      [] label = "fetch" -> "applied"
      [] label \in Running \ {"fetch"} -> "open"
      [] label = "lost" -> "failed"
      [] label = "done" /\ status \in {200, 201, 204} -> "ok"
      [] label = "done" /\ status \in {400, 401, 404} -> "refused"
      [] label = "done" /\ status = 500 -> "failed"

LEMMA StatusCases ==
    /\ \A s : StatusFor("idle", s) = "none" /\ StatusFor("fetch", s) = "applied"
    /\ \A s : \A label \in Running \ {"fetch"} : StatusFor(label, s) = "open"
    /\ \A s : StatusFor("lost", s) = "failed"
    /\ \A s \in {200, 201, 204} : StatusFor("done", s) = "ok"
    /\ \A s \in {400, 401, 404} : StatusFor("done", s) = "refused"
    /\ StatusFor("done", 500) = "failed"
<1>1. /\ "idle" \notin Running /\ "lost" \notin Running /\ "done" \notin Running
      /\ "fetch" \in Running
  OBVIOUS
<1> HIDE DEF Running
<1>2. \A s : StatusFor("idle", s) = "none" /\ StatusFor("fetch", s) = "applied"
  BY <1>1 DEF StatusFor
<1>3. \A s : \A label \in Running \ {"fetch"} : StatusFor(label, s) = "open"
  BY <1>1 DEF StatusFor
<1>4. \A s : StatusFor("lost", s) = "failed"
  BY <1>1 DEF StatusFor
<1>5. \A s \in {200, 201, 204} : StatusFor("done", s) = "ok"
  BY <1>1 DEF StatusFor
<1>6. \A s \in {400, 401, 404} : StatusFor("done", s) = "refused"
  BY <1>1 DEF StatusFor
<1>7. StatusFor("done", 500) = "failed"
  BY <1>1 DEF StatusFor
<1>8. QED BY <1>2, <1>3, <1>4, <1>5, <1>6, <1>7

LEMMA StatusForOf ==
    /\ AbsStatus = [r \in Requests |-> StatusFor(pc[r], reply[r])]
    /\ AbsStatus' = [r \in Requests |-> StatusFor(pc'[r], reply'[r])]
  BY DEF AbsStatus, StatusOf, StatusFor

\* A step of r changes no other status.
LEMMA StatusMoves ==
    ASSUME IInv, NEW r \in Requests, NEW label, NEW status,
           pc' = [pc EXCEPT ![r] = label],
           reply' = [reply EXCEPT ![r] = status]
    PROVE  AbsStatus' = [AbsStatus EXCEPT ![r] = StatusFor(label, status)]
  BY StatusForOf DEF IInv, TypeOK

-----------------------------------------------------------------------------
(* A Create or a Delete that takes effect.                                 *)

LEMMA AfterForm ==
    ASSUME NEW r \in Requests
    PROVE  Abstract!After(r) =
             [AbsDest EXCEPT ![msg[r].merchant] =
                [n \in Networks |-> IF msg[r].op = "create"
                                    THEN Abstract!Put(r, n, @[n])
                                    ELSE Abstract!Drop(r, @[n])]]
  BY DEF Abstract!After, AbsDest

\* To compare destinations one by one is enough.
LEMMA AfterPointwise ==
    ASSUME NEW r \in Requests, msg[r].merchant \in Merchants,
           \A m \in Merchants : \A n \in Networks :
              DestIn(rows', m, n) =
                IF m # msg[r].merchant THEN DestIn(rows, m, n)
                ELSE IF msg[r].op = "create" THEN Abstract!Put(r, n, DestIn(rows, m, n))
                ELSE Abstract!Drop(r, DestIn(rows, m, n))
    PROVE  AbsDest' = Abstract!After(r)
<1> DEFINE D == [m \in Merchants |-> [n \in Networks |-> DestIn(rows, m, n)]]
           E == [m \in Merchants |-> [n \in Networks |-> DestIn(rows', m, n)]]
           Changed(old) == [n \in Networks |-> IF msg[r].op = "create"
                                               THEN Abstract!Put(r, n, old[n])
                                               ELSE Abstract!Drop(r, old[n])]
<1>1. AbsDest = D /\ AbsDest' = E
  BY DestInOf
<1>2. Abstract!After(r) = [D EXCEPT ![msg[r].merchant] = Changed(@)]
  BY <1>1, AfterForm
<1>3. E[msg[r].merchant] = Changed(D[msg[r].merchant])
  OBVIOUS
<1>4. \A m \in Merchants \ {msg[r].merchant} : E[m] = D[m]
  OBVIOUS
<1> HIDE DEF Changed
<1>5. E = [D EXCEPT ![msg[r].merchant] = Changed(@)]
  BY <1>3, <1>4
<1>6. QED BY <1>1, <1>2, <1>5

LEMMA SameRowsSameDest ==
    ASSUME NEW set, NEW other, NEW m, NEW n,
           \A d \in set : d.merchant = m /\ d.network = n => d \in other,
           \A d \in other : d.merchant = m /\ d.network = n => d \in set
    PROVE  DestIn(set, m, n) = DestIn(other, m, n)
<1>1. {d \in set : d.merchant = m /\ d.network = n}
        = {d \in other : d.merchant = m /\ d.network = n}
  OBVIOUS
<1>2. QED BY <1>1 DEF DestIn

LEMMA CreateApplies ==
    ASSUME IInv, IInv', NEW r \in Requests, pc[r] = "insert", todo[r] = <<>>, Publish(r)
    PROVE  AbsDest' = Abstract!After(r)
<1>1. /\ msg[r].op = "create" /\ msg[r].merchant \in Merchants
      /\ ListedBy(r) = {msg[r].networks[i] : i \in DOMAIN msg[r].networks}
  BY Kinds DEF IInv, PlaceInv, Asks, ListedBy, NetworksIn
<1>2. /\ \A d, e \in rows : d.merchant = e.merchant /\ d.network = e.network => d = e
      /\ \A d, e \in rows' : d.merchant = e.merchant /\ d.network = e.network => d = e
      /\ rows \in SUBSET Rows
  BY DEF IInv, RowsInv, TypeOK
<1> SUFFICES ASSUME NEW m \in Merchants, NEW n \in Networks
             PROVE  DestIn(rows', m, n) =
                      IF m # msg[r].merchant THEN DestIn(rows, m, n)
                      ELSE Abstract!Put(r, n, DestIn(rows, m, n))
  BY <1>1, AfterPointwise
<1>3. Abstract!Names(msg[r], n) <=> n \in ListedBy(r)
  BY <1>1 DEF Abstract!Names
<1>4. CASE m # msg[r].merchant \/ n \notin ListedBy(r)
  <2>1. DestIn(rows', m, n) = DestIn(rows, m, n)
    BY <1>4, PublishedRows, SameRowsSameDest DEF Written
  <2>2. QED BY <1>3, <1>4, <2>1 DEF Abstract!Put
<1>5. CASE m = msg[r].merchant /\ n \in ListedBy(r)
  <2>1. PICK d \in rows' : Written(r, d) /\ d.network = n
    BY <1>5, PublishedRows
  <2>2. DestIn(rows', m, n) = [id |-> d.id, address |-> msg[r].wallet]
    BY <1>2, <1>5, <2>1, DestInRows DEF Written
  <2>3. CASE \E e \in rows : e.merchant = m /\ e.network = n /\ e.id = d.id
    <3>1. DestIn(rows, m, n) # None /\ DestIn(rows, m, n).id = d.id
      BY <1>2, <2>3, DestInRows, DestSomeOrNone
    <3>2. QED BY <1>3, <1>5, <2>2, <3>1 DEF Abstract!Put
  <2>4. CASE d.id = <<r, n>> /\ \A e \in rows : ~ (e.merchant = m /\ e.network = n)
    <3>1. DestIn(rows, m, n) = None
      BY <1>2, <2>4, DestInRows
    <3>2. QED BY <1>3, <1>5, <2>2, <2>4, <3>1 DEF Abstract!Put
  <2>5. QED BY <1>5, <2>1, <2>3, <2>4 DEF Written
<1>6. QED BY <1>4, <1>5

LEMMA DeleteApplies ==
    ASSUME IInv, IInv', NEW r \in Requests, pc[r] = "delete", Remove(r)
    PROVE  AbsDest' = Abstract!After(r)
<1>1. /\ msg[r].op = "delete" /\ msg[r].merchant \in Merchants
      /\ rows' = {d \in rows : d.id # msg[r].id}
      /\ AskOf(msg[r].id[1]).merchant = msg[r].merchant
  BY Kinds DEF IInv, PlaceInv, DeleteInv, Asks, Remove
<1>2. /\ \A d, e \in rows : d.merchant = e.merchant /\ d.network = e.network => d = e
      /\ \A d, e \in rows' : d.merchant = e.merchant /\ d.network = e.network => d = e
      /\ rows \in SUBSET Rows
      /\ \A d \in rows : AskOf(d.id[1]).merchant = d.merchant
  BY DEF IInv, RowsInv, RowInv, TypeOK
<1>3. \A d \in rows : d.id = msg[r].id => d.merchant = msg[r].merchant
  BY <1>1, <1>2
<1> SUFFICES ASSUME NEW m \in Merchants, NEW n \in Networks
             PROVE  DestIn(rows', m, n) =
                      IF m # msg[r].merchant THEN DestIn(rows, m, n)
                      ELSE Abstract!Drop(r, DestIn(rows, m, n))
  BY <1>1, AfterPointwise
<1>4. CASE m # msg[r].merchant
  BY <1>1, <1>3, <1>4, SameRowsSameDest
<1>5. CASE m = msg[r].merchant
  <2>1. CASE \A d \in rows : ~ (d.merchant = m /\ d.network = n)
    <3>1. DestIn(rows, m, n) = None /\ DestIn(rows', m, n) = None
      BY <1>1, <1>2, <2>1, DestInRows
    <3>2. QED BY <1>5, <3>1 DEF Abstract!Drop
  <2>2. ASSUME NEW d \in rows, d.merchant = m, d.network = n
        PROVE  DestIn(rows', m, n) = Abstract!Drop(r, DestIn(rows, m, n))
    <3>1. /\ DestIn(rows, m, n) # None
          /\ DestIn(rows, m, n) = [id |-> d.id, address |-> d.address]
      BY <1>2, <2>2, DestInRows, DestSomeOrNone
    <3>2. CASE d.id = msg[r].id
      <4>1. \A e \in rows' : ~ (e.merchant = m /\ e.network = n)
        BY <1>1, <1>2, <2>2, <3>2
      <4>2. DestIn(rows', m, n) = None
        BY <1>2, <4>1, DestInRows
      <4>3. QED BY <3>1, <3>2, <4>2 DEF Abstract!Drop
    <3>3. CASE d.id # msg[r].id
      <4>1. DestIn(rows', m, n) = [id |-> d.id, address |-> d.address]
        BY <1>1, <1>2, <2>2, <3>3, DestInRows
      <4>2. QED BY <3>1, <3>3, <4>1 DEF Abstract!Drop
    <3>4. QED BY <3>2, <3>3
  <2>3. QED BY <1>5, <2>1, <2>2
<1>6. QED BY <1>4, <1>5

-----------------------------------------------------------------------------
(* Every step of Settlement is one of Destinations, or none.               *)

\* What a step of r does to the status of r, and when it leaves it alone.
LEMMA StatusNow ==
    ASSUME IInv, NEW r \in Requests
    PROVE  /\ pc[r] = "idle" => AbsStatus[r] = "none"
           /\ pc[r] = "fetch" => AbsStatus[r] = "applied"
           /\ pc[r] \in Running \ {"fetch"} => AbsStatus[r] = "open"
  BY StatusForOf, StatusCases

LEMMA StatusNext ==
    ASSUME IInv, NEW r \in Requests
    PROVE  /\ \A label \in Running \ {"fetch"} :
                 Goto(r, label) => AbsStatus' = [AbsStatus EXCEPT ![r] = "open"]
           /\ Goto(r, "fetch") => AbsStatus' = [AbsStatus EXCEPT ![r] = "applied"]
           /\ \A s \in {200, 201, 204} :
                 Answer(r, s) => AbsStatus' = [AbsStatus EXCEPT ![r] = "ok"]
           /\ \A s \in {400, 401, 404} :
                 Answer(r, s) => AbsStatus' = [AbsStatus EXCEPT ![r] = "refused"]
           /\ Answer(r, 500) => AbsStatus' = [AbsStatus EXCEPT ![r] = "failed"]
<1>1. reply \in [Requests -> {0, 200, 201, 204, 400, 401, 404, 500}]
  BY DEF IInv, TypeOK
<1>2. ASSUME NEW label, Goto(r, label)
      PROVE  AbsStatus' = [AbsStatus EXCEPT ![r] = StatusFor(label, reply[r])]
  <2>1. reply' = [reply EXCEPT ![r] = reply[r]]
    BY <1>1, <1>2
  <2>2. QED BY <1>2, <2>1, StatusMoves
<1>3. ASSUME NEW s, Answer(r, s)
      PROVE  AbsStatus' = [AbsStatus EXCEPT ![r] = StatusFor("done", s)]
  BY <1>3, StatusMoves
<1> HIDE DEF Goto, Answer, Running
<1>4. \A label \in Running \ {"fetch"} :
         Goto(r, label) => AbsStatus' = [AbsStatus EXCEPT ![r] = "open"]
  BY <1>2, StatusCases
<1>5. Goto(r, "fetch") => AbsStatus' = [AbsStatus EXCEPT ![r] = "applied"]
  BY <1>2, StatusCases
<1>6. \A s \in {200, 201, 204} :
         Answer(r, s) => AbsStatus' = [AbsStatus EXCEPT ![r] = "ok"]
  BY <1>3, StatusCases
<1>7. \A s \in {400, 401, 404} :
         Answer(r, s) => AbsStatus' = [AbsStatus EXCEPT ![r] = "refused"]
  BY <1>3, StatusCases
<1>8. Answer(r, 500) => AbsStatus' = [AbsStatus EXCEPT ![r] = "failed"]
  BY <1>3, StatusCases
<1>9. QED BY <1>4, <1>5, <1>6, <1>7, <1>8

LEMMA DestKept ==
    ASSUME UNCHANGED rows
    PROVE  AbsDest' = AbsDest
  BY DestInOf

\* A step within a handler.
LEMMA StaysOpen ==
    ASSUME IInv, NEW r \in Requests, pc[r] \in Running \ {"fetch"},
           NEW label \in Running \ {"fetch"}, Goto(r, label), UNCHANGED <<rows, msg>>
    PROVE  UNCHANGED <<msg, AbsStatus, AbsDest>>
<1>1. /\ AbsStatus[r] = "open"
      /\ AbsStatus' = [AbsStatus EXCEPT ![r] = "open"]
  <2>1. AbsStatus[r] = "open"
    BY StatusNow
  <2>2. AbsStatus' = [AbsStatus EXCEPT ![r] = "open"]
    <3> HIDE DEF Goto, Answer, Running
    <3>1. QED BY StatusNext
  <2>3. QED BY <2>1, <2>2
<1>2. AbsStatus' = AbsStatus
  BY <1>1 DEF AbsStatus
<1>3. QED BY <1>2, DestKept

LEMMA Refuses ==
    ASSUME IInv, NEW r \in Requests, pc[r] \in Running \ {"fetch"},
           NEW s \in {400, 401, 404}, Answer(r, s), UNCHANGED <<rows, msg>>
    PROVE  Abstract!Refuse(r)
<1>1. AbsStatus[r] = "open"
  BY StatusNow
<1>2. AbsStatus' = [AbsStatus EXCEPT ![r] = "refused"]
  <2> HIDE DEF Answer
  <2>1. QED BY StatusNext
<1>3. QED BY <1>1, <1>2, DestKept DEF Abstract!Refuse, Abstract!Become, AbsStatus, AbsDest

LEMMA FailsWithout ==
    ASSUME IInv, NEW r \in Requests, pc[r] \in Running, Answer(r, 500),
           UNCHANGED <<rows, msg>>
    PROVE  Abstract!Fail(r)
<1>1. /\ AbsStatus[r] \in {"open", "applied"}
      /\ AbsStatus' = [AbsStatus EXCEPT ![r] = "failed"]
  <2>1. AbsStatus[r] \in {"open", "applied"}
    BY StatusNow
  <2>2. AbsStatus' = [AbsStatus EXCEPT ![r] = "failed"]
    <3> HIDE DEF Goto, Answer, Running
    <3>1. QED BY StatusNext
  <2>3. QED BY <2>1, <2>2
<1>2. QED BY <1>1, DestKept DEF Abstract!Fail, Abstract!Become, AbsStatus, AbsDest

LEMMA FailsApplied ==
    ASSUME IInv, NEW r \in Requests, pc[r] \in {"insert", "delete"}, Answer(r, 500),
           UNCHANGED msg, AbsDest' = Abstract!After(r)
    PROVE  Abstract!Fail(r)
<1>1. /\ AbsStatus[r] = "open"
      /\ AbsStatus' = [AbsStatus EXCEPT ![r] = "failed"]
  <2>1. AbsStatus[r] = "open"
    BY StatusNow
  <2>2. AbsStatus' = [AbsStatus EXCEPT ![r] = "failed"]
    <3> HIDE DEF Goto, Answer, Running
    <3>1. QED BY StatusNext
  <2>3. QED BY <2>1, <2>2
<1>2. msg[r].op \in {"create", "delete"} /\ msg[r].form = "valid"
  BY DEF IInv, PlaceInv
<1>3. QED BY <1>1, <1>2
          DEF Abstract!Fail, Abstract!Become, Abstract!Writes, AbsStatus, AbsDest

LEMMA Reads ==
    ASSUME IInv, NEW r \in Requests, pc[r] \in {"both", "count", "scan"},
           Answer(r, 200), UNCHANGED <<rows, msg>>
    PROVE  Abstract!Read(r)
<1>1. /\ AbsStatus[r] = "open"
      /\ AbsStatus' = [AbsStatus EXCEPT ![r] = "ok"]
  <2>1. AbsStatus[r] = "open"
    BY StatusNow
  <2>2. AbsStatus' = [AbsStatus EXCEPT ![r] = "ok"]
    <3> HIDE DEF Goto, Answer, Running
    <3>1. QED BY StatusNext
  <2>3. QED BY <2>1, <2>2
<1>2. msg[r].op = "list"
  BY DEF IInv, PlaceInv
<1>3. QED BY <1>1, <1>2, DestKept
          DEF Abstract!Read, Abstract!Become, AbsStatus, AbsDest

LEMMA SendArrives ==
    ASSUME IInv, NEW r \in Requests, NEW m \in Sendable, Send(r, m)
    PROVE  Abstract!Arrive(r)
<1>1. m \in Asks /\ m.op \in {"create", "delete", "list"}
  BY Kinds DEF Sendable, Asks
<1>2. \E label \in Running \ {"fetch"} : Goto(r, label)
  <2>1. Goto(r, "check") \/ Goto(r, "find") \/ Goto(r, "list")
    BY <1>1 DEF Send
  <2>2. QED BY <2>1
<1>3. /\ AbsStatus[r] = "none"
      /\ AbsStatus' = [AbsStatus EXCEPT ![r] = "open"]
  <2>1. AbsStatus[r] = "none"
    BY StatusNow DEF Send
  <2>2. AbsStatus' = [AbsStatus EXCEPT ![r] = "open"]
    <3> HIDE DEF Goto, Running
    <3>1. QED BY <1>2, StatusNext
  <2>3. QED BY <2>1, <2>2
<1>4. msg' = [msg EXCEPT ![r] = m] /\ UNCHANGED rows
  BY DEF Send
<1>5. QED BY <1>1, <1>3, <1>4, DestKept
          DEF Abstract!Arrive, Abstract!Become, AbsStatus, AbsDest, Asks

LEMMA CommitInsertApplies ==
    ASSUME IInv, IInv', NEW r \in Requests, CommitInsert(r)
    PROVE  Abstract!Apply(r)
<1>1. /\ AbsStatus[r] = "open"
      /\ AbsStatus' = [AbsStatus EXCEPT ![r] = "applied"]
  <2>1. AbsStatus[r] = "open"
    BY StatusNow DEF CommitInsert
  <2>2. AbsStatus' = [AbsStatus EXCEPT ![r] = "applied"]
    <3> HIDE DEF Goto, Answer, Running
    <3>1. QED BY StatusNext DEF CommitInsert
  <2>3. QED BY <2>1, <2>2
<1>2. msg[r].op = "create" /\ msg[r].form = "valid" /\ UNCHANGED msg
  BY DEF IInv, PlaceInv, CommitInsert
<1>3. AbsDest' = Abstract!After(r)
  BY CreateApplies DEF CommitInsert
<1>4. QED BY <1>1, <1>2, <1>3
          DEF Abstract!Apply, Abstract!Become, Abstract!Writes, AbsStatus, AbsDest

LEMMA FetchRowsConfirms ==
    ASSUME IInv, NEW r \in Requests, FetchRows(r)
    PROVE  Abstract!Confirm(r)
<1>1. /\ AbsStatus[r] = "applied"
      /\ AbsStatus' = [AbsStatus EXCEPT ![r] = "ok"]
  <2>1. AbsStatus[r] = "applied"
    BY StatusNow DEF FetchRows
  <2>2. AbsStatus' = [AbsStatus EXCEPT ![r] = "ok"]
    <3> HIDE DEF Goto, Answer, Running
    <3>1. QED BY StatusNext DEF FetchRows
  <2>3. QED BY <2>1, <2>2
<1>2. QED BY <1>1, DestKept
          DEF FetchRows, Abstract!Confirm, Abstract!Become, AbsStatus, AbsDest

LEMMA DeleteRowApplies ==
    ASSUME IInv, IInv', NEW r \in Requests, DeleteRow(r)
    PROVE  Abstract!Apply(r)
<1>1. /\ AbsStatus[r] = "open"
      /\ AbsStatus' = [AbsStatus EXCEPT ![r] = "ok"]
  <2>1. AbsStatus[r] = "open"
    BY StatusNow DEF DeleteRow
  <2>2. AbsStatus' = [AbsStatus EXCEPT ![r] = "ok"]
    <3> HIDE DEF Goto, Answer, Running
    <3>1. QED BY StatusNext DEF DeleteRow
  <2>3. QED BY <2>1, <2>2
<1>2. msg[r].op = "delete" /\ msg[r].form = "valid" /\ UNCHANGED msg
  BY DEF IInv, PlaceInv, DeleteRow
<1>3. AbsDest' = Abstract!After(r)
  BY DeleteApplies DEF DeleteRow
<1>4. QED BY <1>1, <1>2, <1>3
          DEF Abstract!Apply, Abstract!Become, Abstract!Writes, AbsStatus, AbsDest

LEMMA CrashCrashes ==
    ASSUME IInv, Crash
    PROVE  Abstract!Crash
<1>1. UNCHANGED <<rows, reply, msg>>
      /\ pc' = [r \in Requests |-> IF pc[r] \in Running THEN "lost" ELSE pc[r]]
  BY DEF Crash
<1>2. ASSUME NEW r \in Requests
      PROVE  StatusFor(pc'[r], reply'[r]) =
               IF AbsStatus[r] \in {"open", "applied"} THEN "failed" ELSE AbsStatus[r]
  <2>1. CASE pc[r] \in Running
    BY <1>1, <2>1, StatusNow, StatusCases
  <2>2. CASE pc[r] \notin Running
    <3>1. AbsStatus[r] = StatusFor(pc[r], reply[r]) /\ pc'[r] = pc[r]
      BY <1>1, <2>2, StatusForOf
    <3>2. pc[r] \in {"idle", "done", "lost"}
          /\ reply[r] \in {0, 200, 201, 204, 400, 401, 404, 500}
      BY <2>2 DEF IInv, TypeOK
    <3>3. AbsStatus[r] \notin {"open", "applied"}
      <4>1. pc[r] = "done" => reply[r] # 0
        BY DEF IInv, PlaceInv
      <4>2. QED BY <3>1, <3>2, <4>1, StatusCases
    <3>4. QED BY <1>1, <3>1, <3>3
  <2>3. QED BY <2>1, <2>2
<1>3. AbsStatus' = [r \in Requests |-> IF AbsStatus[r] \in {"open", "applied"}
                                       THEN "failed" ELSE AbsStatus[r]]
  BY <1>2, StatusForOf
<1>4. QED BY <1>1, <1>3, DestKept DEF Abstract!Crash, AbsStatus, AbsDest

LEMMA InitImplements ==
    ASSUME Init
    PROVE  Abstract!Init
<1>1. /\ \A d, e \in rows : d.merchant = e.merchant /\ d.network = e.network => d = e
      /\ \A d \in rows : d.by \in DOMAIN Earlier
  <2>1. RowsInv /\ rows \subseteq Rows
    BY InitRows
  <2>2. \A d \in rows : d.by \in DOMAIN Earlier
    BY DEF Init
  <2>3. QED BY <2>1, <2>2 DEF RowsInv
<1>2. \A i \in DOMAIN Earlier : \A n :
         Abstract!Names(Earlier[i], n) <=> n \in NetworksIn(Earlier[i])
  BY DEF Abstract!Names, NetworksIn
<1> DEFINE By(m, n) == {i \in DOMAIN Earlier :
                          Earlier[i].merchant = m /\ Abstract!Names(Earlier[i], n)}
           First(m, n) == IF By(m, n) = {} THEN None
                          ELSE LET i == CHOOSE i \in By(m, n) : TRUE
                               IN  [id |-> <<i, n>>, address |-> Earlier[i].wallet]
           Row(i, n) == [id |-> <<i, n>>, merchant |-> Earlier[i].merchant,
                         network |-> n, address |-> Earlier[i].wallet, by |-> i]
<1>3. \A i \in DOMAIN Earlier : \A n \in NetworksIn(Earlier[i]) : Row(i, n) \in rows
  BY DEF Init
<1>4. \A d \in rows : \E i \in DOMAIN Earlier : \E n \in NetworksIn(Earlier[i]) :
         d = Row(i, n)
  BY DEF Init
<1>5. ASSUME NEW m \in Merchants, NEW n \in Networks
      PROVE  DestIn(rows, m, n) = First(m, n)
  <2>1. CASE By(m, n) = {}
    <3>1. \A d \in rows : ~ (d.merchant = m /\ d.network = n)
      BY <1>2, <1>4, <2>1
    <3>2. QED BY <1>1, <2>1, <3>1, DestInRows
  <2>2. CASE By(m, n) # {}
    <3> DEFINE i == CHOOSE i \in By(m, n) : TRUE
    <3>1. i \in By(m, n)
      BY <2>2
    <3>2. Row(i, n) \in rows
      BY <1>2, <1>3, <3>1
    <3>3. First(m, n) = [id |-> <<i, n>>, address |-> Earlier[i].wallet]
      BY <2>2
    <3>4. Earlier[i].merchant = m
      BY <3>1
    <3> HIDE DEF i
    <3>5. DestIn(rows, m, n) = [id |-> <<i, n>>, address |-> Earlier[i].wallet]
      BY <1>1, <3>2, <3>4, DestInRows
    <3>6. QED BY <3>3, <3>5
  <2>3. QED BY <2>1, <2>2
<1>6. AbsDest = [m \in Merchants |-> [n \in Networks |-> First(m, n)]]
  <2>1. AbsDest = [m \in Merchants |-> [n \in Networks |-> DestIn(rows, m, n)]]
    BY DestInOf
  <2> HIDE DEF First
  <2>2. QED BY <1>5, <2>1
<1>7. AbsStatus = [r \in Requests |-> "none"]
  BY StatusForOf, StatusCases DEF Init
<1>8. msg = [r \in Requests |-> None]
  BY DEF Init
<1>9. QED BY <1>6, <1>7, <1>8 DEF Abstract!Init, AbsDest, AbsStatus

LEMMA StepImplements ==
    ASSUME IInv, IInv', [Next]_vars
    PROVE  [Abstract!Next]_Abstract!vars
<1> DEFINE Stutter == UNCHANGED <<msg, AbsStatus, AbsDest>>
<1>1. Stutter => UNCHANGED Abstract!vars
  BY DEF Abstract!vars, AbsStatus, AbsDest
<1>2. ASSUME NEW r \in Requests, NEW m \in Sendable, Send(r, m)
      PROVE  Abstract!Next
  BY <1>2, SendArrives DEF Abstract!Next
<1>3. ASSUME NEW r \in Requests, Step(r)
      PROVE  Stutter \/ Abstract!Next
  <2>1. CASE CheckCreate(r)
    <3>1. \/ Answer(r, 400) \/ Answer(r, 401)
          \/ Goto(r, "insert")
      BY <2>1 DEF CheckCreate
    <3>2. pc[r] = "check" /\ UNCHANGED <<rows, msg>>
      BY <2>1 DEF CheckCreate
    <3>3. CASE Answer(r, 400) \/ Answer(r, 401)
      <4> HIDE DEF Answer
      <4>1. QED BY <3>2, <3>3, Refuses DEF Abstract!Next
    <3>4. CASE Goto(r, "insert")
      BY <3>2, <3>4, StaysOpen
    <3>5. QED BY <3>1, <3>3, <3>4
  <2>2. CASE InsertRow(r)
    BY <2>2, StatusForOf, DestKept DEF InsertRow
  <2>3. CASE CommitInsert(r)
    BY <2>3, CommitInsertApplies DEF Abstract!Next
  <2>4. CASE FetchRows(r)
    BY <2>4, FetchRowsConfirms DEF Abstract!Next
  <2>5. CASE DeadlockVictim(r)
    <3>1. pc[r] = "insert" /\ Answer(r, 500) /\ UNCHANGED <<rows, msg>>
      BY <2>5 DEF DeadlockVictim, Deadlocked, WaitsFor
    <3>2. QED BY <3>1, FailsWithout DEF Abstract!Next
  <2>6. CASE FindRow(r)
    <3>1. pc[r] = "find" /\ UNCHANGED <<rows, msg>>
      BY <2>6 DEF FindRow
    <3>2. Answer(r, 400) \/ Answer(r, 401) \/ Answer(r, 404) \/ Goto(r, "delete")
      BY <2>6 DEF FindRow
    <3>3. CASE Answer(r, 400) \/ Answer(r, 401) \/ Answer(r, 404)
      <4> HIDE DEF Answer
      <4>1. QED BY <3>1, <3>3, Refuses DEF Abstract!Next
    <3>4. CASE Goto(r, "delete")
      BY <3>1, <3>4, StaysOpen
    <3>5. QED BY <3>2, <3>3, <3>4
  <2>7. CASE DeleteRow(r)
    BY <2>7, DeleteRowApplies DEF Abstract!Next
  <2>8. CASE CheckList(r)
    <3>1. pc[r] = "list" /\ UNCHANGED <<rows, msg>>
      BY <2>8 DEF CheckList
    <3>2. Answer(r, 400) \/ Goto(r, "both")
      BY <2>8 DEF CheckList
    <3>3. CASE Answer(r, 400)
      <4> HIDE DEF Answer
      <4>1. QED BY <3>1, <3>3, Refuses DEF Abstract!Next
    <3>4. CASE Goto(r, "both")
      BY <3>1, <3>4, StaysOpen
    <3>5. QED BY <3>2, <3>3, <3>4
  <2>9. CASE CountRows(r) \/ ScanPage(r)
    <3>1. pc[r] \in {"both", "count", "scan"} /\ UNCHANGED <<rows, msg>>
      BY <2>9 DEF CountRows, ScanPage
    <3>2. Answer(r, 200) \/ Goto(r, "scan") \/ Goto(r, "count")
      BY <2>9 DEF CountRows, ScanPage
    <3>3. CASE Answer(r, 200)
      <4> HIDE DEF Answer
      <4>1. QED BY <3>1, <3>3, Reads DEF Abstract!Next
    <3>4. CASE Goto(r, "scan") \/ Goto(r, "count")
      BY <3>1, <3>4, StaysOpen
    <3>5. QED BY <3>2, <3>3, <3>4
  <2>10. QED
    BY <1>3, <2>1, <2>2, <2>3, <2>4, <2>5, <2>6, <2>7, <2>8, <2>9 DEF Step
<1>4. ASSUME NEW r \in Requests, StepFails(r)
      PROVE  Abstract!Next
  <2>1. CASE ReadFails(r)
    BY <2>1, FailsWithout DEF ReadFails, Abstract!Next
  <2>2. CASE InsertFails(r)
    <3>1. CASE todo[r] = <<>> /\ Publish(r)
      BY <2>2, <3>1, CreateApplies, FailsApplied DEF InsertFails, Abstract!Next
    <3>2. CASE UNCHANGED rows
      BY <2>2, <3>2, FailsWithout DEF InsertFails, Abstract!Next
    <3>3. QED BY <2>2, <3>1, <3>2 DEF InsertFails
  <2>3. CASE DeleteFails(r)
    <3>1. CASE Remove(r)
      BY <2>3, <3>1, DeleteApplies, FailsApplied DEF DeleteFails, Abstract!Next
    <3>2. CASE UNCHANGED rows
      BY <2>3, <3>2, FailsWithout DEF DeleteFails, Abstract!Next
    <3>3. QED BY <2>3, <3>1, <3>2 DEF DeleteFails
  <2>4. QED BY <1>4, <2>1, <2>2, <2>3 DEF StepFails
<1>5. CASE Crash
  BY <1>5, CrashCrashes DEF Abstract!Next
<1>6. CASE UNCHANGED vars
  <2>1. UNCHANGED <<rows, msg, pc, reply>>
    BY <1>6
  <2>2. QED BY <1>1, <2>1, StatusForOf, DestKept
<1>7. QED
  BY <1>1, <1>2, <1>3, <1>4, <1>5, <1>6 DEF Next, Finished

\* Settlement destinations behave as Destinations says: each Create and Delete takes
\* effect at one instant, wholly or, if it fails, perhaps not at all.
THEOREM Implementation == Spec => ImplementsDestinations
<1>1. Init => Abstract!Init
  BY InitImplements
<1>2. IInv /\ IInv' /\ [Next]_vars => [Abstract!Next]_Abstract!vars
  BY StepImplements
<1>3. QED
  BY Invariance, <1>1, <1>2, PTL
  DEF Spec, ImplementsDestinations, Abstract!Spec
=============================================================================
