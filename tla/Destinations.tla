---------------------------- MODULE Destinations ----------------------------
(***************************************************************************)
(* What the settlement destinations promise to a client, with no rows,     *)
(* locks or statements in sight: for each merchant and network one         *)
(* destination or none, and requests each of which takes effect at one     *)
(* instant between its arrival and its answer.  Module Settlement          *)
(* implements this specification.                                          *)
(***************************************************************************)
CONSTANTS
    Requests, Merchants, Networks,
    Asks,       \* what requests may ask: records [op, merchant, form, ...]
    Earlier,    \* Creates that were answered before Init
    None

VARIABLES
    ask,        \* ask[r]: what r asks, or None
    status,     \* status[r]: "none", "open", "applied", or how it ended
    dest        \* dest[m][n]: m's destination on n [id, address], or None

vars == <<ask, status, dest>>

-----------------------------------------------------------------------------
Names(m, n) == \E i \in DOMAIN m.networks : m.networks[i] = n

Init ==
    /\ ask = [r \in Requests |-> None]
    /\ status = [r \in Requests |-> "none"]
    /\ dest = [m \in Merchants |-> [n \in Networks |->
                LET by == {i \in DOMAIN Earlier :
                             Earlier[i].merchant = m /\ Names(Earlier[i], n)}
                IN  IF by = {} THEN None
                    ELSE LET i == CHOOSE i \in by : TRUE
                         IN  [id |-> <<i, n>>, address |-> Earlier[i].wallet]]]

\* A Create gives every network it names its wallet, and keeps the id of the
\* destination that is there.
Put(r, n, old) ==
    IF ~ Names(ask[r], n) THEN old
    ELSE [id |-> IF old = None THEN <<r, n>> ELSE old.id,
          address |-> ask[r].wallet]

\* A Delete removes the destination with its id, if there still is one.
Drop(r, old) ==
    IF old # None /\ old.id = ask[r].id THEN None ELSE old

\* The destinations once r has taken effect, which is on its own merchant's.
After(r) ==
    [dest EXCEPT ![ask[r].merchant] =
        [n \in Networks |-> IF ask[r].op = "create" THEN Put(r, n, @[n])
                                                   ELSE Drop(r, @[n])]]

Become(r, s) == status' = [status EXCEPT ![r] = s]

Writes(r) == ask[r].op \in {"create", "delete"} /\ ask[r].form = "valid"

-----------------------------------------------------------------------------
Arrive(r) ==
    /\ status[r] = "none"
    /\ Become(r, "open")
    /\ \E a \in Asks : ask' = [ask EXCEPT ![r] = a]
    /\ UNCHANGED dest

\* The effect, with the answer or before it.
Apply(r) ==
    /\ status[r] = "open"
    /\ Become(r, "applied") \/ Become(r, "ok")
    /\ Writes(r) /\ dest' = After(r)
    /\ UNCHANGED ask

Confirm(r) ==
    /\ status[r] = "applied"
    /\ Become(r, "ok")
    /\ UNCHANGED <<ask, dest>>

Read(r) ==
    /\ status[r] = "open" /\ ask[r].op = "list"
    /\ Become(r, "ok")
    /\ UNCHANGED <<ask, dest>>

Refuse(r) ==
    /\ status[r] = "open"
    /\ Become(r, "refused")
    /\ UNCHANGED <<ask, dest>>

\* An error: the effect has taken place, takes place now, or never does.
Fail(r) ==
    /\ status[r] \in {"open", "applied"}
    /\ Become(r, "failed")
    /\ UNCHANGED dest \/ (status[r] = "open" /\ Writes(r) /\ dest' = After(r))
    /\ UNCHANGED ask

\* All requests in flight end at once, with no effect any more.
Crash ==
    /\ status' = [r \in Requests |->
                    IF status[r] \in {"open", "applied"} THEN "failed" ELSE status[r]]
    /\ UNCHANGED <<ask, dest>>

Next ==
    \/ \E r \in Requests :
          Arrive(r) \/ Apply(r) \/ Confirm(r) \/ Read(r) \/ Refuse(r) \/ Fail(r)
    \/ Crash

Spec == Init /\ [][Next]_vars
=============================================================================
