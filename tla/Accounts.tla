------------------------------ MODULE Accounts ------------------------------
(***************************************************************************)
(* What wallet authentication promises to the rest of the service, with no *)
(* HTTP, cache or transaction in sight.  A wallet belongs to no merchant   *)
(* or to exactly one, for ever; a merchant comes into being together with  *)
(* the wallet that founded it; a session names the merchant its wallet     *)
(* belongs to.  Module Auth implements this specification.                 *)
(***************************************************************************)
CONSTANTS
    MerchantIDs,  \* every merchant id that may ever be minted
    Wallets,      \* wallet addresses
    None          \* "belongs to no merchant"

VARIABLES
    owner,        \* owner[w]: the merchant wallet w belongs to, or None
    sessions      \* the unexpired sessions: records [merchant, address]

vars == <<owner, sessions>>

\* The merchants that exist: those that own a wallet.
Known == {owner[w] : w \in Wallets} \ {None}

Init ==
    /\ owner = [w \in Wallets |-> None]
    /\ sessions = {}

\* A wallet nobody owns founds a merchant that did not exist before.
Register(w) ==
    /\ owner[w] = None
    /\ \E m \in MerchantIDs \ Known : owner' = [owner EXCEPT ![w] = m]
    /\ UNCHANGED sessions

\* A wallet nobody owns joins a merchant that exists.
Attach(w) ==
    /\ owner[w] = None
    /\ \E m \in Known : owner' = [owner EXCEPT ![w] = m]
    /\ UNCHANGED sessions

\* A wallet that belongs to a merchant obtains a session for that merchant.
LogIn(w) ==
    /\ owner[w] # None
    /\ sessions' = sessions \cup {[merchant |-> owner[w], address |-> w]}
    /\ UNCHANGED owner

\* A session comes to its end.
Expire(s) ==
    /\ s \in sessions
    /\ sessions' = sessions \ {s}
    /\ UNCHANGED owner

Next ==
    \/ \E w \in Wallets : Register(w) \/ Attach(w) \/ LogIn(w)
    \/ \E s \in sessions : Expire(s)

Spec == Init /\ [][Next]_vars
=============================================================================
