------------------------------ MODULE KmsToken ------------------------------
(***************************************************************************)
(* The access token of InfisicalKMS (internal/signer/infisical.go): every  *)
(* call to the KMS first runs ensureAuth, which takes the cached token or  *)
(* logs in.  Calls that find no fresh token at the same time share one     *)
(* login through a singleflight group.                                     *)
(*                                                                         *)
(* Time is explicit and discrete: an HTTP call lasts at most Timeout       *)
(* (SetTimeout), local code between two calls at most Lag.                 *)
(***************************************************************************)
EXTENDS Integers

CONSTANTS
    Calls,      \* calls to the KMS, each by a goroutine of its own
    None,
    Timeout,    \* the client's timeout, 10 seconds
    Lag,        \* time a goroutine spends between having a token and using it
    Lifetime,   \* ExpiresIn: how long Infisical honours a token
    Margin,     \* how much earlier the cache lets it expire, 30 seconds
    MaxTime     \* bound: the clock stops here

\* The margin covers the login that fetched the token and the call that uses it.
ASSUME KmsTokenAssumption ==
    /\ None \notin Calls \cup Int
    /\ Timeout \in Nat /\ Lag \in Nat /\ Lifetime \in Nat /\ Margin \in Nat
    /\ MaxTime \in Nat
    /\ Margin >= 2 * (Timeout + Lag)
    /\ Lifetime > 2 * (Timeout + Lag)

VARIABLES
    now,
    cache,      \* the cached token [issued, expiresAt], or None
    flight,     \* the call that leads the login of the singleflight group, or None
    issued,     \* when Infisical issued the token of the running login, or None
    pc,
    token,      \* when the token a call was given had been issued, or None
    since       \* when a call entered its present state, if that is timed

vars == <<now, cache, flight, issued, pc, token, since>>

-----------------------------------------------------------------------------
Leading == {"lead", "login", "end"}
Running == {"check", "join", "wait", "attached", "calling"} \cup Leading
Stopped == {"done", "failed"}
Timed == {"login", "end", "attached", "calling"}

Init ==
    /\ now = 0
    /\ cache = None
    /\ flight = None
    /\ issued = None
    /\ pc = [c \in Calls |-> "idle"]
    /\ token = [c \in Calls |-> None]
    /\ since = [c \in Calls |-> 0]

At(c, label) == pc[c] = label

Goto(c, label) ==
    /\ pc' = [pc EXCEPT ![c] = label]
    /\ since' = [since EXCEPT ![c] = IF label \in Timed THEN now ELSE 0]

\* time.Now().Before(v.expiresAt) for a token in the cache.
CacheFresh == cache # None /\ now < cache.expiresAt

-----------------------------------------------------------------------------
\* CreateKey, Encrypt, Decrypt or the lookup of a key id begins.
Start(c) ==
    /\ At(c, "idle")
    /\ Goto(c, "check")
    /\ UNCHANGED <<now, cache, flight, issued, token>>

\* The first look at the cache, outside of the singleflight group.
FastPath(c) ==
    /\ At(c, "check")
    /\ IF CacheFresh
       THEN /\ token' = [token EXCEPT ![c] = cache.issued]
            /\ Goto(c, "attached")
       ELSE /\ Goto(c, "join")
            /\ UNCHANGED token
    /\ UNCHANGED <<now, cache, flight, issued>>

\* Mutant of Join: no singleflight group.
JoinAlone(c) ==
    /\ At(c, "join")
    /\ flight' = c
    /\ Goto(c, "lead")
    /\ UNCHANGED <<now, cache, issued, token>>

\* tokenFlight.Do: lead a login, or wait for the one that is running.
Join(c) ==
    /\ At(c, "join")
    /\ IF flight = None
       THEN /\ flight' = c
            /\ Goto(c, "lead")
       ELSE /\ Goto(c, "wait")
            /\ UNCHANGED flight
    /\ UNCHANGED <<now, cache, issued, token>>

\* Mutant of LeaderCheck: no second look at the cache.
LeaderLogsIn(c) ==
    /\ At(c, "lead")
    /\ Goto(c, "login")
    /\ UNCHANGED <<now, cache, flight, issued, token>>

\* The leader looks at the cache again: another login may have ended between
\* its first look and its turn.
LeaderCheck(c) ==
    /\ At(c, "lead")
    /\ IF CacheFresh
       THEN /\ token' = [token EXCEPT ![c] = cache.issued]
            /\ Goto(c, "end")
       ELSE /\ Goto(c, "login")
            /\ UNCHANGED token
    /\ UNCHANGED <<now, cache, flight, issued>>

\* Infisical answers the login; the lifetime of the token starts here.
ServerIssues(c) ==
    /\ At(c, "login") /\ issued = None
    /\ issued' = now
    /\ UNCHANGED <<now, cache, flight, pc, token, since>>

\* Mutant of StoreToken: no margin.
StoreTokenToTheEnd(c) ==
    /\ At(c, "login") /\ issued # None
    /\ cache' = [issued |-> issued, expiresAt |-> now + Lifetime]
    /\ token' = [token EXCEPT ![c] = issued]
    /\ issued' = None
    /\ Goto(c, "end")
    /\ UNCHANGED <<now, flight>>

\* The answer arrives and is stored, with an expiry counted from its arrival.
StoreToken(c) ==
    /\ At(c, "login") /\ issued # None
    /\ cache' = [issued |-> issued, expiresAt |-> now + Lifetime - Margin]
    /\ token' = [token EXCEPT ![c] = issued]
    /\ issued' = None
    /\ Goto(c, "end")
    /\ UNCHANGED <<now, flight>>

\* Mutant of LoginFails: the error is not looked at.
LoginErrorIgnored(c) ==
    /\ At(c, "login")
    /\ cache' = [issued |-> issued, expiresAt |-> now + Lifetime - Margin]
    /\ issued' = None
    /\ Goto(c, "end")
    /\ UNCHANGED <<now, flight, token>>

\* The login times out, is refused, or the context of the leader is cancelled.
LoginFails(c) ==
    /\ At(c, "login")
    /\ issued' = None
    /\ Goto(c, "end")
    /\ UNCHANGED <<now, cache, flight, token>>

\* Mutant of EndFlight: Do returns to the leader only.
EndFlightAlone(c) ==
    /\ At(c, "end")
    /\ flight' = None
    /\ Goto(c, IF token[c] # None THEN "attached" ELSE "failed")
    /\ UNCHANGED <<now, cache, issued, token>>

\* Do returns to the leader and to all that waited: they share its result.
EndFlight(c) ==
    LET sharing == {d \in Calls : d = c \/ At(d, "wait")}
        outcome == IF token[c] # None THEN "attached" ELSE "failed"
    IN  /\ At(c, "end")
        /\ flight' = None
        /\ pc' = [d \in Calls |-> IF d \in sharing THEN outcome ELSE pc[d]]
        /\ token' = [d \in Calls |-> IF d \in sharing THEN token[c] ELSE token[d]]
        /\ since' = [d \in Calls |->
              IF d \in sharing THEN (IF token[c] # None THEN now ELSE 0) ELSE since[d]]
        /\ UNCHANGED <<now, cache, issued>>

\* The call leaves with the token; it ends with an answer, an error or at its
\* timeout.
SendCall(c) ==
    /\ At(c, "attached")
    /\ Goto(c, "calling")
    /\ UNCHANGED <<now, cache, flight, issued, token>>

CallEnds(c) ==
    /\ At(c, "calling")
    /\ Goto(c, "done")
    /\ token' = [token EXCEPT ![c] = None]
    /\ UNCHANGED <<now, cache, flight, issued>>

\* Time passes, but not beyond the deadline of a call or of local code.
Deadline(c) ==
    CASE pc[c] \in {"login", "calling"} -> since[c] + Timeout
      [] pc[c] \in {"end", "attached"} -> since[c] + Lag
      [] OTHER -> MaxTime

Tick ==
    /\ now < MaxTime
    /\ \A c \in Calls : now < Deadline(c)
    /\ now' = now + 1
    /\ UNCHANGED <<cache, flight, issued, pc, token, since>>

-----------------------------------------------------------------------------
Step(c) ==
    \/ FastPath(c) \/ Join(c) \/ LeaderCheck(c)
    \/ ServerIssues(c) \/ StoreToken(c) \/ LoginFails(c) \/ EndFlight(c)
    \/ SendCall(c) \/ CallEnds(c)

\* Every call is over: nothing is left to do.
Finished ==
    /\ \A c \in Calls : pc[c] \in Stopped
    /\ UNCHANGED vars

Next ==
    \/ \E c \in Calls : Start(c) \/ Step(c)
    \/ Tick
    \/ Finished

Spec == Init /\ [][Next]_vars

\* The Go scheduler runs every goroutine, and an HTTP call returns at its
\* timeout at the latest.
FairSpec == Spec /\ \A c \in Calls : WF_vars(Step(c))

-----------------------------------------------------------------------------
(* Properties.                                                             *)

TypeOK ==
    /\ now \in Nat
    /\ cache \in [issued : Nat, expiresAt : Int] \cup {None}
    /\ flight \in Calls \cup {None}
    /\ issued \in Nat \cup {None}
    /\ pc \in [Calls -> {"idle"} \cup Running \cup Stopped]
    /\ token \in [Calls -> Nat \cup {None}]
    /\ since \in [Calls -> Nat]

\* Infisical never sees an expired token: while a call is on its way the token
\* it carries is honoured, although the cache counts its lifetime from the
\* arrival of the login's answer, a token is handed to calls that waited, and
\* the clock goes on between the check and the use.
TokenAlive ==
    \A c \in Calls : pc[c] = "calling" => now < token[c] + Lifetime

\* infisical_test.go "singleflight should deduplicate": one login runs at a
\* time, and a call that waits waits for one that is running.
OneLogin ==
    /\ \A c \in Calls : pc[c] \in Leading <=> flight = c
    /\ (\E c \in Calls : At(c, "wait")) => flight # None

\* No login is wasted: a cached token is replaced only after its expiry.  Calls
\* that miss the cache together, or one after the other, do not log in twice.
ReplacedWhenExpired ==
    [][cache' # cache /\ cache # None => now >= cache.expiresAt]_vars

\* Every call ends: those that wait for the login of another do not wait for
\* ever when it fails or is cancelled.
Answered ==
    \A c \in Calls : pc[c] = "check" ~> pc[c] \in Stopped
=============================================================================
