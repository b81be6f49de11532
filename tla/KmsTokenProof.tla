--------------------------- MODULE KmsTokenProof ----------------------------
(***************************************************************************)
(* Proofs about KmsToken, for any number of calls, any timeout, lag and    *)
(* lifetime, and any margin of at least twice the timeout and the lag.     *)
(***************************************************************************)
EXTENDS KmsToken, TLAPS

-----------------------------------------------------------------------------
(* The inductive invariant.                                                *)

\* A cached token is dropped at least Margin - Timeout before it expires.
CacheInv ==
    cache # None =>
        cache.expiresAt <= cache.issued + Timeout + Lifetime - Margin

\* Only the leader has a token on order, and while it has, or will have, the
\* cache holds no fresh one.
LoginInv ==
    /\ issued # None => \E c \in Calls : At(c, "login")
    /\ \A c \in Calls : At(c, "login") =>
        /\ ~ CacheFresh
        /\ issued # None => since[c] <= issued

\* How much of the life of its token a call may still need, in each state.
CallInv(c) ==
    /\ pc[c] \in {"idle", "check", "join", "wait", "lead", "login"}
           => token[c] = None
    /\ pc[c] \in {"attached", "calling"} => token[c] # None
    /\ pc[c] \in {"login", "calling"} => now <= since[c] + Timeout
    /\ pc[c] \in {"end", "attached"} => now <= since[c] + Lag
    /\ pc[c] = "end" /\ token[c] # None =>
           since[c] + 2 * Lag + Timeout < token[c] + Lifetime
    /\ pc[c] = "attached" => since[c] + Lag + Timeout < token[c] + Lifetime
    /\ pc[c] = "calling" => since[c] + Timeout < token[c] + Lifetime

IInv ==
    /\ TypeOK
    /\ OneLogin
    /\ CacheInv
    /\ LoginInv
    /\ \A c \in Calls : CallInv(c)

-----------------------------------------------------------------------------
(* The invariant holds initially, and every step preserves it.             *)

USE KmsTokenAssumption
    DEF vars, At, Goto, Leading, Running, Stopped, Timed

LEMMA InitIInv == Init => IInv
  BY DEF Init, IInv, TypeOK, OneLogin, CacheInv, LoginInv, CallInv, CacheFresh

LEMMA FastPathStep ==
    ASSUME IInv, NEW c \in Calls, FastPath(c)
    PROVE  IInv'
<1>1. CASE CacheFresh
  \* The rest of the margin is enough for the lag and the call.
  <2>1. cache.issued \in Nat /\ now + Lag + Timeout < cache.issued + Lifetime
    BY <1>1 DEF IInv, TypeOK, OneLogin, CacheInv, LoginInv, CallInv, CacheFresh
  <2>2. QED BY <1>1, <2>1 DEF FastPath, IInv, TypeOK, OneLogin, CacheInv, LoginInv, CallInv, CacheFresh
<1>2. CASE ~ CacheFresh
  BY <1>2 DEF FastPath, IInv, TypeOK, OneLogin, CacheInv, LoginInv, CallInv, CacheFresh
<1>3. QED BY <1>1, <1>2

LEMMA LeaderCheckStep ==
    ASSUME IInv, NEW c \in Calls, LeaderCheck(c)
    PROVE  IInv'
<1>1. CASE CacheFresh
  <2>1. cache.issued \in Nat /\ now + 2 * Lag + Timeout < cache.issued + Lifetime
    BY <1>1 DEF IInv, TypeOK, OneLogin, CacheInv, LoginInv, CallInv, CacheFresh
  <2>2. QED BY <1>1, <2>1 DEF LeaderCheck, IInv, TypeOK, OneLogin, CacheInv, LoginInv, CallInv, CacheFresh
<1>2. CASE ~ CacheFresh
  BY <1>2 DEF LeaderCheck, IInv, TypeOK, OneLogin, CacheInv, LoginInv, CallInv, CacheFresh
<1>3. QED BY <1>1, <1>2

\* The answer of the login is at most Timeout old when it is stored.
LEMMA StoreTokenStep ==
    ASSUME IInv, NEW c \in Calls, StoreToken(c)
    PROVE  IInv'
<1>1. issued \in Nat /\ now <= issued + Timeout
  BY DEF StoreToken, IInv, TypeOK, OneLogin, CacheInv, LoginInv, CallInv, CacheFresh
<1>2. now + 2 * Lag + Timeout < issued + Lifetime
  BY <1>1 DEF IInv, TypeOK
<1>3. \A d \in Calls : At(d, "login") => d = c
  BY DEF StoreToken, IInv, TypeOK, OneLogin
<1>4. QED
  BY <1>1, <1>2, <1>3 DEF StoreToken, IInv, TypeOK, OneLogin, CacheInv, LoginInv, CallInv, CacheFresh

\* The calls that share the result have as much time left as the leader.
LEMMA EndFlightStep ==
    ASSUME IInv, NEW c \in Calls, EndFlight(c)
    PROVE  IInv'
<1>1. TypeOK'
  BY DEF EndFlight, IInv, TypeOK
<1>2. OneLogin' /\ CacheInv' /\ LoginInv'
  BY DEF EndFlight, IInv, TypeOK, OneLogin, CacheInv, LoginInv, CallInv, CacheFresh
<1>3. ASSUME NEW d \in Calls PROVE CallInv(d)'
  <2>1. CASE d = c \/ At(d, "wait")
    BY <2>1 DEF EndFlight, IInv, TypeOK, CallInv
  <2>2. CASE ~ (d = c \/ At(d, "wait"))
    BY <2>2 DEF EndFlight, IInv, TypeOK, CallInv
  <2>3. QED BY <2>1, <2>2
<1>4. QED BY <1>1, <1>2, <1>3 DEF IInv

\* Time stops at the deadline of every call.
LEMMA TickStep ==
    ASSUME IInv, Tick
    PROVE  IInv'
<1>1. ASSUME NEW c \in Calls PROVE CallInv(c)'
  <2>1. now < Deadline(c)
    BY DEF Tick
  <2>2. QED BY <2>1 DEF Tick, Deadline, IInv, TypeOK, CallInv
<1>2. TypeOK' /\ OneLogin' /\ CacheInv' /\ LoginInv'
  BY DEF Tick, IInv, TypeOK, OneLogin, CacheInv, LoginInv, CacheFresh
<1>3. QED BY <1>1, <1>2 DEF IInv

THEOREM NextIInv == IInv /\ [Next]_vars => IInv'
<1> SUFFICES ASSUME IInv, [Next]_vars PROVE IInv'
  OBVIOUS
<1>1. ASSUME NEW c \in Calls, Start(c) PROVE IInv'
  BY <1>1 DEF Start, IInv, TypeOK, OneLogin, CacheInv, LoginInv, CallInv, CacheFresh
<1>2. ASSUME NEW c \in Calls, Join(c) PROVE IInv'
  BY <1>2 DEF Join, IInv, TypeOK, OneLogin, CacheInv, LoginInv, CallInv, CacheFresh
<1>3. ASSUME NEW c \in Calls, ServerIssues(c) PROVE IInv'
  BY <1>3 DEF ServerIssues, IInv, TypeOK, OneLogin, CacheInv, LoginInv, CallInv, CacheFresh
<1>4. ASSUME NEW c \in Calls, LoginFails(c) PROVE IInv'
  BY <1>4 DEF LoginFails, IInv, TypeOK, OneLogin, CacheInv, LoginInv, CallInv, CacheFresh
<1>5. ASSUME NEW c \in Calls, SendCall(c) PROVE IInv'
  BY <1>5 DEF SendCall, IInv, TypeOK, OneLogin, CacheInv, LoginInv, CallInv, CacheFresh
<1>6. ASSUME NEW c \in Calls, CallEnds(c) PROVE IInv'
  BY <1>6 DEF CallEnds, IInv, TypeOK, OneLogin, CacheInv, LoginInv, CallInv, CacheFresh
<1>7. CASE UNCHANGED vars
  BY <1>7 DEF IInv, TypeOK, OneLogin, CacheInv, LoginInv, CallInv, CacheFresh
<1>8. QED
  BY <1>1, <1>2, <1>3, <1>4, <1>5, <1>6, <1>7, FastPathStep, LeaderCheckStep,
     StoreTokenStep, EndFlightStep, TickStep
  DEF Next, Step, Finished

-----------------------------------------------------------------------------
(* The properties of KmsToken.                                             *)

LEMMA Invariance == Spec => []IInv
  BY InitIInv, NextIInv, PTL DEF Spec

\* Every variable keeps its type.
THEOREM TypeCorrect == Spec => []TypeOK
<1>1. IInv => TypeOK
  BY DEF IInv
<1>2. QED BY Invariance, <1>1, PTL

\* No call is on its way with a token Infisical no longer honours.
THEOREM TokenAliveHolds == Spec => []TokenAlive
<1>1. IInv => TokenAlive
  BY DEF IInv, TypeOK, CallInv, TokenAlive
<1>2. QED BY Invariance, <1>1, PTL

\* One login runs at a time, and a call waits only while one runs.
THEOREM OneLoginHolds == Spec => []OneLogin
<1>1. IInv => OneLogin
  BY DEF IInv
<1>2. QED BY Invariance, <1>1, PTL

\* A cached token is replaced only after its expiry.
THEOREM ReplacedWhenExpiredHolds == Spec => ReplacedWhenExpired
<1>1. IInv /\ [Next]_vars
          => [cache' # cache /\ cache # None => now >= cache.expiresAt]_vars
  <2> SUFFICES ASSUME IInv, [Next]_vars, cache' # cache, cache # None
               PROVE  now >= cache.expiresAt
    OBVIOUS
  <2>1. PICK c \in Calls : StoreToken(c)
    BY DEF Next, Step, Finished, Start, FastPath, Join, LeaderCheck,
           ServerIssues, LoginFails, EndFlight, SendCall, CallEnds, Tick
  <2>2. ~ CacheFresh
    BY <2>1 DEF StoreToken, IInv, LoginInv
  <2>3. QED BY <2>2 DEF CacheFresh, IInv, TypeOK
<1>2. QED BY Invariance, <1>1, PTL DEF Spec, ReplacedWhenExpired
=============================================================================
