----------------------------- MODULE GatewayProof ---------------------------
(***************************************************************************)
(* Proofs about Gateway, for any set of merchants: no bound of the runs is *)
(* part of the model, so that they say the same of every request.          *)
(***************************************************************************)
EXTENDS Gateway, TLAPS

-----------------------------------------------------------------------------
(* The inductive invariant.                                                *)

\* The merchant m is nobody, or one whose credential the route accepts.
Entitled(m) ==
    m # None =>
        \E i \in DOMAIN Accepts(route) : creds[Accepts(route)[i]] = m

\* The credential that is tried is one of the route, and the context has what an
\* accepted one named.
CredentialInv ==
    /\ pc = "auth" => attempt \in DOMAIN Accepts(route)
    /\ Entitled(ctx)
    /\ response # None => Entitled(response.merchant)

\* An error is on its way out, or there is none; the router refuses a request only
\* if no route matches.
ErrInv ==
    /\ pc \in {"router", "auth", "handler"} => err = NoError
    /\ pc \in {"refused", "error"} => err # NoError
    /\ pc = "router" \/ err \in RouterErrors => route = "none"

\* While the client is there a response ends the request; a success is logged
\* for the merchant that was served.
ResponseInv ==
    /\ pc = "log" /\ err = NoError => response.status = 200 /\ response.merchant = ctx
    /\ link = "up" /\ response # None => pc = "done" \/ (pc = "log" /\ err = NoError)

\* A handler runs again only after a failure, and never after a panic.
RunsInv ==
    runs # <<>> =>
        /\ pc \in {"router", "auth", "handler", "refused"} => runs[Len(runs)] # 200
        /\ LastRunPanicked => pc \in {"error", "done"} /\ logged = None
        /\ LastRunPanicked /\ pc = "error" => err = Unhandled

\* What is written to the log, and when.
LoggedInv ==
    pc = "error" /\ ~ LastRunPanicked =>
        logged = [status |-> LoggedStatus(err), merchant |-> ctx]

IInv ==
    /\ TypeOK
    /\ CredentialInv /\ ErrInv /\ ResponseInv /\ RunsInv /\ LoggedInv
    /\ pc \notin {"error", "done"} => logged = None
    /\ LogMatchesReply

-----------------------------------------------------------------------------
(* The invariant holds initially, and every step preserves it.             *)

USE GatewayAssumption
    DEF vars, MaybeMerchant, Panicked, Statuses, NoError, Unauthorized, Unhandled,
        HandlerErrors, RouterErrors, Errors, LoggedStatus, SentStatus

LEMMA InitIInv == Init => IInv
  BY DEF Init, IInv, TypeOK, CredentialInv, ErrInv, ResponseInv, RunsInv, LoggedInv,
         LogMatchesReply, LastRunPanicked, Accepts, Entitled

LEMMA LinkLostStep == IInv /\ LinkLost => IInv'
  BY DEF LinkLost, IInv, TypeOK, CredentialInv, ErrInv, ResponseInv, RunsInv,
         LoggedInv, LogMatchesReply, LastRunPanicked, Entitled

LEMMA RouterRefusesStep ==
    ASSUME IInv, NEW e \in RouterErrors, RouterRefuses(e)
    PROVE  IInv'
<1>1. TypeOK'
  BY DEF RouterRefuses, IInv, TypeOK
<1>2. (CredentialInv /\ ErrInv)'
  BY DEF RouterRefuses, IInv, CredentialInv, ErrInv, Entitled
<1>3. (ResponseInv /\ RunsInv /\ LoggedInv /\ LogMatchesReply)'
  BY DEF RouterRefuses, IInv, ErrInv, ResponseInv, RunsInv, LoggedInv,
         LogMatchesReply, LastRunPanicked
<1>4. QED BY <1>1, <1>2, <1>3 DEF RouterRefuses, IInv

\* The merchant of the context is the one of the credential that was tried.
LEMMA AuthenticateStep == IInv /\ Authenticate => IInv'
<1> SUFFICES ASSUME IInv, Authenticate PROVE IInv'
  OBVIOUS
<1>1. TypeOK'
  BY DEF Authenticate, IInv, TypeOK, CredentialInv, Accepts
<1>2. CredentialInv'
  BY DEF Authenticate, IInv, CredentialInv, Entitled
<1>3. (ErrInv /\ ResponseInv /\ RunsInv /\ LoggedInv /\ LogMatchesReply)'
  BY DEF Authenticate, IInv, ErrInv, ResponseInv, RunsInv, LoggedInv,
         LogMatchesReply, LastRunPanicked
<1>4. QED BY <1>1, <1>2, <1>3 DEF Authenticate, IInv

LEMMA RefuseStep == IInv /\ Refuse => IInv'
  BY DEF Refuse, IInv, TypeOK, CredentialInv, ErrInv, ResponseInv, RunsInv,
         LoggedInv, LogMatchesReply, LastRunPanicked, Entitled

\* A run of the handler adds what it came to at the end of the history.
LEMMA HistoryGrows ==
    ASSUME NEW S, NEW s \in Seq(S), NEW x \in S
    PROVE  /\ Append(s, x) \in Seq(S) /\ Append(s, x) # <<>>
           /\ Append(s, x)[Len(Append(s, x))] = x
  OBVIOUS

LEMMA HandlerAnswersStep == IInv /\ HandlerAnswers => IInv'
<1> SUFFICES ASSUME IInv, HandlerAnswers PROVE IInv'
  OBVIOUS
<1> DEFINE x == IF link = "up" THEN 200 ELSE 500
<1>1. /\ runs' \in Seq(Statuses \cup {Panicked}) /\ runs' # <<>>
      /\ runs'[Len(runs')] = x
  BY HistoryGrows DEF HandlerAnswers, IInv, TypeOK
<1>2. ~ LastRunPanicked'
  BY <1>1 DEF LastRunPanicked
<1>3. TypeOK'
  BY <1>1 DEF HandlerAnswers, IInv, TypeOK
<1>4. CredentialInv'
  BY DEF HandlerAnswers, IInv, CredentialInv, Entitled
<1>5. (ErrInv /\ ResponseInv /\ LoggedInv /\ LogMatchesReply)'
  BY <1>2 DEF HandlerAnswers, IInv, TypeOK, ErrInv, ResponseInv, LoggedInv,
              LogMatchesReply
<1>6. RunsInv'
  BY <1>1, <1>2 DEF HandlerAnswers, IInv, RunsInv
<1>7. QED BY <1>3, <1>4, <1>5, <1>6 DEF HandlerAnswers, IInv

LEMMA HandlerFailsStep ==
    ASSUME IInv, NEW e \in HandlerErrors, HandlerFails(e)
    PROVE  IInv'
<1>1. /\ runs' \in Seq(Statuses \cup {Panicked}) /\ runs' # <<>>
      /\ runs'[Len(runs')] = e.status
  BY HistoryGrows DEF HandlerFails, IInv, TypeOK
<1>2. ~ LastRunPanicked'
  BY <1>1 DEF LastRunPanicked
<1>3. TypeOK'
  BY <1>1 DEF HandlerFails, IInv, TypeOK
<1>4. CredentialInv'
  BY DEF HandlerFails, IInv, CredentialInv, Entitled
<1>5. (ErrInv /\ ResponseInv /\ LoggedInv /\ LogMatchesReply)'
  BY <1>2 DEF HandlerFails, IInv, TypeOK, ErrInv, ResponseInv, LoggedInv,
              LogMatchesReply
<1>6. RunsInv'
  BY <1>1, <1>2 DEF HandlerFails, IInv, RunsInv
<1>7. QED BY <1>3, <1>4, <1>5, <1>6 DEF HandlerFails, IInv

LEMMA HandlerPanicsStep == IInv /\ HandlerPanics => IInv'
<1> SUFFICES ASSUME IInv, HandlerPanics PROVE IInv'
  OBVIOUS
<1>1. /\ runs' \in Seq(Statuses \cup {Panicked}) /\ runs' # <<>>
      /\ runs'[Len(runs')] = Panicked
  BY HistoryGrows DEF HandlerPanics, IInv, TypeOK
<1>2. LastRunPanicked'
  BY <1>1 DEF LastRunPanicked
<1>3. TypeOK'
  BY <1>1 DEF HandlerPanics, IInv, TypeOK
<1>4. CredentialInv'
  BY DEF HandlerPanics, IInv, CredentialInv, Entitled
<1>5. (ErrInv /\ ResponseInv /\ LoggedInv /\ LogMatchesReply)'
  BY <1>2 DEF HandlerPanics, IInv, TypeOK, ErrInv, ResponseInv, LoggedInv,
              LogMatchesReply
<1>6. RunsInv'
  BY <1>1, <1>2 DEF HandlerPanics, IInv, RunsInv
<1>7. QED BY <1>3, <1>4, <1>5, <1>6 DEF HandlerPanics, IInv

LEMMA NextCredentialStep == IInv /\ NextCredential => IInv'
<1> SUFFICES ASSUME IInv, NextCredential PROVE IInv'
  OBVIOUS
<1>1. TypeOK' /\ CredentialInv'
  BY DEF NextCredential, IInv, TypeOK, CredentialInv, Entitled, Accepts
<1>2. (ErrInv /\ ResponseInv /\ RunsInv /\ LoggedInv /\ LogMatchesReply)'
  BY DEF NextCredential, IInv, TypeOK, ErrInv, ResponseInv, RunsInv, LoggedInv,
         LogMatchesReply, LastRunPanicked
<1>3. QED BY <1>1, <1>2 DEF NextCredential, IInv

LEMMA ErrorGoesOutStep == IInv /\ ErrorGoesOut => IInv'
  BY DEF ErrorGoesOut, IInv, TypeOK, CredentialInv, ErrInv, ResponseInv, RunsInv,
         LoggedInv, LogMatchesReply, LastRunPanicked, Entitled

LEMMA WideEventLogStep == IInv /\ WideEventLog => IInv'
<1> SUFFICES ASSUME IInv, WideEventLog PROVE IInv'
  OBVIOUS
<1>1. TypeOK' /\ CredentialInv'
  BY DEF WideEventLog, IInv, TypeOK, CredentialInv, ErrInv, ResponseInv, Entitled
<1>2. (ErrInv /\ ResponseInv /\ RunsInv /\ LoggedInv /\ LogMatchesReply)'
  BY DEF WideEventLog, IInv, TypeOK, ErrInv, ResponseInv, RunsInv, LoggedInv,
         LogMatchesReply, LastRunPanicked
<1>3. QED BY <1>1, <1>2 DEF WideEventLog, IInv

LEMMA ErrorHandlerStep == IInv /\ ErrorHandler => IInv'
<1> SUFFICES ASSUME IInv, ErrorHandler PROVE IInv'
  OBVIOUS
<1>1. TypeOK' /\ CredentialInv'
  BY DEF ErrorHandler, IInv, TypeOK, CredentialInv, ErrInv, Entitled
<1>2. (ErrInv /\ ResponseInv /\ RunsInv /\ LoggedInv /\ LogMatchesReply)'
  BY DEF ErrorHandler, IInv, TypeOK, ErrInv, ResponseInv, RunsInv, LoggedInv,
         LogMatchesReply, LastRunPanicked
<1>3. QED BY <1>1, <1>2 DEF ErrorHandler, IInv

THEOREM NextIInv == IInv /\ [Next]_vars => IInv'
<1>1. CASE UNCHANGED vars
  BY <1>1 DEF IInv, TypeOK, CredentialInv, ErrInv, ResponseInv, RunsInv, LoggedInv,
              LogMatchesReply, LastRunPanicked, Entitled
<1>2. QED
  BY <1>1, LinkLostStep, RouterRefusesStep, AuthenticateStep, RefuseStep, HandlerAnswersStep,
     HandlerFailsStep, HandlerPanicsStep, NextCredentialStep, ErrorGoesOutStep,
     WideEventLogStep, ErrorHandlerStep
  DEF Next, Step, Finished

-----------------------------------------------------------------------------
(* The safety properties of Gateway.                                       *)

LEMMA Invariance == Spec => []IInv
  BY InitIInv, NextIInv, PTL DEF Spec

\* Every variable keeps its type.
THEOREM TypeCorrect == Spec => []TypeOK
<1>1. IInv => TypeOK
  BY DEF IInv
<1>2. QED BY Invariance, <1>1, PTL

\* On every route the log names the status the client was sent and the merchant it
\* was served; without a route the two sides may disagree, in one way only.
THEOREM LogMatchesReplyHolds == Spec => []LogMatchesReply
<1>1. IInv => LogMatchesReply
  BY DEF IInv
<1>2. QED BY Invariance, <1>1, PTL

\* A merchant's data goes to a client that presented an accepted credential of it.
THEOREM ServedToCredentialHolds == Spec => []ServedToCredential
<1>1. IInv => ServedToCredential
  BY DEF IInv, CredentialInv, Entitled, ServedToCredential
<1>2. QED BY Invariance, <1>1, PTL

\* A committed response is never replaced, and no handler runs after it succeeded.
THEOREM AnsweredOnceHolds == Spec => AnsweredOnce
<1> DEFINE Once == /\ response # None => response' = response
                   /\ runs' # runs /\ runs # <<>> => runs[Len(runs)] # 200
<1>1. IInv /\ [Next]_vars => [Once]_vars
  BY DEF Next, Step, Finished, LinkLost, RouterRefuses, Authenticate, Refuse, HandlerAnswers,
         HandlerFails, HandlerPanics, NextCredential, ErrorGoesOut, WideEventLog,
         ErrorHandler, IInv, RunsInv
<1>2. QED BY Invariance, <1>1, PTL DEF Spec, AnsweredOnce
=============================================================================
