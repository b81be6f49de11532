------------------------------- MODULE Gateway ------------------------------
(***************************************************************************)
(* The way of one request through the server (internal/api/server.go and   *)
(* internal/api/middleware.go): wideEventLog around the authentication of  *)
(* the route around the handler, and errorHandler for the error that comes *)
(* out.  Three kinds of routes differ in their authentication: none, a     *)
(* session, or a session or else a secret key (requireAny).  A request may *)
(* match no route: echo's router refuses it, inside wideEventLog.          *)
(*                                                                         *)
(* requireAny runs middleware AND handler for one credential after the     *)
(* other until a run returns no error, so a handler may run twice. A panic *)
(* of the handler passes by all of them to Recover, which stands outside.  *)
(*                                                                         *)
(* The status of an error is worked out twice, by wideEventLog for the log *)
(* and by errorHandler for the client, with different tests of its type.   *)
(***************************************************************************)
EXTENDS Integers, Sequences

CONSTANTS
    Merchants,
    None        \* no merchant, no response, no log entry

ASSUME GatewayAssumption == None \notin Merchants

VARIABLES
    route,      \* "public", "session", "sessionOrKey", or "none" that matches
    creds,      \* the merchant each credential of the request stands for, or None
    link,       \* "up", or "lost" when the client is gone
    pc,
    attempt,    \* the credential requireAny has reached
    ctx,        \* the merchant in the request context
    runs,       \* history: what each run of the handler came to
    err,        \* the error on its way out, or NoError
    response,   \* the committed response [status, merchant], or None
    logged      \* what wideEventLog has written [status, merchant], or None

vars == <<route, creds, link, pc, attempt, ctx, runs, err, response, logged>>

-----------------------------------------------------------------------------
\* The credentials a route accepts, in the order they are tried.
Accepts(rt) ==
    CASE rt \in {"none", "public"} -> <<>>
      [] rt = "session" -> <<"session">>
      [] rt = "sessionOrKey" -> <<"session", "secretKey">>

MaybeMerchant == Merchants \cup {None}

\* An error by its type: an AppError ("app"), an *echo.HTTPError ("http"), another
\* type that has a StatusCode method ("coder"), or one that has none ("other").
Unhandled == [kind |-> "other", status |-> 500]
Unauthorized == [kind |-> "app", status |-> 401]

\* What handlers return: they turn the errors of Bind into AppErrors, and wrap
\* those of the datastore.
HandlerErrors == [kind : {"app"}, status : {400, 401, 404, 409}] \cup {Unhandled}

\* What echo's router returns for a path or a method without a route; which of
\* the two types these errors have is up to the library.
RouterErrors == [kind : {"http", "coder"}, status : {404, 405}]

Errors == HandlerErrors \cup RouterErrors
NoError == [kind |-> "none", status |-> 0]

\* wideEventLog asks for an echo.HTTPStatusCoder.
LoggedStatus(e) == IF e.kind = "other" THEN 500 ELSE e.status

\* Mutant of SentStatus: an *echo.HTTPError is not looked for.
SentStatusOfAppErrors(e) == IF e.kind = "app" THEN e.status ELSE 500

\* errorHandler asks for an AppError, then for an *echo.HTTPError.
SentStatus(e) == IF e.kind \in {"app", "http"} THEN e.status ELSE 500

Init ==
    /\ route \in {"none", "public", "session", "sessionOrKey"}
    /\ creds \in [session : MaybeMerchant, secretKey : MaybeMerchant]
    /\ link = "up"
    /\ pc = CASE route = "none" -> "router"
              [] route = "public" -> "handler"
              [] route \in {"session", "sessionOrKey"} -> "auth"
    /\ attempt = 1
    /\ ctx = None
    /\ runs = <<>>
    /\ err = NoError
    /\ response = None
    /\ logged = None

-----------------------------------------------------------------------------
\* The client goes away: what is written from here on fails.
LinkLost ==
    /\ link = "up" /\ pc # "done"
    /\ link' = "lost"
    /\ UNCHANGED <<route, creds, pc, attempt, ctx, runs, err, response, logged>>

\* No route matches: no group's middleware runs, and the router's error goes out.
RouterRefuses(e) ==
    /\ pc = "router"
    /\ err' = e
    /\ pc' = "log"
    /\ UNCHANGED <<route, creds, link, attempt, ctx, runs, response, logged>>

\* Mutant of Authenticate: the route does not decide which credential counts.
AuthenticateEither ==
    /\ pc = "auth"
    /\ \E c \in DOMAIN creds : creds[c] # None /\ ctx' = creds[c]
    /\ pc' = "handler"
    /\ UNCHANGED <<route, creds, link, attempt, runs, err, response, logged>>

\* requireSession or requireSecretKey: the credential names a merchant, which is
\* put into the context.
Authenticate ==
    LET credential == Accepts(route)[attempt]
    IN  /\ pc = "auth"
        /\ creds[credential] # None
        /\ ctx' = creds[credential]
        /\ pc' = "handler"
        /\ UNCHANGED <<route, creds, link, attempt, runs, err, response, logged>>

\* The credential is absent or invalid, or its lookup fails.
Refuse ==
    /\ pc = "auth"
    /\ pc' = "refused"
    /\ err' = Unauthorized
    /\ UNCHANGED <<route, creds, link, attempt, ctx, runs, response, logged>>

\* The handler answers 200 for the merchant in the context; a write to a lost
\* link is committed all the same, and fails.
HandlerAnswers ==
    /\ pc = "handler"
    /\ runs' = Append(runs, IF link = "up" THEN 200 ELSE 500)
    /\ response' = IF response = None
                   THEN [status |-> 200, merchant |-> ctx] ELSE response
    /\ \/ /\ link = "up"
          /\ err' = NoError
          /\ pc' = "log"
       \/ /\ link = "lost"
          /\ err' = Unhandled
          /\ pc' = "refused"
    /\ UNCHANGED <<route, creds, link, attempt, ctx, logged>>

\* The handler returns an error and writes nothing.
HandlerFails(e) ==
    /\ pc = "handler"
    /\ runs' = Append(runs, e.status)
    /\ err' = e
    /\ pc' = "refused"
    /\ UNCHANGED <<route, creds, link, attempt, ctx, response, logged>>

\* A history entry of runs: the handler panicked.
Panicked == 0

\* The handler panics before it writes: neither requireAny nor wideEventLog goes
\* on, and Recover makes an error of it, which errorHandler turns into 500.
HandlerPanics ==
    /\ pc = "handler"
    /\ runs' = Append(runs, Panicked)
    /\ err' = Unhandled
    /\ pc' = "error"
    /\ UNCHANGED <<route, creds, link, attempt, ctx, response, logged>>

\* Mutant of NextCredential: the loop runs one credential too far.
NextCredentialTooFar ==
    /\ pc = "refused" /\ route = "sessionOrKey"
    /\ attempt' = attempt + 1
    /\ err' = NoError
    /\ pc' = "auth"
    /\ UNCHANGED <<route, creds, link, ctx, runs, response, logged>>

\* Mutant of NextCredential: after the last credential the first one again.
NextCredentialAround ==
    /\ pc = "refused" /\ route = "sessionOrKey"
    /\ attempt' = IF attempt < Len(Accepts(route)) THEN attempt + 1 ELSE 1
    /\ err' = NoError
    /\ pc' = "auth"
    /\ UNCHANGED <<route, creds, link, ctx, runs, response, logged>>

\* requireAny: whatever the error, and whoever returned it, the next credential
\* is tried; after the last one the error is ErrUnauthorized.
NextCredential ==
    /\ pc = "refused" /\ route = "sessionOrKey"
    /\ IF attempt < Len(Accepts(route))
       THEN /\ attempt' = attempt + 1
            /\ err' = NoError
            /\ pc' = "auth"
       ELSE /\ err' = Unauthorized
            /\ pc' = "log"
            /\ UNCHANGED attempt
    /\ UNCHANGED <<route, creds, link, ctx, runs, response, logged>>

\* Without requireAny the error goes straight out.
ErrorGoesOut ==
    /\ pc = "refused" /\ route # "sessionOrKey"
    /\ pc' = "log"
    /\ UNCHANGED <<route, creds, link, attempt, ctx, runs, err, response, logged>>

\* wideEventLog: the status of the error, else that of the response.
WideEventLog ==
    /\ pc = "log"
    /\ logged' = [status |-> IF err # NoError THEN LoggedStatus(err)
                                             ELSE response.status,
                  merchant |-> ctx]
    /\ pc' = IF err # NoError THEN "error" ELSE "done"
    /\ UNCHANGED <<route, creds, link, attempt, ctx, runs, err, response>>

\* Mutant of ErrorHandler: a committed response is not looked for.
ErrorHandlerAgain ==
    /\ pc = "error"
    /\ response' = [status |-> SentStatus(err), merchant |-> None]
    /\ pc' = "done"
    /\ UNCHANGED <<route, creds, link, attempt, ctx, runs, err, logged>>

\* errorHandler: nothing after a committed response, else a status of its choice.
ErrorHandler ==
    /\ pc = "error"
    /\ response' = IF response = None
                   THEN [status |-> SentStatus(err), merchant |-> None] ELSE response
    /\ pc' = "done"
    /\ UNCHANGED <<route, creds, link, attempt, ctx, runs, err, logged>>

Step ==
    \/ (\E e \in RouterErrors : RouterRefuses(e))
    \/ Authenticate \/ Refuse
    \/ HandlerAnswers \/ (\E e \in HandlerErrors : HandlerFails(e)) \/ HandlerPanics
    \/ NextCredential \/ ErrorGoesOut
    \/ WideEventLog \/ ErrorHandler

\* The request has been answered.
Finished == pc = "done" /\ UNCHANGED vars

Next == Step \/ LinkLost \/ Finished

Spec == Init /\ [][Next]_vars

\* The Go scheduler runs the handler, and its calls return.
FairSpec == Spec /\ WF_vars(Step)

-----------------------------------------------------------------------------
(* Properties.                                                             *)

Statuses == {200, 400, 401, 404, 405, 409, 500}

TypeOK ==
    /\ route \in {"none", "public", "session", "sessionOrKey"}
    /\ creds \in [session : MaybeMerchant, secretKey : MaybeMerchant]
    /\ link \in {"up", "lost"}
    /\ pc \in {"router", "auth", "handler", "refused", "log", "error", "done"}
    /\ attempt \in 1..2
    /\ ctx \in MaybeMerchant
    /\ runs \in Seq(Statuses \cup {Panicked})
    /\ err \in Errors \cup {NoError}
    /\ response \in [status : Statuses, merchant : MaybeMerchant] \cup {None}
    /\ logged \in [status : Statuses, merchant : MaybeMerchant] \cup {None}

LastRunPanicked == runs # <<>> /\ runs[Len(runs)] = Panicked

\* What the log is good for.  On every route of the server it names the status
\* that the client was sent and the merchant that was served, although the two
\* sides work the status out by different tests, and also when a first run of the
\* handler failed and a second one, for another merchant, succeeded.  A request
\* that matches no route is the exception: if the router's error is neither an
\* AppError nor an *echo.HTTPError the log has its status and the client 500.  A
\* request whose handler panicked, in whichever run, is not in the log, and is
\* answered 500.  (Nobody reads the status of a link that was lost.)
LogMatchesReply ==
    pc = "done" /\ link = "up" =>
        IF LastRunPanicked THEN logged = None /\ response.status = 500
        ELSE /\ (route = "none" /\ err.kind = "coder") \/ logged.status = response.status
             /\ err.kind = "coder" =>
                    logged.status = err.status /\ response.status = 500
             /\ response.status = 200 => logged.merchant = response.merchant

\* Data of a merchant is sent only to a client that presented a credential of
\* that merchant which the route accepts.
ServedToCredential ==
    response # None /\ response.merchant # None =>
        \E i \in DOMAIN Accepts(route) : creds[Accepts(route)[i]] = response.merchant

\* A request is answered once: neither a second run of the handler nor
\* errorHandler replaces a response that was committed, and a handler runs again
\* only after a run that failed.
AnsweredOnce ==
    [][/\ response # None => response' = response
       /\ runs' # runs /\ runs # <<>> => runs[Len(runs)] # 200]_vars

\* Every request is answered, and logged unless its handler panicked.
Answered ==
    <>(pc = "done" /\ response # None /\ (logged # None \/ LastRunPanicked))

\* middleware_test.go has requireAny reject "if all middlewares fail", and
\* settlement_destination_test.go has List fail with validation_failed: when a
\* middleware lets a request in and the handler runs, the client is sent what
\* the handler came to.
HandlerErrorReachesClient ==
    pc = "done" /\ link = "up" /\ runs # <<>> /\ ~ LastRunPanicked =>
        response.status = runs[Len(runs)]
=============================================================================
