--------------------------- MODULE SpotwareClient ---------------------------
(***************************************************************************)
(* SpotwareClient (src/src/client/spotware-client.ts) and the handshake of   *)
(* SpotwareSocketAuthenticator it runs on every connection, on top of        *)
(* ConnectionService: send() waits for the handshake, then for a valid       *)
(* access token, then registers the request in pendingRequests and hands it  *)
(* to the transport; responses, errors, timeouts and drops settle it.        *)
(*                                                                         *)
(* A continuation of an awaited promise runs before the next event, so an    *)
(* action is an event together with everything it resumes: the answer to a   *)
(* handshake resumes every send() that awaited it, the end of a token        *)
(* refresh resumes every send() and every handshake that awaited it.         *)
(* Connections are numbered; the handshake of connection c is attempt c.     *)
(***************************************************************************)
EXTENDS Integers

CONSTANTS
    Reqs,      \* the calls of send(), each with its own clientMsgId
    MaxConns   \* bound: the connections of a behaviour

ASSUME MaxConnsAssumption == MaxConns \in Nat

VARIABLES
    link, wish,       \* the transport, as ConnectionService sees it
    conn,             \* the number of the current (or last) connection
    att,              \* how far the handshake of each connection has come
    attOn,            \* the connection each handshake last sent a request on
    authed,           \* server: the connections with an authenticated account
    tok,              \* "fresh" or "expiring": the access token and the clock
    refreshing,       \* tokenRefreshInFlight # undefined
    refreshes,        \* HTTP requests that present the refresh token
    phase,            \* how far each send() has come
    waitsFor,         \* the handshake it awaits
    sentOn,           \* the connection it was handed to the transport on
    pendingRequests,  \* pendingRequests
    timers,           \* the requests whose timeout is armed
    outcome,          \* "none", "resolved" or "rejected"
    settles,          \* history: how often a request was settled
    safe              \* history: handed over on an authenticated connection

connVars == <<link, wish, conn>>
authVars == <<att, attOn, authed>>
tokVars == <<tok, refreshing, refreshes>>
reqVars == <<phase, waitsFor, sentOn, pendingRequests, timers, outcome, settles, safe>>
vars == <<connVars, authVars, tokVars, reqVars>>

Conn == INSTANCE ConnectionService

Epochs == 1..MaxConns
InProgress == {"token", "app", "account"}

TypeOK ==
    /\ Conn!TypeOK
    /\ conn \in 0..MaxConns
    /\ att \in [Epochs -> InProgress \cup {"none", "done", "failed"}]
    /\ attOn \in [Epochs -> 0..MaxConns]
    /\ authed \subseteq Epochs
    /\ tok \in {"fresh", "expiring"}
    /\ refreshing \in BOOLEAN
    /\ refreshes \in Nat
    /\ phase \in [Reqs -> {"idle", "auth", "token", "handed"}]
    /\ waitsFor \in [Reqs -> 0..MaxConns]
    /\ sentOn \in [Reqs -> 0..MaxConns]
    /\ pendingRequests \subseteq Reqs /\ timers \subseteq Reqs
    /\ outcome \in [Reqs -> {"none", "resolved", "rejected"}]
    /\ settles \in [Reqs -> Nat]
    /\ safe \in [Reqs -> {"yes", "no", "refreshed"}]

Init ==
    /\ Conn!Init
    /\ conn = 0
    /\ att = [e \in Epochs |-> "none"]
    /\ attOn = [e \in Epochs |-> 0]
    /\ authed = {}
    /\ tok \in {"fresh", "expiring"}
    /\ refreshing = FALSE
    /\ refreshes = 0
    /\ phase = [r \in Reqs |-> "idle"]
    /\ waitsFor = [r \in Reqs |-> 0]
    /\ sentOn = [r \in Reqs |-> 0]
    /\ pendingRequests = {}
    /\ timers = {}
    /\ outcome = [r \in Reqs |-> "none"]
    /\ settles = [r \in Reqs |-> 0]
    /\ safe = [r \in Reqs |-> "yes"]

-----------------------------------------------------------------------------
(* ensureValidToken(): a refresh in flight is joined, a fresh token is used,  *)
(* an expiring one is refreshed.                                             *)
TokenUsable == ~refreshing /\ tok = "fresh"

\* Mutant of AwaitToken: every caller starts its own refresh.
MutAwaitToken ==
    /\ refreshing' = TRUE
    /\ refreshes' = refreshes + 1
    /\ UNCHANGED tok

\* Mutant of AwaitToken: the refresh is announced, but never requested.
MutAwaitTokenNoRequest == refreshing' = TRUE /\ UNCHANGED <<tok, refreshes>>

AwaitToken ==
    /\ refreshing' = TRUE
    /\ refreshes' = IF refreshing THEN refreshes ELSE refreshes + 1
    /\ UNCHANGED tok

-----------------------------------------------------------------------------
(* What becomes of calls of send() in one run of the event loop.             *)

\* Mutant of Close: the entry stays in pendingRequests.
MutClose(S, how) ==
    /\ outcome' = [r \in Reqs |-> IF r \in S THEN how ELSE outcome[r]]
    /\ settles' = [r \in Reqs |-> IF r \in S THEN settles[r] + 1 ELSE settles[r]]
    /\ timers' = timers \ S
    /\ UNCHANGED <<pendingRequests, phase, waitsFor, sentOn, safe>>

\* resolve or reject of the pending entries of S: each cleans up after itself.
Close(S, how) ==
    /\ outcome' = [r \in Reqs |-> IF r \in S THEN how ELSE outcome[r]]
    /\ settles' = [r \in Reqs |-> IF r \in S THEN settles[r] + 1 ELSE settles[r]]
    /\ pendingRequests' = pendingRequests \ S
    /\ timers' = timers \ S
    /\ UNCHANGED <<phase, waitsFor, sentOn, safe>>

\* The calls in S go on to transport.send(), which throws when no socket is
\* live; the calls in F are rejected before they get there.  A: the connections
\* that are authenticated by then.
Hand(S, F, A) ==
    LET ok == IF link = "up" THEN S ELSE {}
        bad == F \cup (S \ ok)
    IN  /\ phase' = [r \in Reqs |-> IF r \in S \cup F THEN "handed" ELSE phase[r]]
        /\ sentOn' = [r \in Reqs |-> IF r \in ok THEN conn ELSE sentOn[r]]
        /\ pendingRequests' = pendingRequests \cup ok
        /\ timers' = timers \cup ok
        /\ outcome' = [r \in Reqs |-> IF r \in bad THEN "rejected" ELSE outcome[r]]
        /\ settles' = [r \in Reqs |-> IF r \in bad THEN settles[r] + 1 ELSE settles[r]]
        /\ safe' = [r \in Reqs |->
                       IF r \in ok
                       THEN IF phase[r] = "token" THEN "refreshed"
                            ELSE IF conn \in A THEN "yes" ELSE "no"
                       ELSE safe[r]]
        /\ UNCHANGED waitsFor

\* The calls in S are past the handshake and need a valid token next.
PassAuth(S, A) ==
    IF S = {} \/ TokenUsable
    THEN Hand(S, {}, A) /\ UNCHANGED tokVars
    ELSE /\ AwaitToken
         /\ phase' = [r \in Reqs |-> IF r \in S THEN "token" ELSE phase[r]]
         /\ UNCHANGED <<waitsFor, sentOn, pendingRequests, timers, outcome, settles,
                        safe>>

AwaitingAuth(T) == {r \in Reqs : phase[r] = "auth" /\ waitsFor[r] \in T}

-----------------------------------------------------------------------------
(* send()                                                                    *)

\* Mutant of SendAtOnce: a handshake still in progress is not awaited.
MutSendAtOnce(r) ==
    /\ phase[r] = "idle"
    /\ conn > 0 => att[conn] # "failed"
    /\ PassAuth({r}, authed)
    /\ UNCHANGED <<connVars, authVars>>

\* No handshake has begun yet, or the last one has succeeded.
SendAtOnce(r) ==
    /\ phase[r] = "idle"
    /\ conn > 0 => att[conn] = "done"
    /\ PassAuth({r}, authed)
    /\ UNCHANGED <<connVars, authVars>>

SendAwaitsHandshake(r) ==
    /\ phase[r] = "idle"
    /\ conn > 0 /\ att[conn] \in InProgress
    /\ phase' = [phase EXCEPT ![r] = "auth"]
    /\ waitsFor' = [waitsFor EXCEPT ![r] = conn]
    /\ UNCHANGED <<connVars, authVars, tokVars, sentOn, pendingRequests, timers,
                   outcome, settles, safe>>

\* authenticationInFlight is a promise that has been rejected before.
SendFindsFailedHandshake(r) ==
    /\ phase[r] = "idle"
    /\ conn > 0 /\ att[conn] = "failed"
    /\ Hand({}, {r}, authed)
    /\ UNCHANGED <<connVars, authVars, tokVars>>

-----------------------------------------------------------------------------
(* The transport's events.                                                   *)
Quiet == UNCHANGED <<conn, authVars, tokVars, reqVars>>

ConnectOrDisconnect == (Conn!Open \/ Conn!Close \/ Conn!GiveUp) /\ Quiet
ConnectionLost == Conn!Lose /\ Quiet

\* 'connected': handleConnected() starts attempt conn'.
Connected ==
    /\ conn < MaxConns
    /\ Conn!Establish
    /\ conn' = conn + 1
    /\ IF TokenUsable
       THEN /\ att' = [att EXCEPT ![conn + 1] = "app"]
            /\ attOn' = [attOn EXCEPT ![conn + 1] = conn + 1]
            /\ UNCHANGED tokVars
       ELSE /\ att' = [att EXCEPT ![conn + 1] = "token"]
            /\ AwaitToken
            /\ UNCHANGED attOn
    /\ UNCHANGED <<authed, reqVars>>

\* Mutant of Disconnected: pending requests are left to their own timeouts.
MutDisconnected ==
    /\ Conn!Report
    /\ UNCHANGED <<conn, authVars, tokVars, reqVars>>

\* 'disconnected': rejectPendingRequests().
Disconnected ==
    /\ Conn!Report
    /\ Close(pendingRequests, "rejected")
    /\ UNCHANGED <<conn, authVars, tokVars>>

-----------------------------------------------------------------------------
(* The handshake.                                                            *)

\* Mutant of FailAttempts: sends that await the handshake are forgotten.
MutFailAttempts(T) ==
    /\ att' = [e \in Epochs |-> IF e \in T THEN "failed" ELSE att[e]]
    /\ UNCHANGED <<connVars, attOn, authed, tokVars, reqVars>>

FailAttempts(T) ==
    /\ att' = [e \in Epochs |-> IF e \in T THEN "failed" ELSE att[e]]
    /\ Hand({}, AwaitingAuth(T), authed)
    /\ UNCHANGED <<connVars, attOn, authed, tokVars>>

Answerable(e) == link = "up" /\ attOn[e] = conn

ApplicationAuthenticated(e) ==
    /\ att[e] = "app" /\ Answerable(e)
    /\ att' = [att EXCEPT ![e] = "account"]
    /\ UNCHANGED <<connVars, attOn, authed, tokVars, reqVars>>

\* The account is authenticated; 'authenticated' is emitted and the sends that
\* awaited this handshake go on.
AccountAuthenticated(e) ==
    /\ att[e] = "account" /\ Answerable(e)
    /\ att' = [att EXCEPT ![e] = "done"]
    /\ authed' = authed \cup {conn}
    /\ PassAuth(AwaitingAuth({e}), authed')
    /\ UNCHANGED <<connVars, attOn>>

HandshakeRefused(e) ==
    /\ att[e] \in {"app", "account"} /\ Answerable(e)
    /\ FailAttempts({e})

\* An error without a clientMsgId settles every handshake that listens.
UncorrelatedError ==
    LET T == {e \in Epochs : att[e] \in {"app", "account"}}
    IN  link = "up" /\ T # {} /\ FailAttempts(T)

\* The response timeout, or a write error: a drop does not end the wait.
HandshakeTimesOut(e) ==
    /\ att[e] \in {"app", "account"}
    /\ FailAttempts({e})

-----------------------------------------------------------------------------
(* The token.                                                                *)
TokenExpires ==
    /\ tok = "fresh"
    /\ tok' = "expiring"
    /\ UNCHANGED <<connVars, authVars, refreshing, refreshes, reqVars>>

AwaitingToken == {r \in Reqs : phase[r] = "token"}
AttemptsAwaitingToken == {e \in Epochs : att[e] = "token"}

\* A response without expiresIn leaves a token that is expiring already.
RefreshSucceeds ==
    /\ refreshing
    /\ tok' \in {"fresh", "expiring"}
    /\ refreshing' = FALSE /\ refreshes' = refreshes - 1
    /\ LET T == AttemptsAwaitingToken
       IN  IF link = "up"
           THEN /\ att' = [e \in Epochs |-> IF e \in T THEN "app" ELSE att[e]]
                /\ attOn' = [e \in Epochs |-> IF e \in T THEN conn ELSE attOn[e]]
                /\ Hand(AwaitingToken, {}, authed)
           ELSE /\ att' = [e \in Epochs |-> IF e \in T THEN "failed" ELSE att[e]]
                /\ Hand(AwaitingToken, AwaitingAuth(T), authed)
                /\ UNCHANGED attOn
    /\ UNCHANGED <<connVars, authed>>

RefreshFails ==
    /\ refreshing
    /\ refreshing' = FALSE /\ refreshes' = refreshes - 1
    /\ att' = [e \in Epochs |-> IF att[e] = "token" THEN "failed" ELSE att[e]]
    /\ Hand({}, AwaitingToken \cup AwaitingAuth(AttemptsAwaitingToken), authed)
    /\ UNCHANGED <<connVars, attOn, authed, tok>>

-----------------------------------------------------------------------------
(* What settles a pending request.                                           *)

\* handleMessage on a message with the request's clientMsgId: the server may
\* send several (an order's execution events) or one that comes too late.
Answer(r, how) ==
    /\ sentOn[r] > 0 /\ sentOn[r] = conn /\ link = "up"
    /\ Close({r} \cap pendingRequests, how)
    /\ UNCHANGED <<connVars, authVars, tokVars>>

\* The frame was still throttled when its socket died: the write fails.
WriteFails(r) ==
    /\ r \in pendingRequests /\ link = "lost"
    /\ Close({r}, "rejected")
    /\ UNCHANGED <<connVars, authVars, tokVars>>

RequestTimesOut(r) ==
    /\ r \in timers
    /\ Close({r} \cap pendingRequests, "rejected")
    /\ UNCHANGED <<connVars, authVars, tokVars>>

-----------------------------------------------------------------------------
Next ==
    \/ \E r \in Reqs :
          \/ SendAtOnce(r) \/ SendAwaitsHandshake(r) \/ SendFindsFailedHandshake(r)
          \/ \E how \in {"resolved", "rejected"} : Answer(r, how)
          \/ WriteFails(r) \/ RequestTimesOut(r)
    \/ ConnectOrDisconnect \/ ConnectionLost \/ Connected \/ Disconnected
    \/ \E e \in Epochs :
          \/ ApplicationAuthenticated(e) \/ AccountAuthenticated(e)
          \/ HandshakeRefused(e) \/ HandshakeTimesOut(e)
    \/ UncorrelatedError
    \/ TokenExpires \/ RefreshSucceeds \/ RefreshFails

Spec == Init /\ [][Next]_vars

(* Fairness: armed timeouts fire, a destroyed socket's 'close' is delivered   *)
(* and the HTTP request of a refresh is answered or fails.                   *)
Fairness ==
    /\ \A r \in Reqs : WF_vars(RequestTimesOut(r))
    /\ \A e \in Epochs : WF_vars(HandshakeTimesOut(e))
    /\ WF_vars(RefreshSucceeds \/ RefreshFails)
    /\ WF_vars(Disconnected)

FairSpec == Spec /\ Fairness

-----------------------------------------------------------------------------
(* Every entry of pendingRequests has its timeout and waits for an answer on  *)
(* the connection that is current and not yet reported lost: no answer from   *)
(* before a reconnect is waited for, and none is waited for after a drop.    *)
PendingOnCurrentConnection ==
    \A r \in pendingRequests :
        r \in timers /\ sentOn[r] = conn /\ link # "down" /\ outcome[r] = "none"

(* A call of send() is settled once, whatever answers, duplicates, timeouts,  *)
(* write errors and drops race for it.                                       *)
SettledOnce ==
    \A r \in Reqs : settles[r] <= 1 /\ (outcome[r] = "none" <=> settles[r] = 0)

(* A refresh token is single-use: whoever needs a token while a refresh is in *)
(* flight joins it, so no two requests ever present it at a time.            *)
OneRefresh == refreshes <= 1

(* A call of send() that did not have to wait for a token refresh is put on a *)
(* connection whose account the server has authenticated, even when the       *)
(* connection was replaced while it waited for the handshake.                *)
SentAuthenticated == \A r \in Reqs : safe[r] # "no"

(* The pending requests are those handed over and not settled, each timed on   *)
(* the current connection; the others have not begun, or have been settled    *)
(* once.                                                                     *)
RequestsInv ==
    /\ timers = pendingRequests
    /\ \A r \in Reqs :
          /\ phase[r] # "handed" => settles[r] = 0 /\ r \notin pendingRequests
          /\ outcome[r] = "none" <=> settles[r] = 0
          /\ settles[r] <= 1
          /\ r \in pendingRequests => outcome[r] = "none" /\ sentOn[r] = conn
    /\ link = "down" => pendingRequests = {}

(* No handshake is ahead of its connection, and the last one is only done on a *)
(* connection that the server has authenticated.                             *)
HandshakesInv ==
    /\ link = "up" => conn > 0
    /\ \A e \in Epochs : e > conn => att[e] = "none"
    /\ conn > 0 /\ att[conn] = "done" => conn \in authed

RefreshInv == refreshes = IF refreshing THEN 1 ELSE 0

(* Types, and the three parts that make the properties above inductive.       *)
IInv == TypeOK /\ RequestsInv /\ HandshakesInv /\ RefreshInv /\ SentAuthenticated

(* Every call of send() is settled in the end, though a drop during its wait  *)
(* for a handshake or a token rejects nothing.                               *)
EverySendSettles ==
    \A r \in Reqs : phase[r] # "idle" ~> outcome[r] # "none"

(* What the comment at spotware-client.ts:181-183 says of a handshake promise *)
(* left behind after settling: awaiting it is a no-op, so a send() on a live  *)
(* connection is not rejected on the spot.                                   *)
SettledHandshakeIsHarmless ==
    [][\A r \in Reqs : phase[r] = "idle" /\ link = "up" => outcome'[r] = "none"]_vars
=============================================================================
