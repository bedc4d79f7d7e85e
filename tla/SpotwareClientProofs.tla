------------------------ MODULE SpotwareClientProofs ------------------------
(***************************************************************************)
(* For any set of calls of send() and any number of connections: a pending    *)
(* request belongs to the current connection, every call is settled once, one *)
(* refresh is in flight at most, and no request is put on a connection that   *)
(* is not authenticated.  The variables fall into four groups; each lemma     *)
(* below says what one building block of the actions does to one group.      *)
(***************************************************************************)
EXTENDS SpotwareClient, TLAPS

USE MaxConnsAssumption

ConnTypes == Conn!TypeOK /\ conn \in 0..MaxConns

AuthTypes ==
    /\ att \in [Epochs -> InProgress \cup {"none", "done", "failed"}]
    /\ attOn \in [Epochs -> 0..MaxConns]
    /\ authed \subseteq Epochs

TokTypes == tok \in {"fresh", "expiring"} /\ refreshing \in BOOLEAN /\ refreshes \in Nat

ReqTypes ==
    /\ phase \in [Reqs -> {"idle", "auth", "token", "handed"}]
    /\ waitsFor \in [Reqs -> 0..MaxConns]
    /\ sentOn \in [Reqs -> 0..MaxConns]
    /\ pendingRequests \subseteq Reqs /\ timers \subseteq Reqs
    /\ outcome \in [Reqs -> {"none", "resolved", "rejected"}]
    /\ settles \in [Reqs -> Nat]
    /\ safe \in [Reqs -> {"yes", "no", "refreshed"}]

ConnOK == ConnTypes
AuthOK == AuthTypes /\ HandshakesInv
TokOK == TokTypes /\ RefreshInv
ReqOK == ReqTypes /\ RequestsInv /\ SentAuthenticated

LEMMA Groups == IInv <=> ConnOK /\ AuthOK /\ TokOK /\ ReqOK
  BY DEF IInv, TypeOK, ConnOK, AuthOK, TokOK, ReqOK, ConnTypes, AuthTypes, TokTypes, ReqTypes

LEMMA GroupsNext == IInv' <=> ConnOK' /\ AuthOK' /\ TokOK' /\ ReqOK'
  BY DEF IInv, TypeOK, ConnOK, AuthOK, TokOK, ReqOK, ConnTypes, AuthTypes, TokTypes, ReqTypes

-----------------------------------------------------------------------------
(* The calls of send().                                                       *)

LEMMA HandReq ==
  ASSUME ConnOK, ReqOK, UNCHANGED connVars,
         NEW S, NEW F, NEW A, S \subseteq Reqs, F \subseteq Reqs,
         S \cap F = {},
         \A r \in S \cup F : phase[r] # "handed",
         \A r \in S : link = "up" /\ phase[r] # "token" => conn \in A,
         Hand(S, F, A)
  PROVE  ReqOK'
<1> DEFINE ok == IF link = "up" THEN S ELSE {}
           bad == F \cup (S \ ok)
<1>1. conn' = conn /\ link' = link
  BY DEF connVars
<1>2. /\ phase' = [r \in Reqs |-> IF r \in S \cup F THEN "handed" ELSE phase[r]]
      /\ sentOn' = [r \in Reqs |-> IF r \in ok THEN conn ELSE sentOn[r]]
      /\ pendingRequests' = pendingRequests \cup ok
      /\ timers' = timers \cup ok
      /\ outcome' = [r \in Reqs |-> IF r \in bad THEN "rejected" ELSE outcome[r]]
      /\ settles' = [r \in Reqs |-> IF r \in bad THEN settles[r] + 1 ELSE settles[r]]
      /\ waitsFor' = waitsFor
  BY DEF Hand
<1>3. safe' = [r \in Reqs |->
                 IF r \in ok
                 THEN IF phase[r] = "token" THEN "refreshed"
                      ELSE IF conn \in A THEN "yes" ELSE "no"
                 ELSE safe[r]]
  BY DEF Hand
<1>4. ok \subseteq S
  OBVIOUS
<1>5. ReqTypes'
  <2>1. phase' \in [Reqs -> {"idle", "auth", "token", "handed"}]
    BY <1>2 DEF ReqOK, ReqTypes
  <2>2. sentOn' \in [Reqs -> 0..MaxConns] /\ waitsFor' \in [Reqs -> 0..MaxConns]
    BY <1>2 DEF ReqOK, ReqTypes, ConnOK, ConnTypes
  <2>3. pendingRequests' \subseteq Reqs /\ timers' \subseteq Reqs
    BY <1>2, <1>4 DEF ReqOK, ReqTypes
  <2>4. outcome' \in [Reqs -> {"none", "resolved", "rejected"}] /\ settles' \in [Reqs -> Nat]
    BY <1>2 DEF ReqOK, ReqTypes
  <2>5. safe' \in [Reqs -> {"yes", "no", "refreshed"}]
    BY <1>3 DEF ReqOK, ReqTypes
  <2>6. QED
    BY <2>1, <2>2, <2>3, <2>4, <2>5 DEF ReqTypes
<1>6. SentAuthenticated'
  BY <1>3, <1>4 DEF ReqOK, ReqTypes, SentAuthenticated
<1>7. ASSUME NEW r \in Reqs
      PROVE  /\ phase'[r] # "handed" => settles'[r] = 0 /\ r \notin pendingRequests'
             /\ outcome'[r] = "none" <=> settles'[r] = 0
             /\ settles'[r] <= 1
             /\ r \in pendingRequests' => outcome'[r] = "none" /\ sentOn'[r] = conn'
  <2>1. r \in S \cup F => settles[r] = 0 /\ r \notin pendingRequests /\ outcome[r] = "none"
    BY DEF ReqOK, RequestsInv
  <2>2. settles[r] \in Nat /\ outcome[r] \in {"none", "resolved", "rejected"}
    BY DEF ReqOK, ReqTypes
  <2>3. CASE r \in bad
    <3>1. outcome'[r] = "rejected" /\ settles'[r] = 1 /\ phase'[r] = "handed"
      BY <1>2, <1>4, <2>1, <2>3
    <3>2. r \in S \/ r \in F
      BY <2>3
    <3>4. r \in pendingRequests' => r \in ok
      BY <1>2, <2>1, <3>2
    <3>5. r \notin ok
      BY <1>4, <2>3
    <3>6. QED
      BY <3>1, <3>4, <3>5
  <2>4. CASE r \in ok /\ r \notin bad
    BY <1>1, <1>2, <1>4, <2>1, <2>4
  <2>5. CASE r \notin ok /\ r \notin bad
    <3>1. r \notin S \cup F
      BY <2>5
    <3>2. /\ phase'[r] = phase[r] /\ outcome'[r] = outcome[r] /\ settles'[r] = settles[r]
          /\ sentOn'[r] = sentOn[r] /\ (r \in pendingRequests' <=> r \in pendingRequests)
      BY <1>2, <2>5, <3>1
    <3>3. QED
      BY <1>1, <3>2 DEF ReqOK, RequestsInv
  <2>6. QED
    BY <2>3, <2>4, <2>5
<1>8. timers' = pendingRequests' /\ (link' = "down" => pendingRequests' = {})
  BY <1>1, <1>2 DEF ReqOK, RequestsInv
<1>9. RequestsInv'
  BY <1>7, <1>8 DEF RequestsInv
<1>10. QED
  BY <1>5, <1>6, <1>9 DEF ReqOK

LEMMA CloseReq ==
  ASSUME ConnOK, ReqOK, conn' = conn,
         NEW S, S \subseteq pendingRequests,
         NEW how \in {"resolved", "rejected"},
         link' = "down" => link = "down" \/ S = pendingRequests,
         Close(S, how)
  PROVE  ReqOK'
<1>1. /\ outcome' = [r \in Reqs |-> IF r \in S THEN how ELSE outcome[r]]
      /\ settles' = [r \in Reqs |-> IF r \in S THEN settles[r] + 1 ELSE settles[r]]
      /\ pendingRequests' = pendingRequests \ S
      /\ timers' = timers \ S
      /\ UNCHANGED <<phase, waitsFor, sentOn, safe>>
  BY DEF Close
<1>2. ReqTypes'
  BY <1>1 DEF ReqOK, ReqTypes
<1>3. SentAuthenticated'
  BY <1>1 DEF ReqOK, SentAuthenticated
<1>4. ASSUME NEW r \in Reqs
      PROVE  /\ phase'[r] # "handed" => settles'[r] = 0 /\ r \notin pendingRequests'
             /\ outcome'[r] = "none" <=> settles'[r] = 0
             /\ settles'[r] <= 1
             /\ r \in pendingRequests' => outcome'[r] = "none" /\ sentOn'[r] = conn'
  <2>1. r \in S => settles[r] = 0 /\ outcome[r] = "none" /\ phase[r] = "handed"
    BY DEF ReqOK, RequestsInv
  <2>2. CASE r \in S
    BY <1>1, <2>1, <2>2
  <2>3. CASE r \notin S
    <3>1. /\ outcome'[r] = outcome[r] /\ settles'[r] = settles[r] /\ phase'[r] = phase[r]
          /\ sentOn'[r] = sentOn[r] /\ (r \in pendingRequests' <=> r \in pendingRequests)
      BY <1>1, <2>3
    <3>2. QED
      BY <3>1 DEF ReqOK, RequestsInv
  <2>4. QED
    BY <2>2, <2>3
<1>5. timers' = pendingRequests' /\ (link' = "down" => pendingRequests' = {})
  BY <1>1 DEF ReqOK, RequestsInv
<1>6. QED
  BY <1>2, <1>3, <1>4, <1>5 DEF ReqOK, RequestsInv

LEMMA KeptReq ==
  ASSUME ReqOK, UNCHANGED reqVars,
         pendingRequests = {} \/ (conn' = conn /\ link' # "down")
  PROVE  ReqOK'
<1>1. UNCHANGED <<phase, waitsFor, sentOn, pendingRequests, timers, outcome, settles, safe>>
  BY DEF reqVars
<1>2. ReqTypes' /\ SentAuthenticated'
  BY <1>1 DEF ReqOK, ReqTypes, SentAuthenticated
<1>3. RequestsInv'
  BY <1>1 DEF ReqOK, RequestsInv
<1>4. QED
  BY <1>2, <1>3 DEF ReqOK

\* A call that has not been handed over only moves on in its phase.
LEMMA WaitReq ==
  ASSUME ReqOK, UNCHANGED connVars,
         UNCHANGED <<sentOn, pendingRequests, timers, outcome, settles, safe>>,
         phase' \in [Reqs -> {"idle", "auth", "token", "handed"}],
         waitsFor' \in [Reqs -> 0..MaxConns],
         \A r \in Reqs : phase'[r] = phase[r] \/ phase[r] # "handed"
  PROVE  ReqOK'
<1>1. ReqTypes' /\ SentAuthenticated'
  BY DEF ReqOK, ReqTypes, SentAuthenticated
<1>2. RequestsInv'
  BY DEF ReqOK, RequestsInv, connVars
<1>3. QED
  BY <1>1, <1>2 DEF ReqOK

-----------------------------------------------------------------------------
(* The token.                                                                 *)

LEMMA AwaitTokenTok == ASSUME TokOK, AwaitToken PROVE TokOK'
<1>1. refreshing' = TRUE /\ tok' = tok
  BY DEF AwaitToken
<1>2. refreshes' = 1
  <2>1. CASE refreshing
    <3>1. refreshes' = refreshes
      BY <2>1 DEF AwaitToken
    <3>2. refreshes = 1
      BY <2>1 DEF TokOK, RefreshInv
    <3>3. QED
      BY <3>1, <3>2
  <2>2. CASE ~refreshing
    <3>1. refreshes' = refreshes + 1
      BY <2>2 DEF AwaitToken
    <3>2. refreshes = 0
      BY <2>2 DEF TokOK, RefreshInv
    <3>3. QED
      BY <3>1, <3>2
  <2>3. QED
    BY <2>1, <2>2
<1>3. RefreshInv'
  BY <1>1, <1>2 DEF RefreshInv
<1>4. refreshes' \in Nat
  BY <1>2
<1>5. refreshing' \in BOOLEAN
  BY <1>1
<1>6. tok' \in {"fresh", "expiring"}
  BY <1>1 DEF TokOK, TokTypes
<1>7. QED
  BY <1>3, <1>4, <1>5, <1>6 DEF TokOK, TokTypes

LEMMA EndOfRefreshTok ==
  ASSUME TokOK, refreshing, refreshing' = FALSE, refreshes' = refreshes - 1,
         tok' \in {"fresh", "expiring"}
  PROVE  TokOK'
<1>1. refreshes = 1
  BY DEF TokOK, RefreshInv
<1>2. refreshes' = 0 /\ refreshes' \in Nat
  BY <1>1
<1>3. RefreshInv'
  BY <1>2 DEF RefreshInv
<1>4. refreshing' \in BOOLEAN
  OBVIOUS
<1>5. QED
  BY <1>2, <1>3, <1>4 DEF TokOK, TokTypes

LEMMA KeptTok == ASSUME TokOK, UNCHANGED tokVars PROVE TokOK'
  BY DEF TokOK, TokTypes, RefreshInv, tokVars

LEMMA PassAuthKeeps ==
  ASSUME ConnOK, ReqOK, TokOK, UNCHANGED connVars,
         NEW S, NEW A, S \subseteq Reqs,
         \A r \in S : phase[r] \in {"idle", "auth"},
         link = "up" /\ S # {} => conn \in A,
         PassAuth(S, A)
  PROVE  ReqOK' /\ TokOK'
<1>1. CASE S = {} \/ TokenUsable
  <2>1. Hand(S, {}, A) /\ UNCHANGED tokVars
    BY <1>1 DEF PassAuth
  <2>2. QED
    BY <2>1, HandReq, KeptTok
<1>2. CASE ~(S = {} \/ TokenUsable)
  <2>1. /\ AwaitToken
        /\ phase' = [r \in Reqs |-> IF r \in S THEN "token" ELSE phase[r]]
        /\ UNCHANGED <<waitsFor, sentOn, pendingRequests, timers, outcome, settles, safe>>
    BY <1>2 DEF PassAuth
  <2>2. phase' \in [Reqs -> {"idle", "auth", "token", "handed"}]
    BY <2>1 DEF ReqOK, ReqTypes
  <2>3. waitsFor' \in [Reqs -> 0..MaxConns]
    BY <2>1 DEF ReqOK, ReqTypes
  <2>4. \A r \in Reqs : phase'[r] = phase[r] \/ phase[r] # "handed"
    BY <2>1
  <2>5. QED
    BY <2>1, <2>2, <2>3, <2>4, WaitReq, AwaitTokenTok
<1>3. QED
  BY <1>1, <1>2

-----------------------------------------------------------------------------
(* The connection and the handshake.                                          *)

LEMMA KeptConn == ASSUME ConnOK, UNCHANGED connVars PROVE ConnOK'
  BY DEF ConnOK, ConnTypes, Conn!TypeOK, connVars

LEMMA KeptAuth == ASSUME AuthOK, UNCHANGED authVars, conn' = conn, link' = "up" => link = "up"
                  PROVE AuthOK'
  BY DEF AuthOK, AuthTypes, HandshakesInv, authVars

\* Handshakes only move on, and the current one is not done before the server knows it.
LEMMA MovedAuth ==
  ASSUME ConnOK, AuthOK, UNCHANGED connVars,
         att' \in [Epochs -> InProgress \cup {"none", "done", "failed"}],
         attOn' \in [Epochs -> 0..MaxConns],
         authed' \subseteq Epochs, authed \subseteq authed',
         \A e \in Epochs : att[e] = "none" => att'[e] = "none",
         \A e \in Epochs : att'[e] = "done" => att[e] = "done" \/ conn \in authed'
  PROVE  AuthOK'
<1>1. conn' = conn /\ link' = link
  BY DEF connVars
<1>2. conn \in 0..MaxConns
  BY DEF ConnOK, ConnTypes
<1>3. conn > 0 => conn \in Epochs
  BY <1>2 DEF Epochs
<1>4. HandshakesInv'
  BY <1>1, <1>3 DEF AuthOK, HandshakesInv
<1>5. QED
  BY <1>4 DEF AuthOK, AuthTypes

-----------------------------------------------------------------------------
(* One lemma per action.                                                      *)

LEMMA SendAtOnceIInv ==
  ASSUME IInv, NEW r \in Reqs, SendAtOnce(r) PROVE IInv'
<1>1. ConnOK /\ AuthOK /\ TokOK /\ ReqOK
  BY Groups
<1>2. /\ phase[r] = "idle" /\ (conn > 0 => att[conn] = "done")
      /\ PassAuth({r}, authed) /\ UNCHANGED connVars /\ UNCHANGED authVars
  BY DEF SendAtOnce
<1>3. link = "up" => conn \in authed
  BY <1>1, <1>2 DEF AuthOK, HandshakesInv
<1>4. ReqOK' /\ TokOK'
  BY <1>1, <1>2, <1>3, PassAuthKeeps
<1>5. ConnOK' /\ AuthOK'
  BY <1>1, <1>2, KeptConn, KeptAuth DEF connVars
<1>6. QED
  BY <1>4, <1>5, GroupsNext

LEMMA SendAwaitsHandshakeIInv ==
  ASSUME IInv, NEW r \in Reqs, SendAwaitsHandshake(r) PROVE IInv'
<1>1. ConnOK /\ AuthOK /\ TokOK /\ ReqOK
  BY Groups
<1>2. /\ phase[r] = "idle"
      /\ phase' = [phase EXCEPT ![r] = "auth"]
      /\ waitsFor' = [waitsFor EXCEPT ![r] = conn]
      /\ UNCHANGED connVars /\ UNCHANGED authVars /\ UNCHANGED tokVars
      /\ UNCHANGED <<sentOn, pendingRequests, timers, outcome, settles, safe>>
  BY DEF SendAwaitsHandshake
<1>3. phase' \in [Reqs -> {"idle", "auth", "token", "handed"}]
  BY <1>1, <1>2 DEF ReqOK, ReqTypes
<1>4. waitsFor' \in [Reqs -> 0..MaxConns]
  BY <1>1, <1>2 DEF ReqOK, ReqTypes, ConnOK, ConnTypes
<1>5. \A q \in Reqs : phase'[q] = phase[q] \/ phase[q] # "handed"
  BY <1>1, <1>2 DEF ReqOK, ReqTypes
<1>6. ReqOK'
  BY <1>1, <1>2, <1>3, <1>4, <1>5, WaitReq
<1>7. ConnOK' /\ AuthOK' /\ TokOK'
  BY <1>1, <1>2, KeptConn, KeptAuth, KeptTok DEF connVars
<1>8. QED
  BY <1>6, <1>7, GroupsNext

LEMMA SendFindsFailedHandshakeIInv ==
  ASSUME IInv, NEW r \in Reqs, SendFindsFailedHandshake(r) PROVE IInv'
<1>1. ConnOK /\ AuthOK /\ TokOK /\ ReqOK
  BY Groups
<1>2. /\ phase[r] = "idle" /\ Hand({}, {r}, authed)
      /\ UNCHANGED connVars /\ UNCHANGED authVars /\ UNCHANGED tokVars
  BY DEF SendFindsFailedHandshake
<1>3. ReqOK'
  BY <1>1, <1>2, HandReq
<1>4. ConnOK' /\ AuthOK' /\ TokOK'
  BY <1>1, <1>2, KeptConn, KeptAuth, KeptTok DEF connVars
<1>5. QED
  BY <1>3, <1>4, GroupsNext

LEMMA CloseIInv ==
  ASSUME IInv, UNCHANGED connVars, UNCHANGED authVars, UNCHANGED tokVars,
         NEW S, S \subseteq pendingRequests,
         NEW how \in {"resolved", "rejected"},
         Close(S, how)
  PROVE  IInv'
<1>1. ConnOK /\ AuthOK /\ TokOK /\ ReqOK
  BY Groups
<1>2. conn' = conn /\ link' = link
  BY DEF connVars
<1>3. ReqOK'
  BY <1>1, <1>2, CloseReq
<1>4. ConnOK' /\ AuthOK' /\ TokOK'
  BY <1>1, <1>2, KeptConn, KeptAuth, KeptTok
<1>5. QED
  BY <1>3, <1>4, GroupsNext

LEMMA AnswerIInv ==
  ASSUME IInv, NEW r \in Reqs, NEW how \in {"resolved", "rejected"}, Answer(r, how)
  PROVE  IInv'
<1>1. {r} \cap pendingRequests \subseteq pendingRequests
  OBVIOUS
<1>2. QED
  BY <1>1, CloseIInv DEF Answer

LEMMA WriteFailsIInv == ASSUME IInv, NEW r \in Reqs, WriteFails(r) PROVE IInv'
<1>1. {r} \subseteq pendingRequests
  BY DEF WriteFails
<1>2. QED
  BY <1>1, CloseIInv DEF WriteFails

LEMMA RequestTimesOutIInv == ASSUME IInv, NEW r \in Reqs, RequestTimesOut(r) PROVE IInv'
<1>1. {r} \cap pendingRequests \subseteq pendingRequests
  OBVIOUS
<1>2. QED
  BY <1>1, CloseIInv DEF RequestTimesOut

\* While no connection is lost or won, the rest of the client sees nothing.
LEMMA QuietIInv ==
  ASSUME IInv, Quiet, Conn!TypeOK', link' = link \/ link' = "lost"
  PROVE  IInv'
<1>1. ConnOK /\ AuthOK /\ TokOK /\ ReqOK
  BY Groups
<1>2. conn' = conn /\ UNCHANGED authVars /\ UNCHANGED tokVars /\ UNCHANGED reqVars
  BY DEF Quiet
<1>3. pendingRequests = {} \/ link' # "down"
  BY <1>1 DEF ReqOK, RequestsInv
<1>4. ReqOK'
  BY <1>1, <1>2, <1>3, KeptReq
<1>5. AuthOK' /\ TokOK'
  BY <1>1, <1>2, KeptAuth, KeptTok
<1>6. ConnOK'
  BY <1>1, <1>2 DEF ConnOK, ConnTypes
<1>7. QED
  BY <1>4, <1>5, <1>6, GroupsNext

LEMMA ConnectOrDisconnectIInv == ASSUME IInv, ConnectOrDisconnect PROVE IInv'
<1>1. Conn!TypeOK
  BY DEF IInv, TypeOK
<1>2. Quiet /\ Conn!TypeOK' /\ (link' = link \/ link' = "lost")
  BY <1>1 DEF ConnectOrDisconnect, Conn!Open, Conn!Close, Conn!GiveUp, Conn!TypeOK
<1>3. QED
  BY <1>2, QuietIInv

LEMMA ConnectionLostIInv == ASSUME IInv, ConnectionLost PROVE IInv'
<1>1. Conn!TypeOK
  BY DEF IInv, TypeOK
<1>2. Quiet /\ Conn!TypeOK' /\ link' = "lost"
  BY <1>1 DEF ConnectionLost, Conn!Lose, Conn!TypeOK
<1>3. QED
  BY <1>2, QuietIInv

LEMMA ConnectedIInv == ASSUME IInv, Connected PROVE IInv'
<1>1. ConnOK /\ AuthOK /\ TokOK /\ ReqOK
  BY Groups
<1>2. /\ conn < MaxConns /\ conn' = conn + 1 /\ link = "down" /\ link' = "up" /\ wish' = "keep"
      /\ authed' = authed /\ UNCHANGED reqVars
  BY DEF Connected, Conn!Establish
<1>3. conn \in 0..MaxConns
  BY <1>1 DEF ConnOK, ConnTypes
<1>4. conn + 1 \in Epochs /\ conn + 1 \in 0..MaxConns
  BY <1>2, <1>3 DEF Epochs
<1>5. ConnOK'
  BY <1>2, <1>4 DEF ConnOK, ConnTypes, Conn!TypeOK
<1>6. ReqOK'
  <2>1. pendingRequests = {}
    BY <1>1, <1>2 DEF ReqOK, RequestsInv
  <2>2. QED
    BY <1>1, <1>2, <2>1, KeptReq
<1>7. /\ att' = [att EXCEPT ![conn + 1] = "app"] \/ att' = [att EXCEPT ![conn + 1] = "token"]
      /\ attOn' = [attOn EXCEPT ![conn + 1] = conn + 1] \/ attOn' = attOn
  BY DEF Connected
<1>8. AuthTypes'
  <2>1. att' \in [Epochs -> InProgress \cup {"none", "done", "failed"}]
    BY <1>1, <1>7 DEF AuthOK, AuthTypes, InProgress
  <2>2. attOn' \in [Epochs -> 0..MaxConns]
    BY <1>1, <1>4, <1>7 DEF AuthOK, AuthTypes
  <2>3. authed' \subseteq Epochs
    BY <1>1, <1>2 DEF AuthOK, AuthTypes
  <2>4. QED
    BY <2>1, <2>2, <2>3 DEF AuthTypes
<1>9. HandshakesInv'
  <2>1. att'[conn + 1] # "done"
    BY <1>1, <1>4, <1>7 DEF AuthOK, AuthTypes
  <2>2. ASSUME NEW e \in Epochs, e > conn + 1 PROVE att'[e] = "none"
    <3>1. e > conn /\ e # conn + 1
      BY <1>3, <2>2 DEF Epochs
    <3>2. att[e] = "none"
      BY <1>1, <3>1 DEF AuthOK, HandshakesInv
    <3>3. QED
      BY <1>1, <1>7, <3>1, <3>2 DEF AuthOK, AuthTypes
  <2>3. conn' > 0
    BY <1>2, <1>3
  <2>4. QED
    BY <1>2, <2>1, <2>2, <2>3 DEF HandshakesInv
<1>10. TokOK'
  <2>1. AwaitToken \/ UNCHANGED tokVars
    BY DEF Connected
  <2>2. QED
    BY <1>1, <2>1, AwaitTokenTok, KeptTok
<1>11. QED
  BY <1>5, <1>6, <1>8, <1>9, <1>10, GroupsNext DEF AuthOK

LEMMA DisconnectedIInv == ASSUME IInv, Disconnected PROVE IInv'
<1>1. ConnOK /\ AuthOK /\ TokOK /\ ReqOK
  BY Groups
<1>2. /\ link' = "down" /\ wish' = wish /\ conn' = conn
      /\ UNCHANGED authVars /\ UNCHANGED tokVars
  BY DEF Disconnected, Conn!Report
<1>3. Close(pendingRequests, "rejected")
  BY DEF Disconnected
<1>4. ReqOK'
  BY <1>1, <1>2, <1>3, CloseReq
<1>5. AuthOK' /\ TokOK'
  BY <1>1, <1>2, KeptAuth, KeptTok
<1>6. ConnOK'
  BY <1>1, <1>2 DEF ConnOK, ConnTypes, Conn!TypeOK
<1>7. QED
  BY <1>4, <1>5, <1>6, GroupsNext

LEMMA AwaitingAuthWaits ==
  ASSUME NEW T
  PROVE  AwaitingAuth(T) \subseteq Reqs /\ \A r \in AwaitingAuth(T) : phase[r] = "auth"
  BY DEF AwaitingAuth

LEMMA FailAttemptsIInv ==
  ASSUME IInv, NEW T, \A e \in T : e \in Epochs => att[e] # "none", FailAttempts(T)
  PROVE  IInv'
<1>1. ConnOK /\ AuthOK /\ TokOK /\ ReqOK
  BY Groups
<1>2. /\ att' = [e \in Epochs |-> IF e \in T THEN "failed" ELSE att[e]]
      /\ UNCHANGED connVars /\ attOn' = attOn /\ authed' = authed /\ UNCHANGED tokVars
  BY DEF FailAttempts
<1>3. Hand({}, AwaitingAuth(T), authed)
  BY DEF FailAttempts
<1>4. ReqOK'
  BY <1>1, <1>2, <1>3, AwaitingAuthWaits, HandReq
<1>5. att' \in [Epochs -> InProgress \cup {"none", "done", "failed"}]
  BY <1>1, <1>2 DEF AuthOK, AuthTypes, InProgress
<1>6. attOn' \in [Epochs -> 0..MaxConns] /\ authed' \subseteq Epochs /\ authed \subseteq authed'
  BY <1>1, <1>2 DEF AuthOK, AuthTypes
<1>7. \A e \in Epochs : att[e] = "none" => att'[e] = "none"
  BY <1>2
<1>8. \A e \in Epochs : att'[e] = "done" => att[e] = "done"
  BY <1>2
<1>9. AuthOK'
  BY <1>1, <1>2, <1>5, <1>6, <1>7, <1>8, MovedAuth
<1>10. ConnOK' /\ TokOK'
  BY <1>1, <1>2, KeptConn, KeptTok
<1>11. QED
  BY <1>4, <1>9, <1>10, GroupsNext

LEMMA HandshakeFailsIInv ==
  ASSUME IInv, NEW e \in Epochs, HandshakeRefused(e) \/ HandshakeTimesOut(e)
  PROVE  IInv'
<1>1. FailAttempts({e}) /\ att[e] # "none"
  BY DEF HandshakeRefused, HandshakeTimesOut
<1>2. QED
  BY <1>1, FailAttemptsIInv

LEMMA UncorrelatedErrorIInv == ASSUME IInv, UncorrelatedError PROVE IInv'
<1> DEFINE T == {e \in Epochs : att[e] \in {"app", "account"}}
<1>1. FailAttempts(T)
  BY DEF UncorrelatedError
<1>2. \A e \in T : e \in Epochs => att[e] # "none"
  OBVIOUS
<1> HIDE DEF T
<1>3. QED
  BY <1>1, <1>2, FailAttemptsIInv

LEMMA ApplicationAuthenticatedIInv ==
  ASSUME IInv, NEW e \in Epochs, ApplicationAuthenticated(e) PROVE IInv'
<1>1. ConnOK /\ AuthOK /\ TokOK /\ ReqOK
  BY Groups
<1>2. /\ att[e] = "app" /\ att' = [att EXCEPT ![e] = "account"]
      /\ UNCHANGED connVars /\ attOn' = attOn /\ authed' = authed
      /\ UNCHANGED tokVars /\ UNCHANGED reqVars
  BY DEF ApplicationAuthenticated
<1>3. att' \in [Epochs -> InProgress \cup {"none", "done", "failed"}]
  BY <1>1, <1>2 DEF AuthOK, AuthTypes, InProgress
<1>4. /\ \A d \in Epochs : att[d] = "none" => att'[d] = "none"
      /\ \A d \in Epochs : att'[d] = "done" => att[d] = "done"
  BY <1>1, <1>2 DEF AuthOK, AuthTypes
<1>5. attOn' \in [Epochs -> 0..MaxConns] /\ authed' \subseteq Epochs
  BY <1>1, <1>2 DEF AuthOK, AuthTypes
<1>6. AuthOK'
  BY <1>1, <1>2, <1>3, <1>4, <1>5, MovedAuth
<1>7. pendingRequests = {} \/ (conn' = conn /\ link' # "down")
  BY <1>1, <1>2 DEF ReqOK, RequestsInv, connVars
<1>8. ConnOK' /\ TokOK' /\ ReqOK'
  BY <1>1, <1>2, <1>7, KeptConn, KeptTok, KeptReq
<1>9. QED
  BY <1>6, <1>8, GroupsNext

LEMMA AccountAuthenticatedIInv ==
  ASSUME IInv, NEW e \in Epochs, AccountAuthenticated(e) PROVE IInv'
<1>1. ConnOK /\ AuthOK /\ TokOK /\ ReqOK
  BY Groups
<1>2. /\ att[e] = "account" /\ att' = [att EXCEPT ![e] = "done"]
      /\ link = "up" /\ authed' = authed \cup {conn}
      /\ UNCHANGED connVars /\ attOn' = attOn
  BY DEF AccountAuthenticated, Answerable
<1>3. PassAuth(AwaitingAuth({e}), authed')
  BY DEF AccountAuthenticated
<1>4. conn \in Epochs
  BY <1>1, <1>2 DEF AuthOK, HandshakesInv, ConnOK, ConnTypes, Epochs
<1>5. att' \in [Epochs -> InProgress \cup {"none", "done", "failed"}]
  BY <1>1, <1>2 DEF AuthOK, AuthTypes, InProgress
<1>6. \A d \in Epochs : att[d] = "none" => att'[d] = "none"
  BY <1>1, <1>2 DEF AuthOK, AuthTypes
<1>7. attOn' \in [Epochs -> 0..MaxConns] /\ authed' \subseteq Epochs /\ authed \subseteq authed'
  BY <1>1, <1>2, <1>4 DEF AuthOK, AuthTypes
<1>8. conn \in authed'
  BY <1>2
<1>9. AuthOK'
  BY <1>1, <1>2, <1>5, <1>6, <1>7, <1>8, MovedAuth
<1>10. ReqOK' /\ TokOK'
  BY <1>1, <1>2, <1>3, <1>8, AwaitingAuthWaits, PassAuthKeeps
<1>11. ConnOK'
  BY <1>1, <1>2, KeptConn
<1>12. QED
  BY <1>9, <1>10, <1>11, GroupsNext

LEMMA TokenExpiresIInv == ASSUME IInv, TokenExpires PROVE IInv'
<1>1. ConnOK /\ AuthOK /\ TokOK /\ ReqOK
  BY Groups
<1>2. /\ tok' = "expiring" /\ refreshing' = refreshing /\ refreshes' = refreshes
      /\ UNCHANGED connVars /\ UNCHANGED authVars /\ UNCHANGED reqVars
  BY DEF TokenExpires
<1>3. refreshes' \in Nat /\ tok' \in {"fresh", "expiring"}
  BY <1>1, <1>2 DEF TokOK, TokTypes
<1>4. refreshing' \in BOOLEAN
  BY <1>1, <1>2 DEF TokOK, TokTypes
<1>5. RefreshInv'
  BY <1>1, <1>2 DEF TokOK, RefreshInv
<1>6. TokOK'
  BY <1>3, <1>4, <1>5 DEF TokOK, TokTypes
<1>7. pendingRequests = {} \/ (conn' = conn /\ link' # "down")
  BY <1>1, <1>2 DEF ReqOK, RequestsInv, connVars
<1>8. ConnOK' /\ AuthOK' /\ ReqOK'
  BY <1>1, <1>2, <1>7, KeptConn, KeptAuth, KeptReq DEF connVars
<1>9. QED
  BY <1>6, <1>8, GroupsNext

LEMMA AwaitingTokenWaits ==
  AwaitingToken \subseteq Reqs /\ \A r \in AwaitingToken : phase[r] = "token"
  BY DEF AwaitingToken

LEMMA TokenAndAuthDiffer ==
  ASSUME NEW T PROVE AwaitingToken \cap AwaitingAuth(T) = {}
  BY DEF AwaitingToken, AwaitingAuth

LEMMA RefreshSucceedsIInv == ASSUME IInv, RefreshSucceeds PROVE IInv'
<1> DEFINE T == AttemptsAwaitingToken
<1>1. ConnOK /\ AuthOK /\ TokOK /\ ReqOK
  BY Groups
<1>2. /\ refreshing /\ refreshing' = FALSE /\ refreshes' = refreshes - 1
      /\ tok' \in {"fresh", "expiring"}
      /\ UNCHANGED connVars /\ authed' = authed
  BY DEF RefreshSucceeds
<1>3. TokOK'
  BY <1>1, <1>2, EndOfRefreshTok
<1>4. CASE link = "up"
  <2>1. /\ att' = [e \in Epochs |-> IF e \in T THEN "app" ELSE att[e]]
        /\ attOn' = [e \in Epochs |-> IF e \in T THEN conn ELSE attOn[e]]
    BY <1>4 DEF RefreshSucceeds
  <2>2. Hand(AwaitingToken, {}, authed)
    BY <1>4 DEF RefreshSucceeds
  <2>3. ReqOK'
    BY <1>1, <1>2, <2>2, AwaitingTokenWaits, HandReq
  <2>4. att' \in [Epochs -> InProgress \cup {"none", "done", "failed"}]
    BY <1>1, <2>1 DEF AuthOK, AuthTypes, InProgress
  <2>5. /\ \A e \in Epochs : att[e] = "none" => att'[e] = "none"
        /\ \A e \in Epochs : att'[e] = "done" => att[e] = "done"
    BY <2>1 DEF AttemptsAwaitingToken
  <2>6. attOn' \in [Epochs -> 0..MaxConns]
    BY <1>1, <2>1 DEF AuthOK, AuthTypes, ConnOK, ConnTypes
  <2>7. authed' \subseteq Epochs /\ authed \subseteq authed'
    BY <1>1, <1>2 DEF AuthOK, AuthTypes
  <2>8. AuthOK'
    BY <1>1, <1>2, <2>4, <2>5, <2>6, <2>7, MovedAuth
  <2>9. QED
    BY <1>1, <1>2, <1>3, <2>3, <2>8, KeptConn, GroupsNext
<1>5. CASE link # "up"
  <2>1. /\ att' = [e \in Epochs |-> IF e \in T THEN "failed" ELSE att[e]]
        /\ attOn' = attOn
    BY <1>5 DEF RefreshSucceeds
  <2>2. Hand(AwaitingToken, AwaitingAuth(T), authed)
    BY <1>5 DEF RefreshSucceeds
  <2>3. ReqOK'
    BY <1>1, <1>2, <1>5, <2>2, AwaitingTokenWaits, AwaitingAuthWaits, TokenAndAuthDiffer,
       HandReq
  <2>4. att' \in [Epochs -> InProgress \cup {"none", "done", "failed"}]
    BY <1>1, <2>1 DEF AuthOK, AuthTypes, InProgress
  <2>5. /\ \A e \in Epochs : att[e] = "none" => att'[e] = "none"
        /\ \A e \in Epochs : att'[e] = "done" => att[e] = "done"
    BY <2>1 DEF AttemptsAwaitingToken
  <2>6. attOn' \in [Epochs -> 0..MaxConns]
    BY <1>1, <2>1 DEF AuthOK, AuthTypes
  <2>7. authed' \subseteq Epochs /\ authed \subseteq authed'
    BY <1>1, <1>2 DEF AuthOK, AuthTypes
  <2>8. AuthOK'
    BY <1>1, <1>2, <2>4, <2>5, <2>6, <2>7, MovedAuth
  <2>9. QED
    BY <1>1, <1>2, <1>3, <2>3, <2>8, KeptConn, GroupsNext
<1>6. QED
  BY <1>4, <1>5

LEMMA RefreshFailsIInv == ASSUME IInv, RefreshFails PROVE IInv'
<1> DEFINE T == AttemptsAwaitingToken
<1>1. ConnOK /\ AuthOK /\ TokOK /\ ReqOK
  BY Groups
<1>2. /\ refreshing /\ refreshing' = FALSE /\ refreshes' = refreshes - 1 /\ tok' = tok
      /\ att' = [e \in Epochs |-> IF att[e] = "token" THEN "failed" ELSE att[e]]
      /\ UNCHANGED connVars /\ attOn' = attOn /\ authed' = authed
  BY DEF RefreshFails
<1>3. tok' \in {"fresh", "expiring"}
  BY <1>1, <1>2 DEF TokOK, TokTypes
<1>4. TokOK'
  BY <1>1, <1>2, <1>3, EndOfRefreshTok
<1>5. Hand({}, AwaitingToken \cup AwaitingAuth(T), authed)
  BY DEF RefreshFails
<1>6. ReqOK'
  BY <1>1, <1>2, <1>5, AwaitingTokenWaits, AwaitingAuthWaits, HandReq
<1>7. att' \in [Epochs -> InProgress \cup {"none", "done", "failed"}]
  BY <1>1, <1>2 DEF AuthOK, AuthTypes, InProgress
<1>8. /\ \A e \in Epochs : att[e] = "none" => att'[e] = "none"
      /\ \A e \in Epochs : att'[e] = "done" => att[e] = "done"
  BY <1>2
<1>9. attOn' \in [Epochs -> 0..MaxConns] /\ authed' \subseteq Epochs /\ authed \subseteq authed'
  BY <1>1, <1>2 DEF AuthOK, AuthTypes
<1>10. AuthOK'
  BY <1>1, <1>2, <1>7, <1>8, <1>9, MovedAuth
<1>11. QED
  BY <1>1, <1>2, <1>4, <1>6, <1>10, KeptConn, GroupsNext

-----------------------------------------------------------------------------
LEMMA InitIInv == Init => IInv
<1> SUFFICES ASSUME Init PROVE IInv
  OBVIOUS
<1>1. /\ link = "down" /\ wish = "no" /\ conn = 0
      /\ att = [e \in Epochs |-> "none"] /\ attOn = [e \in Epochs |-> 0] /\ authed = {}
      /\ tok \in {"fresh", "expiring"} /\ refreshes = 0
  BY DEF Init, Conn!Init
<1>2. refreshing = FALSE
  BY DEF Init
<1>3. /\ phase = [r \in Reqs |-> "idle"] /\ waitsFor = [r \in Reqs |-> 0]
      /\ sentOn = [r \in Reqs |-> 0] /\ pendingRequests = {} /\ timers = {}
      /\ outcome = [r \in Reqs |-> "none"] /\ settles = [r \in Reqs |-> 0]
      /\ safe = [r \in Reqs |-> "yes"]
  BY DEF Init
<1>4. ConnOK
  BY <1>1 DEF ConnOK, ConnTypes, Conn!TypeOK
<1>5. AuthOK
  BY <1>1 DEF AuthOK, AuthTypes, HandshakesInv, InProgress
<1>6. TokOK
  <2>1. RefreshInv
    BY <1>1, <1>2 DEF RefreshInv
  <2>2. refreshes \in Nat /\ tok \in {"fresh", "expiring"}
    BY <1>1
  <2>3. refreshing \in BOOLEAN
    BY <1>2
  <2>4. QED
    BY <2>1, <2>2, <2>3 DEF TokOK, TokTypes
<1>7. ReqTypes
  BY <1>3 DEF ReqTypes
<1>8. RequestsInv /\ SentAuthenticated
  BY <1>1, <1>3 DEF RequestsInv, SentAuthenticated
<1>9. QED
  BY <1>4, <1>5, <1>6, <1>7, <1>8, Groups DEF ReqOK

LEMMA NextIInv == IInv /\ [Next]_vars => IInv'
<1> SUFFICES ASSUME IInv, [Next]_vars PROVE IInv'
  OBVIOUS
<1>1. CASE \E r \in Reqs : SendAtOnce(r)
  BY <1>1, SendAtOnceIInv
<1>2. CASE \E r \in Reqs : SendAwaitsHandshake(r)
  BY <1>2, SendAwaitsHandshakeIInv
<1>3. CASE \E r \in Reqs : SendFindsFailedHandshake(r)
  BY <1>3, SendFindsFailedHandshakeIInv
<1>4. CASE \E r \in Reqs, how \in {"resolved", "rejected"} : Answer(r, how)
  BY <1>4, AnswerIInv
<1>5. CASE \E r \in Reqs : WriteFails(r)
  BY <1>5, WriteFailsIInv
<1>6. CASE \E r \in Reqs : RequestTimesOut(r)
  BY <1>6, RequestTimesOutIInv
<1>7. CASE ConnectOrDisconnect
  BY <1>7, ConnectOrDisconnectIInv
<1>8. CASE ConnectionLost
  BY <1>8, ConnectionLostIInv
<1>9. CASE Connected
  BY <1>9, ConnectedIInv
<1>10. CASE Disconnected
  BY <1>10, DisconnectedIInv
<1>11. CASE \E e \in Epochs : ApplicationAuthenticated(e)
  BY <1>11, ApplicationAuthenticatedIInv
<1>12. CASE \E e \in Epochs : AccountAuthenticated(e)
  BY <1>12, AccountAuthenticatedIInv
<1>13. CASE \E e \in Epochs : HandshakeRefused(e) \/ HandshakeTimesOut(e)
  BY <1>13, HandshakeFailsIInv
<1>14. CASE UncorrelatedError
  BY <1>14, UncorrelatedErrorIInv
<1>15. CASE TokenExpires
  BY <1>15, TokenExpiresIInv
<1>16. CASE RefreshSucceeds
  BY <1>16, RefreshSucceedsIInv
<1>17. CASE RefreshFails
  BY <1>17, RefreshFailsIInv
<1>18. CASE UNCHANGED vars
  <2>1. UNCHANGED connVars /\ UNCHANGED authVars /\ UNCHANGED tokVars /\ UNCHANGED reqVars
    BY <1>18 DEF vars
  <2>2. ConnOK /\ AuthOK /\ TokOK /\ ReqOK
    BY Groups
  <2>3. pendingRequests = {} \/ (conn' = conn /\ link' # "down")
    BY <2>1, <2>2 DEF ReqOK, RequestsInv, connVars
  <2>4. QED
    BY <2>1, <2>2, <2>3, KeptConn, KeptAuth, KeptTok, KeptReq, GroupsNext DEF connVars
<1>19. QED
  BY <1>1, <1>2, <1>3, <1>4, <1>5, <1>6, <1>7, <1>8, <1>9, <1>10, <1>11, <1>12, <1>13,
     <1>14, <1>15, <1>16, <1>17, <1>18 DEF Next

-----------------------------------------------------------------------------
(* The client's inductive invariant: the types, and what ties the table of    *)
(* pending requests, the handshakes and the refresh together.                *)
THEOREM IInvHolds == Spec => []IInv
  BY InitIInv, NextIInv, PTL DEF Spec

(* A pending request waits, with its timeout armed, for an answer on the       *)
(* current connection: none outlives its connection, whatever number of       *)
(* reconnects.                                                               *)
THEOREM PendingOnCurrentConnectionHolds == Spec => []PendingOnCurrentConnection
<1>1. IInv => PendingOnCurrentConnection
  BY DEF IInv, TypeOK, RequestsInv, PendingOnCurrentConnection
<1>2. QED
  BY <1>1, IInvHolds, PTL

(* Each call of send() is settled once at most, though answers, duplicates,    *)
(* timeouts, write errors and drops race for it.                             *)
THEOREM SettledOnceHolds == Spec => []SettledOnce
<1>1. IInv => SettledOnce
  BY DEF IInv, RequestsInv, SettledOnce
<1>2. QED
  BY <1>1, IInvHolds, PTL

(* Sends and handshakes that find an expiring token share one HTTP request:    *)
(* the single-use refresh token is never presented twice at a time.          *)
THEOREM OneRefreshHolds == Spec => []OneRefresh
<1>1. IInv => OneRefresh
  BY DEF IInv, RefreshInv, OneRefresh
<1>2. QED
  BY <1>1, IInvHolds, PTL

(* A request that did not wait for a token refresh goes out on an              *)
(* authenticated connection, even when connections changed under its wait.   *)
THEOREM SentAuthenticatedHolds == Spec => []SentAuthenticated
<1>1. IInv => SentAuthenticated
  BY DEF IInv
<1>2. QED
  BY <1>1, IInvHolds, PTL
=============================================================================
