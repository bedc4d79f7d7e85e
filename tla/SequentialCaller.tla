-------------------------- MODULE SequentialCaller --------------------------
(***************************************************************************)
(* SpotwareTransport under a caller that makes one call at a time: it awaits *)
(* connect() before it calls disconnect(), and disconnect() before it        *)
(* connects again (test/transport/spotware-transport.test.ts, "does not  *)
(* reconnect after an intentional disconnect").  It does not wait for        *)
(* attempts that the reconnect timer started: no call of the API tells it of *)
(* them.  The event loop is as kind as it can be: a destroyed socket's       *)
(* 'close' is always handled before the caller's next call, and the caller   *)
(* makes none from a listener of 'reconnecting'.                             *)
(***************************************************************************)
EXTENDS SpotwareTransport

VARIABLES
    caller,   \* what its last call came to, see CallerTypeOK
    awaited   \* the socket whose attempt or 'close' the caller awaits

svars == <<vars, caller, awaited>>

CallerTypeOK ==
    /\ caller \in {"idle", "connecting", "connected",
                   "disconnecting", "disconnected"}
    /\ awaited \in Sockets \cup {NoSocket}

SInit == Init /\ caller = "idle" /\ awaited = NoSocket

NoClosePending == \A s \in Sockets : sock[s] # "destroyed"

CallConnect(s) ==
    /\ caller \in {"idle", "disconnected"} /\ NoClosePending /\ ~reconnecting
    /\ Connect(s)
    /\ caller' = "connecting" /\ awaited' = s

\* disconnect() settles at once when this.socket is already destroyed.
CallDisconnect ==
    /\ caller = "connected" /\ NoClosePending /\ ~reconnecting
    /\ Disconnect
    /\ IF socket \in Live
       THEN caller' = "disconnecting" /\ awaited' = socket
       ELSE caller' = "disconnected" /\ awaited' = NoSocket

\* The promise the caller awaits is settled by the step, or still pending.
InternalStep ==
    /\ Internal
    /\ CASE caller = "connecting" /\ sock'[awaited] # "connecting" ->
              /\ caller' = IF sock'[awaited] = "open" THEN "connected" ELSE "idle"
              /\ awaited' = NoSocket
         [] caller = "disconnecting" /\ sock'[awaited] = "closed" ->
              caller' = "disconnected" /\ awaited' = NoSocket
         [] OTHER -> UNCHANGED <<caller, awaited>>

SNext ==
    \/ \E s \in Sockets : CallConnect(s)
    \/ CallDisconnect
    \/ InternalStep

SSpec == SInit /\ [][SNext]_svars

-----------------------------------------------------------------------------
(* What the comment at spotware-transport.ts:177-180 rules out: an explicit   *)
(* disconnect() has been awaited, no call is pending, and a live socket with  *)
(* its heartbeat and watchdog is still there.                                *)
NothingLeftOnceDisconnected ==
    caller = "disconnected" => Live = {} /\ monitors = 0
=============================================================================
