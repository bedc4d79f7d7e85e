------------------------- MODULE SpotwareTransport -------------------------
(***************************************************************************)
(* The connection life cycle of src/src/transport/spotware-transport.ts:    *)
(* connect(), disconnect(), the reconnect loop, the heartbeat and the        *)
(* liveness watchdog, over sockets that are established, drop, go silent or  *)
(* turn out to be refused at moments nobody controls.                        *)
(*                                                                         *)
(* Every action is one run of the event loop: a call of the API, a timer     *)
(* callback, a socket event, or the settling of a socketFactory promise with *)
(* the code awaiting it.  The listeners of an event are part of that run:    *)
(* disconnect() called by one of them comes to what it does just before or   *)
(* just after the action, except in a listener of 'reconnecting', which      *)
(* therefore ends the action.  ArmReconnectTimer is the rest of that run.    *)
(*                                                                         *)
(* The heartbeat and the watchdog interval are always started and stopped    *)
(* together and are one "monitor" here.  Timer objects are interchangeable   *)
(* (their callbacks only use this.socket), so a count of the running ones    *)
(* and whether the field still refers to one is all the state they have.     *)
(* How long the backoff waits is abstracted away.                            *)
(***************************************************************************)
EXTENDS Integers, FiniteSets

CONSTANTS
    Sockets,     \* bound: the socket objects that can exist at a time
    NoSocket,    \* undefined
    MaxAttempt   \* bound: reconnectAttempt is counted up to here

ASSUME SocketsAssumption == NoSocket \notin Sockets
ASSUME MaxAttemptAssumption == MaxAttempt \in Nat \ {0}

VARIABLES
    sock,                 \* the state of each socket object, see SocketState
    socket,               \* this.socket
    disconnectRequested,  \* this.disconnectRequested
    hasConnectedOnce,     \* this.hasConnectedOnce
    reconnectAttempt,     \* this.reconnectAttempt
    reconnectTimer,       \* "armed" when this.reconnectTimer can still fire
    timeouts,             \* how many reconnect timeouts are pending
    reconnecting,         \* are the listeners of 'reconnecting' being run?
    fromListener,         \* history: did one of them call the last disconnect()?
    monitor,              \* "running" when the interval fields are set
    monitors,             \* how many pairs of intervals are running
    stale,                \* Date.now() - lastMessageReceivedAt > the timeout
    announced             \* history: 'connected' minus 'disconnected' events

vars == <<sock, socket, disconnectRequested, hasConnectedOnce, reconnectAttempt,
          reconnectTimer, timeouts, reconnecting, fromListener, monitor, monitors,
          stale, announced>>

(* "closed": no such socket (any more); "connecting": socketFactory is        *)
(* pending; "open": established; "mute": established, but the peer is gone   *)
(* without a word; "destroyed": its 'close' event has not been handled yet.  *)
SocketState == {"closed", "connecting", "open", "mute", "destroyed"}

Live == {s \in Sockets : sock[s] \in {"open", "mute"}}

TypeOK ==
    /\ sock \in [Sockets -> SocketState]
    /\ socket \in Sockets \cup {NoSocket}
    /\ disconnectRequested \in BOOLEAN
    /\ hasConnectedOnce \in BOOLEAN
    /\ reconnectAttempt \in 0..MaxAttempt
    /\ reconnectTimer \in {"none", "armed"}
    /\ timeouts \in Nat
    /\ reconnecting \in BOOLEAN
    /\ fromListener \in BOOLEAN
    /\ monitor \in {"off", "running"}
    /\ monitors \in Nat
    /\ stale \in BOOLEAN
    /\ announced \in Int

Init ==
    /\ sock = [s \in Sockets |-> "closed"]
    /\ socket = NoSocket
    /\ disconnectRequested = FALSE
    /\ hasConnectedOnce = FALSE
    /\ reconnectAttempt = 0
    /\ reconnectTimer = "none"
    /\ timeouts = 0
    /\ reconnecting = FALSE
    /\ fromListener = FALSE
    /\ monitor = "off"
    /\ monitors = 0
    /\ stale = FALSE
    /\ announced = 0

-----------------------------------------------------------------------------
(* The private helpers.                                                      *)

\* Mutant of ClearReconnectTimer: the field is reset, the timeout still fires.
MutClearReconnectTimer == reconnectTimer' = "none" /\ timeouts' = timeouts

ClearReconnectTimer ==
    /\ reconnectTimer' = "none"
    /\ timeouts' = IF reconnectTimer = "armed" THEN timeouts - 1 ELSE timeouts

\* Up to emit('reconnecting').
ScheduleReconnect ==
    /\ reconnectAttempt' = IF reconnectAttempt < MaxAttempt
                           THEN reconnectAttempt + 1 ELSE MaxAttempt
    /\ reconnecting' = TRUE

\* The rest of scheduleReconnect, when the listeners have returned.  It looks at no flag,
\* and a timeout still armed in the field is overwritten, not cleared.
ArmReconnectTimer ==
    /\ reconnecting
    /\ reconnecting' = FALSE
    /\ reconnectTimer' = "armed"
    /\ timeouts' = timeouts + 1
    /\ UNCHANGED <<sock, socket, disconnectRequested, hasConnectedOnce,
                   reconnectAttempt, fromListener, monitor, monitors, stale, announced>>

StartMonitor == monitor' = "running" /\ monitors' = monitors + 1

\* Mutant of StopMonitor: it is taken to be running.
MutStopMonitor == monitor' = "off" /\ monitors' = monitors - 1

StopMonitor ==
    /\ monitor' = "off"
    /\ monitors' = IF monitor = "running" THEN monitors - 1 ELSE monitors

\* this.socket?.destroy(): of no effect on a socket already destroyed.
DestroyCurrent ==
    sock' = [s \in Sockets |-> IF s = socket /\ s \in Live
                               THEN "destroyed" ELSE sock[s]]

\* The call of socketFactory, with a socket object nothing refers to.
BeginAttempt(s) ==
    /\ sock[s] = "closed" /\ s # socket
    /\ sock' = [sock EXCEPT ![s] = "connecting"]

-----------------------------------------------------------------------------
(* The API.  connect() does not look at what is already under way.           *)
Connect(s) ==
    /\ disconnectRequested' = FALSE
    /\ ClearReconnectTimer
    /\ BeginAttempt(s)
    /\ fromListener' = FALSE
    /\ UNCHANGED <<socket, hasConnectedOnce, reconnectAttempt, reconnecting, monitor,
                   monitors, stale, announced>>

Disconnect ==
    /\ disconnectRequested' = TRUE
    /\ hasConnectedOnce' = FALSE
    /\ ClearReconnectTimer
    /\ StopMonitor
    /\ DestroyCurrent
    /\ fromListener' = reconnecting
    /\ UNCHANGED <<socket, reconnectAttempt, reconnecting, stale, announced>>

-----------------------------------------------------------------------------
(* The settling of the socketFactory promise.                                *)

\* Mutant of AttemptFails: the retry loop only lives in handleClose.
MutAttemptFails(s) ==
    /\ sock[s] = "connecting"
    /\ sock' = [sock EXCEPT ![s] = "closed"]
    /\ UNCHANGED <<socket, disconnectRequested, hasConnectedOnce, reconnectAttempt,
                   reconnectTimer, timeouts, reconnecting, fromListener, monitor,
                   monitors, stale, announced>>

\* Mutant of AttemptFails: a failure is retried even after disconnect().
MutAttemptFailsRetries(s) ==
    /\ sock[s] = "connecting"
    /\ sock' = [sock EXCEPT ![s] = "closed"]
    /\ ScheduleReconnect
    /\ UNCHANGED <<socket, disconnectRequested, hasConnectedOnce, reconnectTimer, timeouts,
                   fromListener, monitor, monitors, stale, announced>>

AttemptFails(s) ==
    /\ sock[s] = "connecting"
    /\ sock' = [sock EXCEPT ![s] = "closed"]
    /\ IF hasConnectedOnce /\ ~disconnectRequested
       THEN ScheduleReconnect
       ELSE UNCHANGED <<reconnectAttempt, reconnecting>>
    /\ UNCHANGED <<socket, disconnectRequested, hasConnectedOnce, reconnectTimer, timeouts,
                   fromListener, monitor, monitors, stale, announced>>

\* disconnect() landed while the socket was being established.
AttemptAbandoned(s) ==
    /\ sock[s] = "connecting"
    /\ disconnectRequested
    /\ sock' = [sock EXCEPT ![s] = "closed"]
    /\ UNCHANGED <<socket, disconnectRequested, hasConnectedOnce, reconnectAttempt,
                   reconnectTimer, timeouts, reconnecting, fromListener, monitor,
                   monitors, stale, announced>>

\* Mutant of Adopt: the intervals are not started for the new socket.
MutAdopt(s) ==
    /\ sock' = [sock EXCEPT ![s] = "open"]
    /\ socket' = s
    /\ hasConnectedOnce' = TRUE
    /\ reconnectAttempt' = 0
    /\ stale' = FALSE
    /\ announced' = announced + 1
    /\ UNCHANGED <<disconnectRequested, reconnectTimer, timeouts, reconnecting,
                   fromListener, monitor, monitors>>

Adopt(s) ==
    /\ sock' = [sock EXCEPT ![s] = "open"]
    /\ socket' = s
    /\ hasConnectedOnce' = TRUE
    /\ reconnectAttempt' = 0
    /\ stale' = FALSE
    /\ StartMonitor
    /\ announced' = announced + 1
    /\ UNCHANGED <<disconnectRequested, reconnectTimer, timeouts, reconnecting,
                   fromListener>>

\* Mutant of AttemptSucceeds: the flag is not looked at after the await.
MutAttemptSucceeds(s) == sock[s] = "connecting" /\ Adopt(s)

AttemptSucceeds(s) ==
    /\ sock[s] = "connecting"
    /\ ~disconnectRequested
    /\ Adopt(s)

-----------------------------------------------------------------------------
(* Socket events.                                                            *)

\* handleData on a chunk that decodes.
Data(s) ==
    /\ sock[s] = "open"
    /\ stale' = FALSE
    /\ UNCHANGED <<sock, socket, disconnectRequested, hasConnectedOnce,
                   reconnectAttempt, reconnectTimer, timeouts, reconnecting,
                   fromListener, monitor, monitors, announced>>

\* handleData on a chunk the decoder refuses: the current socket is destroyed.
CorruptData(s) ==
    /\ sock[s] = "open"
    /\ stale' = FALSE
    /\ DestroyCurrent
    /\ UNCHANGED <<socket, disconnectRequested, hasConnectedOnce, reconnectAttempt,
                   reconnectTimer, timeouts, reconnecting, fromListener, monitor,
                   monitors, announced>>

\* The peer closes or resets the connection.
PeerDrops(s) ==
    /\ s \in Live
    /\ sock' = [sock EXCEPT ![s] = "destroyed"]
    /\ UNCHANGED <<socket, disconnectRequested, hasConnectedOnce, reconnectAttempt,
                   reconnectTimer, timeouts, reconnecting, fromListener, monitor,
                   monitors, stale, announced>>

\* An outage that neither side is told about.
PeerVanishes(s) ==
    /\ sock[s] = "open"
    /\ sock' = [sock EXCEPT ![s] = "mute"]
    /\ UNCHANGED <<socket, disconnectRequested, hasConnectedOnce, reconnectAttempt,
                   reconnectTimer, timeouts, reconnecting, fromListener, monitor,
                   monitors, stale, announced>>

\* Mutant of HandleClose: the intervals are left running.
MutHandleClose(s) ==
    /\ sock[s] = "destroyed"
    /\ sock' = [sock EXCEPT ![s] = "closed"]
    /\ announced' = announced - 1
    /\ IF disconnectRequested
       THEN UNCHANGED <<reconnectAttempt, reconnecting>>
       ELSE ScheduleReconnect
    /\ UNCHANGED <<socket, disconnectRequested, hasConnectedOnce, reconnectTimer, timeouts,
                   fromListener, monitor, monitors, stale>>

\* Mutant of HandleClose: a manual disconnect returns before the event.
MutHandleCloseSilent(s) ==
    /\ sock[s] = "destroyed"
    /\ sock' = [sock EXCEPT ![s] = "closed"]
    /\ StopMonitor
    /\ IF disconnectRequested
       THEN UNCHANGED <<reconnectAttempt, reconnecting, announced>>
       ELSE ScheduleReconnect /\ announced' = announced - 1
    /\ UNCHANGED <<socket, disconnectRequested, hasConnectedOnce, reconnectTimer, timeouts,
                   fromListener, stale>>

\* handleClose, the 'close' listener of every adopted socket.
HandleClose(s) ==
    /\ sock[s] = "destroyed"
    /\ sock' = [sock EXCEPT ![s] = "closed"]
    /\ StopMonitor
    /\ announced' = announced - 1
    /\ IF disconnectRequested
       THEN UNCHANGED <<reconnectAttempt, reconnecting>>
       ELSE ScheduleReconnect
    /\ UNCHANGED <<socket, disconnectRequested, hasConnectedOnce, reconnectTimer, timeouts,
                   fromListener, stale>>

-----------------------------------------------------------------------------
(* Timers.                                                                   *)

\* Which of several pending timeouts fires is not known: the field may or may
\* not refer to it.  A fired timeout left in the field is as good as none.
ReconnectTimerFires(s) ==
    /\ timeouts > 0
    /\ timeouts' = timeouts - 1
    /\ reconnectTimer' \in {h \in {"none", "armed"} :
           h = reconnectTimer => h = "none" \/ timeouts > 1}
    /\ reconnectTimer' = "armed" => reconnectTimer = "armed"
    /\ BeginAttempt(s)
    /\ UNCHANGED <<socket, disconnectRequested, hasConnectedOnce, reconnectAttempt,
                   reconnecting, fromListener, monitor, monitors, stale, announced>>

\* A watchdog interval finds the connection silent for too long.
WatchdogFires ==
    /\ monitors > 0
    /\ stale
    /\ socket \in Live
    /\ DestroyCurrent
    /\ UNCHANGED <<socket, disconnectRequested, hasConnectedOnce, reconnectAttempt,
                   reconnectTimer, timeouts, reconnecting, fromListener, monitor,
                   monitors, stale, announced>>

\* staleConnectionTimeoutMs pass without a message on any socket.
SilencePasses ==
    /\ ~stale /\ Live # {}
    /\ stale' = TRUE
    /\ UNCHANGED <<sock, socket, disconnectRequested, hasConnectedOnce,
                   reconnectAttempt, reconnectTimer, timeouts, reconnecting,
                   fromListener, monitor, monitors, announced>>

-----------------------------------------------------------------------------
(* What happens without the caller: the next run of the event loop, or the    *)
(* rest of one whose listeners have returned.                                *)
NextTurn ==
    \/ \E s \in Sockets :
          \/ AttemptFails(s) \/ AttemptAbandoned(s) \/ AttemptSucceeds(s)
          \/ Data(s) \/ CorruptData(s) \/ PeerDrops(s) \/ PeerVanishes(s)
          \/ HandleClose(s)
          \/ ReconnectTimerFires(s)
    \/ WatchdogFires
    \/ SilencePasses

Internal ==
    \/ ~reconnecting /\ NextTurn
    \/ ArmReconnectTimer

(* The caller of this specification calls connect() only when no socket of    *)
(* an earlier call or reconnect is connecting, live or about to close, and    *)
(* not from a listener of the events that come before a reconnect is          *)
(* scheduled ('disconnected', 'error', 'reconnecting'); it may do so once one *)
(* is.  disconnect() it calls at any time, from any listener.                 *)
AtRest == ~reconnecting /\ \A s \in Sockets : sock[s] = "closed"

Next ==
    \/ \E s \in Sockets : AtRest /\ Connect(s)
    \/ Disconnect
    \/ Internal

Spec == Init /\ [][Next]_vars

(* Fairness: the event loop runs due timers and delivers socket events, the  *)
(* listeners of an event return, every attempt is settled, and a server that *)
(* is tried again and again is reached.                                      *)
Fairness ==
    /\ WF_vars(\E s \in Sockets : AttemptFails(s) \/ AttemptAbandoned(s)
                                                  \/ AttemptSucceeds(s))
    /\ SF_vars(\E s \in Sockets : AttemptSucceeds(s))
    /\ \A s \in Sockets : WF_vars(HandleClose(s))
    /\ WF_vars(\E s \in Sockets : ReconnectTimerFires(s))
    /\ WF_vars(ArmReconnectTimer)
    /\ WF_vars(WatchdogFires)
    /\ WF_vars(SilencePasses)

FairSpec == Spec /\ Fairness

-----------------------------------------------------------------------------
(* One connection at a time: a socket being established, a live one, one whose *)
(* 'close' has not been handled and a reconnect that is scheduled or about to *)
(* be exclude each other, however drops, retries and disconnects interleave.  *)
Busy == {s \in Sockets : sock[s] # "closed"}

OneConnection ==
    /\ \A s, t \in Busy : s = t
    /\ timeouts <= 1
    /\ timeouts > 0 \/ reconnecting => Busy = {}
    /\ reconnecting => timeouts = 0

(* A live connection is the one the fields refer to and is watched by exactly *)
(* one pair of intervals; once it has closed none is left running.            *)
LiveIsWatched ==
    /\ \A s \in Live : s = socket /\ monitors = 1 /\ monitor = "running"
    /\ monitors > 0 => socket \in Busy

(* What disconnect() leaves: from the call on nothing live and no interval,    *)
(* even when it lands during an attempt, and no scheduled reconnect either,   *)
(* unless a listener of 'reconnecting' was the caller.  In that one place it  *)
(* comes between the decision and the timeout, which is armed after it (the   *)
(* attempt it starts is abandoned); any other later call clears it.           *)
DisconnectLeavesNothing ==
    disconnectRequested =>
        Live = {} /\ monitors = 0 /\ (timeouts = 0 \/ fromListener)

(* A reconnect is only ever announced and scheduled for a caller that has been *)
(* connected since its last disconnect(): the failure of a first connect() is *)
(* not retried.  The exception is again disconnect() called on being told.    *)
ReconnectOnlyAfterSuccess ==
    timeouts > 0 \/ reconnecting =>
        (hasConnectedOnce /\ ~disconnectRequested) \/ fromListener

(* The retry loop does not die: whoever has been connected is connected again, *)
(* after any number of drops and failed attempts, unless it disconnects.      *)
StaysConnected ==
    hasConnectedOnce ~> (\E s \in Live : s = socket) \/ disconnectRequested

(* A silent outage does not last: a connection whose peer has vanished is     *)
(* given up, with no event from the operating system.                         *)
SilenceIsNoticed ==
    \A s \in Sockets : sock[s] = "mute" ~> sock[s] # "mute"

-----------------------------------------------------------------------------
(* The inductive strengthening the proofs use, in named parts.               *)
Adopted == {s \in Sockets : sock[s] \in {"open", "mute", "destroyed"}}

OneSocket ==
    /\ \A s, t \in Busy : s = t
    /\ \A s \in Adopted : s = socket

Counts ==
    /\ timeouts = IF reconnectTimer = "armed" THEN 1 ELSE 0
    /\ monitors = IF monitor = "running" THEN 1 ELSE 0
    /\ announced = IF Adopted = {} THEN 0 ELSE 1

TimersInv ==
    /\ reconnectTimer = "armed" \/ reconnecting =>
            Busy = {} /\ (hasConnectedOnce \/ fromListener)
    /\ reconnecting => reconnectTimer = "none"
    /\ monitor = "running" => socket \in Adopted
    /\ \A s \in Live : monitor = "running"

FlagsInv ==
    /\ hasConnectedOnce => ~disconnectRequested
    /\ \A s \in Live : hasConnectedOnce
    /\ \A s \in Adopted : disconnectRequested \/ hasConnectedOnce
    /\ disconnectRequested => monitor = "off"
    /\ fromListener => disconnectRequested

IInv == TypeOK /\ OneSocket /\ Counts /\ TimersInv /\ FlagsInv

-----------------------------------------------------------------------------
(* The abstract view of this state.                                          *)
LinkView == IF announced = 0 THEN "down" ELSE IF Live # {} THEN "up" ELSE "lost"

WishView ==
    IF disconnectRequested THEN "no"
    ELSE IF hasConnectedOnce THEN "keep"
    ELSE IF Busy # {} THEN "first" ELSE "no"

Service == INSTANCE ConnectionService WITH link <- LinkView, wish <- WishView

(* The transport implements ConnectionService: 'connected' and 'disconnected' *)
(* alternate, no connection comes up against the caller's wish, and a first   *)
(* failure is the only one that is not retried.                               *)
ImplementsService == Service!Spec
=============================================================================
