---------------------- MODULE SpotwareTransportProofs ----------------------
(***************************************************************************)
(* For any number of socket objects, however drops, retries, disconnects and *)
(* calls at rest interleave, the transport keeps one connection, watches it, *)
(* leaves nothing behind a disconnect, and implements ConnectionService.     *)
(***************************************************************************)
EXTENDS SpotwareTransport, ReconnectBackoff, TLAPS

USE SocketsAssumption, MaxAttemptAssumption

LEMMA InitIInv == Init => IInv
<1> SUFFICES ASSUME Init PROVE IInv
  OBVIOUS
<1>1. Busy = {} /\ Adopted = {} /\ Live = {}
  BY DEF Init, Busy, Adopted, Live
<1>2. TypeOK
  <2>1. /\ disconnectRequested \in BOOLEAN /\ hasConnectedOnce \in BOOLEAN
        /\ stale \in BOOLEAN /\ reconnecting \in BOOLEAN /\ fromListener \in BOOLEAN
    BY Zenon DEF Init
  <2>2. QED
    BY <2>1 DEF Init, TypeOK, SocketState
<1>3. OneSocket /\ Counts /\ TimersInv /\ FlagsInv
  BY <1>1 DEF Init, OneSocket, Counts, TimersInv, FlagsInv
<1>4. QED
  BY <1>2, <1>3 DEF IInv

LEMMA ConnectIInv == ASSUME NEW s \in Sockets, IInv, AtRest, Connect(s) PROVE IInv'
<1> USE DEF IInv
<1>1. /\ sock \in [Sockets -> SocketState]
      /\ sock' = [sock EXCEPT ![s] = "connecting"]
      /\ \A t \in Sockets : sock[t] = "closed"
  BY DEF AtRest, Connect, BeginAttempt, TypeOK
<1>2. Busy' = {s} /\ Adopted' = {} /\ Live' = {} /\ Adopted = {} /\ Live = {}
  BY <1>1 DEF Busy, Adopted, Live
<1>3. /\ reconnectTimer' = "none" /\ timeouts' = 0
      /\ monitor = "off" /\ monitor' = monitor /\ monitors' = monitors
      /\ announced' = announced /\ socket' = socket
      /\ ~reconnecting' /\ ~fromListener'
  BY <1>2 DEF AtRest, Connect, ClearReconnectTimer, Counts, TimersInv, TypeOK
<1>4. TypeOK'
  <2>1. /\ disconnectRequested' \in BOOLEAN /\ hasConnectedOnce' \in BOOLEAN
        /\ stale' \in BOOLEAN /\ reconnecting' \in BOOLEAN /\ fromListener' \in BOOLEAN
    BY Zenon DEF Connect, TypeOK
  <2>2. sock' \in [Sockets -> SocketState]
    BY <1>1 DEF SocketState
  <2>3. QED
    BY <1>3, <2>1, <2>2 DEF Connect, TypeOK
<1>5. OneSocket'
  BY <1>2 DEF OneSocket
<1>6. Counts'
  BY <1>2, <1>3 DEF Counts
<1>7. TimersInv'
  BY <1>2, <1>3 DEF TimersInv
<1>8. FlagsInv'
  BY <1>2, <1>3 DEF FlagsInv, Connect
<1>9. QED
  BY <1>4, <1>5, <1>6, <1>7, <1>8

LEMMA DisconnectIInv == ASSUME IInv, Disconnect PROVE IInv'
<1> USE DEF IInv
<1>1. /\ sock \in [Sockets -> SocketState] /\ sock' \in [Sockets -> SocketState]
      /\ \A t \in Sockets : sock'[t] = IF t \in Live THEN "destroyed" ELSE sock[t]
  <2>1. \A t \in Live : t = socket
    BY DEF OneSocket, Live, Adopted
  <2>2. QED
    BY <2>1 DEF Disconnect, DestroyCurrent, TypeOK, SocketState
<1>2. Busy' = Busy /\ Adopted' = Adopted /\ Live' = {}
  BY <1>1 DEF Busy, Adopted, Live
<1>3. /\ reconnectTimer' = "none" /\ timeouts' = 0
      /\ monitor' = "off" /\ monitors' = 0
      /\ announced' = announced /\ socket' = socket
      /\ reconnecting' = reconnecting /\ fromListener' = reconnecting
      /\ disconnectRequested' = TRUE
  BY DEF Disconnect, ClearReconnectTimer, StopMonitor, Counts, TypeOK
<1>4. TypeOK'
  <2>1. /\ disconnectRequested' \in BOOLEAN /\ hasConnectedOnce' \in BOOLEAN
        /\ stale' \in BOOLEAN /\ reconnecting' \in BOOLEAN /\ fromListener' \in BOOLEAN
    BY Zenon DEF Disconnect, TypeOK
  <2>2. QED
    BY <1>1, <1>3, <2>1 DEF Disconnect, TypeOK
<1>5. OneSocket'
  BY <1>2, <1>3 DEF OneSocket
<1>6. Counts'
  BY <1>2, <1>3 DEF Counts
<1>7. TimersInv'
  BY <1>2, <1>3 DEF TimersInv
<1>8. FlagsInv'
  BY <1>2, <1>3 DEF FlagsInv, Disconnect
<1>9. QED
  BY <1>4, <1>5, <1>6, <1>7, <1>8

(* While an attempt is under way it is the only busy socket, nothing is       *)
(* watched and nothing is scheduled.                                         *)
LEMMA AttemptAlone ==
    ASSUME IInv, NEW s \in Sockets, sock[s] = "connecting"
    PROVE  /\ Busy = {s} /\ Adopted = {} /\ Live = {}
           /\ reconnectTimer = "none" /\ timeouts = 0 /\ ~reconnecting
           /\ monitor = "off" /\ monitors = 0 /\ announced = 0
<1>1. Busy = {s}
  BY DEF IInv, OneSocket, Busy
<1>2. Adopted = {} /\ Live = {}
  BY <1>1 DEF Busy, Adopted, Live
<1>3. QED
  BY <1>1, <1>2 DEF IInv, Counts, TimersInv, TypeOK

LEMMA AttemptFailsIInv == ASSUME NEW s \in Sockets, IInv, AttemptFails(s) PROVE IInv'
<1> USE DEF IInv
<1>1. /\ sock \in [Sockets -> SocketState] /\ sock[s] = "connecting"
      /\ sock' = [sock EXCEPT ![s] = "closed"]
  BY DEF AttemptFails, TypeOK
<1>2. /\ Busy = {s} /\ Adopted = {} /\ Live = {}
      /\ reconnectTimer = "none" /\ timeouts = 0 /\ ~reconnecting
      /\ monitor = "off" /\ monitors = 0 /\ announced = 0
  BY <1>1, AttemptAlone
<1>3. Busy' = {} /\ Adopted' = {} /\ Live' = {}
  BY <1>1, <1>2 DEF Busy, Adopted, Live
<1>4. /\ monitor' = monitor /\ monitors' = monitors /\ announced' = announced
      /\ socket' = socket /\ timeouts' = 0 /\ reconnectTimer' = "none"
      /\ reconnecting' => hasConnectedOnce'
  BY <1>2 DEF AttemptFails, ScheduleReconnect
<1>5. TypeOK'
  <2>1. /\ disconnectRequested' \in BOOLEAN /\ hasConnectedOnce' \in BOOLEAN
        /\ stale' \in BOOLEAN /\ reconnecting' \in BOOLEAN /\ fromListener' \in BOOLEAN
    BY Zenon DEF AttemptFails, ScheduleReconnect, TypeOK
  <2>2. sock' \in [Sockets -> SocketState]
    BY <1>1 DEF SocketState
  <2>3. reconnectAttempt' \in 0..MaxAttempt
    BY DEF AttemptFails, ScheduleReconnect, TypeOK
  <2>4. QED
    BY <1>4, <2>1, <2>2, <2>3 DEF TypeOK
<1>6. OneSocket'
  BY <1>3 DEF OneSocket
<1>7. Counts'
  BY <1>2, <1>3, <1>4 DEF Counts
<1>8. TimersInv'
  BY <1>2, <1>3, <1>4 DEF TimersInv
<1>9. FlagsInv'
  BY <1>2, <1>3, <1>4 DEF FlagsInv, AttemptFails
<1>10. QED
  BY <1>5, <1>6, <1>7, <1>8, <1>9

LEMMA AttemptAbandonedIInv ==
    ASSUME NEW s \in Sockets, IInv, AttemptAbandoned(s) PROVE IInv'
<1> USE DEF IInv
<1>1. /\ sock \in [Sockets -> SocketState] /\ sock[s] = "connecting"
      /\ sock' = [sock EXCEPT ![s] = "closed"]
  BY DEF AttemptAbandoned, TypeOK
<1>2. /\ Busy = {s} /\ Adopted = {} /\ Live = {}
      /\ reconnectTimer = "none" /\ timeouts = 0 /\ ~reconnecting
      /\ monitor = "off" /\ monitors = 0 /\ announced = 0
  BY <1>1, AttemptAlone
<1>3. Busy' = {} /\ Adopted' = {} /\ Live' = {}
  BY <1>1, <1>2 DEF Busy, Adopted, Live
<1>4. TypeOK'
  <2>1. /\ disconnectRequested' \in BOOLEAN /\ hasConnectedOnce' \in BOOLEAN
        /\ stale' \in BOOLEAN /\ reconnecting' \in BOOLEAN /\ fromListener' \in BOOLEAN
    BY Zenon DEF AttemptAbandoned, TypeOK
  <2>2. sock' \in [Sockets -> SocketState]
    BY <1>1 DEF SocketState
  <2>3. QED
    BY <2>1, <2>2 DEF AttemptAbandoned, TypeOK
<1>5. OneSocket' /\ Counts' /\ TimersInv' /\ FlagsInv'
  BY <1>2, <1>3 DEF AttemptAbandoned, OneSocket, Counts, TimersInv, FlagsInv
<1>6. QED
  BY <1>4, <1>5

LEMMA AttemptSucceedsIInv ==
    ASSUME NEW s \in Sockets, IInv, AttemptSucceeds(s) PROVE IInv'
<1> USE DEF IInv
<1>1. /\ sock \in [Sockets -> SocketState] /\ sock[s] = "connecting"
      /\ sock' = [sock EXCEPT ![s] = "open"]
      /\ socket' = s
  BY DEF AttemptSucceeds, Adopt, TypeOK
<1>2. /\ Busy = {s} /\ Adopted = {} /\ Live = {}
      /\ reconnectTimer = "none" /\ timeouts = 0 /\ ~reconnecting
      /\ monitor = "off" /\ monitors = 0 /\ announced = 0
  BY <1>1, AttemptAlone
<1>3. Busy' = {s} /\ Adopted' = {s} /\ Live' = {s}
  BY <1>1, <1>2 DEF Busy, Adopted, Live
<1>4. /\ reconnectTimer' = "none" /\ timeouts' = 0
      /\ monitor' = "running" /\ monitors' = 1 /\ announced' = 1
      /\ ~reconnecting' /\ fromListener' = fromListener
  BY <1>2 DEF AttemptSucceeds, Adopt, StartMonitor
<1>5. TypeOK'
  <2>1. /\ disconnectRequested' \in BOOLEAN /\ hasConnectedOnce' \in BOOLEAN
        /\ stale' \in BOOLEAN /\ reconnecting' \in BOOLEAN /\ fromListener' \in BOOLEAN
    BY Zenon DEF AttemptSucceeds, Adopt, TypeOK
  <2>2. sock' \in [Sockets -> SocketState]
    BY <1>1 DEF SocketState
  <2>3. reconnectAttempt' \in 0..MaxAttempt
    BY DEF AttemptSucceeds, Adopt
  <2>4. QED
    BY <1>1, <1>4, <2>1, <2>2, <2>3 DEF TypeOK
<1>6. OneSocket'
  BY <1>1, <1>3 DEF OneSocket
<1>7. Counts'
  BY <1>3, <1>4 DEF Counts
<1>8. TimersInv'
  BY <1>1, <1>3, <1>4 DEF TimersInv
<1>9. FlagsInv'
  BY <1>3, <1>4 DEF FlagsInv, AttemptSucceeds, Adopt
<1>10. QED
  BY <1>5, <1>6, <1>7, <1>8, <1>9

SocketsDegrade ==
    \A t \in Sockets :
        sock'[t] = sock[t] \/ (t \in Live /\ sock'[t] \in {"mute", "destroyed"})

(* A step that only makes live sockets mute or destroyed, or only moves the   *)
(* time of the last message.                                                 *)
LEMMA DegradeIInv ==
    ASSUME IInv,
           UNCHANGED <<socket, disconnectRequested, hasConnectedOnce, reconnectAttempt,
                       reconnectTimer, timeouts, reconnecting, fromListener, monitor,
                       monitors, announced>>,
           stale' \in BOOLEAN,
           sock' \in [Sockets -> SocketState],
           SocketsDegrade
    PROVE  IInv'
<1> USE DEF IInv
<1>1. Busy' = Busy /\ Adopted' = Adopted /\ Live' \subseteq Live
  BY DEF Busy, Adopted, Live, SocketsDegrade
<1>2. TypeOK'
  <2>1. /\ disconnectRequested' \in BOOLEAN /\ hasConnectedOnce' \in BOOLEAN
        /\ reconnecting' \in BOOLEAN /\ fromListener' \in BOOLEAN
    BY Zenon DEF TypeOK
  <2>2. QED
    BY <2>1 DEF TypeOK
<1>3. OneSocket' /\ Counts' /\ TimersInv' /\ FlagsInv'
  BY <1>1 DEF OneSocket, Counts, TimersInv, FlagsInv
<1>4. QED
  BY <1>2, <1>3

LEMMA DestroyCurrentDegrades ==
    ASSUME sock \in [Sockets -> SocketState], DestroyCurrent
    PROVE  /\ sock' \in [Sockets -> SocketState]
           /\ SocketsDegrade
<1>1. \A t \in Sockets : sock'[t] = IF t = socket /\ t \in Live
                                  THEN "destroyed" ELSE sock[t]
  BY DEF DestroyCurrent
<1>2. sock' \in [Sockets -> SocketState]
  <2>1. \A t \in Sockets : sock[t] \in SocketState /\ "destroyed" \in SocketState
    BY DEF SocketState
  <2>2. QED
    BY <2>1 DEF DestroyCurrent
<1>3. QED
  BY <1>1, <1>2 DEF SocketsDegrade

LEMMA SetStateDegrades ==
    ASSUME sock \in [Sockets -> SocketState], NEW s \in Live,
           NEW x \in {"mute", "destroyed"}, sock' = [sock EXCEPT ![s] = x]
    PROVE  /\ sock' \in [Sockets -> SocketState]
           /\ SocketsDegrade
<1>1. x \in SocketState /\ s \in Sockets
  BY DEF SocketState, Live
<1>2. \A t \in Sockets : sock'[t] = IF t = s THEN x ELSE sock[t]
  BY <1>1
<1>3. sock' \in [Sockets -> SocketState]
  BY <1>1
<1>4. QED
  BY <1>2, <1>3 DEF SocketsDegrade

LEMMA SocketEventIInv ==
    ASSUME NEW s \in Sockets, IInv,
           Data(s) \/ CorruptData(s) \/ PeerDrops(s) \/ PeerVanishes(s)
    PROVE  IInv'
<1>1. sock \in [Sockets -> SocketState] /\ stale \in BOOLEAN
  BY DEF IInv, TypeOK
<1>2. CASE Data(s)
  BY <1>1, <1>2, DegradeIInv DEF Data, SocketsDegrade
<1>3. CASE CorruptData(s)
  <2>1. /\ sock' \in [Sockets -> SocketState]
        /\ SocketsDegrade
    BY <1>1, <1>3, DestroyCurrentDegrades DEF CorruptData
  <2>2. QED
    BY <1>3, <2>1, DegradeIInv DEF CorruptData
<1>4. CASE PeerDrops(s)
  <2>1. /\ sock' \in [Sockets -> SocketState]
        /\ SocketsDegrade
    BY <1>1, <1>4, SetStateDegrades DEF PeerDrops
  <2>2. QED
    BY <1>1, <1>4, <2>1, DegradeIInv DEF PeerDrops
<1>5. CASE PeerVanishes(s)
  <2>1. /\ sock' \in [Sockets -> SocketState]
        /\ SocketsDegrade
    <3>1. s \in Live
      BY <1>5 DEF PeerVanishes, Live
    <3>2. QED
      BY <1>1, <1>5, <3>1, SetStateDegrades DEF PeerVanishes
  <2>2. QED
    BY <1>1, <1>5, <2>1, DegradeIInv DEF PeerVanishes
<1>6. QED
  BY <1>2, <1>3, <1>4, <1>5

LEMMA WatchdogIInv == ASSUME IInv, WatchdogFires \/ SilencePasses PROVE IInv'
<1>1. sock \in [Sockets -> SocketState] /\ stale \in BOOLEAN
  BY DEF IInv, TypeOK
<1>2. CASE WatchdogFires
  <2>1. /\ sock' \in [Sockets -> SocketState]
        /\ SocketsDegrade
    BY <1>1, <1>2, DestroyCurrentDegrades DEF WatchdogFires
  <2>2. QED
    BY <1>1, <1>2, <2>1, DegradeIInv DEF WatchdogFires
<1>3. CASE SilencePasses
  BY <1>1, <1>3, DegradeIInv DEF SilencePasses, SocketsDegrade
<1>4. QED
  BY <1>2, <1>3

LEMMA HandleCloseIInv == ASSUME NEW s \in Sockets, IInv, HandleClose(s) PROVE IInv'
<1> USE DEF IInv
<1>1. /\ sock \in [Sockets -> SocketState] /\ sock[s] = "destroyed"
      /\ sock' = [sock EXCEPT ![s] = "closed"]
  BY DEF HandleClose, TypeOK
<1>2. Busy = {s} /\ s \in Adopted /\ Live = {}
  BY <1>1 DEF OneSocket, Busy, Adopted, Live
<1>3. Busy' = {} /\ Adopted' = {} /\ Live' = {}
  BY <1>1, <1>2 DEF Busy, Adopted, Live
<1>4. announced' = 0
  <2>1. announced = 1
    BY <1>2 DEF Counts
  <2>2. QED
    BY <2>1 DEF HandleClose
<1>5. monitor' = "off" /\ monitors' = 0
  BY DEF HandleClose, StopMonitor, Counts, TypeOK
<1>6. reconnectTimer = "none" /\ timeouts = 0 /\ ~reconnecting
  BY <1>2 DEF TimersInv, Counts, TypeOK
<1>7. /\ timeouts' = 0 /\ reconnectTimer' = "none"
      /\ reconnecting' => ~disconnectRequested'
  BY <1>6 DEF HandleClose, ScheduleReconnect
<1>8. /\ socket' = socket /\ fromListener' = fromListener
      /\ disconnectRequested' = disconnectRequested
      /\ hasConnectedOnce' = hasConnectedOnce
      /\ disconnectRequested \/ hasConnectedOnce
  BY <1>2 DEF HandleClose, FlagsInv
<1>9. TypeOK'
  <2>1. /\ disconnectRequested' \in BOOLEAN /\ hasConnectedOnce' \in BOOLEAN
        /\ stale' \in BOOLEAN /\ reconnecting' \in BOOLEAN /\ fromListener' \in BOOLEAN
    BY Zenon DEF HandleClose, ScheduleReconnect, TypeOK
  <2>2. sock' \in [Sockets -> SocketState]
    BY <1>1 DEF SocketState
  <2>3. reconnectAttempt' \in 0..MaxAttempt
    BY DEF HandleClose, ScheduleReconnect, TypeOK
  <2>4. QED
    BY <1>4, <1>5, <1>7, <1>8, <2>1, <2>2, <2>3 DEF TypeOK
<1>10. OneSocket'
  BY <1>3 DEF OneSocket
<1>11. Counts'
  BY <1>3, <1>4, <1>5, <1>7 DEF Counts
<1>12. TimersInv'
  BY <1>3, <1>5, <1>7, <1>8 DEF TimersInv
<1>13. FlagsInv'
  BY <1>3, <1>5, <1>8 DEF FlagsInv
<1>14. QED
  BY <1>9, <1>10, <1>11, <1>12, <1>13

LEMMA ArmReconnectTimerIInv == ASSUME IInv, ArmReconnectTimer PROVE IInv'
<1> USE DEF IInv
<1>1. /\ Busy = {} /\ (hasConnectedOnce \/ fromListener)
      /\ reconnectTimer = "none" /\ timeouts = 0
  BY DEF ArmReconnectTimer, TimersInv, Counts
<1>2. Busy' = Busy /\ Adopted' = Adopted /\ Live' = Live
  BY DEF ArmReconnectTimer, Busy, Adopted, Live
<1>3. reconnectTimer' = "armed" /\ timeouts' = 1 /\ ~reconnecting'
  BY <1>1 DEF ArmReconnectTimer
<1>4. TypeOK'
  <2>1. /\ disconnectRequested' \in BOOLEAN /\ hasConnectedOnce' \in BOOLEAN
        /\ stale' \in BOOLEAN /\ reconnecting' \in BOOLEAN /\ fromListener' \in BOOLEAN
    BY Zenon DEF ArmReconnectTimer, TypeOK
  <2>2. QED
    BY <1>3, <2>1 DEF ArmReconnectTimer, TypeOK
<1>5. OneSocket' /\ FlagsInv'
  BY <1>2 DEF ArmReconnectTimer, OneSocket, FlagsInv
<1>6. Counts' /\ TimersInv'
  BY <1>1, <1>2, <1>3 DEF ArmReconnectTimer, Counts, TimersInv
<1>7. QED
  BY <1>4, <1>5, <1>6

LEMMA ReconnectTimerFiresIInv ==
    ASSUME NEW s \in Sockets, IInv, ReconnectTimerFires(s) PROVE IInv'
<1> USE DEF IInv
<1>1. /\ sock \in [Sockets -> SocketState]
      /\ sock' = [sock EXCEPT ![s] = "connecting"]
  BY DEF ReconnectTimerFires, BeginAttempt, TypeOK
<1>2. /\ reconnectTimer = "armed" /\ timeouts = 1 /\ ~reconnecting
      /\ Busy = {} /\ Adopted = {}
  <2>1. reconnectTimer = "armed" /\ timeouts = 1
    BY DEF ReconnectTimerFires, Counts
  <2>2. Busy = {} /\ ~reconnecting
    BY <2>1 DEF TimersInv
  <2>3. QED
    BY <2>1, <2>2 DEF Busy, Adopted
<1>3. Busy' = {s} /\ Adopted' = {} /\ Live' = {}
  BY <1>1, <1>2 DEF Busy, Adopted, Live
<1>4. reconnectTimer' = "none" /\ timeouts' = 0
  BY <1>2 DEF ReconnectTimerFires
<1>5. monitor = "off"
  BY <1>2 DEF TimersInv, TypeOK
<1>6. TypeOK'
  <2>1. /\ disconnectRequested' \in BOOLEAN /\ hasConnectedOnce' \in BOOLEAN
        /\ stale' \in BOOLEAN /\ reconnecting' \in BOOLEAN /\ fromListener' \in BOOLEAN
    BY Zenon DEF ReconnectTimerFires, TypeOK
  <2>2. sock' \in [Sockets -> SocketState]
    BY <1>1 DEF SocketState
  <2>3. QED
    BY <1>4, <2>1, <2>2 DEF ReconnectTimerFires, TypeOK
<1>7. OneSocket' /\ FlagsInv'
  BY <1>3, <1>5 DEF ReconnectTimerFires, OneSocket, FlagsInv
<1>8. Counts' /\ TimersInv'
  BY <1>2, <1>3, <1>4, <1>5 DEF ReconnectTimerFires, Counts, TimersInv
<1>9. QED
  BY <1>6, <1>7, <1>8

LEMMA StutterIInv == ASSUME IInv, UNCHANGED vars PROVE IInv'
<1>1. sock \in [Sockets -> SocketState] /\ stale \in BOOLEAN
  BY DEF IInv, TypeOK
<1>2. QED
  BY <1>1, DegradeIInv DEF vars, SocketsDegrade

(* The inductive invariant holds in every reachable state.                   *)
THEOREM Invariance == Spec => []IInv
<1>1. IInv /\ [Next]_vars => IInv'
  <2> SUFFICES ASSUME IInv, [Next]_vars PROVE IInv'
    OBVIOUS
  <2>1. ASSUME NEW s \in Sockets, AtRest /\ Connect(s) PROVE IInv'
    BY <2>1, ConnectIInv
  <2>2. CASE Disconnect
    BY <2>2, DisconnectIInv
  <2>3. CASE NextTurn
    <3>1. ASSUME NEW s \in Sockets,
                 \/ AttemptFails(s) \/ AttemptAbandoned(s) \/ AttemptSucceeds(s)
                 \/ Data(s) \/ CorruptData(s) \/ PeerDrops(s) \/ PeerVanishes(s)
                 \/ HandleClose(s) \/ ReconnectTimerFires(s)
          PROVE  IInv'
      BY <3>1, AttemptFailsIInv, AttemptAbandonedIInv, AttemptSucceedsIInv,
         SocketEventIInv, HandleCloseIInv, ReconnectTimerFiresIInv
    <3>2. QED
      BY <2>3, <3>1, WatchdogIInv DEF NextTurn
  <2>4. CASE ArmReconnectTimer
    BY <2>4, ArmReconnectTimerIInv
  <2>5. CASE UNCHANGED vars
    BY <2>5, StutterIInv
  <2>6. QED
    BY <2>1, <2>2, <2>3, <2>4, <2>5 DEF Next, Internal
<1>2. QED
  BY InitIInv, <1>1, PTL DEF Spec

(* The fields and the counts of running timers keep their types: in           *)
(* particular no interval or timeout is ever cleared twice.                   *)
THEOREM TypeCorrect == Spec => []TypeOK
<1>1. IInv => TypeOK
  BY DEF IInv
<1>2. QED
  BY Invariance, <1>1, PTL

(* One connection, one attempt or one scheduled reconnect, never two of them. *)
THEOREM OneConnectionHolds == Spec => []OneConnection
<1>1. IInv => OneConnection
  BY DEF IInv, OneSocket, Counts, TimersInv, OneConnection
<1>2. QED
  BY Invariance, <1>1, PTL

(* A live connection is the current one and has its watchdog and heartbeat.   *)
THEOREM LiveIsWatchedHolds == Spec => []LiveIsWatched
<1>1. IInv => LiveIsWatched
  <2> SUFFICES ASSUME IInv PROVE LiveIsWatched
    OBVIOUS
  <2> USE DEF IInv
  <2>1. \A s \in Live : s = socket /\ monitors = 1 /\ monitor = "running"
    BY DEF OneSocket, Counts, TimersInv, Live, Adopted
  <2>2. monitors > 0 => socket \in Busy
    BY DEF Counts, TimersInv, Adopted, Busy
  <2>3. QED
    BY <2>1, <2>2 DEF LiveIsWatched
<1>2. QED
  BY Invariance, <1>1, PTL

(* disconnect() leaves no live socket and no interval, and no scheduled reconnect *)
(* unless a listener of 'reconnecting' called it.                                *)
THEOREM DisconnectLeavesNothingHolds == Spec => []DisconnectLeavesNothing
<1>1. IInv => DisconnectLeavesNothing
  BY DEF IInv, Counts, TimersInv, FlagsInv, DisconnectLeavesNothing, TypeOK, Live
<1>2. QED
  BY Invariance, <1>1, PTL

(* A reconnect is announced and scheduled only after a success and before a   *)
(* disconnect(), other than one called on the announcement.                   *)
THEOREM ReconnectOnlyAfterSuccessHolds == Spec => []ReconnectOnlyAfterSuccess
<1>1. IInv => ReconnectOnlyAfterSuccess
  BY DEF IInv, Counts, TimersInv, FlagsInv, ReconnectOnlyAfterSuccess
<1>2. QED
  BY Invariance, <1>1, PTL

-----------------------------------------------------------------------------
(* The refinement: each step is a step of ConnectionService or leaves its     *)
(* view unchanged.                                                           *)
LEMMA ConnectRefines ==
    ASSUME IInv, NEW s \in Sockets, AtRest, Connect(s) PROVE Service!Open
<1> USE DEF IInv
<1>1. Busy = {} /\ Adopted = {}
  BY DEF AtRest, Busy, Adopted
<1>2. announced = 0 /\ announced' = 0
  BY <1>1 DEF Counts, Connect
<1>3. s \in Busy'
  BY DEF Connect, BeginAttempt, TypeOK, Busy
<1>4. disconnectRequested' = FALSE /\ hasConnectedOnce' = hasConnectedOnce
  BY Zenon DEF Connect
<1>5. WishView' = IF WishView = "keep" THEN "keep" ELSE "first"
  BY <1>1, <1>3, <1>4 DEF WishView, FlagsInv
<1>6. LinkView = "down" /\ LinkView' = "down"
  BY <1>2 DEF LinkView
<1>7. QED
  BY <1>5, <1>6 DEF Service!Open

LEMMA DisconnectRefines == ASSUME IInv, Disconnect PROVE Service!Close
<1> USE DEF IInv
<1>1. Live' = {}
  <2>1. \A t \in Sockets : sock'[t] = IF t = socket /\ t \in Live
                                    THEN "destroyed" ELSE sock[t]
    BY DEF Disconnect, DestroyCurrent
  <2>2. \A t \in Live : t = socket
    BY DEF OneSocket, Live, Adopted
  <2>3. QED
    BY <2>1, <2>2 DEF Live
<1>2. announced' = announced /\ Live \subseteq Adopted
  BY DEF Disconnect, Live, Adopted
<1>3. Live # {} => announced = 1
  BY <1>2 DEF Counts
<1>4. WishView' = "no"
  BY DEF Disconnect, WishView
<1>5. LinkView' = IF LinkView = "up" THEN "lost" ELSE LinkView
  BY <1>1, <1>2, <1>3 DEF LinkView
<1>6. QED
  BY <1>4, <1>5 DEF Service!Close

LEMMA AttemptEndsRefines ==
    ASSUME IInv, NEW s \in Sockets, AttemptFails(s) \/ AttemptAbandoned(s)
    PROVE  Service!GiveUp \/ UNCHANGED Service!cvars
<1>1. /\ sock \in [Sockets -> SocketState] /\ sock[s] = "connecting"
      /\ sock' = [sock EXCEPT ![s] = "closed"]
      /\ disconnectRequested' = disconnectRequested
      /\ hasConnectedOnce' = hasConnectedOnce /\ announced' = announced
  BY DEF AttemptFails, AttemptAbandoned, IInv, TypeOK
<1>2. Busy = {s} /\ announced = 0
  BY <1>1, AttemptAlone
<1>3. Busy' = {}
  BY <1>1, <1>2 DEF Busy
<1>4. LinkView = "down" /\ LinkView' = "down"
  BY <1>1, <1>2 DEF LinkView
<1>5. \/ WishView' = WishView
      \/ WishView = "first" /\ WishView' = "no"
  BY <1>1, <1>2, <1>3 DEF WishView
<1>6. QED
  BY <1>4, <1>5 DEF Service!GiveUp, Service!cvars

LEMMA AttemptSucceedsRefines ==
    ASSUME IInv, NEW s \in Sockets, AttemptSucceeds(s) PROVE Service!Establish
<1>1. /\ sock \in [Sockets -> SocketState] /\ sock[s] = "connecting"
      /\ sock' = [sock EXCEPT ![s] = "open"]
      /\ ~disconnectRequested /\ disconnectRequested' = disconnectRequested
      /\ hasConnectedOnce'
  BY DEF AttemptSucceeds, Adopt, IInv, TypeOK
<1>2. Busy = {s} /\ announced = 0
  BY <1>1, AttemptAlone
<1>3. announced' = 1
  BY <1>2 DEF AttemptSucceeds, Adopt
<1>4. s \in Live'
  BY <1>1 DEF Live
<1>5. LinkView = "down" /\ LinkView' = "up"
  BY <1>2, <1>3, <1>4 DEF LinkView
<1>6. WishView # "no" /\ WishView' = "keep"
  BY <1>1, <1>2 DEF WishView
<1>7. QED
  BY <1>5, <1>6 DEF Service!Establish

(* Degrading the sockets can lose the link, and changes nothing else.         *)
LEMMA DegradeRefines ==
    ASSUME IInv, SocketsDegrade,
           UNCHANGED <<disconnectRequested, hasConnectedOnce, announced>>
    PROVE  Service!Lose \/ UNCHANGED Service!cvars
<1>1. Busy' = Busy /\ Live' \subseteq Live
  BY DEF Busy, Live, SocketsDegrade
<1>2. WishView' = WishView
  BY <1>1 DEF WishView
<1>3. \/ LinkView' = LinkView
      \/ LinkView = "up" /\ LinkView' = "lost"
  BY <1>1 DEF LinkView
<1>4. QED
  BY <1>2, <1>3 DEF Service!Lose, Service!cvars

LEMMA HandleCloseRefines ==
    ASSUME IInv, NEW s \in Sockets, HandleClose(s) PROVE Service!Report
<1> USE DEF IInv
<1>1. /\ sock \in [Sockets -> SocketState] /\ sock[s] = "destroyed"
      /\ sock' = [sock EXCEPT ![s] = "closed"]
      /\ disconnectRequested' = disconnectRequested
      /\ hasConnectedOnce' = hasConnectedOnce
  BY DEF HandleClose, TypeOK
<1>2. Busy = {s} /\ s \in Adopted /\ Live = {}
  BY <1>1 DEF OneSocket, Busy, Adopted, Live
<1>3. announced = 1
  BY <1>2 DEF Counts
<1>4. announced' = 0
  BY <1>3 DEF HandleClose
<1>5. LinkView = "lost" /\ LinkView' = "down"
  BY <1>2, <1>3, <1>4 DEF LinkView
<1>6. WishView' = WishView
  BY <1>1, <1>2 DEF WishView, FlagsInv
<1>7. QED
  BY <1>5, <1>6 DEF Service!Report

LEMMA ReconnectTimerRefines ==
    ASSUME IInv, NEW s \in Sockets, ReconnectTimerFires(s)
    PROVE  UNCHANGED Service!cvars
<1> USE DEF IInv
<1>1. timeouts = 1 /\ reconnectTimer = "armed"
  BY DEF ReconnectTimerFires, Counts
<1>2. Busy = {} /\ (hasConnectedOnce \/ disconnectRequested)
  BY <1>1 DEF TimersInv, FlagsInv
<1>3. announced = 0 /\ announced' = 0
  <2>1. Adopted = {}
    BY <1>2 DEF Adopted, Busy
  <2>2. QED
    BY <2>1 DEF Counts, ReconnectTimerFires
<1>4. /\ disconnectRequested' = disconnectRequested
      /\ hasConnectedOnce' = hasConnectedOnce
  BY DEF ReconnectTimerFires
<1>5. LinkView' = LinkView /\ WishView' = WishView
  BY <1>2, <1>3, <1>4 DEF LinkView, WishView, FlagsInv
<1>6. QED
  BY <1>5 DEF Service!cvars

LEMMA ArmReconnectTimerRefines ==
    ASSUME IInv, ArmReconnectTimer PROVE UNCHANGED Service!cvars
<1>1. LinkView' = LinkView /\ WishView' = WishView
  BY DEF ArmReconnectTimer, LinkView, WishView, Live, Busy
<1>2. QED
  BY <1>1 DEF Service!cvars

(* SpotwareTransport implements ConnectionService.                           *)
THEOREM Refinement == Spec => ImplementsService
<1>1. Init => Service!Init
  <2> SUFFICES ASSUME Init PROVE Service!Init
    OBVIOUS
  <2>1. Busy = {} /\ announced = 0 /\ ~hasConnectedOnce
    BY DEF Init, Busy
  <2>2. LinkView = "down" /\ WishView = "no"
    BY <2>1 DEF LinkView, WishView
  <2>3. QED
    BY <2>2 DEF Service!Init
<1>2. IInv /\ [Next]_vars => [Service!Next]_(Service!cvars)
  <2> SUFFICES ASSUME IInv, [Next]_vars
               PROVE  Service!Next \/ UNCHANGED Service!cvars
    OBVIOUS
  <2>1. sock \in [Sockets -> SocketState]
    BY DEF IInv, TypeOK
  <2>2. ASSUME NEW s \in Sockets, AtRest /\ Connect(s) PROVE Service!Next
    BY <2>2, ConnectRefines DEF Service!Next
  <2>3. CASE Disconnect
    BY <2>3, DisconnectRefines DEF Service!Next
  <2>4. ASSUME NEW s \in Sockets,
               Data(s) \/ CorruptData(s) \/ PeerDrops(s) \/ PeerVanishes(s)
        PROVE  Service!Lose \/ UNCHANGED Service!cvars
    <3>1. UNCHANGED <<disconnectRequested, hasConnectedOnce, announced>>
      BY <2>4 DEF Data, CorruptData, PeerDrops, PeerVanishes
    <3>2. CASE Data(s)
      BY <3>1, <3>2, DegradeRefines DEF Data, SocketsDegrade
    <3>3. CASE CorruptData(s)
      BY <2>1, <3>1, <3>3, DestroyCurrentDegrades, DegradeRefines DEF CorruptData
    <3>4. CASE PeerDrops(s)
      BY <2>1, <3>1, <3>4, SetStateDegrades, DegradeRefines DEF PeerDrops
    <3>5. CASE PeerVanishes(s)
      <4>1. s \in Live
        BY <3>5 DEF PeerVanishes, Live
      <4>2. QED
        BY <2>1, <3>1, <3>5, <4>1, SetStateDegrades, DegradeRefines DEF PeerVanishes
    <3>6. QED
      BY <2>4, <3>2, <3>3, <3>4, <3>5
  <2>5. CASE WatchdogFires
    BY <2>1, <2>5, DestroyCurrentDegrades, DegradeRefines
       DEF WatchdogFires, Service!Next
  <2>6. CASE SilencePasses
    BY <2>6, DegradeRefines DEF SilencePasses, SocketsDegrade, Service!Next
  <2>7. CASE UNCHANGED vars
    BY <2>7, DegradeRefines DEF vars, SocketsDegrade, Service!Next
  <2>8. CASE NextTurn
    <3>1. ASSUME NEW s \in Sockets,
                 \/ AttemptFails(s) \/ AttemptAbandoned(s) \/ AttemptSucceeds(s)
                 \/ Data(s) \/ CorruptData(s) \/ PeerDrops(s) \/ PeerVanishes(s)
                 \/ HandleClose(s) \/ ReconnectTimerFires(s)
          PROVE  Service!Next \/ UNCHANGED Service!cvars
      BY <2>4, <3>1, AttemptEndsRefines, AttemptSucceedsRefines, HandleCloseRefines,
         ReconnectTimerRefines DEF Service!Next
    <3>2. QED
      BY <2>5, <2>6, <2>8, <3>1 DEF NextTurn
  <2>9. CASE ArmReconnectTimer
    BY <2>9, ArmReconnectTimerRefines
  <2>10. QED
    BY <2>2, <2>3, <2>7, <2>8, <2>9 DEF Next, Internal
<1>3. QED
  BY Invariance, <1>1, <1>2, PTL DEF Spec, ImplementsService, Service!Spec

-----------------------------------------------------------------------------
(* The delay of a reconnect attempt: the operators of ReconnectBackoff.        *)

\* Division by a positive number of any size rounds down.
LEMMA DivisionIsFloor ==
    ASSUME NEW x \in Int, NEW k \in Int, k > 0
    PROVE  x \div k \in Int /\ k * (x \div k) <= x /\ x < k * (x \div k) + k
  OBVIOUS

LEMMA MultiplesAreOrdered ==
    ASSUME NEW k \in Int, k > 0, NEW a \in Int, NEW b \in Int, k * a < k * b
    PROVE  a < b
  OBVIOUS

\* Rounding never leaves the band of the jitter: at least half of the capped delay and at
\* most all of it, an odd number of milliseconds included.
LEMMA JitterInBand ==
    ASSUME NEW c \in Nat, NEW grain \in Nat, grain > 0, NEW jitter \in Nat, jitter < grain
    PROVE  LET d == withEqualJitter(c, jitter, grain)
           IN  d \in Nat /\ c <= 2 * d /\ d <= c
<1> DEFINE d == withEqualJitter(c, jitter, grain)
           x == c * (grain + jitter) + grain
<1>1. d \in Int /\ (2 * grain) * d <= x /\ x < (2 * grain) * d + 2 * grain
  <2>1. x \in Int /\ 2 * grain \in Int /\ 2 * grain > 0
    OBVIOUS
  <2>2. d = x \div (2 * grain)
    BY DEF withEqualJitter
  <2> QED
    BY <2>1, <2>2, DivisionIsFloor
\* The lower end: the smallest jitter gives c * grain.
<1>2. c + 1 < 2 * d + 2
  <2>1. grain * c <= c * (grain + jitter)
    OBVIOUS
  <2>2. grain * (c + 1) < grain * (2 * d + 2)
    BY <1>1, <2>1
  <2> QED
    BY <1>1, <2>2, MultiplesAreOrdered
\* The upper end: jitter is at most grain - 1.
<1>3. CASE c = 0
  <2>1. (2 * grain) * d <= grain
    BY <1>1, <1>3
  <2>2. grain * (2 * d) < grain * 2
    BY <1>1, <2>1
  <2> QED
    BY <1>1, <1>2, <1>3, <2>2, MultiplesAreOrdered
<1>4. CASE c > 0
  <2>1. c * (grain + jitter) <= c * (2 * grain - 1)
    BY <1>4
  <2>2. (2 * grain) * d < (2 * grain) * (c + 1)
    BY <1>1, <1>4, <2>1
  <2>3. 2 * grain \in Int /\ 2 * grain > 0
    OBVIOUS
  <2>4. d < c + 1
    BY <1>1, <2>2, <2>3, MultiplesAreOrdered
  <2> QED
    BY <1>1, <1>2, <2>4
<1> QED
  BY <1>3, <1>4

\* "Half the capped exponential delay is fixed, half is randomized" (reconnect-backoff.ts:14):
\* however often the transport has retried, the delay is at least half of the capped one, at
\* most that and at most maxDelayMs; and the retries never become a busy loop.
THEOREM DelayInBand ==
    ASSUME NEW baseDelayMs \in Nat, NEW growth \in Nat, NEW maxDelayMs \in Nat,
           NEW grain \in Nat, grain > 0, NEW jitter \in Nat, jitter < grain
    PROVE  LET capped == cappedDelay(baseDelayMs, growth, maxDelayMs)
               delay == calculateReconnectDelayMs(baseDelayMs, growth, maxDelayMs,
                                                  jitter, grain)
           IN  /\ delay \in Nat
               /\ capped <= 2 * delay /\ delay <= capped /\ delay <= maxDelayMs
               /\ baseDelayMs > 0 /\ growth > 0 /\ maxDelayMs > 0 => delay > 0
<1> DEFINE capped == cappedDelay(baseDelayMs, growth, maxDelayMs)
           delay == withEqualJitter(capped, jitter, grain)
<1>1. capped \in Nat /\ capped <= maxDelayMs
  BY DEF cappedDelay
<1>2. baseDelayMs > 0 /\ growth > 0 /\ maxDelayMs > 0 => capped > 0
  BY DEF cappedDelay
<1>3. delay \in Nat /\ capped <= 2 * delay /\ delay <= capped
  <2> HIDE DEF capped
  <2> QED
    BY <1>1, JitterInBand
<1>4. delay = calculateReconnectDelayMs(baseDelayMs, growth, maxDelayMs, jitter, grain)
  BY DEF calculateReconnectDelayMs
<1> HIDE DEF capped, delay
<1>5. /\ delay \in Nat
      /\ capped <= 2 * delay /\ delay <= capped /\ delay <= maxDelayMs
      /\ baseDelayMs > 0 /\ growth > 0 /\ maxDelayMs > 0 => delay > 0
  BY <1>1, <1>2, <1>3
<1> QED
  BY <1>4, <1>5 DEF capped
=============================================================================
