------------------------------- MODULE Outbox -------------------------------
(***************************************************************************)
(* The way out: SpotwareTransport.send() (src/src/transport/                 *)
(* spotware-transport.ts) with the two rate limiters of SpotwareRateLimiter, *)
(* on the connections that ConnectionService describes.  send() takes the    *)
(* socket of the moment, waits for a limiter and then writes a frame to the  *)
(* socket it took; the limiters outlive connections and are emptied by       *)
(* disconnect().  When a limiter lets a caller through is RateLimiter's      *)
(* business: here each is a RateGate.                                        *)
(*                                                                         *)
(* Whoever a limiter let through goes on in the same run of the event loop,  *)
(* but after the code that is running: that code can call send() and         *)
(* disconnect() again before the frame is written.                           *)
(***************************************************************************)
EXTENDS Integers, Sequences, SequencesExt

CONSTANTS
    MaxSends,  \* bound: calls of send() in a behaviour
    MaxConns   \* bound: connections of a behaviour

ASSUME BoundsAssumption == MaxSends \in Nat /\ MaxConns \in Nat

Limiters == {"fivePerSecond", "fiftyPerSecond"}
Msgs == 1..MaxSends     \* a message is the number of the call that sends it
Conns == 1..MaxConns

VARIABLES
    link, wish,  \* the transport, as ConnectionService sees it
    conn,        \* the number of the current (or last) connection
    sends,       \* how many calls of send() there were
    limiter,     \* which limiter the payload type of a message goes through
    given,       \* the connection whose socket send() took; 0: there was none
    lines,       \* the queue of each limiter
    passed,      \* history: whom each limiter let through
    resumed,     \* let through, and to go on in this run of the event loop
    stream,      \* the messages written to each connection
    outcome      \* what became of the promise of send()

connVars == <<link, wish, conn>>
callVars == <<sends, limiter, given>>
vars == <<connVars, callVars, lines, passed, resumed, stream, outcome>>

Conn == INSTANCE ConnectionService

TypeOK ==
    /\ Conn!TypeOK /\ conn \in 0..MaxConns
    /\ sends \in 0..MaxSends
    /\ limiter \in [Msgs -> Limiters]
    /\ given \in [Msgs -> 0..MaxConns]
    /\ lines \in [Limiters -> Seq(Msgs)]
    /\ passed \in [Limiters -> Seq(Msgs)]
    /\ resumed \in Seq(Msgs)
    /\ stream \in [Conns -> Seq(Msgs)]
    /\ outcome \in [Msgs -> {"none", "thrown", "written", "failed"}]

Init ==
    /\ Conn!Init /\ conn = 0
    /\ sends = 0
    /\ limiter \in [Msgs -> Limiters]
    /\ given = [m \in Msgs |-> 0]
    /\ lines = [l \in Limiters |-> <<>>]
    /\ passed = [l \in Limiters |-> <<>>]
    /\ resumed = <<>>
    /\ stream = [c \in Conns |-> <<>>]
    /\ outcome = [m \in Msgs |-> "none"]

-----------------------------------------------------------------------------
\* Is the socket of connection c there and not destroyed?
Live(c) == link = "up" /\ conn = c

EventLoopFree == resumed = <<>>

\* Mutant of SendThrows: without a socket send() returns, as if it had sent.
MutSendThrows(m) ==
    /\ m = sends + 1 /\ sends' = m
    /\ link # "up"
    /\ UNCHANGED <<connVars, limiter, given, lines, passed, resumed, stream, outcome>>

\* No socket, or a destroyed one.
SendThrows(m) ==
    /\ m = sends + 1 /\ sends' = m
    /\ link # "up"
    /\ outcome' = [outcome EXCEPT ![m] = "thrown"]
    /\ UNCHANGED <<connVars, limiter, given, lines, passed, resumed, stream>>

\* Mutant of CanPassAtOnce: it is not looked at whether somebody waits.
MutCanPassAtOnce(l) == TRUE

CanPassAtOnce(l) == lines[l] = <<>>

SendPasses(m) ==
    /\ m = sends + 1 /\ sends' = m
    /\ link = "up"
    /\ given' = [given EXCEPT ![m] = conn]
    /\ CanPassAtOnce(limiter[m])
    /\ passed' = [passed EXCEPT ![limiter[m]] = Append(@, m)]
    /\ resumed' = Append(resumed, m)
    /\ UNCHANGED <<connVars, limiter, lines, stream, outcome>>

SendWaits(m) ==
    /\ m = sends + 1 /\ sends' = m
    /\ link = "up"
    /\ given' = [given EXCEPT ![m] = conn]
    /\ lines' = [lines EXCEPT ![limiter[m]] = Append(@, m)]
    /\ UNCHANGED <<connVars, limiter, passed, resumed, stream, outcome>>

\* Mutant of Tick: a limiter rests while there is no connection to write to.
MutTick(l) ==
    /\ EventLoopFree /\ lines[l] # <<>> /\ link = "up"
    /\ lines' = [lines EXCEPT ![l] = Tail(@)]
    /\ passed' = [passed EXCEPT ![l] = Append(@, Head(lines[l]))]
    /\ resumed' = <<Head(lines[l])>>
    /\ UNCHANGED <<connVars, callVars, stream, outcome>>

\* Mutant of Tick: the last caller is let through, not the first.
MutTickLast(l) ==
    /\ EventLoopFree /\ lines[l] # <<>>
    /\ lines' = [lines EXCEPT ![l] = Front(@)]
    /\ passed' = [passed EXCEPT ![l] = Append(@, Last(lines[l]))]
    /\ resumed' = <<Last(lines[l])>>
    /\ UNCHANGED <<connVars, callVars, stream, outcome>>

\* The interval of a limiter runs and finds someone.
Tick(l) ==
    /\ EventLoopFree /\ lines[l] # <<>>
    /\ lines' = [lines EXCEPT ![l] = Tail(@)]
    /\ passed' = [passed EXCEPT ![l] = Append(@, Head(lines[l]))]
    /\ resumed' = <<Head(lines[l])>>
    /\ UNCHANGED <<connVars, callVars, stream, outcome>>

\* Mutant of SocketOf: the socket is looked up when it is written to.
MutSocketOf(m) == conn

\* The socket that send() took before it waited.
SocketOf(m) == given[m]

\* send() goes on: a destroyed socket takes no frame and calls back with an error.
Write ==
    /\ resumed # <<>>
    /\ resumed' = Tail(resumed)
    /\ LET m == Head(resumed)
           c == SocketOf(m)
       IN  IF Live(c)
           THEN stream' = [stream EXCEPT ![c] = Append(@, m)] /\ UNCHANGED outcome
           ELSE outcome' = [outcome EXCEPT ![m] = "failed"] /\ UNCHANGED stream
    /\ UNCHANGED <<connVars, callVars, lines, passed>>

Written(m) == \E c \in Conns : m \in ToSet(stream[c])

\* The socket calls back: the frame is on its way.
Flushed(m) ==
    /\ EventLoopFree
    /\ Written(m) /\ outcome[m] = "none" /\ Live(given[m])
    /\ outcome' = [outcome EXCEPT ![m] = "written"]
    /\ UNCHANGED <<connVars, callVars, lines, passed, resumed, stream>>

\* The socket was destroyed before the frame was gone.
Unflushed(m) ==
    /\ EventLoopFree
    /\ Written(m) /\ outcome[m] = "none" /\ ~Live(given[m])
    /\ outcome' = [outcome EXCEPT ![m] = "failed"]
    /\ UNCHANGED <<connVars, callVars, lines, passed, resumed, stream>>

\* connect(), a failed attempt, the loss of a connection and its 'close'.
ConnectionStep ==
    /\ Conn!Open \/ (EventLoopFree /\ (Conn!GiveUp \/ Conn!Lose \/ Conn!Report))
    /\ UNCHANGED <<conn, callVars, lines, passed, resumed, stream, outcome>>

\* 'connected'
Establish ==
    /\ EventLoopFree /\ conn < MaxConns
    /\ Conn!Establish
    /\ conn' = conn + 1
    /\ UNCHANGED <<callVars, lines, passed, resumed, stream, outcome>>

\* Mutant of Disconnect: the limiters are emptied, the socket is not destroyed.
MutDisconnect ==
    /\ wish' = "no" /\ UNCHANGED link
    /\ lines' = [l \in Limiters |-> <<>>]
    /\ UNCHANGED <<conn, callVars, passed, resumed, stream, outcome>>

\* disconnect(): whoever waits in a limiter is forgotten.
Disconnect ==
    /\ Conn!Close
    /\ lines' = [l \in Limiters |-> <<>>]
    /\ UNCHANGED <<conn, callVars, passed, resumed, stream, outcome>>

Next ==
    \/ \E m \in Msgs : SendThrows(m) \/ SendPasses(m) \/ SendWaits(m)
                       \/ Flushed(m) \/ Unflushed(m)
    \/ \E l \in Limiters : Tick(l)
    \/ Write
    \/ ConnectionStep \/ Establish \/ Disconnect

Spec == Init /\ [][Next]_vars

(* Intervals run, promises go on, sockets call back.                         *)
Fairness ==
    /\ \A l \in Limiters : WF_vars(Tick(l))
    /\ WF_vars(Write)
    /\ \A m \in Msgs : WF_vars(Flushed(m) \/ Unflushed(m))

FairSpec == Spec /\ Fairness

-----------------------------------------------------------------------------
(* A message only ever goes out on the connection that was there when send() *)
(* was called, however many reconnects it waited through: what was meant for *)
(* a dead connection never reaches the next one, which knows neither the     *)
(* account nor the caller's handshake.                                       *)
OnOwnConnection == \A c \in Conns : \A i \in 1..Len(stream[c]) : given[stream[c][i]] = c

(* On each connection the messages of one limiter appear in the order of     *)
(* their send() calls, and none twice.  MarketData builds on this.           *)
Increasing(s) ==
    \A i, j \in 1..Len(s) : i < j /\ limiter[s[i]] = limiter[s[j]] => s[i] < s[j]

InOrder == \A c \in Conns : Increasing(stream[c])

Waiting(m) == m \in ToSet(lines[limiter[m]]) \cup ToSet(resumed)

Forgotten(m) == m <= sends /\ outcome[m] = "none" /\ ~Waiting(m) /\ ~Written(m)

(* dispose() loses nothing that could still be sent: a send() that was       *)
(* forgotten, whose promise will never settle, was given to a connection     *)
(* that is gone.  SpotwareClient relies on it: its pending requests of a     *)
(* gone connection are rejected by 'disconnected'.                           *)
OnlyTheGoneAreForgotten == \A m \in Msgs : Forgotten(m) => ~Live(given[m])

(* The transport uses both limiters as RateGate allows, one caller per send. *)
FivePerSecond == INSTANCE RateGate WITH
    Callers <- Msgs, line <- lines["fivePerSecond"], passed <- passed["fivePerSecond"]
FiftyPerSecond == INSTANCE RateGate WITH
    Callers <- Msgs, line <- lines["fiftyPerSecond"], passed <- passed["fiftyPerSecond"]

BothAreGates == FivePerSecond!Spec /\ FiftyPerSecond!Spec

(* Every send() ends: it throws, its write succeeds or fails, or disconnect() *)
(* forgets it.  No reconnect is needed for that.                             *)
EverySendEnds == \A m \in Msgs : m <= sends ~> outcome[m] # "none" \/ Forgotten(m)

-----------------------------------------------------------------------------
(* The inductive strengthening the proofs use.                               *)

\* Only calls that were made, and found a socket, are anywhere on the way.
OnTheWay(m) ==
    \/ \E l \in Limiters : m \in ToSet(lines[l])
    \/ m \in ToSet(resumed)
    \/ \E c \in Conns : m \in ToSet(stream[c])

CallInv ==
    /\ link = "up" => conn \in Conns
    /\ \A m \in Msgs : OnTheWay(m) => m <= sends /\ given[m] \in Conns
    /\ \A m \in Msgs : m > sends => given[m] = 0 /\ outcome[m] = "none"
    /\ \A m \in Msgs : given[m] <= conn
    /\ \A m \in 1..sends : given[m] = 0 <=> outcome[m] = "thrown"
    /\ \A l \in Limiters : \A m \in ToSet(lines[l]) : limiter[m] = l
    /\ \A l \in Limiters : \A m \in ToSet(passed[l]) : m <= sends

\* Of one limiter's messages, those in A were sent before those in B.
Before(A, B) == \A a \in A, b \in B : limiter[a] = limiter[b] => a < b

OrderInv ==
    /\ InOrder
    /\ Increasing(resumed)
    /\ \A l \in Limiters : Increasing(lines[l])
    /\ \A c \in Conns : Before(ToSet(stream[c]), ToSet(resumed))
    /\ \A c \in Conns, l \in Limiters : Before(ToSet(stream[c]), ToSet(lines[l]))
    /\ \A l \in Limiters : Before(ToSet(resumed), ToSet(lines[l]))

IInv == TypeOK /\ CallInv /\ OnOwnConnection /\ OrderInv /\ OnlyTheGoneAreForgotten
=============================================================================
