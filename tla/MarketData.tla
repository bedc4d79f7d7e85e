----------------------------- MODULE MarketData -----------------------------
(***************************************************************************)
(* The subscriptions of src/src/market-data/spotware-market-data.ts: which   *)
(* topics SpotwareMarketData tracks, what the calls that change them do, and *)
(* how they are restored when the client authenticates on a new connection,  *)
(* which remembers nothing.  client.send() (module SpotwareClient) is seen   *)
(* from here: requests leave in the order in which they come to be sent or to *)
(* wait for the handshake, each is settled by a reply, a timeout or the end  *)
(* of its connection.                                                        *)
(*                                                                         *)
(* The messages of one chunk of the stream are handled one after the other   *)
(* in one run of the event loop; the calls whose promises they settle go on  *)
(* only after the last of them, and before anything else happens.            *)
(***************************************************************************)
EXTENDS Integers, Sequences, FiniteSets, SequencesExt

CONSTANTS
    Symbols,
    MaxCalls,     \* bound: the calls made in a behaviour
    MaxSessions,  \* bound: the authenticated connections of a behaviour
    MaxReplies    \* bound: messages the server has under way

ASSUME SymbolsAssumption == IsFiniteSet(Symbols)
ASSUME BoundsAssumption == MaxCalls \in Nat /\ MaxSessions \in Nat

Kinds == {"spot", "depth", "bars"}
Topics == [kind : Kinds, symbol : Symbols]
SpotOf(t) == [kind |-> "spot", symbol |-> t.symbol]

(* Calls are numbered in the order they are made.  A request is told apart by *)
(* who made it: a call, or resubscribeAll.                                   *)
Calls == 1..MaxCalls
Resubscription == 0
Requests == [by : Calls \cup {Resubscription}, op : {"subscribe", "unsubscribe"},
             topics : (SUBSET Topics) \ {{}}]
Reply(r, ok) == [kind |-> "reply", request |-> r, ok |-> ok]
Event(t) == [kind |-> "event", topic |-> t]

VARIABLES
    tracked,    \* subscribedSymbolIds, subscribedDepthSymbolIds, subscribedTrendbars
    calls,      \* the calls made so far, and how far each has come
    up,         \* is there an authenticated connection?
    sessions,
    pending,    \* requests whose send() has not settled
    wire,       \* requests on their way to the server
    replies,    \* replies and events on their way back
    resumed,    \* requests answered by the chunk being handled, as replies
    server,     \* the topics subscribed on this connection
    unsure,     \* history: topics of requests that failed on this connection
    overtaken   \* history: topics an unsubscribe of which went ahead of resubscribeAll

vars == <<tracked, calls, up, sessions, pending, wire, replies, resumed, server,
          unsure, overtaken>>

NotMade == [step |-> "unmade"]
Steps == {"spots", "topic", "spotsSent", "topicSent"}
InProgress == [step : Steps, op : {"subscribe", "unsubscribe"}, topic : Topics,
               relies : BOOLEAN]   \* history: on tracked spots, no unsubscribe called since
Over == [step |-> "over"]

Replies == [kind : {"reply"}, request : Requests, ok : BOOLEAN]
              \cup [kind : {"event"}, topic : Topics]

TypeOK ==
    /\ tracked \subseteq Topics
    /\ calls \in [Calls -> {NotMade, Over} \cup InProgress]
    /\ up \in BOOLEAN /\ sessions \in 0..MaxSessions
    /\ pending \subseteq Requests
    /\ wire \in Seq(Requests) /\ replies \in Seq(Replies) /\ resumed \in Seq(Replies)
    /\ \A i \in DOMAIN resumed : resumed[i].kind = "reply"
    /\ server \subseteq Topics /\ unsure \subseteq Topics /\ overtaken \subseteq Topics
    /\ ~up => pending = {} /\ wire = <<>> /\ replies = <<>> /\ resumed = <<>>
             /\ server = {}

Init ==
    /\ tracked = {} /\ server = {} /\ unsure = {} /\ overtaken = {}
    /\ calls = [c \in Calls |-> NotMade]
    /\ up = FALSE /\ sessions = 0
    /\ pending = {} /\ wire = <<>> /\ replies = <<>> /\ resumed = <<>>

-----------------------------------------------------------------------------
(* The calls.                                                                *)

\* Nothing else runs while continuations are due.
EventLoopFree == resumed = <<>>

\* What a call sends first: subscribeLiveTrendbars looks at subscribedSymbolIds when it
\* is called, and takes the subscription of the spots on itself if it is not in there.
FirstStep(op, t) ==
    IF op = "subscribe" /\ t.kind = "bars" /\ SpotOf(t) \notin tracked
    THEN "spots" ELSE "topic"

\* d is a subscribeLiveTrendbars under way whose bars need t.
RidesOn(d, t) ==
    /\ calls[d].step \in Steps
    /\ calls[d].op = "subscribe" /\ calls[d].topic.kind = "bars"
    /\ t = SpotOf(calls[d].topic)

\* subscribe, unsubscribe, subscribeDepth, ...: up to the first send, which comes when
\* the symbol's name has been looked up and the client is authenticated.
Call(c, op, t) ==
    /\ calls[c] = NotMade /\ \A d \in 1..(c - 1) : calls[d] # NotMade
    /\ calls' = [d \in Calls |->
          IF d = c THEN [step |-> FirstStep(op, t), op |-> op, topic |-> t,
                         relies |-> FirstStep(op, t) = "topic"]
          ELSE IF op = "unsubscribe" /\ RidesOn(d, t)
          THEN [calls[d] EXCEPT !.relies = FALSE]
          ELSE calls[d]]
    /\ UNCHANGED <<tracked, up, sessions, pending, wire, replies, resumed, server, unsure,
                   overtaken>>

RequestOf(c) ==
    LET k == calls[c] IN
    [by |-> c, op |-> k.op,
     topics |-> {IF k.step \in {"spots", "spotsSent"} THEN SpotOf(k.topic) ELSE k.topic}]

\* The calls that have a request to send, or wait for the handshake with it.
Waiting == {c \in Calls : calls[c].step \in {"spots", "topic"}}

Sent(call) == [call EXCEPT !.step = IF @ = "spots" THEN "spotsSent" ELSE "topicSent"]

Send(c) ==
    /\ EventLoopFree
    /\ c \in Waiting /\ up
    /\ pending' = pending \cup {RequestOf(c)}
    /\ wire' = Append(wire, RequestOf(c))
    /\ calls' = [calls EXCEPT ![c] = Sent(calls[c])]
    /\ UNCHANGED <<tracked, up, sessions, replies, resumed, server, unsure,
                   overtaken>>

\* The name is unknown, or send() throws: nothing is connected, the handshake failed.
CallFails(c) ==
    /\ EventLoopFree
    /\ c \in Waiting
    /\ calls' = [calls EXCEPT ![c] = Over]
    /\ UNCHANGED <<tracked, up, sessions, pending, wire, replies, resumed, server, unsure,
                   overtaken>>

\* Mutant of Decides: a call counts as soon as it is answered, whatever the answer.
MutDecides(m, t) ==
    m.kind = "reply" /\ m.request.by # Resubscription /\ t \in m.request.topics

\* Does this message make the call it answers add t to the tracked topics or take it off?
\* Resubscriptions leave them alone.
Decides(m, t) ==
    m.kind = "reply" /\ m.ok /\ m.request.by # Resubscription /\ t \in m.request.topics

Adds(m) == m.request.op = "subscribe"

\* Is t among the topics once the calls answered by the first n messages have gone on?
TrackedAfter(topics, messages, n, t) ==
    IF \E i \in 1..n : Decides(messages[i], t)
    THEN \E i \in 1..n : /\ Decides(messages[i], t) /\ Adds(messages[i])
                         /\ \A j \in (i + 1)..n : ~Decides(messages[j], t)
    ELSE t \in topics

NowTracked(topics, messages) ==
    {t \in Topics : TrackedAfter(topics, messages, Len(messages), t)}

After(call, ok) ==
    IF ok /\ call.step = "spotsSent" THEN [call EXCEPT !.step = "topic"] ELSE Over

\* The calls, once the sends of the requests in rs have settled.
Settled(rs, ok) ==
    [c \in Calls |-> IF \E r \in rs : r.by = c THEN After(calls[c], ok) ELSE calls[c]]

TopicsOf(rs) == {t \in Topics : \E r \in rs : t \in r.topics}

-----------------------------------------------------------------------------
(* The connection.                                                           *)

\* Mutant of ResubscribeTopics: depth subscriptions are forgotten.
MutResubscribeTopics(kind) ==
    IF kind = "depth" THEN {} ELSE {t \in tracked : t.kind = kind}

ResubscribeTopics(kind) == {t \in tracked : t.kind = kind}

\* resubscribeSpots and resubscribeDepth: one request for all of the symbols.
Batch(kind) ==
    IF ResubscribeTopics(kind) = {} THEN <<>>
    ELSE <<[by |-> Resubscription, op |-> "subscribe", topics |-> ResubscribeTopics(kind)]>>

\* Mutant of EachOf: only the first symbol is asked for.
MutEachOf(order) ==
    IF order = <<>> THEN <<>>
    ELSE <<[by |-> Resubscription, op |-> "subscribe", topics |-> {order[1]}]>>

\* resubscribeTrendbars: a request per symbol.
EachOf(order) ==
    [i \in DOMAIN order |->
        [by |-> Resubscription, op |-> "subscribe", topics |-> {order[i]}]]

\* resubscribeAll
Resubscriptions(order) == Batch("spot") \o Batch("depth") \o EachOf(order)

\* The orders in which the bars may have come to be tracked, or calls to wait.
Orders(S) == Bijection(1..Cardinality(S), S)

\* The requests of the calls that wait for the handshake already, in the order they came.
RequestsOf(first) == [i \in DOMAIN first |-> RequestOf(first[i])]

\* 'authenticated' is emitted before the handshake's promise is settled, so the sends of
\* resubscribeAll wait for it too, behind those of the calls that did: ahead are some of
\* Waiting, the others are still looking up a name.
Authenticated ==
    /\ EventLoopFree
    /\ ~up /\ sessions < MaxSessions
    /\ up' = TRUE /\ sessions' = sessions + 1
    /\ \E ahead \in SUBSET Waiting :
        /\ \E first \in Orders(ahead), order \in Orders(ResubscribeTopics("bars")) :
              wire' = RequestsOf(first) \o Resubscriptions(order)
        /\ calls' = [c \in Calls |-> IF c \in ahead THEN Sent(calls[c]) ELSE calls[c]]
        /\ overtaken' = {t \in tracked : \E c \in ahead :
                              calls[c].op = "unsubscribe" /\ t \in RequestOf(c).topics}
    /\ pending' = ToSet(wire')
    /\ unsure' = {}
    /\ UNCHANGED <<tracked, replies, resumed, server>>

\* 'disconnected': the client rejects what is pending.
Disconnected ==
    /\ EventLoopFree
    /\ up
    /\ up' = FALSE
    /\ calls' = Settled(pending, FALSE)
    /\ pending' = {} /\ wire' = <<>> /\ replies' = <<>> /\ server' = {} /\ unsure' = {}
    /\ overtaken' = {}
    /\ UNCHANGED <<tracked, sessions, resumed>>

\* The send() of r has waited too long; a resubscription only emits 'error'.
TimesOut(r) ==
    /\ EventLoopFree
    /\ calls' = Settled({r}, FALSE)
    /\ pending' = pending \ {r}
    /\ unsure' = unsure \cup r.topics
    /\ UNCHANGED <<tracked, up, sessions, wire, replies, resumed, server, overtaken>>

\* The server takes the oldest request, or refuses it as a whole.
ServerAnswers(ok) ==
    /\ wire # <<>> /\ Len(replies) < MaxReplies
    /\ LET r == Head(wire) IN
        /\ server' = IF ~ok THEN server
                     ELSE IF r.op = "subscribe" THEN server \cup r.topics
                     ELSE server \ r.topics
        /\ replies' = Append(replies, Reply(r, ok))
    /\ wire' = Tail(wire)
    /\ UNCHANGED <<tracked, calls, up, sessions, pending, resumed, unsure, overtaken>>

\* A spot or depth event; bars ride on the spot events of their symbol.  The bound leaves
\* room for an answer, so that events do not keep the server from answering.
ServerPublishes(t) ==
    /\ t \in server /\ t.kind # "bars" /\ Len(replies) + 1 < MaxReplies
    /\ replies' = Append(replies, Event(t))
    /\ UNCHANGED <<tracked, calls, up, sessions, pending, wire, resumed, server, unsure,
                   overtaken>>

\* The next message of the chunk: handleMessage emits an event as it is; a reply settles
\* its send(), unless that is over.
Receive ==
    /\ replies # <<>>
    /\ replies' = Tail(replies)
    /\ LET m == Head(replies) IN
        IF m.kind = "reply" /\ m.request \in pending
        THEN /\ pending' = pending \ {m.request}
             /\ resumed' = Append(resumed, m)
        ELSE UNCHANGED <<pending, resumed>>
    /\ UNCHANGED <<tracked, calls, up, sessions, wire, server, unsure, overtaken>>

Answered(ok) == {a.request : a \in {b \in ToSet(resumed) : b.ok = ok}}

\* The chunk has been handled: the calls it answered go on; a resubscription that was
\* refused emits 'error'.
Resume ==
    /\ resumed # <<>>
    /\ resumed' = <<>>
    /\ tracked' = NowTracked(tracked, resumed)
    /\ calls' = [c \in Calls |->
                    IF \E r \in Answered(TRUE) : r.by = c THEN After(calls[c], TRUE)
                    ELSE IF \E r \in Answered(FALSE) : r.by = c THEN After(calls[c], FALSE)
                    ELSE calls[c]]
    /\ unsure' = unsure \cup TopicsOf({r \in Answered(FALSE) : r.by = Resubscription})
    /\ UNCHANGED <<up, sessions, pending, wire, replies, server, overtaken>>

Next ==
    \/ \E c \in Calls :
          \/ \E op \in {"subscribe", "unsubscribe"}, t \in Topics : Call(c, op, t)
          \/ Send(c)
          \/ CallFails(c)
    \/ Authenticated
    \/ Disconnected
    \/ \E r \in pending : TimesOut(r)
    \/ \E ok \in BOOLEAN : ServerAnswers(ok)
    \/ \E t \in Topics : ServerPublishes(t)
    \/ Receive
    \/ Resume

Spec == Init /\ [][Next]_vars

(* The server answers and the event loop delivers.                           *)
Fairness == WF_vars(\E ok \in BOOLEAN : ServerAnswers(ok)) /\ WF_vars(Receive)
            /\ WF_vars(Resume)

FairSpec == Spec /\ Fairness

-----------------------------------------------------------------------------
UnderWay(t) == \/ \E r \in pending : t \in r.topics
               \/ \E i \in DOMAIN resumed : t \in resumed[i].request.topics

(* What is tracked is what the server streams: once the requests on a topic   *)
(* have settled, both agree on it, however calls, reconnects and refusals     *)
(* interleaved; only a timeout or a resubscription that failed excuses it.    *)
(* One case is worse: unsubscribe() called during a handshake is sent ahead   *)
(* of resubscribeAll, whose request brings the topic back, so that the server *)
(* streams it on that connection although it is tracked no more.             *)
TrackedIsStreamed ==
    up => \A t \in Topics :
        ~UnderWay(t) /\ t \notin unsure =>
            /\ t \in tracked => t \in server
            /\ t \in server => t \in tracked \cup overtaken

(* No event is emitted for a topic nobody wants: at the moment an event is    *)
(* handed to handleMessage its topic is tracked, once the calls answered      *)
(* before it have gone on, or a request on it failed without an answer, or    *)
(* its unsubscribe was sent ahead of its resubscription.                      *)
NoStrayEvents ==
    replies # <<>> /\ Head(replies).kind = "event" =>
        LET t == Head(replies).topic
        IN  t \in NowTracked(tracked, resumed) \cup unsure \cup overtaken

(* How the requests under way lead from what is tracked to what the server     *)
(* streams: the parts that make the two properties above inductive.          *)

\* What the client will track once it has handled all that is on its way to it, and on the
\* way there, before message n + 1.
WillTrackAfter(n, t) == TrackedAfter(NowTracked(tracked, resumed), replies, n, t)
WillTrack(t) == WillTrackAfter(Len(replies), t)

IsReply(i) == replies[i].kind = "reply"
IsResubscription(r) == r.by = Resubscription

\* A resubscription of t that the server has not seen, or has refused.
ToResubscribe(t) == \E i \in DOMAIN wire : IsResubscription(wire[i]) /\ t \in wire[i].topics
Refused(m, t) ==
    m.kind = "reply" /\ ~m.ok /\ IsResubscription(m.request) /\ t \in m.request.topics
WasRefused(t) == \/ \E i \in DOMAIN replies : Refused(replies[i], t)
                 \/ \E i \in DOMAIN resumed : Refused(resumed[i], t)

\* A topic that is not unsure: what the client will track the server streams, except that
\* it has yet to be asked again, or has refused.  Unless it is overtaken, the server streams
\* nothing else, will be asked for nothing else, and an event is for what is tracked by then.
AgreesOn(t) ==
    /\ WillTrack(t) /\ t \notin server => ToResubscribe(t) \/ WasRefused(t)
    /\ t \notin overtaken =>
        /\ t \in server \/ ToResubscribe(t) => WillTrack(t)
        /\ \A i \in DOMAIN replies :
            replies[i].kind = "event" /\ replies[i].topic = t => WillTrackAfter(i - 1, t)

\* A request under way is pending, or its topics are unsure.
Expected(r) == r \in pending \/ r.topics \subseteq unsure
AllExpected ==
    /\ \A i \in DOMAIN wire : Expected(wire[i])
    /\ \A i \in DOMAIN replies : IsReply(i) => Expected(replies[i].request)

\* No request is under way twice.
NoneTwice ==
    /\ \A i, j \in DOMAIN wire : wire[i] = wire[j] => i = j
    /\ \A i, j \in DOMAIN replies :
        IsReply(i) /\ IsReply(j) /\ replies[i].request = replies[j].request => i = j
    /\ \A i \in DOMAIN wire, j \in DOMAIN replies :
        IsReply(j) => replies[j].request # wire[i]

\* Nor will a call send one a second time.
NotUnderWay(r) ==
    /\ \A i \in DOMAIN wire : wire[i] # r
    /\ \A i \in DOMAIN replies : IsReply(i) => replies[i].request # r

RequestAbout(c, t) == [by |-> c, op |-> calls[c].op, topics |-> {t}]
NoneAgain ==
    \A c \in Calls :
        /\ calls[c] = NotMade => \A r \in Requests : r.by = c => NotUnderWay(r)
        /\ calls[c].step \in {"spots", "spotsSent"} => calls[c].topic.kind = "bars"
        /\ calls[c].step \in {"spots", "spotsSent", "topic"} =>
                NotUnderWay(RequestAbout(c, calls[c].topic))
        /\ calls[c].step = "spots" => NotUnderWay(RequestAbout(c, SpotOf(calls[c].topic)))

\* Each topic is resubscribed once, and no unsubscribe of it is ahead of that unless the
\* topic is overtaken.
ResubscribedOnce ==
    /\ \A i, j \in DOMAIN wire :
        i < j /\ IsResubscription(wire[j]) /\ wire[i].op = "unsubscribe"
            => wire[i].topics \cap wire[j].topics \subseteq overtaken
    /\ \A i, j \in DOMAIN wire :
        IsResubscription(wire[i]) /\ IsResubscription(wire[j]) /\ i # j
            => wire[i].topics \cap wire[j].topics = {}
    /\ \A i \in DOMAIN wire : IsResubscription(wire[i]) => wire[i].op = "subscribe"

Agreement == up => \A t \in Topics : t \notin unsure => AgreesOn(t)

IInv == TypeOK /\ AllExpected /\ NoneTwice /\ NoneAgain /\ ResubscribedOnce /\ Agreement

(* Everything tracked is subscribed again on every authenticated connection,  *)
(* unless the failure was reported, the caller gave it up or the connection   *)
(* went away first.                                                          *)
Resubscribed ==
    \A t \in Topics :
        (up /\ t \in tracked) ~> (~up \/ t \notin tracked \/ t \in server \cup unsure)

(* What the comment of subscribeLiveTrendbars says: the spot subscription its *)
(* bars ride on is taken care of.  A call that asks for none, because it      *)
(* found the spots tracked, resolves with the spots tracked, unless an        *)
(* unsubscribe was called after it.                                          *)
BarsHaveTheirSpots ==
    [][\A c \in Calls :
        /\ calls[c].step = "topicSent" /\ Resume
        /\ RequestOf(c) \in Answered(TRUE)
        /\ calls[c].op = "subscribe" /\ calls[c].topic.kind = "bars"
        /\ calls[c].relies
        => SpotOf(calls[c].topic) \in tracked']_vars
=============================================================================
