--------------------------------- MODULE Api ---------------------------------
(***************************************************************************)
(* SpotwareTrading, SpotwareAccount, SpotwareHistory, SpotwareMarketData,     *)
(* SpotwareSymbolCatalog and SpotwareSocketAuthenticator at work: calls send  *)
(* requests, the broker answers, refuses or executes them and tells of what    *)
(* happens on the account, and the answers settle the calls while the         *)
(* listeners emit events.  What is sent and what is read are the operators of *)
(* ApiRequests and ApiAnswers, what the broker says those of ApiBroker;        *)
(* envelopes and payloads travel encoded.                                     *)
(*                                                                         *)
(* client.send() (module SpotwareClient) is seen from above: the request      *)
(* waits for the rate limiter (module Outbox) while its timeout already runs,  *)
(* and a drop rejects what is pending.  The messages of one chunk are handled  *)
(* one after the other before the calls they settle go on.  The handshakes    *)
(* here are those of a program that uses the authenticator by itself.         *)
(***************************************************************************)
EXTENDS ApiBroker, FiniteSets

CONSTANTS
    Calls,          \* the calls, named by their clientMsgId
    Menu(_),        \* bound: the methods that may be called beside others
    Inputs(_),      \* bound: the parameters a method is given
    Contents(_),    \* bound: the facts the broker may answer a method with
    Errors,         \* bound: the errors it may refuse with
    Events,         \* bound: the facts it tells besides, a sequence of them with types
    OrderOf,        \* the id of the order that a call places
    MaxMessages,    \* bound: messages on their way to the client
    MaxSessions     \* bound: authenticated connections

ASSUME CallsAssumption == "" \notin Calls
ASSUME OrderOfAssumption ==
    \A c \in Calls : OrderOf[c] # PendingOrder
                      /\ \A d \in Calls : OrderOf[c] = OrderOf[d] => c = d
ASSUME InputsAssumption ==
    /\ ctidTraderAccountId # 0
    /\ \A method \in Methods : \A p \in Inputs(method) : MayBeGiven(method, p)
ASSUME ContentsAssumption ==
    /\ \A method \in Methods \ Mutations :
        \A fact \in Contents(method) : MayAnswer(method, fact)
    /\ \A error \in Errors : MayRefuse(error)
    /\ \A i \in DOMAIN Events : MayTell(Events[i].payloadType, Events[i].fact)
ASSUME BoundsAssumption == MaxMessages \in Nat \ {0} /\ MaxSessions \in Nat \ {0}

VARIABLES
    calls,      \* how far each call has come
    online,     \* is there a connection that the client has authenticated?
    session,    \* its number
    throttled,  \* requests waiting for the rate limiter
    arrived,    \* requests the broker has not dealt with
    toClient,   \* messages on their way back
    orders,     \* the broker's orders, by id
    position,   \* and the account's position
    emitted,    \* history: what the last message made the listeners emit, what it meant
    executed,   \* history: calls whose request changed the account
    learnt,     \* history: calls whose execution was emitted
    missed      \* history: calls whose execution was told to nobody

vars == <<calls, online, session, throttled, arrived, toClient, orders, position,
          emitted, executed, learnt, missed>>
broker == <<arrived, orders, position, executed>>
history == <<executed, learnt, missed>>

Idle == [state |-> "idle"]
Quiet == [told |-> <<>>, meant |-> <<>>]

Init ==
    /\ calls = [c \in Calls |-> Idle]
    /\ online = TRUE /\ session = 1
    /\ throttled = {} /\ arrived = {} /\ toClient = <<>>
    /\ orders = Entry(PendingOrder, "working") /\ position = "open"
    /\ emitted = Quiet
    /\ executed = {} /\ learnt = {} /\ missed = {}

-----------------------------------------------------------------------------
(* Calls.                                                                     *)

\* No call that has been answered is still to go on.
EventLoopFree == \A c \in Calls : calls[c].state # "answered"

\* transport.send: the message that carries a request, or an answer.
Envelope(payloadType, payload, clientMsgId) ==
    Encode(ProtoMessage, FromPartial(ProtoMessage,
        [payloadType |-> payloadType, payload |-> payload, clientMsgId |-> clientMsgId]))

Over(call, result, meant) ==
    [state |-> "over", method |-> call.method, params |-> call.params,
     result |-> result, meant |-> meant]

TimedOut == [settled |-> "timedOut"]
Lost == [settled |-> "lost"]
OutOfRange == [settled |-> "outOfRange"]

\* The request of a call is handed to the transport, and its timer starts.
Send(c, method, params, request) ==
    /\ calls' = [calls EXCEPT ![c] =
                    [state |-> "pending", method |-> method, params |-> params]]
    /\ throttled' = throttled \cup
            {[wire |-> Envelope(request.payloadType, request.payload, c),
              session |-> session]}
    /\ emitted' = Quiet
    /\ UNCHANGED <<online, session, arrived, toClient, orders, position, history>>

MethodsCalled == {calls[c].method : c \in {d \in Calls : calls[d] # Idle}}

MayCall(c, method) ==
    EventLoopFree /\ online /\ calls[c] = Idle /\ method \in Menu(MethodsCalled)

Call(c, method, Builds(_)) ==
    MayCall(c, method) /\ \E p \in Inputs(method) : Send(c, method, p, Builds(p))

TradingCall(c) ==
    \/ Call(c, "placeMarketOrder", placeMarketOrder)
    \/ Call(c, "placeLimitOrder", placeLimitOrder)
    \/ Call(c, "placeStopOrder", placeStopOrder)
    \/ Call(c, "placeStopLimitOrder", placeStopLimitOrder)
    \/ Call(c, "placeMarketRangeOrder", placeMarketRangeOrder)
    \/ Call(c, "amendOrder", amendOrder)
    \/ Call(c, "amendPositionStopLossTakeProfit", amendPositionStopLossTakeProfit)
    \/ Call(c, "cancelOrder", cancelOrder)
    \/ Call(c, "closePosition", closePosition)
    \/ Call(c, "getOpenPositionsAndOrders", getOpenPositionsAndOrders)

AccountCall(c) ==
    \/ Call(c, "getTrader", getTrader)
    \/ Call(c, "getBalance", getTrader)
    \/ Call(c, "getAssets", getAssets)
    \/ Call(c, "getExpectedMargin", getExpectedMargin)
    \/ Call(c, "getPositionsUnrealizedPnL", getPositionsUnrealizedPnL)
    \/ Call(c, "getMarginCalls", getMarginCalls)

CallCashFlow(c) ==
    /\ MayCall(c, "getCashFlow")
    /\ \E p \in Inputs("getCashFlow") :
        WithinCashFlowRange(p) /\ Send(c, "getCashFlow", p, getCashFlow(p))

\* The RangeError of getCashFlow: nothing is sent.
CashFlowOutOfRange(c) ==
    /\ MayCall(c, "getCashFlow")
    /\ \E p \in Inputs("getCashFlow") :
        /\ ~WithinCashFlowRange(p)
        /\ calls' = [calls EXCEPT ![c] =
                Over([method |-> "getCashFlow", params |-> p], OutOfRange, OutOfRange)]
    /\ emitted' = Quiet
    /\ UNCHANGED <<online, session, throttled, toClient, broker, learnt, missed>>

HistoryCall(c) ==
    \/ Call(c, "getDeals", getDeals)
    \/ Call(c, "getDealsByPositionId", getDealsByPositionId)
    \/ Call(c, "getOrders", getOrders)
    \/ CallCashFlow(c)
    \/ CashFlowOutOfRange(c)

MarketDataCall(c) ==
    \/ Call(c, "getTrendbars", getTrendbars)
    \/ Call(c, "getTickData", getTickData)
    \/ Call(c, "subscribe", subscribe)
    \/ Call(c, "unsubscribe", unsubscribe)
    \/ Call(c, "subscribeDepth", subscribeDepth)
    \/ Call(c, "unsubscribeDepth", unsubscribeDepth)
    \/ Call(c, "subscribeLiveTrendbars", subscribeLiveTrendbars)
    \/ Call(c, "unsubscribeLiveTrendbars", unsubscribeLiveTrendbars)
    \/ Call(c, "fetchSymbols", fetchSymbols)
    \/ Call(c, "fetchFullSymbol", fetchFullSymbol)

HandshakeCall(c) ==
    \/ Call(c, "authenticateApplication", authenticateApplication)
    \/ Call(c, "authenticateAccount", authenticateAccount)
    \/ Call(c, "listAccounts", listAccounts)

\* The timer of a pending request; it has run since the call, throttled or not.
TimesOut(c) ==
    /\ EventLoopFree /\ calls[c].state = "pending"
    /\ calls' = [calls EXCEPT ![c] = Over(@, TimedOut, TimedOut)]
    /\ emitted' = Quiet
    /\ UNCHANGED <<online, session, throttled, toClient, broker, learnt, missed>>

-----------------------------------------------------------------------------
(* The connection.                                                            *)

\* The rate limiters let a request through; there are two, so not always in order.
Leave(r) ==
    /\ EventLoopFree
    /\ throttled' = throttled \ {r}
    /\ arrived' = arrived \cup {r}
    /\ emitted' = Quiet
    /\ UNCHANGED <<calls, online, session, toClient, orders, position, history>>

\* What is pending is rejected, except by the authenticator.
CutOff(call) ==
    IF call.state = "pending" /\ call.method \notin HandshakeMethods
    THEN Over(call, Lost, Lost) ELSE call

\* The executions that messages on their way tell of.
Untold == {toClient[i].cause : i \in DOMAIN toClient} \ {""}

\* Mutant of Disconnected: what is throttled is kept for the next connection.
MutDisconnected ==
    /\ EventLoopFree /\ online
    /\ online' = FALSE
    /\ calls' = [c \in Calls |-> CutOff(calls[c])]
    /\ toClient' = <<>>
    /\ missed' = missed \cup Untold
    /\ emitted' = Quiet
    /\ UNCHANGED <<session, throttled, broker, learnt>>

\* 'disconnected': what is throttled is dropped and what is on its way to the client is
\* lost.  What has arrived may still be executed.
Disconnected ==
    /\ EventLoopFree /\ online
    /\ online' = FALSE
    /\ calls' = [c \in Calls |-> CutOff(calls[c])]
    /\ throttled' = {} /\ toClient' = <<>>
    /\ missed' = missed \cup Untold
    /\ emitted' = Quiet
    /\ UNCHANGED <<session, broker, learnt>>

Authenticated ==
    /\ EventLoopFree /\ ~online /\ session < MaxSessions
    /\ online' = TRUE /\ session' = session + 1
    /\ emitted' = Quiet
    /\ UNCHANGED <<calls, throttled, toClient, broker, learnt, missed>>

\* The payload types a handshake waits for.
ExpectedBy(method) ==
    CASE method = "authenticateApplication" -> ProtoOAPayloadType.PROTO_OA_APPLICATION_AUTH_RES
      [] method = "authenticateAccount" -> ProtoOAPayloadType.PROTO_OA_ACCOUNT_AUTH_RES
      [] method = "listAccounts" ->
            ProtoOAPayloadType.PROTO_OA_GET_ACCOUNTS_BY_ACCESS_TOKEN_RES

\* onMessage of the authenticator, for the handshake of c.
HandshakeTakes(c, message) ==
    /\ message.clientMsgId \in {"", c}
    /\ \/ message.payloadType = ExpectedBy(calls[c].method)
       \/ message.payloadType \in DOMAIN HandshakeErrorSchemas

\* Is this message the answer to c?  handleMessage of the client, onMessage of the
\* authenticator.
Answers(c, message) ==
    /\ calls[c].state = "pending"
    /\ IF calls[c].method \in HandshakeMethods THEN HandshakeTakes(c, message)
       ELSE message.clientMsgId = c

\* Mutant of HandleMessage: a message for a call that is over is dropped unseen.
MutHandleMessage(message) ==
    IF message.clientMsgId = "" \/ \E c \in Calls : Answers(c, message)
    THEN Emits(message.payloadType, message.payload) ELSE <<>>

\* 'message' is emitted first, to the listeners of trading, account and market data.
HandleMessage(message) == Emits(message.payloadType, message.payload)

\* The next message of the chunk.
Receive ==
    /\ toClient # <<>>
    /\ toClient' = Tail(toClient)
    /\ LET m == Head(toClient)
           message == Decode(ProtoMessage, m.wire)
           told == HandleMessage(message)
       IN  /\ emitted' = [told |-> told, meant |-> m.events]
           /\ learnt' = IF told # <<>> THEN learnt \cup ({m.cause} \ {""}) ELSE learnt
           /\ calls' = [c \in Calls |->
                           IF Answers(c, message)
                           THEN [state |-> "answered", method |-> calls[c].method,
                                 params |-> calls[c].params, message |-> message,
                                 meant |-> m.result]
                           ELSE calls[c]]
    /\ UNCHANGED <<online, session, throttled, broker, missed>>

Read(method, params, payload) ==
    CASE method \in Mutations -> ReadExecution(payload)
      [] method = "getOpenPositionsAndOrders" -> ReadOpenPositionsAndOrders(payload)
      [] method = "getTrader" -> ReadTrader(payload)
      [] method = "getBalance" -> ReadBalance(payload)
      [] method = "getAssets" -> ReadAssets(payload)
      [] method = "getExpectedMargin" -> ReadExpectedMargin(payload)
      [] method = "getPositionsUnrealizedPnL" -> ReadPositionsUnrealizedPnL(payload)
      [] method = "getMarginCalls" -> ReadMarginCalls(payload)
      [] method = "getDeals" -> ReadDeals(ProtoOADealListRes, payload)
      [] method = "getDealsByPositionId" -> ReadDeals(ProtoOADealListByPositionIdRes, payload)
      [] method = "getOrders" -> ReadOrders(payload)
      [] method = "getCashFlow" -> ReadCashFlow(payload)
      [] method = "getTrendbars" -> ReadTrendbars(payload)
      [] method = "getTickData" -> ReadTickData(payload)
      [] method = "fetchSymbols" -> ReadSymbols(payload)
      [] method = "fetchFullSymbol" -> ReadFullSymbol(params.symbolId, payload)
      [] method = "listAccounts" -> ReadAccounts(payload)
      [] OTHER -> ReadNothing

SchemasOfErrors(method) ==
    IF method \in HandshakeMethods THEN HandshakeErrorSchemas ELSE ErrorSchemas

ResultOf(call) ==
    LET type == call.message.payloadType
        errors == SchemasOfErrors(call.method)
    IN  IF type \in DOMAIN errors THEN ReadError(errors[type], call.message.payload)
        ELSE Read(call.method, call.params, call.message.payload)

\* The chunk has been handled: the calls it answered go on, and settle.
Resume ==
    /\ ~EventLoopFree
    /\ calls' = [c \in Calls |->
                    IF calls[c].state = "answered"
                    THEN Over(calls[c], ResultOf(calls[c]), calls[c].meant) ELSE calls[c]]
    /\ emitted' = Quiet
    /\ UNCHANGED <<online, session, throttled, toClient, broker, learnt, missed>>

-----------------------------------------------------------------------------
(* The broker, external: it reads requests and answers them once.  What it    *)
(* tells goes to the connection of the request, or to nobody.                *)

\* The request as the broker reads it: which call sent it, and what it asks.
ReadRequest(r) == Decode(ProtoMessage, r.wire)
CallOf(r) == ReadRequest(r).clientMsgId

\* A message to the client: what it carries and, as history, the call whose execution it
\* tells of, what it means to the call it answers and to the listeners.
MessageOf(payloadType, payload, clientMsgId, cause, result, events) ==
    [wire |-> Envelope(payloadType, payload, clientMsgId), cause |-> cause,
     result |-> result, events |-> events]

Room == Len(toClient) < MaxMessages

Answerable(r) == online /\ r.session = session

\* The answer to a request.
Tell(r, payloadType, payload, result, events) ==
    /\ toClient' = IF Answerable(r)
                   THEN Append(toClient, MessageOf(payloadType, payload, CallOf(r), "",
                                                   result, events))
                   ELSE toClient
    /\ arrived' = arrived \ {r}
    /\ emitted' = Quiet
    /\ UNCHANGED <<calls, online, session, throttled, orders, position, history>>

\* A request that only asks is answered.
BrokerAnswers(r) ==
    LET call == calls[CallOf(r)] IN
    /\ call.method \notin Mutations /\ Room
    /\ \E fact \in Contents(call.method) :
        Tell(r, AnswerTypes[call.method], AnswerPayload(call.method, fact),
             AnswerMeans(call.method, call.params, fact), <<>>)

\* Any request may be refused.
BrokerRefuses(r) ==
    LET schemas == BrokerErrorSchemas(calls[CallOf(r)].method) IN
    /\ Room
    /\ \E type \in DOMAIN schemas, error \in Errors :
        Tell(r, type, ErrorPayload(schemas[type], error), RefusalMeans(error),
             RefusalTells(type, error))

Execution(event, clientMsgId, cause) ==
    LET meaning == Complete(ProtoOAExecutionEvent, event)
    IN  MessageOf(ProtoOAPayloadType.PROTO_OA_EXECUTION_EVENT,
                  BrokerEncode(ProtoOAExecutionEvent, event), clientMsgId, cause,
                  Resolves(meaning), <<Emission("execution", <<meaning>>)>>)

\* A refusal may also come as an execution event, which answers the call like any other.
Refusals == {ProtoOAExecutionType.ORDER_REJECTED, ProtoOAExecutionType.ORDER_CANCEL_REJECTED}

BrokerRejectsByEvent(r) ==
    LET c == CallOf(r)
        call == calls[c]
        event ==
            IF call.method = "cancelOrder"
            THEN AboutOrder(ProtoOAExecutionType.ORDER_CANCEL_REJECTED, call.params.orderId,
                            ProtoOAOrderStatus.ORDER_STATUS_FILLED)
            ELSE AboutOrder(ProtoOAExecutionType.ORDER_REJECTED, OrderOf[c],
                            ProtoOAOrderStatus.ORDER_STATUS_REJECTED)
    IN  /\ call.method \in Placements \cup {"cancelOrder"} /\ Room
        /\ toClient' = IF Answerable(r) THEN Append(toClient, Execution(event, c, ""))
                       ELSE toClient
        /\ arrived' = arrived \ {r}
        /\ emitted' = Quiet
        /\ UNCHANGED <<calls, online, session, throttled, orders, position, history>>

IsWorking(o) == o \in DOMAIN orders /\ orders[o] = "working"

\* The request of c changes the account, and event tells of it: to the call if its
\* connection is still there, to whoever is connected otherwise, or to nobody.
Executes(r, event) ==
    LET c == CallOf(r) IN
    /\ executed' = executed \cup {c}
    /\ IF online
       THEN /\ toClient' = Append(toClient,
                               Execution(event, IF Answerable(r) THEN c ELSE "", c))
            /\ UNCHANGED missed
       ELSE missed' = missed \cup {c} /\ UNCHANGED toClient
    /\ arrived' = arrived \ {r}
    /\ emitted' = Quiet
    /\ UNCHANGED <<calls, online, session, throttled, learnt>>

BrokerOpens(r) ==
    LET c == CallOf(r) IN
    /\ calls[c].method \in Placements /\ Room
    /\ orders' = Entry(OrderOf[c], "working") ++ orders
    /\ Executes(r, AboutOrder(ProtoOAExecutionType.ORDER_ACCEPTED, OrderOf[c],
                              ProtoOAOrderStatus.ORDER_STATUS_ACCEPTED))
    /\ UNCHANGED position

BrokerAmends(r) ==
    LET call == calls[CallOf(r)] IN
    /\ call.method = "amendOrder" /\ IsWorking(call.params.orderId) /\ Room
    /\ Executes(r, AboutOrder(ProtoOAExecutionType.ORDER_REPLACED, call.params.orderId,
                              ProtoOAOrderStatus.ORDER_STATUS_ACCEPTED))
    /\ UNCHANGED <<orders, position>>

BrokerCancels(r) ==
    LET call == calls[CallOf(r)] IN
    /\ call.method = "cancelOrder" /\ IsWorking(call.params.orderId) /\ Room
    /\ orders' = [orders EXCEPT ![call.params.orderId] = "cancelled"]
    /\ Executes(r, AboutOrder(ProtoOAExecutionType.ORDER_CANCELLED, call.params.orderId,
                              ProtoOAOrderStatus.ORDER_STATUS_CANCELLED))
    /\ UNCHANGED position

BrokerMovesStops(r) ==
    /\ calls[CallOf(r)].method = "amendPositionStopLossTakeProfit"
    /\ calls[CallOf(r)].params.positionId = Position /\ position = "open" /\ Room
    /\ Executes(r, AboutPosition(ProtoOAExecutionType.ORDER_REPLACED,
                                 ProtoOAPositionStatus.POSITION_STATUS_OPEN))
    /\ UNCHANGED <<orders, position>>

BrokerCloses(r) ==
    /\ calls[CallOf(r)].method = "closePosition"
    /\ calls[CallOf(r)].params.positionId = Position /\ position = "open" /\ Room
    /\ position' = "closed"
    /\ Executes(r, AboutPosition(ProtoOAExecutionType.ORDER_FILLED,
                                 ProtoOAPositionStatus.POSITION_STATUS_CLOSED))
    /\ UNCHANGED orders

\* A working order fills, which nobody asks for; the connection that placed it may be told
\* under the id of the request.
BrokerFills(o) ==
    LET event == AboutOrder(ProtoOAExecutionType.ORDER_FILLED, o,
                            ProtoOAOrderStatus.ORDER_STATUS_FILLED)
    IN  /\ IsWorking(o) /\ Room
        /\ orders' = [orders EXCEPT ![o] = "filled"]
        /\ \E id \in {""} \cup {c \in Calls : OrderOf[c] = o} :
            toClient' = IF online THEN Append(toClient, Execution(event, id, ""))
                        ELSE toClient
        /\ emitted' = Quiet
        /\ UNCHANGED <<calls, online, session, throttled, arrived, position, history>>

\* What the broker tells of its own accord, besides executions.
BrokerPublishes(e) ==
    /\ online /\ toClient = <<>>
    /\ MethodsCalled = {}   \* bound: before the first call
    /\ toClient' = <<MessageOf(e.payloadType, EventPayload(e.payloadType, e.fact), "", "",
                               Undefined, EventMeans(e.payloadType, e.fact))>>
    /\ emitted' = Quiet
    /\ UNCHANGED <<calls, online, session, throttled, broker, learnt, missed>>

BrokerHandles(r) ==
    \/ BrokerAnswers(r) \/ BrokerRefuses(r) \/ BrokerRejectsByEvent(r)
    \/ BrokerOpens(r) \/ BrokerAmends(r) \/ BrokerCancels(r)
    \/ BrokerMovesStops(r) \/ BrokerCloses(r)

Next ==
    \/ \E c \in Calls : TradingCall(c) \/ AccountCall(c) \/ HistoryCall(c)
                            \/ MarketDataCall(c) \/ HandshakeCall(c) \/ TimesOut(c)
    \/ \E r \in throttled : Leave(r)
    \/ Disconnected \/ Authenticated \/ Receive \/ Resume
    \/ \E r \in arrived : BrokerHandles(r)
    \/ \E o \in DOMAIN orders : BrokerFills(o)
    \/ \E i \in DOMAIN Events : BrokerPublishes(Events[i])

Spec == Init /\ [][Next]_vars

\* The event loop handles what the socket delivers: Receive, or the connection ends.
Delivers == toClient # <<>> /\ toClient' = Tail(toClient)
FairSpec == Spec /\ WF_toClient(Delivers)

-----------------------------------------------------------------------------
(* Properties.                                                                *)

Requests == throttled \cup arrived

\* Nothing waits to be sent or read while there is no connection (dispose() of the rate
\* limiters, a socket that is gone), a call has one request at most, and what was executed
\* is at most learnt or missed, and either only if it was executed.
TypeOK ==
    /\ online \in BOOLEAN /\ session \in 1..MaxSessions /\ position \in {"open", "closed"}
    /\ \A c \in Calls : calls[c].state \in {"idle", "pending", "answered", "over"}
    /\ Len(toClient) <= MaxMessages
    /\ ~online => throttled = {} /\ toClient = <<>>
    /\ \A r \in throttled : r.session = session
    /\ \A q, r \in Requests : CallOf(q) = CallOf(r) => q = r
    /\ learnt \cup missed \subseteq executed

RequestSchema(payloadType) ==
    CASE payloadType = 2100 -> ProtoOAApplicationAuthReq
      [] payloadType = 2102 -> ProtoOAAccountAuthReq
      [] payloadType = 2106 -> ProtoOANewOrderReq
      [] payloadType = 2108 -> ProtoOACancelOrderReq
      [] payloadType = 2109 -> ProtoOAAmendOrderReq
      [] payloadType = 2110 -> ProtoOAAmendPositionSLTPReq
      [] payloadType = 2111 -> ProtoOAClosePositionReq
      [] payloadType = 2112 -> ProtoOAAssetListReq
      [] payloadType = 2114 -> ProtoOASymbolsListReq
      [] payloadType = 2116 -> ProtoOASymbolByIdReq
      [] payloadType = 2121 -> ProtoOATraderReq
      [] payloadType = 2124 -> ProtoOAReconcileReq
      [] payloadType = 2127 -> ProtoOASubscribeSpotsReq
      [] payloadType = 2129 -> ProtoOAUnsubscribeSpotsReq
      [] payloadType = 2133 -> ProtoOADealListReq
      [] payloadType = 2135 -> ProtoOASubscribeLiveTrendbarReq
      [] payloadType = 2136 -> ProtoOAUnsubscribeLiveTrendbarReq
      [] payloadType = 2137 -> ProtoOAGetTrendbarsReq
      [] payloadType = 2139 -> ProtoOAExpectedMarginReq
      [] payloadType = 2143 -> ProtoOACashFlowHistoryListReq
      [] payloadType = 2145 -> ProtoOAGetTickDataReq
      [] payloadType = 2149 -> ProtoOAGetAccountListByAccessTokenReq
      [] payloadType = 2156 -> ProtoOASubscribeDepthQuotesReq
      [] payloadType = 2158 -> ProtoOAUnsubscribeDepthQuotesReq
      [] payloadType = 2167 -> ProtoOAMarginCallListReq
      [] payloadType = 2175 -> ProtoOAOrderListReq
      [] payloadType = 2179 -> ProtoOADealListByPositionIdReq
      [] payloadType = 2187 -> ProtoOAGetPositionUnrealizedPnLReq

OrderTypes ==
    [placeMarketOrder |-> ProtoOAOrderType.MARKET, placeLimitOrder |-> ProtoOAOrderType.LIMIT,
     placeStopOrder |-> ProtoOAOrderType.STOP,
     placeStopLimitOrder |-> ProtoOAOrderType.STOP_LIMIT,
     placeMarketRangeOrder |-> ProtoOAOrderType.MARKET_RANGE]

\* What a call asks of the broker, field by field: for this account, the volumes in cents.
Asked(call, f) ==
    LET p == call.params IN
    CASE f = "ctidTraderAccountId" -> ctidTraderAccountId
      [] f = "orderType" -> OrderTypes[call.method]
      [] f = "volume" -> IF "volumes" \in DOMAIN p
                         THEN [i \in DOMAIN p.volumes |-> 100 * p.volumes[i]]
                         ELSE 100 * p.volume
      [] f = "symbolId" -> IF call.method = "fetchFullSymbol" THEN <<p.symbolId>>
                           ELSE p.symbolId
      [] OTHER -> p[f]

IsAsked(call, schema, f) ==
    \/ f \in DOMAIN call.params \cup ({"ctidTraderAccountId"} \cap DOMAIN schema)
    \/ f = "orderType" /\ call.method \in Placements
    \/ f = "volume" /\ "volumes" \in DOMAIN call.params

\* The broker, which takes "required" at its word, can read every request: all required
\* fields are there, once (proto-required-field.ts adds those the generated encoder drops),
\* and every parameter of the call arrives as it was meant, whatever waits and times out
\* in between.
RequestsArriveAsAsked ==
    \A r \in Requests :
        LET message == ReadRequest(r)
            call == calls[message.clientMsgId]
            schema == RequestSchema(message.payloadType)
            decoded == Decode(schema, message.payload)
        IN  /\ DOMAIN call.params \subseteq DOMAIN schema \cup {"volumes"}
            /\ \A f \in DOMAIN schema :
                LET values == ValuesAt(message.payload, schema[f].tag) IN
                /\ schema[f].kind = "scalar" => Len(values) <= 1
                /\ schema[f].required => Len(values) = 1
                /\ decoded[f] = IF IsAsked(call, schema, f) THEN Asked(call, f)
                                ELSE schema[f].default

SaysWhatIsMeant(result, meant) ==
    /\ result.settled = meant.settled
    /\ result.settled = "resolved" => result.value = meant.value
    /\ result.settled = "rejected" =>
        /\ result.code = meant.code
        /\ meant.message # Undefined => result.message = meant.message

\* Prices, money, bars, ticks and errors mean to the caller what they mean to the broker,
\* and so do the events; each call gets the answer to its own request (handleMessage of the
\* client and of the three facades, the conversions, the decoders of src/src/types).
AnswersReadAsMeant ==
    /\ \A c \in Calls :
        calls[c].state = "over" => SaysWhatIsMeant(calls[c].result, calls[c].meant)
    /\ emitted.told = emitted.meant

Settled(c, how) == calls[c].state = "over" /\ calls[c].result.settled = how
Mutates(c) == calls[c].state = "over" /\ calls[c].method \in Mutations
EventOf(c) == calls[c].result.value

\* What an execution event is about is what the call was for.
IsAboutOwn(c) ==
    IF calls[c].method \in Placements \cup {"amendOrder", "cancelOrder"}
    THEN /\ EventOf(c).order # Undefined
         /\ EventOf(c).order.orderId = IF calls[c].method \in Placements THEN OrderOf[c]
                                       ELSE calls[c].params.orderId
    ELSE /\ EventOf(c).position # Undefined
         /\ EventOf(c).position.positionId = calls[c].params.positionId

\* The comment at spotware-client.ts:238: the outcome of an order mutation arrives as an
\* execution event or an order error, and a rejected order must not resolve as if it
\* succeeded.  A call that resolves got the event of its own order; by then the account has
\* changed, unless the event says it has not, and the listeners have been told.  A call that
\* was rejected with an error changed nothing; one that timed out or was cut off may have.
OutcomeIsTold ==
    \A c \in Calls : Mutates(c) =>
        /\ Settled(c, "resolved") =>
            /\ IsAboutOwn(c)
            /\ c \in executed <=> EventOf(c).executionType \notin Refusals
            /\ c \in executed => c \in learnt
        /\ Settled(c, "rejected") => c \notin executed

\* Whatever became of its promise, the execution of a call is emitted, unless the connection
\* that would have told of it ended (spotware-trading.ts:112: a listener sees the account's
\* complete order lifecycle).
ExecutedIsLearnt == \A c \in Calls : c \in executed ~> c \in learnt \cup missed

\* README.md:750: "The resolved value tells you the request was accepted."
ResolvedWasAccepted ==
    \A c \in Calls : Mutates(c) /\ Settled(c, "resolved") => c \in executed
=============================================================================
