------------------------------ MODULE ApiBroker ------------------------------
(***************************************************************************)
(* What the broker says, external: the answers, errors and events a client    *)
(* may get, how they are put on the wire, and what they mean in absolute       *)
(* prices, times and decimals.  A fact is what the broker has to tell, field   *)
(* by field; the fields that it leaves out have their defaults.                *)
(***************************************************************************)
EXTENDS ApiAnswers

-----------------------------------------------------------------------------
(* The methods.                                                               *)

Placements == {"placeMarketOrder", "placeLimitOrder", "placeStopOrder",
               "placeStopLimitOrder", "placeMarketRangeOrder"}
Mutations == Placements \cup {"amendOrder", "amendPositionStopLossTakeProfit",
                              "cancelOrder", "closePosition"}
HandshakeMethods == {"authenticateApplication", "authenticateAccount", "listAccounts"}

Methods ==
    Mutations \cup HandshakeMethods
        \cup {"getOpenPositionsAndOrders", "getTrader", "getBalance", "getAssets",
              "getExpectedMargin", "getPositionsUnrealizedPnL", "getMarginCalls", "getDeals",
              "getDealsByPositionId", "getOrders", "getCashFlow", "getTrendbars",
              "getTickData", "subscribe", "unsubscribe", "subscribeDepth",
              "unsubscribeDepth", "subscribeLiveTrendbars", "unsubscribeLiveTrendbars",
              "fetchSymbols", "fetchFullSymbol"}

-----------------------------------------------------------------------------
(* On the wire.                                                               *)

\* A proto2 library writes the fields that were set, at their default or not.
BrokerField(field, v, Nested(_, _)) ==
    CASE field.kind = "scalar" -> <<v>>
      [] field.kind = "scalars" -> v
      [] field.kind = "message" -> <<Nested(field.of, v)>>
      [] field.kind = "messages" -> [i \in DOMAIN v |-> Nested(field.of, v[i])]

BrokerEncodeWith(schema, given, Nested(_, _)) ==
    [tag \in {schema[f].tag : f \in DOMAIN given} |->
        LET f == FieldOf(schema, tag) IN BrokerField(schema[f], given[f], Nested)]

BrokerEncodeInner(schema, given) == BrokerEncodeWith(schema, given, NoDeeper)
BrokerEncodeMiddle(schema, given) == BrokerEncodeWith(schema, given, BrokerEncodeInner)
BrokerEncode(schema, given) == BrokerEncodeWith(schema, given, BrokerEncodeMiddle)

\* What the fields that were set mean: the message with the defaults of the others.
CompleteField(field, v, Nested(_, _)) ==
    CASE field.kind = "message" -> Nested(field.of, v)
      [] field.kind = "messages" -> [i \in DOMAIN v |-> Nested(field.of, v[i])]
      [] OTHER -> v

CompleteWith(schema, given, Nested(_, _)) ==
    [f \in DOMAIN schema |->
        IF f \in DOMAIN given THEN CompleteField(schema[f], given[f], Nested)
        ELSE schema[f].default]

CompleteInner(schema, given) == CompleteWith(schema, given, NoDeeper)
CompleteMiddle(schema, given) == CompleteWith(schema, given, CompleteInner)
Complete(schema, given) == CompleteWith(schema, given, CompleteMiddle)

-----------------------------------------------------------------------------
(* Answers.                                                                   *)

\* Of some answers only the type is looked at.
Acknowledgement == [ctidTraderAccountId |-> Required(16, 0)]

AnswerSchema(method) ==
    CASE method = "getOpenPositionsAndOrders" -> ProtoOAReconcileRes
      [] method \in {"getTrader", "getBalance"} -> ProtoOATraderRes
      [] method = "getAssets" -> ProtoOAAssetListRes
      [] method = "getExpectedMargin" -> ProtoOAExpectedMarginRes
      [] method = "getPositionsUnrealizedPnL" -> ProtoOAGetPositionUnrealizedPnLRes
      [] method = "getMarginCalls" -> ProtoOAMarginCallListRes
      [] method = "getDeals" -> ProtoOADealListRes
      [] method = "getDealsByPositionId" -> ProtoOADealListByPositionIdRes
      [] method = "getOrders" -> ProtoOAOrderListRes
      [] method = "getCashFlow" -> ProtoOACashFlowHistoryListRes
      [] method = "getTrendbars" -> ProtoOAGetTrendbarsRes
      [] method = "getTickData" -> ProtoOAGetTickDataRes
      [] method = "fetchSymbols" -> ProtoOASymbolsListRes
      [] method = "fetchFullSymbol" -> ProtoOASymbolByIdRes
      [] method = "listAccounts" -> ProtoOAGetAccountListByAccessTokenRes
      [] OTHER -> Acknowledgement

AnswerTypes ==
    [getOpenPositionsAndOrders |-> ProtoOAPayloadType.PROTO_OA_RECONCILE_RES,
     getTrader |-> ProtoOAPayloadType.PROTO_OA_TRADER_RES,
     getBalance |-> ProtoOAPayloadType.PROTO_OA_TRADER_RES,
     getAssets |-> ProtoOAPayloadType.PROTO_OA_ASSET_LIST_RES,
     getExpectedMargin |-> ProtoOAPayloadType.PROTO_OA_EXPECTED_MARGIN_RES,
     getPositionsUnrealizedPnL |->
        ProtoOAPayloadType.PROTO_OA_GET_POSITION_UNREALIZED_PNL_RES,
     getMarginCalls |-> ProtoOAPayloadType.PROTO_OA_MARGIN_CALL_LIST_RES,
     getDeals |-> ProtoOAPayloadType.PROTO_OA_DEAL_LIST_RES,
     getDealsByPositionId |-> ProtoOAPayloadType.PROTO_OA_DEAL_LIST_BY_POSITION_ID_RES,
     getOrders |-> ProtoOAPayloadType.PROTO_OA_ORDER_LIST_RES,
     getCashFlow |-> ProtoOAPayloadType.PROTO_OA_CASH_FLOW_HISTORY_LIST_RES,
     getTrendbars |-> ProtoOAPayloadType.PROTO_OA_GET_TRENDBARS_RES,
     getTickData |-> ProtoOAPayloadType.PROTO_OA_GET_TICKDATA_RES,
     subscribe |-> ProtoOAPayloadType.PROTO_OA_SUBSCRIBE_SPOTS_RES,
     unsubscribe |-> ProtoOAPayloadType.PROTO_OA_UNSUBSCRIBE_SPOTS_RES,
     subscribeDepth |-> ProtoOAPayloadType.PROTO_OA_SUBSCRIBE_DEPTH_QUOTES_RES,
     unsubscribeDepth |-> ProtoOAPayloadType.PROTO_OA_UNSUBSCRIBE_DEPTH_QUOTES_RES,
     subscribeLiveTrendbars |-> ProtoOAPayloadType.PROTO_OA_SUBSCRIBE_LIVE_TRENDBAR_RES,
     unsubscribeLiveTrendbars |->
        ProtoOAPayloadType.PROTO_OA_UNSUBSCRIBE_LIVE_TRENDBAR_RES,
     fetchSymbols |-> ProtoOAPayloadType.PROTO_OA_SYMBOLS_LIST_RES,
     fetchFullSymbol |-> ProtoOAPayloadType.PROTO_OA_SYMBOL_BY_ID_RES,
     authenticateApplication |-> ProtoOAPayloadType.PROTO_OA_APPLICATION_AUTH_RES,
     authenticateAccount |-> ProtoOAPayloadType.PROTO_OA_ACCOUNT_AUTH_RES,
     listAccounts |-> ProtoOAPayloadType.PROTO_OA_GET_ACCOUNTS_BY_ACCESS_TOKEN_RES]

\* A bar travels as its low and what lies above it; a difference of 0 is left out.
BarOnWire(bar) ==
    LET above == [deltaOpen |-> bar.open - bar.low, deltaHigh |-> bar.high - bar.low,
                  deltaClose |-> bar.close - bar.low]
    IN  [period |-> bar.period, low |-> bar.low, volume |-> bar.volume,
         utcTimestampInMinutes |-> bar.minute]
        ++ Copied(above, {f \in DOMAIN above : above[f] # 0})

BarMeans(bar) ==
    [period |-> bar.period, timestamp |-> bar.minute * 60000, volume |-> bar.volume,
     low |-> Decimal(bar.low, 5), open |-> Decimal(bar.open, 5),
     high |-> Decimal(bar.high, 5), close |-> Decimal(bar.close, 5)]

\* Ticks travel as the first of them and the differences between each and the one before.
TicksOnWire(ticks) ==
    [i \in DOMAIN ticks |->
        IF i = 1 THEN ticks[1]
        ELSE [timestamp |-> ticks[i].timestamp - ticks[i - 1].timestamp,
              tick |-> ticks[i].tick - ticks[i - 1].tick]]

TickMeans(tick) == [timestamp |-> tick.timestamp, price |-> Decimal(tick.tick, 5)]

\* Money comes with its number of decimals, or without it: then there are two.
Digits(fact) == IF "moneyDigits" \in DOMAIN fact THEN fact.moneyDigits ELSE 2

OnWire(method, fact) ==
    CASE method = "getTrendbars" -> [fact EXCEPT !.trendbar = Each(BarOnWire, @)]
      [] method = "getTickData" -> [fact EXCEPT !.tickData = TicksOnWire(@)]
      [] OTHER -> fact

\* A message about the account, in the fields of the schema.
AccountMessage(schema, given) ==
    BrokerEncode(schema, given ++ Copied(ForAccount, DOMAIN schema))

AnswerPayload(method, fact) == AccountMessage(AnswerSchema(method), OnWire(method, fact))

\* The answer as the caller should get it.
AnswerMeans(method, params, fact) ==
    LET whole == Complete(AnswerSchema(method), fact) IN
    CASE method = "getOpenPositionsAndOrders" ->
            Resolves([positions |-> whole.position, orders |-> whole.order])
      [] method = "getTrader" ->
            IF "trader" \in DOMAIN fact THEN Resolves(whole.trader) ELSE NoAccountDetails
      [] method = "getBalance" ->
            IF "trader" \in DOMAIN fact
            THEN Resolves(Decimal(fact.trader.balance, Digits(fact.trader)))
            ELSE NoAccountDetails
      [] method = "getAssets" -> Resolves(whole.asset)
      [] method = "getExpectedMargin" ->
            Resolves([i \in DOMAIN fact.margin |->
                        [volume |-> Decimal(fact.margin[i].volume, 2),
                         buyMargin |-> Decimal(fact.margin[i].buyMargin, Digits(fact)),
                         sellMargin |-> Decimal(fact.margin[i].sellMargin, Digits(fact))]])
      [] method = "getPositionsUnrealizedPnL" ->
            LET pnl == fact.positionUnrealizedPnL IN
            Resolves([i \in DOMAIN pnl |->
                [positionId |-> pnl[i].positionId,
                 grossUnrealizedPnL |-> Decimal(pnl[i].grossUnrealizedPnL, Digits(fact)),
                 netUnrealizedPnL |-> Decimal(pnl[i].netUnrealizedPnL, Digits(fact))]])
      [] method = "getMarginCalls" -> Resolves(whole.marginCall)
      [] method \in {"getDeals", "getDealsByPositionId"} ->
            Resolves([deals |-> whole.deal, hasMore |-> whole.hasMore])
      [] method = "getOrders" -> Resolves([orders |-> whole.order, hasMore |-> whole.hasMore])
      [] method = "getCashFlow" -> Resolves(whole.depositWithdraw)
      [] method = "getTrendbars" -> Resolves(Each(BarMeans, fact.trendbar))
      [] method = "getTickData" ->
            Resolves([ticks |-> Each(TickMeans, fact.tickData), hasMore |-> whole.hasMore])
      [] method = "fetchSymbols" -> Resolves(whole.symbol)
      [] method = "fetchFullSymbol" ->
            LET asked == {i \in DOMAIN fact.symbol : fact.symbol[i].symbolId = params.symbolId}
            IN  Resolves(IF asked = {} THEN Undefined
                         ELSE whole.symbol[CHOOSE i \in asked : TRUE])
      [] method = "listAccounts" -> Resolves(whole.ctidTraderAccount)
      [] OTHER -> Resolves(Undefined)

-----------------------------------------------------------------------------
(* Errors.                                                                    *)

\* The errors the protocol has for a request: order errors are for mutations, and the
\* authenticator is not sent any.
BrokerErrorSchemas(method) ==
    Entry(ProtoOAPayloadType.PROTO_OA_ERROR_RES, ProtoOAErrorRes)
    ++ Entry(ProtoPayloadType.ERROR_RES, ProtoErrorRes)
    ++ (IF method \in Mutations
        THEN Entry(ProtoOAPayloadType.PROTO_OA_ORDER_ERROR_EVENT, ProtoOAOrderErrorEvent)
        ELSE <<>>)

\* The fields of an error that there are in the schema.
ErrorGiven(schema, error) == Copied(error ++ ForAccount, DOMAIN schema)

ErrorPayload(schema, error) == BrokerEncode(schema, ErrorGiven(schema, error))

\* An error with no description promises nothing about the message.
RefusalMeans(error) ==
    Rejects(error.errorCode,
            IF "description" \in DOMAIN error THEN error.description ELSE Undefined)

\* An order error is told to the listeners too.
RefusalTells(payloadType, error) ==
    IF payloadType = ProtoOAPayloadType.PROTO_OA_ORDER_ERROR_EVENT
    THEN LET whole == Complete(ProtoOAOrderErrorEvent,
                               ErrorGiven(ProtoOAOrderErrorEvent, error))
         IN  <<Emission("orderError", <<whole>>)>>
    ELSE <<>>

-----------------------------------------------------------------------------
(* Events.                                                                    *)

PendingOrder == 1
Position == 1

\* An execution event: about an order, or about the position.
AboutOrder(executionType, o, status) ==
    [ctidTraderAccountId |-> ctidTraderAccountId, executionType |-> executionType,
     order |-> [orderId |-> o, orderType |-> ProtoOAOrderType.LIMIT,
                orderStatus |-> status,
                tradeData |-> [symbolId |-> 1, volume |-> 100,
                               tradeSide |-> ProtoOATradeSide.BUY]]]

AboutPosition(executionType, status) ==
    [ctidTraderAccountId |-> ctidTraderAccountId, executionType |-> executionType,
     position |-> [positionId |-> Position, positionStatus |-> status, swap |-> 0,
                   tradeData |-> [symbolId |-> 1, volume |-> 100,
                                  tradeSide |-> ProtoOATradeSide.BUY]]]

EventTypes ==
    {ProtoOAPayloadType.PROTO_OA_SPOT_EVENT, ProtoOAPayloadType.PROTO_OA_DEPTH_EVENT,
     ProtoOAPayloadType.PROTO_OA_TRADER_UPDATE_EVENT,
     ProtoOAPayloadType.PROTO_OA_MARGIN_CHANGED_EVENT,
     ProtoOAPayloadType.PROTO_OA_MARGIN_CALL_TRIGGER_EVENT,
     ProtoOAPayloadType.PROTO_OA_MARGIN_CALL_UPDATE_EVENT,
     ProtoOAPayloadType.PROTO_OA_ACCOUNTS_TOKEN_INVALIDATED_EVENT,
     ProtoOAPayloadType.PROTO_OA_TRAILING_SL_CHANGED_EVENT,
     ProtoOAPayloadType.PROTO_OA_ACCOUNT_DISCONNECT_EVENT}

EventSchema(payloadType) ==
    CASE payloadType = ProtoOAPayloadType.PROTO_OA_SPOT_EVENT -> ProtoOASpotEvent
      [] payloadType = ProtoOAPayloadType.PROTO_OA_DEPTH_EVENT -> ProtoOADepthEvent
      [] payloadType = ProtoOAPayloadType.PROTO_OA_TRADER_UPDATE_EVENT ->
            ProtoOATraderUpdatedEvent
      [] payloadType = ProtoOAPayloadType.PROTO_OA_MARGIN_CHANGED_EVENT ->
            ProtoOAMarginChangedEvent
      [] payloadType = ProtoOAPayloadType.PROTO_OA_MARGIN_CALL_TRIGGER_EVENT ->
            ProtoOAMarginCallTriggerEvent
      [] payloadType = ProtoOAPayloadType.PROTO_OA_MARGIN_CALL_UPDATE_EVENT ->
            ProtoOAMarginCallUpdateEvent
      [] payloadType = ProtoOAPayloadType.PROTO_OA_ACCOUNTS_TOKEN_INVALIDATED_EVENT ->
            ProtoOAAccountsTokenInvalidatedEvent
      [] payloadType = ProtoOAPayloadType.PROTO_OA_TRAILING_SL_CHANGED_EVENT ->
            ProtoOATrailingSLChangedEvent
      [] payloadType = ProtoOAPayloadType.PROTO_OA_ACCOUNT_DISCONNECT_EVENT ->
            Acknowledgement

EventOnWire(payloadType, fact) ==
    IF payloadType = ProtoOAPayloadType.PROTO_OA_SPOT_EVENT
    THEN [fact EXCEPT !.trendbar = Each(BarOnWire, @)] ELSE fact

EventPayload(payloadType, fact) ==
    AccountMessage(EventSchema(payloadType), EventOnWire(payloadType, fact))

\* A side of the market that the broker leaves out has no price.
PriceOf(fact, side) == IF side \in DOMAIN fact THEN Decimal(fact[side], 5) ELSE Undefined

QuoteMeans(quote) ==
    [id |-> quote.id, size |-> quote.size, bid |-> PriceOf(quote, "bid"),
     ask |-> PriceOf(quote, "ask")]

\* What the listeners should be told; a spot whose timestamp is left out has timestamp 0.
EventMeans(payloadType, fact) ==
    LET whole == Complete(EventSchema(payloadType), fact ++ ForAccount)
        BarOf(bar) == Emission("trendbar", <<fact.symbolId, BarMeans(bar)>>)
    IN
    CASE payloadType = ProtoOAPayloadType.PROTO_OA_SPOT_EVENT ->
            <<Emission("price",
                 <<[symbolId |-> fact.symbolId, bid |-> PriceOf(fact, "bid"),
                    ask |-> PriceOf(fact, "ask"), timestamp |-> whole.timestamp]>>)>>
            \o Each(BarOf, fact.trendbar)
      [] payloadType = ProtoOAPayloadType.PROTO_OA_DEPTH_EVENT ->
            <<Emission("depth",
                 <<[symbolId |-> fact.symbolId, newQuotes |-> Each(QuoteMeans, fact.newQuotes),
                    deletedQuoteIds |-> whole.deletedQuotes]>>)>>
      [] payloadType = ProtoOAPayloadType.PROTO_OA_TRADER_UPDATE_EVENT ->
            <<Emission("traderUpdated", <<whole.trader>>)>>
      [] payloadType = ProtoOAPayloadType.PROTO_OA_MARGIN_CHANGED_EVENT ->
            <<Emission("marginChanged",
                 <<[positionId |-> fact.positionId,
                    usedMargin |-> Decimal(fact.usedMargin, Digits(fact))]>>)>>
      [] payloadType = ProtoOAPayloadType.PROTO_OA_MARGIN_CALL_TRIGGER_EVENT ->
            <<Emission("marginCallTriggered", <<whole.marginCall>>)>>
      [] payloadType = ProtoOAPayloadType.PROTO_OA_MARGIN_CALL_UPDATE_EVENT ->
            <<Emission("marginCallUpdated", <<whole.marginCall>>)>>
      [] payloadType = ProtoOAPayloadType.PROTO_OA_ACCOUNTS_TOKEN_INVALIDATED_EVENT ->
            <<Emission("tokenInvalidated", <<whole.ctidTraderAccountIds, whole.reason>>)>>
      [] payloadType = ProtoOAPayloadType.PROTO_OA_TRAILING_SL_CHANGED_EVENT ->
            <<Emission("trailingStopLossChanged", <<whole>>)>>
      [] payloadType = ProtoOAPayloadType.PROTO_OA_ACCOUNT_DISCONNECT_EVENT ->
            <<Emission("accountDisconnected", <<>>)>>

-----------------------------------------------------------------------------
(* What may be told.                                                          *)

\* given has fields of the schema only, and so have the messages in it.
Within(schema, given) == DOMAIN given \subseteq DOMAIN schema

WithinMiddle(schema, given) ==
    /\ Within(schema, given)
    /\ \A f \in DOMAIN given :
        /\ schema[f].kind = "message" => Within(schema[f].of, given[f])
        /\ schema[f].kind = "messages" =>
            \A i \in DOMAIN given[f] : Within(schema[f].of, given[f][i])

WithinOuter(schema, given) ==
    /\ Within(schema, given)
    /\ \A f \in DOMAIN given :
        /\ schema[f].kind = "message" => WithinMiddle(schema[f].of, given[f])
        /\ schema[f].kind = "messages" =>
            \A i \in DOMAIN given[f] : WithinMiddle(schema[f].of, given[f][i])

Has(fact, names) == names \subseteq DOMAIN fact

\* Amounts have decimals.
MoneyFact(fact) == Digits(fact) \in Nat \ {0}

EachHas(list, names) == \A i \in DOMAIN list : i \in Nat /\ Has(list[i], names)

BarFacts == Seq([period : Nat \ {0}, minute : Nat, volume : Nat,
                 low : Int, open : Int, high : Int, close : Int])
TickFacts == Seq([timestamp : Int, tick : Int])

\* Prices are not 0.
PricesFact(fact) == \A side \in DOMAIN fact \cap {"bid", "ask"} : fact[side] \in Nat \ {0}

\* What an answer or an event is about is there, and amounts say how many decimals they
\* have, if not two; the symbols of an answer have different ids.
MayAnswer(method, fact) ==
    /\ method = "getTrendbars" => Has(fact, {"trendbar"}) /\ fact.trendbar \in BarFacts
    /\ method = "getTickData" => Has(fact, {"tickData"}) /\ fact.tickData \in TickFacts
    /\ WithinOuter(AnswerSchema(method), OnWire(method, fact))
    /\ method = "getBalance" /\ "trader" \in DOMAIN fact =>
        Has(fact.trader, {"balance"}) /\ MoneyFact(fact.trader)
    /\ method = "getExpectedMargin" =>
        /\ Has(fact, {"margin"}) /\ MoneyFact(fact)
        /\ EachHas(fact.margin, {"volume", "buyMargin", "sellMargin"})
    /\ method = "getPositionsUnrealizedPnL" =>
        /\ Has(fact, {"positionUnrealizedPnL"}) /\ MoneyFact(fact)
        /\ EachHas(fact.positionUnrealizedPnL,
                     {"positionId", "grossUnrealizedPnL", "netUnrealizedPnL"})
    /\ method = "fetchFullSymbol" =>
        /\ Has(fact, {"symbol"}) /\ EachHas(fact.symbol, {"symbolId"})
        /\ \A i, j \in DOMAIN fact.symbol :
            fact.symbol[i].symbolId = fact.symbol[j].symbolId => i = j

MayRefuse(error) ==
    DOMAIN error \subseteq {"errorCode", "description"} /\ Has(error, {"errorCode"})

MayTell(payloadType, fact) ==
    /\ payloadType \in EventTypes
    /\ payloadType = ProtoOAPayloadType.PROTO_OA_SPOT_EVENT =>
        /\ Has(fact, {"symbolId", "trendbar"}) /\ PricesFact(fact)
        /\ fact.trendbar \in BarFacts
    /\ WithinOuter(EventSchema(payloadType), EventOnWire(payloadType, fact))
    /\ payloadType = ProtoOAPayloadType.PROTO_OA_DEPTH_EVENT =>
        /\ Has(fact, {"symbolId", "newQuotes"}) /\ EachHas(fact.newQuotes, {"id", "size"})
        /\ \A i \in DOMAIN fact.newQuotes : PricesFact(fact.newQuotes[i])
    /\ payloadType = ProtoOAPayloadType.PROTO_OA_MARGIN_CHANGED_EVENT =>
        Has(fact, {"positionId", "usedMargin"}) /\ MoneyFact(fact)
    /\ payloadType = ProtoOAPayloadType.PROTO_OA_TRADER_UPDATE_EVENT =>
        Has(fact, {"trader"})
    /\ payloadType \in {ProtoOAPayloadType.PROTO_OA_MARGIN_CALL_TRIGGER_EVENT,
                        ProtoOAPayloadType.PROTO_OA_MARGIN_CALL_UPDATE_EVENT} =>
        Has(fact, {"marginCall"})
=============================================================================
