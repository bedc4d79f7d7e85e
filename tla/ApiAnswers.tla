------------------------------ MODULE ApiAnswers ------------------------------
(***************************************************************************)
(* What the methods of the library make of the answers to their requests, and *)
(* its handlers of the messages nobody asked for: the conversions of prices,  *)
(* volumes, money, bars and ticks included.                                  *)
(*                                                                         *)
(* A decimal number is what it was scaled from: coefficient / 10^digits.      *)
(***************************************************************************)
EXTENDS ApiRequests

Decimal(coefficient, digits) == [coefficient |-> coefficient, digits |-> digits]

\* ?? of JavaScript, and || with 0.
OrElse(v, other) == IF v = Undefined THEN other ELSE v
IsFalsy(v) == v \in {Undefined, 0}

Resolves(value) == [settled |-> "resolved", value |-> value]
Rejects(code, message) == [settled |-> "rejected", code |-> code, message |-> message]

-----------------------------------------------------------------------------
(* Conversions.                                                               *)

DEFAULT_MONEY_DIGITS == 2

fromMoneyDigits(value, moneyDigits) ==
    Decimal(value, IF IsFalsy(moneyDigits) THEN DEFAULT_MONEY_DIGITS ELSE moneyDigits)

toOptionalPrice(value) ==
    IF IsFalsy(value) THEN Undefined ELSE Decimal(value, SPOTWARE_PRICE_DIGITS)

toCleanTrendbar(trendbar) ==
    LET low == OrElse(trendbar.low, 0)
        Above(delta) == Decimal(low + OrElse(delta, 0), SPOTWARE_PRICE_DIGITS)
    IN  [period |-> OrElse(trendbar.period, ProtoOATrendbarPeriod.M1),
         timestamp |-> IF trendbar.utcTimestampInMinutes = Undefined THEN Undefined
                       ELSE trendbar.utcTimestampInMinutes * 60000,
         low |-> Above(0), open |-> Above(trendbar.deltaOpen),
         high |-> Above(trendbar.deltaHigh), close |-> Above(trendbar.deltaClose),
         volume |-> trendbar.volume]

toCleanDepthQuote(quote) ==
    [id |-> quote.id, size |-> quote.size,
     bid |-> toOptionalPrice(quote.bid), ask |-> toOptionalPrice(quote.ask)]

\* Mutant of accumulateTickData: every later entry is taken relative to the first.
MutAccumulateTickData(tickData) ==
    LET From(f(_), i) == IF i = 1 THEN f(1) ELSE f(1) + f(i)
        Timestamp(i) == tickData[i].timestamp
        Tick(i) == tickData[i].tick
    IN  [i \in DOMAIN tickData |->
            [timestamp |-> From(Timestamp, i),
             price |-> Decimal(From(Tick, i), SPOTWARE_PRICE_DIGITS)]]

\* The sums of the entries up to each.
RunningSum(list) ==
    LET sum[i \in DOMAIN list] == IF i = 1 THEN list[1] ELSE sum[i - 1] + list[i]
    IN  sum

\* The first entry is absolute, each later one a difference from the one before it.
accumulateTickData(tickData) ==
    LET timestamp == RunningSum([i \in DOMAIN tickData |-> tickData[i].timestamp])
        tick == RunningSum([i \in DOMAIN tickData |-> tickData[i].tick])
    IN  [i \in DOMAIN tickData |->
            [timestamp |-> timestamp[i], price |-> Decimal(tick[i], SPOTWARE_PRICE_DIGITS)]]

Each(Converted(_), list) == [i \in DOMAIN list |-> Converted(list[i])]

-----------------------------------------------------------------------------
(* What each method resolves or rejects with, from the payload of its answer.  *)

\* placeOrder, amendOrder, amendPositionStopLossTakeProfit, cancelOrder, closePosition.
ReadExecution(payload) == Resolves(Decode(ProtoOAExecutionEvent, payload))

ReadOpenPositionsAndOrders(payload) ==
    LET reconcile == Decode(ProtoOAReconcileRes, payload)
    IN  Resolves([positions |-> reconcile.position, orders |-> reconcile.order])

NoAccountDetails ==
    Rejects(Undefined, "The trader response carried no account details")

ReadTrader(payload) ==
    LET trader == Decode(ProtoOATraderRes, payload).trader
    IN  IF trader = Undefined THEN NoAccountDetails ELSE Resolves(trader)

\* getBalance: getTrader, converted.
ReadBalance(payload) ==
    LET read == ReadTrader(payload)
    IN  IF read.settled = "rejected" THEN read
        ELSE Resolves(fromMoneyDigits(read.value.balance, read.value.moneyDigits))

ReadAssets(payload) == Resolves(Decode(ProtoOAAssetListRes, payload).asset)

ReadExpectedMargin(payload) ==
    LET decoded == Decode(ProtoOAExpectedMarginRes, payload)
        Margin(m) ==
            [volume |-> Decimal(m.volume, SPOTWARE_VOLUME_DIGITS),
             buyMargin |-> fromMoneyDigits(m.buyMargin, decoded.moneyDigits),
             sellMargin |-> fromMoneyDigits(m.sellMargin, decoded.moneyDigits)]
    IN  Resolves(Each(Margin, decoded.margin))

ReadPositionsUnrealizedPnL(payload) ==
    LET decoded == Decode(ProtoOAGetPositionUnrealizedPnLRes, payload)
        PnL(p) ==
            [positionId |-> p.positionId,
             grossUnrealizedPnL |-> fromMoneyDigits(p.grossUnrealizedPnL, decoded.moneyDigits),
             netUnrealizedPnL |-> fromMoneyDigits(p.netUnrealizedPnL, decoded.moneyDigits)]
    IN  Resolves(Each(PnL, decoded.positionUnrealizedPnL))

ReadMarginCalls(payload) == Resolves(Decode(ProtoOAMarginCallListRes, payload).marginCall)

\* getDeals and getDealsByPositionId, whose answers have the same shape.
ReadDeals(schema, payload) ==
    LET decoded == Decode(schema, payload)
    IN  Resolves([deals |-> decoded.deal, hasMore |-> decoded.hasMore])

ReadOrders(payload) ==
    LET decoded == Decode(ProtoOAOrderListRes, payload)
    IN  Resolves([orders |-> decoded.order, hasMore |-> decoded.hasMore])

ReadCashFlow(payload) ==
    Resolves(Decode(ProtoOACashFlowHistoryListRes, payload).depositWithdraw)

ReadTrendbars(payload) ==
    Resolves(Each(toCleanTrendbar, Decode(ProtoOAGetTrendbarsRes, payload).trendbar))

ReadTickData(payload) ==
    LET decoded == Decode(ProtoOAGetTickDataRes, payload)
    IN  Resolves([ticks |-> accumulateTickData(decoded.tickData),
                  hasMore |-> decoded.hasMore])

ReadSymbols(payload) == Resolves(Decode(ProtoOASymbolsListRes, payload).symbol)

\* The first symbol that has the id, or undefined.
ReadFullSymbol(symbolId, payload) ==
    LET symbol == Decode(ProtoOASymbolByIdRes, payload).symbol
        found == {i \in DOMAIN symbol : symbol[i].symbolId = symbolId}
    IN  Resolves(IF found = {} THEN Undefined
                 ELSE symbol[CHOOSE i \in found : \A j \in found : i <= j])

ReadAccounts(payload) ==
    Resolves(Decode(ProtoOAGetAccountListByAccessTokenRes, payload).ctidTraderAccount)

\* The subscriptions and the handshake look no further.
ReadNothing == Resolves(Undefined)

-----------------------------------------------------------------------------
(* Errors, in SpotwareClient.handleMessage and the authenticator's onMessage.  *)

\* Mutant of ErrorSchemas: handleMessage does not know the order errors.
MutErrorSchemas ==
    Entry(ProtoOAPayloadType.PROTO_OA_ERROR_RES, ProtoOAErrorRes)
    ++ Entry(ProtoPayloadType.ERROR_RES, ProtoErrorRes)

ErrorSchemas ==
    Entry(ProtoOAPayloadType.PROTO_OA_ERROR_RES, ProtoOAErrorRes)
    ++ Entry(ProtoPayloadType.ERROR_RES, ProtoErrorRes)
    ++ Entry(ProtoOAPayloadType.PROTO_OA_ORDER_ERROR_EVENT, ProtoOAOrderErrorEvent)

HandshakeErrorSchemas ==
    Entry(ProtoOAPayloadType.PROTO_OA_ERROR_RES, ProtoOAErrorRes)
    ++ Entry(ProtoPayloadType.ERROR_RES, ProtoErrorRes)

ReadError(schema, payload) ==
    LET error == Decode(schema, payload)
    IN  Rejects(error.errorCode, OrElse(error.description, error.errorCode))

-----------------------------------------------------------------------------
(* The 'message' listeners: what each emits for a message.                     *)

Emission(event, args) == [event |-> event, args |-> args]

TradingEmits(payloadType, payload) ==
    CASE payloadType = ProtoOAPayloadType.PROTO_OA_EXECUTION_EVENT ->
            <<Emission("execution", <<Decode(ProtoOAExecutionEvent, payload)>>)>>
      [] payloadType = ProtoOAPayloadType.PROTO_OA_ORDER_ERROR_EVENT ->
            <<Emission("orderError", <<Decode(ProtoOAOrderErrorEvent, payload)>>)>>
      [] payloadType = ProtoOAPayloadType.PROTO_OA_TRAILING_SL_CHANGED_EVENT ->
            <<Emission("trailingStopLossChanged",
                       <<Decode(ProtoOATrailingSLChangedEvent, payload)>>)>>
      [] OTHER -> <<>>

\* An event that lacks the record it is about is not emitted.
EmissionOf(event, value) == IF value = Undefined THEN <<>> ELSE <<Emission(event, <<value>>)>>

AccountEmits(payloadType, payload) ==
    CASE payloadType = ProtoOAPayloadType.PROTO_OA_TRADER_UPDATE_EVENT ->
            EmissionOf("traderUpdated", Decode(ProtoOATraderUpdatedEvent, payload).trader)
      [] payloadType = ProtoOAPayloadType.PROTO_OA_MARGIN_CHANGED_EVENT ->
            LET event == Decode(ProtoOAMarginChangedEvent, payload)
            IN  <<Emission("marginChanged",
                     <<[positionId |-> event.positionId,
                        usedMargin |-> fromMoneyDigits(event.usedMargin,
                                                       event.moneyDigits)]>>)>>
      [] payloadType = ProtoOAPayloadType.PROTO_OA_MARGIN_CALL_TRIGGER_EVENT ->
            EmissionOf("marginCallTriggered",
                       Decode(ProtoOAMarginCallTriggerEvent, payload).marginCall)
      [] payloadType = ProtoOAPayloadType.PROTO_OA_MARGIN_CALL_UPDATE_EVENT ->
            EmissionOf("marginCallUpdated",
                       Decode(ProtoOAMarginCallUpdateEvent, payload).marginCall)
      [] payloadType = ProtoOAPayloadType.PROTO_OA_ACCOUNT_DISCONNECT_EVENT ->
            <<Emission("accountDisconnected", <<>>)>>
      [] payloadType = ProtoOAPayloadType.PROTO_OA_ACCOUNTS_TOKEN_INVALIDATED_EVENT ->
            LET event == Decode(ProtoOAAccountsTokenInvalidatedEvent, payload)
            IN  <<Emission("tokenInvalidated", <<event.ctidTraderAccountIds, event.reason>>)>>
      [] OTHER -> <<>>

\* handleSpotEvent and handleDepthEvent.
MarketDataEmits(payloadType, payload) ==
    CASE payloadType = ProtoOAPayloadType.PROTO_OA_SPOT_EVENT ->
            LET event == Decode(ProtoOASpotEvent, payload)
                Bar(b) == Emission("trendbar", <<event.symbolId, toCleanTrendbar(b)>>)
            IN  <<Emission("price",
                     <<[symbolId |-> event.symbolId, bid |-> toOptionalPrice(event.bid),
                        ask |-> toOptionalPrice(event.ask),
                        timestamp |-> event.timestamp]>>)>>
                \o Each(Bar, event.trendbar)
      [] payloadType = ProtoOAPayloadType.PROTO_OA_DEPTH_EVENT ->
            LET event == Decode(ProtoOADepthEvent, payload)
            IN  <<Emission("depth",
                     <<[symbolId |-> event.symbolId,
                        newQuotes |-> Each(toCleanDepthQuote, event.newQuotes),
                        deletedQuoteIds |-> event.deletedQuotes]>>)>>
      [] OTHER -> <<>>

Emits(payloadType, payload) ==
    TradingEmits(payloadType, payload) \o AccountEmits(payloadType, payload)
        \o MarketDataEmits(payloadType, payload)
=============================================================================
