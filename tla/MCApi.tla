-------------------------------- MODULE MCApi --------------------------------
(***************************************************************************)
(* Api for TLC: every method by itself, and some of them side by side.        *)
(***************************************************************************)
EXTENDS Api

CONSTANTS Alone,   \* methods called when no other call is made
          Racing   \* methods called beside each other

MCMenu(called) ==
    IF called = {} THEN Alone \cup Racing ELSE IF called \subseteq Racing THEN Racing ELSE {}

NoEvents == <<>>
MCOrderOf == [c1 |-> 2, c2 |-> 3]

RacingMethods == {"placeMarketOrder", "cancelOrder"}

-----------------------------------------------------------------------------
(* Parameters: the values the generated encoder drops, and others.            *)

Buy == [symbolId |-> 1, tradeSide |-> ProtoOATradeSide.BUY, volume |-> 10]
Sell == [symbolId |-> 1, tradeSide |-> ProtoOATradeSide.SELL, volume |-> 10,
         stopLoss |-> 9, trailingStopLoss |-> TRUE, clientOrderId |-> "mine"]
Span(first, last) == [fromTimestamp |-> first, toTimestamp |-> last]

MCInputs(method) ==
    CASE method = "placeMarketOrder" -> {Buy}
      [] method = "placeLimitOrder" -> {[limitPrice |-> 7, timeInForce |-> 2] @@ Buy}
      [] method = "placeStopOrder" ->
            {[stopPrice |-> 7, timeInForce |-> 1, expirationTimestamp |-> 5] @@ Sell}
      [] method = "placeStopLimitOrder" ->
            {[stopPrice |-> 7, slippageInPoints |-> 3] @@ Sell}
      [] method = "placeMarketRangeOrder" ->
            {[baseSlippagePrice |-> 7, slippageInPoints |-> 3] @@ Buy}
      [] method = "amendOrder" ->
            {[orderId |-> PendingOrder, limitPrice |-> 8],
             [orderId |-> PendingOrder, volume |-> 20, stopLoss |-> 6]}
      [] method = "amendPositionStopLossTakeProfit" ->
            {[positionId |-> Position, stopLoss |-> 6, stopLossTriggerMethod |-> 1]}
      [] method = "cancelOrder" -> {[orderId |-> PendingOrder]}
      [] method = "closePosition" -> {[positionId |-> Position, volume |-> 10]}
      [] method = "getExpectedMargin" -> {[symbolId |-> 1, volumes |-> <<10, 20>>]}
      [] method = "getDeals" -> {Span(0, 5), [maxRows |-> 2] @@ Span(0, 5)}
      [] method = "getDealsByPositionId" -> {[positionId |-> Position],
                                              [positionId |-> Position] @@ Span(0, 5)}
      [] method = "getOrders" -> {Span(0, 5), Span(3, 5)}
      [] method = "getCashFlow" ->
            {Span(0, 0), Span(1, 604800001), Span(0, 604800001)}
      [] method = "getTrendbars" ->
            {[symbolId |-> 1, period |-> ProtoOATrendbarPeriod.M1],
             [symbolId |-> 1, period |-> ProtoOATrendbarPeriod.H1, count |-> 2] @@ Span(0, 5)}
      [] method = "getTickData" ->
            {[symbolId |-> 1, type |-> t] @@ Span(0, 5) : t \in {ProtoOAQuoteType.BID,
                                                                ProtoOAQuoteType.ASK}}
      [] method \in {"subscribe", "unsubscribe", "subscribeDepth", "unsubscribeDepth"} ->
            {[symbolId |-> <<1, 2>>]}
      [] method \in {"subscribeLiveTrendbars", "unsubscribeLiveTrendbars"} ->
            {[symbolId |-> 1, period |-> p] : p \in {ProtoOATrendbarPeriod.M1,
                                                    ProtoOATrendbarPeriod.H1}}
      [] method = "fetchFullSymbol" -> {[symbolId |-> 2]}
      [] method = "authenticateApplication" ->
            {[clientId |-> "id", clientSecret |-> "secret"]}
      [] method \in {"authenticateAccount", "listAccounts"} -> {[accessToken |-> "token"]}
      [] OTHER -> {<<>>}

-----------------------------------------------------------------------------
(* Answers.                                                                   *)

Data == [symbolId |-> 1, volume |-> 100, tradeSide |-> ProtoOATradeSide.BUY]
AnOrder == [orderId |-> 1, tradeData |-> Data, orderType |-> ProtoOAOrderType.STOP,
            orderStatus |-> ProtoOAOrderStatus.ORDER_STATUS_ACCEPTED]
APosition == [positionId |-> 1, tradeData |-> Data, swap |-> 0,
              positionStatus |-> ProtoOAPositionStatus.POSITION_STATUS_OPEN]
ADeal == [dealId |-> 1, orderId |-> 1, positionId |-> 1, volume |-> 100,
          filledVolume |-> 100, symbolId |-> 1, createTimestamp |-> 1,
          executionTimestamp |-> 2, tradeSide |-> ProtoOATradeSide.SELL, dealStatus |-> 2,
          closePositionDetail |-> [entryPrice |-> 7, grossProfit |-> 3, swap |-> 0,
                                   commission |-> 1, balance |-> 500]]
ATrader == [ctidTraderAccountId |-> ctidTraderAccountId, balance |-> 500,
            depositAssetId |-> 1]
AMarginCall == [marginCallType |-> 61, marginLevelThreshold |-> 9]
ASymbol(id) == [symbolId |-> id, digits |-> 5, pipPosition |-> 4,
                schedule |-> <<[startSecond |-> 0, endSecond |-> 9]>>]

\* Money with its number of decimals, and without it.
Money == {<<>>, [moneyDigits |-> 8]}

Bar(low, open, high, close, minute) ==
    [period |-> ProtoOATrendbarPeriod.H1, volume |-> 4, low |-> low, open |-> open,
     high |-> high, close |-> close, minute |-> minute]

Bars == <<Bar(100, 100, 120, 110, 3), Bar(100, 112, 112, 100, 4)>>

\* Ticks, newest first.
Ticks == <<[timestamp |-> 90, tick |-> 105], [timestamp |-> 80, tick |-> 103],
           [timestamp |-> 75, tick |-> 108]>>

MCContents(method) ==
    CASE method = "getOpenPositionsAndOrders" ->
            {[position |-> <<APosition>>, order |-> list] : list \in {<<>>, <<AnOrder, AnOrder>>}}
      [] method \in {"getTrader", "getBalance"} ->
            {<<>>} \cup {[trader |-> d @@ ATrader] : d \in Money}
      [] method = "getAssets" ->
            {[asset |-> <<[assetId |-> 1, name |-> "EUR"], [assetId |-> 2, name |-> "USD"]>>]}
      [] method = "getExpectedMargin" ->
            {d @@ [margin |-> <<[volume |-> 1000, buyMargin |-> 30, sellMargin |-> 31]>>]
                : d \in Money}
      [] method = "getPositionsUnrealizedPnL" ->
            {[moneyDigits |-> n,
              positionUnrealizedPnL |-> <<[positionId |-> 1, grossUnrealizedPnL |-> -7,
                                           netUnrealizedPnL |-> -9]>>] : n \in {2, 8}}
      [] method = "getMarginCalls" -> {[marginCall |-> <<AMarginCall>>]}
      [] method = "getDeals" -> {[deal |-> <<ADeal>>, hasMore |-> more] : more \in BOOLEAN}
      [] method = "getDealsByPositionId" -> {[deal |-> <<ADeal, ADeal>>, hasMore |-> TRUE]}
      [] method = "getOrders" -> {[order |-> <<AnOrder>>, hasMore |-> FALSE]}
      [] method = "getCashFlow" ->
            {[depositWithdraw |->
                <<[operationType |-> 0, balanceHistoryId |-> 1, balance |-> 500,
                   delta |-> 5, changeBalanceTimestamp |-> 3]>>]}
      [] method = "getTrendbars" ->
            {[period |-> ProtoOATrendbarPeriod.H1, trendbar |-> Bars]}
      [] method = "getTickData" ->
            {[tickData |-> Ticks, hasMore |-> TRUE], [tickData |-> <<>>, hasMore |-> FALSE]}
      [] method = "fetchSymbols" ->
            {[symbol |-> <<[symbolId |-> 1, symbolName |-> "EURUSD"], [symbolId |-> 2]>>]}
      [] method = "fetchFullSymbol" ->
            {[symbol |-> list] : list \in {<<>>, <<ASymbol(3), ASymbol(2)>>}}
      [] method = "listAccounts" ->
            {[ctidTraderAccount |->
                <<[ctidTraderAccountId |-> ctidTraderAccountId, isLive |-> TRUE]>>]}
      [] OTHER -> {<<>>}

MCErrors ==
    {[errorCode |-> "NO", description |-> "not today"], [errorCode |-> "NO"]}

-----------------------------------------------------------------------------
(* What the broker tells unasked.                                             *)

Publication(payloadType, fact) == [payloadType |-> payloadType, fact |-> fact]

Spot(fact, bars) ==
    Publication(ProtoOAPayloadType.PROTO_OA_SPOT_EVENT,
                fact @@ [symbolId |-> 1, trendbar |-> bars])

MarginChanged(d) ==
    Publication(ProtoOAPayloadType.PROTO_OA_MARGIN_CHANGED_EVENT,
                d @@ [positionId |-> 1, usedMargin |-> 70])

MCEvents ==
    <<Spot([bid |-> 101], <<>>), Spot([ask |-> 103, timestamp |-> 6], Bars),
      Publication(ProtoOAPayloadType.PROTO_OA_DEPTH_EVENT,
        [symbolId |-> 1, deletedQuotes |-> <<4, 5>>,
         newQuotes |-> <<[id |-> 6, size |-> 50, bid |-> 101],
                         [id |-> 7, size |-> 60, ask |-> 103]>>]),
      Publication(ProtoOAPayloadType.PROTO_OA_TRADER_UPDATE_EVENT, [trader |-> ATrader]),
      Publication(ProtoOAPayloadType.PROTO_OA_MARGIN_CALL_TRIGGER_EVENT,
                  [marginCall |-> AMarginCall]),
      Publication(ProtoOAPayloadType.PROTO_OA_MARGIN_CALL_UPDATE_EVENT,
                  [marginCall |-> AMarginCall]),
      Publication(ProtoOAPayloadType.PROTO_OA_ACCOUNT_DISCONNECT_EVENT, <<>>),
      Publication(ProtoOAPayloadType.PROTO_OA_ACCOUNTS_TOKEN_INVALIDATED_EVENT,
        [ctidTraderAccountIds |-> <<ctidTraderAccountId>>, reason |-> "revoked"]),
      Publication(ProtoOAPayloadType.PROTO_OA_TRAILING_SL_CHANGED_EVENT,
        [positionId |-> 1, orderId |-> 1, stopPrice |-> 6, utcLastUpdateTimestamp |-> 3]),
      MarginChanged(<<>>), MarginChanged([moneyDigits |-> 8])>>
=============================================================================
