----------------------------- MODULE ApiRequests -----------------------------
(***************************************************************************)
(* What each method of the library sends: SpotwareTrading, SpotwareAccount,   *)
(* SpotwareHistory, SpotwareMarketData, SpotwareSymbolCatalog and             *)
(* SpotwareSocketAuthenticator.  A method is an operator from its parameters, *)
(* a record in which an optional one may be missing, to the payload type and  *)
(* the encoded payload it hands to client.send().                            *)
(***************************************************************************)
EXTENDS ProtoMessages

CONSTANT ctidTraderAccountId   \* the account of the client

SPOTWARE_PRICE_DIGITS == 5     \* SPOTWARE_PRICE_SCALE = 100_000
SPOTWARE_VOLUME_DIGITS == 2
SPOTWARE_VOLUME_SCALE == 100
MAX_CASH_FLOW_RANGE_MS == 604800000

Request(payloadType, payload) == [payloadType |-> payloadType, payload |-> payload]

\* The parameters that go into the request under their own names.
Copied(params, names) == [f \in names \cap DOMAIN params |-> params[f]]

ForAccount == [ctidTraderAccountId |-> ctidTraderAccountId]

\* Volumes are given in units and sent in cents.
InCents(params) ==
    IF "volume" \in DOMAIN params
    THEN [volume |-> params.volume * SPOTWARE_VOLUME_SCALE] ELSE <<>>

-----------------------------------------------------------------------------
(* The parameters of the methods, by the names of their types: the fields that  *)
(* must be given, and those that may be.                                      *)

Params(required, optional) == [required |-> required, optional |-> optional]
Extending(params, required, optional) ==
    Params(params.required \cup required, params.optional \cup optional)

IPlaceMarketOrderParams ==
    Params({"symbolId", "tradeSide", "volume"},
           {"stopLoss", "takeProfit", "trailingStopLoss", "guaranteedStopLoss",
            "stopTriggerMethod", "comment", "label", "clientOrderId", "positionId"})
IPlaceLimitOrderParams ==
    Extending(IPlaceMarketOrderParams, {"limitPrice"}, {"timeInForce", "expirationTimestamp"})
IPlaceStopOrderParams ==
    Extending(IPlaceMarketOrderParams, {"stopPrice"}, {"timeInForce", "expirationTimestamp"})
IPlaceStopLimitOrderParams == Extending(IPlaceStopOrderParams, {}, {"slippageInPoints"})
IPlaceMarketRangeOrderParams ==
    Extending(IPlaceMarketOrderParams, {"baseSlippagePrice", "slippageInPoints"}, {})
IAmendOrderParams ==
    Params({"orderId"}, {"volume", "limitPrice", "stopPrice", "stopLoss", "takeProfit",
                         "expirationTimestamp"})
IAmendPositionStopLossTakeProfitParams ==
    Params({"positionId"}, {"stopLoss", "takeProfit", "trailingStopLoss",
                            "guaranteedStopLoss", "stopLossTriggerMethod"})
IClosePositionParams == Params({"positionId", "volume"}, {})

IGetExpectedMarginParams == Params({"symbolId", "volumes"}, {})

ITimeRangeParams == Params({"fromTimestamp", "toTimestamp"}, {})
IGetDealsParams == Extending(ITimeRangeParams, {}, {"maxRows"})
IGetDealsByPositionIdParams == Params({"positionId"}, {"fromTimestamp", "toTimestamp"})

IGetTrendbarsParams ==
    Params({"symbolId", "period"}, {"fromTimestamp", "toTimestamp", "count"})
ISubscribeLiveTrendbarsParams == Params({"symbolId", "period"}, {})
IGetTickDataParams == Params({"symbolId", "type"}, {"fromTimestamp", "toTimestamp"})

\* The methods without a type of their own are given one thing, or nothing.
ParamsOf(method) ==
    CASE method = "placeMarketOrder" -> IPlaceMarketOrderParams
      [] method = "placeLimitOrder" -> IPlaceLimitOrderParams
      [] method = "placeStopOrder" -> IPlaceStopOrderParams
      [] method = "placeStopLimitOrder" -> IPlaceStopLimitOrderParams
      [] method = "placeMarketRangeOrder" -> IPlaceMarketRangeOrderParams
      [] method = "amendOrder" -> IAmendOrderParams
      [] method = "amendPositionStopLossTakeProfit" -> IAmendPositionStopLossTakeProfitParams
      [] method = "cancelOrder" -> Params({"orderId"}, {})
      [] method = "closePosition" -> IClosePositionParams
      [] method = "getExpectedMargin" -> IGetExpectedMarginParams
      [] method = "getDeals" -> IGetDealsParams
      [] method = "getDealsByPositionId" -> IGetDealsByPositionIdParams
      [] method \in {"getOrders", "getCashFlow"} -> ITimeRangeParams
      [] method = "getTrendbars" -> IGetTrendbarsParams
      [] method = "getTickData" -> IGetTickDataParams
      [] method \in {"subscribe", "unsubscribe", "subscribeDepth", "unsubscribeDepth",
                     "fetchFullSymbol"} -> Params({"symbolId"}, {})
      [] method \in {"subscribeLiveTrendbars", "unsubscribeLiveTrendbars"} ->
            ISubscribeLiveTrendbarsParams
      [] method = "authenticateApplication" -> Params({"clientId", "clientSecret"}, {})
      [] method \in {"authenticateAccount", "listAccounts"} -> Params({"accessToken"}, {})
      [] OTHER -> Params({}, {})

\* The methods that hand on a list of symbols.
ForSymbols == {"subscribe", "unsubscribe", "subscribeDepth", "unsubscribeDepth"}

\* p is what the type of the method's parameters allows; an id and a volume are positive,
\* a credential is not empty.
MayBeGiven(method, p) ==
    /\ ParamsOf(method).required \subseteq DOMAIN p
    /\ DOMAIN p \subseteq ParamsOf(method).required \cup ParamsOf(method).optional
    /\ \A f \in DOMAIN p \cap {"orderId", "positionId", "volume"} : p[f] \in Nat \ {0}
    /\ "symbolId" \in DOMAIN p /\ method \notin ForSymbols => p.symbolId \in Nat \ {0}
    /\ "volumes" \in DOMAIN p => \A i \in DOMAIN p.volumes : p.volumes[i] \in Nat
    /\ \A f \in DOMAIN p \cap {"clientId", "clientSecret", "accessToken"} : p[f] # ""

-----------------------------------------------------------------------------
(* Trading.                                                                   *)

\* Mutant of encodeNewOrderReq: the side is left to the generated encoder.
MutEncodeNewOrderReq(request) ==
    appendRequiredEnumIfDropped(Encode(ProtoOANewOrderReq, request), 4, request.orderType,
                                ProtoOAOrderType.MARKET)

encodeNewOrderReq(request) ==
    appendRequiredEnumIfDropped(
        appendRequiredEnumIfDropped(Encode(ProtoOANewOrderReq, request), 4,
                                    request.orderType, ProtoOAOrderType.MARKET),
        5, request.tradeSide, ProtoOATradeSide.BUY)

\* placeOrder.
placeOrder(orderType, params) ==
    Request(ProtoOAPayloadType.PROTO_OA_NEW_ORDER_REQ,
        encodeNewOrderReq(FromPartial(ProtoOANewOrderReq,
            ForAccount ++ [orderType |-> orderType] ++ InCents(params)
            ++ Copied(params,
                {"symbolId", "tradeSide", "limitPrice", "stopPrice", "timeInForce",
                 "expirationTimestamp", "stopLoss", "takeProfit", "trailingStopLoss",
                 "guaranteedStopLoss", "stopTriggerMethod", "baseSlippagePrice",
                 "slippageInPoints", "comment", "label", "clientOrderId", "positionId"}))))

placeMarketOrder(params) == placeOrder(ProtoOAOrderType.MARKET, params)
placeLimitOrder(params) == placeOrder(ProtoOAOrderType.LIMIT, params)
placeStopOrder(params) == placeOrder(ProtoOAOrderType.STOP, params)
placeStopLimitOrder(params) == placeOrder(ProtoOAOrderType.STOP_LIMIT, params)
placeMarketRangeOrder(params) == placeOrder(ProtoOAOrderType.MARKET_RANGE, params)

amendOrder(params) ==
    Request(ProtoOAPayloadType.PROTO_OA_AMEND_ORDER_REQ,
        Encode(ProtoOAAmendOrderReq, FromPartial(ProtoOAAmendOrderReq,
            ForAccount ++ InCents(params)
            ++ Copied(params, {"orderId", "limitPrice", "stopPrice", "stopLoss",
                               "takeProfit", "expirationTimestamp"}))))

amendPositionStopLossTakeProfit(params) ==
    Request(ProtoOAPayloadType.PROTO_OA_AMEND_POSITION_SLTP_REQ,
        Encode(ProtoOAAmendPositionSLTPReq, FromPartial(ProtoOAAmendPositionSLTPReq,
            ForAccount
            ++ Copied(params, {"positionId", "stopLoss", "takeProfit", "trailingStopLoss",
                               "guaranteedStopLoss", "stopLossTriggerMethod"}))))

cancelOrder(params) ==
    Request(ProtoOAPayloadType.PROTO_OA_CANCEL_ORDER_REQ,
        Encode(ProtoOACancelOrderReq, FromPartial(ProtoOACancelOrderReq,
            ForAccount ++ Copied(params, {"orderId"}))))

closePosition(params) ==
    Request(ProtoOAPayloadType.PROTO_OA_CLOSE_POSITION_REQ,
        Encode(ProtoOAClosePositionReq, FromPartial(ProtoOAClosePositionReq,
            ForAccount ++ InCents(params) ++ Copied(params, {"positionId"}))))

getOpenPositionsAndOrders(params) ==
    Request(ProtoOAPayloadType.PROTO_OA_RECONCILE_REQ,
        Encode(ProtoOAReconcileReq, FromPartial(ProtoOAReconcileReq, ForAccount)))

-----------------------------------------------------------------------------
(* Account.                                                                   *)

\* getTrader, which getBalance calls.
getTrader(params) ==
    Request(ProtoOAPayloadType.PROTO_OA_TRADER_REQ,
        Encode(ProtoOATraderReq, FromPartial(ProtoOATraderReq, ForAccount)))

getAssets(params) ==
    Request(ProtoOAPayloadType.PROTO_OA_ASSET_LIST_REQ,
        Encode(ProtoOAAssetListReq, FromPartial(ProtoOAAssetListReq, ForAccount)))

getExpectedMargin(params) ==
    Request(ProtoOAPayloadType.PROTO_OA_EXPECTED_MARGIN_REQ,
        Encode(ProtoOAExpectedMarginReq, FromPartial(ProtoOAExpectedMarginReq,
            ForAccount ++ Copied(params, {"symbolId"})
            ++ [volume |-> [i \in DOMAIN params.volumes |->
                                params.volumes[i] * SPOTWARE_VOLUME_SCALE]])))

getPositionsUnrealizedPnL(params) ==
    Request(ProtoOAPayloadType.PROTO_OA_GET_POSITION_UNREALIZED_PNL_REQ,
        Encode(ProtoOAGetPositionUnrealizedPnLReq,
            FromPartial(ProtoOAGetPositionUnrealizedPnLReq, ForAccount)))

getMarginCalls(params) ==
    Request(ProtoOAPayloadType.PROTO_OA_MARGIN_CALL_LIST_REQ,
        Encode(ProtoOAMarginCallListReq, FromPartial(ProtoOAMarginCallListReq, ForAccount)))

-----------------------------------------------------------------------------
(* History.                                                                   *)

getDeals(params) ==
    Request(ProtoOAPayloadType.PROTO_OA_DEAL_LIST_REQ,
        Encode(ProtoOADealListReq, FromPartial(ProtoOADealListReq,
            ForAccount ++ Copied(params, {"fromTimestamp", "toTimestamp", "maxRows"}))))

getDealsByPositionId(params) ==
    Request(ProtoOAPayloadType.PROTO_OA_DEAL_LIST_BY_POSITION_ID_REQ,
        Encode(ProtoOADealListByPositionIdReq, FromPartial(ProtoOADealListByPositionIdReq,
            ForAccount ++ Copied(params, {"positionId", "fromTimestamp", "toTimestamp"}))))

getOrders(params) ==
    Request(ProtoOAPayloadType.PROTO_OA_ORDER_LIST_REQ,
        Encode(ProtoOAOrderListReq, FromPartial(ProtoOAOrderListReq,
            ForAccount ++ Copied(params, {"fromTimestamp", "toTimestamp"}))))

encodeCashFlowHistoryListReq(request) ==
    appendRequiredInt64IfDropped(
        appendRequiredInt64IfDropped(Encode(ProtoOACashFlowHistoryListReq, request), 3,
                                     request.fromTimestamp),
        4, request.toTimestamp)

\* getCashFlow throws a RangeError, and sends nothing, if this does not hold.
WithinCashFlowRange(params) ==
    params.toTimestamp - params.fromTimestamp <= MAX_CASH_FLOW_RANGE_MS

getCashFlow(params) ==
    Request(ProtoOAPayloadType.PROTO_OA_CASH_FLOW_HISTORY_LIST_REQ,
        encodeCashFlowHistoryListReq(FromPartial(ProtoOACashFlowHistoryListReq,
            ForAccount ++ Copied(params, {"fromTimestamp", "toTimestamp"}))))

-----------------------------------------------------------------------------
(* Market data and symbols.                                                   *)

encodeGetTrendbarsReq(request) ==
    appendRequiredEnumIfDropped(Encode(ProtoOAGetTrendbarsReq, request), 5, request.period,
                                ProtoOATrendbarPeriod.M1)

getTrendbars(params) ==
    Request(ProtoOAPayloadType.PROTO_OA_GET_TRENDBARS_REQ,
        encodeGetTrendbarsReq(FromPartial(ProtoOAGetTrendbarsReq,
            ForAccount ++ Copied(params, {"symbolId", "period", "fromTimestamp",
                                          "toTimestamp", "count"}))))

encodeGetTickDataReq(request) ==
    appendRequiredEnumIfDropped(Encode(ProtoOAGetTickDataReq, request), 4, request.type,
                                ProtoOAQuoteType.BID)

getTickData(params) ==
    Request(ProtoOAPayloadType.PROTO_OA_GET_TICKDATA_REQ,
        encodeGetTickDataReq(FromPartial(ProtoOAGetTickDataReq,
            ForAccount ++ Copied(params, {"symbolId", "type", "fromTimestamp",
                                          "toTimestamp"}))))

\* subscribe, and resubscribeSpots with all the symbols at once.
subscribe(params) ==
    Request(ProtoOAPayloadType.PROTO_OA_SUBSCRIBE_SPOTS_REQ,
        Encode(ProtoOASubscribeSpotsReq, FromPartial(ProtoOASubscribeSpotsReq,
            ForAccount ++ Copied(params, {"symbolId"}))))

unsubscribe(params) ==
    Request(ProtoOAPayloadType.PROTO_OA_UNSUBSCRIBE_SPOTS_REQ,
        Encode(ProtoOAUnsubscribeSpotsReq, FromPartial(ProtoOAUnsubscribeSpotsReq,
            ForAccount ++ Copied(params, {"symbolId"}))))

subscribeDepth(params) ==
    Request(ProtoOAPayloadType.PROTO_OA_SUBSCRIBE_DEPTH_QUOTES_REQ,
        Encode(ProtoOASubscribeDepthQuotesReq, FromPartial(ProtoOASubscribeDepthQuotesReq,
            ForAccount ++ Copied(params, {"symbolId"}))))

unsubscribeDepth(params) ==
    Request(ProtoOAPayloadType.PROTO_OA_UNSUBSCRIBE_DEPTH_QUOTES_REQ,
        Encode(ProtoOAUnsubscribeDepthQuotesReq, FromPartial(ProtoOAUnsubscribeDepthQuotesReq,
            ForAccount ++ Copied(params, {"symbolId"}))))

encodeSubscribeLiveTrendbarReq(request) ==
    appendRequiredEnumIfDropped(Encode(ProtoOASubscribeLiveTrendbarReq, request), 3,
                                request.period, ProtoOATrendbarPeriod.M1)

subscribeLiveTrendbars(params) ==
    Request(ProtoOAPayloadType.PROTO_OA_SUBSCRIBE_LIVE_TRENDBAR_REQ,
        encodeSubscribeLiveTrendbarReq(FromPartial(ProtoOASubscribeLiveTrendbarReq,
            ForAccount ++ Copied(params, {"symbolId", "period"}))))

encodeUnsubscribeLiveTrendbarReq(request) ==
    appendRequiredEnumIfDropped(Encode(ProtoOAUnsubscribeLiveTrendbarReq, request), 3,
                                request.period, ProtoOATrendbarPeriod.M1)

unsubscribeLiveTrendbars(params) ==
    Request(ProtoOAPayloadType.PROTO_OA_UNSUBSCRIBE_LIVE_TRENDBAR_REQ,
        encodeUnsubscribeLiveTrendbarReq(FromPartial(ProtoOAUnsubscribeLiveTrendbarReq,
            ForAccount ++ Copied(params, {"symbolId", "period"}))))

fetchSymbols(params) ==
    Request(ProtoOAPayloadType.PROTO_OA_SYMBOLS_LIST_REQ,
        Encode(ProtoOASymbolsListReq, FromPartial(ProtoOASymbolsListReq, ForAccount)))

fetchFullSymbol(params) ==
    Request(ProtoOAPayloadType.PROTO_OA_SYMBOL_BY_ID_REQ,
        Encode(ProtoOASymbolByIdReq, FromPartial(ProtoOASymbolByIdReq,
            ForAccount ++ [symbolId |-> <<params.symbolId>>])))

-----------------------------------------------------------------------------
(* The handshake and the discovery of accounts.                               *)

authenticateApplication(params) ==
    Request(ProtoOAPayloadType.PROTO_OA_APPLICATION_AUTH_REQ,
        Encode(ProtoOAApplicationAuthReq, FromPartial(ProtoOAApplicationAuthReq,
            Copied(params, {"clientId", "clientSecret"}))))

authenticateAccount(params) ==
    Request(ProtoOAPayloadType.PROTO_OA_ACCOUNT_AUTH_REQ,
        Encode(ProtoOAAccountAuthReq, FromPartial(ProtoOAAccountAuthReq,
            ForAccount ++ Copied(params, {"accessToken"}))))

listAccounts(params) ==
    Request(ProtoOAPayloadType.PROTO_OA_GET_ACCOUNTS_BY_ACCESS_TOKEN_REQ,
        Encode(ProtoOAGetAccountListByAccessTokenReq,
            FromPartial(ProtoOAGetAccountListByAccessTokenReq,
                        Copied(params, {"accessToken"}))))
=============================================================================
