----------------------------- MODULE ProtoMessages -----------------------------
(***************************************************************************)
(* The messages of src/src/types/generated/OpenApiMessages.ts and            *)
(* OpenApiCommonMessages.ts that the library sends or reads, in the form of   *)
(* module ProtoModelMessages.                                                *)
(***************************************************************************)
EXTENDS ProtoModelMessages

ProtoPayloadType == [ERROR_RES |-> 50]

ProtoMessage ==
    [payloadType |-> Required(8, 0), payload |-> Optional(18, <<>>),
     clientMsgId |-> Optional(26, "")]

ProtoErrorRes ==
    [payloadType |-> Optional(8, 50), errorCode |-> Required(18, ""),
     description |-> Optional(26, ""), maintenanceEndTimestamp |-> Optional(32, 0)]

ProtoOAApplicationAuthReq ==
    [payloadType |-> Optional(8, 2100), clientId |-> Required(18, ""),
     clientSecret |-> Required(26, "")]

ProtoOAAccountAuthReq ==
    [payloadType |-> Optional(8, 2102), ctidTraderAccountId |-> Required(16, 0),
     accessToken |-> Required(26, "")]

ProtoOAErrorRes ==
    [payloadType |-> Optional(8, 2142), ctidTraderAccountId |-> Optional(16, 0),
     errorCode |-> Required(26, ""), description |-> Optional(34, ""),
     maintenanceEndTimestamp |-> Optional(40, 0), retryAfter |-> Optional(48, 0)]

ProtoOAAccountsTokenInvalidatedEvent ==
    [payloadType |-> Optional(8, 2147), ctidTraderAccountIds |-> Repeated(16),
     reason |-> Optional(26, "")]

ProtoOANewOrderReq ==
    [payloadType |-> Optional(8, 2106), ctidTraderAccountId |-> Required(16, 0),
     symbolId |-> Required(24, 0), orderType |-> Required(32, 1),
     tradeSide |-> Required(40, 1), volume |-> Required(48, 0),
     limitPrice |-> Optional(57, 0), stopPrice |-> Optional(65, 0),
     timeInForce |-> Optional(72, 2), expirationTimestamp |-> Optional(80, 0),
     stopLoss |-> Optional(89, 0), takeProfit |-> Optional(97, 0),
     comment |-> Optional(106, ""), baseSlippagePrice |-> Optional(113, 0),
     slippageInPoints |-> Optional(120, 0), label |-> Optional(130, ""),
     positionId |-> Optional(136, 0), clientOrderId |-> Optional(146, ""),
     relativeStopLoss |-> Optional(152, 0), relativeTakeProfit |-> Optional(160, 0),
     guaranteedStopLoss |-> Optional(168, FALSE),
     trailingStopLoss |-> Optional(176, FALSE), stopTriggerMethod |-> Optional(184, 1)]

ProtoOAExecutionEvent ==
    [payloadType |-> Optional(8, 2126), ctidTraderAccountId |-> Required(16, 0),
     executionType |-> Required(24, 2), position |-> Message(34, ProtoOAPosition),
     order |-> Message(42, ProtoOAOrder), deal |-> Message(50, ProtoOADeal),
     bonusDepositWithdraw |-> Message(58, ProtoOABonusDepositWithdraw),
     depositWithdraw |-> Message(66, ProtoOADepositWithdraw),
     errorCode |-> Optional(74, ""), isServerEvent |-> Optional(80, FALSE)]

ProtoOACancelOrderReq ==
    [payloadType |-> Optional(8, 2108), ctidTraderAccountId |-> Required(16, 0),
     orderId |-> Required(24, 0)]

ProtoOAAmendOrderReq ==
    [payloadType |-> Optional(8, 2109), ctidTraderAccountId |-> Required(16, 0),
     orderId |-> Required(24, 0), volume |-> Optional(32, 0),
     limitPrice |-> Optional(41, 0), stopPrice |-> Optional(49, 0),
     expirationTimestamp |-> Optional(56, 0), stopLoss |-> Optional(65, 0),
     takeProfit |-> Optional(73, 0), slippageInPoints |-> Optional(80, 0),
     relativeStopLoss |-> Optional(88, 0), relativeTakeProfit |-> Optional(96, 0),
     guaranteedStopLoss |-> Optional(104, FALSE),
     trailingStopLoss |-> Optional(112, FALSE), stopTriggerMethod |-> Optional(120, 1)]

ProtoOAAmendPositionSLTPReq ==
    [payloadType |-> Optional(8, 2110), ctidTraderAccountId |-> Required(16, 0),
     positionId |-> Required(24, 0), stopLoss |-> Optional(33, 0),
     takeProfit |-> Optional(41, 0), guaranteedStopLoss |-> Optional(56, FALSE),
     trailingStopLoss |-> Optional(64, FALSE), stopLossTriggerMethod |-> Optional(72, 1)]

ProtoOAClosePositionReq ==
    [payloadType |-> Optional(8, 2111), ctidTraderAccountId |-> Required(16, 0),
     positionId |-> Required(24, 0), volume |-> Required(32, 0)]

ProtoOATrailingSLChangedEvent ==
    [payloadType |-> Optional(8, 2107), ctidTraderAccountId |-> Required(16, 0),
     positionId |-> Required(24, 0), orderId |-> Required(32, 0),
     stopPrice |-> Required(41, 0), utcLastUpdateTimestamp |-> Required(48, 0)]

ProtoOAAssetListReq ==
    [payloadType |-> Optional(8, 2112), ctidTraderAccountId |-> Required(16, 0)]

ProtoOAAssetListRes ==
    [payloadType |-> Optional(8, 2113), ctidTraderAccountId |-> Required(16, 0),
     asset |-> Messages(26, ProtoOAAsset)]

ProtoOASymbolsListReq ==
    [payloadType |-> Optional(8, 2114), ctidTraderAccountId |-> Required(16, 0),
     includeArchivedSymbols |-> Optional(24, FALSE)]

ProtoOASymbolsListRes ==
    [payloadType |-> Optional(8, 2115), ctidTraderAccountId |-> Required(16, 0),
     symbol |-> Messages(26, ProtoOALightSymbol),
     archivedSymbol |-> Messages(34, ProtoOAArchivedSymbol)]

ProtoOASymbolByIdReq ==
    [payloadType |-> Optional(8, 2116), ctidTraderAccountId |-> Required(16, 0),
     symbolId |-> Repeated(24)]

ProtoOASymbolByIdRes ==
    [payloadType |-> Optional(8, 2117), ctidTraderAccountId |-> Required(16, 0),
     symbol |-> Messages(26, ProtoOASymbol),
     archivedSymbol |-> Messages(34, ProtoOAArchivedSymbol)]

ProtoOATraderReq ==
    [payloadType |-> Optional(8, 2121), ctidTraderAccountId |-> Required(16, 0)]

ProtoOATraderRes ==
    [payloadType |-> Optional(8, 2122), ctidTraderAccountId |-> Required(16, 0),
     trader |-> RequiredMessage(26, ProtoOATrader)]

ProtoOATraderUpdatedEvent ==
    [payloadType |-> Optional(8, 2123), ctidTraderAccountId |-> Required(16, 0),
     trader |-> RequiredMessage(26, ProtoOATrader)]

ProtoOAReconcileReq ==
    [payloadType |-> Optional(8, 2124), ctidTraderAccountId |-> Required(16, 0),
     returnProtectionOrders |-> Optional(24, FALSE)]

ProtoOAReconcileRes ==
    [payloadType |-> Optional(8, 2125), ctidTraderAccountId |-> Required(16, 0),
     position |-> Messages(26, ProtoOAPosition), order |-> Messages(34, ProtoOAOrder)]

ProtoOAOrderErrorEvent ==
    [payloadType |-> Optional(8, 2132), ctidTraderAccountId |-> Required(40, 0),
     errorCode |-> Required(18, ""), orderId |-> Optional(24, 0),
     positionId |-> Optional(48, 0), description |-> Optional(58, "")]

ProtoOADealListReq ==
    [payloadType |-> Optional(8, 2133), ctidTraderAccountId |-> Required(16, 0),
     fromTimestamp |-> Optional(24, 0), toTimestamp |-> Optional(32, 0),
     maxRows |-> Optional(40, 0)]

ProtoOADealListRes ==
    [payloadType |-> Optional(8, 2134), ctidTraderAccountId |-> Required(16, 0),
     deal |-> Messages(26, ProtoOADeal), hasMore |-> Required(32, FALSE)]

ProtoOAOrderListReq ==
    [payloadType |-> Optional(8, 2175), ctidTraderAccountId |-> Required(16, 0),
     fromTimestamp |-> Optional(24, 0), toTimestamp |-> Optional(32, 0)]

ProtoOAOrderListRes ==
    [payloadType |-> Optional(8, 2176), ctidTraderAccountId |-> Required(16, 0),
     order |-> Messages(26, ProtoOAOrder), hasMore |-> Required(32, FALSE)]

ProtoOAExpectedMarginReq ==
    [payloadType |-> Optional(8, 2139), ctidTraderAccountId |-> Required(16, 0),
     symbolId |-> Required(24, 0), volume |-> Repeated(32)]

ProtoOAExpectedMarginRes ==
    [payloadType |-> Optional(8, 2140), ctidTraderAccountId |-> Required(16, 0),
     margin |-> Messages(26, ProtoOAExpectedMargin), moneyDigits |-> Optional(32, 0)]

ProtoOAMarginChangedEvent ==
    [payloadType |-> Optional(8, 2141), ctidTraderAccountId |-> Required(16, 0),
     positionId |-> Required(24, 0), usedMargin |-> Required(32, 0),
     moneyDigits |-> Optional(40, 0)]

ProtoOACashFlowHistoryListReq ==
    [payloadType |-> Optional(8, 2143), ctidTraderAccountId |-> Required(16, 0),
     fromTimestamp |-> Required(24, 0), toTimestamp |-> Required(32, 0)]

ProtoOACashFlowHistoryListRes ==
    [payloadType |-> Optional(8, 2144), ctidTraderAccountId |-> Required(16, 0),
     depositWithdraw |-> Messages(26, ProtoOADepositWithdraw)]

ProtoOAGetAccountListByAccessTokenReq ==
    [payloadType |-> Optional(8, 2149), accessToken |-> Required(18, "")]

ProtoOAGetAccountListByAccessTokenRes ==
    [payloadType |-> Optional(8, 2150), accessToken |-> Required(18, ""),
     permissionScope |-> Optional(24, 0),
     ctidTraderAccount |-> Messages(34, ProtoOACtidTraderAccount)]

ProtoOASubscribeSpotsReq ==
    [payloadType |-> Optional(8, 2127), ctidTraderAccountId |-> Required(16, 0),
     symbolId |-> Repeated(24), subscribeToSpotTimestamp |-> Optional(32, FALSE)]

ProtoOAUnsubscribeSpotsReq ==
    [payloadType |-> Optional(8, 2129), ctidTraderAccountId |-> Required(16, 0),
     symbolId |-> Repeated(24)]

ProtoOASpotEvent ==
    [payloadType |-> Optional(8, 2131), ctidTraderAccountId |-> Required(16, 0),
     symbolId |-> Required(24, 0), bid |-> Optional(32, 0), ask |-> Optional(40, 0),
     trendbar |-> Messages(50, ProtoOATrendbar), sessionClose |-> Optional(56, 0),
     timestamp |-> Optional(64, 0)]

ProtoOASubscribeLiveTrendbarReq ==
    [payloadType |-> Optional(8, 2135), ctidTraderAccountId |-> Required(16, 0),
     period |-> Required(24, 1), symbolId |-> Required(32, 0)]

ProtoOAUnsubscribeLiveTrendbarReq ==
    [payloadType |-> Optional(8, 2136), ctidTraderAccountId |-> Required(16, 0),
     period |-> Required(24, 1), symbolId |-> Required(32, 0)]

ProtoOAGetTrendbarsReq ==
    [payloadType |-> Optional(8, 2137), ctidTraderAccountId |-> Required(16, 0),
     fromTimestamp |-> Optional(24, 0), toTimestamp |-> Optional(32, 0),
     period |-> Required(40, 1), symbolId |-> Required(48, 0), count |-> Optional(56, 0)]

ProtoOAGetTrendbarsRes ==
    [payloadType |-> Optional(8, 2138), ctidTraderAccountId |-> Required(16, 0),
     period |-> Required(24, 1), timestamp |-> Optional(32, 0),
     trendbar |-> Messages(42, ProtoOATrendbar), symbolId |-> Optional(48, 0),
     hasMore |-> Optional(56, FALSE)]

ProtoOAGetTickDataReq ==
    [payloadType |-> Optional(8, 2145), ctidTraderAccountId |-> Required(16, 0),
     symbolId |-> Required(24, 0), type |-> Required(32, 1),
     fromTimestamp |-> Optional(40, 0), toTimestamp |-> Optional(48, 0)]

ProtoOAGetTickDataRes ==
    [payloadType |-> Optional(8, 2146), ctidTraderAccountId |-> Required(16, 0),
     tickData |-> Messages(26, ProtoOATickData), hasMore |-> Required(32, FALSE)]

ProtoOADepthEvent ==
    [payloadType |-> Optional(8, 2155), ctidTraderAccountId |-> Required(16, 0),
     symbolId |-> Required(24, 0), newQuotes |-> Messages(34, ProtoOADepthQuote),
     deletedQuotes |-> Repeated(42)]

ProtoOASubscribeDepthQuotesReq ==
    [payloadType |-> Optional(8, 2156), ctidTraderAccountId |-> Required(16, 0),
     symbolId |-> Repeated(24)]

ProtoOAUnsubscribeDepthQuotesReq ==
    [payloadType |-> Optional(8, 2158), ctidTraderAccountId |-> Required(16, 0),
     symbolId |-> Repeated(24)]

ProtoOAMarginCallListReq ==
    [payloadType |-> Optional(8, 2167), ctidTraderAccountId |-> Required(16, 0)]

ProtoOAMarginCallListRes ==
    [payloadType |-> Optional(8, 2168), marginCall |-> Messages(18, ProtoOAMarginCall)]

ProtoOAMarginCallUpdateEvent ==
    [payloadType |-> Optional(8, 2171), ctidTraderAccountId |-> Required(16, 0),
     marginCall |-> RequiredMessage(26, ProtoOAMarginCall)]

ProtoOAMarginCallTriggerEvent ==
    [payloadType |-> Optional(8, 2172), ctidTraderAccountId |-> Required(16, 0),
     marginCall |-> RequiredMessage(26, ProtoOAMarginCall)]

ProtoOADealListByPositionIdReq ==
    [payloadType |-> Optional(8, 2179), ctidTraderAccountId |-> Required(16, 0),
     positionId |-> Required(24, 0), fromTimestamp |-> Optional(32, 0),
     toTimestamp |-> Optional(40, 0)]

ProtoOADealListByPositionIdRes ==
    [payloadType |-> Optional(8, 2180), ctidTraderAccountId |-> Required(16, 0),
     deal |-> Messages(26, ProtoOADeal), hasMore |-> Required(32, FALSE)]

ProtoOAGetPositionUnrealizedPnLReq ==
    [payloadType |-> Optional(8, 2187), ctidTraderAccountId |-> Required(16, 0)]

ProtoOAGetPositionUnrealizedPnLRes ==
    [payloadType |-> Optional(8, 2188), ctidTraderAccountId |-> Required(16, 0),
     positionUnrealizedPnL |-> Messages(26, ProtoOAPositionUnrealizedPnL),
     moneyDigits |-> Required(32, 0)]
=============================================================================
