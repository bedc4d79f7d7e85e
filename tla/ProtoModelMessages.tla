-------------------------- MODULE ProtoModelMessages --------------------------
(***************************************************************************)
(* The parts of messages, and the enumerations, generated into               *)
(* src/src/types/generated/OpenApiModelMessages.ts, as far as the library     *)
(* uses them: for every field the tag encode writes and decode expects, the   *)
(* default of createBase at which encode leaves it out, and whether           *)
(* src/proto/OpenApiModelMessages.proto requires it.                         *)
(***************************************************************************)
EXTENDS ProtoWire

ProtoOAPayloadType ==
    [PROTO_OA_APPLICATION_AUTH_REQ |-> 2100, PROTO_OA_APPLICATION_AUTH_RES |-> 2101,
     PROTO_OA_ACCOUNT_AUTH_REQ |-> 2102, PROTO_OA_ACCOUNT_AUTH_RES |-> 2103,
     PROTO_OA_NEW_ORDER_REQ |-> 2106, PROTO_OA_TRAILING_SL_CHANGED_EVENT |-> 2107,
     PROTO_OA_CANCEL_ORDER_REQ |-> 2108, PROTO_OA_AMEND_ORDER_REQ |-> 2109,
     PROTO_OA_AMEND_POSITION_SLTP_REQ |-> 2110, PROTO_OA_CLOSE_POSITION_REQ |-> 2111,
     PROTO_OA_ASSET_LIST_REQ |-> 2112, PROTO_OA_ASSET_LIST_RES |-> 2113,
     PROTO_OA_SYMBOLS_LIST_REQ |-> 2114, PROTO_OA_SYMBOLS_LIST_RES |-> 2115,
     PROTO_OA_SYMBOL_BY_ID_REQ |-> 2116, PROTO_OA_SYMBOL_BY_ID_RES |-> 2117,
     PROTO_OA_TRADER_REQ |-> 2121, PROTO_OA_TRADER_RES |-> 2122,
     PROTO_OA_TRADER_UPDATE_EVENT |-> 2123, PROTO_OA_RECONCILE_REQ |-> 2124,
     PROTO_OA_RECONCILE_RES |-> 2125, PROTO_OA_EXECUTION_EVENT |-> 2126,
     PROTO_OA_SUBSCRIBE_SPOTS_REQ |-> 2127, PROTO_OA_SUBSCRIBE_SPOTS_RES |-> 2128,
     PROTO_OA_UNSUBSCRIBE_SPOTS_REQ |-> 2129, PROTO_OA_UNSUBSCRIBE_SPOTS_RES |-> 2130,
     PROTO_OA_SPOT_EVENT |-> 2131, PROTO_OA_ORDER_ERROR_EVENT |-> 2132,
     PROTO_OA_DEAL_LIST_REQ |-> 2133, PROTO_OA_DEAL_LIST_RES |-> 2134,
     PROTO_OA_SUBSCRIBE_LIVE_TRENDBAR_REQ |-> 2135,
     PROTO_OA_UNSUBSCRIBE_LIVE_TRENDBAR_REQ |-> 2136, PROTO_OA_GET_TRENDBARS_REQ |-> 2137,
     PROTO_OA_GET_TRENDBARS_RES |-> 2138, PROTO_OA_EXPECTED_MARGIN_REQ |-> 2139,
     PROTO_OA_EXPECTED_MARGIN_RES |-> 2140, PROTO_OA_MARGIN_CHANGED_EVENT |-> 2141,
     PROTO_OA_ERROR_RES |-> 2142, PROTO_OA_CASH_FLOW_HISTORY_LIST_REQ |-> 2143,
     PROTO_OA_CASH_FLOW_HISTORY_LIST_RES |-> 2144, PROTO_OA_GET_TICKDATA_REQ |-> 2145,
     PROTO_OA_GET_TICKDATA_RES |-> 2146,
     PROTO_OA_ACCOUNTS_TOKEN_INVALIDATED_EVENT |-> 2147,
     PROTO_OA_GET_ACCOUNTS_BY_ACCESS_TOKEN_REQ |-> 2149,
     PROTO_OA_GET_ACCOUNTS_BY_ACCESS_TOKEN_RES |-> 2150, PROTO_OA_DEPTH_EVENT |-> 2155,
     PROTO_OA_SUBSCRIBE_DEPTH_QUOTES_REQ |-> 2156,
     PROTO_OA_SUBSCRIBE_DEPTH_QUOTES_RES |-> 2157,
     PROTO_OA_UNSUBSCRIBE_DEPTH_QUOTES_REQ |-> 2158,
     PROTO_OA_UNSUBSCRIBE_DEPTH_QUOTES_RES |-> 2159,
     PROTO_OA_ACCOUNT_DISCONNECT_EVENT |-> 2164,
     PROTO_OA_SUBSCRIBE_LIVE_TRENDBAR_RES |-> 2165,
     PROTO_OA_UNSUBSCRIBE_LIVE_TRENDBAR_RES |-> 2166,
     PROTO_OA_MARGIN_CALL_LIST_REQ |-> 2167, PROTO_OA_MARGIN_CALL_LIST_RES |-> 2168,
     PROTO_OA_MARGIN_CALL_UPDATE_EVENT |-> 2171,
     PROTO_OA_MARGIN_CALL_TRIGGER_EVENT |-> 2172, PROTO_OA_ORDER_LIST_REQ |-> 2175,
     PROTO_OA_ORDER_LIST_RES |-> 2176,
     PROTO_OA_DEAL_LIST_BY_POSITION_ID_REQ |-> 2179,
     PROTO_OA_DEAL_LIST_BY_POSITION_ID_RES |-> 2180,
     PROTO_OA_GET_POSITION_UNREALIZED_PNL_REQ |-> 2187,
     PROTO_OA_GET_POSITION_UNREALIZED_PNL_RES |-> 2188]

ProtoOAOrderType ==
    [MARKET |-> 1, LIMIT |-> 2, STOP |-> 3, STOP_LOSS_TAKE_PROFIT |-> 4,
     MARKET_RANGE |-> 5, STOP_LIMIT |-> 6]

ProtoOATradeSide ==
    [BUY |-> 1, SELL |-> 2]

ProtoOAOrderStatus ==
    [ORDER_STATUS_ACCEPTED |-> 1, ORDER_STATUS_FILLED |-> 2, ORDER_STATUS_REJECTED |-> 3,
     ORDER_STATUS_EXPIRED |-> 4, ORDER_STATUS_CANCELLED |-> 5]

ProtoOAPositionStatus ==
    [POSITION_STATUS_OPEN |-> 1, POSITION_STATUS_CLOSED |-> 2,
     POSITION_STATUS_CREATED |-> 3, POSITION_STATUS_ERROR |-> 4]

ProtoOAExecutionType ==
    [ORDER_ACCEPTED |-> 2, ORDER_FILLED |-> 3, ORDER_REPLACED |-> 4, ORDER_CANCELLED |-> 5,
     ORDER_EXPIRED |-> 6, ORDER_REJECTED |-> 7, ORDER_CANCEL_REJECTED |-> 8, SWAP |-> 9,
     DEPOSIT_WITHDRAW |-> 10, ORDER_PARTIAL_FILL |-> 11, BONUS_DEPOSIT_WITHDRAW |-> 12]

ProtoOATrendbarPeriod ==
    [M1 |-> 1, M2 |-> 2, M3 |-> 3, M4 |-> 4, M5 |-> 5, M10 |-> 6, M15 |-> 7, M30 |-> 8,
     H1 |-> 9, H4 |-> 10, H12 |-> 11, D1 |-> 12, W1 |-> 13, MN1 |-> 14]

ProtoOAQuoteType ==
    [BID |-> 1, ASK |-> 2]

-----------------------------------------------------------------------------
ProtoOAAsset ==
    [assetId |-> Required(8, 0), name |-> Required(18, ""),
     displayName |-> Optional(26, ""), digits |-> Optional(32, 0)]

ProtoOAInterval ==
    [startSecond |-> Required(24, 0), endSecond |-> Required(32, 0)]

ProtoOAHoliday ==
    [holidayId |-> Required(8, 0), name |-> Required(18, ""),
     description |-> Optional(26, ""), scheduleTimeZone |-> Required(34, ""),
     holidayDate |-> Required(40, 0), isRecurring |-> Required(48, FALSE),
     startSecond |-> Optional(56, 0), endSecond |-> Optional(64, 0)]

ProtoOASymbol ==
    [symbolId |-> Required(8, 0), digits |-> Required(16, 0),
     pipPosition |-> Required(24, 0), enableShortSelling |-> Optional(32, FALSE),
     guaranteedStopLoss |-> Optional(40, FALSE), swapRollover3Days |-> Optional(48, 1),
     swapLong |-> Optional(57, 0), swapShort |-> Optional(65, 0),
     maxVolume |-> Optional(72, 0), minVolume |-> Optional(80, 0),
     stepVolume |-> Optional(88, 0), maxExposure |-> Optional(96, 0),
     schedule |-> Messages(106, ProtoOAInterval), commission |-> Optional(112, 0),
     commissionType |-> Optional(120, 1), slDistance |-> Optional(128, 0),
     tpDistance |-> Optional(136, 0), gslDistance |-> Optional(144, 0),
     gslCharge |-> Optional(152, 0), distanceSetIn |-> Optional(160, 1),
     minCommission |-> Optional(168, 0), minCommissionType |-> Optional(176, 1),
     minCommissionAsset |-> Optional(186, "USD"), rolloverCommission |-> Optional(192, 0),
     skipRolloverDays |-> Optional(200, 0), scheduleTimeZone |-> Optional(210, ""),
     tradingMode |-> Optional(216, 0), rolloverCommission3Days |-> Optional(224, 1),
     swapCalculationType |-> Optional(232, 0), lotSize |-> Optional(240, 0),
     preciseTradingCommissionRate |-> Optional(248, 0),
     preciseMinCommission |-> Optional(256, 0), holiday |-> Messages(266, ProtoOAHoliday),
     pnlConversionFeeRate |-> Optional(272, 0), leverageId |-> Optional(280, 0),
     swapPeriod |-> Optional(288, 0), swapTime |-> Optional(296, 0),
     skipSWAPPeriods |-> Optional(304, 0), chargeSwapAtWeekends |-> Optional(312, FALSE),
     measurementUnits |-> Optional(322, "")]

ProtoOALightSymbol ==
    [symbolId |-> Required(8, 0), symbolName |-> Optional(18, ""),
     enabled |-> Optional(24, FALSE), baseAssetId |-> Optional(32, 0),
     quoteAssetId |-> Optional(40, 0), symbolCategoryId |-> Optional(48, 0),
     description |-> Optional(58, ""), sortingNumber |-> Optional(65, 0)]

ProtoOAArchivedSymbol ==
    [symbolId |-> Required(8, 0), name |-> Required(18, ""),
     utcLastUpdateTimestamp |-> Required(24, 0), description |-> Optional(34, "")]

ProtoOATrader ==
    [ctidTraderAccountId |-> Required(8, 0), balance |-> Required(16, 0),
     balanceVersion |-> Optional(24, 0), managerBonus |-> Optional(32, 0),
     ibBonus |-> Optional(40, 0), nonWithdrawableBonus |-> Optional(48, 0),
     accessRights |-> Optional(56, 0), depositAssetId |-> Required(64, 0),
     swapFree |-> Optional(72, FALSE), leverageInCents |-> Optional(80, 0),
     totalMarginCalculationType |-> Optional(88, 0), maxLeverage |-> Optional(96, 0),
     frenchRisk |-> Optional(104, FALSE), traderLogin |-> Optional(112, 0),
     accountType |-> Optional(120, 0), brokerName |-> Optional(130, ""),
     registrationTimestamp |-> Optional(136, 0), isLimitedRisk |-> Optional(144, FALSE),
     limitedRiskMarginCalculationStrategy |-> Optional(152, 0),
     moneyDigits |-> Optional(160, 0), fairStopOut |-> Optional(168, FALSE),
     stopOutStrategy |-> Optional(176, 0)]

ProtoOATradeData ==
    [symbolId |-> Required(8, 0), volume |-> Required(16, 0),
     tradeSide |-> Required(24, 1), openTimestamp |-> Optional(32, 0),
     label |-> Optional(42, ""), guaranteedStopLoss |-> Optional(48, FALSE),
     comment |-> Optional(58, ""), measurementUnits |-> Optional(66, ""),
     closeTimestamp |-> Optional(72, 0)]

ProtoOAPosition ==
    [positionId |-> Required(8, 0), tradeData |-> RequiredMessage(18, ProtoOATradeData),
     positionStatus |-> Required(24, 1), swap |-> Required(32, 0),
     price |-> Optional(41, 0), stopLoss |-> Optional(49, 0),
     takeProfit |-> Optional(57, 0), utcLastUpdateTimestamp |-> Optional(64, 0),
     commission |-> Optional(72, 0), marginRate |-> Optional(81, 0),
     mirroringCommission |-> Optional(88, 0), guaranteedStopLoss |-> Optional(96, FALSE),
     usedMargin |-> Optional(104, 0), stopLossTriggerMethod |-> Optional(112, 1),
     moneyDigits |-> Optional(120, 0), trailingStopLoss |-> Optional(128, FALSE)]

ProtoOAOrder ==
    [orderId |-> Required(8, 0), tradeData |-> RequiredMessage(18, ProtoOATradeData),
     orderType |-> Required(24, 1), orderStatus |-> Required(32, 1),
     expirationTimestamp |-> Optional(48, 0), executionPrice |-> Optional(57, 0),
     executedVolume |-> Optional(64, 0), utcLastUpdateTimestamp |-> Optional(72, 0),
     baseSlippagePrice |-> Optional(81, 0), slippageInPoints |-> Optional(88, 0),
     closingOrder |-> Optional(96, FALSE), limitPrice |-> Optional(105, 0),
     stopPrice |-> Optional(113, 0), stopLoss |-> Optional(121, 0),
     takeProfit |-> Optional(129, 0), clientOrderId |-> Optional(138, ""),
     timeInForce |-> Optional(144, 3), positionId |-> Optional(152, 0),
     relativeStopLoss |-> Optional(160, 0), relativeTakeProfit |-> Optional(168, 0),
     isStopOut |-> Optional(176, FALSE), trailingStopLoss |-> Optional(184, FALSE),
     stopTriggerMethod |-> Optional(192, 1)]

ProtoOABonusDepositWithdraw ==
    [operationType |-> Required(8, 0), bonusHistoryId |-> Required(16, 0),
     managerBonus |-> Required(24, 0), managerDelta |-> Required(32, 0),
     ibBonus |-> Required(40, 0), ibDelta |-> Required(48, 0),
     changeBonusTimestamp |-> Required(56, 0), externalNote |-> Optional(66, ""),
     introducingBrokerId |-> Optional(72, 0), moneyDigits |-> Optional(80, 0)]

ProtoOADepositWithdraw ==
    [operationType |-> Required(8, 0), balanceHistoryId |-> Required(16, 0),
     balance |-> Required(24, 0), delta |-> Required(32, 0),
     changeBalanceTimestamp |-> Required(40, 0), externalNote |-> Optional(50, ""),
     balanceVersion |-> Optional(56, 0), equity |-> Optional(64, 0),
     moneyDigits |-> Optional(72, 0)]

ProtoOAClosePositionDetail ==
    [entryPrice |-> Required(9, 0), grossProfit |-> Required(16, 0),
     swap |-> Required(24, 0), commission |-> Required(32, 0), balance |-> Required(40, 0),
     quoteToDepositConversionRate |-> Optional(49, 0), closedVolume |-> Optional(56, 0),
     balanceVersion |-> Optional(64, 0), moneyDigits |-> Optional(72, 0),
     pnlConversionFee |-> Optional(80, 0)]

ProtoOADeal ==
    [dealId |-> Required(8, 0), orderId |-> Required(16, 0),
     positionId |-> Required(24, 0), volume |-> Required(32, 0),
     filledVolume |-> Required(40, 0), symbolId |-> Required(48, 0),
     createTimestamp |-> Required(56, 0), executionTimestamp |-> Required(64, 0),
     utcLastUpdateTimestamp |-> Optional(72, 0), executionPrice |-> Optional(81, 0),
     tradeSide |-> Required(88, 1), dealStatus |-> Required(96, 2),
     marginRate |-> Optional(105, 0), commission |-> Optional(112, 0),
     baseToUsdConversionRate |-> Optional(121, 0),
     closePositionDetail |-> Message(130, ProtoOAClosePositionDetail),
     moneyDigits |-> Optional(136, 0)]

ProtoOATrendbar ==
    [volume |-> Required(24, 0), period |-> Optional(32, 1), low |-> Optional(40, 0),
     deltaOpen |-> Optional(48, 0), deltaClose |-> Optional(56, 0),
     deltaHigh |-> Optional(64, 0), utcTimestampInMinutes |-> Optional(72, 0)]

ProtoOAExpectedMargin ==
    [volume |-> Required(8, 0), buyMargin |-> Required(16, 0),
     sellMargin |-> Required(24, 0)]

ProtoOATickData ==
    [timestamp |-> Required(8, 0), tick |-> Required(16, 0)]

ProtoOACtidTraderAccount ==
    [ctidTraderAccountId |-> Required(8, 0), isLive |-> Optional(16, FALSE),
     traderLogin |-> Optional(24, 0), lastClosingDealTimestamp |-> Optional(32, 0),
     lastBalanceUpdateTimestamp |-> Optional(40, 0), brokerTitleShort |-> Optional(50, "")]

ProtoOADepthQuote ==
    [id |-> Required(8, 0), size |-> Required(24, 0), bid |-> Optional(32, 0),
     ask |-> Optional(40, 0)]

ProtoOAMarginCall ==
    [marginCallType |-> Required(8, 61), marginLevelThreshold |-> Required(17, 0),
     utcLastUpdateTimestamp |-> Optional(24, 0)]

ProtoOAPositionUnrealizedPnL ==
    [positionId |-> Required(8, 0), grossUnrealizedPnL |-> Required(16, 0),
     netUnrealizedPnL |-> Required(24, 0)]
=============================================================================
