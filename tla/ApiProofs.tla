------------------------------ MODULE ApiProofs ------------------------------
(***************************************************************************)
(* Theorems about module Api and the modules it is built from.  What goes     *)
(* over the wire is read as it was meant (FlatRoundTrip, OuterRead), and the  *)
(* way of a mutation from its request to its outcome is followed by the        *)
(* inductive invariant IInv, from which TypeOK and OutcomeIsTold follow.      *)
(* Then method by method: the request that it makes of any parameters its     *)
(* type allows says what the call asks (EveryRequestSays), hence               *)
(* RequestsArriveAsAsked.  On the way back the schemas of answers, errors and   *)
(* events are well made, so they are decoded as they were told; method by      *)
(* method, error by error and event by event, what the library makes of them   *)
(* is what they mean (EveryAnswerReads, EveryErrorReads, EveryEventEmits).     *)
(* With it the inductive invariant MInv follows each message to the call it    *)
(* answers, hence AnswersReadAsMeant.                                         *)
(***************************************************************************)
EXTENDS Api, SequenceTheorems, WellFoundedInduction, TLAPS

-----------------------------------------------------------------------------
(* Messages on the wire.                                                      *)

LEMMA EntryMaps == ASSUME NEW k, NEW v PROVE DOMAIN Entry(k, v) = {k} /\ Entry(k, v)[k] = v
BY DEF Entry

LEMMA Completed ==
    ASSUME NEW f, NEW g
    PROVE  /\ DOMAIN (f ++ g) = DOMAIN f \cup DOMAIN g
           /\ \A x \in DOMAIN f : (f ++ g)[x] = f[x]
           /\ \A x \in DOMAIN g \ DOMAIN f : (f ++ g)[x] = g[x]
BY DEF ++

\* A field has a tag of its own.
TagsDiffer(schema) ==
    \A f, g \in DOMAIN schema : schema[f].tag = schema[g].tag => f = g

LEMMA FieldOfTag ==
    ASSUME NEW schema, TagsDiffer(schema), NEW f \in DOMAIN schema
    PROVE  FieldOf(schema, schema[f].tag) = f
BY DEF TagsDiffer, FieldOf

\* What encode wrote under a tag is what it writes for the field that has it.
LEMMA EncodedValues ==
    ASSUME NEW schema, TagsDiffer(schema), NEW message, NEW f \in DOMAIN schema
    PROVE  ValuesAt(Encode(schema, message), schema[f].tag) = Written(schema[f], message[f])
<1> DEFINE wire == Encode(schema, message)
           Tags == {schema[g].tag : g \in {h \in DOMAIN schema :
                                               Written(schema[h], message[h]) # <<>>}}
<1>1. DOMAIN wire = Tags
  BY DEF Encode
<1>2. CASE Written(schema[f], message[f]) # <<>>
  <2>1. schema[f].tag \in Tags
    BY <1>2
  <2>2. wire[schema[f].tag] = Written(schema[FieldOf(schema, schema[f].tag)],
                                      message[FieldOf(schema, schema[f].tag)])
    BY <2>1 DEF Encode
  <2>. QED BY <1>1, <2>1, <2>2, FieldOfTag DEF ValuesAt
<1>3. CASE Written(schema[f], message[f]) = <<>>
  <2>1. schema[f].tag \notin Tags
    BY <1>3 DEF TagsDiffer
  <2>. QED BY <1>1, <1>3, <2>1 DEF ValuesAt
<1>. QED BY <1>2, <1>3

\* A message without nested messages, as every request is.
Flat(schema) ==
    /\ TagsDiffer(schema)
    /\ \A f \in DOMAIN schema :
        \/ schema[f].kind = "scalar"
        \/ schema[f].kind = "scalars" /\ schema[f].default = <<>>

\* Decoding gives back the fields that were encoded, written or left out (the encode and
\* decode functions generated for every request).
THEOREM FlatRoundTrip ==
    ASSUME NEW schema, Flat(schema), NEW message
    PROVE  /\ DOMAIN Decode(schema, Encode(schema, message)) = DOMAIN schema
           /\ \A f \in DOMAIN schema :
                Decode(schema, Encode(schema, message))[f] = message[f]
<1> DEFINE wire == Encode(schema, message)
<1>1. DOMAIN Decode(schema, wire) = DOMAIN schema
  BY DEF Decode, DecodeWith
<1>2. ASSUME NEW f \in DOMAIN schema
      PROVE  Decode(schema, wire)[f] = message[f]
  <2> DEFINE values == ValuesAt(wire, schema[f].tag)
  <2>1. values = Written(schema[f], message[f])
    BY EncodedValues DEF Flat
  <2>2. Decode(schema, wire)[f] = DecodeField(schema[f], values, DecodeMiddle)
    BY DEF Decode, DecodeWith
  <2> HIDE DEF values, wire
  <2>3. CASE schema[f].kind = "scalar"
    <3>1. DecodeField(schema[f], values, DecodeMiddle)
            = IF values = <<>> THEN schema[f].default ELSE Last(values)
      BY <2>3 DEF DecodeField
    <3>2. values = IF message[f] = schema[f].default THEN <<>> ELSE <<message[f]>>
      BY <2>1, <2>3 DEF Written
    <3>3. Last(<<message[f]>>) = message[f] /\ <<message[f]>> # <<>>
      BY DEF Last
    <3>. QED BY <2>2, <3>1, <3>2, <3>3
  <2>4. CASE schema[f].kind = "scalars" /\ schema[f].default = <<>>
    BY <2>1, <2>2, <2>4 DEF DecodeField, Written
  <2>. QED BY <2>3, <2>4 DEF Flat
<1>. QED BY <1>1, <1>2

LEMMA ProtoMessageIsFlat ==
    Flat(ProtoMessage) /\ DOMAIN ProtoMessage = {"payloadType", "payload", "clientMsgId"}
<1>1. DOMAIN ProtoMessage = {"payloadType", "payload", "clientMsgId"}
  BY DEF ProtoMessage
<1>2. /\ ProtoMessage["payloadType"].tag = 8
      /\ ProtoMessage["payload"].tag = 18
      /\ ProtoMessage["clientMsgId"].tag = 26
  BY DEF ProtoMessage, Required, Optional, Field
<1>3. /\ ProtoMessage["payloadType"].kind = "scalar"
      /\ ProtoMessage["payload"].kind = "scalar"
      /\ ProtoMessage["clientMsgId"].kind = "scalar"
  BY DEF ProtoMessage, Required, Optional, Field
<1>. QED BY <1>1, <1>2, <1>3 DEF Flat, TagsDiffer

\* An envelope is read as it was made.
LEMMA EnvelopeRead ==
    ASSUME NEW type, NEW payload, NEW id
    PROVE  LET message == Decode(ProtoMessage, Envelope(type, payload, id))
           IN  message.payloadType = type /\ message.payload = payload
                 /\ message.clientMsgId = id
<1> DEFINE given == [payloadType |-> type, payload |-> payload, clientMsgId |-> id]
<1>1. \A f \in DOMAIN ProtoMessage : FromPartial(ProtoMessage, given)[f] = given[f]
  BY ProtoMessageIsFlat DEF FromPartial
<1>2. \A f \in DOMAIN ProtoMessage :
        Decode(ProtoMessage, Envelope(type, payload, id))[f] = given[f]
  BY <1>1, FlatRoundTrip, ProtoMessageIsFlat DEF Envelope
<1>. QED BY <1>2, ProtoMessageIsFlat

-----------------------------------------------------------------------------
(* What the broker encodes is read as it was meant.                           *)

WellMade(schema) ==
    /\ TagsDiffer(schema)
    /\ \A f \in DOMAIN schema :
        \/ schema[f].kind = "scalar"
        \/ schema[f].kind = "scalars" /\ schema[f].default = <<>>
        \/ schema[f].kind = "message" /\ schema[f].default = Undefined
        \/ schema[f].kind = "messages" /\ schema[f].default = <<>>

Fits(schema, given) == WellMade(schema) /\ DOMAIN given \subseteq DOMAIN schema

\* The messages within a message fit too.
FitsMiddle(schema, given) ==
    /\ Fits(schema, given)
    /\ \A f \in DOMAIN given :
        /\ schema[f].kind = "message" => Fits(schema[f].of, given[f])
        /\ schema[f].kind = "messages" =>
            \A i \in DOMAIN given[f] : Fits(schema[f].of, given[f][i])

FitsOuter(schema, given) ==
    /\ Fits(schema, given)
    /\ \A f \in DOMAIN given :
        /\ schema[f].kind = "message" => FitsMiddle(schema[f].of, given[f])
        /\ schema[f].kind = "messages" =>
            \A i \in DOMAIN given[f] : FitsMiddle(schema[f].of, given[f][i])

\* The values under the tag of a field are those of the field.
LEMMA BrokerValues ==
    ASSUME NEW schema, NEW given, Fits(schema, given), NEW values, NEW wire,
           wire = [tag \in {schema[f].tag : f \in DOMAIN given} |->
                      values[FieldOf(schema, tag)]],
           NEW f \in DOMAIN schema
    PROVE  ValuesAt(wire, schema[f].tag) = IF f \in DOMAIN given THEN values[f] ELSE <<>>
<1> DEFINE Tags == {schema[g].tag : g \in DOMAIN given}
<1>1. DOMAIN wire = Tags
  OBVIOUS
<1>2. CASE f \in DOMAIN given
  <2>1. schema[f].tag \in Tags
    BY <1>2
  <2>2. wire[schema[f].tag] = values[FieldOf(schema, schema[f].tag)]
    BY <2>1
  <2>. QED BY <1>1, <1>2, <2>1, <2>2, FieldOfTag DEF ValuesAt, Fits, WellMade
<1>3. CASE f \notin DOMAIN given
  <2>1. schema[f].tag \notin Tags
    BY <1>3 DEF Fits, WellMade, TagsDiffer
  <2>. QED BY <1>1, <1>3, <2>1 DEF ValuesAt
<1>. QED BY <1>2, <1>3

LEMMA LastOfOne == ASSUME NEW v PROVE Last(<<v>>) = v /\ <<v>> # <<>>
BY DEF Last

LEMMA InnerRead ==
    ASSUME NEW schema, NEW given, Fits(schema, given)
    PROVE  DecodeInner(schema, BrokerEncodeInner(schema, given)) = CompleteInner(schema, given)
<1> DEFINE wire == BrokerEncodeInner(schema, given)
           values == [f \in DOMAIN given |-> BrokerField(schema[f], given[f], NoDeeper)]
<1>1. wire = [tag \in {schema[f].tag : f \in DOMAIN given} |-> values[FieldOf(schema, tag)]]
  <2>1. \A tag \in {schema[f].tag : f \in DOMAIN given} : FieldOf(schema, tag) \in DOMAIN given
    BY FieldOfTag DEF Fits, WellMade
  <2>. QED BY <2>1 DEF BrokerEncodeInner, BrokerEncodeWith
<1>2. \A f \in DOMAIN schema :
        ValuesAt(wire, schema[f].tag) = IF f \in DOMAIN given THEN values[f] ELSE <<>>
  <2> HIDE DEF wire, values
  <2>. QED BY <1>1, BrokerValues
<1>3. ASSUME NEW f \in DOMAIN schema
      PROVE  DecodeField(schema[f], ValuesAt(wire, schema[f].tag), NoDeeper)
              = IF f \in DOMAIN given THEN CompleteField(schema[f], given[f], NoDeeper)
                ELSE schema[f].default
  <2>1. CASE f \in DOMAIN given
    <3>1. ValuesAt(wire, schema[f].tag) = BrokerField(schema[f], given[f], NoDeeper)
      BY <1>2, <2>1
    <3> HIDE DEF wire, values
    <3>2. CASE schema[f].kind = "scalar"
      BY <2>1, <3>1, <3>2, LastOfOne DEF DecodeField, CompleteField, BrokerField
    <3>3. CASE schema[f].kind = "scalars"
      BY <2>1, <3>1, <3>3 DEF DecodeField, CompleteField, BrokerField
    <3>4. CASE schema[f].kind = "message"
      BY <2>1, <3>1, <3>4, LastOfOne DEF DecodeField, CompleteField, BrokerField, NoDeeper
    <3>5. CASE schema[f].kind = "messages"
      BY <2>1, <3>1, <3>5 DEF DecodeField, CompleteField, BrokerField, NoDeeper
    <3>. QED BY <3>2, <3>3, <3>4, <3>5 DEF Fits, WellMade
  <2>2. CASE f \notin DOMAIN given
    <3>1. ValuesAt(wire, schema[f].tag) = <<>>
      BY <1>2, <2>2
    <3> HIDE DEF wire, values
    <3>. QED BY <2>2, <3>1 DEF DecodeField, Fits, WellMade
  <2>. QED BY <2>1, <2>2
<1>. QED BY <1>3 DEF DecodeInner, DecodeWith, CompleteInner, CompleteWith

LEMMA MiddleRead ==
    ASSUME NEW schema, NEW given, FitsMiddle(schema, given)
    PROVE  DecodeMiddle(schema, BrokerEncodeMiddle(schema, given)) = CompleteMiddle(schema, given)
<1> DEFINE wire == BrokerEncodeMiddle(schema, given)
           values == [f \in DOMAIN given |-> BrokerField(schema[f], given[f], BrokerEncodeInner)]
<1>. Fits(schema, given)
  BY DEF FitsMiddle
<1>1. wire = [tag \in {schema[f].tag : f \in DOMAIN given} |-> values[FieldOf(schema, tag)]]
  <2>1. \A tag \in {schema[f].tag : f \in DOMAIN given} : FieldOf(schema, tag) \in DOMAIN given
    BY FieldOfTag DEF Fits, WellMade
  <2>. QED BY <2>1 DEF BrokerEncodeMiddle, BrokerEncodeWith
<1>2. \A f \in DOMAIN schema :
        ValuesAt(wire, schema[f].tag) = IF f \in DOMAIN given THEN values[f] ELSE <<>>
  <2> HIDE DEF wire, values
  <2>. QED BY <1>1, BrokerValues
<1>3. ASSUME NEW f \in DOMAIN schema
      PROVE  DecodeField(schema[f], ValuesAt(wire, schema[f].tag), DecodeInner)
              = IF f \in DOMAIN given THEN CompleteField(schema[f], given[f], CompleteInner)
                ELSE schema[f].default
  <2>1. CASE f \in DOMAIN given
    <3>1. ValuesAt(wire, schema[f].tag) = BrokerField(schema[f], given[f], BrokerEncodeInner)
      BY <1>2, <2>1
    <3> HIDE DEF wire, values
    <3>2. CASE schema[f].kind = "scalar"
      BY <2>1, <3>1, <3>2, LastOfOne DEF DecodeField, CompleteField, BrokerField
    <3>3. CASE schema[f].kind = "scalars"
      BY <2>1, <3>1, <3>3 DEF DecodeField, CompleteField, BrokerField
    <3>4. CASE schema[f].kind = "message"
      BY <2>1, <3>1, <3>4, LastOfOne, InnerRead
       DEF DecodeField, CompleteField, BrokerField, FitsMiddle
    <3>5. CASE schema[f].kind = "messages"
      BY <2>1, <3>1, <3>5, InnerRead
       DEF DecodeField, CompleteField, BrokerField, FitsMiddle
    <3>. QED BY <3>2, <3>3, <3>4, <3>5 DEF Fits, WellMade
  <2>2. CASE f \notin DOMAIN given
    <3>1. ValuesAt(wire, schema[f].tag) = <<>>
      BY <1>2, <2>2
    <3> HIDE DEF wire, values
    <3>. QED BY <2>2, <3>1 DEF DecodeField, Fits, WellMade
  <2>. QED BY <2>1, <2>2
<1>. QED BY <1>3 DEF DecodeMiddle, DecodeWith, CompleteMiddle, CompleteWith

\* What the broker encodes of a message, and of the messages in it, is decoded as it was
\* given, with the defaults where nothing was (the generated decode functions).
THEOREM OuterRead ==
    ASSUME NEW schema, NEW given, FitsOuter(schema, given)
    PROVE  Decode(schema, BrokerEncode(schema, given)) = Complete(schema, given)
<1> DEFINE wire == BrokerEncode(schema, given)
           values == [f \in DOMAIN given |-> BrokerField(schema[f], given[f], BrokerEncodeMiddle)]
<1>. Fits(schema, given)
  BY DEF FitsOuter
<1>1. wire = [tag \in {schema[f].tag : f \in DOMAIN given} |-> values[FieldOf(schema, tag)]]
  <2>1. \A tag \in {schema[f].tag : f \in DOMAIN given} : FieldOf(schema, tag) \in DOMAIN given
    BY FieldOfTag DEF Fits, WellMade
  <2>. QED BY <2>1 DEF BrokerEncode, BrokerEncodeWith
<1>2. \A f \in DOMAIN schema :
        ValuesAt(wire, schema[f].tag) = IF f \in DOMAIN given THEN values[f] ELSE <<>>
  <2> HIDE DEF wire, values
  <2>. QED BY <1>1, BrokerValues
<1>3. ASSUME NEW f \in DOMAIN schema
      PROVE  DecodeField(schema[f], ValuesAt(wire, schema[f].tag), DecodeMiddle)
              = IF f \in DOMAIN given THEN CompleteField(schema[f], given[f], CompleteMiddle)
                ELSE schema[f].default
  <2>1. CASE f \in DOMAIN given
    <3>1. ValuesAt(wire, schema[f].tag) = BrokerField(schema[f], given[f], BrokerEncodeMiddle)
      BY <1>2, <2>1
    <3> HIDE DEF wire, values
    <3>2. CASE schema[f].kind = "scalar"
      BY <2>1, <3>1, <3>2, LastOfOne DEF DecodeField, CompleteField, BrokerField
    <3>3. CASE schema[f].kind = "scalars"
      BY <2>1, <3>1, <3>3 DEF DecodeField, CompleteField, BrokerField
    <3>4. CASE schema[f].kind = "message"
      BY <2>1, <3>1, <3>4, LastOfOne, MiddleRead
       DEF DecodeField, CompleteField, BrokerField, FitsOuter
    <3>5. CASE schema[f].kind = "messages"
      BY <2>1, <3>1, <3>5, MiddleRead
       DEF DecodeField, CompleteField, BrokerField, FitsOuter
    <3>. QED BY <3>2, <3>3, <3>4, <3>5 DEF Fits, WellMade
  <2>2. CASE f \notin DOMAIN given
    <3>1. ValuesAt(wire, schema[f].tag) = <<>>
      BY <1>2, <2>2
    <3> HIDE DEF wire, values
    <3>. QED BY <2>2, <3>1 DEF DecodeField, Fits, WellMade
  <2>. QED BY <2>1, <2>2
<1>. QED BY <1>3 DEF Decode, DecodeWith, Complete, CompleteWith

-----------------------------------------------------------------------------
(* The schemas of an execution event are well made.                           *)

IsScalar(field, tag) == field.tag = tag /\ field.kind = "scalar"
AreScalars(field, tag) == field.tag = tag /\ field.kind = "scalars" /\ field.default = <<>>
IsMessage(field, tag) ==
    field.tag = tag /\ field.kind = "message" /\ field.default = Undefined
AreMessages(field, tag) == field.tag = tag /\ field.kind = "messages" /\ field.default = <<>>

LEMMA ProtoOATradeDataWellMade == WellMade(ProtoOATradeData)
<1>1. DOMAIN ProtoOATradeData = {"symbolId", "volume", "tradeSide", "openTimestamp",
          "label", "guaranteedStopLoss", "comment", "measurementUnits", "closeTimestamp"}
  BY DEF ProtoOATradeData
<1>2. /\ IsScalar(ProtoOATradeData.symbolId, 8) /\ IsScalar(ProtoOATradeData.volume, 16)
      /\ IsScalar(ProtoOATradeData.tradeSide, 24)
      /\ IsScalar(ProtoOATradeData.openTimestamp, 32)
      /\ IsScalar(ProtoOATradeData.label, 42)
      /\ IsScalar(ProtoOATradeData.guaranteedStopLoss, 48)
      /\ IsScalar(ProtoOATradeData.comment, 58)
      /\ IsScalar(ProtoOATradeData.measurementUnits, 66)
      /\ IsScalar(ProtoOATradeData.closeTimestamp, 72)
  BY DEF ProtoOATradeData, Optional, Required, Field, IsScalar
<1>3. TagsDiffer(ProtoOATradeData)
  BY <1>1, <1>2 DEF TagsDiffer, IsScalar
<1>. QED BY <1>1, <1>2, <1>3 DEF WellMade, IsScalar

LEMMA ProtoOAPositionWellMade == WellMade(ProtoOAPosition)
<1>1. DOMAIN ProtoOAPosition = {"positionId", "tradeData", "positionStatus", "swap",
          "price", "stopLoss", "takeProfit", "utcLastUpdateTimestamp", "commission",
          "marginRate", "mirroringCommission", "guaranteedStopLoss", "usedMargin",
          "stopLossTriggerMethod", "moneyDigits", "trailingStopLoss"}
  BY DEF ProtoOAPosition
<1>2. /\ IsScalar(ProtoOAPosition.positionId, 8)
      /\ IsMessage(ProtoOAPosition.tradeData, 18)
      /\ IsScalar(ProtoOAPosition.positionStatus, 24)
      /\ IsScalar(ProtoOAPosition.swap, 32) /\ IsScalar(ProtoOAPosition.price, 41)
      /\ IsScalar(ProtoOAPosition.stopLoss, 49)
      /\ IsScalar(ProtoOAPosition.takeProfit, 57)
      /\ IsScalar(ProtoOAPosition.utcLastUpdateTimestamp, 64)
      /\ IsScalar(ProtoOAPosition.commission, 72)
      /\ IsScalar(ProtoOAPosition.marginRate, 81)
      /\ IsScalar(ProtoOAPosition.mirroringCommission, 88)
      /\ IsScalar(ProtoOAPosition.guaranteedStopLoss, 96)
      /\ IsScalar(ProtoOAPosition.usedMargin, 104)
      /\ IsScalar(ProtoOAPosition.stopLossTriggerMethod, 112)
      /\ IsScalar(ProtoOAPosition.moneyDigits, 120)
      /\ IsScalar(ProtoOAPosition.trailingStopLoss, 128)
  BY DEF ProtoOAPosition, Optional, Required, RequiredMessage, Field, IsMessage,
         IsScalar
<1>3. TagsDiffer(ProtoOAPosition)
  BY <1>1, <1>2 DEF TagsDiffer, IsMessage, IsScalar
<1>. QED BY <1>1, <1>2, <1>3 DEF WellMade, IsMessage, IsScalar

LEMMA ProtoOAOrderWellMade == WellMade(ProtoOAOrder)
<1>1. DOMAIN ProtoOAOrder = {"orderId", "tradeData", "orderType", "orderStatus",
          "expirationTimestamp", "executionPrice", "executedVolume",
          "utcLastUpdateTimestamp", "baseSlippagePrice", "slippageInPoints",
          "closingOrder", "limitPrice", "stopPrice", "stopLoss", "takeProfit",
          "clientOrderId", "timeInForce", "positionId", "relativeStopLoss",
          "relativeTakeProfit", "isStopOut", "trailingStopLoss", "stopTriggerMethod"}
  BY DEF ProtoOAOrder
<1>2. /\ IsScalar(ProtoOAOrder.orderId, 8) /\ IsMessage(ProtoOAOrder.tradeData, 18)
      /\ IsScalar(ProtoOAOrder.orderType, 24) /\ IsScalar(ProtoOAOrder.orderStatus, 32)
      /\ IsScalar(ProtoOAOrder.expirationTimestamp, 48)
      /\ IsScalar(ProtoOAOrder.executionPrice, 57)
      /\ IsScalar(ProtoOAOrder.executedVolume, 64)
      /\ IsScalar(ProtoOAOrder.utcLastUpdateTimestamp, 72)
      /\ IsScalar(ProtoOAOrder.baseSlippagePrice, 81)
      /\ IsScalar(ProtoOAOrder.slippageInPoints, 88)
      /\ IsScalar(ProtoOAOrder.closingOrder, 96) /\ IsScalar(ProtoOAOrder.limitPrice, 105)
      /\ IsScalar(ProtoOAOrder.stopPrice, 113) /\ IsScalar(ProtoOAOrder.stopLoss, 121)
      /\ IsScalar(ProtoOAOrder.takeProfit, 129)
      /\ IsScalar(ProtoOAOrder.clientOrderId, 138)
      /\ IsScalar(ProtoOAOrder.timeInForce, 144) /\ IsScalar(ProtoOAOrder.positionId, 152)
      /\ IsScalar(ProtoOAOrder.relativeStopLoss, 160)
      /\ IsScalar(ProtoOAOrder.relativeTakeProfit, 168)
      /\ IsScalar(ProtoOAOrder.isStopOut, 176)
      /\ IsScalar(ProtoOAOrder.trailingStopLoss, 184)
      /\ IsScalar(ProtoOAOrder.stopTriggerMethod, 192)
  BY DEF ProtoOAOrder, Optional, Required, RequiredMessage, Field, IsMessage, IsScalar
<1>3. TagsDiffer(ProtoOAOrder)
  BY <1>1, <1>2 DEF TagsDiffer, IsMessage, IsScalar
<1>. QED BY <1>1, <1>2, <1>3 DEF WellMade, IsMessage, IsScalar

LEMMA ProtoOAExecutionEventWellMade == WellMade(ProtoOAExecutionEvent)
<1>1. DOMAIN ProtoOAExecutionEvent = {"payloadType", "ctidTraderAccountId",
          "executionType", "position", "order", "deal", "bonusDepositWithdraw",
          "depositWithdraw", "errorCode", "isServerEvent"}
  BY DEF ProtoOAExecutionEvent
<1>2. /\ IsScalar(ProtoOAExecutionEvent.payloadType, 8)
      /\ IsScalar(ProtoOAExecutionEvent.ctidTraderAccountId, 16)
      /\ IsScalar(ProtoOAExecutionEvent.executionType, 24)
      /\ IsMessage(ProtoOAExecutionEvent.position, 34)
      /\ IsMessage(ProtoOAExecutionEvent.order, 42)
      /\ IsMessage(ProtoOAExecutionEvent.deal, 50)
      /\ IsMessage(ProtoOAExecutionEvent.bonusDepositWithdraw, 58)
      /\ IsMessage(ProtoOAExecutionEvent.depositWithdraw, 66)
      /\ IsScalar(ProtoOAExecutionEvent.errorCode, 74)
      /\ IsScalar(ProtoOAExecutionEvent.isServerEvent, 80)
  BY DEF ProtoOAExecutionEvent, Message, Optional, Required, Field, IsMessage, IsScalar
<1>3. TagsDiffer(ProtoOAExecutionEvent)
  BY <1>1, <1>2 DEF TagsDiffer, IsMessage, IsScalar
<1>. QED BY <1>1, <1>2, <1>3 DEF WellMade, IsMessage, IsScalar

\* JavaScript's undefined is not an object: what holds undefined is not taken for a message.
\* A hypothesis of the theorems, and no ASSUME: TLC's model values have no DOMAIN.
UndefinedIsNoRecord == Undefined # [f \in DOMAIN Undefined |-> Undefined[f]]

LEMMA OrderEventFits ==
    ASSUME NEW type, NEW o, NEW status
    PROVE  FitsOuter(ProtoOAExecutionEvent, AboutOrder(type, o, status))
<1> DEFINE event == AboutOrder(type, o, status)
           data == [symbolId |-> 1, volume |-> 100, tradeSide |-> ProtoOATradeSide.BUY]
           order == [orderId |-> o, orderType |-> ProtoOAOrderType.LIMIT,
                     orderStatus |-> status, tradeData |-> data]
<1>1. /\ DOMAIN event = {"ctidTraderAccountId", "executionType", "order"}
      /\ event.order = order
  BY DEF AboutOrder
<1>2. /\ DOMAIN order = {"orderId", "orderType", "orderStatus", "tradeData"}
      /\ order.tradeData = data /\ DOMAIN data = {"symbolId", "volume", "tradeSide"}
  OBVIOUS
<1> HIDE DEF event, order, data
<1>3. Fits(ProtoOATradeData, data)
  <2>1. DOMAIN data \subseteq DOMAIN ProtoOATradeData
    BY <1>2 DEF ProtoOATradeData
  <2>. QED BY <2>1, ProtoOATradeDataWellMade DEF Fits
<1>4. FitsMiddle(ProtoOAOrder, order)
  <2>1. DOMAIN order \subseteq DOMAIN ProtoOAOrder
    BY <1>2 DEF ProtoOAOrder
  <2>2. /\ ProtoOAOrder["orderId"].kind = "scalar" /\ ProtoOAOrder["orderType"].kind = "scalar"
        /\ ProtoOAOrder["orderStatus"].kind = "scalar"
        /\ ProtoOAOrder["tradeData"] = RequiredMessage(18, ProtoOATradeData)
    BY DEF ProtoOAOrder, Required, Field
  <2>3. /\ ProtoOAOrder["tradeData"].kind = "message"
        /\ ProtoOAOrder["tradeData"].of = ProtoOATradeData
    BY <2>2 DEF RequiredMessage, Field
  <2>. QED BY <1>2, <1>3, <2>1, <2>2, <2>3, ProtoOAOrderWellMade DEF Fits, FitsMiddle
<1>5. DOMAIN event \subseteq DOMAIN ProtoOAExecutionEvent
  BY <1>1 DEF ProtoOAExecutionEvent
<1>6. /\ ProtoOAExecutionEvent["ctidTraderAccountId"].kind = "scalar"
      /\ ProtoOAExecutionEvent["executionType"].kind = "scalar"
      /\ ProtoOAExecutionEvent["order"] = Message(42, ProtoOAOrder)
  BY DEF ProtoOAExecutionEvent, Required, Field
<1>7. /\ ProtoOAExecutionEvent["order"].kind = "message"
      /\ ProtoOAExecutionEvent["order"].of = ProtoOAOrder
  BY <1>6 DEF Message, Field
<1>. QED BY <1>1, <1>4, <1>5, <1>6, <1>7, ProtoOAExecutionEventWellMade DEF Fits, FitsOuter, event

LEMMA PositionEventFits ==
    ASSUME NEW type, NEW status
    PROVE  FitsOuter(ProtoOAExecutionEvent, AboutPosition(type, status))
<1> DEFINE event == AboutPosition(type, status)
           data == [symbolId |-> 1, volume |-> 100, tradeSide |-> ProtoOATradeSide.BUY]
           given == [positionId |-> Position, positionStatus |-> status, swap |-> 0,
                     tradeData |-> data]
<1>1. /\ DOMAIN event = {"ctidTraderAccountId", "executionType", "position"}
      /\ event.position = given
  BY DEF AboutPosition
<1>2. /\ DOMAIN given = {"positionId", "positionStatus", "swap", "tradeData"}
      /\ given.tradeData = data /\ DOMAIN data = {"symbolId", "volume", "tradeSide"}
  OBVIOUS
<1> HIDE DEF event, given, data
<1>3. Fits(ProtoOATradeData, data)
  <2>1. DOMAIN data \subseteq DOMAIN ProtoOATradeData
    BY <1>2 DEF ProtoOATradeData
  <2>. QED BY <2>1, ProtoOATradeDataWellMade DEF Fits
<1>4. FitsMiddle(ProtoOAPosition, given)
  <2>1. DOMAIN given \subseteq DOMAIN ProtoOAPosition
    BY <1>2 DEF ProtoOAPosition
  <2>2. /\ ProtoOAPosition["positionId"].kind = "scalar"
        /\ ProtoOAPosition["positionStatus"].kind = "scalar"
        /\ ProtoOAPosition["swap"].kind = "scalar"
        /\ ProtoOAPosition["tradeData"] = RequiredMessage(18, ProtoOATradeData)
    BY DEF ProtoOAPosition, Required, Field
  <2>3. /\ ProtoOAPosition["tradeData"].kind = "message"
        /\ ProtoOAPosition["tradeData"].of = ProtoOATradeData
    BY <2>2 DEF RequiredMessage, Field
  <2>. QED BY <1>2, <1>3, <2>1, <2>2, <2>3, ProtoOAPositionWellMade DEF Fits, FitsMiddle
<1>5. DOMAIN event \subseteq DOMAIN ProtoOAExecutionEvent
  BY <1>1 DEF ProtoOAExecutionEvent
<1>6. /\ ProtoOAExecutionEvent["ctidTraderAccountId"].kind = "scalar"
      /\ ProtoOAExecutionEvent["executionType"].kind = "scalar"
      /\ ProtoOAExecutionEvent["position"] = Message(34, ProtoOAPosition)
  BY DEF ProtoOAExecutionEvent, Required, Field
<1>7. /\ ProtoOAExecutionEvent["position"].kind = "message"
      /\ ProtoOAExecutionEvent["position"].of = ProtoOAPosition
  BY <1>6 DEF Message, Field
<1>. QED BY <1>1, <1>4, <1>5, <1>6, <1>7, ProtoOAExecutionEventWellMade DEF Fits, FitsOuter, event

\* What an event about an order, or about the position, is read as.
LEMMA OrderEventRead ==
    ASSUME UndefinedIsNoRecord, NEW type, NEW o, NEW status
    PROVE  LET event == Decode(ProtoOAExecutionEvent,
                               BrokerEncode(ProtoOAExecutionEvent, AboutOrder(type, o, status)))
           IN  event.executionType = type /\ event.order # Undefined /\ event.order.orderId = o
<1> DEFINE given == AboutOrder(type, o, status)
           read == Complete(ProtoOAExecutionEvent, given)
<1>1. Decode(ProtoOAExecutionEvent, BrokerEncode(ProtoOAExecutionEvent, given)) = read
  BY OrderEventFits, OuterRead
<1>2. /\ "executionType" \in DOMAIN given /\ given["executionType"] = type
      /\ "order" \in DOMAIN given /\ "orderId" \in DOMAIN given["order"]
      /\ given["order"]["orderId"] = o
  BY DEF AboutOrder
<1>3. /\ "executionType" \in DOMAIN ProtoOAExecutionEvent
      /\ "order" \in DOMAIN ProtoOAExecutionEvent
      /\ ProtoOAExecutionEvent["executionType"].kind = "scalar"
      /\ ProtoOAExecutionEvent["order"].kind = "message"
      /\ ProtoOAExecutionEvent["order"].of = ProtoOAOrder
  BY DEF ProtoOAExecutionEvent, Required, Message, Field
<1>4. "orderId" \in DOMAIN ProtoOAOrder /\ ProtoOAOrder["orderId"].kind = "scalar"
  BY DEF ProtoOAOrder, Required, Field
<1> HIDE DEF given
<1>5. read["executionType"] = type
  BY <1>2, <1>3 DEF Complete, CompleteWith, CompleteField
<1>6. read["order"] = CompleteMiddle(ProtoOAOrder, given["order"])
  BY <1>2, <1>3 DEF Complete, CompleteWith, CompleteField
<1>7. CompleteMiddle(ProtoOAOrder, given["order"])["orderId"] = o
  BY <1>2, <1>4 DEF CompleteMiddle, CompleteWith, CompleteField
<1>8. CompleteMiddle(ProtoOAOrder, given["order"]) # Undefined
  BY UndefinedIsNoRecord DEF CompleteMiddle, CompleteWith, UndefinedIsNoRecord
<1>. QED BY <1>1, <1>5, <1>6, <1>7, <1>8 DEF given

LEMMA PositionEventRead ==
    ASSUME UndefinedIsNoRecord, NEW type, NEW status
    PROVE  LET event == Decode(ProtoOAExecutionEvent,
                               BrokerEncode(ProtoOAExecutionEvent, AboutPosition(type, status)))
           IN  event.executionType = type /\ event.position # Undefined
                 /\ event.position.positionId = Position
<1> DEFINE given == AboutPosition(type, status)
           read == Complete(ProtoOAExecutionEvent, given)
<1>1. Decode(ProtoOAExecutionEvent, BrokerEncode(ProtoOAExecutionEvent, given)) = read
  BY PositionEventFits, OuterRead
<1>2. /\ "executionType" \in DOMAIN given /\ given["executionType"] = type
      /\ "position" \in DOMAIN given /\ "positionId" \in DOMAIN given["position"]
      /\ given["position"]["positionId"] = Position
  BY DEF AboutPosition
<1>3. /\ "executionType" \in DOMAIN ProtoOAExecutionEvent
      /\ "position" \in DOMAIN ProtoOAExecutionEvent
      /\ ProtoOAExecutionEvent["executionType"].kind = "scalar"
      /\ ProtoOAExecutionEvent["position"].kind = "message"
      /\ ProtoOAExecutionEvent["position"].of = ProtoOAPosition
  BY DEF ProtoOAExecutionEvent, Required, Message, Field
<1>4. "positionId" \in DOMAIN ProtoOAPosition /\ ProtoOAPosition["positionId"].kind = "scalar"
  BY DEF ProtoOAPosition, Required, Field
<1> HIDE DEF given
<1>5. read["executionType"] = type
  BY <1>2, <1>3 DEF Complete, CompleteWith, CompleteField
<1>6. read["position"] = CompleteMiddle(ProtoOAPosition, given["position"])
  BY <1>2, <1>3 DEF Complete, CompleteWith, CompleteField
<1>7. CompleteMiddle(ProtoOAPosition, given["position"])["positionId"] = Position
  BY <1>2, <1>4 DEF CompleteMiddle, CompleteWith, CompleteField
<1>8. CompleteMiddle(ProtoOAPosition, given["position"]) # Undefined
  BY UndefinedIsNoRecord DEF CompleteMiddle, CompleteWith, UndefinedIsNoRecord
<1>. QED BY <1>1, <1>5, <1>6, <1>7, <1>8 DEF given

-----------------------------------------------------------------------------
(* The inductive invariant.                                                   *)

MessageRead(m) == Decode(ProtoMessage, m.wire)
IdOf(m) == MessageRead(m).clientMsgId

\* A request of c has not been dealt with.
Asks(c) == \E r \in Requests : CallOf(r) = c

Mutating(c) == calls[c].state # "idle" /\ calls[c].method \in Mutations
Pending(c) == calls[c].state = "pending"

IsSequence(s) == \E S : s \in Seq(S)

\* What event is about is what the call was for.
About(c, call, event) ==
    IF call.method \in Placements \cup {"amendOrder", "cancelOrder"}
    THEN /\ event.order # Undefined
         /\ event.order.orderId = IF call.method \in Placements THEN OrderOf[c]
                                  ELSE call.params.orderId
    ELSE event.position # Undefined /\ event.position.positionId = call.params.positionId

\* Who has been executed, and who asked, agree with an event about c.
AgreesWith(c, event) ==
    /\ About(c, calls[c], event)
    /\ c \in executed <=> event.executionType \notin Refusals
    /\ ~Asks(c)

\* message is an outcome of the mutation c: an error, or an execution event.
IsOutcome(c, message) ==
    \/ message.payloadType \in DOMAIN ErrorSchemas /\ c \notin executed /\ ~Asks(c)
    \/ /\ message.payloadType = ProtoOAPayloadType.PROTO_OA_EXECUTION_EVENT
       /\ AgreesWith(c, Decode(ProtoOAExecutionEvent, message.payload))

\* A request comes from a call that has been made and not executed, once; that of a pending
\* mutation was sent on the connection there is.
RequestsInv ==
    /\ throttled \cap arrived = {}
    /\ \A r \in Requests :
        /\ CallOf(r) \in Calls /\ CallOf(r) \notin executed
        /\ calls[CallOf(r)].state # "idle"
        /\ Mutating(CallOf(r)) /\ Pending(CallOf(r)) => r.session = session

\* A disconnection leaves no mutation pending.
PendingInv == \A c \in Calls : Mutating(c) /\ Pending(c) => online

ExecutedInv ==
    /\ executed \subseteq Calls /\ \A c \in executed : Mutating(c)
    /\ \A o \in DOMAIN orders :
        o = PendingOrder \/ \E c \in executed : calls[c].method \in Placements /\ o = OrderOf[c]

\* A message with the id of a mutation is an outcome of it.
MessageInv(m) ==
    /\ m.cause = "" \/ (/\ m.cause \in executed
                        /\ MessageRead(m).payloadType
                            = ProtoOAPayloadType.PROTO_OA_EXECUTION_EVENT)
    /\ IdOf(m) \in Calls =>
        /\ calls[IdOf(m)].state # "idle"
        /\ Mutating(IdOf(m)) => IsOutcome(IdOf(m), MessageRead(m))

\* The first message that answers c tells of its execution.
ToldFirst(c) ==
    \E j \in DOMAIN toClient :
        /\ toClient[j].cause = c /\ IdOf(toClient[j]) = c
        /\ \A i \in 1..(j - 1) : IdOf(toClient[i]) # c

MessagesInv ==
    /\ \A i \in DOMAIN toClient : MessageInv(toClient[i])
    /\ \A c \in executed : Pending(c) => ToldFirst(c)

AnsweredInv ==
    \A c \in Calls : calls[c].state = "answered" /\ Mutating(c) =>
        IsOutcome(c, calls[c].message) /\ (c \in executed => c \in learnt)

OverInv ==
    \A c \in Calls : Mutates(c) =>
        /\ Settled(c, "resolved") => AgreesWith(c, EventOf(c)) /\ (c \in executed => c \in learnt)
        /\ Settled(c, "rejected") => c \notin executed /\ ~Asks(c)

ShapeInv == calls = [c \in Calls |-> calls[c]] /\ IsSequence(toClient)

IInv ==
    /\ TypeOK /\ ShapeInv /\ RequestsInv /\ PendingInv /\ ExecutedInv /\ MessagesInv
    /\ AnsweredInv /\ OverInv

-----------------------------------------------------------------------------
(* What every step leaves standing.                                           *)

\* A call that has been made keeps its method and parameters and sends nothing more; what has
\* been executed or learnt stays so, and only who asks is executed.
Continues ==
    /\ \A c \in Calls : calls[c].state # "idle" =>
        /\ calls'[c].state # "idle"
        /\ calls'[c].method = calls[c].method /\ calls'[c].params = calls[c].params
        /\ Asks(c)' => Asks(c)
    /\ executed \subseteq executed' /\ learnt \subseteq learnt'
    /\ \A c \in executed' \ executed : Asks(c)

LEMMA AgreementKept ==
    ASSUME NEW c \in Calls, NEW event, Continues, calls[c].state # "idle", AgreesWith(c, event)
    PROVE  AgreesWith(c, event)'
<1>1. calls'[c].method = calls[c].method /\ calls'[c].params = calls[c].params
  BY DEF Continues
<1>2. About(c, calls[c], event)'
  BY <1>1 DEF AgreesWith, About
<1>3. ~Asks(c)'
  BY DEF Continues, AgreesWith
<1>4. c \in executed' <=> c \in executed
  BY DEF Continues, AgreesWith
<1>. QED BY <1>2, <1>3, <1>4 DEF AgreesWith

LEMMA OutcomeKept ==
    ASSUME NEW c \in Calls, NEW message, Continues, calls[c].state # "idle",
           IsOutcome(c, message)
    PROVE  IsOutcome(c, message)'
<1>1. CASE /\ message.payloadType \in DOMAIN ErrorSchemas
           /\ c \notin executed /\ ~Asks(c)
  <2>1. ~Asks(c)' /\ c \notin executed'
    BY <1>1 DEF Continues
  <2>. QED BY <1>1, <2>1 DEF IsOutcome
<1>2. CASE /\ message.payloadType = ProtoOAPayloadType.PROTO_OA_EXECUTION_EVENT
           /\ AgreesWith(c, Decode(ProtoOAExecutionEvent, message.payload))
  <2>1. AgreesWith(c, Decode(ProtoOAExecutionEvent, message.payload))'
    BY <1>2, AgreementKept
  <2>. QED BY <1>2, <2>1 DEF IsOutcome
<1>. QED BY <1>1, <1>2 DEF IsOutcome

LEMMA MessageKept ==
    ASSUME NEW m, Continues, MessageInv(m)
    PROVE  MessageInv(m)'
<1>1. m.cause = "" \/ (/\ m.cause \in executed'
                       /\ MessageRead(m).payloadType
                            = ProtoOAPayloadType.PROTO_OA_EXECUTION_EVENT)
  BY DEF MessageInv, Continues
<1>2. ASSUME IdOf(m) \in Calls
      PROVE  /\ calls'[IdOf(m)].state # "idle"
             /\ Mutating(IdOf(m))' => IsOutcome(IdOf(m), MessageRead(m))'
  <2>1. calls[IdOf(m)].state # "idle" /\ calls'[IdOf(m)].state # "idle"
        /\ calls'[IdOf(m)].method = calls[IdOf(m)].method
    BY <1>2 DEF MessageInv, Continues
  <2>2. ASSUME Mutating(IdOf(m))'
        PROVE  IsOutcome(IdOf(m), MessageRead(m))'
    <3>1. IsOutcome(IdOf(m), MessageRead(m))
      BY <1>2, <2>1, <2>2 DEF MessageInv, Mutating
    <3>. QED BY <1>2, <2>1, <3>1, OutcomeKept
  <2>. QED BY <2>1, <2>2
<1>. QED BY <1>1, <1>2 DEF MessageInv

\* A call whose outcome was known, and that has not moved.
LEMMA AnsweredKept ==
    ASSUME NEW c \in Calls, Continues, AnsweredInv, calls'[c] = calls[c],
           (calls[c].state = "answered" /\ Mutating(c))'
    PROVE  (IsOutcome(c, calls[c].message) /\ (c \in executed => c \in learnt))'
<1>1. calls[c].state = "answered" /\ Mutating(c)
  BY DEF Mutating
<1>2. IsOutcome(c, calls[c].message) /\ (c \in executed => c \in learnt)
  BY <1>1 DEF AnsweredInv
<1> DEFINE message == calls[c].message
<1>3. message' = message
  OBVIOUS
<1>4. \A x : IsOutcome(c, x) => IsOutcome(c, x)'
  BY <1>1, OutcomeKept
<1>5. c \in executed' => c \in executed
  BY <1>2 DEF Continues, IsOutcome, AgreesWith
<1>6. IsOutcome(c, calls[c].message)'
  BY <1>2, <1>4
<1>7. c \in executed' => c \in learnt'
  BY <1>2, <1>5 DEF Continues
<1>. QED BY <1>6, <1>7

\* What is known of a mutation that is over.
OverHolds(c) ==
    /\ Settled(c, "resolved") => AgreesWith(c, EventOf(c)) /\ (c \in executed => c \in learnt)
    /\ Settled(c, "rejected") => c \notin executed /\ ~Asks(c)

LEMMA OverKept ==
    ASSUME NEW c \in Calls, Continues, OverInv, calls'[c] = calls[c], Mutates(c)'
    PROVE  OverHolds(c)'
<1>1. calls[c].state # "idle" /\ Mutates(c)
  BY DEF Mutates
<1>2. OverHolds(c)
  BY <1>1 DEF OverInv, OverHolds
<1>3. EventOf(c)' = EventOf(c)
  BY DEF EventOf
<1>4. \A how : Settled(c, how)' => Settled(c, how)
  BY DEF Settled
<1>5. ASSUME Settled(c, "resolved")'
      PROVE  AgreesWith(c, EventOf(c))' /\ (c \in executed' => c \in learnt')
  <2>1. AgreesWith(c, EventOf(c)) /\ (c \in executed => c \in learnt)
    BY <1>2, <1>4, <1>5 DEF OverHolds
  <2>2. \A x : AgreesWith(c, x) => AgreesWith(c, x)'
    BY <1>1, AgreementKept
  <2>3. AgreesWith(c, EventOf(c))'
    BY <1>3, <2>1, <2>2
  <2>4. c \in executed' => c \in executed
    BY <2>1 DEF Continues, AgreesWith
  <2>. QED BY <2>1, <2>3, <2>4 DEF Continues
<1>6. ASSUME Settled(c, "rejected")'
      PROVE  c \notin executed' /\ ~Asks(c)'
  <2>1. c \notin executed /\ ~Asks(c)
    BY <1>2, <1>4, <1>6 DEF OverHolds
  <2>. QED BY <1>1, <2>1 DEF Continues
<1>. QED BY <1>5, <1>6 DEF OverHolds

-----------------------------------------------------------------------------
(* The steps, one by one.                                                     *)

LEMMA InitIInv == Init => IInv
<1> SUFFICES ASSUME Init PROVE IInv
  OBVIOUS
<1>1. /\ \A c \in Calls : calls[c] = Idle
      /\ Requests = {} /\ toClient = <<>> /\ executed = {} /\ learnt = {} /\ missed = {}
  BY DEF Init, Requests
<1>2. \A c \in Calls : calls[c].state = "idle"
  BY <1>1 DEF Idle
<1>3. TypeOK
  <2>1. session \in 1..MaxSessions /\ Len(toClient) <= MaxMessages
    BY <1>1, BoundsAssumption DEF Init
  <2>2. online = TRUE /\ position = "open" /\ throttled = {}
    BY DEF Init
  <2>3. learnt \cup missed \subseteq executed
    BY <1>1
  <2>. QED BY <1>1, <1>2, <2>1, <2>2, <2>3 DEF TypeOK
<1>4. ShapeInv
  <2>1. toClient \in Seq({})
    BY <1>1
  <2>. QED BY <2>1 DEF ShapeInv, IsSequence, Init
<1>5. RequestsInv
  BY <1>1 DEF RequestsInv, Requests
<1>6. PendingInv /\ AnsweredInv
  BY <1>2 DEF PendingInv, AnsweredInv, Mutating
<1>7. ExecutedInv
  <2>1. orders = Entry(PendingOrder, "working")
    BY DEF Init
  <2>2. DOMAIN orders = {PendingOrder}
    BY <2>1, EntryMaps
  <2>. QED BY <1>1, <2>2 DEF ExecutedInv
<1>8. MessagesInv
  BY <1>1 DEF MessagesInv
<1>9. OverInv
  BY <1>2 DEF OverInv, Mutates
<1>. QED BY <1>3, <1>4, <1>5, <1>6, <1>7, <1>8, <1>9 DEF IInv

\* A request is handed to the transport.
LEMMA SendStep ==
    ASSUME IInv, NEW c \in Calls, NEW method, NEW params, NEW request, MayCall(c, method),
           Send(c, method, params, request)
    PROVE  IInv'
<1> DEFINE r == [wire |-> Envelope(request.payloadType, request.payload, c),
                 session |-> session]
<1>1. calls[c].state = "idle" /\ online = TRUE
  <2>1. online \in BOOLEAN /\ online
    BY DEF MayCall, IInv, TypeOK
  <2>. QED BY <2>1 DEF MayCall, Idle
<1>2. /\ calls'[c] = [state |-> "pending", method |-> method, params |-> params]
      /\ \A d \in Calls : d # c => calls'[d] = calls[d]
      /\ calls' = [d \in Calls |-> calls'[d]]
  BY DEF Send, IInv, ShapeInv
<1>3. throttled' = throttled \cup {r}
  BY DEF Send
<1>4. CallOf(r) = c /\ r.session = session
  BY EnvelopeRead DEF CallOf, ReadRequest
<1>5. /\ UNCHANGED <<online, session, arrived, toClient, orders, position>>
      /\ UNCHANGED <<executed, learnt, missed>>
  BY DEF Send, history
<1>6. \A q \in Requests : CallOf(q) \in Calls /\ CallOf(q) # c
  BY <1>1 DEF IInv, RequestsInv
<1>7. Requests' = Requests \cup {r}
  BY <1>3, <1>5 DEF Requests
<1> HIDE DEF r
<1>8. \A d \in Calls : d # c => (Asks(d)' => Asks(d))
  BY <1>4, <1>7 DEF Asks
<1>9. Continues
  BY <1>1, <1>2, <1>5, <1>8 DEF Continues
<1>10. TypeOK'
  <2>1. \A q, s \in Requests' : CallOf(q) = CallOf(s) => q = s
    BY <1>4, <1>6, <1>7 DEF IInv, TypeOK
  <2>2. \A q \in throttled' : q.session = session'
    BY <1>3, <1>4, <1>5 DEF IInv, TypeOK
  <2>3. \A d \in Calls : calls'[d].state \in {"idle", "pending", "answered", "over"}
    BY <1>2 DEF IInv, TypeOK
  <2>4. ~online' => throttled' = {} /\ toClient' = <<>>
    BY <1>1, <1>5
  <2>5. /\ online' \in BOOLEAN /\ session' \in 1..MaxSessions
        /\ position' \in {"open", "closed"}
        /\ Len(toClient') <= MaxMessages /\ learnt' \cup missed' \subseteq executed'
    BY <1>5 DEF IInv, TypeOK
  <2>. QED BY <2>1, <2>2, <2>3, <2>4, <2>5 DEF TypeOK
<1>11. ShapeInv'
  BY <1>2, <1>5 DEF IInv, ShapeInv, IsSequence
<1>12. RequestsInv'
  <2>1. (throttled \cap arrived)' = {}
    <3>1. r \notin arrived
      BY <1>4, <1>6 DEF Requests
    <3>. QED BY <1>3, <1>5, <3>1 DEF IInv, RequestsInv
  <2>2. c \notin executed
    BY <1>1 DEF IInv, ExecutedInv, Mutating
  <2>3. ASSUME NEW q \in Requests'
        PROVE  /\ CallOf(q) \in Calls /\ CallOf(q) \notin executed'
               /\ calls'[CallOf(q)].state # "idle"
               /\ (Mutating(CallOf(q)) /\ Pending(CallOf(q)))' => q.session = session'
    <3>1. CASE q = r
      BY <1>2, <1>4, <1>5, <2>2, <3>1
    <3>2. CASE q \in Requests
      BY <1>2, <1>5, <1>6, <3>2 DEF IInv, RequestsInv, Mutating, Pending
    <3>. QED BY <1>7, <3>1, <3>2
  <2>. QED BY <2>1, <2>3 DEF RequestsInv
<1>13. PendingInv'
  BY <1>1, <1>5 DEF PendingInv
<1>14. ExecutedInv'
  <2>1. c \notin executed
    BY <1>1 DEF IInv, ExecutedInv, Mutating
  <2>. QED BY <1>2, <1>5, <2>1 DEF IInv, ExecutedInv, Mutating
<1>15. MessagesInv'
  <2>1. \A m : MessageInv(m) => MessageInv(m)'
    BY <1>9, MessageKept
  <2>2. \A i \in DOMAIN toClient' : MessageInv(toClient[i])'
    BY <1>5, <2>1 DEF IInv, MessagesInv
  <2>3. c \notin executed
    BY <1>1 DEF IInv, ExecutedInv, Mutating
  <2>4. \A d \in executed' : Pending(d)' => ToldFirst(d)'
    BY <1>2, <1>5, <2>3 DEF IInv, MessagesInv, Pending, ToldFirst, ExecutedInv
  <2>. QED BY <2>2, <2>4 DEF MessagesInv
<1>16. AnsweredInv'
  <2>1. \A d \in Calls : d # c => calls'[d] = calls[d]
    BY <1>2
  <2>2. calls'[c].state = "pending"
    BY <1>2
  <2>. QED BY <1>9, <2>1, <2>2, AnsweredKept DEF IInv, AnsweredInv
<1>17. OverInv'
  <2>1. ~Mutates(c)'
    BY <1>2 DEF Mutates
  <2>. QED BY <1>2, <1>9, <2>1, OverKept DEF IInv, OverInv, OverHolds
<1>. QED BY <1>10, <1>11, <1>12, <1>13, <1>14, <1>15, <1>16, <1>17 DEF IInv

\* A step in which a call ends without an outcome from the broker.
LEMMA EndStep ==
    ASSUME IInv, NEW c \in Calls, NEW call, NEW result,
           result.settled \notin {"resolved", "rejected"},
           calls' = [calls EXCEPT ![c] = Over(call, result, result)],
           \/ calls[c].state = "idle" /\ call.method \notin Mutations
           \/ calls[c].state # "idle" /\ call = calls[c],
           UNCHANGED <<online, session, throttled, arrived, toClient, orders, position>>,
           UNCHANGED <<executed, learnt, missed>>
    PROVE  IInv'
<1>1. /\ calls'[c].state = "over" /\ calls'[c].method = call.method
      /\ calls'[c].params = call.params /\ calls'[c].result = result
      /\ \A d \in Calls : d # c => calls'[d] = calls[d]
      /\ calls' = [d \in Calls |-> calls'[d]]
  BY DEF IInv, ShapeInv, Over
<1>2. Requests' = Requests
  BY DEF Requests
<1>3. \A d \in Calls : Asks(d)' <=> Asks(d)
  BY <1>2 DEF Asks
<1>4. Continues
  <2>1. ASSUME NEW d \in Calls, calls[d].state # "idle"
        PROVE  /\ calls'[d].state # "idle"
               /\ calls'[d].method = calls[d].method /\ calls'[d].params = calls[d].params
               /\ Asks(d)' => Asks(d)
    BY <1>1, <1>3, <2>1
  <2>. QED BY <2>1 DEF Continues
<1>5. \A d \in Calls : Mutating(d)' => Mutating(d)
  BY <1>1 DEF Mutating
<1>6. \A d \in Calls : Pending(d)' => Pending(d)
  BY <1>1 DEF Pending
<1>7. \A d \in Calls : Mutating(d) => Mutating(d)'
  BY <1>1 DEF Mutating
<1>8. TypeOK'
  <2>1. \A d \in Calls : calls'[d].state \in {"idle", "pending", "answered", "over"}
    BY <1>1 DEF IInv, TypeOK
  <2>. QED BY <1>2, <2>1 DEF IInv, TypeOK
<1>9. ShapeInv'
  BY <1>1 DEF IInv, ShapeInv, IsSequence
<1>10. RequestsInv'
  <2>1. \A q \in Requests' :
            /\ CallOf(q) \in Calls /\ CallOf(q) \notin executed'
            /\ calls'[CallOf(q)].state # "idle"
            /\ (Mutating(CallOf(q)) /\ Pending(CallOf(q)))' => q.session = session'
    BY <1>2, <1>4, <1>5, <1>6 DEF IInv, RequestsInv, Continues
  <2>. QED BY <2>1 DEF IInv, RequestsInv
<1>11. PendingInv'
  BY <1>5, <1>6 DEF IInv, PendingInv
<1>12. ExecutedInv'
  <2>1. \A d \in executed' : Mutating(d)' /\ calls'[d].method = calls[d].method
    BY <1>4, <1>7 DEF IInv, ExecutedInv, Continues, Mutating
  <2>. QED BY <2>1 DEF IInv, ExecutedInv
<1>13. MessagesInv'
  <2>1. \A m : MessageInv(m) => MessageInv(m)'
    BY <1>4, MessageKept
  <2>2. \A i \in DOMAIN toClient' : MessageInv(toClient[i])'
    BY <2>1 DEF IInv, MessagesInv
  <2>3. \A d \in executed' : Pending(d)' => ToldFirst(d)'
    BY <1>6 DEF IInv, MessagesInv, ToldFirst, ExecutedInv
  <2>. QED BY <2>2, <2>3 DEF MessagesInv
<1>14. AnsweredInv'
  BY <1>1, <1>4, AnsweredKept DEF IInv, AnsweredInv
<1>15. OverInv'
  <2>1. OverHolds(c)'
    BY <1>1 DEF OverHolds, Settled
  <2>2. \A d \in Calls : Mutates(d)' => OverHolds(d)'
    BY <1>1, <1>4, <2>1, OverKept DEF IInv
  <2>. QED BY <2>2 DEF OverInv, OverHolds
<1>. QED BY <1>8, <1>9, <1>10, <1>11, <1>12, <1>13, <1>14, <1>15 DEF IInv

\* Quiet steps of the connection: a request leaves, a session starts.
LEMMA LeaveStep ==
    ASSUME IInv, NEW r \in throttled, Leave(r)
    PROVE  IInv'
<1>1. /\ throttled' = throttled \ {r} /\ arrived' = arrived \cup {r}
      /\ UNCHANGED <<calls, online, session, toClient, orders, position>>
      /\ UNCHANGED <<executed, learnt, missed>>
  BY DEF Leave, history
<1>2. Requests' = Requests
  BY <1>1 DEF Requests
<1>3. \A d \in Calls : Asks(d)' <=> Asks(d)
  BY <1>2 DEF Asks
<1>4. Continues
  BY <1>1, <1>3 DEF Continues
<1>5. TypeOK'
  BY <1>1, <1>2 DEF IInv, TypeOK
<1>6. ShapeInv'
  BY <1>1 DEF IInv, ShapeInv, IsSequence
<1>7. RequestsInv'
  <2>1. (throttled \cap arrived)' = {}
    BY <1>1 DEF IInv, RequestsInv
  <2>. QED BY <1>1, <1>2, <2>1 DEF IInv, RequestsInv, Mutating, Pending
<1>8. PendingInv' /\ ExecutedInv'
  BY <1>1 DEF IInv, PendingInv, ExecutedInv, Mutating, Pending
<1>9. MessagesInv'
  <2>1. \A m : MessageInv(m) => MessageInv(m)'
    BY <1>4, MessageKept
  <2>2. \A i \in DOMAIN toClient' : MessageInv(toClient[i])'
    BY <1>1, <2>1 DEF IInv, MessagesInv
  <2>. QED BY <1>1, <2>2 DEF IInv, MessagesInv, Pending, ToldFirst
<1>10. AnsweredInv'
  BY <1>1, <1>4, AnsweredKept DEF IInv, AnsweredInv
<1>11. OverInv'
  BY <1>1, <1>4, OverKept DEF IInv, OverInv, OverHolds
<1>. QED BY <1>5, <1>6, <1>7, <1>8, <1>9, <1>10, <1>11 DEF IInv

LEMMA AuthenticatedStep ==
    ASSUME IInv, Authenticated
    PROVE  IInv'
<1>1. /\ UNCHANGED <<calls, throttled, arrived, toClient, orders, position>>
      /\ UNCHANGED <<executed, learnt, missed>>
      /\ ~online /\ online' = TRUE
      /\ session < MaxSessions /\ session' = session + 1
  BY DEF Authenticated, broker
<1>2. Requests' = Requests /\ throttled' = {}
  BY <1>1 DEF Requests, IInv, TypeOK
<1>3. \A d \in Calls : Asks(d)' <=> Asks(d)
  BY <1>2 DEF Asks
<1>4. Continues
  BY <1>1, <1>3 DEF Continues
<1>5. TypeOK'
  <2>1. session' \in 1..MaxSessions
    BY <1>1, BoundsAssumption DEF IInv, TypeOK
  <2>2. \A r \in throttled' : r.session = session'
    BY <1>2
  <2>3. /\ \A c \in Calls : calls'[c].state \in {"idle", "pending", "answered", "over"}
        /\ \A q, r \in Requests' : CallOf(q) = CallOf(r) => q = r
    BY <1>1, <1>2 DEF IInv, TypeOK
  <2>4. /\ online' \in BOOLEAN /\ (~online' => throttled' = {} /\ toClient' = <<>>)
    BY <1>1
  <2>5. /\ position' \in {"open", "closed"} /\ Len(toClient') <= MaxMessages
        /\ learnt' \cup missed' \subseteq executed'
    BY <1>1 DEF IInv, TypeOK
  <2>. QED BY <2>1, <2>2, <2>3, <2>4, <2>5 DEF TypeOK
<1>6. ShapeInv'
  BY <1>1 DEF IInv, ShapeInv, IsSequence
<1>7. \A c \in Calls : ~(Mutating(c) /\ Pending(c))'
  BY <1>1 DEF IInv, PendingInv, Mutating, Pending
<1>8. RequestsInv'
  <2>1. (throttled \cap arrived)' = {}
    BY <1>2
  <2>2. \A q \in Requests' :
            /\ CallOf(q) \in Calls /\ CallOf(q) \notin executed'
            /\ calls'[CallOf(q)].state # "idle"
    BY <1>1, <1>2 DEF IInv, RequestsInv
  <2>. QED BY <1>7, <2>1, <2>2 DEF RequestsInv
<1>9. PendingInv' /\ ExecutedInv'
  BY <1>1, <1>7 DEF IInv, PendingInv, ExecutedInv, Mutating
<1>10. MessagesInv'
  <2>1. \A m : MessageInv(m) => MessageInv(m)'
    BY <1>4, MessageKept
  <2>2. \A i \in DOMAIN toClient' : MessageInv(toClient[i])'
    BY <1>1, <2>1 DEF IInv, MessagesInv
  <2>. QED BY <1>1, <2>2 DEF IInv, MessagesInv, Pending, ToldFirst
<1>11. AnsweredInv'
  BY <1>1, <1>4, AnsweredKept DEF IInv, AnsweredInv
<1>12. OverInv'
  BY <1>1, <1>4, OverKept DEF IInv, OverInv, OverHolds
<1>. QED BY <1>5, <1>6, <1>8, <1>9, <1>10, <1>11, <1>12 DEF IInv

LEMMA MutationsAreNoHandshakes == Mutations \cap HandshakeMethods = {}
BY DEF Mutations, Placements, HandshakeMethods

\* The connection is lost.
LEMMA DisconnectedStep ==
    ASSUME IInv, Disconnected
    PROVE  IInv'
<1>1. /\ UNCHANGED <<session, arrived, orders, position, executed, learnt>>
      /\ online' = FALSE /\ throttled' = {} /\ toClient' = <<>>
      /\ missed' = missed \cup Untold
      /\ calls' = [c \in Calls |-> CutOff(calls[c])]
  BY DEF Disconnected, broker
<1>2. Requests' \subseteq Requests
  BY <1>1 DEF Requests
<1>3. \A c \in Calls : Asks(c)' => Asks(c)
  BY <1>2 DEF Asks
<1>4. \A c \in Calls :
        \/ calls'[c] = calls[c]
        \/ /\ calls[c].state = "pending" /\ calls'[c].state = "over"
           /\ calls'[c].method = calls[c].method /\ calls'[c].params = calls[c].params
           /\ calls'[c].result = Lost
  BY <1>1 DEF CutOff, Over
<1>5. Continues
  BY <1>1, <1>3, <1>4 DEF Continues
<1>6. \A c \in Calls : ~(Mutating(c) /\ Pending(c))'
  BY <1>1, MutationsAreNoHandshakes DEF Mutating, Pending, CutOff, Over
<1>7. \A c \in Calls : Mutating(c) => Mutating(c)' /\ calls'[c].method = calls[c].method
  BY <1>4 DEF Mutating
<1>8. TypeOK'
  <2>1. Untold \subseteq executed
    BY DEF Untold, IInv, MessagesInv, MessageInv
  <2>2. learnt' \cup missed' \subseteq executed'
    BY <1>1, <2>1 DEF IInv, TypeOK
  <2>3. \A c \in Calls : calls'[c].state \in {"idle", "pending", "answered", "over"}
    BY <1>4 DEF IInv, TypeOK
  <2>4. \A q, r \in Requests' : CallOf(q) = CallOf(r) => q = r
    BY <1>2 DEF IInv, TypeOK
  <2>5. Len(toClient') <= MaxMessages
    BY <1>1, BoundsAssumption
  <2>6. /\ online' \in BOOLEAN /\ (~online' => throttled' = {} /\ toClient' = <<>>)
        /\ \A r \in throttled' : r.session = session'
    BY <1>1
  <2>7. session' \in 1..MaxSessions /\ position' \in {"open", "closed"}
    BY <1>1 DEF IInv, TypeOK
  <2>. QED BY <2>2, <2>3, <2>4, <2>5, <2>6, <2>7 DEF TypeOK
<1>9. ShapeInv'
  <2>1. toClient' \in Seq({})
    BY <1>1
  <2>2. calls' = [c \in Calls |-> calls'[c]]
    BY <1>1
  <2>. QED BY <2>1, <2>2 DEF ShapeInv, IsSequence
<1>10. RequestsInv'
  <2>1. (throttled \cap arrived)' = {}
    BY <1>1
  <2>2. \A q \in Requests' :
            /\ CallOf(q) \in Calls /\ CallOf(q) \notin executed'
            /\ calls'[CallOf(q)].state # "idle"
    BY <1>1, <1>2, <1>5 DEF IInv, RequestsInv, Continues
  <2>. QED BY <1>6, <2>1, <2>2 DEF RequestsInv
<1>11. PendingInv'
  BY <1>6 DEF PendingInv
<1>12. ExecutedInv'
  BY <1>1, <1>7 DEF IInv, ExecutedInv
<1>13. MessagesInv'
  <2>1. \A c \in executed' : ~Pending(c)'
    BY <1>1, <1>6, <1>7 DEF IInv, ExecutedInv
  <2>. QED BY <1>1, <2>1 DEF MessagesInv
<1>14. AnsweredInv'
  <2>1. \A c \in Calls : calls'[c].state = "answered" => calls'[c] = calls[c]
    BY <1>4
  <2>. QED BY <1>5, <2>1, AnsweredKept DEF IInv, AnsweredInv
<1>15. OverInv'
  <2>1. ASSUME NEW c \in Calls, Mutates(c)' PROVE OverHolds(c)'
    <3>1. CASE calls'[c] = calls[c]
      BY <1>5, <2>1, <3>1, OverKept DEF IInv
    <3>2. CASE calls'[c].result = Lost
      BY <3>2 DEF OverHolds, Settled, Lost
    <3>. QED BY <1>4, <3>1, <3>2
  <2>. QED BY <2>1 DEF OverInv, OverHolds
<1>. QED BY <1>8, <1>9, <1>10, <1>11, <1>12, <1>13, <1>14, <1>15 DEF IInv

\* The messages of a chunk: an execution event is told to the listeners.
LEMMA ExecutionTold ==
    ASSUME NEW message,
           message.payloadType = ProtoOAPayloadType.PROTO_OA_EXECUTION_EVENT
    PROVE  HandleMessage(message) # <<>>
<1> DEFINE event == Emission("execution", <<Decode(ProtoOAExecutionEvent, message.payload)>>)
<1>1. TradingEmits(message.payloadType, message.payload) = <<event>>
  BY DEF TradingEmits, ProtoOAPayloadType
<1>2. AccountEmits(message.payloadType, message.payload) = <<>>
  BY DEF AccountEmits, ProtoOAPayloadType
<1>3. MarketDataEmits(message.payloadType, message.payload) = <<>>
  BY DEF MarketDataEmits, ProtoOAPayloadType
<1> HIDE DEF event
<1>4. HandleMessage(message) = <<event>> \o <<>> \o <<>>
  BY <1>1, <1>2, <1>3 DEF HandleMessage, Emits
<1>5. <<event>> \o <<>> \o <<>> # <<>>
  OBVIOUS
<1>. QED BY <1>4, <1>5

LEMMA TailOf ==
    ASSUME NEW s, IsSequence(s), s # <<>>
    PROVE  /\ IsSequence(Tail(s)) /\ Len(s) \in Nat \ {0} /\ Len(Tail(s)) = Len(s) - 1
           /\ DOMAIN s = 1..Len(s) /\ DOMAIN Tail(s) = 1..(Len(s) - 1)
           /\ \A i \in 1..(Len(s) - 1) : Tail(s)[i] = s[i + 1]
           /\ Head(s) = s[1]
<1> PICK S : s \in Seq(S)
  BY DEF IsSequence
<1>1. Tail(s) \in Seq(S) /\ Len(s) \in Nat \ {0}
  OBVIOUS
<1>. QED BY <1>1 DEF IsSequence

LEMMA ReceiveStep ==
    ASSUME IInv, Receive
    PROVE  IInv'
<1> DEFINE m == Head(toClient)
           message == MessageRead(m)
<1>1. /\ toClient # <<>> /\ toClient' = Tail(toClient)
      /\ UNCHANGED <<online, session, throttled, arrived, orders, position>>
      /\ UNCHANGED <<executed, missed>>
      /\ learnt' = IF HandleMessage(message) # <<>> THEN learnt \cup ({m.cause} \ {""})
                   ELSE learnt
      /\ calls' = [c \in Calls |->
                      IF Answers(c, message)
                      THEN [state |-> "answered", method |-> calls[c].method,
                            params |-> calls[c].params, message |-> message,
                            meant |-> m.result]
                      ELSE calls[c]]
  BY DEF Receive, broker, MessageRead
<1>2. IsSequence(toClient) /\ calls = [c \in Calls |-> calls[c]]
  BY DEF IInv, ShapeInv
<1>3. /\ IsSequence(toClient') /\ Len(toClient) \in Nat \ {0}
      /\ DOMAIN toClient = 1..Len(toClient) /\ DOMAIN toClient' = 1..(Len(toClient) - 1)
      /\ Len(toClient') = Len(toClient) - 1
      /\ \A i \in 1..(Len(toClient) - 1) : toClient'[i] = toClient[i + 1]
      /\ m = toClient[1]
  BY <1>1, <1>2, TailOf
<1>4. MessageInv(m)
  BY <1>3 DEF IInv, MessagesInv
<1>5. \A c \in Calls :
        \/ calls'[c] = calls[c] /\ ~Answers(c, message)
        \/ /\ Answers(c, message)
           /\ calls[c].state = "pending" /\ calls'[c].state = "answered"
           /\ calls'[c].method = calls[c].method /\ calls'[c].params = calls[c].params
           /\ calls'[c].message = message
  BY <1>1 DEF Answers
<1>6. Requests' = Requests
  BY <1>1 DEF Requests
<1>7. \A c \in Calls : Asks(c)' <=> Asks(c)
  BY <1>6 DEF Asks
<1> HIDE DEF m, message
<1>8. Continues
  BY <1>1, <1>5, <1>7 DEF Continues
<1>9. \A c \in Calls : (Mutating(c)' <=> Mutating(c)) /\ (Pending(c)' => Pending(c))
  BY <1>5 DEF Mutating, Pending
<1>10. TypeOK'
  <2>1. learnt' \cup missed' \subseteq executed'
    BY <1>1, <1>4 DEF IInv, TypeOK, MessageInv
  <2>2. \A c \in Calls : calls'[c].state \in {"idle", "pending", "answered", "over"}
    BY <1>5 DEF IInv, TypeOK
  <2>3. Len(toClient') <= MaxMessages
    BY <1>3, BoundsAssumption DEF IInv, TypeOK
  <2>4. ~online' => throttled' = {} /\ toClient' = <<>>
    BY <1>1 DEF IInv, TypeOK
  <2>5. /\ online' \in BOOLEAN /\ session' \in 1..MaxSessions
        /\ position' \in {"open", "closed"} /\ \A r \in throttled' : r.session = session'
        /\ \A q, r \in Requests' : CallOf(q) = CallOf(r) => q = r
    BY <1>1, <1>6 DEF IInv, TypeOK
  <2>. QED BY <2>1, <2>2, <2>3, <2>4, <2>5 DEF TypeOK
<1>11. ShapeInv'
  <2>1. calls' = [c \in Calls |-> calls'[c]]
    BY <1>1
  <2>. QED BY <1>3, <2>1 DEF ShapeInv
<1>12. RequestsInv'
  <2>1. \A q \in Requests' :
            /\ CallOf(q) \in Calls /\ CallOf(q) \notin executed'
            /\ calls'[CallOf(q)].state # "idle"
            /\ (Mutating(CallOf(q)) /\ Pending(CallOf(q)))' => q.session = session'
    BY <1>1, <1>6, <1>8, <1>9 DEF IInv, RequestsInv, Continues
  <2>. QED BY <1>1, <2>1 DEF IInv, RequestsInv
<1>13. PendingInv'
  BY <1>1, <1>9 DEF IInv, PendingInv
<1>14. ExecutedInv'
  <2>1. \A c \in executed' : Mutating(c)' /\ calls'[c].method = calls[c].method
    BY <1>1, <1>5, <1>9 DEF IInv, ExecutedInv
  <2>. QED BY <1>1, <2>1 DEF IInv, ExecutedInv
\* A mutation takes what has its id.
<1>15. \A c \in Calls : Mutating(c) /\ Pending(c) => (Answers(c, message) <=> IdOf(m) = c)
  BY MutationsAreNoHandshakes DEF Mutating, Pending, Answers, IdOf, message
<1>16. MessagesInv'
  <2>1. \A x : MessageInv(x) => MessageInv(x)'
    BY <1>8, MessageKept
  <2>2. \A i \in DOMAIN toClient' : MessageInv(toClient'[i])
    <3>1. \A i \in 1..(Len(toClient) - 1) : i + 1 \in 1..Len(toClient)
      BY <1>3
    <3>. QED BY <1>3, <3>1 DEF IInv, MessagesInv
  <2>3. \A i \in DOMAIN toClient' : MessageInv(toClient[i])'
    BY <2>1, <2>2
  <2>4. ASSUME NEW c \in executed', Pending(c)'
        PROVE  ToldFirst(c)'
    <3>1. c \in Calls /\ Mutating(c) /\ Pending(c) /\ c \in executed
      BY <1>1, <1>9, <2>4 DEF IInv, ExecutedInv
    <3>2. ~Answers(c, message)
      BY <1>5, <2>4, <3>1 DEF Pending
    <3>3. IdOf(toClient[1]) # c
      BY <1>3, <1>15, <3>1, <3>2
    <3>4. PICK j \in 1..Len(toClient) :
            /\ toClient[j].cause = c /\ IdOf(toClient[j]) = c
            /\ \A i \in 1..(j - 1) : IdOf(toClient[i]) # c
      BY <1>3, <3>1 DEF IInv, MessagesInv, ToldFirst
    <3>5. j - 1 \in 1..(Len(toClient) - 1) /\ (j - 1) + 1 = j
      BY <1>3, <3>3, <3>4
    <3>6. toClient'[j - 1] = toClient[j]
      BY <1>3, <3>5
    <3>7. ASSUME NEW i \in 1..(j - 1 - 1)
          PROVE  IdOf(toClient'[i]) # c
      <4>1. i + 1 \in 1..(j - 1) /\ i \in 1..(Len(toClient) - 1)
        BY <1>3, <3>5
      <4>2. toClient'[i] = toClient[i + 1]
        BY <1>3, <4>1
      <4>. QED BY <3>4, <4>1, <4>2
    <3>8. j - 1 \in DOMAIN toClient'
      BY <1>3, <3>5
    <3>. QED BY <3>4, <3>6, <3>7, <3>8 DEF ToldFirst
  <2>. QED BY <2>3, <2>4 DEF MessagesInv
<1>17. AnsweredInv'
  <2>1. ASSUME NEW c \in Calls, (calls[c].state = "answered" /\ Mutating(c))'
        PROVE  (IsOutcome(c, calls[c].message) /\ (c \in executed => c \in learnt))'
    <3>1. CASE calls'[c] = calls[c]
      BY <1>8, <2>1, <3>1, AnsweredKept DEF IInv
    <3>2. CASE Answers(c, message) /\ calls[c].state = "pending" /\ calls'[c].message = message
      <4>1. Mutating(c) /\ Pending(c) /\ IdOf(m) = c
        BY <1>9, <1>15, <2>1, <3>2 DEF Pending
      <4>2. IsOutcome(c, message)
        BY <1>4, <4>1 DEF MessageInv, message
      <4>3. \A x : IsOutcome(c, x) => IsOutcome(c, x)'
        BY <1>8, <4>1, OutcomeKept DEF Mutating
      <4>4. IsOutcome(c, calls[c].message)'
        BY <3>2, <4>2, <4>3
      <4>5. ASSUME c \in executed' PROVE c \in learnt'
        <5>1. ToldFirst(c)
          BY <1>1, <4>1, <4>5 DEF IInv, MessagesInv
        <5>2. PICK j \in 1..Len(toClient) :
                /\ toClient[j].cause = c /\ IdOf(toClient[j]) = c
                /\ \A i \in 1..(j - 1) : IdOf(toClient[i]) # c
          BY <1>3, <5>1 DEF ToldFirst
        <5>3. j = 1
          BY <1>3, <4>1, <5>2
        <5>4. m.cause = c
          BY <1>3, <5>2, <5>3
        <5>5. c # ""
          BY CallsAssumption
        <5>6. HandleMessage(message) # <<>>
          BY <1>4, <5>4, <5>5, ExecutionTold DEF MessageInv, message
        <5>. QED BY <1>1, <5>4, <5>5, <5>6
      <4>. QED BY <4>4, <4>5
    <3>. QED BY <1>5, <3>1, <3>2
  <2>. QED BY <2>1 DEF AnsweredInv
<1>18. OverInv'
  <2>1. \A c \in Calls : Mutates(c)' => calls'[c] = calls[c]
    BY <1>5 DEF Mutates
  <2>. QED BY <1>8, <2>1, OverKept DEF IInv, OverInv, OverHolds
<1>. QED BY <1>10, <1>11, <1>12, <1>13, <1>14, <1>16, <1>17, <1>18 DEF IInv

LEMMA ErrorTypes == DOMAIN ErrorSchemas = {2142, 50, 2132}
<1> DEFINE a == ProtoOAPayloadType.PROTO_OA_ERROR_RES
           b == ProtoPayloadType.ERROR_RES
           c == ProtoOAPayloadType.PROTO_OA_ORDER_ERROR_EVENT
<1>1. a = 2142 /\ b = 50 /\ c = 2132
  BY DEF ProtoOAPayloadType, ProtoPayloadType
<1> HIDE DEF a, b, c
<1> DEFINE handshake == Entry(a, ProtoOAErrorRes) ++ Entry(b, ProtoErrorRes)
           order == Entry(c, ProtoOAOrderErrorEvent)
<1>2. ErrorSchemas = handshake ++ order
  BY DEF ErrorSchemas, a, b, c
<1>3. DOMAIN handshake = {a} \cup {b}
  BY DEF Entry, ++
<1>4. DOMAIN order = {c}
  BY EntryMaps
<1> HIDE DEF handshake, order
<1>5. DOMAIN ErrorSchemas = {a} \cup {b} \cup {c}
  BY <1>2, <1>3, <1>4 DEF ++
<1>. QED BY <1>1, <1>5

\* What a mutation makes of its outcome.
LEMMA OutcomeRead ==
    ASSUME NEW call, call.method \in Mutations
    PROVE  /\ call.message.payloadType \in DOMAIN ErrorSchemas
                => ResultOf(call).settled = "rejected"
           /\ call.message.payloadType = ProtoOAPayloadType.PROTO_OA_EXECUTION_EVENT
                => ResultOf(call)
                    = Resolves(Decode(ProtoOAExecutionEvent, call.message.payload))
<1>1. SchemasOfErrors(call.method) = ErrorSchemas
  BY MutationsAreNoHandshakes DEF SchemasOfErrors
<1>2. ASSUME call.message.payloadType \in DOMAIN ErrorSchemas
      PROVE  ResultOf(call).settled = "rejected"
  BY <1>1, <1>2 DEF ResultOf, ReadError, Rejects
<1>3. ASSUME call.message.payloadType = ProtoOAPayloadType.PROTO_OA_EXECUTION_EVENT
      PROVE  ResultOf(call) = Resolves(Decode(ProtoOAExecutionEvent, call.message.payload))
  <2>1. call.message.payloadType \notin DOMAIN ErrorSchemas
    BY <1>3, ErrorTypes DEF ProtoOAPayloadType
  <2>2. ResultOf(call) = Read(call.method, call.params, call.message.payload)
    BY <1>1, <2>1 DEF ResultOf
  <2>3. Read(call.method, call.params, call.message.payload)
          = ReadExecution(call.message.payload)
    BY DEF Read, Mutations, Placements
  <2>. QED BY <2>2, <2>3 DEF ReadExecution
<1>. QED BY <1>2, <1>3

\* The calls that the chunk answered go on.
LEMMA ResumeStep ==
    ASSUME IInv, Resume
    PROVE  IInv'
<1>1. /\ UNCHANGED <<online, session, throttled, arrived, toClient, orders, position>>
      /\ UNCHANGED <<executed, learnt, missed>>
      /\ calls' = [c \in Calls |->
                      IF calls[c].state = "answered"
                      THEN Over(calls[c], ResultOf(calls[c]), calls[c].meant) ELSE calls[c]]
  BY DEF Resume, broker
<1>2. \A c \in Calls :
        \/ calls'[c] = calls[c] /\ calls[c].state # "answered"
        \/ /\ calls[c].state = "answered" /\ calls'[c].state = "over"
           /\ calls'[c].method = calls[c].method /\ calls'[c].params = calls[c].params
           /\ calls'[c].result = ResultOf(calls[c])
  BY <1>1 DEF Over
<1>3. Requests' = Requests
  BY <1>1 DEF Requests
<1>4. \A c \in Calls : Asks(c)' <=> Asks(c)
  BY <1>3 DEF Asks
<1>5. Continues
  BY <1>1, <1>2, <1>4 DEF Continues
<1>6. \A c \in Calls : (Mutating(c)' <=> Mutating(c)) /\ (Pending(c)' <=> Pending(c))
  BY <1>2 DEF Mutating, Pending
<1>7. TypeOK'
  <2>1. \A c \in Calls : calls'[c].state \in {"idle", "pending", "answered", "over"}
    BY <1>2 DEF IInv, TypeOK
  <2>. QED BY <1>1, <1>3, <2>1 DEF IInv, TypeOK
<1>8. ShapeInv'
  <2>1. calls' = [c \in Calls |-> calls'[c]]
    BY <1>1
  <2>. QED BY <1>1, <2>1 DEF IInv, ShapeInv, IsSequence
<1>9. RequestsInv'
  <2>1. \A q \in Requests' :
            /\ CallOf(q) \in Calls /\ CallOf(q) \notin executed'
            /\ calls'[CallOf(q)].state # "idle"
            /\ (Mutating(CallOf(q)) /\ Pending(CallOf(q)))' => q.session = session'
    BY <1>1, <1>3, <1>5, <1>6 DEF IInv, RequestsInv, Continues
  <2>. QED BY <1>1, <2>1 DEF IInv, RequestsInv
<1>10. PendingInv'
  BY <1>1, <1>6 DEF IInv, PendingInv
<1>11. ExecutedInv'
  <2>1. \A c \in executed' : Mutating(c)' /\ calls'[c].method = calls[c].method
    BY <1>1, <1>2, <1>6 DEF IInv, ExecutedInv
  <2>. QED BY <1>1, <2>1 DEF IInv, ExecutedInv
<1>12. MessagesInv'
  <2>1. \A m : MessageInv(m) => MessageInv(m)'
    BY <1>5, MessageKept
  <2>2. \A i \in DOMAIN toClient' : MessageInv(toClient[i])'
    BY <1>1, <2>1 DEF IInv, MessagesInv
  <2>3. \A c \in executed' : Pending(c)' => ToldFirst(c)'
    BY <1>1, <1>6 DEF IInv, MessagesInv, ToldFirst, ExecutedInv
  <2>. QED BY <2>2, <2>3 DEF MessagesInv
<1>13. AnsweredInv'
  <2>1. \A c \in Calls : calls'[c].state # "answered"
    BY <1>2
  <2>. QED BY <2>1 DEF AnsweredInv
<1>14. OverInv'
  <2>1. ASSUME NEW c \in Calls, Mutates(c)' PROVE OverHolds(c)'
    <3>1. CASE calls'[c] = calls[c]
      BY <1>5, <2>1, <3>1, OverKept DEF IInv
    <3>2. CASE calls[c].state = "answered" /\ calls'[c].result = ResultOf(calls[c])
      <4> DEFINE message == calls[c].message
      <4>1. Mutating(c) /\ calls[c].method \in Mutations /\ calls[c].state # "idle"
        BY <1>2, <2>1, <3>2 DEF Mutates, Mutating
      <4>2. IsOutcome(c, message) /\ (c \in executed => c \in learnt)
        BY <3>2, <4>1 DEF IInv, AnsweredInv
      <4>3. Asks(c)' => Asks(c)
        BY <1>4
      <4>4. CASE /\ message.payloadType \in DOMAIN ErrorSchemas
                 /\ c \notin executed /\ ~Asks(c)
        <5>1. ResultOf(calls[c]).settled = "rejected"
          BY <4>1, <4>4, OutcomeRead
        <5>2. ~Settled(c, "resolved")'
          BY <3>2, <5>1 DEF Settled
        <5>. QED BY <1>1, <4>3, <4>4, <5>2 DEF OverHolds
      <4>5. CASE /\ message.payloadType = ProtoOAPayloadType.PROTO_OA_EXECUTION_EVENT
                 /\ AgreesWith(c, Decode(ProtoOAExecutionEvent, message.payload))
        <5> DEFINE event == Decode(ProtoOAExecutionEvent, message.payload)
        <5>1. ResultOf(calls[c]) = Resolves(event)
          BY <4>1, <4>5, OutcomeRead
        <5>2. ~Settled(c, "rejected")' /\ EventOf(c)' = event
          BY <3>2, <5>1 DEF Settled, EventOf, Resolves
        <5>3. \A x : AgreesWith(c, x) => AgreesWith(c, x)'
          BY <1>5, <4>1, AgreementKept
        <5> HIDE DEF event
        <5>4. AgreesWith(c, EventOf(c))'
          BY <4>5, <5>2, <5>3 DEF event
        <5>. QED BY <1>1, <4>2, <5>2, <5>4 DEF OverHolds
      <4>. QED BY <4>2, <4>4, <4>5 DEF IsOutcome
    <3>. QED BY <1>2, <3>1, <3>2
  <2>. QED BY <2>1 DEF OverInv, OverHolds
<1>. QED BY <1>7, <1>8, <1>9, <1>10, <1>11, <1>12, <1>13, <1>14 DEF IInv

-----------------------------------------------------------------------------
(* The steps of the broker.                                                   *)

LEMMA MessageOfRead ==
    ASSUME NEW type, NEW payload, NEW id, NEW cause, NEW result, NEW events, NEW m,
           m = MessageOf(type, payload, id, cause, result, events)
    PROVE  /\ MessageRead(m).payloadType = type /\ MessageRead(m).payload = payload
           /\ IdOf(m) = id /\ m.cause = cause
<1>1. m.wire = Envelope(type, payload, id) /\ m.cause = cause
  BY DEF MessageOf
<1>. QED BY <1>1, EnvelopeRead DEF MessageRead, IdOf

LEMMA AppendTo ==
    ASSUME NEW s, IsSequence(s), NEW m
    PROVE  /\ IsSequence(Append(s, m)) /\ Len(s) \in Nat /\ Len(Append(s, m)) = Len(s) + 1
           /\ DOMAIN s = 1..Len(s) /\ DOMAIN Append(s, m) = 1..(Len(s) + 1)
           /\ \A i \in 1..Len(s) : Append(s, m)[i] = s[i]
           /\ Append(s, m)[Len(s) + 1] = m
<1> PICK S : s \in Seq(S)
  BY DEF IsSequence
<1>1. s \in Seq(S \cup {m}) /\ Len(s) \in Nat
  OBVIOUS
<1>2. Append(s, m) \in Seq(S \cup {m})
  BY <1>1
<1>. QED BY <1>1, <1>2 DEF IsSequence

\* What tells of an execution first still does when m is appended.
LEMMA ToldFirstKept ==
    ASSUME NEW c, NEW m, IsSequence(toClient), ToldFirst(c),
           toClient' = toClient \/ toClient' = Append(toClient, m)
    PROVE  ToldFirst(c)'
<1>1. PICK j \in DOMAIN toClient :
        /\ toClient[j].cause = c /\ IdOf(toClient[j]) = c
        /\ \A i \in 1..(j - 1) : IdOf(toClient[i]) # c
  BY DEF ToldFirst
<1>2. CASE toClient' = toClient
  BY <1>1, <1>2 DEF ToldFirst
<1>3. CASE toClient' = Append(toClient, m)
  <2>1. /\ Len(toClient) \in Nat /\ DOMAIN toClient = 1..Len(toClient)
        /\ DOMAIN toClient' = 1..(Len(toClient) + 1)
        /\ \A i \in 1..Len(toClient) : toClient'[i] = toClient[i]
    BY <1>3, AppendTo
  <2>2. j \in DOMAIN toClient' /\ toClient'[j] = toClient[j]
    BY <2>1
  <2>3. \A i \in 1..(j - 1) : toClient'[i] = toClient[i]
    BY <2>1
  <2>. QED BY <1>1, <2>2, <2>3 DEF ToldFirst
<1>. QED BY <1>2, <1>3

\* A step of the broker that executes nothing: it may deal with a request and tell of it.
LEMMA TellingStep ==
    ASSUME IInv, NEW m,
           \/ toClient' = toClient
           \/ /\ online /\ Room /\ toClient' = Append(toClient, m) /\ MessageInv(m)',
           arrived' \subseteq arrived, DOMAIN orders' = DOMAIN orders,
           UNCHANGED <<calls, online, session, throttled, position>>,
           UNCHANGED <<executed, learnt, missed>>
    PROVE  IInv'
<1>1. Requests' \subseteq Requests
  BY DEF Requests
<1>2. \A c \in Calls : Asks(c)' => Asks(c)
  BY <1>1 DEF Asks
<1>3. Continues
  BY <1>2 DEF Continues
<1>4. IsSequence(toClient)
  BY DEF IInv, ShapeInv
<1>5. /\ Len(toClient) \in Nat /\ DOMAIN toClient = 1..Len(toClient)
      /\ IsSequence(Append(toClient, m)) /\ Len(Append(toClient, m)) = Len(toClient) + 1
      /\ DOMAIN Append(toClient, m) = 1..(Len(toClient) + 1)
      /\ \A i \in 1..Len(toClient) : Append(toClient, m)[i] = toClient[i]
      /\ Append(toClient, m)[Len(toClient) + 1] = m
  BY <1>4, AppendTo
<1>6. TypeOK'
  <2>1. Len(toClient') <= MaxMessages
    BY <1>5, BoundsAssumption DEF IInv, TypeOK, Room
  <2>2. ~online' => throttled' = {} /\ toClient' = <<>>
    BY DEF IInv, TypeOK
  <2>3. \A q, r \in Requests' : CallOf(q) = CallOf(r) => q = r
    BY <1>1 DEF IInv, TypeOK
  <2>. QED BY <2>1, <2>2, <2>3 DEF IInv, TypeOK
<1>7. ShapeInv'
  BY <1>4, <1>5 DEF IInv, ShapeInv
<1>8. RequestsInv'
  <2>1. (throttled \cap arrived)' = {}
    BY DEF IInv, RequestsInv
  <2>. QED BY <1>1, <2>1 DEF IInv, RequestsInv, Mutating, Pending
<1>9. PendingInv' /\ ExecutedInv'
  BY DEF IInv, PendingInv, ExecutedInv, Mutating, Pending
<1>10. MessagesInv'
  <2>1. \A x : MessageInv(x) => MessageInv(x)'
    BY <1>3, MessageKept
  <2>2. \A i \in DOMAIN toClient : MessageInv(toClient[i])
    BY DEF IInv, MessagesInv
  <2>3. \A i \in DOMAIN toClient' : MessageInv(toClient[i])'
    <3>1. CASE toClient' = toClient
      BY <2>1, <2>2, <3>1
    <3>2. CASE toClient' = Append(toClient, m) /\ MessageInv(m)'
      <4> SUFFICES ASSUME NEW i \in DOMAIN toClient'
                   PROVE  MessageInv(toClient[i])'
        OBVIOUS
      <4>1. i \in 1..Len(toClient) \/ i = Len(toClient) + 1
        <5>1. toClient' = Append(toClient, m)
          BY <3>2
        <5>2. i \in 1..(Len(toClient) + 1) /\ Len(toClient) \in Nat
          BY <1>5, <5>1
        <5>. QED BY <5>2
      <4>2. CASE i \in 1..Len(toClient)
        <5>1. toClient'[i] = toClient[i]
          BY <1>5, <3>2, <4>2
        <5>. QED BY <1>5, <2>1, <2>2, <4>2, <5>1
      <4>3. CASE i = Len(toClient) + 1
        <5>1. toClient'[i] = m
          BY <1>5, <3>2, <4>3
        <5>. QED BY <3>2, <5>1
      <4>. QED BY <4>1, <4>2, <4>3
    <3>. QED BY <3>1, <3>2
  <2>4. \A c \in executed' : Pending(c)' => ToldFirst(c)'
    BY <1>4, ToldFirstKept DEF IInv, MessagesInv, Pending
  <2>. QED BY <2>3, <2>4 DEF MessagesInv
<1>11. AnsweredInv'
  BY <1>3, AnsweredKept DEF IInv, AnsweredInv
<1>12. OverInv'
  BY <1>3, OverKept DEF IInv, OverInv, OverHolds
<1>. QED BY <1>6, <1>7, <1>8, <1>9, <1>10, <1>11, <1>12 DEF IInv

\* A request is answered, refused or rejected.
LEMMA HandledStep ==
    ASSUME IInv, NEW r \in arrived, NEW m, Room,
           toClient' = IF Answerable(r) THEN Append(toClient, m) ELSE toClient,
           arrived' = arrived \ {r},
           UNCHANGED <<calls, online, session, throttled, orders, position, history>>,
           m.cause = "", IdOf(m) = CallOf(r),
           Mutating(CallOf(r)) =>
            \/ MessageRead(m).payloadType \in DOMAIN ErrorSchemas
            \/ LET event == Decode(ProtoOAExecutionEvent, MessageRead(m).payload)
               IN  /\ MessageRead(m).payloadType = ProtoOAPayloadType.PROTO_OA_EXECUTION_EVENT
                   /\ About(CallOf(r), calls[CallOf(r)], event)
                   /\ event.executionType \in Refusals
    PROVE  IInv'
<1> DEFINE c == CallOf(r)
           event == Decode(ProtoOAExecutionEvent, MessageRead(m).payload)
<1>1. c \in Calls /\ calls[c].state # "idle" /\ c \notin executed
  BY DEF IInv, RequestsInv, Requests
<1>2. UNCHANGED <<calls, executed, learnt, missed>>
  BY DEF history
<1>3. ~Asks(c)'
  <2>1. \A q \in Requests : CallOf(q) = c => q = r
    BY DEF IInv, TypeOK, Requests
  <2>2. r \notin Requests'
    BY DEF IInv, RequestsInv, Requests
  <2>3. Requests' \subseteq Requests
    BY DEF Requests
  <2>. QED BY <2>1, <2>2, <2>3 DEF Asks
<1>4. MessageInv(m)'
  <2>1. ASSUME Mutating(c)' PROVE IsOutcome(c, MessageRead(m))'
    <3>1. Mutating(c)
      BY <1>2, <2>1 DEF Mutating
    <3>2. CASE MessageRead(m).payloadType \in DOMAIN ErrorSchemas
      BY <1>1, <1>2, <1>3, <3>2 DEF IsOutcome
    <3>3. CASE /\ MessageRead(m).payloadType = ProtoOAPayloadType.PROTO_OA_EXECUTION_EVENT
               /\ About(c, calls[c], event) /\ event.executionType \in Refusals
      <4>1. AgreesWith(c, event)'
        BY <1>1, <1>2, <1>3, <3>3 DEF AgreesWith, About
      <4>. QED BY <3>3, <4>1 DEF IsOutcome
    <3>. QED BY <3>1, <3>2, <3>3
  <2>2. calls'[c].state # "idle"
    BY <1>1, <1>2
  <2> HIDE DEF c
  <2>3. IdOf(m) = c
    BY DEF c
  <2>. QED BY <2>1, <2>2, <2>3 DEF MessageInv
<1>5. \/ toClient' = toClient
      \/ online /\ Room /\ toClient' = Append(toClient, m) /\ MessageInv(m)'
  BY <1>4 DEF Answerable
<1>. QED BY <1>2, <1>5, TellingStep

LEMMA TellStep ==
    ASSUME IInv, NEW r \in arrived, NEW sort, NEW content, NEW means, NEW told, Room,
           Tell(r, sort, content, means, told),
           Mutating(CallOf(r)) => sort \in DOMAIN ErrorSchemas
    PROVE  IInv'
<1>1. PICK m : m = MessageOf(sort, content, CallOf(r), "", means, told)
  OBVIOUS
<1>2. /\ toClient' = IF Answerable(r) THEN Append(toClient, m) ELSE toClient
      /\ arrived' = arrived \ {r}
      /\ UNCHANGED <<calls, online, session, throttled, orders, position, history>>
  BY <1>1 DEF Tell
<1>3. m.wire = Envelope(sort, content, CallOf(r))
  BY <1>1 DEF MessageOf
<1>4. m.cause = ""
  BY <1>1 DEF MessageOf
<1>5. IdOf(m) = CallOf(r) /\ MessageRead(m).payloadType = sort
  BY <1>3, EnvelopeRead DEF MessageRead, IdOf
<1>. QED BY <1>2, <1>4, <1>5, HandledStep

LEMMA BrokerErrorTypes ==
    ASSUME NEW method
    PROVE  DOMAIN BrokerErrorSchemas(method) \subseteq DOMAIN ErrorSchemas
<1> DEFINE a == ProtoOAPayloadType.PROTO_OA_ERROR_RES
           b == ProtoPayloadType.ERROR_RES
           c == ProtoOAPayloadType.PROTO_OA_ORDER_ERROR_EVENT
<1>1. a = 2142 /\ b = 50 /\ c = 2132
  BY DEF ProtoOAPayloadType, ProtoPayloadType
<1> HIDE DEF a, b, c
<1> DEFINE general == Entry(a, ProtoOAErrorRes) ++ Entry(b, ProtoErrorRes)
           order == IF method \in Mutations THEN Entry(c, ProtoOAOrderErrorEvent) ELSE <<>>
<1>2. BrokerErrorSchemas(method) = general ++ order
  BY DEF BrokerErrorSchemas, a, b, c
<1>3. DOMAIN general = {a} \cup {b}
  BY DEF Entry, ++
<1>4. DOMAIN order \subseteq {c}
  <2>1. CASE method \in Mutations
    BY <2>1, EntryMaps
  <2>2. CASE method \notin Mutations
    BY <2>2
  <2>. QED BY <2>1, <2>2
<1> HIDE DEF general, order
<1>5. DOMAIN BrokerErrorSchemas(method) \subseteq {a} \cup {b} \cup {c}
  BY <1>2, <1>3, <1>4 DEF ++
<1>. QED BY <1>1, <1>5, ErrorTypes

LEMMA AnswersStep ==
    ASSUME IInv, NEW r \in arrived, BrokerAnswers(r)
    PROVE  IInv'
<1> DEFINE method == calls[CallOf(r)].method
<1>1. method \notin Mutations /\ Room
  BY DEF BrokerAnswers
<1>2. PICK fact \in Contents(method) :
        Tell(r, AnswerTypes[method], AnswerPayload(method, fact),
             AnswerMeans(method, calls[CallOf(r)].params, fact), <<>>)
  BY DEF BrokerAnswers
<1>3. ~Mutating(CallOf(r))
  BY <1>1 DEF Mutating
<1> PICK type, payload, means, told :
        /\ type = AnswerTypes[method] /\ payload = AnswerPayload(method, fact)
        /\ means = AnswerMeans(method, calls[CallOf(r)].params, fact) /\ told = <<>>
  OBVIOUS
<1>4. Tell(r, type, payload, means, told)
  BY <1>2
<1>. QED BY <1>1, <1>3, <1>4, TellStep

LEMMA RefusesStep ==
    ASSUME IInv, NEW r \in arrived, BrokerRefuses(r)
    PROVE  IInv'
<1> DEFINE schemas == BrokerErrorSchemas(calls[CallOf(r)].method)
<1>1. Room
  BY DEF BrokerRefuses
<1>2. PICK type \in DOMAIN schemas :
        \E payload, result, events : Tell(r, type, payload, result, events)
  BY DEF BrokerRefuses
<1>3. PICK payload, result, events : Tell(r, type, payload, result, events)
  BY <1>2
<1>4. type \in DOMAIN ErrorSchemas
  BY BrokerErrorTypes
<1>. QED BY <1>1, <1>3, <1>4, TellStep

LEMMA ExecutionRead ==
    ASSUME NEW event, NEW id, NEW cause, NEW m, m = Execution(event, id, cause)
    PROVE  /\ MessageRead(m).payloadType = ProtoOAPayloadType.PROTO_OA_EXECUTION_EVENT
           /\ MessageRead(m).payload = BrokerEncode(ProtoOAExecutionEvent, event)
           /\ IdOf(m) = id /\ m.cause = cause
<1> DEFINE payload == BrokerEncode(ProtoOAExecutionEvent, event)
           meaning == Complete(ProtoOAExecutionEvent, event)
<1>1. m.wire = Envelope(ProtoOAPayloadType.PROTO_OA_EXECUTION_EVENT, payload, id)
      /\ m.cause = cause
  BY DEF Execution, MessageOf
<1> HIDE DEF payload
<1>2. /\ MessageRead(m).payloadType = ProtoOAPayloadType.PROTO_OA_EXECUTION_EVENT
      /\ MessageRead(m).payload = payload /\ IdOf(m) = id
  BY <1>1, EnvelopeRead DEF MessageRead, IdOf
<1>. QED BY <1>1, <1>2 DEF payload

\* The event of a rejection is about the order of the call.
LEMMA RejectionIsOwn ==
    ASSUME UndefinedIsNoRecord, NEW c, NEW call, NEW event,
           event = IF call.method = "cancelOrder"
                   THEN AboutOrder(ProtoOAExecutionType.ORDER_CANCEL_REJECTED,
                                   call.params.orderId,
                                   ProtoOAOrderStatus.ORDER_STATUS_FILLED)
                   ELSE AboutOrder(ProtoOAExecutionType.ORDER_REJECTED, OrderOf[c],
                                   ProtoOAOrderStatus.ORDER_STATUS_REJECTED),
           call.method \in Placements \cup {"cancelOrder"}
    PROVE  LET read == Decode(ProtoOAExecutionEvent,
                              BrokerEncode(ProtoOAExecutionEvent, event))
           IN  About(c, call, read) /\ read.executionType \in Refusals
<1> DEFINE read == Decode(ProtoOAExecutionEvent, BrokerEncode(ProtoOAExecutionEvent, event))
           o == IF call.method = "cancelOrder" THEN call.params.orderId ELSE OrderOf[c]
<1>1. "cancelOrder" \notin Placements
  BY DEF Placements
<1>2. PICK type, status : type \in Refusals /\ event = AboutOrder(type, o, status)
  BY DEF Refusals
<1> HIDE DEF o
<1>3. read.executionType = type /\ read.order # Undefined /\ read.order.orderId = o
  BY <1>2, OrderEventRead
<1> HIDE DEF read
<1>4. read.order.orderId = IF call.method \in Placements THEN OrderOf[c]
                           ELSE call.params.orderId
  BY <1>1, <1>3 DEF o
<1>5. call.method \in Placements \cup {"amendOrder", "cancelOrder"}
  OBVIOUS
<1>6. About(c, call, read)
  BY <1>3, <1>4, <1>5 DEF About
<1>. QED BY <1>2, <1>3, <1>6 DEF read

LEMMA RejectsByEventStep ==
    ASSUME UndefinedIsNoRecord, IInv, NEW r \in arrived, BrokerRejectsByEvent(r)
    PROVE  IInv'
<1> DEFINE c == CallOf(r)
           call == calls[c]
<1>1. PICK event :
        event = IF call.method = "cancelOrder"
                THEN AboutOrder(ProtoOAExecutionType.ORDER_CANCEL_REJECTED,
                                call.params.orderId,
                                ProtoOAOrderStatus.ORDER_STATUS_FILLED)
                ELSE AboutOrder(ProtoOAExecutionType.ORDER_REJECTED, OrderOf[c],
                                ProtoOAOrderStatus.ORDER_STATUS_REJECTED)
  OBVIOUS
<1>2. PICK none : none = ""
  OBVIOUS
<1>3. PICK m : m = Execution(event, c, none)
  OBVIOUS
<1>4. /\ call.method \in Placements \cup {"cancelOrder"} /\ Room
      /\ arrived' = arrived \ {r}
      /\ UNCHANGED <<calls, online, session, throttled, orders, position, history>>
  BY DEF BrokerRejectsByEvent
<1>5. toClient' = IF Answerable(r) THEN Append(toClient, m) ELSE toClient
  BY <1>1, <1>2, <1>3, Zenon DEF BrokerRejectsByEvent
<1>6. /\ MessageRead(m).payloadType = ProtoOAPayloadType.PROTO_OA_EXECUTION_EVENT
      /\ MessageRead(m).payload = BrokerEncode(ProtoOAExecutionEvent, event)
      /\ IdOf(m) = c /\ m.cause = none
  BY <1>3, ExecutionRead
<1>7. LET read == Decode(ProtoOAExecutionEvent, MessageRead(m).payload)
      IN  About(c, call, read) /\ read.executionType \in Refusals
  BY <1>1, <1>4, <1>6, RejectionIsOwn
<1>8. m.cause = ""
  BY <1>2, <1>6
<1>. QED BY <1>4, <1>5, <1>6, <1>7, <1>8, HandledStep

\* The messages after m, which tells of the execution of c under id, has been appended.
LEMMA ExecutionAppended ==
    ASSUME IInv, NEW c \in Calls, NEW m, Continues, MessageInv(m)', Asks(c), Mutating(c),
           toClient' = Append(toClient, m), UNCHANGED calls,
           executed' = executed \cup {c}, Pending(c) => IdOf(m) = c /\ m.cause = c
    PROVE  MessagesInv'
<1>1. IsSequence(toClient)
  BY DEF IInv, ShapeInv
<1>2. /\ Len(toClient) \in Nat /\ DOMAIN toClient = 1..Len(toClient)
      /\ DOMAIN toClient' = 1..(Len(toClient) + 1)
      /\ \A i \in 1..Len(toClient) : toClient'[i] = toClient[i]
      /\ toClient'[Len(toClient) + 1] = m
  BY <1>1, AppendTo
<1>3. \A i \in 1..Len(toClient) : MessageInv(toClient[i])
  BY <1>2 DEF IInv, MessagesInv
<1>4. \A x : MessageInv(x) => MessageInv(x)'
  BY MessageKept
<1>5. \A i \in DOMAIN toClient' : MessageInv(toClient[i])'
  <2> SUFFICES ASSUME NEW i \in DOMAIN toClient'
               PROVE  MessageInv(toClient[i])'
    OBVIOUS
  <2>1. i \in 1..Len(toClient) \/ i = Len(toClient) + 1
    <3>1. i \in 1..(Len(toClient) + 1) /\ Len(toClient) \in Nat
      BY <1>2
    <3>. QED BY <3>1
  <2>2. CASE i \in 1..Len(toClient)
    <3>1. toClient'[i] = toClient[i]
      BY <1>2, <2>2
    <3>. QED BY <1>3, <1>4, <2>2, <3>1
  <2>3. CASE i = Len(toClient) + 1
    <3>1. toClient'[i] = m
      BY <1>2, <2>3
    <3>. QED BY <3>1
  <2>. QED BY <2>1, <2>2, <2>3
<1>6. ASSUME NEW d \in executed', Pending(d)'
      PROVE  ToldFirst(d)'
  <2>0. Pending(d)
    BY <1>6 DEF Pending
  <2>1. CASE d \in executed
    BY <1>1, <2>0, <2>1, ToldFirstKept DEF IInv, MessagesInv
  <2>2. CASE d = c
    <3>1. \A i \in 1..Len(toClient) : IdOf(toClient[i]) # c
      BY <1>3 DEF MessageInv, IsOutcome, AgreesWith
    <3>2. m.cause = c /\ IdOf(m) = c
      BY <2>0, <2>2
    <3>3. PICK j : j = Len(toClient) + 1
      OBVIOUS
    <3>4. j \in DOMAIN toClient' /\ toClient'[j] = m
      BY <1>2, <3>3
    <3>5. \A i \in 1..(j - 1) : i \in 1..Len(toClient)
      BY <1>2, <3>3
    <3>6. \A i \in 1..(j - 1) : IdOf(toClient'[i]) # c
      BY <1>2, <3>1, <3>5
    <3>. QED BY <2>2, <3>2, <3>4, <3>6 DEF ToldFirst, IdOf, MessageRead
  <2>. QED BY <2>1, <2>2
<1>. QED BY <1>5, <1>6 DEF MessagesInv

\* A request is executed, and event tells of it.
LEMMA ExecutesStep ==
    ASSUME IInv, NEW r \in arrived, NEW event, Room, Executes(r, event),
           position' \in {"open", "closed"}, calls[CallOf(r)].method \in Mutations,
           \A o \in DOMAIN orders' :
               \/ o \in DOMAIN orders
               \/ calls[CallOf(r)].method \in Placements /\ o = OrderOf[CallOf(r)],
           LET read == Decode(ProtoOAExecutionEvent,
                              BrokerEncode(ProtoOAExecutionEvent, event))
           IN  /\ About(CallOf(r), calls[CallOf(r)], read)
               /\ read.executionType \notin Refusals
    PROVE  IInv'
<1> DEFINE c == CallOf(r)
           read == Decode(ProtoOAExecutionEvent, BrokerEncode(ProtoOAExecutionEvent, event))
<1>1. /\ r \in Requests /\ c \in Calls /\ calls[c].state # "idle" /\ c \notin executed
      /\ Mutating(c) /\ Asks(c) /\ (Pending(c) => r.session = session /\ online)
  BY DEF IInv, RequestsInv, PendingInv, Requests, Mutating, Asks
<1>2. /\ executed' = executed \cup {c} /\ arrived' = arrived \ {r}
      /\ UNCHANGED <<calls, online, session, throttled, learnt>>
  BY DEF Executes
<1>3. \/ ~online /\ missed' = missed \cup {c} /\ UNCHANGED toClient
      \/ online /\ missed' = missed /\ \E m :
            /\ toClient' = Append(toClient, m)
            /\ m = Execution(event, IF Answerable(r) THEN c ELSE "", c)
  BY Zenon DEF Executes
<1>4. Requests' \subseteq Requests
  BY <1>2 DEF Requests
<1>5. ~Asks(c)'
  <2>1. \A q \in Requests : CallOf(q) = c => q = r
    BY <1>1 DEF IInv, TypeOK
  <2>2. r \notin Requests'
    BY <1>2 DEF IInv, RequestsInv, Requests
  <2>. QED BY <1>4, <2>1, <2>2 DEF Asks
<1>6. Continues
  <2>1. \A d \in Calls : Asks(d)' => Asks(d)
    BY <1>4 DEF Asks
  <2>. QED BY <1>1, <1>2, <2>1 DEF Continues
<1>7. IsSequence(toClient)
  BY DEF IInv, ShapeInv
<1>8. IsSequence(toClient') /\ Len(toClient') <= MaxMessages
  <2>1. CASE UNCHANGED toClient
    BY <1>7, <2>1 DEF IInv, TypeOK
  <2>2. CASE \E m : toClient' = Append(toClient, m)
    BY <1>7, <2>2, AppendTo, BoundsAssumption DEF Room
  <2>. QED BY <1>3, <2>1, <2>2
<1>9. TypeOK'
  <2>1. ~online' => throttled' = {} /\ toClient' = <<>>
    BY <1>2, <1>3 DEF IInv, TypeOK
  <2>2. \A q, s \in Requests' : CallOf(q) = CallOf(s) => q = s
    BY <1>4 DEF IInv, TypeOK
  <2>3. learnt' \cup missed' \subseteq executed'
    BY <1>2, <1>3 DEF IInv, TypeOK
  <2>. QED BY <1>2, <1>8, <2>1, <2>2, <2>3 DEF IInv, TypeOK
<1>10. ShapeInv'
  BY <1>2, <1>8 DEF IInv, ShapeInv
<1>11. RequestsInv'
  <2>1. (throttled \cap arrived)' = {}
    BY <1>2 DEF IInv, RequestsInv
  <2>2. ASSUME NEW q \in Requests'
        PROVE  /\ CallOf(q) \in Calls /\ CallOf(q) \notin executed'
               /\ calls'[CallOf(q)].state # "idle"
               /\ Mutating(CallOf(q))' /\ Pending(CallOf(q))' => q.session = session'
    <3>1. CallOf(q) # c
      BY <1>5 DEF Asks
    <3>2. q \in Requests
      BY <1>4
    <3> HIDE DEF c
    <3>. QED BY <1>2, <3>1, <3>2 DEF IInv, RequestsInv, Mutating, Pending
  <2>. QED BY <2>1, <2>2 DEF RequestsInv
<1>12. PendingInv'
  BY <1>2 DEF IInv, PendingInv, Mutating, Pending
<1>13. ExecutedInv'
  <2>1. executed' \subseteq Calls /\ \A d \in executed' : Mutating(d)'
    BY <1>1, <1>2 DEF IInv, ExecutedInv, Mutating
  <2>2. \A o \in DOMAIN orders' : o = PendingOrder
            \/ \E d \in executed' : calls'[d].method \in Placements /\ o = OrderOf[d]
    BY <1>2 DEF IInv, ExecutedInv
  <2>. QED BY <2>1, <2>2 DEF ExecutedInv
<1>14. MessagesInv'
  <2>1. CASE ~online /\ UNCHANGED toClient
    <3>1. \A x : MessageInv(x) => MessageInv(x)'
      BY <1>6, MessageKept
    <3>2. \A i \in DOMAIN toClient' : MessageInv(toClient[i])'
      BY <2>1, <3>1 DEF IInv, MessagesInv
    <3>3. ~Pending(c)'
      BY <1>1, <1>2, <2>1 DEF Pending
    <3>4. \A d \in executed : Pending(d)' => ToldFirst(d)'
      BY <1>2, <1>7, <2>1, ToldFirstKept DEF IInv, MessagesInv, Pending
    <3>. QED BY <1>2, <3>2, <3>3, <3>4 DEF MessagesInv
  <2>2. ASSUME online, NEW m, toClient' = Append(toClient, m),
               m = Execution(event, IF Answerable(r) THEN c ELSE "", c)
        PROVE  MessagesInv'
    <3>1. PICK id : id = IF Answerable(r) THEN c ELSE ""
      OBVIOUS
    <3>2. m = Execution(event, id, c)
      BY <2>2, <3>1, Zenon
    <3>3. /\ MessageRead(m).payloadType = ProtoOAPayloadType.PROTO_OA_EXECUTION_EVENT
          /\ MessageRead(m).payload = BrokerEncode(ProtoOAExecutionEvent, event)
          /\ IdOf(m) = id /\ m.cause = c
      BY <3>2, ExecutionRead
    <3>4. id = c \/ id \notin Calls
      BY <3>1, CallsAssumption
    <3>5. Pending(c) => id = c
      BY <1>1, <3>1 DEF Answerable
    <3>6. IsOutcome(c, MessageRead(m))'
      <4>1. AgreesWith(c, read)'
        BY <1>2, <1>5 DEF AgreesWith, About
      <4>. QED BY <3>3, <4>1 DEF IsOutcome
    <3>7. MessageInv(m)'
      <4> HIDE DEF c
      <4>1. c \in executed' /\ calls'[c].state # "idle"
        BY <1>1, <1>2
      <4>. QED BY <3>3, <3>4, <3>6, <4>1 DEF MessageInv
    <3> HIDE DEF c
    <3>. QED BY <1>1, <1>2, <1>6, <2>2, <3>3, <3>5, <3>7, ExecutionAppended
  <2>. QED BY <1>3, <2>1, <2>2
<1>15. AnsweredInv'
  BY <1>2, <1>6, AnsweredKept DEF IInv, AnsweredInv
<1>16. OverInv'
  BY <1>2, <1>6, OverKept DEF IInv, OverInv, OverHolds
<1>. QED BY <1>9, <1>10, <1>11, <1>12, <1>13, <1>14, <1>15, <1>16 DEF IInv

LEMMA OpensStep ==
    ASSUME UndefinedIsNoRecord, IInv, NEW r \in arrived, BrokerOpens(r)
    PROVE  IInv'
<1> DEFINE c == CallOf(r)
<1>1. PICK event, status :
        /\ event = AboutOrder(ProtoOAExecutionType.ORDER_ACCEPTED, OrderOf[c], status)
        /\ Executes(r, event)
  BY DEF BrokerOpens
<1>2. /\ calls[c].method \in Placements /\ Room /\ position' = position
      /\ orders' = Entry(OrderOf[c], "working") ++ orders
  BY DEF BrokerOpens
<1>3. \A o \in DOMAIN orders' : o \in DOMAIN orders \/ o = OrderOf[c]
  <2>1. DOMAIN orders' = {OrderOf[c]} \cup DOMAIN orders
    BY <1>2, Zenon DEF ++, Entry
  <2>. QED BY <2>1
<1>4. LET read == Decode(ProtoOAExecutionEvent, BrokerEncode(ProtoOAExecutionEvent, event))
      IN  About(c, calls[c], read) /\ read.executionType \notin Refusals
  <2>1. ProtoOAExecutionType.ORDER_ACCEPTED \notin Refusals
    BY DEF Refusals, ProtoOAExecutionType
  <2>. QED BY <1>1, <1>2, <2>1, OrderEventRead DEF About
<1>5. calls[c].method \in Mutations /\ position' \in {"open", "closed"}
  BY <1>2 DEF Mutations, IInv, TypeOK
<1>. QED BY <1>1, <1>2, <1>3, <1>4, <1>5, ExecutesStep

LEMMA AmendsStep ==
    ASSUME UndefinedIsNoRecord, IInv, NEW r \in arrived, BrokerAmends(r)
    PROVE  IInv'
<1> DEFINE call == calls[CallOf(r)]
<1>1. PICK event, status :
        /\ event = AboutOrder(ProtoOAExecutionType.ORDER_REPLACED, call.params.orderId, status)
        /\ Executes(r, event)
  BY DEF BrokerAmends
<1>2. call.method = "amendOrder" /\ Room /\ position' = position /\ orders' = orders
  BY DEF BrokerAmends
<1>3. call.method \in Mutations /\ call.method \notin Placements
      /\ position' \in {"open", "closed"}
  BY <1>2 DEF Mutations, Placements, IInv, TypeOK
<1>4. LET read == Decode(ProtoOAExecutionEvent, BrokerEncode(ProtoOAExecutionEvent, event))
      IN  About(CallOf(r), call, read) /\ read.executionType \notin Refusals
  <2>1. ProtoOAExecutionType.ORDER_REPLACED \notin Refusals
    BY DEF Refusals, ProtoOAExecutionType
  <2>. QED BY <1>1, <1>2, <1>3, <2>1, OrderEventRead DEF About
<1>. QED BY <1>1, <1>2, <1>3, <1>4, ExecutesStep

LEMMA CancelsStep ==
    ASSUME UndefinedIsNoRecord, IInv, NEW r \in arrived, BrokerCancels(r)
    PROVE  IInv'
<1> DEFINE call == calls[CallOf(r)]
<1>1. PICK event, status :
        /\ event = AboutOrder(ProtoOAExecutionType.ORDER_CANCELLED, call.params.orderId, status)
        /\ Executes(r, event)
  BY DEF BrokerCancels
<1>2. /\ call.method = "cancelOrder" /\ Room /\ position' = position
      /\ DOMAIN orders' = DOMAIN orders
  BY DEF BrokerCancels
<1>3. call.method \in Mutations /\ call.method \notin Placements
      /\ position' \in {"open", "closed"}
  BY <1>2 DEF Mutations, Placements, IInv, TypeOK
<1>4. LET read == Decode(ProtoOAExecutionEvent, BrokerEncode(ProtoOAExecutionEvent, event))
      IN  About(CallOf(r), call, read) /\ read.executionType \notin Refusals
  <2>1. ProtoOAExecutionType.ORDER_CANCELLED \notin Refusals
    BY DEF Refusals, ProtoOAExecutionType
  <2>. QED BY <1>1, <1>2, <1>3, <2>1, OrderEventRead DEF About
<1>. QED BY <1>1, <1>2, <1>3, <1>4, ExecutesStep

\* An event about the position is about what a call that names it was for.
LEMMA PositionStep ==
    ASSUME UndefinedIsNoRecord, IInv, NEW r \in arrived, NEW event, NEW type, NEW status,
           Room, Executes(r, event), event = AboutPosition(type, status), type \notin Refusals,
           calls[CallOf(r)].method \in {"amendPositionStopLossTakeProfit", "closePosition"},
           calls[CallOf(r)].params.positionId = Position,
           position' \in {"open", "closed"}, orders' = orders
    PROVE  IInv'
<1> DEFINE call == calls[CallOf(r)]
<1>1. /\ call.method \in Mutations
      /\ call.method \notin Placements \cup {"amendOrder", "cancelOrder"}
  BY DEF Mutations, Placements
<1>2. LET read == Decode(ProtoOAExecutionEvent, BrokerEncode(ProtoOAExecutionEvent, event))
      IN  About(CallOf(r), call, read) /\ read.executionType \notin Refusals
  BY <1>1, PositionEventRead DEF About
<1>. QED BY <1>1, <1>2, ExecutesStep

LEMMA MovesStopsStep ==
    ASSUME UndefinedIsNoRecord, IInv, NEW r \in arrived, BrokerMovesStops(r)
    PROVE  IInv'
<1>1. PICK event, status :
        /\ event = AboutPosition(ProtoOAExecutionType.ORDER_REPLACED, status)
        /\ Executes(r, event)
  BY DEF BrokerMovesStops
<1>2. ProtoOAExecutionType.ORDER_REPLACED \notin Refusals
  BY DEF Refusals, ProtoOAExecutionType
<1>3. /\ Room /\ position' = "open" /\ orders' = orders
      /\ calls[CallOf(r)].method = "amendPositionStopLossTakeProfit"
      /\ calls[CallOf(r)].params.positionId = Position
  BY DEF BrokerMovesStops
<1>. QED BY <1>1, <1>2, <1>3, PositionStep

LEMMA ClosesStep ==
    ASSUME UndefinedIsNoRecord, IInv, NEW r \in arrived, BrokerCloses(r)
    PROVE  IInv'
<1>1. PICK event, status :
        /\ event = AboutPosition(ProtoOAExecutionType.ORDER_FILLED, status)
        /\ Executes(r, event)
  BY DEF BrokerCloses
<1>2. ProtoOAExecutionType.ORDER_FILLED \notin Refusals
  BY DEF Refusals, ProtoOAExecutionType
<1>3. /\ Room /\ position' = "closed" /\ orders' = orders
      /\ calls[CallOf(r)].method = "closePosition"
      /\ calls[CallOf(r)].params.positionId = Position
  BY DEF BrokerCloses
<1>. QED BY <1>1, <1>2, <1>3, PositionStep

\* An order fills: if somebody placed it, its request has been executed.
LEMMA FillsStep ==
    ASSUME UndefinedIsNoRecord, IInv, NEW o \in DOMAIN orders, BrokerFills(o)
    PROVE  IInv'
<1>1. PICK event, status :
        /\ event = AboutOrder(ProtoOAExecutionType.ORDER_FILLED, o, status)
        /\ \E id \in {""} \cup {c \in Calls : OrderOf[c] = o} :
            toClient' = IF online THEN Append(toClient, Execution(event, id, ""))
                        ELSE toClient
  BY Zenon DEF BrokerFills
<1>2. event = AboutOrder(ProtoOAExecutionType.ORDER_FILLED, o, status)
  BY <1>1
<1>3. PICK none : none = ""
  OBVIOUS
<1>4. PICK id \in {none} \cup {c \in Calls : OrderOf[c] = o} :
        toClient' = IF online THEN Append(toClient, Execution(event, id, none)) ELSE toClient
  BY <1>1, <1>3, Zenon
<1>5. PICK m : m = Execution(event, id, none)
  OBVIOUS
<1>6. /\ Room /\ DOMAIN orders' = DOMAIN orders /\ arrived' = arrived
      /\ UNCHANGED <<calls, online, session, throttled, position>>
      /\ UNCHANGED <<executed, learnt, missed>>
  BY DEF BrokerFills, history
<1>7. /\ MessageRead(m).payloadType = ProtoOAPayloadType.PROTO_OA_EXECUTION_EVENT
      /\ MessageRead(m).payload = BrokerEncode(ProtoOAExecutionEvent, event)
      /\ IdOf(m) = id /\ m.cause = none
  BY <1>5, ExecutionRead
<1>8. MessageInv(m)'
  <2>1. m.cause = ""
    BY <1>3, <1>7
  <2>2. ASSUME id \in Calls
        PROVE  calls'[id].state # "idle" /\ (Mutating(id)' => IsOutcome(id, MessageRead(m))')
    <3>1. OrderOf[id] = o
      BY <1>3, <2>2, CallsAssumption
    <3>2. id \in executed /\ calls[id].method \in Placements
      BY <2>2, <3>1, OrderOfAssumption DEF IInv, ExecutedInv
    <3>3. calls[id].state # "idle" /\ ~Asks(id)
      BY <3>2 DEF IInv, ExecutedInv, RequestsInv, Mutating, Asks
    <3>4. ~Asks(id)'
      BY <1>6, <3>3 DEF Asks, Requests
    <3>5. LET read == Decode(ProtoOAExecutionEvent, BrokerEncode(ProtoOAExecutionEvent, event))
          IN  About(id, calls[id], read) /\ read.executionType \notin Refusals
      <4>1. ProtoOAExecutionType.ORDER_FILLED \notin Refusals
        BY DEF Refusals, ProtoOAExecutionType
      <4> DEFINE read == Decode(ProtoOAExecutionEvent,
                                BrokerEncode(ProtoOAExecutionEvent, event))
      <4>2. /\ read.executionType = ProtoOAExecutionType.ORDER_FILLED
            /\ read.order # Undefined /\ read.order.orderId = o
        BY <1>2, OrderEventRead
      <4> HIDE DEF read
      <4>. QED BY <3>1, <3>2, <4>1, <4>2 DEF About, read
    <3>6. AgreesWith(id, Decode(ProtoOAExecutionEvent, MessageRead(m).payload))'
      BY <1>6, <1>7, <3>2, <3>4, <3>5 DEF AgreesWith, About
    <3>. QED BY <1>6, <1>7, <3>3, <3>6 DEF IsOutcome
  <2>. QED BY <1>7, <2>1, <2>2 DEF MessageInv
<1>9. \/ toClient' = toClient
      \/ online /\ Room /\ toClient' = Append(toClient, m) /\ MessageInv(m)'
  BY <1>4, <1>5, <1>6, <1>8
<1>. QED BY <1>6, <1>9, TellingStep

\* What the broker tells of its own accord answers nobody.
LEMMA PublishesStep ==
    ASSUME IInv, NEW e, BrokerPublishes(e)
    PROVE  IInv'
<1>1. PICK none : none = ""
  OBVIOUS
<1>2. PICK m : m = MessageOf(e.payloadType, EventPayload(e.payloadType, e.fact), none, none,
                             Undefined, EventMeans(e.payloadType, e.fact))
  OBVIOUS
<1>3. toClient = <<>> /\ online /\ toClient' = <<m>>
  BY <1>1, <1>2, Zenon DEF BrokerPublishes
<1>4. /\ UNCHANGED <<calls, online, session, throttled, position, arrived, orders>>
      /\ UNCHANGED <<executed, learnt, missed>>
  BY DEF BrokerPublishes, broker
<1>5. IdOf(m) = none /\ m.cause = none
  BY <1>2, MessageOfRead
<1>6. MessageInv(m)'
  BY <1>1, <1>5, CallsAssumption DEF MessageInv
<1>7. Room /\ toClient' = Append(toClient, m)
  BY <1>3, BoundsAssumption DEF Room
<1>. QED BY <1>3, <1>4, <1>6, <1>7, TellingStep

-----------------------------------------------------------------------------
(* Every step.                                                                *)

\* A call of a method sends its request.
Sends(c) == \E method, params, request : MayCall(c, method) /\ Send(c, method, params, request)

LEMMA SendsStep ==
    ASSUME IInv, NEW c \in Calls, Sends(c)
    PROVE  IInv'
BY SendStep DEF Sends

LEMMA TradingCallSends == ASSUME NEW c, TradingCall(c) PROVE Sends(c)
BY Zenon DEF TradingCall, Call, Sends

LEMMA AccountCallSends == ASSUME NEW c, AccountCall(c) PROVE Sends(c)
BY Zenon DEF AccountCall, Call, Sends

LEMMA HistoryCallSends ==
    ASSUME NEW c, HistoryCall(c) PROVE Sends(c) \/ CashFlowOutOfRange(c)
BY Zenon DEF HistoryCall, Call, CallCashFlow, Sends

LEMMA MarketDataCallSends == ASSUME NEW c, MarketDataCall(c) PROVE Sends(c)
BY Zenon DEF MarketDataCall, Call, Sends

LEMMA HandshakeCallSends == ASSUME NEW c, HandshakeCall(c) PROVE Sends(c)
BY Zenon DEF HandshakeCall, Call, Sends

LEMMA OutOfRangeStep ==
    ASSUME IInv, NEW c \in Calls, CashFlowOutOfRange(c)
    PROVE  IInv'
<1>1. PICK call : /\ call.method \notin Mutations
                  /\ calls' = [calls EXCEPT ![c] = Over(call, OutOfRange, OutOfRange)]
  <2>1. "getCashFlow" \notin Mutations
    BY DEF Mutations, Placements
  <2>2. PICK p : calls' = [calls EXCEPT ![c] =
            Over([method |-> "getCashFlow", params |-> p], OutOfRange, OutOfRange)]
    BY DEF CashFlowOutOfRange
  <2>. QED BY <2>1, <2>2
<1>2. /\ UNCHANGED <<online, session, throttled, arrived, toClient, orders, position>>
      /\ UNCHANGED <<executed, learnt, missed>>
  BY DEF CashFlowOutOfRange, broker
<1>3. calls[c].state = "idle"
  <2>1. calls[c] = Idle
    BY Zenon DEF CashFlowOutOfRange, MayCall
  <2>. QED BY <2>1 DEF Idle
<1>4. OutOfRange.settled \notin {"resolved", "rejected"}
  BY DEF OutOfRange
<1>. QED BY <1>1, <1>2, <1>3, <1>4, EndStep

LEMMA TimesOutStep ==
    ASSUME IInv, NEW c \in Calls, TimesOut(c)
    PROVE  IInv'
<1>1. /\ calls[c].state # "idle"
      /\ calls' = [calls EXCEPT ![c] = Over(calls[c], TimedOut, TimedOut)]
      /\ UNCHANGED <<online, session, throttled, arrived, toClient, orders, position>>
      /\ UNCHANGED <<executed, learnt, missed>>
  BY DEF TimesOut, broker
<1>2. TimedOut.settled \notin {"resolved", "rejected"}
  BY DEF TimedOut
<1>. QED BY <1>1, <1>2, EndStep

LEMMA CallStep ==
    ASSUME IInv, NEW c \in Calls,
           TradingCall(c) \/ AccountCall(c) \/ HistoryCall(c) \/ MarketDataCall(c)
            \/ HandshakeCall(c) \/ TimesOut(c)
    PROVE  IInv'
BY SendsStep, OutOfRangeStep, TimesOutStep, TradingCallSends, AccountCallSends,
   HistoryCallSends, MarketDataCallSends, HandshakeCallSends

LEMMA BrokerStep ==
    ASSUME UndefinedIsNoRecord, IInv, NEW r \in arrived, BrokerHandles(r)
    PROVE  IInv'
BY AnswersStep, RefusesStep, RejectsByEventStep, OpensStep, AmendsStep, CancelsStep,
   MovesStopsStep, ClosesStep DEF BrokerHandles

LEMMA StutterStep ==
    ASSUME IInv, UNCHANGED vars
    PROVE  IInv'
<1>1. /\ UNCHANGED <<toClient, arrived, orders>>
      /\ UNCHANGED <<calls, online, session, throttled, position>>
      /\ UNCHANGED <<executed, learnt, missed>>
  BY DEF vars
<1>. QED BY <1>1, TellingStep

LEMMA NextIInv ==
    ASSUME UndefinedIsNoRecord, IInv, [Next]_vars
    PROVE  IInv'
<1>1. CASE UNCHANGED vars
  BY <1>1, StutterStep
<1>2. CASE \E c \in Calls : TradingCall(c) \/ AccountCall(c) \/ HistoryCall(c)
                              \/ MarketDataCall(c) \/ HandshakeCall(c) \/ TimesOut(c)
  BY <1>2, CallStep
<1>3. CASE \E r \in throttled : Leave(r)
  BY <1>3, LeaveStep
<1>4. CASE Disconnected \/ Authenticated \/ Receive \/ Resume
  BY <1>4, DisconnectedStep, AuthenticatedStep, ReceiveStep, ResumeStep
<1>5. CASE \E r \in arrived : BrokerHandles(r)
  BY <1>5, BrokerStep
<1>6. CASE \E o \in DOMAIN orders : BrokerFills(o)
  BY <1>6, FillsStep
<1>7. CASE \E i \in DOMAIN Events : BrokerPublishes(Events[i])
  BY <1>7, PublishesStep
<1>. QED BY <1>1, <1>2, <1>3, <1>4, <1>5, <1>6, <1>7 DEF Next

\* The invariant of a call's way to its outcome, for every menu, input, answer and event.
THEOREM IInvHolds ==
    ASSUME UndefinedIsNoRecord
    PROVE  Spec => []IInv
<1>1. Init => IInv
  BY InitIInv
<1>2. IInv /\ [Next]_vars => IInv'
  BY NextIInv
<1>. QED BY <1>1, <1>2, PTL DEF Spec

\* A call has one request at most, nothing is under way without a connection, and what is
\* learnt or missed was executed (spotware-client.ts:190-250, rate-limiter.ts).
THEOREM TypeCorrect ==
    ASSUME UndefinedIsNoRecord
    PROVE  Spec => []TypeOK
<1>1. IInv => TypeOK
  BY DEF IInv
<1>. QED BY <1>1, IInvHolds, PTL

\* A mutation that resolves got the event of its own order, after the account changed unless
\* the event says it has not, and after the listeners were told; one that is rejected with an
\* error changed nothing (spotware-client.ts:238).
THEOREM OutcomeIsToldHolds ==
    ASSUME UndefinedIsNoRecord
    PROVE  Spec => []OutcomeIsTold
<1>1. IInv => OutcomeIsTold
  <2> SUFFICES ASSUME IInv, NEW c \in Calls, Mutates(c)
               PROVE  /\ Settled(c, "resolved") =>
                          /\ IsAboutOwn(c)
                          /\ c \in executed <=> EventOf(c).executionType \notin Refusals
                          /\ c \in executed => c \in learnt
                      /\ Settled(c, "rejected") => c \notin executed
    BY DEF OutcomeIsTold
  <2>1. OverHolds(c)
    BY DEF IInv, OverInv, OverHolds
  <2>2. ASSUME Settled(c, "resolved")
        PROVE  /\ IsAboutOwn(c)
               /\ c \in executed <=> EventOf(c).executionType \notin Refusals
               /\ c \in executed => c \in learnt
    <3>1. AgreesWith(c, EventOf(c)) /\ (c \in executed => c \in learnt)
      BY <2>1, <2>2 DEF OverHolds
    <3>2. About(c, calls[c], EventOf(c)) => IsAboutOwn(c)
      BY DEF About, IsAboutOwn
    <3>. QED BY <3>1, <3>2 DEF AgreesWith
  <2>3. ASSUME Settled(c, "rejected") PROVE c \notin executed
    BY <2>1, <2>3 DEF OverHolds
  <2>. QED BY <2>2, <2>3
<1>. QED BY <1>1, IInvHolds, PTL

-----------------------------------------------------------------------------
(* Requests arrive as they were asked.                                        *)

\* wire carries message: under each tag is what encode writes, or the value of a field that
\* has been added because the protocol requires it.
Carries(wire, schema, message, added) ==
    \A f \in DOMAIN schema : ValuesAt(wire, schema[f].tag) =
        IF f \in added THEN <<message[f]>> ELSE Written(schema[f], message[f])

LEMMA EncodeCarries ==
    ASSUME NEW schema, Flat(schema), NEW message
    PROVE  Carries(Encode(schema, message), schema, message, {})
BY EncodedValues DEF Carries, Flat

LEMMA Append1Values ==
    ASSUME NEW wire, NEW tag, NEW value, ValuesAt(wire, tag) = <<>>
    PROVE  /\ ValuesAt(Append1(wire, tag, value), tag) = <<value>>
           /\ \A t : t # tag => ValuesAt(Append1(wire, tag, value), t) = ValuesAt(wire, t)
<1>1. /\ DOMAIN Append1(wire, tag, value) = DOMAIN wire \cup {tag}
      /\ Append1(wire, tag, value)[tag] = Append(ValuesAt(wire, tag), value)
      /\ \A t \in DOMAIN wire : t # tag => Append1(wire, tag, value)[t] = wire[t]
  BY DEF Append1
<1>2. Append(<<>>, value) = <<value>>
  OBVIOUS
<1>. QED BY <1>1, <1>2 DEF ValuesAt

\* A field that encode dropped for its default is there once it has been added.
LEMMA AddedIsCarried ==
    ASSUME NEW schema, Flat(schema), NEW message, NEW wire, NEW added,
           Carries(wire, schema, message, added),
           NEW f \in DOMAIN schema, f \notin added, schema[f].kind = "scalar",
           NEW fuller,
           fuller = IF message[f] = schema[f].default
                    THEN Append1(wire, schema[f].tag, message[f]) ELSE wire
    PROVE  Carries(fuller, schema, message, added \cup {f})
<1>1. ValuesAt(wire, schema[f].tag)
        = IF message[f] = schema[f].default THEN <<>> ELSE <<message[f]>>
  BY DEF Carries, Written
<1>2. CASE message[f] # schema[f].default
  BY <1>1, <1>2 DEF Carries
<1>3. CASE message[f] = schema[f].default
  <2>1. /\ ValuesAt(fuller, schema[f].tag) = <<message[f]>>
        /\ \A t : t # schema[f].tag => ValuesAt(fuller, t) = ValuesAt(wire, t)
    BY <1>1, <1>3, Append1Values
  <2>2. \A g \in DOMAIN schema : g # f => schema[g].tag # schema[f].tag
    BY DEF Flat, TagsDiffer
  <2>. QED BY <2>1, <2>2 DEF Carries
<1>. QED BY <1>2, <1>3

\* What is carried is read, and a required field is there once.
LEMMA CarriedIsRead ==
    ASSUME NEW schema, Flat(schema), NEW message, NEW wire, NEW added,
           Carries(wire, schema, message, added), NEW f \in DOMAIN schema,
           f \in added => schema[f].kind = "scalar"
    PROVE  /\ Decode(schema, wire)[f] = message[f]
           /\ schema[f].kind = "scalar" =>
                /\ Len(ValuesAt(wire, schema[f].tag)) <= 1
                /\ f \in added \/ message[f] # schema[f].default
                    => Len(ValuesAt(wire, schema[f].tag)) = 1
<1> DEFINE values == ValuesAt(wire, schema[f].tag)
<1>1. values = IF f \in added THEN <<message[f]>> ELSE Written(schema[f], message[f])
  BY DEF Carries
<1>2. Decode(schema, wire)[f] = DecodeField(schema[f], values, DecodeMiddle)
  BY DEF Decode, DecodeWith
<1> HIDE DEF values
<1>3. CASE schema[f].kind = "scalar"
  <2>1. DecodeField(schema[f], values, DecodeMiddle)
          = IF values = <<>> THEN schema[f].default ELSE Last(values)
    BY <1>3 DEF DecodeField
  <2>2. values = IF f \in added \/ message[f] # schema[f].default
                 THEN <<message[f]>> ELSE <<>>
    BY <1>1, <1>3 DEF Written
  <2>3. Last(<<message[f]>>) = message[f] /\ <<message[f]>> # <<>>
    BY LastOfOne
  <2>4. Len(<<message[f]>>) = 1 /\ Len(<<>>) = 0
    OBVIOUS
  <2>5. Decode(schema, wire)[f] = message[f]
    BY <1>1, <1>2, <1>3, <2>1, <2>2, <2>3 DEF Written
  <2>6. Len(values) <= 1 /\ (f \in added \/ message[f] # schema[f].default => Len(values) = 1)
    BY <2>2, <2>4
  <2>. QED BY <2>5, <2>6 DEF values
<1>4. CASE schema[f].kind = "scalars" /\ schema[f].default = <<>>
  BY <1>1, <1>2, <1>4 DEF DecodeField, Written
<1>. QED BY <1>3, <1>4 DEF Flat

\* The request of a call, of this type and with this payload, says what the call asks.
Says(call, type, payload) ==
    LET schema == RequestSchema(type)
        decoded == Decode(schema, payload)
    IN  /\ DOMAIN call.params \subseteq DOMAIN schema \cup {"volumes"}
        /\ \A f \in DOMAIN schema :
            LET values == ValuesAt(payload, schema[f].tag) IN
            /\ schema[f].kind = "scalar" => Len(values) <= 1
            /\ schema[f].required => Len(values) = 1
            /\ decoded[f] = IF IsAsked(call, schema, f) THEN Asked(call, f)
                            ELSE schema[f].default

\* The default of a required field, which encode drops.
Dropped(f) ==
    IF f \in {"clientId", "clientSecret", "accessToken"} THEN ""
    ELSE IF f \in {"orderType", "tradeSide", "period", "type"} THEN 1 ELSE 0

\* A message without nested ones whose required fields are among these.
Requires(schema, names) ==
    /\ Flat(schema)
    /\ \A f \in DOMAIN schema : schema[f].required =>
        f \in names /\ schema[f].kind = "scalar" /\ schema[f].default = Dropped(f)

\* What makes a request say what a call asks: it is given the fields that are asked for, and
\* a required one that is not added is not at its default.
LEMMA GivenIsSaid ==
    ASSUME NEW call, NEW type, NEW schema, schema = RequestSchema(type),
           NEW names, Requires(schema, names), NEW given, NEW added, NEW payload,
           Carries(payload, schema, FromPartial(schema, given), added),
           \A f \in added : f \in DOMAIN schema => schema[f].kind = "scalar",
           DOMAIN call.params \subseteq DOMAIN schema \cup {"volumes"},
           \A f \in DOMAIN schema : IsAsked(call, schema, f) <=> f \in DOMAIN given,
           \A f \in DOMAIN given : f \in DOMAIN schema => given[f] = Asked(call, f),
           \A f \in names : f \in DOMAIN given /\ (f \in added \/ given[f] # Dropped(f))
    PROVE  Says(call, type, payload)
<1> DEFINE message == FromPartial(schema, given)
<1>1. \A f \in DOMAIN schema :
        message[f] = IF f \in DOMAIN given THEN given[f] ELSE schema[f].default
  BY DEF FromPartial
<1> HIDE DEF message
<1>2. ASSUME NEW f \in DOMAIN schema
      PROVE  /\ schema[f].kind = "scalar" => Len(ValuesAt(payload, schema[f].tag)) <= 1
             /\ schema[f].required => Len(ValuesAt(payload, schema[f].tag)) = 1
             /\ Decode(schema, payload)[f]
                    = IF IsAsked(call, schema, f) THEN Asked(call, f) ELSE schema[f].default
  <2>1. /\ Decode(schema, payload)[f] = message[f]
        /\ schema[f].kind = "scalar" =>
            /\ Len(ValuesAt(payload, schema[f].tag)) <= 1
            /\ f \in added \/ message[f] # schema[f].default
                => Len(ValuesAt(payload, schema[f].tag)) = 1
    BY CarriedIsRead DEF Requires, message
  <2>2. schema[f].required =>
            schema[f].kind = "scalar" /\ (f \in added \/ message[f] # schema[f].default)
    BY <1>1 DEF Requires
  <2>. QED BY <1>1, <2>1, <2>2
<1>. QED BY <1>2 DEF Says


LEMMA ProtoOANewOrderReqRequires ==
    /\ DOMAIN ProtoOANewOrderReq = {"payloadType", "ctidTraderAccountId", "symbolId",
            "orderType", "tradeSide", "volume", "limitPrice", "stopPrice",
            "timeInForce", "expirationTimestamp", "stopLoss", "takeProfit", "comment",
            "baseSlippagePrice", "slippageInPoints", "label", "positionId",
            "clientOrderId", "relativeStopLoss", "relativeTakeProfit",
            "guaranteedStopLoss", "trailingStopLoss", "stopTriggerMethod"}
    /\ Requires(ProtoOANewOrderReq, {"ctidTraderAccountId", "symbolId", "orderType",
            "tradeSide", "volume"})
<1>1. DOMAIN ProtoOANewOrderReq = {"payloadType", "ctidTraderAccountId", "symbolId",
          "orderType", "tradeSide", "volume", "limitPrice", "stopPrice", "timeInForce",
          "expirationTimestamp", "stopLoss", "takeProfit", "comment",
          "baseSlippagePrice", "slippageInPoints", "label", "positionId",
          "clientOrderId", "relativeStopLoss", "relativeTakeProfit",
          "guaranteedStopLoss", "trailingStopLoss", "stopTriggerMethod"}
  BY DEF ProtoOANewOrderReq
<1>2. /\ IsScalar(ProtoOANewOrderReq.payloadType, 8)
      /\ IsScalar(ProtoOANewOrderReq.ctidTraderAccountId, 16)
      /\ IsScalar(ProtoOANewOrderReq.symbolId, 24)
      /\ IsScalar(ProtoOANewOrderReq.orderType, 32)
      /\ IsScalar(ProtoOANewOrderReq.tradeSide, 40)
      /\ IsScalar(ProtoOANewOrderReq.volume, 48)
      /\ IsScalar(ProtoOANewOrderReq.limitPrice, 57)
      /\ IsScalar(ProtoOANewOrderReq.stopPrice, 65)
      /\ IsScalar(ProtoOANewOrderReq.timeInForce, 72)
      /\ IsScalar(ProtoOANewOrderReq.expirationTimestamp, 80)
      /\ IsScalar(ProtoOANewOrderReq.stopLoss, 89)
      /\ IsScalar(ProtoOANewOrderReq.takeProfit, 97)
      /\ IsScalar(ProtoOANewOrderReq.comment, 106)
      /\ IsScalar(ProtoOANewOrderReq.baseSlippagePrice, 113)
      /\ IsScalar(ProtoOANewOrderReq.slippageInPoints, 120)
      /\ IsScalar(ProtoOANewOrderReq.label, 130)
      /\ IsScalar(ProtoOANewOrderReq.positionId, 136)
      /\ IsScalar(ProtoOANewOrderReq.clientOrderId, 146)
      /\ IsScalar(ProtoOANewOrderReq.relativeStopLoss, 152)
      /\ IsScalar(ProtoOANewOrderReq.relativeTakeProfit, 160)
      /\ IsScalar(ProtoOANewOrderReq.guaranteedStopLoss, 168)
      /\ IsScalar(ProtoOANewOrderReq.trailingStopLoss, 176)
      /\ IsScalar(ProtoOANewOrderReq.stopTriggerMethod, 184)
  BY DEF ProtoOANewOrderReq, Optional, Required, Field, IsScalar
<1>3. TagsDiffer(ProtoOANewOrderReq)
  BY <1>1, <1>2 DEF TagsDiffer, IsScalar
<1>4. Flat(ProtoOANewOrderReq)
  BY <1>1, <1>2, <1>3 DEF Flat, IsScalar
<1>5. /\ ~ProtoOANewOrderReq.payloadType.required
      /\ ProtoOANewOrderReq.ctidTraderAccountId.default = 0
      /\ ProtoOANewOrderReq.symbolId.default = 0
      /\ ProtoOANewOrderReq.orderType.default = 1
      /\ ProtoOANewOrderReq.tradeSide.default = 1 /\ ProtoOANewOrderReq.volume.default = 0
      /\ ~ProtoOANewOrderReq.limitPrice.required /\ ~ProtoOANewOrderReq.stopPrice.required
      /\ ~ProtoOANewOrderReq.timeInForce.required
      /\ ~ProtoOANewOrderReq.expirationTimestamp.required
      /\ ~ProtoOANewOrderReq.stopLoss.required /\ ~ProtoOANewOrderReq.takeProfit.required
      /\ ~ProtoOANewOrderReq.comment.required
      /\ ~ProtoOANewOrderReq.baseSlippagePrice.required
      /\ ~ProtoOANewOrderReq.slippageInPoints.required
      /\ ~ProtoOANewOrderReq.label.required /\ ~ProtoOANewOrderReq.positionId.required
      /\ ~ProtoOANewOrderReq.clientOrderId.required
      /\ ~ProtoOANewOrderReq.relativeStopLoss.required
      /\ ~ProtoOANewOrderReq.relativeTakeProfit.required
      /\ ~ProtoOANewOrderReq.guaranteedStopLoss.required
      /\ ~ProtoOANewOrderReq.trailingStopLoss.required
      /\ ~ProtoOANewOrderReq.stopTriggerMethod.required
  BY DEF ProtoOANewOrderReq, Optional, Required, Field
<1>. QED BY <1>1, <1>2, <1>4, <1>5 DEF Requires, Dropped, IsScalar

LEMMA ProtoOAAmendOrderReqRequires ==
    /\ DOMAIN ProtoOAAmendOrderReq = {"payloadType", "ctidTraderAccountId", "orderId",
            "volume", "limitPrice", "stopPrice", "expirationTimestamp", "stopLoss",
            "takeProfit", "slippageInPoints", "relativeStopLoss", "relativeTakeProfit",
            "guaranteedStopLoss", "trailingStopLoss", "stopTriggerMethod"}
    /\ Requires(ProtoOAAmendOrderReq, {"ctidTraderAccountId", "orderId"})
<1>1. DOMAIN ProtoOAAmendOrderReq = {"payloadType", "ctidTraderAccountId", "orderId",
          "volume", "limitPrice", "stopPrice", "expirationTimestamp", "stopLoss",
          "takeProfit", "slippageInPoints", "relativeStopLoss", "relativeTakeProfit",
          "guaranteedStopLoss", "trailingStopLoss", "stopTriggerMethod"}
  BY DEF ProtoOAAmendOrderReq
<1>2. /\ IsScalar(ProtoOAAmendOrderReq.payloadType, 8)
      /\ IsScalar(ProtoOAAmendOrderReq.ctidTraderAccountId, 16)
      /\ IsScalar(ProtoOAAmendOrderReq.orderId, 24)
      /\ IsScalar(ProtoOAAmendOrderReq.volume, 32)
      /\ IsScalar(ProtoOAAmendOrderReq.limitPrice, 41)
      /\ IsScalar(ProtoOAAmendOrderReq.stopPrice, 49)
      /\ IsScalar(ProtoOAAmendOrderReq.expirationTimestamp, 56)
      /\ IsScalar(ProtoOAAmendOrderReq.stopLoss, 65)
      /\ IsScalar(ProtoOAAmendOrderReq.takeProfit, 73)
      /\ IsScalar(ProtoOAAmendOrderReq.slippageInPoints, 80)
      /\ IsScalar(ProtoOAAmendOrderReq.relativeStopLoss, 88)
      /\ IsScalar(ProtoOAAmendOrderReq.relativeTakeProfit, 96)
      /\ IsScalar(ProtoOAAmendOrderReq.guaranteedStopLoss, 104)
      /\ IsScalar(ProtoOAAmendOrderReq.trailingStopLoss, 112)
      /\ IsScalar(ProtoOAAmendOrderReq.stopTriggerMethod, 120)
  BY DEF ProtoOAAmendOrderReq, Optional, Required, Field, IsScalar
<1>3. TagsDiffer(ProtoOAAmendOrderReq)
  BY <1>1, <1>2 DEF TagsDiffer, IsScalar
<1>4. Flat(ProtoOAAmendOrderReq)
  BY <1>1, <1>2, <1>3 DEF Flat, IsScalar
<1>5. /\ ~ProtoOAAmendOrderReq.payloadType.required
      /\ ProtoOAAmendOrderReq.ctidTraderAccountId.default = 0
      /\ ProtoOAAmendOrderReq.orderId.default = 0 /\ ~ProtoOAAmendOrderReq.volume.required
      /\ ~ProtoOAAmendOrderReq.limitPrice.required
      /\ ~ProtoOAAmendOrderReq.stopPrice.required
      /\ ~ProtoOAAmendOrderReq.expirationTimestamp.required
      /\ ~ProtoOAAmendOrderReq.stopLoss.required
      /\ ~ProtoOAAmendOrderReq.takeProfit.required
      /\ ~ProtoOAAmendOrderReq.slippageInPoints.required
      /\ ~ProtoOAAmendOrderReq.relativeStopLoss.required
      /\ ~ProtoOAAmendOrderReq.relativeTakeProfit.required
      /\ ~ProtoOAAmendOrderReq.guaranteedStopLoss.required
      /\ ~ProtoOAAmendOrderReq.trailingStopLoss.required
      /\ ~ProtoOAAmendOrderReq.stopTriggerMethod.required
  BY DEF ProtoOAAmendOrderReq, Optional, Required, Field
<1>. QED BY <1>1, <1>2, <1>4, <1>5 DEF Requires, Dropped, IsScalar

LEMMA ProtoOAAmendPositionSLTPReqRequires ==
    /\ DOMAIN ProtoOAAmendPositionSLTPReq = {"payloadType", "ctidTraderAccountId",
            "positionId", "stopLoss", "takeProfit", "guaranteedStopLoss",
            "trailingStopLoss", "stopLossTriggerMethod"}
    /\ Requires(ProtoOAAmendPositionSLTPReq, {"ctidTraderAccountId", "positionId"})
<1>1. DOMAIN ProtoOAAmendPositionSLTPReq = {"payloadType", "ctidTraderAccountId",
          "positionId", "stopLoss", "takeProfit", "guaranteedStopLoss",
          "trailingStopLoss", "stopLossTriggerMethod"}
  BY DEF ProtoOAAmendPositionSLTPReq
<1>2. /\ IsScalar(ProtoOAAmendPositionSLTPReq.payloadType, 8)
      /\ IsScalar(ProtoOAAmendPositionSLTPReq.ctidTraderAccountId, 16)
      /\ IsScalar(ProtoOAAmendPositionSLTPReq.positionId, 24)
      /\ IsScalar(ProtoOAAmendPositionSLTPReq.stopLoss, 33)
      /\ IsScalar(ProtoOAAmendPositionSLTPReq.takeProfit, 41)
      /\ IsScalar(ProtoOAAmendPositionSLTPReq.guaranteedStopLoss, 56)
      /\ IsScalar(ProtoOAAmendPositionSLTPReq.trailingStopLoss, 64)
      /\ IsScalar(ProtoOAAmendPositionSLTPReq.stopLossTriggerMethod, 72)
  BY DEF ProtoOAAmendPositionSLTPReq, Optional, Required, Field, IsScalar
<1>3. TagsDiffer(ProtoOAAmendPositionSLTPReq)
  BY <1>1, <1>2 DEF TagsDiffer, IsScalar
<1>4. Flat(ProtoOAAmendPositionSLTPReq)
  BY <1>1, <1>2, <1>3 DEF Flat, IsScalar
<1>5. /\ ~ProtoOAAmendPositionSLTPReq.payloadType.required
      /\ ProtoOAAmendPositionSLTPReq.ctidTraderAccountId.default = 0
      /\ ProtoOAAmendPositionSLTPReq.positionId.default = 0
      /\ ~ProtoOAAmendPositionSLTPReq.stopLoss.required
      /\ ~ProtoOAAmendPositionSLTPReq.takeProfit.required
      /\ ~ProtoOAAmendPositionSLTPReq.guaranteedStopLoss.required
      /\ ~ProtoOAAmendPositionSLTPReq.trailingStopLoss.required
      /\ ~ProtoOAAmendPositionSLTPReq.stopLossTriggerMethod.required
  BY DEF ProtoOAAmendPositionSLTPReq, Optional, Required, Field
<1>. QED BY <1>1, <1>2, <1>4, <1>5 DEF Requires, Dropped, IsScalar

LEMMA ProtoOACancelOrderReqRequires ==
    /\ DOMAIN ProtoOACancelOrderReq = {"payloadType", "ctidTraderAccountId", "orderId"}
    /\ Requires(ProtoOACancelOrderReq, {"ctidTraderAccountId", "orderId"})
<1>1. DOMAIN ProtoOACancelOrderReq = {"payloadType", "ctidTraderAccountId", "orderId"}
  BY DEF ProtoOACancelOrderReq
<1>2. /\ IsScalar(ProtoOACancelOrderReq.payloadType, 8)
      /\ IsScalar(ProtoOACancelOrderReq.ctidTraderAccountId, 16)
      /\ IsScalar(ProtoOACancelOrderReq.orderId, 24)
  BY DEF ProtoOACancelOrderReq, Optional, Required, Field, IsScalar
<1>3. TagsDiffer(ProtoOACancelOrderReq)
  BY <1>1, <1>2 DEF TagsDiffer, IsScalar
<1>4. Flat(ProtoOACancelOrderReq)
  BY <1>1, <1>2, <1>3 DEF Flat, IsScalar
<1>5. /\ ~ProtoOACancelOrderReq.payloadType.required
      /\ ProtoOACancelOrderReq.ctidTraderAccountId.default = 0
      /\ ProtoOACancelOrderReq.orderId.default = 0
  BY DEF ProtoOACancelOrderReq, Optional, Required, Field
<1>. QED BY <1>1, <1>2, <1>4, <1>5 DEF Requires, Dropped, IsScalar

LEMMA ProtoOAClosePositionReqRequires ==
    /\ DOMAIN ProtoOAClosePositionReq = {"payloadType", "ctidTraderAccountId",
            "positionId", "volume"}
    /\ Requires(ProtoOAClosePositionReq, {"ctidTraderAccountId", "positionId", "volume"})
<1>1. DOMAIN ProtoOAClosePositionReq = {"payloadType", "ctidTraderAccountId",
          "positionId", "volume"}
  BY DEF ProtoOAClosePositionReq
<1>2. /\ IsScalar(ProtoOAClosePositionReq.payloadType, 8)
      /\ IsScalar(ProtoOAClosePositionReq.ctidTraderAccountId, 16)
      /\ IsScalar(ProtoOAClosePositionReq.positionId, 24)
      /\ IsScalar(ProtoOAClosePositionReq.volume, 32)
  BY DEF ProtoOAClosePositionReq, Optional, Required, Field, IsScalar
<1>3. TagsDiffer(ProtoOAClosePositionReq)
  BY <1>1, <1>2 DEF TagsDiffer, IsScalar
<1>4. Flat(ProtoOAClosePositionReq)
  BY <1>1, <1>2, <1>3 DEF Flat, IsScalar
<1>5. /\ ~ProtoOAClosePositionReq.payloadType.required
      /\ ProtoOAClosePositionReq.ctidTraderAccountId.default = 0
      /\ ProtoOAClosePositionReq.positionId.default = 0
      /\ ProtoOAClosePositionReq.volume.default = 0
  BY DEF ProtoOAClosePositionReq, Optional, Required, Field
<1>. QED BY <1>1, <1>2, <1>4, <1>5 DEF Requires, Dropped, IsScalar

LEMMA ProtoOAReconcileReqRequires ==
    /\ DOMAIN ProtoOAReconcileReq = {"payloadType", "ctidTraderAccountId",
            "returnProtectionOrders"}
    /\ Requires(ProtoOAReconcileReq, {"ctidTraderAccountId"})
<1>1. DOMAIN ProtoOAReconcileReq = {"payloadType", "ctidTraderAccountId",
          "returnProtectionOrders"}
  BY DEF ProtoOAReconcileReq
<1>2. /\ IsScalar(ProtoOAReconcileReq.payloadType, 8)
      /\ IsScalar(ProtoOAReconcileReq.ctidTraderAccountId, 16)
      /\ IsScalar(ProtoOAReconcileReq.returnProtectionOrders, 24)
  BY DEF ProtoOAReconcileReq, Optional, Required, Field, IsScalar
<1>3. TagsDiffer(ProtoOAReconcileReq)
  BY <1>1, <1>2 DEF TagsDiffer, IsScalar
<1>4. Flat(ProtoOAReconcileReq)
  BY <1>1, <1>2, <1>3 DEF Flat, IsScalar
<1>5. /\ ~ProtoOAReconcileReq.payloadType.required
      /\ ProtoOAReconcileReq.ctidTraderAccountId.default = 0
      /\ ~ProtoOAReconcileReq.returnProtectionOrders.required
  BY DEF ProtoOAReconcileReq, Optional, Required, Field
<1>. QED BY <1>1, <1>2, <1>4, <1>5 DEF Requires, Dropped, IsScalar

LEMMA ProtoOATraderReqRequires ==
    /\ DOMAIN ProtoOATraderReq = {"payloadType", "ctidTraderAccountId"}
    /\ Requires(ProtoOATraderReq, {"ctidTraderAccountId"})
<1>1. DOMAIN ProtoOATraderReq = {"payloadType", "ctidTraderAccountId"}
  BY DEF ProtoOATraderReq
<1>2. /\ IsScalar(ProtoOATraderReq.payloadType, 8)
      /\ IsScalar(ProtoOATraderReq.ctidTraderAccountId, 16)
  BY DEF ProtoOATraderReq, Optional, Required, Field, IsScalar
<1>3. TagsDiffer(ProtoOATraderReq)
  BY <1>1, <1>2 DEF TagsDiffer, IsScalar
<1>4. Flat(ProtoOATraderReq)
  BY <1>1, <1>2, <1>3 DEF Flat, IsScalar
<1>5. /\ ~ProtoOATraderReq.payloadType.required
      /\ ProtoOATraderReq.ctidTraderAccountId.default = 0
  BY DEF ProtoOATraderReq, Optional, Required, Field
<1>. QED BY <1>1, <1>2, <1>4, <1>5 DEF Requires, Dropped, IsScalar

LEMMA ProtoOAAssetListReqRequires ==
    /\ DOMAIN ProtoOAAssetListReq = {"payloadType", "ctidTraderAccountId"}
    /\ Requires(ProtoOAAssetListReq, {"ctidTraderAccountId"})
<1>1. DOMAIN ProtoOAAssetListReq = {"payloadType", "ctidTraderAccountId"}
  BY DEF ProtoOAAssetListReq
<1>2. /\ IsScalar(ProtoOAAssetListReq.payloadType, 8)
      /\ IsScalar(ProtoOAAssetListReq.ctidTraderAccountId, 16)
  BY DEF ProtoOAAssetListReq, Optional, Required, Field, IsScalar
<1>3. TagsDiffer(ProtoOAAssetListReq)
  BY <1>1, <1>2 DEF TagsDiffer, IsScalar
<1>4. Flat(ProtoOAAssetListReq)
  BY <1>1, <1>2, <1>3 DEF Flat, IsScalar
<1>5. /\ ~ProtoOAAssetListReq.payloadType.required
      /\ ProtoOAAssetListReq.ctidTraderAccountId.default = 0
  BY DEF ProtoOAAssetListReq, Optional, Required, Field
<1>. QED BY <1>1, <1>2, <1>4, <1>5 DEF Requires, Dropped, IsScalar

LEMMA ProtoOAExpectedMarginReqRequires ==
    /\ DOMAIN ProtoOAExpectedMarginReq = {"payloadType", "ctidTraderAccountId",
            "symbolId", "volume"}
    /\ Requires(ProtoOAExpectedMarginReq, {"ctidTraderAccountId", "symbolId"})
<1>1. DOMAIN ProtoOAExpectedMarginReq = {"payloadType", "ctidTraderAccountId",
          "symbolId", "volume"}
  BY DEF ProtoOAExpectedMarginReq
<1>2. /\ IsScalar(ProtoOAExpectedMarginReq.payloadType, 8)
      /\ IsScalar(ProtoOAExpectedMarginReq.ctidTraderAccountId, 16)
      /\ IsScalar(ProtoOAExpectedMarginReq.symbolId, 24)
      /\ AreScalars(ProtoOAExpectedMarginReq.volume, 32)
  BY DEF ProtoOAExpectedMarginReq, Optional, Repeated, Required, Field, AreScalars,
         IsScalar
<1>3. TagsDiffer(ProtoOAExpectedMarginReq)
  BY <1>1, <1>2 DEF TagsDiffer, AreScalars, IsScalar
<1>4. Flat(ProtoOAExpectedMarginReq)
  BY <1>1, <1>2, <1>3 DEF Flat, AreScalars, IsScalar
<1>5. /\ ~ProtoOAExpectedMarginReq.payloadType.required
      /\ ProtoOAExpectedMarginReq.ctidTraderAccountId.default = 0
      /\ ProtoOAExpectedMarginReq.symbolId.default = 0
      /\ ~ProtoOAExpectedMarginReq.volume.required
  BY DEF ProtoOAExpectedMarginReq, Optional, Repeated, Required, Field
<1>. QED BY <1>1, <1>2, <1>4, <1>5 DEF Requires, Dropped, AreScalars, IsScalar

LEMMA ProtoOAGetPositionUnrealizedPnLReqRequires ==
    /\ DOMAIN ProtoOAGetPositionUnrealizedPnLReq = {"payloadType", "ctidTraderAccountId"}
    /\ Requires(ProtoOAGetPositionUnrealizedPnLReq, {"ctidTraderAccountId"})
<1>1. DOMAIN ProtoOAGetPositionUnrealizedPnLReq = {"payloadType", "ctidTraderAccountId"}
  BY DEF ProtoOAGetPositionUnrealizedPnLReq
<1>2. /\ IsScalar(ProtoOAGetPositionUnrealizedPnLReq.payloadType, 8)
      /\ IsScalar(ProtoOAGetPositionUnrealizedPnLReq.ctidTraderAccountId, 16)
  BY DEF ProtoOAGetPositionUnrealizedPnLReq, Optional, Required, Field, IsScalar
<1>3. TagsDiffer(ProtoOAGetPositionUnrealizedPnLReq)
  BY <1>1, <1>2 DEF TagsDiffer, IsScalar
<1>4. Flat(ProtoOAGetPositionUnrealizedPnLReq)
  BY <1>1, <1>2, <1>3 DEF Flat, IsScalar
<1>5. /\ ~ProtoOAGetPositionUnrealizedPnLReq.payloadType.required
      /\ ProtoOAGetPositionUnrealizedPnLReq.ctidTraderAccountId.default = 0
  BY DEF ProtoOAGetPositionUnrealizedPnLReq, Optional, Required, Field
<1>. QED BY <1>1, <1>2, <1>4, <1>5 DEF Requires, Dropped, IsScalar

LEMMA ProtoOAMarginCallListReqRequires ==
    /\ DOMAIN ProtoOAMarginCallListReq = {"payloadType", "ctidTraderAccountId"}
    /\ Requires(ProtoOAMarginCallListReq, {"ctidTraderAccountId"})
<1>1. DOMAIN ProtoOAMarginCallListReq = {"payloadType", "ctidTraderAccountId"}
  BY DEF ProtoOAMarginCallListReq
<1>2. /\ IsScalar(ProtoOAMarginCallListReq.payloadType, 8)
      /\ IsScalar(ProtoOAMarginCallListReq.ctidTraderAccountId, 16)
  BY DEF ProtoOAMarginCallListReq, Optional, Required, Field, IsScalar
<1>3. TagsDiffer(ProtoOAMarginCallListReq)
  BY <1>1, <1>2 DEF TagsDiffer, IsScalar
<1>4. Flat(ProtoOAMarginCallListReq)
  BY <1>1, <1>2, <1>3 DEF Flat, IsScalar
<1>5. /\ ~ProtoOAMarginCallListReq.payloadType.required
      /\ ProtoOAMarginCallListReq.ctidTraderAccountId.default = 0
  BY DEF ProtoOAMarginCallListReq, Optional, Required, Field
<1>. QED BY <1>1, <1>2, <1>4, <1>5 DEF Requires, Dropped, IsScalar

LEMMA ProtoOADealListReqRequires ==
    /\ DOMAIN ProtoOADealListReq = {"payloadType", "ctidTraderAccountId",
            "fromTimestamp", "toTimestamp", "maxRows"}
    /\ Requires(ProtoOADealListReq, {"ctidTraderAccountId"})
<1>1. DOMAIN ProtoOADealListReq = {"payloadType", "ctidTraderAccountId",
          "fromTimestamp", "toTimestamp", "maxRows"}
  BY DEF ProtoOADealListReq
<1>2. /\ IsScalar(ProtoOADealListReq.payloadType, 8)
      /\ IsScalar(ProtoOADealListReq.ctidTraderAccountId, 16)
      /\ IsScalar(ProtoOADealListReq.fromTimestamp, 24)
      /\ IsScalar(ProtoOADealListReq.toTimestamp, 32)
      /\ IsScalar(ProtoOADealListReq.maxRows, 40)
  BY DEF ProtoOADealListReq, Optional, Required, Field, IsScalar
<1>3. TagsDiffer(ProtoOADealListReq)
  BY <1>1, <1>2 DEF TagsDiffer, IsScalar
<1>4. Flat(ProtoOADealListReq)
  BY <1>1, <1>2, <1>3 DEF Flat, IsScalar
<1>5. /\ ~ProtoOADealListReq.payloadType.required
      /\ ProtoOADealListReq.ctidTraderAccountId.default = 0
      /\ ~ProtoOADealListReq.fromTimestamp.required
      /\ ~ProtoOADealListReq.toTimestamp.required /\ ~ProtoOADealListReq.maxRows.required
  BY DEF ProtoOADealListReq, Optional, Required, Field
<1>. QED BY <1>1, <1>2, <1>4, <1>5 DEF Requires, Dropped, IsScalar

LEMMA ProtoOADealListByPositionIdReqRequires ==
    /\ DOMAIN ProtoOADealListByPositionIdReq = {"payloadType", "ctidTraderAccountId",
            "positionId", "fromTimestamp", "toTimestamp"}
    /\ Requires(ProtoOADealListByPositionIdReq, {"ctidTraderAccountId", "positionId"})
<1>1. DOMAIN ProtoOADealListByPositionIdReq = {"payloadType", "ctidTraderAccountId",
          "positionId", "fromTimestamp", "toTimestamp"}
  BY DEF ProtoOADealListByPositionIdReq
<1>2. /\ IsScalar(ProtoOADealListByPositionIdReq.payloadType, 8)
      /\ IsScalar(ProtoOADealListByPositionIdReq.ctidTraderAccountId, 16)
      /\ IsScalar(ProtoOADealListByPositionIdReq.positionId, 24)
      /\ IsScalar(ProtoOADealListByPositionIdReq.fromTimestamp, 32)
      /\ IsScalar(ProtoOADealListByPositionIdReq.toTimestamp, 40)
  BY DEF ProtoOADealListByPositionIdReq, Optional, Required, Field, IsScalar
<1>3. TagsDiffer(ProtoOADealListByPositionIdReq)
  BY <1>1, <1>2 DEF TagsDiffer, IsScalar
<1>4. Flat(ProtoOADealListByPositionIdReq)
  BY <1>1, <1>2, <1>3 DEF Flat, IsScalar
<1>5. /\ ~ProtoOADealListByPositionIdReq.payloadType.required
      /\ ProtoOADealListByPositionIdReq.ctidTraderAccountId.default = 0
      /\ ProtoOADealListByPositionIdReq.positionId.default = 0
      /\ ~ProtoOADealListByPositionIdReq.fromTimestamp.required
      /\ ~ProtoOADealListByPositionIdReq.toTimestamp.required
  BY DEF ProtoOADealListByPositionIdReq, Optional, Required, Field
<1>. QED BY <1>1, <1>2, <1>4, <1>5 DEF Requires, Dropped, IsScalar

LEMMA ProtoOAOrderListReqRequires ==
    /\ DOMAIN ProtoOAOrderListReq = {"payloadType", "ctidTraderAccountId",
            "fromTimestamp", "toTimestamp"}
    /\ Requires(ProtoOAOrderListReq, {"ctidTraderAccountId"})
<1>1. DOMAIN ProtoOAOrderListReq = {"payloadType", "ctidTraderAccountId",
          "fromTimestamp", "toTimestamp"}
  BY DEF ProtoOAOrderListReq
<1>2. /\ IsScalar(ProtoOAOrderListReq.payloadType, 8)
      /\ IsScalar(ProtoOAOrderListReq.ctidTraderAccountId, 16)
      /\ IsScalar(ProtoOAOrderListReq.fromTimestamp, 24)
      /\ IsScalar(ProtoOAOrderListReq.toTimestamp, 32)
  BY DEF ProtoOAOrderListReq, Optional, Required, Field, IsScalar
<1>3. TagsDiffer(ProtoOAOrderListReq)
  BY <1>1, <1>2 DEF TagsDiffer, IsScalar
<1>4. Flat(ProtoOAOrderListReq)
  BY <1>1, <1>2, <1>3 DEF Flat, IsScalar
<1>5. /\ ~ProtoOAOrderListReq.payloadType.required
      /\ ProtoOAOrderListReq.ctidTraderAccountId.default = 0
      /\ ~ProtoOAOrderListReq.fromTimestamp.required
      /\ ~ProtoOAOrderListReq.toTimestamp.required
  BY DEF ProtoOAOrderListReq, Optional, Required, Field
<1>. QED BY <1>1, <1>2, <1>4, <1>5 DEF Requires, Dropped, IsScalar

LEMMA ProtoOACashFlowHistoryListReqRequires ==
    /\ DOMAIN ProtoOACashFlowHistoryListReq = {"payloadType", "ctidTraderAccountId",
            "fromTimestamp", "toTimestamp"}
    /\ Requires(ProtoOACashFlowHistoryListReq, {"ctidTraderAccountId", "fromTimestamp",
            "toTimestamp"})
<1>1. DOMAIN ProtoOACashFlowHistoryListReq = {"payloadType", "ctidTraderAccountId",
          "fromTimestamp", "toTimestamp"}
  BY DEF ProtoOACashFlowHistoryListReq
<1>2. /\ IsScalar(ProtoOACashFlowHistoryListReq.payloadType, 8)
      /\ IsScalar(ProtoOACashFlowHistoryListReq.ctidTraderAccountId, 16)
      /\ IsScalar(ProtoOACashFlowHistoryListReq.fromTimestamp, 24)
      /\ IsScalar(ProtoOACashFlowHistoryListReq.toTimestamp, 32)
  BY DEF ProtoOACashFlowHistoryListReq, Optional, Required, Field, IsScalar
<1>3. TagsDiffer(ProtoOACashFlowHistoryListReq)
  BY <1>1, <1>2 DEF TagsDiffer, IsScalar
<1>4. Flat(ProtoOACashFlowHistoryListReq)
  BY <1>1, <1>2, <1>3 DEF Flat, IsScalar
<1>5. /\ ~ProtoOACashFlowHistoryListReq.payloadType.required
      /\ ProtoOACashFlowHistoryListReq.ctidTraderAccountId.default = 0
      /\ ProtoOACashFlowHistoryListReq.fromTimestamp.default = 0
      /\ ProtoOACashFlowHistoryListReq.toTimestamp.default = 0
  BY DEF ProtoOACashFlowHistoryListReq, Optional, Required, Field
<1>. QED BY <1>1, <1>2, <1>4, <1>5 DEF Requires, Dropped, IsScalar

LEMMA ProtoOAGetTrendbarsReqRequires ==
    /\ DOMAIN ProtoOAGetTrendbarsReq = {"payloadType", "ctidTraderAccountId",
            "fromTimestamp", "toTimestamp", "period", "symbolId", "count"}
    /\ Requires(ProtoOAGetTrendbarsReq, {"ctidTraderAccountId", "period", "symbolId"})
<1>1. DOMAIN ProtoOAGetTrendbarsReq = {"payloadType", "ctidTraderAccountId",
          "fromTimestamp", "toTimestamp", "period", "symbolId", "count"}
  BY DEF ProtoOAGetTrendbarsReq
<1>2. /\ IsScalar(ProtoOAGetTrendbarsReq.payloadType, 8)
      /\ IsScalar(ProtoOAGetTrendbarsReq.ctidTraderAccountId, 16)
      /\ IsScalar(ProtoOAGetTrendbarsReq.fromTimestamp, 24)
      /\ IsScalar(ProtoOAGetTrendbarsReq.toTimestamp, 32)
      /\ IsScalar(ProtoOAGetTrendbarsReq.period, 40)
      /\ IsScalar(ProtoOAGetTrendbarsReq.symbolId, 48)
      /\ IsScalar(ProtoOAGetTrendbarsReq.count, 56)
  BY DEF ProtoOAGetTrendbarsReq, Optional, Required, Field, IsScalar
<1>3. TagsDiffer(ProtoOAGetTrendbarsReq)
  BY <1>1, <1>2 DEF TagsDiffer, IsScalar
<1>4. Flat(ProtoOAGetTrendbarsReq)
  BY <1>1, <1>2, <1>3 DEF Flat, IsScalar
<1>5. /\ ~ProtoOAGetTrendbarsReq.payloadType.required
      /\ ProtoOAGetTrendbarsReq.ctidTraderAccountId.default = 0
      /\ ~ProtoOAGetTrendbarsReq.fromTimestamp.required
      /\ ~ProtoOAGetTrendbarsReq.toTimestamp.required
      /\ ProtoOAGetTrendbarsReq.period.default = 1
      /\ ProtoOAGetTrendbarsReq.symbolId.default = 0
      /\ ~ProtoOAGetTrendbarsReq.count.required
  BY DEF ProtoOAGetTrendbarsReq, Optional, Required, Field
<1>. QED BY <1>1, <1>2, <1>4, <1>5 DEF Requires, Dropped, IsScalar

LEMMA ProtoOAGetTickDataReqRequires ==
    /\ DOMAIN ProtoOAGetTickDataReq = {"payloadType", "ctidTraderAccountId", "symbolId",
            "type", "fromTimestamp", "toTimestamp"}
    /\ Requires(ProtoOAGetTickDataReq, {"ctidTraderAccountId", "symbolId", "type"})
<1>1. DOMAIN ProtoOAGetTickDataReq = {"payloadType", "ctidTraderAccountId", "symbolId",
          "type", "fromTimestamp", "toTimestamp"}
  BY DEF ProtoOAGetTickDataReq
<1>2. /\ IsScalar(ProtoOAGetTickDataReq.payloadType, 8)
      /\ IsScalar(ProtoOAGetTickDataReq.ctidTraderAccountId, 16)
      /\ IsScalar(ProtoOAGetTickDataReq.symbolId, 24)
      /\ IsScalar(ProtoOAGetTickDataReq.type, 32)
      /\ IsScalar(ProtoOAGetTickDataReq.fromTimestamp, 40)
      /\ IsScalar(ProtoOAGetTickDataReq.toTimestamp, 48)
  BY DEF ProtoOAGetTickDataReq, Optional, Required, Field, IsScalar
<1>3. TagsDiffer(ProtoOAGetTickDataReq)
  BY <1>1, <1>2 DEF TagsDiffer, IsScalar
<1>4. Flat(ProtoOAGetTickDataReq)
  BY <1>1, <1>2, <1>3 DEF Flat, IsScalar
<1>5. /\ ~ProtoOAGetTickDataReq.payloadType.required
      /\ ProtoOAGetTickDataReq.ctidTraderAccountId.default = 0
      /\ ProtoOAGetTickDataReq.symbolId.default = 0
      /\ ProtoOAGetTickDataReq.type.default = 1
      /\ ~ProtoOAGetTickDataReq.fromTimestamp.required
      /\ ~ProtoOAGetTickDataReq.toTimestamp.required
  BY DEF ProtoOAGetTickDataReq, Optional, Required, Field
<1>. QED BY <1>1, <1>2, <1>4, <1>5 DEF Requires, Dropped, IsScalar

LEMMA ProtoOASubscribeSpotsReqRequires ==
    /\ DOMAIN ProtoOASubscribeSpotsReq = {"payloadType", "ctidTraderAccountId",
            "symbolId", "subscribeToSpotTimestamp"}
    /\ Requires(ProtoOASubscribeSpotsReq, {"ctidTraderAccountId"})
<1>1. DOMAIN ProtoOASubscribeSpotsReq = {"payloadType", "ctidTraderAccountId",
          "symbolId", "subscribeToSpotTimestamp"}
  BY DEF ProtoOASubscribeSpotsReq
<1>2. /\ IsScalar(ProtoOASubscribeSpotsReq.payloadType, 8)
      /\ IsScalar(ProtoOASubscribeSpotsReq.ctidTraderAccountId, 16)
      /\ AreScalars(ProtoOASubscribeSpotsReq.symbolId, 24)
      /\ IsScalar(ProtoOASubscribeSpotsReq.subscribeToSpotTimestamp, 32)
  BY DEF ProtoOASubscribeSpotsReq, Optional, Repeated, Required, Field, AreScalars,
         IsScalar
<1>3. TagsDiffer(ProtoOASubscribeSpotsReq)
  BY <1>1, <1>2 DEF TagsDiffer, AreScalars, IsScalar
<1>4. Flat(ProtoOASubscribeSpotsReq)
  BY <1>1, <1>2, <1>3 DEF Flat, AreScalars, IsScalar
<1>5. /\ ~ProtoOASubscribeSpotsReq.payloadType.required
      /\ ProtoOASubscribeSpotsReq.ctidTraderAccountId.default = 0
      /\ ~ProtoOASubscribeSpotsReq.symbolId.required
      /\ ~ProtoOASubscribeSpotsReq.subscribeToSpotTimestamp.required
  BY DEF ProtoOASubscribeSpotsReq, Optional, Repeated, Required, Field
<1>. QED BY <1>1, <1>2, <1>4, <1>5 DEF Requires, Dropped, AreScalars, IsScalar

LEMMA ProtoOAUnsubscribeSpotsReqRequires ==
    /\ DOMAIN ProtoOAUnsubscribeSpotsReq = {"payloadType", "ctidTraderAccountId",
            "symbolId"}
    /\ Requires(ProtoOAUnsubscribeSpotsReq, {"ctidTraderAccountId"})
<1>1. DOMAIN ProtoOAUnsubscribeSpotsReq = {"payloadType", "ctidTraderAccountId",
          "symbolId"}
  BY DEF ProtoOAUnsubscribeSpotsReq
<1>2. /\ IsScalar(ProtoOAUnsubscribeSpotsReq.payloadType, 8)
      /\ IsScalar(ProtoOAUnsubscribeSpotsReq.ctidTraderAccountId, 16)
      /\ AreScalars(ProtoOAUnsubscribeSpotsReq.symbolId, 24)
  BY DEF ProtoOAUnsubscribeSpotsReq, Optional, Repeated, Required, Field, AreScalars,
         IsScalar
<1>3. TagsDiffer(ProtoOAUnsubscribeSpotsReq)
  BY <1>1, <1>2 DEF TagsDiffer, AreScalars, IsScalar
<1>4. Flat(ProtoOAUnsubscribeSpotsReq)
  BY <1>1, <1>2, <1>3 DEF Flat, AreScalars, IsScalar
<1>5. /\ ~ProtoOAUnsubscribeSpotsReq.payloadType.required
      /\ ProtoOAUnsubscribeSpotsReq.ctidTraderAccountId.default = 0
      /\ ~ProtoOAUnsubscribeSpotsReq.symbolId.required
  BY DEF ProtoOAUnsubscribeSpotsReq, Optional, Repeated, Required, Field
<1>. QED BY <1>1, <1>2, <1>4, <1>5 DEF Requires, Dropped, AreScalars, IsScalar

LEMMA ProtoOASubscribeDepthQuotesReqRequires ==
    /\ DOMAIN ProtoOASubscribeDepthQuotesReq = {"payloadType", "ctidTraderAccountId",
            "symbolId"}
    /\ Requires(ProtoOASubscribeDepthQuotesReq, {"ctidTraderAccountId"})
<1>1. DOMAIN ProtoOASubscribeDepthQuotesReq = {"payloadType", "ctidTraderAccountId",
          "symbolId"}
  BY DEF ProtoOASubscribeDepthQuotesReq
<1>2. /\ IsScalar(ProtoOASubscribeDepthQuotesReq.payloadType, 8)
      /\ IsScalar(ProtoOASubscribeDepthQuotesReq.ctidTraderAccountId, 16)
      /\ AreScalars(ProtoOASubscribeDepthQuotesReq.symbolId, 24)
  BY DEF ProtoOASubscribeDepthQuotesReq, Optional, Repeated, Required, Field,
         AreScalars, IsScalar
<1>3. TagsDiffer(ProtoOASubscribeDepthQuotesReq)
  BY <1>1, <1>2 DEF TagsDiffer, AreScalars, IsScalar
<1>4. Flat(ProtoOASubscribeDepthQuotesReq)
  BY <1>1, <1>2, <1>3 DEF Flat, AreScalars, IsScalar
<1>5. /\ ~ProtoOASubscribeDepthQuotesReq.payloadType.required
      /\ ProtoOASubscribeDepthQuotesReq.ctidTraderAccountId.default = 0
      /\ ~ProtoOASubscribeDepthQuotesReq.symbolId.required
  BY DEF ProtoOASubscribeDepthQuotesReq, Optional, Repeated, Required, Field
<1>. QED BY <1>1, <1>2, <1>4, <1>5 DEF Requires, Dropped, AreScalars, IsScalar

LEMMA ProtoOAUnsubscribeDepthQuotesReqRequires ==
    /\ DOMAIN ProtoOAUnsubscribeDepthQuotesReq = {"payloadType", "ctidTraderAccountId",
            "symbolId"}
    /\ Requires(ProtoOAUnsubscribeDepthQuotesReq, {"ctidTraderAccountId"})
<1>1. DOMAIN ProtoOAUnsubscribeDepthQuotesReq = {"payloadType", "ctidTraderAccountId",
          "symbolId"}
  BY DEF ProtoOAUnsubscribeDepthQuotesReq
<1>2. /\ IsScalar(ProtoOAUnsubscribeDepthQuotesReq.payloadType, 8)
      /\ IsScalar(ProtoOAUnsubscribeDepthQuotesReq.ctidTraderAccountId, 16)
      /\ AreScalars(ProtoOAUnsubscribeDepthQuotesReq.symbolId, 24)
  BY DEF ProtoOAUnsubscribeDepthQuotesReq, Optional, Repeated, Required, Field,
         AreScalars, IsScalar
<1>3. TagsDiffer(ProtoOAUnsubscribeDepthQuotesReq)
  BY <1>1, <1>2 DEF TagsDiffer, AreScalars, IsScalar
<1>4. Flat(ProtoOAUnsubscribeDepthQuotesReq)
  BY <1>1, <1>2, <1>3 DEF Flat, AreScalars, IsScalar
<1>5. /\ ~ProtoOAUnsubscribeDepthQuotesReq.payloadType.required
      /\ ProtoOAUnsubscribeDepthQuotesReq.ctidTraderAccountId.default = 0
      /\ ~ProtoOAUnsubscribeDepthQuotesReq.symbolId.required
  BY DEF ProtoOAUnsubscribeDepthQuotesReq, Optional, Repeated, Required, Field
<1>. QED BY <1>1, <1>2, <1>4, <1>5 DEF Requires, Dropped, AreScalars, IsScalar

LEMMA ProtoOASubscribeLiveTrendbarReqRequires ==
    /\ DOMAIN ProtoOASubscribeLiveTrendbarReq = {"payloadType", "ctidTraderAccountId",
            "period", "symbolId"}
    /\ Requires(ProtoOASubscribeLiveTrendbarReq, {"ctidTraderAccountId", "period",
            "symbolId"})
<1>1. DOMAIN ProtoOASubscribeLiveTrendbarReq = {"payloadType", "ctidTraderAccountId",
          "period", "symbolId"}
  BY DEF ProtoOASubscribeLiveTrendbarReq
<1>2. /\ IsScalar(ProtoOASubscribeLiveTrendbarReq.payloadType, 8)
      /\ IsScalar(ProtoOASubscribeLiveTrendbarReq.ctidTraderAccountId, 16)
      /\ IsScalar(ProtoOASubscribeLiveTrendbarReq.period, 24)
      /\ IsScalar(ProtoOASubscribeLiveTrendbarReq.symbolId, 32)
  BY DEF ProtoOASubscribeLiveTrendbarReq, Optional, Required, Field, IsScalar
<1>3. TagsDiffer(ProtoOASubscribeLiveTrendbarReq)
  BY <1>1, <1>2 DEF TagsDiffer, IsScalar
<1>4. Flat(ProtoOASubscribeLiveTrendbarReq)
  BY <1>1, <1>2, <1>3 DEF Flat, IsScalar
<1>5. /\ ~ProtoOASubscribeLiveTrendbarReq.payloadType.required
      /\ ProtoOASubscribeLiveTrendbarReq.ctidTraderAccountId.default = 0
      /\ ProtoOASubscribeLiveTrendbarReq.period.default = 1
      /\ ProtoOASubscribeLiveTrendbarReq.symbolId.default = 0
  BY DEF ProtoOASubscribeLiveTrendbarReq, Optional, Required, Field
<1>. QED BY <1>1, <1>2, <1>4, <1>5 DEF Requires, Dropped, IsScalar

LEMMA ProtoOAUnsubscribeLiveTrendbarReqRequires ==
    /\ DOMAIN ProtoOAUnsubscribeLiveTrendbarReq = {"payloadType", "ctidTraderAccountId",
            "period", "symbolId"}
    /\ Requires(ProtoOAUnsubscribeLiveTrendbarReq, {"ctidTraderAccountId", "period",
            "symbolId"})
<1>1. DOMAIN ProtoOAUnsubscribeLiveTrendbarReq = {"payloadType", "ctidTraderAccountId",
          "period", "symbolId"}
  BY DEF ProtoOAUnsubscribeLiveTrendbarReq
<1>2. /\ IsScalar(ProtoOAUnsubscribeLiveTrendbarReq.payloadType, 8)
      /\ IsScalar(ProtoOAUnsubscribeLiveTrendbarReq.ctidTraderAccountId, 16)
      /\ IsScalar(ProtoOAUnsubscribeLiveTrendbarReq.period, 24)
      /\ IsScalar(ProtoOAUnsubscribeLiveTrendbarReq.symbolId, 32)
  BY DEF ProtoOAUnsubscribeLiveTrendbarReq, Optional, Required, Field, IsScalar
<1>3. TagsDiffer(ProtoOAUnsubscribeLiveTrendbarReq)
  BY <1>1, <1>2 DEF TagsDiffer, IsScalar
<1>4. Flat(ProtoOAUnsubscribeLiveTrendbarReq)
  BY <1>1, <1>2, <1>3 DEF Flat, IsScalar
<1>5. /\ ~ProtoOAUnsubscribeLiveTrendbarReq.payloadType.required
      /\ ProtoOAUnsubscribeLiveTrendbarReq.ctidTraderAccountId.default = 0
      /\ ProtoOAUnsubscribeLiveTrendbarReq.period.default = 1
      /\ ProtoOAUnsubscribeLiveTrendbarReq.symbolId.default = 0
  BY DEF ProtoOAUnsubscribeLiveTrendbarReq, Optional, Required, Field
<1>. QED BY <1>1, <1>2, <1>4, <1>5 DEF Requires, Dropped, IsScalar

LEMMA ProtoOASymbolsListReqRequires ==
    /\ DOMAIN ProtoOASymbolsListReq = {"payloadType", "ctidTraderAccountId",
            "includeArchivedSymbols"}
    /\ Requires(ProtoOASymbolsListReq, {"ctidTraderAccountId"})
<1>1. DOMAIN ProtoOASymbolsListReq = {"payloadType", "ctidTraderAccountId",
          "includeArchivedSymbols"}
  BY DEF ProtoOASymbolsListReq
<1>2. /\ IsScalar(ProtoOASymbolsListReq.payloadType, 8)
      /\ IsScalar(ProtoOASymbolsListReq.ctidTraderAccountId, 16)
      /\ IsScalar(ProtoOASymbolsListReq.includeArchivedSymbols, 24)
  BY DEF ProtoOASymbolsListReq, Optional, Required, Field, IsScalar
<1>3. TagsDiffer(ProtoOASymbolsListReq)
  BY <1>1, <1>2 DEF TagsDiffer, IsScalar
<1>4. Flat(ProtoOASymbolsListReq)
  BY <1>1, <1>2, <1>3 DEF Flat, IsScalar
<1>5. /\ ~ProtoOASymbolsListReq.payloadType.required
      /\ ProtoOASymbolsListReq.ctidTraderAccountId.default = 0
      /\ ~ProtoOASymbolsListReq.includeArchivedSymbols.required
  BY DEF ProtoOASymbolsListReq, Optional, Required, Field
<1>. QED BY <1>1, <1>2, <1>4, <1>5 DEF Requires, Dropped, IsScalar

LEMMA ProtoOASymbolByIdReqRequires ==
    /\ DOMAIN ProtoOASymbolByIdReq = {"payloadType", "ctidTraderAccountId", "symbolId"}
    /\ Requires(ProtoOASymbolByIdReq, {"ctidTraderAccountId"})
<1>1. DOMAIN ProtoOASymbolByIdReq = {"payloadType", "ctidTraderAccountId", "symbolId"}
  BY DEF ProtoOASymbolByIdReq
<1>2. /\ IsScalar(ProtoOASymbolByIdReq.payloadType, 8)
      /\ IsScalar(ProtoOASymbolByIdReq.ctidTraderAccountId, 16)
      /\ AreScalars(ProtoOASymbolByIdReq.symbolId, 24)
  BY DEF ProtoOASymbolByIdReq, Optional, Repeated, Required, Field, AreScalars, IsScalar
<1>3. TagsDiffer(ProtoOASymbolByIdReq)
  BY <1>1, <1>2 DEF TagsDiffer, AreScalars, IsScalar
<1>4. Flat(ProtoOASymbolByIdReq)
  BY <1>1, <1>2, <1>3 DEF Flat, AreScalars, IsScalar
<1>5. /\ ~ProtoOASymbolByIdReq.payloadType.required
      /\ ProtoOASymbolByIdReq.ctidTraderAccountId.default = 0
      /\ ~ProtoOASymbolByIdReq.symbolId.required
  BY DEF ProtoOASymbolByIdReq, Optional, Repeated, Required, Field
<1>. QED BY <1>1, <1>2, <1>4, <1>5 DEF Requires, Dropped, AreScalars, IsScalar

LEMMA ProtoOAApplicationAuthReqRequires ==
    /\ DOMAIN ProtoOAApplicationAuthReq = {"payloadType", "clientId", "clientSecret"}
    /\ Requires(ProtoOAApplicationAuthReq, {"clientId", "clientSecret"})
<1>1. DOMAIN ProtoOAApplicationAuthReq = {"payloadType", "clientId", "clientSecret"}
  BY DEF ProtoOAApplicationAuthReq
<1>2. /\ IsScalar(ProtoOAApplicationAuthReq.payloadType, 8)
      /\ IsScalar(ProtoOAApplicationAuthReq.clientId, 18)
      /\ IsScalar(ProtoOAApplicationAuthReq.clientSecret, 26)
  BY DEF ProtoOAApplicationAuthReq, Optional, Required, Field, IsScalar
<1>3. TagsDiffer(ProtoOAApplicationAuthReq)
  BY <1>1, <1>2 DEF TagsDiffer, IsScalar
<1>4. Flat(ProtoOAApplicationAuthReq)
  BY <1>1, <1>2, <1>3 DEF Flat, IsScalar
<1>5. /\ ~ProtoOAApplicationAuthReq.payloadType.required
      /\ ProtoOAApplicationAuthReq.clientId.default = ""
      /\ ProtoOAApplicationAuthReq.clientSecret.default = ""
  BY DEF ProtoOAApplicationAuthReq, Optional, Required, Field
<1>. QED BY <1>1, <1>2, <1>4, <1>5 DEF Requires, Dropped, IsScalar

LEMMA ProtoOAAccountAuthReqRequires ==
    /\ DOMAIN ProtoOAAccountAuthReq = {"payloadType", "ctidTraderAccountId",
            "accessToken"}
    /\ Requires(ProtoOAAccountAuthReq, {"ctidTraderAccountId", "accessToken"})
<1>1. DOMAIN ProtoOAAccountAuthReq = {"payloadType", "ctidTraderAccountId",
          "accessToken"}
  BY DEF ProtoOAAccountAuthReq
<1>2. /\ IsScalar(ProtoOAAccountAuthReq.payloadType, 8)
      /\ IsScalar(ProtoOAAccountAuthReq.ctidTraderAccountId, 16)
      /\ IsScalar(ProtoOAAccountAuthReq.accessToken, 26)
  BY DEF ProtoOAAccountAuthReq, Optional, Required, Field, IsScalar
<1>3. TagsDiffer(ProtoOAAccountAuthReq)
  BY <1>1, <1>2 DEF TagsDiffer, IsScalar
<1>4. Flat(ProtoOAAccountAuthReq)
  BY <1>1, <1>2, <1>3 DEF Flat, IsScalar
<1>5. /\ ~ProtoOAAccountAuthReq.payloadType.required
      /\ ProtoOAAccountAuthReq.ctidTraderAccountId.default = 0
      /\ ProtoOAAccountAuthReq.accessToken.default = ""
  BY DEF ProtoOAAccountAuthReq, Optional, Required, Field
<1>. QED BY <1>1, <1>2, <1>4, <1>5 DEF Requires, Dropped, IsScalar

LEMMA ProtoOAGetAccountListByAccessTokenReqRequires ==
    /\ DOMAIN ProtoOAGetAccountListByAccessTokenReq = {"payloadType", "accessToken"}
    /\ Requires(ProtoOAGetAccountListByAccessTokenReq, {"accessToken"})
<1>1. DOMAIN ProtoOAGetAccountListByAccessTokenReq = {"payloadType", "accessToken"}
  BY DEF ProtoOAGetAccountListByAccessTokenReq
<1>2. /\ IsScalar(ProtoOAGetAccountListByAccessTokenReq.payloadType, 8)
      /\ IsScalar(ProtoOAGetAccountListByAccessTokenReq.accessToken, 18)
  BY DEF ProtoOAGetAccountListByAccessTokenReq, Optional, Required, Field, IsScalar
<1>3. TagsDiffer(ProtoOAGetAccountListByAccessTokenReq)
  BY <1>1, <1>2 DEF TagsDiffer, IsScalar
<1>4. Flat(ProtoOAGetAccountListByAccessTokenReq)
  BY <1>1, <1>2, <1>3 DEF Flat, IsScalar
<1>5. /\ ~ProtoOAGetAccountListByAccessTokenReq.payloadType.required
      /\ ProtoOAGetAccountListByAccessTokenReq.accessToken.default = ""
  BY DEF ProtoOAGetAccountListByAccessTokenReq, Optional, Required, Field
<1>. QED BY <1>1, <1>2, <1>4, <1>5 DEF Requires, Dropped, IsScalar


-----------------------------------------------------------------------------
(* What the requests are given.                                               *)

LEMMA AccountIs ==
    ASSUME NEW account, account = "ctidTraderAccountId"
    PROVE  DOMAIN ForAccount = {account} /\ ForAccount[account] = ctidTraderAccountId
BY DEF ForAccount

LEMMA InCentsIs ==
    ASSUME NEW params, NEW volume, volume = "volume",
           volume \in DOMAIN params => params[volume] \in Nat \ {0}
    PROVE  /\ DOMAIN InCents(params) = {volume} \cap DOMAIN params
           /\ volume \in DOMAIN params =>
                /\ InCents(params)[volume] = 100 * params[volume]
                /\ InCents(params)[volume] # 0
<1>1. CASE volume \in DOMAIN params
  <2>1. InCents(params) = [volume |-> params["volume"] * 100]
    BY <1>1 DEF InCents, SPOTWARE_VOLUME_SCALE
  <2>2. params[volume] * 100 = 100 * params[volume] /\ params[volume] * 100 # 0
    BY <1>1
  <2>. QED BY <1>1, <2>1, <2>2
<1>2. CASE volume \notin DOMAIN params
  BY <1>2 DEF InCents
<1>. QED BY <1>1, <1>2

\* The fields that are not sent under the name and with the value of a parameter.
Special == {"ctidTraderAccountId", "orderType", "volume", "volumes"}

\* A call whose parameters, but for the volumes, are sent as they are.
SentAsTheyAre(call) == call.method # "fetchFullSymbol"

LEMMA AskedAsIs ==
    ASSUME NEW call, SentAsTheyAre(call), NEW f, f \notin Special
    PROVE  /\ Asked(call, f) = call.params[f]
           /\ \A schema : IsAsked(call, schema, f) <=> f \in DOMAIN call.params
<1>1. f # "ctidTraderAccountId" /\ f # "orderType" /\ f # "volume" /\ f # "volumes"
  BY DEF Special
<1>2. Asked(call, f) = call.params[f]
  BY <1>1 DEF Asked, SentAsTheyAre
<1>3. \A schema : IsAsked(call, schema, f) <=> f \in DOMAIN call.params
  BY <1>1 DEF IsAsked
<1>. QED BY <1>2, <1>3

LEMMA AccountAsked ==
    ASSUME NEW call, NEW account, account = "ctidTraderAccountId"
    PROVE  /\ Asked(call, account) = ctidTraderAccountId
           /\ \A schema : account \in DOMAIN schema => IsAsked(call, schema, account)
           /\ ctidTraderAccountId # Dropped(account)
<1>1. Asked(call, account) = ctidTraderAccountId
  BY DEF Asked
<1>2. ctidTraderAccountId # Dropped(account)
  BY InputsAssumption DEF Dropped
<1>3. \A schema : account \in DOMAIN schema => IsAsked(call, schema, account)
  BY DEF IsAsked
<1>. QED BY <1>1, <1>2, <1>3

\* given holds what the call asks, of the fields of schema, and nothing else of them.
Gives(call, schema, given) ==
    /\ \A f \in DOMAIN schema : IsAsked(call, schema, f) <=> f \in DOMAIN given
    /\ \A f \in DOMAIN given : f \in DOMAIN schema => given[f] = Asked(call, f)

\* The required fields, which must be given, are given or added with what is asked.
Suffices(call, schema, must, given, added) ==
    /\ Gives(call, schema, given) /\ Requires(schema, must)
    /\ must \subseteq DOMAIN given /\ must \subseteq DOMAIN schema
    /\ \A f \in must : f \in added \/ Asked(call, f) # Dropped(f)
    /\ \A f \in added : f \in DOMAIN schema => schema[f].kind = "scalar"
    /\ DOMAIN call.params \subseteq DOMAIN schema \cup {"volumes"}

LEMMA GivesIsSaid ==
    ASSUME NEW call, NEW type, NEW schema, schema = RequestSchema(type),
           NEW must, NEW given, NEW added, Suffices(call, schema, must, given, added),
           NEW payload, Carries(payload, schema, FromPartial(schema, given), added)
    PROVE  Says(call, type, payload)
<1>1. \A f \in must : f \in DOMAIN given /\ (f \in added \/ given[f] # Dropped(f))
  BY DEF Gives, Suffices
<1>2. Requires(schema, must)
  BY DEF Suffices
<1>3. \A f \in added : f \in DOMAIN schema => schema[f].kind = "scalar"
  BY DEF Suffices
<1>4. DOMAIN call.params \subseteq DOMAIN schema \cup {"volumes"}
  BY DEF Suffices
<1>5. \A f \in DOMAIN schema : IsAsked(call, schema, f) <=> f \in DOMAIN given
  BY DEF Gives, Suffices
<1>6. \A f \in DOMAIN given : f \in DOMAIN schema => given[f] = Asked(call, f)
  BY DEF Gives, Suffices
<1>. QED BY <1>1, <1>2, <1>3, <1>4, <1>5, <1>6, GivenIsSaid

\* What is added in front of the parameters gives the special fields that are asked for.
Heads(call, schema, head) ==
    /\ DOMAIN head \subseteq Special /\ DOMAIN head \subseteq DOMAIN schema
    /\ \A f \in DOMAIN schema : f \in Special =>
        (IsAsked(call, schema, f) <=> f \in DOMAIN head)
    /\ \A f \in DOMAIN head : head[f] = Asked(call, f)

\* given is head completed with the parameters among these names.
Completes(given, head, params, names) ==
    /\ DOMAIN given = DOMAIN head \cup (names \cap DOMAIN params)
    /\ \A f \in DOMAIN head : given[f] = head[f]
    /\ \A f \in (names \cap DOMAIN params) \ DOMAIN head : given[f] = params[f]

\* Every parameter goes under its own name, unless head gives it.
Covers(names, head, params) ==
    names \cap Special = {} /\ DOMAIN params \subseteq names \cup DOMAIN head

LEMMA GivenWith ==
    ASSUME NEW call, SentAsTheyAre(call), NEW schema, NEW head, Heads(call, schema, head),
           NEW names, Covers(names, head, call.params),
           NEW given, Completes(given, head, call.params, names)
    PROVE  /\ DOMAIN given = DOMAIN head \cup DOMAIN call.params
           /\ Gives(call, schema, given)
<1> DEFINE p == call.params
<1>1. /\ DOMAIN given = DOMAIN head \cup (names \cap DOMAIN p)
      /\ \A f \in DOMAIN head : given[f] = head[f]
      /\ \A f \in (names \cap DOMAIN p) \ DOMAIN head : given[f] = p[f]
  BY DEF Completes
<1>2. /\ \A f \in DOMAIN p : f \notin Special => f \in names
      /\ \A f \in names : f \notin Special
      /\ \A f \in DOMAIN head : f \in Special
  BY DEF Heads, Covers
<1>3. \A f : f \notin Special => (f \in DOMAIN given <=> f \in DOMAIN p)
  BY <1>1, <1>2
<1>4. ASSUME NEW f \in DOMAIN given  PROVE given[f] = Asked(call, f)
  <2>1. CASE f \in DOMAIN head
    BY <1>1, <2>1 DEF Heads
  <2>2. CASE f \notin DOMAIN head
    BY <1>1, <1>2, <2>2, AskedAsIs
  <2>. QED BY <2>1, <2>2
<1>5. ASSUME NEW f \in DOMAIN schema
      PROVE  IsAsked(call, schema, f) <=> f \in DOMAIN given
  <2>1. CASE f \in Special
    BY <1>1, <1>2, <2>1 DEF Heads
  <2>2. CASE f \notin Special
    BY <1>3, <2>2, AskedAsIs
  <2>. QED BY <2>1, <2>2
<1>6. DOMAIN given = DOMAIN head \cup DOMAIN p
  BY <1>1 DEF Covers
<1>. QED BY <1>4, <1>5, <1>6 DEF Gives

\* The parameters that are never at the default of a required field.
Certain == {"orderId", "positionId", "symbolId", "clientId", "clientSecret", "accessToken"}

LEMMA CertainIsNotDropped ==
    ASSUME NEW call, SentAsTheyAre(call), MayBeGiven(call.method, call.params),
           NEW f \in Certain, f \in DOMAIN call.params,
           f = "symbolId" => call.method \notin ForSymbols
    PROVE  Asked(call, f) # Dropped(f)
<1>1. f \notin Special
  BY DEF Certain, Special
<1>2. CASE f \in {"orderId", "positionId", "symbolId"}
  BY <1>1, <1>2, AskedAsIs DEF MayBeGiven, Dropped
<1>3. CASE f \in {"clientId", "clientSecret", "accessToken"}
  BY <1>1, <1>3, AskedAsIs DEF MayBeGiven, Dropped
<1>. QED BY <1>2, <1>3 DEF Certain

\* What makes a request say what is asked: its required fields are added, certain, or given
\* in front of the parameters and not at their default.
Suits(call, schema, must, head, names, added) ==
    /\ SentAsTheyAre(call) /\ MayBeGiven(call.method, call.params)
    /\ Requires(schema, must) /\ Heads(call, schema, head)
    /\ Covers(names, head, call.params) /\ names \subseteq DOMAIN schema
    /\ must \subseteq DOMAIN call.params \cup DOMAIN head
    /\ must \subseteq added \cup Certain \cup DOMAIN head
    /\ \A f \in DOMAIN head : f \in added \/ head[f] # Dropped(f)
    /\ "symbolId" \in must => call.method \notin ForSymbols
    /\ \A f \in added : f \in DOMAIN schema => schema[f].kind = "scalar"

LEMMA RequestSays ==
    ASSUME NEW call, NEW type, NEW schema, schema = RequestSchema(type),
           NEW must, NEW head, NEW names, NEW added,
           Suits(call, schema, must, head, names, added),
           NEW given, Completes(given, head, call.params, names),
           NEW payload, Carries(payload, schema, FromPartial(schema, given), added)
    PROVE  Says(call, type, payload)
<1>1. DOMAIN given = DOMAIN head \cup DOMAIN call.params /\ Gives(call, schema, given)
  BY GivenWith DEF Suits
<1>2. ASSUME NEW f \in must, f \notin added  PROVE Asked(call, f) # Dropped(f)
  <2>1. CASE f \in DOMAIN head
    BY <1>2, <2>1 DEF Heads, Suits
  <2>2. CASE f \in Certain /\ f \notin DOMAIN head
    BY <1>2, <2>2, CertainIsNotDropped DEF Suits
  <2>. QED BY <1>2, <2>1, <2>2 DEF Suits
<1>3. must \subseteq DOMAIN given /\ must \subseteq DOMAIN schema
  BY <1>1 DEF Heads, Covers, Suits
<1>4. \A f \in must : f \in added \/ Asked(call, f) # Dropped(f)
  BY <1>2
<1>5. DOMAIN call.params \subseteq DOMAIN schema \cup {"volumes"}
  BY DEF Heads, Covers, Suits
<1>6. Suffices(call, schema, must, given, added)
  BY <1>1, <1>3, <1>4, <1>5 DEF Suffices, Suits
<1>. QED BY <1>6, GivesIsSaid

-----------------------------------------------------------------------------
(* What goes in front of the parameters.                                      *)

LEMMA AccountHead ==
    ASSUME NEW call, call.method \notin Placements, DOMAIN call.params \cap Special = {},
           NEW schema, NEW account, account = "ctidTraderAccountId", account \in DOMAIN schema
    PROVE  /\ DOMAIN ForAccount = {account} /\ Heads(call, schema, ForAccount)
           /\ ForAccount[account] # Dropped(account)
<1>1. DOMAIN ForAccount = {account} /\ ForAccount[account] = ctidTraderAccountId
  BY AccountIs
<1>2. \A f \in DOMAIN ForAccount : ForAccount[f] = Asked(call, f)
  BY <1>1, AccountAsked
<1>3. ASSUME NEW f \in DOMAIN schema, f \in Special
      PROVE  IsAsked(call, schema, f) <=> f \in DOMAIN ForAccount
  <2>1. CASE f = account
    BY <1>1, <2>1, AccountAsked
  <2>2. CASE f \in {"orderType", "volume", "volumes"}
    BY <1>1, <1>3, <2>2 DEF IsAsked, Special
  <2>. QED BY <1>3, <2>1, <2>2 DEF Special
<1>4. account \in Special
  BY DEF Special
<1>. QED BY <1>1, <1>2, <1>3, <1>4, AccountAsked DEF Heads

LEMMA NoHead ==
    ASSUME NEW call, call.method \notin Placements, DOMAIN call.params \cap Special = {},
           NEW schema, "ctidTraderAccountId" \notin DOMAIN schema
    PROVE  /\ DOMAIN <<>> = {} /\ Heads(call, schema, <<>>)
           /\ \A names : Completes(Copied(call.params, names), <<>>, call.params, names)
<1>1. DOMAIN <<>> = {}
  OBVIOUS
<1>2. \A f \in DOMAIN schema : f \in Special => ~IsAsked(call, schema, f)
  BY DEF IsAsked, Special
<1>3. \A names : Completes(Copied(call.params, names), <<>>, call.params, names)
  BY <1>1 DEF Completes, Copied
<1>. QED BY <1>1, <1>2, <1>3 DEF Heads

-----------------------------------------------------------------------------
(* The requests of the methods.                                               *)

\* A request for the account, given its parameters as they are.
Plain(call, schema, must, names, added) ==
    /\ SentAsTheyAre(call) /\ MayBeGiven(call.method, call.params)
    /\ call.method \notin Placements
    /\ Requires(schema, must) /\ "ctidTraderAccountId" \in DOMAIN schema
    /\ names \subseteq DOMAIN schema /\ names \cap Special = {}
    /\ DOMAIN call.params \subseteq names
    /\ must \subseteq DOMAIN call.params \cup {"ctidTraderAccountId"}
    /\ must \subseteq added \cup Certain \cup {"ctidTraderAccountId"}
    /\ "symbolId" \in must => call.method \notin ForSymbols
    /\ \A f \in added : f \in DOMAIN schema => schema[f].kind = "scalar"

LEMMA PlainRequestSays ==
    ASSUME NEW call, NEW type, NEW schema, schema = RequestSchema(type),
           NEW must, NEW names, NEW added, Plain(call, schema, must, names, added),
           NEW given, given = ForAccount ++ Copied(call.params, names),
           NEW payload, Carries(payload, schema, FromPartial(schema, given), added)
    PROVE  Says(call, type, payload)
<1>1. PICK account : account = "ctidTraderAccountId"
  OBVIOUS
<1>2. DOMAIN call.params \cap Special = {}
  BY DEF Plain
<1>3. /\ DOMAIN ForAccount = {account} /\ Heads(call, schema, ForAccount)
      /\ ForAccount[account] # Dropped(account)
  BY <1>1, <1>2, AccountHead DEF Plain
<1>4. Completes(given, ForAccount, call.params, names)
  BY DEF Completes, ++, Copied
<1>5. Covers(names, ForAccount, call.params)
  BY DEF Covers, Plain
<1>6. Suits(call, schema, must, ForAccount, names, added)
  BY <1>1, <1>3, <1>5 DEF Suits, Plain
<1>. QED BY <1>4, <1>6, RequestSays

\* A request for the account alone.
Bare(call, schema) ==
    /\ SentAsTheyAre(call) /\ MayBeGiven(call.method, call.params)
    /\ call.method \notin Placements
    /\ "ctidTraderAccountId" \in DOMAIN schema /\ DOMAIN call.params = {}

LEMMA BareRequestSays ==
    ASSUME NEW call, NEW type, NEW schema, schema = RequestSchema(type), Bare(call, schema),
           NEW must, must = {"ctidTraderAccountId"}, Requires(schema, must),
           NEW payload, payload = Encode(schema, FromPartial(schema, ForAccount))
    PROVE  Says(call, type, payload)
<1>1. PICK account : account = "ctidTraderAccountId"
  OBVIOUS
<1>2. DOMAIN call.params \cap Special = {}
  BY DEF Bare
<1>3. /\ DOMAIN ForAccount = {account} /\ Heads(call, schema, ForAccount)
      /\ ForAccount[account] # Dropped(account)
  BY <1>1, <1>2, AccountHead DEF Bare
<1>4. PICK none : none = {}
  OBVIOUS
<1>5. Completes(ForAccount, ForAccount, call.params, none)
  BY <1>4 DEF Completes
<1>6. Suits(call, schema, must, ForAccount, none, none)
  BY <1>1, <1>3, <1>4 DEF Suits, Bare, Covers
<1>7. Carries(payload, schema, FromPartial(schema, ForAccount), none)
  BY <1>4, EncodeCarries DEF Requires
<1>. QED BY <1>5, <1>6, <1>7, RequestSays

\* A request that is not for the account.
LEMMA HeadlessRequestSays ==
    ASSUME NEW call, NEW type, NEW schema, schema = RequestSchema(type), SentAsTheyAre(call),
           MayBeGiven(call.method, call.params), call.method \notin Placements,
           "ctidTraderAccountId" \notin DOMAIN schema,
           NEW names, Requires(schema, names), names \subseteq DOMAIN schema,
           DOMAIN call.params = names, names \cap Special = {}, names \subseteq Certain,
           "symbolId" \notin names,
           NEW given, given = Copied(call.params, names),
           NEW payload, payload = Encode(schema, FromPartial(schema, given))
    PROVE  Says(call, type, payload)
<1>1. PICK head : head = <<>>
  OBVIOUS
<1>2. PICK none : none = {}
  OBVIOUS
<1>3. DOMAIN call.params \cap Special = {}
  OBVIOUS
<1>4. /\ DOMAIN head = {} /\ Heads(call, schema, head)
      /\ Completes(given, head, call.params, names)
  BY <1>1, <1>3, NoHead
<1>5. Suits(call, schema, names, head, names, none)
  BY <1>2, <1>4 DEF Suits, Covers
<1>6. Carries(payload, schema, FromPartial(schema, given), none)
  BY <1>2, EncodeCarries DEF Requires
<1>. QED BY <1>4, <1>5, <1>6, RequestSays

\* A request for the account with a volume, which is given in units.
InUnits(call, schema, must, names) ==
    /\ SentAsTheyAre(call) /\ MayBeGiven(call.method, call.params)
    /\ call.method \notin Placements
    /\ Requires(schema, must) /\ {"ctidTraderAccountId", "volume"} \subseteq DOMAIN schema
    /\ names \subseteq DOMAIN schema /\ names \cap Special = {}
    /\ DOMAIN call.params \subseteq names \cup {"volume"}
    /\ must \subseteq DOMAIN call.params \cup {"ctidTraderAccountId"}
    /\ must \subseteq Certain \cup {"ctidTraderAccountId", "volume"}
    /\ "symbolId" \notin must

LEMMA CentsHead ==
    ASSUME NEW call, NEW schema, NEW must, NEW names, InUnits(call, schema, must, names),
           NEW head, head = ForAccount ++ InCents(call.params)
    PROVE  /\ DOMAIN head = {"ctidTraderAccountId"} \cup (DOMAIN call.params \cap Special)
           /\ Heads(call, schema, head) /\ \A f \in DOMAIN head : head[f] # Dropped(f)
<1> PICK account, volume : account = "ctidTraderAccountId" /\ volume = "volume"
  OBVIOUS
<1>0. /\ DOMAIN call.params \cap Special \subseteq {volume}
      /\ volume \in DOMAIN call.params => call.params[volume] \in Nat \ {0}
      /\ call.method \notin Placements /\ account \in DOMAIN schema /\ volume \in DOMAIN schema
  BY DEF InUnits, MayBeGiven
<1> DEFINE p == call.params
           b == InCents(p)
<1>1. DOMAIN ForAccount = {account} /\ ForAccount[account] = ctidTraderAccountId
  BY AccountIs
<1>2. /\ DOMAIN b = {volume} \cap DOMAIN p
      /\ volume \in DOMAIN p => b[volume] = 100 * p[volume] /\ b[volume] # 0
  BY <1>0, InCentsIs
<1>3. /\ DOMAIN head = DOMAIN ForAccount \cup DOMAIN b
      /\ \A f \in DOMAIN ForAccount : head[f] = ForAccount[f]
      /\ \A f \in DOMAIN b \ DOMAIN ForAccount : head[f] = b[f]
  BY DEF ++
<1> HIDE DEF b
<1>4. account # volume /\ account \in Special /\ volume \in Special
  BY DEF Special
<1>5. DOMAIN head = {account} \cup (DOMAIN p \cap Special)
  BY <1>0, <1>1, <1>2, <1>3, <1>4
<1>6. head[account] = ctidTraderAccountId
  BY <1>1, <1>3
<1>7. volume \in DOMAIN p => head[volume] = 100 * p[volume] /\ head[volume] # 0
  BY <1>1, <1>2, <1>3, <1>4
<1>8. volume \in DOMAIN p => Asked(call, volume) = 100 * p[volume]
  <2>1. "volumes" \notin DOMAIN p
    BY <1>0 DEF Special
  <2>. QED BY <2>1 DEF Asked
<1>9. ASSUME NEW f \in DOMAIN schema, f \in Special
      PROVE  IsAsked(call, schema, f) <=> f \in DOMAIN head
  <2>1. CASE f = account
    BY <1>0, <1>5, <2>1, AccountAsked
  <2>2. CASE f = volume
    <3>1. "volumes" \notin DOMAIN p
      BY <1>0 DEF Special
    <3>. QED BY <1>4, <1>5, <2>2, <3>1 DEF IsAsked
  <2>3. CASE f \in {"orderType", "volumes"}
    <3>1. f \notin DOMAIN p /\ f # volume /\ f # account
      BY <1>0, <1>9, <2>3
    <3>2. f \notin DOMAIN head
      BY <1>0, <1>5, <3>1
    <3>. QED BY <1>0, <2>3, <3>1, <3>2 DEF IsAsked
  <2>. QED BY <1>9, <2>1, <2>2, <2>3 DEF Special
<1>10. \A f \in DOMAIN head : f = account \/ (f = volume /\ volume \in DOMAIN p)
  BY <1>0, <1>5
<1>11. \A f \in DOMAIN head : head[f] = Asked(call, f)
  BY <1>6, <1>7, <1>8, <1>10, AccountAsked
<1>12. Dropped(volume) = 0
  BY DEF Dropped
<1>13. \A f \in DOMAIN head : head[f] # Dropped(f)
  BY <1>6, <1>7, <1>10, <1>12, AccountAsked
<1>14. DOMAIN head \subseteq Special /\ DOMAIN head \subseteq DOMAIN schema
  BY <1>0, <1>4, <1>10
<1>. QED BY <1>5, <1>9, <1>11, <1>13, <1>14 DEF Heads

LEMMA InUnitsRequestSays ==
    ASSUME NEW call, NEW type, NEW schema, schema = RequestSchema(type),
           NEW must, NEW names, InUnits(call, schema, must, names),
           NEW given, given = ForAccount ++ InCents(call.params) ++ Copied(call.params, names),
           NEW payload, payload = Encode(schema, FromPartial(schema, given))
    PROVE  Says(call, type, payload)
<1>1. PICK account, volume : account = "ctidTraderAccountId" /\ volume = "volume"
  OBVIOUS
<1>2. PICK none : none = {}
  OBVIOUS
<1>3. PICK head : head = ForAccount ++ InCents(call.params)
  OBVIOUS
<1>5. /\ DOMAIN head = {account} \cup (DOMAIN call.params \cap Special)
      /\ Heads(call, schema, head) /\ \A f \in DOMAIN head : head[f] # Dropped(f)
  BY <1>1, <1>3, CentsHead
<1>6. Completes(given, head, call.params, names)
  BY <1>3 DEF Completes, ++, Copied
<1>7. Covers(names, head, call.params)
  BY <1>1, <1>5 DEF InUnits, Covers, Special
<1>8. must \subseteq Certain \cup DOMAIN head
  BY <1>1, <1>5 DEF InUnits, Special
<1>9. Suits(call, schema, must, head, names, none)
  BY <1>1, <1>2, <1>5, <1>7, <1>8 DEF Suits, InUnits
<1>10. Carries(payload, schema, FromPartial(schema, given), none)
  BY <1>2, EncodeCarries DEF InUnits, Requires
<1>. QED BY <1>6, <1>9, <1>10, RequestSays

-----------------------------------------------------------------------------
(* The requests of the methods.                                               *)

LEMMA amendPositionStopLossTakeProfitSays ==
    ASSUME NEW call, call.method = "amendPositionStopLossTakeProfit",
           MayBeGiven(call.method, call.params),
           NEW request, request = amendPositionStopLossTakeProfit(call.params)
    PROVE  Says(call, request.payloadType, request.payload)
<1>1. PICK names : names = {"positionId", "stopLoss", "takeProfit", "trailingStopLoss",
                            "guaranteedStopLoss", "stopLossTriggerMethod"}
  OBVIOUS
<1>2. PICK must : must = {"ctidTraderAccountId", "positionId"}
  OBVIOUS
<1>3. PICK given : given = ForAccount ++ Copied(call.params, names)
  OBVIOUS
<1>4. PICK schema : schema = ProtoOAAmendPositionSLTPReq
  OBVIOUS
<1>5. /\ request.payloadType = 2110 /\ schema = RequestSchema(2110)
      /\ request.payload = Encode(schema, FromPartial(schema, given))
  BY <1>1, <1>3, <1>4
  DEF amendPositionStopLossTakeProfit, Request, ProtoOAPayloadType, RequestSchema
<1>6. /\ {"positionId"} \subseteq DOMAIN call.params
      /\ DOMAIN call.params \subseteq names
  BY <1>1 DEF MayBeGiven, ParamsOf, Params, IAmendPositionStopLossTakeProfitParams
<1>7. Requires(schema, must) /\ names \subseteq DOMAIN schema /\ must \subseteq DOMAIN schema
  BY <1>1, <1>2, <1>4, ProtoOAAmendPositionSLTPReqRequires
<1>8. Plain(call, schema, must, names, {})
  BY <1>1, <1>2, <1>6, <1>7 DEF Plain, SentAsTheyAre, Placements, ForSymbols, Special, Certain
<1>9. Carries(request.payload, schema, FromPartial(schema, given), {})
  BY <1>5, <1>7, EncodeCarries DEF Requires
<1>. QED BY <1>3, <1>5, <1>8, <1>9, PlainRequestSays

LEMMA cancelOrderSays ==
    ASSUME NEW call, call.method = "cancelOrder",
           MayBeGiven(call.method, call.params),
           NEW request, request = cancelOrder(call.params)
    PROVE  Says(call, request.payloadType, request.payload)
<1>1. PICK names : names = {"orderId"}
  OBVIOUS
<1>2. PICK must : must = {"ctidTraderAccountId", "orderId"}
  OBVIOUS
<1>3. PICK given : given = ForAccount ++ Copied(call.params, names)
  OBVIOUS
<1>4. PICK schema : schema = ProtoOACancelOrderReq
  OBVIOUS
<1>5. /\ request.payloadType = 2108 /\ schema = RequestSchema(2108)
      /\ request.payload = Encode(schema, FromPartial(schema, given))
  BY <1>1, <1>3, <1>4 DEF cancelOrder, Request, ProtoOAPayloadType, RequestSchema
<1>6. /\ {"orderId"} \subseteq DOMAIN call.params
      /\ DOMAIN call.params \subseteq names
  BY <1>1 DEF MayBeGiven, ParamsOf, Params
<1>7. Requires(schema, must) /\ names \subseteq DOMAIN schema /\ must \subseteq DOMAIN schema
  BY <1>1, <1>2, <1>4, ProtoOACancelOrderReqRequires
<1>8. Plain(call, schema, must, names, {})
  BY <1>1, <1>2, <1>6, <1>7 DEF Plain, SentAsTheyAre, Placements, ForSymbols, Special, Certain
<1>9. Carries(request.payload, schema, FromPartial(schema, given), {})
  BY <1>5, <1>7, EncodeCarries DEF Requires
<1>. QED BY <1>3, <1>5, <1>8, <1>9, PlainRequestSays

LEMMA getDealsSays ==
    ASSUME NEW call, call.method = "getDeals",
           MayBeGiven(call.method, call.params),
           NEW request, request = getDeals(call.params)
    PROVE  Says(call, request.payloadType, request.payload)
<1>1. PICK names : names = {"fromTimestamp", "toTimestamp", "maxRows"}
  OBVIOUS
<1>2. PICK must : must = {"ctidTraderAccountId"}
  OBVIOUS
<1>3. PICK given : given = ForAccount ++ Copied(call.params, names)
  OBVIOUS
<1>4. PICK schema : schema = ProtoOADealListReq
  OBVIOUS
<1>5. /\ request.payloadType = 2133 /\ schema = RequestSchema(2133)
      /\ request.payload = Encode(schema, FromPartial(schema, given))
  BY <1>1, <1>3, <1>4 DEF getDeals, Request, ProtoOAPayloadType, RequestSchema
<1>6. DOMAIN call.params \subseteq names
  BY <1>1 DEF MayBeGiven, ParamsOf, Params, Extending, ITimeRangeParams, IGetDealsParams
<1>7. Requires(schema, must) /\ names \subseteq DOMAIN schema /\ must \subseteq DOMAIN schema
  BY <1>1, <1>2, <1>4, ProtoOADealListReqRequires
<1>8. Plain(call, schema, must, names, {})
  BY <1>1, <1>2, <1>6, <1>7 DEF Plain, SentAsTheyAre, Placements, ForSymbols, Special, Certain
<1>9. Carries(request.payload, schema, FromPartial(schema, given), {})
  BY <1>5, <1>7, EncodeCarries DEF Requires
<1>. QED BY <1>3, <1>5, <1>8, <1>9, PlainRequestSays

LEMMA getDealsByPositionIdSays ==
    ASSUME NEW call, call.method = "getDealsByPositionId",
           MayBeGiven(call.method, call.params),
           NEW request, request = getDealsByPositionId(call.params)
    PROVE  Says(call, request.payloadType, request.payload)
<1>1. PICK names : names = {"positionId", "fromTimestamp", "toTimestamp"}
  OBVIOUS
<1>2. PICK must : must = {"ctidTraderAccountId", "positionId"}
  OBVIOUS
<1>3. PICK given : given = ForAccount ++ Copied(call.params, names)
  OBVIOUS
<1>4. PICK schema : schema = ProtoOADealListByPositionIdReq
  OBVIOUS
<1>5. /\ request.payloadType = 2179 /\ schema = RequestSchema(2179)
      /\ request.payload = Encode(schema, FromPartial(schema, given))
  BY <1>1, <1>3, <1>4 DEF getDealsByPositionId, Request, ProtoOAPayloadType, RequestSchema
<1>6. /\ {"positionId"} \subseteq DOMAIN call.params
      /\ DOMAIN call.params \subseteq names
  BY <1>1 DEF MayBeGiven, ParamsOf, Params, IGetDealsByPositionIdParams
<1>7. Requires(schema, must) /\ names \subseteq DOMAIN schema /\ must \subseteq DOMAIN schema
  BY <1>1, <1>2, <1>4, ProtoOADealListByPositionIdReqRequires
<1>8. Plain(call, schema, must, names, {})
  BY <1>1, <1>2, <1>6, <1>7 DEF Plain, SentAsTheyAre, Placements, ForSymbols, Special, Certain
<1>9. Carries(request.payload, schema, FromPartial(schema, given), {})
  BY <1>5, <1>7, EncodeCarries DEF Requires
<1>. QED BY <1>3, <1>5, <1>8, <1>9, PlainRequestSays

LEMMA getOrdersSays ==
    ASSUME NEW call, call.method = "getOrders",
           MayBeGiven(call.method, call.params),
           NEW request, request = getOrders(call.params)
    PROVE  Says(call, request.payloadType, request.payload)
<1>1. PICK names : names = {"fromTimestamp", "toTimestamp"}
  OBVIOUS
<1>2. PICK must : must = {"ctidTraderAccountId"}
  OBVIOUS
<1>3. PICK given : given = ForAccount ++ Copied(call.params, names)
  OBVIOUS
<1>4. PICK schema : schema = ProtoOAOrderListReq
  OBVIOUS
<1>5. /\ request.payloadType = 2175 /\ schema = RequestSchema(2175)
      /\ request.payload = Encode(schema, FromPartial(schema, given))
  BY <1>1, <1>3, <1>4 DEF getOrders, Request, ProtoOAPayloadType, RequestSchema
<1>6. DOMAIN call.params \subseteq names
  BY <1>1 DEF MayBeGiven, ParamsOf, Params, ITimeRangeParams
<1>7. Requires(schema, must) /\ names \subseteq DOMAIN schema /\ must \subseteq DOMAIN schema
  BY <1>1, <1>2, <1>4, ProtoOAOrderListReqRequires
<1>8. Plain(call, schema, must, names, {})
  BY <1>1, <1>2, <1>6, <1>7 DEF Plain, SentAsTheyAre, Placements, ForSymbols, Special, Certain
<1>9. Carries(request.payload, schema, FromPartial(schema, given), {})
  BY <1>5, <1>7, EncodeCarries DEF Requires
<1>. QED BY <1>3, <1>5, <1>8, <1>9, PlainRequestSays

LEMMA subscribeSays ==
    ASSUME NEW call, call.method = "subscribe",
           MayBeGiven(call.method, call.params),
           NEW request, request = subscribe(call.params)
    PROVE  Says(call, request.payloadType, request.payload)
<1>1. PICK names : names = {"symbolId"}
  OBVIOUS
<1>2. PICK must : must = {"ctidTraderAccountId"}
  OBVIOUS
<1>3. PICK given : given = ForAccount ++ Copied(call.params, names)
  OBVIOUS
<1>4. PICK schema : schema = ProtoOASubscribeSpotsReq
  OBVIOUS
<1>5. /\ request.payloadType = 2127 /\ schema = RequestSchema(2127)
      /\ request.payload = Encode(schema, FromPartial(schema, given))
  BY <1>1, <1>3, <1>4 DEF subscribe, Request, ProtoOAPayloadType, RequestSchema
<1>6. DOMAIN call.params \subseteq names
  BY <1>1 DEF MayBeGiven, ParamsOf, Params
<1>7. Requires(schema, must) /\ names \subseteq DOMAIN schema /\ must \subseteq DOMAIN schema
  BY <1>1, <1>2, <1>4, ProtoOASubscribeSpotsReqRequires
<1>8. Plain(call, schema, must, names, {})
  BY <1>1, <1>2, <1>6, <1>7 DEF Plain, SentAsTheyAre, Placements, ForSymbols, Special, Certain
<1>9. Carries(request.payload, schema, FromPartial(schema, given), {})
  BY <1>5, <1>7, EncodeCarries DEF Requires
<1>. QED BY <1>3, <1>5, <1>8, <1>9, PlainRequestSays

LEMMA unsubscribeSays ==
    ASSUME NEW call, call.method = "unsubscribe",
           MayBeGiven(call.method, call.params),
           NEW request, request = unsubscribe(call.params)
    PROVE  Says(call, request.payloadType, request.payload)
<1>1. PICK names : names = {"symbolId"}
  OBVIOUS
<1>2. PICK must : must = {"ctidTraderAccountId"}
  OBVIOUS
<1>3. PICK given : given = ForAccount ++ Copied(call.params, names)
  OBVIOUS
<1>4. PICK schema : schema = ProtoOAUnsubscribeSpotsReq
  OBVIOUS
<1>5. /\ request.payloadType = 2129 /\ schema = RequestSchema(2129)
      /\ request.payload = Encode(schema, FromPartial(schema, given))
  BY <1>1, <1>3, <1>4 DEF unsubscribe, Request, ProtoOAPayloadType, RequestSchema
<1>6. DOMAIN call.params \subseteq names
  BY <1>1 DEF MayBeGiven, ParamsOf, Params
<1>7. Requires(schema, must) /\ names \subseteq DOMAIN schema /\ must \subseteq DOMAIN schema
  BY <1>1, <1>2, <1>4, ProtoOAUnsubscribeSpotsReqRequires
<1>8. Plain(call, schema, must, names, {})
  BY <1>1, <1>2, <1>6, <1>7 DEF Plain, SentAsTheyAre, Placements, ForSymbols, Special, Certain
<1>9. Carries(request.payload, schema, FromPartial(schema, given), {})
  BY <1>5, <1>7, EncodeCarries DEF Requires
<1>. QED BY <1>3, <1>5, <1>8, <1>9, PlainRequestSays

LEMMA subscribeDepthSays ==
    ASSUME NEW call, call.method = "subscribeDepth",
           MayBeGiven(call.method, call.params),
           NEW request, request = subscribeDepth(call.params)
    PROVE  Says(call, request.payloadType, request.payload)
<1>1. PICK names : names = {"symbolId"}
  OBVIOUS
<1>2. PICK must : must = {"ctidTraderAccountId"}
  OBVIOUS
<1>3. PICK given : given = ForAccount ++ Copied(call.params, names)
  OBVIOUS
<1>4. PICK schema : schema = ProtoOASubscribeDepthQuotesReq
  OBVIOUS
<1>5. /\ request.payloadType = 2156 /\ schema = RequestSchema(2156)
      /\ request.payload = Encode(schema, FromPartial(schema, given))
  BY <1>1, <1>3, <1>4 DEF subscribeDepth, Request, ProtoOAPayloadType, RequestSchema
<1>6. DOMAIN call.params \subseteq names
  BY <1>1 DEF MayBeGiven, ParamsOf, Params
<1>7. Requires(schema, must) /\ names \subseteq DOMAIN schema /\ must \subseteq DOMAIN schema
  BY <1>1, <1>2, <1>4, ProtoOASubscribeDepthQuotesReqRequires
<1>8. Plain(call, schema, must, names, {})
  BY <1>1, <1>2, <1>6, <1>7 DEF Plain, SentAsTheyAre, Placements, ForSymbols, Special, Certain
<1>9. Carries(request.payload, schema, FromPartial(schema, given), {})
  BY <1>5, <1>7, EncodeCarries DEF Requires
<1>. QED BY <1>3, <1>5, <1>8, <1>9, PlainRequestSays

LEMMA unsubscribeDepthSays ==
    ASSUME NEW call, call.method = "unsubscribeDepth",
           MayBeGiven(call.method, call.params),
           NEW request, request = unsubscribeDepth(call.params)
    PROVE  Says(call, request.payloadType, request.payload)
<1>1. PICK names : names = {"symbolId"}
  OBVIOUS
<1>2. PICK must : must = {"ctidTraderAccountId"}
  OBVIOUS
<1>3. PICK given : given = ForAccount ++ Copied(call.params, names)
  OBVIOUS
<1>4. PICK schema : schema = ProtoOAUnsubscribeDepthQuotesReq
  OBVIOUS
<1>5. /\ request.payloadType = 2158 /\ schema = RequestSchema(2158)
      /\ request.payload = Encode(schema, FromPartial(schema, given))
  BY <1>1, <1>3, <1>4 DEF unsubscribeDepth, Request, ProtoOAPayloadType, RequestSchema
<1>6. DOMAIN call.params \subseteq names
  BY <1>1 DEF MayBeGiven, ParamsOf, Params
<1>7. Requires(schema, must) /\ names \subseteq DOMAIN schema /\ must \subseteq DOMAIN schema
  BY <1>1, <1>2, <1>4, ProtoOAUnsubscribeDepthQuotesReqRequires
<1>8. Plain(call, schema, must, names, {})
  BY <1>1, <1>2, <1>6, <1>7 DEF Plain, SentAsTheyAre, Placements, ForSymbols, Special, Certain
<1>9. Carries(request.payload, schema, FromPartial(schema, given), {})
  BY <1>5, <1>7, EncodeCarries DEF Requires
<1>. QED BY <1>3, <1>5, <1>8, <1>9, PlainRequestSays

LEMMA authenticateAccountSays ==
    ASSUME NEW call, call.method = "authenticateAccount",
           MayBeGiven(call.method, call.params),
           NEW request, request = authenticateAccount(call.params)
    PROVE  Says(call, request.payloadType, request.payload)
<1>1. PICK names : names = {"accessToken"}
  OBVIOUS
<1>2. PICK must : must = {"ctidTraderAccountId", "accessToken"}
  OBVIOUS
<1>3. PICK given : given = ForAccount ++ Copied(call.params, names)
  OBVIOUS
<1>4. PICK schema : schema = ProtoOAAccountAuthReq
  OBVIOUS
<1>5. /\ request.payloadType = 2102 /\ schema = RequestSchema(2102)
      /\ request.payload = Encode(schema, FromPartial(schema, given))
  BY <1>1, <1>3, <1>4 DEF authenticateAccount, Request, ProtoOAPayloadType, RequestSchema
<1>6. /\ {"accessToken"} \subseteq DOMAIN call.params
      /\ DOMAIN call.params \subseteq names
  BY <1>1 DEF MayBeGiven, ParamsOf, Params
<1>7. Requires(schema, must) /\ names \subseteq DOMAIN schema /\ must \subseteq DOMAIN schema
  BY <1>1, <1>2, <1>4, ProtoOAAccountAuthReqRequires
<1>8. Plain(call, schema, must, names, {})
  BY <1>1, <1>2, <1>6, <1>7 DEF Plain, SentAsTheyAre, Placements, ForSymbols, Special, Certain
<1>9. Carries(request.payload, schema, FromPartial(schema, given), {})
  BY <1>5, <1>7, EncodeCarries DEF Requires
<1>. QED BY <1>3, <1>5, <1>8, <1>9, PlainRequestSays

LEMMA getCashFlowSays ==
    ASSUME NEW call, call.method = "getCashFlow",
           MayBeGiven(call.method, call.params),
           NEW request, request = getCashFlow(call.params)
    PROVE  Says(call, request.payloadType, request.payload)
<1>1. PICK names : names = {"fromTimestamp", "toTimestamp"}
  OBVIOUS
<1>2. PICK must : must = {"ctidTraderAccountId", "fromTimestamp", "toTimestamp"}
  OBVIOUS
<1>3. PICK given : given = ForAccount ++ Copied(call.params, names)
  OBVIOUS
<1>4. PICK schema : schema = ProtoOACashFlowHistoryListReq
  OBVIOUS
<1>5. PICK message : message = FromPartial(schema, given)
  OBVIOUS
<1>6. PICK fromTimestamp, toTimestamp :
        fromTimestamp = "fromTimestamp" /\ toTimestamp = "toTimestamp"
  OBVIOUS
<1>7. PICK wire : wire = Encode(schema, message)
  OBVIOUS
<1>8. PICK fuller :
        fuller = IF message[fromTimestamp] = 0
                 THEN Append1(wire, 24, message[fromTimestamp]) ELSE wire
  OBVIOUS
<1>9. /\ request.payloadType = 2143 /\ schema = RequestSchema(2143)
      /\ request.payload =
            IF message[toTimestamp] = 0 THEN Append1(fuller, 32, message[toTimestamp]) ELSE fuller
  BY <1>1, <1>3, <1>4, <1>5, <1>6, <1>7, <1>8
  DEF getCashFlow, encodeCashFlowHistoryListReq, appendRequiredInt64IfDropped, tagFor,
      VARINT_WIRE_TYPE, Request, ProtoOAPayloadType, RequestSchema
<1>10. /\ {"fromTimestamp", "toTimestamp"} \subseteq DOMAIN call.params
      /\ DOMAIN call.params \subseteq names
  BY <1>1 DEF MayBeGiven, ParamsOf, Params, ITimeRangeParams
<1>11. Requires(schema, must) /\ names \subseteq DOMAIN schema /\ must \subseteq DOMAIN schema
  BY <1>1, <1>2, <1>4, ProtoOACashFlowHistoryListReqRequires
<1>12. /\ fromTimestamp \in DOMAIN schema /\ schema[fromTimestamp].tag = 24
       /\ schema[fromTimestamp].default = 0 /\ schema[fromTimestamp].kind = "scalar"
       /\ toTimestamp \in DOMAIN schema /\ schema[toTimestamp].tag = 32
       /\ schema[toTimestamp].default = 0 /\ schema[toTimestamp].kind = "scalar"
  BY <1>4, <1>6 DEF ProtoOACashFlowHistoryListReq, Required, Field
<1>13. Plain(call, schema, must, names, {fromTimestamp, toTimestamp})
  BY <1>1, <1>2, <1>6, <1>10, <1>11, <1>12 DEF Plain, SentAsTheyAre, Placements, ForSymbols,
     Special, Certain
<1>14. Flat(schema) /\ Carries(wire, schema, message, {})
  BY <1>7, <1>11, EncodeCarries DEF Requires
<1>15. Carries(fuller, schema, message, {fromTimestamp})
  <2>1. Carries(fuller, schema, message, {} \cup {fromTimestamp})
    BY <1>8, <1>12, <1>14, AddedIsCarried
  <2>2. {} \cup {fromTimestamp} = {fromTimestamp}
    OBVIOUS
  <2>. QED BY <2>1, <2>2
<1>16. Carries(request.payload, schema, message, {fromTimestamp, toTimestamp})
  <2>1. toTimestamp \notin {fromTimestamp}
    BY <1>6
  <2>2. Carries(request.payload, schema, message, {fromTimestamp} \cup {toTimestamp})
    BY <1>9, <1>12, <1>14, <1>15, <2>1, AddedIsCarried
  <2>3. {fromTimestamp} \cup {toTimestamp} = {fromTimestamp, toTimestamp}
    OBVIOUS
  <2>. QED BY <2>2, <2>3
<1>. QED BY <1>3, <1>5, <1>9, <1>13, <1>16, PlainRequestSays

LEMMA getTrendbarsSays ==
    ASSUME NEW call, call.method = "getTrendbars",
           MayBeGiven(call.method, call.params),
           NEW request, request = getTrendbars(call.params)
    PROVE  Says(call, request.payloadType, request.payload)
<1>1. PICK names : names = {"symbolId", "period", "fromTimestamp", "toTimestamp", "count"}
  OBVIOUS
<1>2. PICK must : must = {"ctidTraderAccountId", "period", "symbolId"}
  OBVIOUS
<1>3. PICK given : given = ForAccount ++ Copied(call.params, names)
  OBVIOUS
<1>4. PICK schema : schema = ProtoOAGetTrendbarsReq
  OBVIOUS
<1>5. PICK message : message = FromPartial(schema, given)
  OBVIOUS
<1>6. PICK period : period = "period"
  OBVIOUS
<1>7. PICK wire : wire = Encode(schema, message)
  OBVIOUS
<1>8. /\ request.payloadType = 2137 /\ schema = RequestSchema(2137)
      /\ request.payload = IF message[period] = 1 THEN Append1(wire, 40, message[period]) ELSE wire
  BY <1>1, <1>3, <1>4, <1>5, <1>6, <1>7
  DEF getTrendbars, encodeGetTrendbarsReq, appendRequiredEnumIfDropped,
      tagFor, VARINT_WIRE_TYPE, ProtoOATrendbarPeriod, Request, ProtoOAPayloadType, RequestSchema
<1>9. /\ {"symbolId", "period"} \subseteq DOMAIN call.params
      /\ DOMAIN call.params \subseteq names
  BY <1>1 DEF MayBeGiven, ParamsOf, Params, IGetTrendbarsParams
<1>10. Requires(schema, must) /\ names \subseteq DOMAIN schema /\ must \subseteq DOMAIN schema
  BY <1>1, <1>2, <1>4, ProtoOAGetTrendbarsReqRequires
<1>11. /\ period \in DOMAIN schema /\ schema[period].tag = 40 /\ schema[period].default = 1
      /\ schema[period].kind = "scalar"
  BY <1>4, <1>6 DEF ProtoOAGetTrendbarsReq, Required, Field
<1>12. Plain(call, schema, must, names, {period})
  BY <1>1, <1>2, <1>6, <1>9, <1>10, <1>11 DEF Plain, SentAsTheyAre, Placements, ForSymbols,
     Special, Certain
<1>13. Flat(schema) /\ Carries(wire, schema, message, {})
  BY <1>7, <1>10, EncodeCarries DEF Requires
<1>14. Carries(request.payload, schema, message, {period})
  <2>1. Carries(request.payload, schema, message, {} \cup {period})
    BY <1>8, <1>11, <1>13, AddedIsCarried
  <2>2. {} \cup {period} = {period}
    OBVIOUS
  <2>. QED BY <2>1, <2>2
<1>. QED BY <1>3, <1>5, <1>8, <1>12, <1>14, PlainRequestSays

LEMMA getTickDataSays ==
    ASSUME NEW call, call.method = "getTickData",
           MayBeGiven(call.method, call.params),
           NEW request, request = getTickData(call.params)
    PROVE  Says(call, request.payloadType, request.payload)
<1>1. PICK names : names = {"symbolId", "type", "fromTimestamp", "toTimestamp"}
  OBVIOUS
<1>2. PICK must : must = {"ctidTraderAccountId", "symbolId", "type"}
  OBVIOUS
<1>3. PICK given : given = ForAccount ++ Copied(call.params, names)
  OBVIOUS
<1>4. PICK schema : schema = ProtoOAGetTickDataReq
  OBVIOUS
<1>5. PICK message : message = FromPartial(schema, given)
  OBVIOUS
<1>6. PICK type : type = "type"
  OBVIOUS
<1>7. PICK wire : wire = Encode(schema, message)
  OBVIOUS
<1>8. /\ request.payloadType = 2145 /\ schema = RequestSchema(2145)
      /\ request.payload = IF message[type] = 1 THEN Append1(wire, 32, message[type]) ELSE wire
  BY <1>1, <1>3, <1>4, <1>5, <1>6, <1>7
  DEF getTickData, encodeGetTickDataReq, appendRequiredEnumIfDropped,
      tagFor, VARINT_WIRE_TYPE, ProtoOAQuoteType, Request, ProtoOAPayloadType, RequestSchema
<1>9. /\ {"symbolId", "type"} \subseteq DOMAIN call.params
      /\ DOMAIN call.params \subseteq names
  BY <1>1 DEF MayBeGiven, ParamsOf, Params, IGetTickDataParams
<1>10. Requires(schema, must) /\ names \subseteq DOMAIN schema /\ must \subseteq DOMAIN schema
  BY <1>1, <1>2, <1>4, ProtoOAGetTickDataReqRequires
<1>11. /\ type \in DOMAIN schema /\ schema[type].tag = 32 /\ schema[type].default = 1
      /\ schema[type].kind = "scalar"
  BY <1>4, <1>6 DEF ProtoOAGetTickDataReq, Required, Field
<1>12. Plain(call, schema, must, names, {type})
  BY <1>1, <1>2, <1>6, <1>9, <1>10, <1>11 DEF Plain, SentAsTheyAre, Placements, ForSymbols,
     Special, Certain
<1>13. Flat(schema) /\ Carries(wire, schema, message, {})
  BY <1>7, <1>10, EncodeCarries DEF Requires
<1>14. Carries(request.payload, schema, message, {type})
  <2>1. Carries(request.payload, schema, message, {} \cup {type})
    BY <1>8, <1>11, <1>13, AddedIsCarried
  <2>2. {} \cup {type} = {type}
    OBVIOUS
  <2>. QED BY <2>1, <2>2
<1>. QED BY <1>3, <1>5, <1>8, <1>12, <1>14, PlainRequestSays

LEMMA subscribeLiveTrendbarsSays ==
    ASSUME NEW call, call.method = "subscribeLiveTrendbars",
           MayBeGiven(call.method, call.params),
           NEW request, request = subscribeLiveTrendbars(call.params)
    PROVE  Says(call, request.payloadType, request.payload)
<1>1. PICK names : names = {"symbolId", "period"}
  OBVIOUS
<1>2. PICK must : must = {"ctidTraderAccountId", "period", "symbolId"}
  OBVIOUS
<1>3. PICK given : given = ForAccount ++ Copied(call.params, names)
  OBVIOUS
<1>4. PICK schema : schema = ProtoOASubscribeLiveTrendbarReq
  OBVIOUS
<1>5. PICK message : message = FromPartial(schema, given)
  OBVIOUS
<1>6. PICK period : period = "period"
  OBVIOUS
<1>7. PICK wire : wire = Encode(schema, message)
  OBVIOUS
<1>8. /\ request.payloadType = 2135 /\ schema = RequestSchema(2135)
      /\ request.payload = IF message[period] = 1 THEN Append1(wire, 24, message[period]) ELSE wire
  BY <1>1, <1>3, <1>4, <1>5, <1>6, <1>7
  DEF subscribeLiveTrendbars, encodeSubscribeLiveTrendbarReq, appendRequiredEnumIfDropped,
      tagFor, VARINT_WIRE_TYPE, ProtoOATrendbarPeriod, Request, ProtoOAPayloadType, RequestSchema
<1>9. /\ {"symbolId", "period"} \subseteq DOMAIN call.params
      /\ DOMAIN call.params \subseteq names
  BY <1>1 DEF MayBeGiven, ParamsOf, Params, ISubscribeLiveTrendbarsParams
<1>10. Requires(schema, must) /\ names \subseteq DOMAIN schema /\ must \subseteq DOMAIN schema
  BY <1>1, <1>2, <1>4, ProtoOASubscribeLiveTrendbarReqRequires
<1>11. /\ period \in DOMAIN schema /\ schema[period].tag = 24 /\ schema[period].default = 1
      /\ schema[period].kind = "scalar"
  BY <1>4, <1>6 DEF ProtoOASubscribeLiveTrendbarReq, Required, Field
<1>12. Plain(call, schema, must, names, {period})
  BY <1>1, <1>2, <1>6, <1>9, <1>10, <1>11 DEF Plain, SentAsTheyAre, Placements, ForSymbols,
     Special, Certain
<1>13. Flat(schema) /\ Carries(wire, schema, message, {})
  BY <1>7, <1>10, EncodeCarries DEF Requires
<1>14. Carries(request.payload, schema, message, {period})
  <2>1. Carries(request.payload, schema, message, {} \cup {period})
    BY <1>8, <1>11, <1>13, AddedIsCarried
  <2>2. {} \cup {period} = {period}
    OBVIOUS
  <2>. QED BY <2>1, <2>2
<1>. QED BY <1>3, <1>5, <1>8, <1>12, <1>14, PlainRequestSays

LEMMA unsubscribeLiveTrendbarsSays ==
    ASSUME NEW call, call.method = "unsubscribeLiveTrendbars",
           MayBeGiven(call.method, call.params),
           NEW request, request = unsubscribeLiveTrendbars(call.params)
    PROVE  Says(call, request.payloadType, request.payload)
<1>1. PICK names : names = {"symbolId", "period"}
  OBVIOUS
<1>2. PICK must : must = {"ctidTraderAccountId", "period", "symbolId"}
  OBVIOUS
<1>3. PICK given : given = ForAccount ++ Copied(call.params, names)
  OBVIOUS
<1>4. PICK schema : schema = ProtoOAUnsubscribeLiveTrendbarReq
  OBVIOUS
<1>5. PICK message : message = FromPartial(schema, given)
  OBVIOUS
<1>6. PICK period : period = "period"
  OBVIOUS
<1>7. PICK wire : wire = Encode(schema, message)
  OBVIOUS
<1>8. /\ request.payloadType = 2136 /\ schema = RequestSchema(2136)
      /\ request.payload = IF message[period] = 1 THEN Append1(wire, 24, message[period]) ELSE wire
  BY <1>1, <1>3, <1>4, <1>5, <1>6, <1>7
  DEF unsubscribeLiveTrendbars, encodeUnsubscribeLiveTrendbarReq, appendRequiredEnumIfDropped,
      tagFor, VARINT_WIRE_TYPE, ProtoOATrendbarPeriod, Request, ProtoOAPayloadType, RequestSchema
<1>9. /\ {"symbolId", "period"} \subseteq DOMAIN call.params
      /\ DOMAIN call.params \subseteq names
  BY <1>1 DEF MayBeGiven, ParamsOf, Params, ISubscribeLiveTrendbarsParams
<1>10. Requires(schema, must) /\ names \subseteq DOMAIN schema /\ must \subseteq DOMAIN schema
  BY <1>1, <1>2, <1>4, ProtoOAUnsubscribeLiveTrendbarReqRequires
<1>11. /\ period \in DOMAIN schema /\ schema[period].tag = 24 /\ schema[period].default = 1
      /\ schema[period].kind = "scalar"
  BY <1>4, <1>6 DEF ProtoOAUnsubscribeLiveTrendbarReq, Required, Field
<1>12. Plain(call, schema, must, names, {period})
  BY <1>1, <1>2, <1>6, <1>9, <1>10, <1>11 DEF Plain, SentAsTheyAre, Placements, ForSymbols,
     Special, Certain
<1>13. Flat(schema) /\ Carries(wire, schema, message, {})
  BY <1>7, <1>10, EncodeCarries DEF Requires
<1>14. Carries(request.payload, schema, message, {period})
  <2>1. Carries(request.payload, schema, message, {} \cup {period})
    BY <1>8, <1>11, <1>13, AddedIsCarried
  <2>2. {} \cup {period} = {period}
    OBVIOUS
  <2>. QED BY <2>1, <2>2
<1>. QED BY <1>3, <1>5, <1>8, <1>12, <1>14, PlainRequestSays

LEMMA getOpenPositionsAndOrdersSays ==
    ASSUME NEW call, call.method = "getOpenPositionsAndOrders",
           MayBeGiven(call.method, call.params),
           NEW request, request = getOpenPositionsAndOrders(call.params)
    PROVE  Says(call, request.payloadType, request.payload)
<1>1. PICK must : must = {"ctidTraderAccountId"}
  OBVIOUS
<1>2. PICK schema : schema = ProtoOAReconcileReq
  OBVIOUS
<1>3. /\ request.payloadType = 2124 /\ schema = RequestSchema(2124)
      /\ request.payload = Encode(schema, FromPartial(schema, ForAccount))
  BY <1>2 DEF getOpenPositionsAndOrders, Request, ProtoOAPayloadType, RequestSchema
<1>4. Requires(schema, must) /\ must \subseteq DOMAIN schema
  BY <1>1, <1>2, ProtoOAReconcileReqRequires
<1>5. Bare(call, schema)
  BY <1>1, <1>4 DEF Bare, MayBeGiven, ParamsOf, Params, SentAsTheyAre, Placements
<1>. QED BY <1>1, <1>3, <1>4, <1>5, BareRequestSays

LEMMA getTraderSays ==
    ASSUME NEW call, call.method = "getTrader",
           MayBeGiven(call.method, call.params),
           NEW request, request = getTrader(call.params)
    PROVE  Says(call, request.payloadType, request.payload)
<1>1. PICK must : must = {"ctidTraderAccountId"}
  OBVIOUS
<1>2. PICK schema : schema = ProtoOATraderReq
  OBVIOUS
<1>3. /\ request.payloadType = 2121 /\ schema = RequestSchema(2121)
      /\ request.payload = Encode(schema, FromPartial(schema, ForAccount))
  BY <1>2 DEF getTrader, Request, ProtoOAPayloadType, RequestSchema
<1>4. Requires(schema, must) /\ must \subseteq DOMAIN schema
  BY <1>1, <1>2, ProtoOATraderReqRequires
<1>5. Bare(call, schema)
  BY <1>1, <1>4 DEF Bare, MayBeGiven, ParamsOf, Params, SentAsTheyAre, Placements
<1>. QED BY <1>1, <1>3, <1>4, <1>5, BareRequestSays

LEMMA getAssetsSays ==
    ASSUME NEW call, call.method = "getAssets",
           MayBeGiven(call.method, call.params),
           NEW request, request = getAssets(call.params)
    PROVE  Says(call, request.payloadType, request.payload)
<1>1. PICK must : must = {"ctidTraderAccountId"}
  OBVIOUS
<1>2. PICK schema : schema = ProtoOAAssetListReq
  OBVIOUS
<1>3. /\ request.payloadType = 2112 /\ schema = RequestSchema(2112)
      /\ request.payload = Encode(schema, FromPartial(schema, ForAccount))
  BY <1>2 DEF getAssets, Request, ProtoOAPayloadType, RequestSchema
<1>4. Requires(schema, must) /\ must \subseteq DOMAIN schema
  BY <1>1, <1>2, ProtoOAAssetListReqRequires
<1>5. Bare(call, schema)
  BY <1>1, <1>4 DEF Bare, MayBeGiven, ParamsOf, Params, SentAsTheyAre, Placements
<1>. QED BY <1>1, <1>3, <1>4, <1>5, BareRequestSays

LEMMA getPositionsUnrealizedPnLSays ==
    ASSUME NEW call, call.method = "getPositionsUnrealizedPnL",
           MayBeGiven(call.method, call.params),
           NEW request, request = getPositionsUnrealizedPnL(call.params)
    PROVE  Says(call, request.payloadType, request.payload)
<1>1. PICK must : must = {"ctidTraderAccountId"}
  OBVIOUS
<1>2. PICK schema : schema = ProtoOAGetPositionUnrealizedPnLReq
  OBVIOUS
<1>3. /\ request.payloadType = 2187 /\ schema = RequestSchema(2187)
      /\ request.payload = Encode(schema, FromPartial(schema, ForAccount))
  BY <1>2 DEF getPositionsUnrealizedPnL, Request, ProtoOAPayloadType, RequestSchema
<1>4. Requires(schema, must) /\ must \subseteq DOMAIN schema
  BY <1>1, <1>2, ProtoOAGetPositionUnrealizedPnLReqRequires
<1>5. Bare(call, schema)
  BY <1>1, <1>4 DEF Bare, MayBeGiven, ParamsOf, Params, SentAsTheyAre, Placements
<1>. QED BY <1>1, <1>3, <1>4, <1>5, BareRequestSays

LEMMA getMarginCallsSays ==
    ASSUME NEW call, call.method = "getMarginCalls",
           MayBeGiven(call.method, call.params),
           NEW request, request = getMarginCalls(call.params)
    PROVE  Says(call, request.payloadType, request.payload)
<1>1. PICK must : must = {"ctidTraderAccountId"}
  OBVIOUS
<1>2. PICK schema : schema = ProtoOAMarginCallListReq
  OBVIOUS
<1>3. /\ request.payloadType = 2167 /\ schema = RequestSchema(2167)
      /\ request.payload = Encode(schema, FromPartial(schema, ForAccount))
  BY <1>2 DEF getMarginCalls, Request, ProtoOAPayloadType, RequestSchema
<1>4. Requires(schema, must) /\ must \subseteq DOMAIN schema
  BY <1>1, <1>2, ProtoOAMarginCallListReqRequires
<1>5. Bare(call, schema)
  BY <1>1, <1>4 DEF Bare, MayBeGiven, ParamsOf, Params, SentAsTheyAre, Placements
<1>. QED BY <1>1, <1>3, <1>4, <1>5, BareRequestSays

LEMMA fetchSymbolsSays ==
    ASSUME NEW call, call.method = "fetchSymbols",
           MayBeGiven(call.method, call.params),
           NEW request, request = fetchSymbols(call.params)
    PROVE  Says(call, request.payloadType, request.payload)
<1>1. PICK must : must = {"ctidTraderAccountId"}
  OBVIOUS
<1>2. PICK schema : schema = ProtoOASymbolsListReq
  OBVIOUS
<1>3. /\ request.payloadType = 2114 /\ schema = RequestSchema(2114)
      /\ request.payload = Encode(schema, FromPartial(schema, ForAccount))
  BY <1>2 DEF fetchSymbols, Request, ProtoOAPayloadType, RequestSchema
<1>4. Requires(schema, must) /\ must \subseteq DOMAIN schema
  BY <1>1, <1>2, ProtoOASymbolsListReqRequires
<1>5. Bare(call, schema)
  BY <1>1, <1>4 DEF Bare, MayBeGiven, ParamsOf, Params, SentAsTheyAre, Placements
<1>. QED BY <1>1, <1>3, <1>4, <1>5, BareRequestSays

LEMMA getBalanceSays ==
    ASSUME NEW call, call.method = "getBalance",
           MayBeGiven(call.method, call.params),
           NEW request, request = getTrader(call.params)
    PROVE  Says(call, request.payloadType, request.payload)
<1>1. PICK must : must = {"ctidTraderAccountId"}
  OBVIOUS
<1>2. PICK schema : schema = ProtoOATraderReq
  OBVIOUS
<1>3. /\ request.payloadType = 2121 /\ schema = RequestSchema(2121)
      /\ request.payload = Encode(schema, FromPartial(schema, ForAccount))
  BY <1>2 DEF getTrader, Request, ProtoOAPayloadType, RequestSchema
<1>4. Requires(schema, must) /\ must \subseteq DOMAIN schema
  BY <1>1, <1>2, ProtoOATraderReqRequires
<1>5. Bare(call, schema)
  BY <1>1, <1>4 DEF Bare, MayBeGiven, ParamsOf, Params, SentAsTheyAre, Placements
<1>. QED BY <1>1, <1>3, <1>4, <1>5, BareRequestSays

LEMMA authenticateApplicationSays ==
    ASSUME NEW call, call.method = "authenticateApplication",
           MayBeGiven(call.method, call.params),
           NEW request, request = authenticateApplication(call.params)
    PROVE  Says(call, request.payloadType, request.payload)
<1>1. PICK names : names = {"clientId", "clientSecret"}
  OBVIOUS
<1>2. PICK given : given = Copied(call.params, names)
  OBVIOUS
<1>3. PICK schema : schema = ProtoOAApplicationAuthReq
  OBVIOUS
<1>4. /\ request.payloadType = 2100 /\ schema = RequestSchema(2100)
      /\ request.payload = Encode(schema, FromPartial(schema, given))
  BY <1>1, <1>2, <1>3
  DEF authenticateApplication, Request, ProtoOAPayloadType, RequestSchema
<1>5. DOMAIN call.params = names
  BY <1>1 DEF MayBeGiven, ParamsOf, Params
<1>6. /\ Requires(schema, names) /\ names \subseteq DOMAIN schema
      /\ "ctidTraderAccountId" \notin DOMAIN schema
  BY <1>1, <1>3, ProtoOAApplicationAuthReqRequires
<1>7. SentAsTheyAre(call) /\ call.method \notin Placements
  BY DEF SentAsTheyAre, Placements
<1>8. names \cap Special = {} /\ names \subseteq Certain /\ "symbolId" \notin names
  BY <1>1 DEF Special, Certain
<1>. QED BY <1>2, <1>4, <1>5, <1>6, <1>7, <1>8, HeadlessRequestSays

LEMMA listAccountsSays ==
    ASSUME NEW call, call.method = "listAccounts",
           MayBeGiven(call.method, call.params),
           NEW request, request = listAccounts(call.params)
    PROVE  Says(call, request.payloadType, request.payload)
<1>1. PICK names : names = {"accessToken"}
  OBVIOUS
<1>2. PICK given : given = Copied(call.params, names)
  OBVIOUS
<1>3. PICK schema : schema = ProtoOAGetAccountListByAccessTokenReq
  OBVIOUS
<1>4. /\ request.payloadType = 2149 /\ schema = RequestSchema(2149)
      /\ request.payload = Encode(schema, FromPartial(schema, given))
  BY <1>1, <1>2, <1>3 DEF listAccounts, Request, ProtoOAPayloadType, RequestSchema
<1>5. DOMAIN call.params = names
  BY <1>1 DEF MayBeGiven, ParamsOf, Params
<1>6. /\ Requires(schema, names) /\ names \subseteq DOMAIN schema
      /\ "ctidTraderAccountId" \notin DOMAIN schema
  BY <1>1, <1>3, ProtoOAGetAccountListByAccessTokenReqRequires
<1>7. SentAsTheyAre(call) /\ call.method \notin Placements
  BY DEF SentAsTheyAre, Placements
<1>8. names \cap Special = {} /\ names \subseteq Certain /\ "symbolId" \notin names
  BY <1>1 DEF Special, Certain
<1>. QED BY <1>2, <1>4, <1>5, <1>6, <1>7, <1>8, HeadlessRequestSays

LEMMA amendOrderSays ==
    ASSUME NEW call, call.method = "amendOrder",
           MayBeGiven(call.method, call.params),
           NEW request, request = amendOrder(call.params)
    PROVE  Says(call, request.payloadType, request.payload)
<1>1. PICK names : names = {"orderId", "limitPrice", "stopPrice", "stopLoss", "takeProfit",
                            "expirationTimestamp"}
  OBVIOUS
<1>2. PICK must : must = {"ctidTraderAccountId", "orderId"}
  OBVIOUS
<1>3. PICK given : given = ForAccount ++ InCents(call.params) ++ Copied(call.params, names)
  OBVIOUS
<1>4. PICK schema : schema = ProtoOAAmendOrderReq
  OBVIOUS
<1>5. /\ request.payloadType = 2109 /\ schema = RequestSchema(2109)
      /\ request.payload = Encode(schema, FromPartial(schema, given))
  BY <1>1, <1>3, <1>4 DEF amendOrder, Request, ProtoOAPayloadType, RequestSchema
<1>6. /\ {"orderId"} \subseteq DOMAIN call.params
      /\ DOMAIN call.params \subseteq names \cup {"volume"}
  BY <1>1 DEF MayBeGiven, ParamsOf, Params, IAmendOrderParams
<1>7. /\ Requires(schema, must) /\ names \cup {"volume"} \subseteq DOMAIN schema
      /\ must \subseteq DOMAIN schema
  BY <1>1, <1>2, <1>4, ProtoOAAmendOrderReqRequires
<1>8. InUnits(call, schema, must, names)
  BY <1>1, <1>2, <1>6, <1>7 DEF InUnits, SentAsTheyAre, Placements, Special, Certain
<1>. QED BY <1>3, <1>5, <1>8, InUnitsRequestSays

LEMMA closePositionSays ==
    ASSUME NEW call, call.method = "closePosition",
           MayBeGiven(call.method, call.params),
           NEW request, request = closePosition(call.params)
    PROVE  Says(call, request.payloadType, request.payload)
<1>1. PICK names : names = {"positionId"}
  OBVIOUS
<1>2. PICK must : must = {"ctidTraderAccountId", "positionId", "volume"}
  OBVIOUS
<1>3. PICK given : given = ForAccount ++ InCents(call.params) ++ Copied(call.params, names)
  OBVIOUS
<1>4. PICK schema : schema = ProtoOAClosePositionReq
  OBVIOUS
<1>5. /\ request.payloadType = 2111 /\ schema = RequestSchema(2111)
      /\ request.payload = Encode(schema, FromPartial(schema, given))
  BY <1>1, <1>3, <1>4 DEF closePosition, Request, ProtoOAPayloadType, RequestSchema
<1>6. /\ {"positionId", "volume"} \subseteq DOMAIN call.params
      /\ DOMAIN call.params \subseteq names \cup {"volume"}
  BY <1>1 DEF MayBeGiven, ParamsOf, Params, IClosePositionParams
<1>7. /\ Requires(schema, must) /\ names \cup {"volume"} \subseteq DOMAIN schema
      /\ must \subseteq DOMAIN schema
  BY <1>1, <1>2, <1>4, ProtoOAClosePositionReqRequires
<1>8. InUnits(call, schema, must, names)
  BY <1>1, <1>2, <1>6, <1>7 DEF InUnits, SentAsTheyAre, Placements, Special, Certain
<1>. QED BY <1>3, <1>5, <1>8, InUnitsRequestSays

\* What a placement is given: symbol, side and volume, and what its own type has.
LEMMA PlacementParams ==
    ASSUME NEW call, call.method \in Placements, MayBeGiven(call.method, call.params),
           NEW names,
           names = {"symbolId", "tradeSide", "limitPrice", "stopPrice", "timeInForce",
                    "expirationTimestamp", "stopLoss", "takeProfit", "trailingStopLoss",
                    "guaranteedStopLoss", "stopTriggerMethod", "baseSlippagePrice",
                    "slippageInPoints", "comment", "label", "clientOrderId", "positionId"}
    PROVE  /\ {"symbolId", "tradeSide", "volume"} \subseteq DOMAIN call.params
           /\ DOMAIN call.params \subseteq names \cup {"volume"}
<1> DEFINE first == IPlaceMarketOrderParams
<1>1. /\ first.required = {"symbolId", "tradeSide", "volume"}
      /\ first.optional \subseteq names
  BY DEF IPlaceMarketOrderParams, Params
<1>2. CASE call.method = "placeMarketOrder"
  <2>1. ParamsOf(call.method) = first
    BY <1>2 DEF ParamsOf
  <2>. QED BY <1>1, <2>1 DEF MayBeGiven
<1>3. CASE call.method = "placeLimitOrder"
  <2>1. ParamsOf(call.method) = IPlaceLimitOrderParams
    BY <1>3 DEF ParamsOf
  <2>2. /\ IPlaceLimitOrderParams.required = first.required \cup {"limitPrice"}
        /\ IPlaceLimitOrderParams.optional = first.optional
                \cup {"timeInForce", "expirationTimestamp"}
    BY DEF IPlaceLimitOrderParams, Extending, Params
  <2> HIDE DEF first
  <2>. QED BY <1>1, <2>1, <2>2 DEF MayBeGiven
<1>4. CASE call.method = "placeStopOrder"
  <2>1. ParamsOf(call.method) = IPlaceStopOrderParams
    BY <1>4 DEF ParamsOf
  <2>2. /\ IPlaceStopOrderParams.required = first.required \cup {"stopPrice"}
        /\ IPlaceStopOrderParams.optional = first.optional
                \cup {"timeInForce", "expirationTimestamp"}
    BY DEF IPlaceStopOrderParams, Extending, Params
  <2> HIDE DEF first
  <2>. QED BY <1>1, <2>1, <2>2 DEF MayBeGiven
<1>5. CASE call.method = "placeStopLimitOrder"
  <2>1. ParamsOf(call.method) = IPlaceStopLimitOrderParams
    BY <1>5 DEF ParamsOf
  <2>2. /\ IPlaceStopLimitOrderParams.required = first.required \cup {"stopPrice"}
        /\ IPlaceStopLimitOrderParams.optional = first.optional
                \cup {"timeInForce", "expirationTimestamp", "slippageInPoints"}
    BY DEF IPlaceStopLimitOrderParams, IPlaceStopOrderParams, Extending, Params
  <2> HIDE DEF first
  <2>. QED BY <1>1, <2>1, <2>2 DEF MayBeGiven
<1>6. CASE call.method = "placeMarketRangeOrder"
  <2>1. ParamsOf(call.method) = IPlaceMarketRangeOrderParams
    BY <1>6 DEF ParamsOf
  <2>2. /\ IPlaceMarketRangeOrderParams.required = first.required
                \cup {"baseSlippagePrice", "slippageInPoints"}
        /\ IPlaceMarketRangeOrderParams.optional = first.optional \cup {}
    BY DEF IPlaceMarketRangeOrderParams, Extending, Params
  <2> HIDE DEF first
  <2>. QED BY <1>1, <2>1, <2>2 DEF MayBeGiven
<1>. QED BY <1>2, <1>3, <1>4, <1>5, <1>6 DEF Placements

\* A placement is for the account, of its type, and for a volume given in units.
Placing(call, schema) ==
    /\ call.method \in Placements
    /\ DOMAIN call.params \cap Special = {"volume"} /\ call.params["volume"] \in Nat \ {0}
    /\ {"ctidTraderAccountId", "orderType", "volume"} \subseteq DOMAIN schema

LEMMA PlacementHead ==
    ASSUME NEW call, NEW schema, Placing(call, schema), NEW account, NEW kind, NEW volume,
           account = "ctidTraderAccountId", kind = "orderType", volume = "volume",
           NEW head,
           head = ForAccount ++ [orderType |-> OrderTypes[call.method]] ++ InCents(call.params)
    PROVE  /\ DOMAIN head = {account, kind, volume} /\ Heads(call, schema, head)
           /\ \A f \in {account, volume} : head[f] # Dropped(f)
<1> DEFINE p == call.params
           a == ForAccount
           t == [orderType |-> OrderTypes[call.method]]
           b == InCents(p)
<1>0. /\ call.method \in Placements /\ DOMAIN p \cap Special = {volume}
      /\ p[volume] \in Nat \ {0} /\ {account, kind, volume} \subseteq DOMAIN schema
  BY DEF Placing
<1>1. DOMAIN a = {account} /\ a[account] = ctidTraderAccountId
  BY AccountIs
<1>2. volume \in DOMAIN p /\ "volumes" \notin DOMAIN p
  BY <1>0 DEF Special
<1>3. DOMAIN b = {volume} /\ b[volume] = 100 * p[volume] /\ b[volume] # 0
  BY <1>0, <1>2, InCentsIs
<1>4. DOMAIN t = {kind} /\ t[kind] = OrderTypes[call.method]
  OBVIOUS
<1>5. /\ DOMAIN head = DOMAIN a \cup DOMAIN t \cup DOMAIN b
      /\ \A f \in DOMAIN a : head[f] = a[f]
      /\ \A f \in DOMAIN t \ DOMAIN a : head[f] = t[f]
      /\ \A f \in DOMAIN b \ (DOMAIN a \cup DOMAIN t) : head[f] = b[f]
  BY DEF ++
<1> HIDE DEF a, t, b
<1>6. account # volume /\ account # kind /\ kind # volume
  OBVIOUS
<1>7. DOMAIN head = {account, kind, volume}
  BY <1>1, <1>3, <1>4, <1>5
<1>8. /\ head[account] = ctidTraderAccountId
      /\ head[kind] = OrderTypes[call.method]
      /\ head[volume] = 100 * p[volume] /\ head[volume] # 0
  BY <1>1, <1>3, <1>4, <1>5, <1>6
<1>9. /\ Asked(call, kind) = OrderTypes[call.method]
      /\ Asked(call, volume) = 100 * p[volume]
  BY <1>2 DEF Asked
<1>10. \A f \in DOMAIN head : head[f] = Asked(call, f)
  BY <1>7, <1>8, <1>9, AccountAsked
<1>11. ASSUME NEW f \in DOMAIN schema, f \in Special
       PROVE  IsAsked(call, schema, f) <=> f \in DOMAIN head
  <2>1. CASE f = account
    BY <1>0, <1>7, <2>1, AccountAsked
  <2>2. CASE f \in {kind, volume}
    BY <1>0, <1>2, <1>7, <2>2 DEF IsAsked
  <2>3. CASE f = "volumes"
    BY <1>2, <1>7, <2>3 DEF IsAsked
  <2>. QED BY <1>11, <2>1, <2>2, <2>3 DEF Special
<1>12. DOMAIN head \subseteq Special
  BY <1>7 DEF Special
<1>13. Dropped(volume) = 0
  BY DEF Dropped
<1>14. head[account] # Dropped(account) /\ head[volume] # Dropped(volume)
  BY <1>8, <1>13, AccountAsked
<1>. QED BY <1>0, <1>7, <1>10, <1>11, <1>12, <1>14 DEF Heads

LEMMA placeOrderSays ==
    ASSUME NEW call, call.method \in Placements, MayBeGiven(call.method, call.params),
           NEW request, request = placeOrder(OrderTypes[call.method], call.params)
    PROVE  Says(call, request.payloadType, request.payload)
<1>1. PICK names :
        names = {"symbolId", "tradeSide", "limitPrice", "stopPrice", "timeInForce",
                 "expirationTimestamp", "stopLoss", "takeProfit", "trailingStopLoss",
                 "guaranteedStopLoss", "stopTriggerMethod", "baseSlippagePrice",
                 "slippageInPoints", "comment", "label", "clientOrderId", "positionId"}
  OBVIOUS
<1>2. PICK must :
        must = {"ctidTraderAccountId", "symbolId", "orderType", "tradeSide", "volume"}
  OBVIOUS
<1>3. PICK account, orderType, tradeSide, volume :
        /\ account = "ctidTraderAccountId" /\ orderType = "orderType"
        /\ tradeSide = "tradeSide" /\ volume = "volume"
  OBVIOUS
<1>4. PICK head :
        head = ForAccount ++ [orderType |-> OrderTypes[call.method]] ++ InCents(call.params)
  OBVIOUS
<1>5. PICK given : given = head ++ Copied(call.params, names)
  OBVIOUS
<1>6. PICK schema : schema = ProtoOANewOrderReq
  OBVIOUS
<1>7. PICK message : message = FromPartial(schema, given)
  OBVIOUS
<1>8. PICK wire : wire = Encode(schema, message)
  OBVIOUS
<1>9. PICK fuller :
        fuller = IF message[orderType] = 1 THEN Append1(wire, 32, message[orderType]) ELSE wire
  OBVIOUS
<1>10. /\ request.payloadType = 2106 /\ schema = RequestSchema(2106)
       /\ request.payload =
            IF message[tradeSide] = 1 THEN Append1(fuller, 40, message[tradeSide]) ELSE fuller
  BY <1>1, <1>3, <1>4, <1>5, <1>6, <1>7, <1>8, <1>9
  DEF placeOrder, encodeNewOrderReq, appendRequiredEnumIfDropped, tagFor, VARINT_WIRE_TYPE,
      ProtoOAOrderType, ProtoOATradeSide, Request, ProtoOAPayloadType, RequestSchema
<1>11. /\ {"symbolId", tradeSide, volume} \subseteq DOMAIN call.params
       /\ DOMAIN call.params \subseteq names \cup {volume}
  BY <1>1, <1>3, PlacementParams
<1>12. /\ Requires(schema, must) /\ names \subseteq DOMAIN schema /\ must \subseteq DOMAIN schema
  BY <1>1, <1>2, <1>6, ProtoOANewOrderReqRequires
<1>13. /\ schema[orderType].tag = 32 /\ schema[orderType].default = 1
       /\ schema[orderType].kind = "scalar"
       /\ schema[tradeSide].tag = 40 /\ schema[tradeSide].default = 1
       /\ schema[tradeSide].kind = "scalar"
  <2>1. schema.orderType = Required(32, 1) /\ schema.tradeSide = Required(40, 1)
    BY <1>6 DEF ProtoOANewOrderReq
  <2>. QED BY <1>3, <2>1 DEF Required, Field
<1>14. orderType \in DOMAIN schema /\ tradeSide \in DOMAIN schema
  BY <1>2, <1>3, <1>12
<1>15. SentAsTheyAre(call) /\ call.method \notin ForSymbols
  BY DEF SentAsTheyAre, Placements, ForSymbols
<1>16. /\ DOMAIN call.params \cap Special = {volume} /\ names \cap Special = {}
       /\ call.params[volume] \in Nat \ {0}
       /\ {account, orderType, volume} \subseteq DOMAIN schema
  <2>1. names \cap Special = {} /\ volume \in Special
    BY <1>1, <1>3 DEF Special
  <2>2. DOMAIN call.params \cap Special = {volume}
    BY <1>11, <2>1
  <2>3. call.params[volume] \in Nat \ {0}
    BY <1>3, <1>11 DEF MayBeGiven
  <2>. QED BY <1>2, <1>3, <1>12, <2>1, <2>2, <2>3
<1>17. /\ DOMAIN head = {account, orderType, volume} /\ Heads(call, schema, head)
       /\ \A f \in {account, volume} : head[f] # Dropped(f)
  <2>1. Placing(call, schema)
    BY <1>3, <1>16 DEF Placing
  <2>. QED BY <1>3, <1>4, <2>1, PlacementHead
<1>18. Completes(given, head, call.params, names)
  BY <1>5 DEF Completes, ++, Copied
<1>19. Covers(names, head, call.params)
  BY <1>11, <1>16, <1>17 DEF Covers
<1>20. Suits(call, schema, must, head, names, {orderType, tradeSide})
  <2>1. /\ must \subseteq DOMAIN call.params \cup DOMAIN head
        /\ must \subseteq {orderType, tradeSide} \cup Certain \cup DOMAIN head
    BY <1>2, <1>3, <1>11, <1>17 DEF Certain
  <2>2. \A f \in DOMAIN head : f \in {orderType, tradeSide} \/ head[f] # Dropped(f)
    BY <1>17
  <2>. QED BY <1>12, <1>13, <1>15, <1>17, <1>19, <2>1, <2>2 DEF Suits
<1>21. Flat(schema) /\ Carries(wire, schema, message, {})
  BY <1>8, <1>12, EncodeCarries DEF Requires
<1>22. Carries(fuller, schema, message, {orderType})
  <2>1. Carries(fuller, schema, message, {} \cup {orderType})
    BY <1>9, <1>13, <1>14, <1>21, AddedIsCarried
  <2>2. {} \cup {orderType} = {orderType}
    OBVIOUS
  <2>. QED BY <2>1, <2>2
<1>23. Carries(request.payload, schema, message, {orderType, tradeSide})
  <2>1. tradeSide \notin {orderType}
    BY <1>3
  <2>2. Carries(request.payload, schema, message, {orderType} \cup {tradeSide})
    BY <1>10, <1>13, <1>14, <1>21, <1>22, <2>1, AddedIsCarried
  <2>3. {orderType} \cup {tradeSide} = {orderType, tradeSide}
    OBVIOUS
  <2>. QED BY <2>2, <2>3
<1>. QED BY <1>7, <1>10, <1>18, <1>20, <1>23, RequestSays

LEMMA placeMarketOrderSays ==
    ASSUME NEW call, call.method = "placeMarketOrder",
           MayBeGiven(call.method, call.params),
           NEW request, request = placeMarketOrder(call.params)
    PROVE  Says(call, request.payloadType, request.payload)
<1>1. request = placeOrder(OrderTypes[call.method], call.params)
  BY DEF placeMarketOrder, OrderTypes
<1>2. call.method \in Placements
  BY DEF Placements
<1>. QED BY <1>1, <1>2, placeOrderSays

LEMMA placeLimitOrderSays ==
    ASSUME NEW call, call.method = "placeLimitOrder",
           MayBeGiven(call.method, call.params),
           NEW request, request = placeLimitOrder(call.params)
    PROVE  Says(call, request.payloadType, request.payload)
<1>1. request = placeOrder(OrderTypes[call.method], call.params)
  BY DEF placeLimitOrder, OrderTypes
<1>2. call.method \in Placements
  BY DEF Placements
<1>. QED BY <1>1, <1>2, placeOrderSays

LEMMA placeStopOrderSays ==
    ASSUME NEW call, call.method = "placeStopOrder",
           MayBeGiven(call.method, call.params),
           NEW request, request = placeStopOrder(call.params)
    PROVE  Says(call, request.payloadType, request.payload)
<1>1. request = placeOrder(OrderTypes[call.method], call.params)
  BY DEF placeStopOrder, OrderTypes
<1>2. call.method \in Placements
  BY DEF Placements
<1>. QED BY <1>1, <1>2, placeOrderSays

LEMMA placeStopLimitOrderSays ==
    ASSUME NEW call, call.method = "placeStopLimitOrder",
           MayBeGiven(call.method, call.params),
           NEW request, request = placeStopLimitOrder(call.params)
    PROVE  Says(call, request.payloadType, request.payload)
<1>1. request = placeOrder(OrderTypes[call.method], call.params)
  BY DEF placeStopLimitOrder, OrderTypes
<1>2. call.method \in Placements
  BY DEF Placements
<1>. QED BY <1>1, <1>2, placeOrderSays

LEMMA placeMarketRangeOrderSays ==
    ASSUME NEW call, call.method = "placeMarketRangeOrder",
           MayBeGiven(call.method, call.params),
           NEW request, request = placeMarketRangeOrder(call.params)
    PROVE  Says(call, request.payloadType, request.payload)
<1>1. request = placeOrder(OrderTypes[call.method], call.params)
  BY DEF placeMarketRangeOrder, OrderTypes
<1>2. call.method \in Placements
  BY DEF Placements
<1>. QED BY <1>1, <1>2, placeOrderSays

LEMMA getExpectedMarginSays ==
    ASSUME NEW call, call.method = "getExpectedMargin",
           MayBeGiven(call.method, call.params),
           NEW request, request = getExpectedMargin(call.params)
    PROVE  Says(call, request.payloadType, request.payload)
<1> DEFINE p == call.params
<1>1. PICK account, symbolId, volume, volumes, payloadType :
        /\ account = "ctidTraderAccountId" /\ symbolId = "symbolId" /\ volume = "volume"
        /\ volumes = "volumes" /\ payloadType = "payloadType"
  OBVIOUS
<1>2. PICK cents : cents = [i \in DOMAIN p[volumes] |-> p[volumes][i] * 100]
  OBVIOUS
<1>3. PICK given :
        given = ForAccount ++ Copied(p, {"symbolId"}) ++ [volume |-> cents]
  OBVIOUS
<1>4. PICK schema : schema = ProtoOAExpectedMarginReq
  OBVIOUS
<1>5. /\ request.payloadType = 2139 /\ schema = RequestSchema(2139)
      /\ request.payload = Encode(schema, FromPartial(schema, given))
  BY <1>1, <1>2, <1>3, <1>4
  DEF getExpectedMargin, Request, ProtoOAPayloadType, RequestSchema, SPOTWARE_VOLUME_SCALE
<1>6. /\ DOMAIN p = {symbolId, volumes} /\ p[symbolId] \in Nat \ {0}
      /\ \A i \in DOMAIN p[volumes] : p[volumes][i] \in Nat
  BY <1>1 DEF MayBeGiven, ParamsOf, Params, IGetExpectedMarginParams, ForSymbols
<1>7. /\ DOMAIN schema = {payloadType, account, symbolId, volume}
      /\ Requires(schema, {account, symbolId})
  BY <1>1, <1>4, ProtoOAExpectedMarginReqRequires
<1>8. /\ DOMAIN given = {account, symbolId, volume}
      /\ given[account] = ctidTraderAccountId /\ given[symbolId] = p[symbolId]
      /\ given[volume] = cents
  <2>1. DOMAIN ForAccount = {account} /\ ForAccount[account] = ctidTraderAccountId
    BY <1>1, AccountIs
  <2>. QED BY <1>1, <1>3, <1>6, <2>1 DEF ++, Copied
<1>9. /\ Asked(call, account) = ctidTraderAccountId /\ ctidTraderAccountId # Dropped(account)
      /\ IsAsked(call, schema, account)
  BY <1>1, <1>7, AccountAsked
<1>10. Asked(call, volume) = cents
  <2>1. Asked(call, volume) = [i \in DOMAIN p[volumes] |-> 100 * p[volumes][i]]
    BY <1>1, <1>6 DEF Asked
  <2>2. \A i \in DOMAIN p[volumes] : 100 * p[volumes][i] = p[volumes][i] * 100
    BY <1>6
  <2>. QED BY <1>2, <2>1, <2>2
<1>11. Asked(call, symbolId) = p[symbolId]
  BY <1>1 DEF Asked
<1>12. Dropped(symbolId) = 0
  BY <1>1 DEF Dropped
<1>13. /\ IsAsked(call, schema, symbolId) /\ IsAsked(call, schema, volume)
       /\ ~IsAsked(call, schema, payloadType)
  BY <1>1, <1>6 DEF IsAsked, Placements
<1>14. Gives(call, schema, given)
  <2>1. payloadType \notin DOMAIN given
    BY <1>1, <1>8
  <2>. QED BY <1>7, <1>8, <1>9, <1>10, <1>11, <1>13, <2>1 DEF Gives
<1>15. PICK must, none : must = {account, symbolId} /\ none = {}
  OBVIOUS
<1>16. /\ must \subseteq DOMAIN given /\ must \subseteq DOMAIN schema
       /\ DOMAIN p \subseteq DOMAIN schema \cup {"volumes"} /\ Requires(schema, must)
       /\ \A f \in must : f \in none \/ Asked(call, f) # Dropped(f)
  BY <1>1, <1>6, <1>7, <1>8, <1>9, <1>11, <1>12, <1>15
<1>17. Carries(request.payload, schema, FromPartial(schema, given), none)
  BY <1>5, <1>7, <1>15, EncodeCarries DEF Requires
<1>18. \A f \in none : f \in DOMAIN schema => schema[f].kind = "scalar"
  BY <1>15
<1>19. Suffices(call, schema, must, given, none)
  BY <1>14, <1>16, <1>18 DEF Suffices
<1>. QED BY <1>5, <1>17, <1>19, GivesIsSaid

LEMMA fetchFullSymbolSays ==
    ASSUME NEW call, call.method = "fetchFullSymbol",
           MayBeGiven(call.method, call.params),
           NEW request, request = fetchFullSymbol(call.params)
    PROVE  Says(call, request.payloadType, request.payload)
<1> DEFINE p == call.params
<1>1. PICK account, symbolId, payloadType :
        /\ account = "ctidTraderAccountId" /\ symbolId = "symbolId"
        /\ payloadType = "payloadType"
  OBVIOUS
<1>2. PICK symbols : symbols = <<p[symbolId]>>
  OBVIOUS
<1>3. PICK given : given = ForAccount ++ [symbolId |-> symbols]
  OBVIOUS
<1>4. PICK schema : schema = ProtoOASymbolByIdReq
  OBVIOUS
<1>5. /\ request.payloadType = 2116 /\ schema = RequestSchema(2116)
      /\ request.payload = Encode(schema, FromPartial(schema, given))
  BY <1>1, <1>2, <1>3, <1>4
  DEF fetchFullSymbol, Request, ProtoOAPayloadType, RequestSchema
<1>6. DOMAIN p = {symbolId}
  BY <1>1 DEF MayBeGiven, ParamsOf, Params
<1>7. DOMAIN schema = {payloadType, account, symbolId} /\ Requires(schema, {account})
  BY <1>1, <1>4, ProtoOASymbolByIdReqRequires
<1>8. /\ DOMAIN given = {account, symbolId}
      /\ given[account] = ctidTraderAccountId /\ given[symbolId] = symbols
  <2>1. DOMAIN ForAccount = {account} /\ ForAccount[account] = ctidTraderAccountId
    BY <1>1, AccountIs
  <2>. QED BY <1>1, <1>3, <2>1 DEF ++
<1>9. /\ Asked(call, account) = ctidTraderAccountId /\ ctidTraderAccountId # Dropped(account)
      /\ IsAsked(call, schema, account)
  BY <1>1, <1>7, AccountAsked
<1>10. Asked(call, symbolId) = symbols
  BY <1>1, <1>2 DEF Asked
<1>11. IsAsked(call, schema, symbolId) /\ ~IsAsked(call, schema, payloadType)
  BY <1>1, <1>6 DEF IsAsked, Placements
<1>12. Gives(call, schema, given)
  <2>1. payloadType \notin DOMAIN given
    BY <1>1, <1>8
  <2>. QED BY <1>7, <1>8, <1>9, <1>10, <1>11, <2>1 DEF Gives
<1>13. PICK must, none : must = {account} /\ none = {}
  OBVIOUS
<1>14. /\ must \subseteq DOMAIN given /\ must \subseteq DOMAIN schema
       /\ DOMAIN p \subseteq DOMAIN schema \cup {"volumes"} /\ Requires(schema, must)
       /\ \A f \in must : f \in none \/ Asked(call, f) # Dropped(f)
  BY <1>6, <1>7, <1>8, <1>9, <1>13
<1>15. Carries(request.payload, schema, FromPartial(schema, given), none)
  BY <1>5, <1>7, <1>13, EncodeCarries DEF Requires
<1>16. \A f \in none : f \in DOMAIN schema => schema[f].kind = "scalar"
  BY <1>13
<1>17. Suffices(call, schema, must, given, none)
  BY <1>12, <1>14, <1>16 DEF Suffices
<1>. QED BY <1>5, <1>15, <1>17, GivesIsSaid

-----------------------------------------------------------------------------
(* Every request, on its way.                                                 *)

\* The request that a method makes of its parameters, one action of the model at a time.
IsTradingRequest(method, p, request) ==
    \/ method = "placeMarketOrder" /\ request = placeMarketOrder(p)
    \/ method = "placeLimitOrder" /\ request = placeLimitOrder(p)
    \/ method = "placeStopOrder" /\ request = placeStopOrder(p)
    \/ method = "placeStopLimitOrder" /\ request = placeStopLimitOrder(p)
    \/ method = "placeMarketRangeOrder" /\ request = placeMarketRangeOrder(p)
    \/ method = "amendOrder" /\ request = amendOrder(p)
    \/ /\ method = "amendPositionStopLossTakeProfit"
       /\ request = amendPositionStopLossTakeProfit(p)
    \/ method = "cancelOrder" /\ request = cancelOrder(p)
    \/ method = "closePosition" /\ request = closePosition(p)
    \/ method = "getOpenPositionsAndOrders" /\ request = getOpenPositionsAndOrders(p)

IsAccountRequest(method, p, request) ==
    \/ method = "getTrader" /\ request = getTrader(p)
    \/ method = "getBalance" /\ request = getTrader(p)
    \/ method = "getAssets" /\ request = getAssets(p)
    \/ method = "getExpectedMargin" /\ request = getExpectedMargin(p)
    \/ method = "getPositionsUnrealizedPnL" /\ request = getPositionsUnrealizedPnL(p)
    \/ method = "getMarginCalls" /\ request = getMarginCalls(p)

IsHistoryRequest(method, p, request) ==
    \/ method = "getDeals" /\ request = getDeals(p)
    \/ method = "getDealsByPositionId" /\ request = getDealsByPositionId(p)
    \/ method = "getOrders" /\ request = getOrders(p)
    \/ method = "getCashFlow" /\ request = getCashFlow(p)

IsMarketDataRequest(method, p, request) ==
    \/ method = "getTrendbars" /\ request = getTrendbars(p)
    \/ method = "getTickData" /\ request = getTickData(p)
    \/ method = "subscribe" /\ request = subscribe(p)
    \/ method = "unsubscribe" /\ request = unsubscribe(p)
    \/ method = "subscribeDepth" /\ request = subscribeDepth(p)
    \/ method = "unsubscribeDepth" /\ request = unsubscribeDepth(p)
    \/ method = "subscribeLiveTrendbars" /\ request = subscribeLiveTrendbars(p)
    \/ method = "unsubscribeLiveTrendbars" /\ request = unsubscribeLiveTrendbars(p)
    \/ method = "fetchSymbols" /\ request = fetchSymbols(p)
    \/ method = "fetchFullSymbol" /\ request = fetchFullSymbol(p)

IsHandshakeRequest(method, p, request) ==
    \/ method = "authenticateApplication" /\ request = authenticateApplication(p)
    \/ method = "authenticateAccount" /\ request = authenticateAccount(p)
    \/ method = "listAccounts" /\ request = listAccounts(p)

IsRequestOf(method, p, request) ==
    \/ IsTradingRequest(method, p, request) \/ IsAccountRequest(method, p, request)
    \/ IsHistoryRequest(method, p, request) \/ IsMarketDataRequest(method, p, request)
    \/ IsHandshakeRequest(method, p, request)

LEMMA RequestsAreOfMethods ==
    ASSUME NEW method, NEW p, NEW request, IsRequestOf(method, p, request)
    PROVE  method \in Methods
BY DEF IsRequestOf, IsTradingRequest, IsAccountRequest, IsHistoryRequest,
       IsMarketDataRequest, IsHandshakeRequest, Methods, Mutations, Placements,
       HandshakeMethods

\* Whatever the method, its request says what the call asks.
LEMMA EveryRequestSays ==
    ASSUME NEW call, NEW request, MayBeGiven(call.method, call.params),
           IsRequestOf(call.method, call.params, request)
    PROVE  Says(call, request.payloadType, request.payload)
<1>1. CASE IsTradingRequest(call.method, call.params, request)
  BY <1>1, placeMarketOrderSays, placeLimitOrderSays, placeStopOrderSays,
     placeStopLimitOrderSays, placeMarketRangeOrderSays, amendOrderSays,
     amendPositionStopLossTakeProfitSays, cancelOrderSays, closePositionSays,
     getOpenPositionsAndOrdersSays DEF IsTradingRequest
<1>2. CASE IsAccountRequest(call.method, call.params, request)
  BY <1>2, getTraderSays, getBalanceSays, getAssetsSays, getExpectedMarginSays,
     getPositionsUnrealizedPnLSays, getMarginCallsSays DEF IsAccountRequest
<1>3. CASE IsHistoryRequest(call.method, call.params, request)
  BY <1>3, getDealsSays, getDealsByPositionIdSays, getOrdersSays, getCashFlowSays
     DEF IsHistoryRequest
<1>4. CASE IsMarketDataRequest(call.method, call.params, request)
  BY <1>4, getTrendbarsSays, getTickDataSays, subscribeSays, unsubscribeSays,
     subscribeDepthSays, unsubscribeDepthSays, subscribeLiveTrendbarsSays,
     unsubscribeLiveTrendbarsSays, fetchSymbolsSays, fetchFullSymbolSays
     DEF IsMarketDataRequest
<1>5. CASE IsHandshakeRequest(call.method, call.params, request)
  BY <1>5, authenticateApplicationSays, authenticateAccountSays, listAccountsSays
     DEF IsHandshakeRequest
<1>. QED BY <1>1, <1>2, <1>3, <1>4, <1>5 DEF IsRequestOf

\* A call hands the transport the request of its method, or nothing.
SendsRequest(c) ==
    \E method, request : \E p \in Inputs(method) :
        IsRequestOf(method, p, request) /\ MayCall(c, method)
        /\ Send(c, method, p, request)

LEMMA CallsSendRequests ==
    ASSUME NEW c,
           TradingCall(c) \/ AccountCall(c) \/ HistoryCall(c) \/ MarketDataCall(c)
            \/ HandshakeCall(c)
    PROVE  SendsRequest(c) \/ CashFlowOutOfRange(c)
<1>1. CASE TradingCall(c)
  <2>1. \E method, request : \E p \in Inputs(method) :
            IsTradingRequest(method, p, request) /\ MayCall(c, method)
        /\ Send(c, method, p, request)
    BY <1>1, Zenon DEF TradingCall, Call, IsTradingRequest
  <2>. QED BY <2>1 DEF SendsRequest, IsRequestOf
<1>2. CASE AccountCall(c)
  <2>1. \E method, request : \E p \in Inputs(method) :
            IsAccountRequest(method, p, request) /\ MayCall(c, method)
        /\ Send(c, method, p, request)
    BY <1>2, Zenon DEF AccountCall, Call, IsAccountRequest
  <2>. QED BY <2>1 DEF SendsRequest, IsRequestOf
<1>3. CASE HistoryCall(c) /\ ~CashFlowOutOfRange(c)
  <2>1. \E method, request : \E p \in Inputs(method) :
            IsHistoryRequest(method, p, request) /\ MayCall(c, method)
        /\ Send(c, method, p, request)
    BY <1>3, Zenon DEF HistoryCall, Call, CallCashFlow, IsHistoryRequest
  <2>. QED BY <2>1 DEF SendsRequest, IsRequestOf
<1>4. CASE MarketDataCall(c)
  <2>1. \E method, request : \E p \in Inputs(method) :
            IsMarketDataRequest(method, p, request) /\ MayCall(c, method)
        /\ Send(c, method, p, request)
    BY <1>4, Zenon DEF MarketDataCall, Call, IsMarketDataRequest
  <2>. QED BY <2>1 DEF SendsRequest, IsRequestOf
<1>5. CASE HandshakeCall(c)
  <2>1. \E method, request : \E p \in Inputs(method) :
            IsHandshakeRequest(method, p, request) /\ MayCall(c, method)
        /\ Send(c, method, p, request)
    BY <1>5, Zenon DEF HandshakeCall, Call, IsHandshakeRequest
  <2>. QED BY <2>1 DEF SendsRequest, IsRequestOf
<1>. QED BY <1>1, <1>2, <1>3, <1>4, <1>5

\* What a request says depends on the call's method and parameters alone.
LEMMA SaysAlike ==
    ASSUME NEW call, NEW other, other.method = call.method, other.params = call.params,
           NEW type, NEW payload, Says(call, type, payload)
    PROVE  Says(other, type, payload)
<1>1. \A f : Asked(other, f) = Asked(call, f)
  BY Zenon DEF Asked
<1>2. \A schema, f : IsAsked(other, schema, f) <=> IsAsked(call, schema, f)
  BY DEF IsAsked
<1>. QED BY <1>1, <1>2 DEF Says

\* Nothing new is asked, and a call that has been made stays the call it is.
RequestsStay ==
    /\ Requests' \subseteq Requests
    /\ \A c \in Calls : calls[c].state # "idle" =>
        calls'[c].method = calls[c].method /\ calls'[c].params = calls[c].params

LEMMA CallsEndAsTheyWere ==
    ASSUME IInv, NEW c \in Calls, TimesOut(c) \/ CashFlowOutOfRange(c)
    PROVE  RequestsStay
<1>1. Requests' = Requests
  BY DEF Requests, TimesOut, CashFlowOutOfRange, broker
<1>2. CASE TimesOut(c)
  BY <1>1, <1>2 DEF RequestsStay, TimesOut, Over, IInv, ShapeInv
<1>3. CASE CashFlowOutOfRange(c)
  <2>1. calls[c].state = "idle"
    <3>1. calls[c] = Idle
      BY <1>3, Zenon DEF CashFlowOutOfRange, MayCall
    <3>. QED BY <3>1 DEF Idle
  <2>2. \A d \in Calls : d # c => calls'[d] = calls[d]
    BY <1>3 DEF CashFlowOutOfRange, IInv, ShapeInv
  <2>. QED BY <1>1, <2>1, <2>2 DEF RequestsStay
<1>. QED BY <1>2, <1>3

LEMMA ConnectionKeepsRequests ==
    ASSUME (\E r \in throttled : Leave(r)) \/ Disconnected \/ Authenticated \/ Receive \/ Resume
    PROVE  RequestsStay
<1>1. CASE \E r \in throttled : Leave(r)
  BY <1>1 DEF RequestsStay, Requests, Leave
<1>2. CASE Disconnected
  BY <1>2 DEF RequestsStay, Requests, Disconnected, broker, CutOff, Over
<1>3. CASE Authenticated
  BY <1>3 DEF RequestsStay, Requests, Authenticated, broker
<1>4. CASE Receive
  <2>1. /\ UNCHANGED <<throttled, arrived>>
        /\ calls' = [c \in Calls |->
                        IF Answers(c, Decode(ProtoMessage, Head(toClient).wire))
                        THEN [state |-> "answered", method |-> calls[c].method,
                              params |-> calls[c].params,
                              message |-> Decode(ProtoMessage, Head(toClient).wire),
                              meant |-> Head(toClient).result]
                        ELSE calls[c]]
    BY <1>4, Zenon DEF Receive, broker
  <2>. QED BY <2>1 DEF RequestsStay, Requests
<1>5. CASE Resume
  BY <1>5 DEF RequestsStay, Requests, Resume, broker, Over
<1>. QED BY <1>1, <1>2, <1>3, <1>4, <1>5

LEMMA BrokerKeepsRequests ==
    ASSUME NEW r \in arrived, BrokerHandles(r)
    PROVE  RequestsStay
<1>1. calls' = calls /\ throttled' = throttled /\ arrived' = arrived \ {r}
  <2>1. CASE BrokerAnswers(r)
    BY <2>1, Zenon DEF BrokerAnswers, Tell
  <2>2. CASE BrokerRefuses(r)
    BY <2>2, Zenon DEF BrokerRefuses, Tell
  <2>3. CASE BrokerRejectsByEvent(r)
    BY <2>3, Zenon DEF BrokerRejectsByEvent
  <2>4. CASE BrokerOpens(r)
    BY <2>4, Zenon DEF BrokerOpens, Executes
  <2>5. CASE BrokerAmends(r)
    BY <2>5, Zenon DEF BrokerAmends, Executes
  <2>6. CASE BrokerCancels(r)
    BY <2>6, Zenon DEF BrokerCancels, Executes
  <2>7. CASE BrokerMovesStops(r)
    BY <2>7, Zenon DEF BrokerMovesStops, Executes
  <2>8. CASE BrokerCloses(r)
    BY <2>8, Zenon DEF BrokerCloses, Executes
  <2>. QED BY <2>1, <2>2, <2>3, <2>4, <2>5, <2>6, <2>7, <2>8 DEF BrokerHandles
<1>. QED BY <1>1 DEF RequestsStay, Requests

LEMMA BrokerSpeaksUnasked ==
    ASSUME \/ \E o \in DOMAIN orders : BrokerFills(o)
           \/ \E i \in DOMAIN Events : BrokerPublishes(Events[i])
    PROVE  RequestsStay
<1>1. calls' = calls /\ throttled' = throttled /\ arrived' = arrived
  <2>1. CASE \E o \in DOMAIN orders : BrokerFills(o)
    BY <2>1, Zenon DEF BrokerFills
  <2>2. CASE \E i \in DOMAIN Events : BrokerPublishes(Events[i])
    BY <2>2, Zenon DEF BrokerPublishes, broker
  <2>. QED BY <2>1, <2>2
<1>. QED BY <1>1 DEF RequestsStay, Requests

\* Every step adds the request of a call to those there are, or adds none.
LEMMA NextRequests ==
    ASSUME IInv, [Next]_vars
    PROVE  RequestsStay \/ \E c \in Calls : SendsRequest(c)
<1>1. CASE UNCHANGED vars
  BY <1>1 DEF vars, RequestsStay, Requests
<1>2. CASE \E c \in Calls : TradingCall(c) \/ AccountCall(c) \/ HistoryCall(c)
                              \/ MarketDataCall(c) \/ HandshakeCall(c) \/ TimesOut(c)
  BY <1>2, CallsSendRequests, CallsEndAsTheyWere
<1>3. CASE (\E r \in throttled : Leave(r)) \/ Disconnected \/ Authenticated \/ Receive \/ Resume
  BY <1>3, ConnectionKeepsRequests
<1>4. CASE \E r \in arrived : BrokerHandles(r)
  BY <1>4, BrokerKeepsRequests
<1>5. CASE \/ \E o \in DOMAIN orders : BrokerFills(o)
           \/ \E i \in DOMAIN Events : BrokerPublishes(Events[i])
  BY <1>5, BrokerSpeaksUnasked
<1>. QED BY <1>1, <1>2, <1>3, <1>4, <1>5 DEF Next

\* r says what its call asks.
IsAsAsked(r) == Says(calls[CallOf(r)], ReadRequest(r).payloadType, ReadRequest(r).payload)

LEMMA RequestsArriveIs == RequestsArriveAsAsked <=> \A r \in Requests : IsAsAsked(r)
BY DEF RequestsArriveAsAsked, IsAsAsked, Says, CallOf

LEMMA RequestsStaySo ==
    ASSUME IInv, RequestsStay, \A r \in Requests : IsAsAsked(r)
    PROVE  \A r \in Requests' : IsAsAsked(r)'
<1>1. ASSUME NEW r \in Requests' PROVE IsAsAsked(r)'
  <2>1. r \in Requests /\ CallOf(r) \in Calls /\ calls[CallOf(r)].state # "idle"
    BY <1>1 DEF RequestsStay, IInv, RequestsInv
  <2>2. /\ calls'[CallOf(r)].method = calls[CallOf(r)].method
        /\ calls'[CallOf(r)].params = calls[CallOf(r)].params
    BY <2>1 DEF RequestsStay
  <2>3. Says(calls[CallOf(r)], ReadRequest(r).payloadType, ReadRequest(r).payload)
    BY <2>1 DEF IsAsAsked
  <2>4. Says(calls'[CallOf(r)], ReadRequest(r).payloadType, ReadRequest(r).payload)
    BY <2>2, <2>3, SaysAlike
  <2>. QED BY <2>4 DEF IsAsAsked
<1>. QED BY <1>1

LEMMA SentAsAsked ==
    ASSUME IInv, NEW c \in Calls, SendsRequest(c), \A r \in Requests : IsAsAsked(r)
    PROVE  \A r \in Requests' : IsAsAsked(r)'
<1>1. PICK method, request : \E p \in Inputs(method) :
        IsRequestOf(method, p, request) /\ MayCall(c, method)
        /\ Send(c, method, p, request)
  BY DEF SendsRequest
<1>2. PICK p \in Inputs(method) : IsRequestOf(method, p, request) /\ MayCall(c, method)
        /\ Send(c, method, p, request)
  BY <1>1
<1>3. PICK sent : sent = [wire |-> Envelope(request.payloadType, request.payload, c),
                         session |-> session]
  OBVIOUS
<1>4. /\ calls'[c].method = method /\ calls'[c].params = p
      /\ \A d \in Calls : d # c => calls'[d] = calls[d]
  BY <1>2 DEF Send, IInv, ShapeInv
<1>5. Requests' = Requests \cup {sent}
  BY <1>2, <1>3 DEF Send, Requests
<1>6. Says(calls'[c], request.payloadType, request.payload)
  <2>1. MayBeGiven(method, p)
    BY <1>2, RequestsAreOfMethods, InputsAssumption
  <2>. QED BY <1>2, <1>4, <2>1, EveryRequestSays
<1>7. /\ ReadRequest(sent).payloadType = request.payloadType
      /\ ReadRequest(sent).payload = request.payload /\ CallOf(sent) = c
  BY <1>3, EnvelopeRead DEF CallOf, ReadRequest
<1>8. IsAsAsked(sent)'
  BY <1>6, <1>7 DEF IsAsAsked
<1>9. ASSUME NEW r \in Requests PROVE IsAsAsked(r)'
  <2>1. CallOf(r) # c
    <3>1. calls[c].state = "idle"
      <4>1. calls[c] = Idle
        BY <1>2, Zenon DEF MayCall
      <4>. QED BY <4>1 DEF Idle
    <3>. QED BY <1>9, <3>1 DEF IInv, RequestsInv
  <2>2. calls'[CallOf(r)] = calls[CallOf(r)]
    BY <1>4, <1>9, <2>1 DEF IInv, RequestsInv
  <2>. QED BY <1>9, <2>2 DEF IsAsAsked
<1>. QED BY <1>5, <1>8, <1>9

\* Every request under way can be read by a broker that takes "required" at its word, and
\* says what its call asked: no required field is dropped (proto-required-field.ts:13-60), and
\* every parameter arrives as it was meant, for every menu, input, answer and event.
THEOREM RequestsArriveAsAskedHolds ==
    ASSUME UndefinedIsNoRecord
    PROVE  Spec => []RequestsArriveAsAsked
<1> DEFINE AllAsAsked == \A r \in Requests : IsAsAsked(r)
<1>1. Init => AllAsAsked
  BY DEF Init, Requests
<1>2. IInv /\ AllAsAsked /\ [Next]_vars => AllAsAsked'
  <2> SUFFICES ASSUME IInv, AllAsAsked, [Next]_vars PROVE AllAsAsked'
    OBVIOUS
  <2>1. CASE RequestsStay
    BY <2>1, RequestsStaySo
  <2>2. CASE \E c \in Calls : SendsRequest(c)
    BY <2>2, SentAsAsked
  <2>. QED BY <2>1, <2>2, NextRequests
<1>3. AllAsAsked => RequestsArriveAsAsked
  BY RequestsArriveIs
<1>. QED BY <1>1, <1>2, <1>3, IInvHolds, PTL DEF Spec

-----------------------------------------------------------------------------
(* The schemas of answers, errors and events.                                 *)

Nests(field) == field.kind \in {"message", "messages"}

\* Of scalars only.
Unnested(schema) == WellMade(schema) /\ \A f \in DOMAIN schema : ~Nests(schema[f])

\* Well made, and so are the messages in it, and those in them.
WellMadeInside(schema) ==
    WellMade(schema)
        /\ \A f \in DOMAIN schema : Nests(schema[f]) => WellMade(schema[f].of)

WellMadeThroughout(schema) ==
    WellMade(schema)
        /\ \A f \in DOMAIN schema : Nests(schema[f]) => WellMadeInside(schema[f].of)

LEMMA UnnestedIsInside ==
    ASSUME NEW schema, Unnested(schema)
    PROVE  WellMadeInside(schema) /\ WellMadeThroughout(schema)
BY DEF Unnested, WellMadeInside, WellMadeThroughout

LEMMA ProtoOATraderUnnested == Unnested(ProtoOATrader)
<1>1. DOMAIN ProtoOATrader = {"ctidTraderAccountId", "balance", "balanceVersion",
          "managerBonus", "ibBonus", "nonWithdrawableBonus", "accessRights",
          "depositAssetId", "swapFree", "leverageInCents", "totalMarginCalculationType",
          "maxLeverage", "frenchRisk", "traderLogin", "accountType", "brokerName",
          "registrationTimestamp", "isLimitedRisk", "limitedRiskMarginCalculationStrategy",
          "moneyDigits", "fairStopOut", "stopOutStrategy"}
  BY DEF ProtoOATrader
<1>2. /\ IsScalar(ProtoOATrader.ctidTraderAccountId, 8)
      /\ IsScalar(ProtoOATrader.balance, 16) /\ IsScalar(ProtoOATrader.balanceVersion, 24)
      /\ IsScalar(ProtoOATrader.managerBonus, 32) /\ IsScalar(ProtoOATrader.ibBonus, 40)
      /\ IsScalar(ProtoOATrader.nonWithdrawableBonus, 48)
      /\ IsScalar(ProtoOATrader.accessRights, 56)
      /\ IsScalar(ProtoOATrader.depositAssetId, 64) /\ IsScalar(ProtoOATrader.swapFree, 72)
      /\ IsScalar(ProtoOATrader.leverageInCents, 80)
      /\ IsScalar(ProtoOATrader.totalMarginCalculationType, 88)
      /\ IsScalar(ProtoOATrader.maxLeverage, 96) /\ IsScalar(ProtoOATrader.frenchRisk, 104)
      /\ IsScalar(ProtoOATrader.traderLogin, 112)
      /\ IsScalar(ProtoOATrader.accountType, 120) /\ IsScalar(ProtoOATrader.brokerName, 130)
      /\ IsScalar(ProtoOATrader.registrationTimestamp, 136)
      /\ IsScalar(ProtoOATrader.isLimitedRisk, 144)
      /\ IsScalar(ProtoOATrader.limitedRiskMarginCalculationStrategy, 152)
      /\ IsScalar(ProtoOATrader.moneyDigits, 160)
      /\ IsScalar(ProtoOATrader.fairStopOut, 168)
      /\ IsScalar(ProtoOATrader.stopOutStrategy, 176)
  BY DEF ProtoOATrader, Required, Optional, Field, IsScalar
<1>3. TagsDiffer(ProtoOATrader)
  BY <1>1, <1>2 DEF TagsDiffer, IsScalar
<1>. QED BY <1>1, <1>2, <1>3 DEF Unnested, WellMade, Nests, IsScalar

LEMMA ProtoOAAssetUnnested == Unnested(ProtoOAAsset)
<1>1. DOMAIN ProtoOAAsset = {"assetId", "name", "displayName", "digits"}
  BY DEF ProtoOAAsset
<1>2. /\ IsScalar(ProtoOAAsset.assetId, 8) /\ IsScalar(ProtoOAAsset.name, 18)
      /\ IsScalar(ProtoOAAsset.displayName, 26) /\ IsScalar(ProtoOAAsset.digits, 32)
  BY DEF ProtoOAAsset, Required, Optional, Field, IsScalar
<1>3. TagsDiffer(ProtoOAAsset)
  BY <1>1, <1>2 DEF TagsDiffer, IsScalar
<1>. QED BY <1>1, <1>2, <1>3 DEF Unnested, WellMade, Nests, IsScalar

LEMMA ProtoOAExpectedMarginUnnested == Unnested(ProtoOAExpectedMargin)
BY DEF ProtoOAExpectedMargin, Required, Field, Unnested, WellMade, TagsDiffer, Nests

LEMMA ProtoOAPositionUnrealizedPnLUnnested == Unnested(ProtoOAPositionUnrealizedPnL)
BY DEF ProtoOAPositionUnrealizedPnL, Required, Field, Unnested, WellMade, TagsDiffer, Nests

LEMMA ProtoOAMarginCallUnnested == Unnested(ProtoOAMarginCall)
BY DEF ProtoOAMarginCall, Required, Optional, Field, Unnested, WellMade, TagsDiffer, Nests

LEMMA ProtoOAClosePositionDetailUnnested == Unnested(ProtoOAClosePositionDetail)
BY DEF ProtoOAClosePositionDetail, Required, Optional, Field, Unnested, WellMade, TagsDiffer,
       Nests

LEMMA ProtoOADepositWithdrawUnnested == Unnested(ProtoOADepositWithdraw)
<1>1. DOMAIN ProtoOADepositWithdraw = {"operationType", "balanceHistoryId", "balance",
          "delta", "changeBalanceTimestamp", "externalNote", "balanceVersion", "equity",
          "moneyDigits"}
  BY DEF ProtoOADepositWithdraw
<1>2. /\ IsScalar(ProtoOADepositWithdraw.operationType, 8)
      /\ IsScalar(ProtoOADepositWithdraw.balanceHistoryId, 16)
      /\ IsScalar(ProtoOADepositWithdraw.balance, 24)
      /\ IsScalar(ProtoOADepositWithdraw.delta, 32)
      /\ IsScalar(ProtoOADepositWithdraw.changeBalanceTimestamp, 40)
      /\ IsScalar(ProtoOADepositWithdraw.externalNote, 50)
      /\ IsScalar(ProtoOADepositWithdraw.balanceVersion, 56)
      /\ IsScalar(ProtoOADepositWithdraw.equity, 64)
      /\ IsScalar(ProtoOADepositWithdraw.moneyDigits, 72)
  BY DEF ProtoOADepositWithdraw, Required, Optional, Field, IsScalar
<1>3. TagsDiffer(ProtoOADepositWithdraw)
  BY <1>1, <1>2 DEF TagsDiffer, IsScalar
<1>. QED BY <1>1, <1>2, <1>3 DEF Unnested, WellMade, Nests, IsScalar

LEMMA ProtoOATrendbarUnnested == Unnested(ProtoOATrendbar)
BY DEF ProtoOATrendbar, Required, Optional, Field, Unnested, WellMade, TagsDiffer, Nests

LEMMA ProtoOATickDataUnnested == Unnested(ProtoOATickData)
BY DEF ProtoOATickData, Required, Field, Unnested, WellMade, TagsDiffer, Nests

LEMMA ProtoOALightSymbolUnnested == Unnested(ProtoOALightSymbol)
<1>1. DOMAIN ProtoOALightSymbol = {"symbolId", "symbolName", "enabled", "baseAssetId",
          "quoteAssetId", "symbolCategoryId", "description", "sortingNumber"}
  BY DEF ProtoOALightSymbol
<1>2. /\ IsScalar(ProtoOALightSymbol.symbolId, 8)
      /\ IsScalar(ProtoOALightSymbol.symbolName, 18)
      /\ IsScalar(ProtoOALightSymbol.enabled, 24)
      /\ IsScalar(ProtoOALightSymbol.baseAssetId, 32)
      /\ IsScalar(ProtoOALightSymbol.quoteAssetId, 40)
      /\ IsScalar(ProtoOALightSymbol.symbolCategoryId, 48)
      /\ IsScalar(ProtoOALightSymbol.description, 58)
      /\ IsScalar(ProtoOALightSymbol.sortingNumber, 65)
  BY DEF ProtoOALightSymbol, Required, Optional, Field, IsScalar
<1>3. TagsDiffer(ProtoOALightSymbol)
  BY <1>1, <1>2 DEF TagsDiffer, IsScalar
<1>. QED BY <1>1, <1>2, <1>3 DEF Unnested, WellMade, Nests, IsScalar

LEMMA ProtoOAArchivedSymbolUnnested == Unnested(ProtoOAArchivedSymbol)
<1>1. DOMAIN ProtoOAArchivedSymbol = {"symbolId", "name", "utcLastUpdateTimestamp",
          "description"}
  BY DEF ProtoOAArchivedSymbol
<1>2. /\ IsScalar(ProtoOAArchivedSymbol.symbolId, 8)
      /\ IsScalar(ProtoOAArchivedSymbol.name, 18)
      /\ IsScalar(ProtoOAArchivedSymbol.utcLastUpdateTimestamp, 24)
      /\ IsScalar(ProtoOAArchivedSymbol.description, 34)
  BY DEF ProtoOAArchivedSymbol, Required, Optional, Field, IsScalar
<1>3. TagsDiffer(ProtoOAArchivedSymbol)
  BY <1>1, <1>2 DEF TagsDiffer, IsScalar
<1>. QED BY <1>1, <1>2, <1>3 DEF Unnested, WellMade, Nests, IsScalar

LEMMA ProtoOAIntervalUnnested == Unnested(ProtoOAInterval)
BY DEF ProtoOAInterval, Required, Field, Unnested, WellMade, TagsDiffer, Nests

LEMMA ProtoOAHolidayUnnested == Unnested(ProtoOAHoliday)
<1>1. DOMAIN ProtoOAHoliday = {"holidayId", "name", "description", "scheduleTimeZone",
          "holidayDate", "isRecurring", "startSecond", "endSecond"}
  BY DEF ProtoOAHoliday
<1>2. /\ IsScalar(ProtoOAHoliday.holidayId, 8) /\ IsScalar(ProtoOAHoliday.name, 18)
      /\ IsScalar(ProtoOAHoliday.description, 26)
      /\ IsScalar(ProtoOAHoliday.scheduleTimeZone, 34)
      /\ IsScalar(ProtoOAHoliday.holidayDate, 40)
      /\ IsScalar(ProtoOAHoliday.isRecurring, 48)
      /\ IsScalar(ProtoOAHoliday.startSecond, 56) /\ IsScalar(ProtoOAHoliday.endSecond, 64)
  BY DEF ProtoOAHoliday, Required, Optional, Field, IsScalar
<1>3. TagsDiffer(ProtoOAHoliday)
  BY <1>1, <1>2 DEF TagsDiffer, IsScalar
<1>. QED BY <1>1, <1>2, <1>3 DEF Unnested, WellMade, Nests, IsScalar

LEMMA ProtoOACtidTraderAccountUnnested == Unnested(ProtoOACtidTraderAccount)
<1>1. DOMAIN ProtoOACtidTraderAccount = {"ctidTraderAccountId", "isLive", "traderLogin",
          "lastClosingDealTimestamp", "lastBalanceUpdateTimestamp", "brokerTitleShort"}
  BY DEF ProtoOACtidTraderAccount
<1>2. /\ IsScalar(ProtoOACtidTraderAccount.ctidTraderAccountId, 8)
      /\ IsScalar(ProtoOACtidTraderAccount.isLive, 16)
      /\ IsScalar(ProtoOACtidTraderAccount.traderLogin, 24)
      /\ IsScalar(ProtoOACtidTraderAccount.lastClosingDealTimestamp, 32)
      /\ IsScalar(ProtoOACtidTraderAccount.lastBalanceUpdateTimestamp, 40)
      /\ IsScalar(ProtoOACtidTraderAccount.brokerTitleShort, 50)
  BY DEF ProtoOACtidTraderAccount, Required, Optional, Field, IsScalar
<1>3. TagsDiffer(ProtoOACtidTraderAccount)
  BY <1>1, <1>2 DEF TagsDiffer, IsScalar
<1>. QED BY <1>1, <1>2, <1>3 DEF Unnested, WellMade, Nests, IsScalar

LEMMA ProtoOADepthQuoteUnnested == Unnested(ProtoOADepthQuote)
BY DEF ProtoOADepthQuote, Required, Optional, Field, Unnested, WellMade, TagsDiffer, Nests

LEMMA ProtoOATradeDataUnnested == Unnested(ProtoOATradeData)
<1>1. DOMAIN ProtoOATradeData = {"symbolId", "volume", "tradeSide", "openTimestamp",
          "label", "guaranteedStopLoss", "comment", "measurementUnits", "closeTimestamp"}
  BY DEF ProtoOATradeData
<1>2. /\ IsScalar(ProtoOATradeData.symbolId, 8) /\ IsScalar(ProtoOATradeData.volume, 16)
      /\ IsScalar(ProtoOATradeData.tradeSide, 24)
      /\ IsScalar(ProtoOATradeData.openTimestamp, 32)
      /\ IsScalar(ProtoOATradeData.label, 42)
      /\ IsScalar(ProtoOATradeData.guaranteedStopLoss, 48)
      /\ IsScalar(ProtoOATradeData.comment, 58)
      /\ IsScalar(ProtoOATradeData.measurementUnits, 66)
      /\ IsScalar(ProtoOATradeData.closeTimestamp, 72)
  BY DEF ProtoOATradeData, Required, Optional, Field, IsScalar
<1>3. TagsDiffer(ProtoOATradeData)
  BY <1>1, <1>2 DEF TagsDiffer, IsScalar
<1>. QED BY <1>1, <1>2, <1>3 DEF Unnested, WellMade, Nests, IsScalar

LEMMA ProtoOADealInside == WellMadeInside(ProtoOADeal)
<1>1. DOMAIN ProtoOADeal = {"dealId", "orderId", "positionId", "volume", "filledVolume",
          "symbolId", "createTimestamp", "executionTimestamp", "utcLastUpdateTimestamp",
          "executionPrice", "tradeSide", "dealStatus", "marginRate", "commission",
          "baseToUsdConversionRate", "closePositionDetail", "moneyDigits"}
  BY DEF ProtoOADeal
<1>2. /\ IsScalar(ProtoOADeal.dealId, 8) /\ IsScalar(ProtoOADeal.orderId, 16)
      /\ IsScalar(ProtoOADeal.positionId, 24) /\ IsScalar(ProtoOADeal.volume, 32)
      /\ IsScalar(ProtoOADeal.filledVolume, 40) /\ IsScalar(ProtoOADeal.symbolId, 48)
      /\ IsScalar(ProtoOADeal.createTimestamp, 56)
      /\ IsScalar(ProtoOADeal.executionTimestamp, 64)
      /\ IsScalar(ProtoOADeal.utcLastUpdateTimestamp, 72)
      /\ IsScalar(ProtoOADeal.executionPrice, 81) /\ IsScalar(ProtoOADeal.tradeSide, 88)
      /\ IsScalar(ProtoOADeal.dealStatus, 96) /\ IsScalar(ProtoOADeal.marginRate, 105)
      /\ IsScalar(ProtoOADeal.commission, 112)
      /\ IsScalar(ProtoOADeal.baseToUsdConversionRate, 121)
      /\ IsMessage(ProtoOADeal.closePositionDetail, 130)
      /\ IsScalar(ProtoOADeal.moneyDigits, 136)
      /\ ProtoOADeal.closePositionDetail.of = ProtoOAClosePositionDetail
  BY DEF ProtoOADeal, Required, Optional, Message, Field, IsScalar, IsMessage
<1>3. TagsDiffer(ProtoOADeal)
  BY <1>1, <1>2 DEF TagsDiffer, IsScalar, IsMessage
<1>4. WellMade(ProtoOADeal)
  BY <1>1, <1>2, <1>3 DEF WellMade, IsScalar, IsMessage
<1>. QED BY <1>1, <1>2, <1>4, ProtoOAClosePositionDetailUnnested
     DEF WellMadeInside, Nests, Unnested, IsScalar, IsMessage

LEMMA ProtoOASymbolInside == WellMadeInside(ProtoOASymbol)
<1> DEFINE Early == {"symbolId", "digits", "pipPosition", "enableShortSelling",
               "guaranteedStopLoss", "swapRollover3Days", "swapLong", "swapShort",
               "maxVolume", "minVolume", "stepVolume", "maxExposure", "commission"}
           Middle == {"commissionType", "slDistance", "tpDistance", "gslDistance",
               "gslCharge", "distanceSetIn", "minCommission", "minCommissionType",
               "minCommissionAsset", "rolloverCommission", "skipRolloverDays",
               "scheduleTimeZone", "tradingMode"}
           Late == {"rolloverCommission3Days", "swapCalculationType", "lotSize",
               "preciseTradingCommissionRate", "preciseMinCommission",
               "pnlConversionFeeRate", "leverageId", "swapPeriod", "swapTime",
               "skipSWAPPeriods", "chargeSwapAtWeekends", "measurementUnits"}
           Nested == {"schedule", "holiday"}
<1>1. DOMAIN ProtoOASymbol = Early \cup Middle \cup Late \cup Nested
  BY DEF ProtoOASymbol
<1>2. /\ IsScalar(ProtoOASymbol.symbolId, 8) /\ IsScalar(ProtoOASymbol.digits, 16)
      /\ IsScalar(ProtoOASymbol.pipPosition, 24)
      /\ IsScalar(ProtoOASymbol.enableShortSelling, 32)
      /\ IsScalar(ProtoOASymbol.guaranteedStopLoss, 40)
      /\ IsScalar(ProtoOASymbol.swapRollover3Days, 48)
      /\ IsScalar(ProtoOASymbol.swapLong, 57) /\ IsScalar(ProtoOASymbol.swapShort, 65)
      /\ IsScalar(ProtoOASymbol.maxVolume, 72) /\ IsScalar(ProtoOASymbol.minVolume, 80)
      /\ IsScalar(ProtoOASymbol.stepVolume, 88) /\ IsScalar(ProtoOASymbol.maxExposure, 96)
      /\ IsScalar(ProtoOASymbol.commission, 112)
  BY DEF ProtoOASymbol, Required, Optional, Field, IsScalar
<1>3. /\ IsScalar(ProtoOASymbol.commissionType, 120)
      /\ IsScalar(ProtoOASymbol.slDistance, 128) /\ IsScalar(ProtoOASymbol.tpDistance, 136)
      /\ IsScalar(ProtoOASymbol.gslDistance, 144) /\ IsScalar(ProtoOASymbol.gslCharge, 152)
      /\ IsScalar(ProtoOASymbol.distanceSetIn, 160)
      /\ IsScalar(ProtoOASymbol.minCommission, 168)
      /\ IsScalar(ProtoOASymbol.minCommissionType, 176)
      /\ IsScalar(ProtoOASymbol.minCommissionAsset, 186)
      /\ IsScalar(ProtoOASymbol.rolloverCommission, 192)
      /\ IsScalar(ProtoOASymbol.skipRolloverDays, 200)
      /\ IsScalar(ProtoOASymbol.scheduleTimeZone, 210)
      /\ IsScalar(ProtoOASymbol.tradingMode, 216)
  BY DEF ProtoOASymbol, Optional, Field, IsScalar
<1>4. /\ IsScalar(ProtoOASymbol.rolloverCommission3Days, 224)
      /\ IsScalar(ProtoOASymbol.swapCalculationType, 232)
      /\ IsScalar(ProtoOASymbol.lotSize, 240)
      /\ IsScalar(ProtoOASymbol.preciseTradingCommissionRate, 248)
      /\ IsScalar(ProtoOASymbol.preciseMinCommission, 256)
      /\ IsScalar(ProtoOASymbol.pnlConversionFeeRate, 272)
      /\ IsScalar(ProtoOASymbol.leverageId, 280) /\ IsScalar(ProtoOASymbol.swapPeriod, 288)
      /\ IsScalar(ProtoOASymbol.swapTime, 296)
      /\ IsScalar(ProtoOASymbol.skipSWAPPeriods, 304)
      /\ IsScalar(ProtoOASymbol.chargeSwapAtWeekends, 312)
      /\ IsScalar(ProtoOASymbol.measurementUnits, 322)
  BY DEF ProtoOASymbol, Optional, Field, IsScalar
<1>5. /\ AreMessages(ProtoOASymbol.schedule, 106) /\ ProtoOASymbol.schedule.of = ProtoOAInterval
      /\ AreMessages(ProtoOASymbol.holiday, 266) /\ ProtoOASymbol.holiday.of = ProtoOAHoliday
  BY DEF ProtoOASymbol, Messages, Field, AreMessages
<1>6. \A f \in Early :
        /\ ProtoOASymbol[f].kind = "scalar" /\ ProtoOASymbol[f].tag \in Int
        /\ 8 <= ProtoOASymbol[f].tag /\ ProtoOASymbol[f].tag <= 112
        /\ ProtoOASymbol[f].tag # 106
  BY <1>2 DEF IsScalar
<1>9. \A f, g \in Early : ProtoOASymbol[f].tag = ProtoOASymbol[g].tag => f = g
  BY <1>2 DEF IsScalar
<1>7. \A f \in Middle :
        /\ ProtoOASymbol[f].kind = "scalar" /\ ProtoOASymbol[f].tag \in Int
        /\ 120 <= ProtoOASymbol[f].tag /\ ProtoOASymbol[f].tag <= 216
  BY <1>3 DEF IsScalar
<1>10. \A f, g \in Middle : ProtoOASymbol[f].tag = ProtoOASymbol[g].tag => f = g
  BY <1>3 DEF IsScalar
<1>8. \A f \in Late :
        /\ ProtoOASymbol[f].kind = "scalar" /\ ProtoOASymbol[f].tag \in Int
        /\ 224 <= ProtoOASymbol[f].tag /\ ProtoOASymbol[f].tag <= 322
        /\ ProtoOASymbol[f].tag # 266
  BY <1>4 DEF IsScalar
<1>11. \A f, g \in Late : ProtoOASymbol[f].tag = ProtoOASymbol[g].tag => f = g
  BY <1>4 DEF IsScalar
<1>12. \A f \in Nested :
        /\ AreMessages(ProtoOASymbol[f], ProtoOASymbol[f].tag)
        /\ WellMade(ProtoOASymbol[f].of) /\ ProtoOASymbol[f].tag \in {106, 266}
  BY <1>5, ProtoOAHolidayUnnested, ProtoOAIntervalUnnested DEF AreMessages, Unnested
<1>13. \A f, g \in Nested : ProtoOASymbol[f].tag = ProtoOASymbol[g].tag => f = g
  BY <1>5 DEF AreMessages
<1> HIDE DEF Early, Middle, Late, Nested
<1>14. ASSUME NEW f \in DOMAIN ProtoOASymbol, NEW g \in DOMAIN ProtoOASymbol,
             ProtoOASymbol[f].tag = ProtoOASymbol[g].tag
      PROVE  f = g
  <2>1. CASE f \in Early
    BY <1>1, <1>6, <1>7, <1>8, <1>9, <1>12, <1>14, <2>1
  <2>2. CASE f \in Middle
    BY <1>1, <1>6, <1>7, <1>8, <1>10, <1>12, <1>14, <2>2
  <2>3. CASE f \in Late
    BY <1>1, <1>6, <1>7, <1>8, <1>11, <1>12, <1>14, <2>3
  <2>4. CASE f \in Nested
    BY <1>1, <1>6, <1>7, <1>8, <1>12, <1>13, <1>14, <2>4
  <2>. QED BY <1>1, <2>1, <2>2, <2>3, <2>4
<1>15. WellMade(ProtoOASymbol)
  BY <1>1, <1>6, <1>7, <1>8, <1>12, <1>14 DEF WellMade, TagsDiffer, AreMessages
<1>. QED BY <1>1, <1>6, <1>7, <1>8, <1>12, <1>15 DEF WellMadeInside, Nests

LEMMA ProtoOAPositionInside == WellMadeInside(ProtoOAPosition)
<1>1. \A f \in DOMAIN ProtoOAPosition : Nests(ProtoOAPosition[f]) =>
        ProtoOAPosition[f].of = ProtoOATradeData
  BY DEF ProtoOAPosition, Required, RequiredMessage, Optional, Field, Nests
<1>. QED BY <1>1, ProtoOAPositionWellMade, ProtoOATradeDataUnnested DEF WellMadeInside, Unnested

LEMMA ProtoOAOrderInside == WellMadeInside(ProtoOAOrder)
<1>1. DOMAIN ProtoOAOrder = {"orderId", "tradeData", "orderType", "orderStatus",
          "expirationTimestamp", "executionPrice", "executedVolume",
          "utcLastUpdateTimestamp", "baseSlippagePrice", "slippageInPoints", "closingOrder",
          "limitPrice", "stopPrice", "stopLoss", "takeProfit", "clientOrderId",
          "timeInForce", "positionId", "relativeStopLoss", "relativeTakeProfit",
          "isStopOut", "trailingStopLoss", "stopTriggerMethod"}
  BY DEF ProtoOAOrder
<1>2. /\ IsScalar(ProtoOAOrder.orderId, 8) /\ IsMessage(ProtoOAOrder.tradeData, 18)
      /\ ProtoOAOrder.tradeData.of = ProtoOATradeData
      /\ IsScalar(ProtoOAOrder.orderType, 24) /\ IsScalar(ProtoOAOrder.orderStatus, 32)
      /\ IsScalar(ProtoOAOrder.expirationTimestamp, 48)
      /\ IsScalar(ProtoOAOrder.executionPrice, 57)
      /\ IsScalar(ProtoOAOrder.executedVolume, 64)
      /\ IsScalar(ProtoOAOrder.utcLastUpdateTimestamp, 72)
      /\ IsScalar(ProtoOAOrder.baseSlippagePrice, 81)
      /\ IsScalar(ProtoOAOrder.slippageInPoints, 88)
      /\ IsScalar(ProtoOAOrder.closingOrder, 96) /\ IsScalar(ProtoOAOrder.limitPrice, 105)
      /\ IsScalar(ProtoOAOrder.stopPrice, 113) /\ IsScalar(ProtoOAOrder.stopLoss, 121)
      /\ IsScalar(ProtoOAOrder.takeProfit, 129) /\ IsScalar(ProtoOAOrder.clientOrderId, 138)
      /\ IsScalar(ProtoOAOrder.timeInForce, 144) /\ IsScalar(ProtoOAOrder.positionId, 152)
      /\ IsScalar(ProtoOAOrder.relativeStopLoss, 160)
      /\ IsScalar(ProtoOAOrder.relativeTakeProfit, 168)
      /\ IsScalar(ProtoOAOrder.isStopOut, 176)
      /\ IsScalar(ProtoOAOrder.trailingStopLoss, 184)
      /\ IsScalar(ProtoOAOrder.stopTriggerMethod, 192)
  BY DEF ProtoOAOrder, Required, RequiredMessage, Optional, Field, IsScalar, IsMessage
<1>3. TagsDiffer(ProtoOAOrder)
  BY <1>1, <1>2 DEF TagsDiffer, IsScalar, IsMessage
<1>4. WellMade(ProtoOAOrder)
  BY <1>1, <1>2, <1>3 DEF WellMade, IsScalar, IsMessage
<1>. QED BY <1>1, <1>2, <1>4, ProtoOATradeDataUnnested
     DEF WellMadeInside, Nests, Unnested, IsScalar, IsMessage

LEMMA ProtoOAAccountsTokenInvalidatedEventUnnested ==
    Unnested(ProtoOAAccountsTokenInvalidatedEvent)
<1>1. DOMAIN ProtoOAAccountsTokenInvalidatedEvent = {"payloadType", "ctidTraderAccountIds",
          "reason"}
  BY DEF ProtoOAAccountsTokenInvalidatedEvent
<1>2. /\ IsScalar(ProtoOAAccountsTokenInvalidatedEvent.payloadType, 8)
      /\ AreScalars(ProtoOAAccountsTokenInvalidatedEvent.ctidTraderAccountIds, 16)
      /\ IsScalar(ProtoOAAccountsTokenInvalidatedEvent.reason, 26)
  BY DEF ProtoOAAccountsTokenInvalidatedEvent, Optional, Repeated, Field, IsScalar, AreScalars
<1>3. TagsDiffer(ProtoOAAccountsTokenInvalidatedEvent)
  BY <1>1, <1>2 DEF TagsDiffer, IsScalar, AreScalars
<1>. QED BY <1>1, <1>2, <1>3 DEF Unnested, WellMade, Nests, IsScalar, AreScalars

LEMMA ProtoOAMarginChangedEventUnnested == Unnested(ProtoOAMarginChangedEvent)
BY DEF ProtoOAMarginChangedEvent, Optional, Required, Field, Unnested, WellMade, TagsDiffer,
       Nests

LEMMA ProtoOATrailingSLChangedEventUnnested == Unnested(ProtoOATrailingSLChangedEvent)
BY DEF ProtoOATrailingSLChangedEvent, Optional, Required, Field, Unnested, WellMade,
       TagsDiffer, Nests

LEMMA ProtoOAErrorResUnnested == Unnested(ProtoOAErrorRes)
<1>1. DOMAIN ProtoOAErrorRes = {"payloadType", "ctidTraderAccountId", "errorCode",
          "description", "maintenanceEndTimestamp", "retryAfter"}
  BY DEF ProtoOAErrorRes
<1>2. /\ IsScalar(ProtoOAErrorRes.payloadType, 8)
      /\ IsScalar(ProtoOAErrorRes.ctidTraderAccountId, 16)
      /\ IsScalar(ProtoOAErrorRes.errorCode, 26)
      /\ IsScalar(ProtoOAErrorRes.description, 34)
      /\ IsScalar(ProtoOAErrorRes.maintenanceEndTimestamp, 40)
      /\ IsScalar(ProtoOAErrorRes.retryAfter, 48)
  BY DEF ProtoOAErrorRes, Optional, Required, Field, IsScalar
<1>3. TagsDiffer(ProtoOAErrorRes)
  BY <1>1, <1>2 DEF TagsDiffer, IsScalar
<1>. QED BY <1>1, <1>2, <1>3 DEF Unnested, WellMade, Nests, IsScalar

LEMMA ProtoOAOrderErrorEventUnnested == Unnested(ProtoOAOrderErrorEvent)
<1>1. DOMAIN ProtoOAOrderErrorEvent = {"payloadType", "ctidTraderAccountId", "errorCode",
          "orderId", "positionId", "description"}
  BY DEF ProtoOAOrderErrorEvent
<1>2. /\ IsScalar(ProtoOAOrderErrorEvent.payloadType, 8)
      /\ IsScalar(ProtoOAOrderErrorEvent.ctidTraderAccountId, 40)
      /\ IsScalar(ProtoOAOrderErrorEvent.errorCode, 18)
      /\ IsScalar(ProtoOAOrderErrorEvent.orderId, 24)
      /\ IsScalar(ProtoOAOrderErrorEvent.positionId, 48)
      /\ IsScalar(ProtoOAOrderErrorEvent.description, 58)
  BY DEF ProtoOAOrderErrorEvent, Optional, Required, Field, IsScalar
<1>3. TagsDiffer(ProtoOAOrderErrorEvent)
  BY <1>1, <1>2 DEF TagsDiffer, IsScalar
<1>. QED BY <1>1, <1>2, <1>3 DEF Unnested, WellMade, Nests, IsScalar

LEMMA ProtoErrorResUnnested == Unnested(ProtoErrorRes)
<1>1. DOMAIN ProtoErrorRes = {"payloadType", "errorCode", "description",
          "maintenanceEndTimestamp"}
  BY DEF ProtoErrorRes
<1>2. /\ IsScalar(ProtoErrorRes.payloadType, 8) /\ IsScalar(ProtoErrorRes.errorCode, 18)
      /\ IsScalar(ProtoErrorRes.description, 26)
      /\ IsScalar(ProtoErrorRes.maintenanceEndTimestamp, 32)
  BY DEF ProtoErrorRes, Optional, Required, Field, IsScalar
<1>3. TagsDiffer(ProtoErrorRes)
  BY <1>1, <1>2 DEF TagsDiffer, IsScalar
<1>. QED BY <1>1, <1>2, <1>3 DEF Unnested, WellMade, Nests, IsScalar

LEMMA AcknowledgementUnnested == Unnested(Acknowledgement)
BY DEF Acknowledgement, Required, Field, Unnested, WellMade, TagsDiffer, Nests

LEMMA ProtoOAReconcileResThroughout == WellMadeThroughout(ProtoOAReconcileRes)
<1>1. WellMadeInside(ProtoOAPosition) /\ WellMadeInside(ProtoOAOrder)
  BY ProtoOAPositionInside, ProtoOAOrderInside
<1>. QED BY <1>1 DEF ProtoOAReconcileRes, Optional, Required, Messages, Field,
         WellMadeThroughout, WellMade, TagsDiffer, Nests

LEMMA ProtoOATraderResThroughout == WellMadeThroughout(ProtoOATraderRes)
<1>1. WellMadeInside(ProtoOATrader)
  BY ProtoOATraderUnnested, UnnestedIsInside
<1>. QED BY <1>1 DEF ProtoOATraderRes, Optional, Required, RequiredMessage, Field,
         WellMadeThroughout, WellMade, TagsDiffer, Nests

LEMMA ProtoOAAssetListResThroughout == WellMadeThroughout(ProtoOAAssetListRes)
<1>1. WellMadeInside(ProtoOAAsset)
  BY ProtoOAAssetUnnested, UnnestedIsInside
<1>. QED BY <1>1 DEF ProtoOAAssetListRes, Optional, Required, Messages, Field,
         WellMadeThroughout, WellMade, TagsDiffer, Nests

LEMMA ProtoOAExpectedMarginResThroughout == WellMadeThroughout(ProtoOAExpectedMarginRes)
<1>1. WellMadeInside(ProtoOAExpectedMargin)
  BY ProtoOAExpectedMarginUnnested, UnnestedIsInside
<1>. QED BY <1>1 DEF ProtoOAExpectedMarginRes, Optional, Required, Messages, Field,
         WellMadeThroughout, WellMade, TagsDiffer, Nests

LEMMA ProtoOAGetPositionUnrealizedPnLResThroughout ==
    WellMadeThroughout(ProtoOAGetPositionUnrealizedPnLRes)
<1>1. WellMadeInside(ProtoOAPositionUnrealizedPnL)
  BY ProtoOAPositionUnrealizedPnLUnnested, UnnestedIsInside
<1>. QED BY <1>1 DEF ProtoOAGetPositionUnrealizedPnLRes, Optional, Required, Messages,
         Field, WellMadeThroughout, WellMade, TagsDiffer, Nests

LEMMA ProtoOAMarginCallListResThroughout == WellMadeThroughout(ProtoOAMarginCallListRes)
<1>1. WellMadeInside(ProtoOAMarginCall)
  BY ProtoOAMarginCallUnnested, UnnestedIsInside
<1>. QED BY <1>1 DEF ProtoOAMarginCallListRes, Optional, Messages, Field,
         WellMadeThroughout, WellMade, TagsDiffer, Nests

LEMMA ProtoOADealListResThroughout == WellMadeThroughout(ProtoOADealListRes)
<1>1. WellMadeInside(ProtoOADeal)
  BY ProtoOADealInside
<1>. QED BY <1>1 DEF ProtoOADealListRes, Optional, Required, Messages, Field,
         WellMadeThroughout, WellMade, TagsDiffer, Nests

LEMMA ProtoOADealListByPositionIdResThroughout ==
    WellMadeThroughout(ProtoOADealListByPositionIdRes)
<1>1. WellMadeInside(ProtoOADeal)
  BY ProtoOADealInside
<1>. QED BY <1>1 DEF ProtoOADealListByPositionIdRes, Optional, Required, Messages, Field,
         WellMadeThroughout, WellMade, TagsDiffer, Nests

LEMMA ProtoOAOrderListResThroughout == WellMadeThroughout(ProtoOAOrderListRes)
<1>1. WellMadeInside(ProtoOAOrder)
  BY ProtoOAOrderInside
<1>. QED BY <1>1 DEF ProtoOAOrderListRes, Optional, Required, Messages, Field,
         WellMadeThroughout, WellMade, TagsDiffer, Nests

LEMMA ProtoOACashFlowHistoryListResThroughout ==
    WellMadeThroughout(ProtoOACashFlowHistoryListRes)
<1>1. WellMadeInside(ProtoOADepositWithdraw)
  BY ProtoOADepositWithdrawUnnested, UnnestedIsInside
<1>. QED BY <1>1 DEF ProtoOACashFlowHistoryListRes, Optional, Required, Messages, Field,
         WellMadeThroughout, WellMade, TagsDiffer, Nests

LEMMA ProtoOAGetTrendbarsResThroughout == WellMadeThroughout(ProtoOAGetTrendbarsRes)
<1>1. WellMadeInside(ProtoOATrendbar)
  BY ProtoOATrendbarUnnested, UnnestedIsInside
<1>. QED BY <1>1 DEF ProtoOAGetTrendbarsRes, Optional, Required, Messages, Field,
         WellMadeThroughout, WellMade, TagsDiffer, Nests

LEMMA ProtoOAGetTickDataResThroughout == WellMadeThroughout(ProtoOAGetTickDataRes)
<1>1. WellMadeInside(ProtoOATickData)
  BY ProtoOATickDataUnnested, UnnestedIsInside
<1>. QED BY <1>1 DEF ProtoOAGetTickDataRes, Optional, Required, Messages, Field,
         WellMadeThroughout, WellMade, TagsDiffer, Nests

LEMMA ProtoOASymbolsListResThroughout == WellMadeThroughout(ProtoOASymbolsListRes)
<1>1. WellMadeInside(ProtoOALightSymbol) /\ WellMadeInside(ProtoOAArchivedSymbol)
  BY ProtoOALightSymbolUnnested, ProtoOAArchivedSymbolUnnested, UnnestedIsInside
<1>. QED BY <1>1 DEF ProtoOASymbolsListRes, Optional, Required, Messages, Field,
         WellMadeThroughout, WellMade, TagsDiffer, Nests

LEMMA ProtoOASymbolByIdResThroughout == WellMadeThroughout(ProtoOASymbolByIdRes)
<1>1. WellMadeInside(ProtoOASymbol) /\ WellMadeInside(ProtoOAArchivedSymbol)
  BY ProtoOASymbolInside, ProtoOAArchivedSymbolUnnested, UnnestedIsInside
<1>. QED BY <1>1 DEF ProtoOASymbolByIdRes, Optional, Required, Messages, Field,
         WellMadeThroughout, WellMade, TagsDiffer, Nests

LEMMA ProtoOAGetAccountListByAccessTokenResThroughout ==
    WellMadeThroughout(ProtoOAGetAccountListByAccessTokenRes)
<1>1. DOMAIN ProtoOAGetAccountListByAccessTokenRes = {"payloadType", "accessToken",
          "permissionScope", "ctidTraderAccount"}
  BY DEF ProtoOAGetAccountListByAccessTokenRes
<1>2. /\ IsScalar(ProtoOAGetAccountListByAccessTokenRes.payloadType, 8)
      /\ IsScalar(ProtoOAGetAccountListByAccessTokenRes.accessToken, 18)
      /\ IsScalar(ProtoOAGetAccountListByAccessTokenRes.permissionScope, 24)
      /\ AreMessages(ProtoOAGetAccountListByAccessTokenRes.ctidTraderAccount, 34)
      /\ ProtoOAGetAccountListByAccessTokenRes.ctidTraderAccount.of = ProtoOACtidTraderAccount
  BY DEF ProtoOAGetAccountListByAccessTokenRes, Optional, Required, Messages, Field,
         IsScalar, AreMessages
<1>3. TagsDiffer(ProtoOAGetAccountListByAccessTokenRes)
  BY <1>1, <1>2 DEF TagsDiffer, IsScalar, AreMessages
<1>4. WellMade(ProtoOAGetAccountListByAccessTokenRes)
  BY <1>1, <1>2, <1>3 DEF WellMade, IsScalar, AreMessages
<1>5. WellMadeInside(ProtoOACtidTraderAccount)
  BY ProtoOACtidTraderAccountUnnested, UnnestedIsInside
<1>. QED BY <1>1, <1>2, <1>4, <1>5 DEF WellMadeThroughout, Nests, IsScalar, AreMessages

LEMMA ProtoOASpotEventThroughout == WellMadeThroughout(ProtoOASpotEvent)
<1>1. WellMadeInside(ProtoOATrendbar)
  BY ProtoOATrendbarUnnested, UnnestedIsInside
<1>. QED BY <1>1 DEF ProtoOASpotEvent, Optional, Required, Messages, Field,
         WellMadeThroughout, WellMade, TagsDiffer, Nests

LEMMA ProtoOADepthEventThroughout == WellMadeThroughout(ProtoOADepthEvent)
<1>1. WellMadeInside(ProtoOADepthQuote)
  BY ProtoOADepthQuoteUnnested, UnnestedIsInside
<1>. QED BY <1>1 DEF ProtoOADepthEvent, Optional, Required, Messages, Repeated, Field,
         WellMadeThroughout, WellMade, TagsDiffer, Nests

LEMMA ProtoOATraderUpdatedEventThroughout == WellMadeThroughout(ProtoOATraderUpdatedEvent)
<1>1. WellMadeInside(ProtoOATrader)
  BY ProtoOATraderUnnested, UnnestedIsInside
<1>. QED BY <1>1 DEF ProtoOATraderUpdatedEvent, Optional, Required, RequiredMessage, Field,
         WellMadeThroughout, WellMade, TagsDiffer, Nests

LEMMA ProtoOAMarginCallTriggerEventThroughout ==
    WellMadeThroughout(ProtoOAMarginCallTriggerEvent)
<1>1. WellMadeInside(ProtoOAMarginCall)
  BY ProtoOAMarginCallUnnested, UnnestedIsInside
<1>. QED BY <1>1 DEF ProtoOAMarginCallTriggerEvent, Optional, Required, RequiredMessage,
         Field, WellMadeThroughout, WellMade, TagsDiffer, Nests

LEMMA ProtoOAMarginCallUpdateEventThroughout == WellMadeThroughout(ProtoOAMarginCallUpdateEvent)
<1>1. WellMadeInside(ProtoOAMarginCall)
  BY ProtoOAMarginCallUnnested, UnnestedIsInside
<1>. QED BY <1>1 DEF ProtoOAMarginCallUpdateEvent, Optional, Required, RequiredMessage,
         Field, WellMadeThroughout, WellMade, TagsDiffer, Nests

-----------------------------------------------------------------------------
(* A message about the account is read as it was given.                       *)

\* What is told of the account's number is no message.
NamesAccount(schema) ==
    "ctidTraderAccountId" \in DOMAIN schema => ~Nests(schema["ctidTraderAccountId"])

LEMMA WithinFits ==
    ASSUME NEW schema, NEW given, WellMadeThroughout(schema), WithinOuter(schema, given)
    PROVE  FitsOuter(schema, given)
<1>1. \A inner, g : WellMade(inner) /\ Within(inner, g) => Fits(inner, g)
  BY DEF Within, Fits
<1>2. \A inner, g : WellMadeInside(inner) /\ WithinMiddle(inner, g) => FitsMiddle(inner, g)
  BY <1>1 DEF WellMadeInside, WithinMiddle, FitsMiddle, Nests, Within
<1>3. Fits(schema, given)
  BY <1>1 DEF WellMadeThroughout, WithinOuter
<1>. QED BY <1>2, <1>3 DEF WellMadeThroughout, WithinOuter, FitsOuter, Nests, Fits

LEMMA AccountMessageRead ==
    ASSUME NEW schema, NEW given, WellMadeThroughout(schema), WithinOuter(schema, given),
           NamesAccount(schema)
    PROVE  Decode(schema, AccountMessage(schema, given))
            = Complete(schema, given ++ Copied(ForAccount, DOMAIN schema))
<1> PICK about : about = Copied(ForAccount, DOMAIN schema)
  OBVIOUS
<1> PICK whole : whole = given ++ about
  OBVIOUS
<1>1. DOMAIN about = DOMAIN schema \cap {"ctidTraderAccountId"}
  BY DEF Copied, ForAccount
<1>2. /\ DOMAIN whole = DOMAIN given \cup DOMAIN about
      /\ \A f \in DOMAIN given : whole[f] = given[f]
  BY Completed
<1>3. \A f \in DOMAIN whole \ DOMAIN given : f \in DOMAIN schema /\ ~Nests(schema[f])
  BY <1>1, <1>2 DEF NamesAccount
<1>4. WithinOuter(schema, whole)
  BY <1>1, <1>2, <1>3 DEF WithinOuter, Within, Nests
<1>. QED BY <1>4, WithinFits, OuterRead DEF AccountMessage

\* A field of what was told, and what it means.
LEMMA CompleteFields ==
    ASSUME NEW schema, NEW given, NEW f \in DOMAIN schema
    PROVE  Complete(schema, given)[f] =
            IF f \in DOMAIN given THEN CompleteField(schema[f], given[f], CompleteMiddle)
            ELSE schema[f].default
BY DEF Complete, CompleteWith

LEMMA CompleteMiddleFields ==
    ASSUME NEW schema, NEW given, NEW f \in DOMAIN schema, ~Nests(schema[f])
    PROVE  CompleteMiddle(schema, given)[f] =
            IF f \in DOMAIN given THEN given[f] ELSE schema[f].default
BY DEF CompleteMiddle, CompleteWith, CompleteField, Nests

LEMMA CompleteIsOfFields ==
    ASSUME NEW schema, NEW given, NEW about, DOMAIN about \subseteq {"ctidTraderAccountId"},
           NEW f \in DOMAIN schema, f # "ctidTraderAccountId"
    PROVE  Complete(schema, given ++ about)[f] = Complete(schema, given)[f]
<1> PICK whole : whole = given ++ about
  OBVIOUS
<1>1. /\ DOMAIN whole = DOMAIN given \cup DOMAIN about
      /\ \A x \in DOMAIN given : whole[x] = given[x]
  BY Completed
<1>2. f \in DOMAIN whole <=> f \in DOMAIN given
  BY <1>1
<1>3. f \in DOMAIN given => whole[f] = given[f]
  BY <1>1
<1>. QED BY <1>2, <1>3, CompleteFields

\* The fields of what is read are those that were told.
ReadsAsTold(schema, given, read) ==
    \A f \in DOMAIN schema : f # "ctidTraderAccountId" => read[f] = Complete(schema, given)[f]

LEMMA FieldsRead ==
    ASSUME NEW schema, NEW given, WellMadeThroughout(schema), WithinOuter(schema, given),
           NamesAccount(schema)
    PROVE  ReadsAsTold(schema, given, Decode(schema, AccountMessage(schema, given)))
<1> PICK about : about = Copied(ForAccount, DOMAIN schema)
  OBVIOUS
<1>1. DOMAIN about \subseteq {"ctidTraderAccountId"}
  BY DEF Copied, ForAccount
<1>2. Decode(schema, AccountMessage(schema, given)) = Complete(schema, given ++ about)
  BY AccountMessageRead
<1>. QED BY <1>1, <1>2, CompleteIsOfFields DEF ReadsAsTold


-----------------------------------------------------------------------------
(* Method by method: what the call resolves with is what its answer means.    *)

LEMMA AnswerFields ==
    ASSUME NEW method, NEW fact, MayAnswer(method, fact), NEW schema,
           schema = AnswerSchema(method), WellMadeThroughout(schema), NamesAccount(schema)
    PROVE  ReadsAsTold(schema, OnWire(method, fact),
                       Decode(schema, AnswerPayload(method, fact)))
BY FieldsRead DEF MayAnswer, AnswerPayload

LEMMA getOpenPositionsAndOrdersReads ==
    ASSUME NEW method, method = "getOpenPositionsAndOrders", NEW params, NEW fact,
           MayAnswer(method, fact)
    PROVE  Read(method, params, AnswerPayload(method, fact)) = AnswerMeans(method, params, fact)
<1> PICK payload : payload = AnswerPayload(method, fact)
  OBVIOUS
<1> DEFINE read == Decode(ProtoOAReconcileRes, payload)
           whole == Complete(ProtoOAReconcileRes, fact)
<1>1. AnswerSchema(method) = ProtoOAReconcileRes /\ OnWire(method, fact) = fact
  BY DEF AnswerSchema, OnWire
<1>2. NamesAccount(ProtoOAReconcileRes)
  BY DEF NamesAccount, ProtoOAReconcileRes, Required, Field, Nests
<1>3. /\ "position" \in DOMAIN ProtoOAReconcileRes
      /\ "order" \in DOMAIN ProtoOAReconcileRes
  BY DEF ProtoOAReconcileRes
<1>4. read.position = whole.position /\ read.order = whole.order
  BY <1>1, <1>2, <1>3, AnswerFields, ProtoOAReconcileResThroughout DEF ReadsAsTold
<1>5. Read(method, params, payload)
        = Resolves([positions |-> read.position, orders |-> read.order])
  BY DEF Read, ReadOpenPositionsAndOrders, Mutations, Placements
<1>6. AnswerMeans(method, params, fact)
        = Resolves([positions |-> whole.position, orders |-> whole.order])
  BY <1>1 DEF AnswerMeans
<1>. QED BY <1>4, <1>5, <1>6

LEMMA getAssetsReads ==
    ASSUME NEW method, method = "getAssets", NEW params, NEW fact, MayAnswer(method, fact)
    PROVE  Read(method, params, AnswerPayload(method, fact)) = AnswerMeans(method, params, fact)
<1> PICK payload : payload = AnswerPayload(method, fact)
  OBVIOUS
<1> DEFINE read == Decode(ProtoOAAssetListRes, payload)
           whole == Complete(ProtoOAAssetListRes, fact)
<1>1. AnswerSchema(method) = ProtoOAAssetListRes /\ OnWire(method, fact) = fact
  BY DEF AnswerSchema, OnWire
<1>2. NamesAccount(ProtoOAAssetListRes)
  BY DEF NamesAccount, ProtoOAAssetListRes, Required, Field, Nests
<1>3. "asset" \in DOMAIN ProtoOAAssetListRes
  BY DEF ProtoOAAssetListRes
<1>4. read.asset = whole.asset
  BY <1>1, <1>2, <1>3, AnswerFields, ProtoOAAssetListResThroughout DEF ReadsAsTold
<1>5. Read(method, params, payload) = Resolves(read.asset)
  BY DEF Read, ReadAssets, Mutations, Placements
<1>6. AnswerMeans(method, params, fact) = Resolves(whole.asset)
  BY <1>1 DEF AnswerMeans
<1>. QED BY <1>4, <1>5, <1>6

LEMMA getMarginCallsReads ==
    ASSUME NEW method, method = "getMarginCalls", NEW params, NEW fact, MayAnswer(method, fact)
    PROVE  Read(method, params, AnswerPayload(method, fact)) = AnswerMeans(method, params, fact)
<1> PICK payload : payload = AnswerPayload(method, fact)
  OBVIOUS
<1> DEFINE read == Decode(ProtoOAMarginCallListRes, payload)
           whole == Complete(ProtoOAMarginCallListRes, fact)
<1>1. AnswerSchema(method) = ProtoOAMarginCallListRes /\ OnWire(method, fact) = fact
  BY DEF AnswerSchema, OnWire
<1>2. NamesAccount(ProtoOAMarginCallListRes)
  BY DEF NamesAccount, ProtoOAMarginCallListRes, Required, Field, Nests
<1>3. "marginCall" \in DOMAIN ProtoOAMarginCallListRes
  BY DEF ProtoOAMarginCallListRes
<1>4. read.marginCall = whole.marginCall
  BY <1>1, <1>2, <1>3, AnswerFields, ProtoOAMarginCallListResThroughout DEF ReadsAsTold
<1>5. Read(method, params, payload) = Resolves(read.marginCall)
  BY DEF Read, ReadMarginCalls, Mutations, Placements
<1>6. AnswerMeans(method, params, fact) = Resolves(whole.marginCall)
  BY <1>1 DEF AnswerMeans
<1>. QED BY <1>4, <1>5, <1>6

LEMMA getDealsReads ==
    ASSUME NEW method, method = "getDeals", NEW params, NEW fact, MayAnswer(method, fact)
    PROVE  Read(method, params, AnswerPayload(method, fact)) = AnswerMeans(method, params, fact)
<1> PICK payload : payload = AnswerPayload(method, fact)
  OBVIOUS
<1> DEFINE read == Decode(ProtoOADealListRes, payload)
           whole == Complete(ProtoOADealListRes, fact)
<1>1. AnswerSchema(method) = ProtoOADealListRes /\ OnWire(method, fact) = fact
  BY DEF AnswerSchema, OnWire
<1>2. NamesAccount(ProtoOADealListRes)
  BY DEF NamesAccount, ProtoOADealListRes, Required, Field, Nests
<1>3. /\ "deal" \in DOMAIN ProtoOADealListRes
      /\ "hasMore" \in DOMAIN ProtoOADealListRes
  BY DEF ProtoOADealListRes
<1>4. read.deal = whole.deal /\ read.hasMore = whole.hasMore
  BY <1>1, <1>2, <1>3, AnswerFields, ProtoOADealListResThroughout DEF ReadsAsTold
<1>5. Read(method, params, payload) = Resolves([deals |-> read.deal, hasMore |-> read.hasMore])
  BY DEF Read, ReadDeals, Mutations, Placements
<1>6. AnswerMeans(method, params, fact)
        = Resolves([deals |-> whole.deal, hasMore |-> whole.hasMore])
  BY <1>1 DEF AnswerMeans
<1>. QED BY <1>4, <1>5, <1>6

LEMMA getDealsByPositionIdReads ==
    ASSUME NEW method, method = "getDealsByPositionId", NEW params, NEW fact,
           MayAnswer(method, fact)
    PROVE  Read(method, params, AnswerPayload(method, fact)) = AnswerMeans(method, params, fact)
<1> PICK payload : payload = AnswerPayload(method, fact)
  OBVIOUS
<1> DEFINE read == Decode(ProtoOADealListByPositionIdRes, payload)
           whole == Complete(ProtoOADealListByPositionIdRes, fact)
<1>1. AnswerSchema(method) = ProtoOADealListByPositionIdRes /\ OnWire(method, fact) = fact
  BY DEF AnswerSchema, OnWire
<1>2. NamesAccount(ProtoOADealListByPositionIdRes)
  BY DEF NamesAccount, ProtoOADealListByPositionIdRes, Required, Field, Nests
<1>3. /\ "deal" \in DOMAIN ProtoOADealListByPositionIdRes
      /\ "hasMore" \in DOMAIN ProtoOADealListByPositionIdRes
  BY DEF ProtoOADealListByPositionIdRes
<1>4. read.deal = whole.deal /\ read.hasMore = whole.hasMore
  BY <1>1, <1>2, <1>3, AnswerFields, ProtoOADealListByPositionIdResThroughout DEF ReadsAsTold
<1>5. Read(method, params, payload) = Resolves([deals |-> read.deal, hasMore |-> read.hasMore])
  BY DEF Read, ReadDeals, Mutations, Placements
<1>6. AnswerMeans(method, params, fact)
        = Resolves([deals |-> whole.deal, hasMore |-> whole.hasMore])
  BY <1>1 DEF AnswerMeans
<1>. QED BY <1>4, <1>5, <1>6

LEMMA getOrdersReads ==
    ASSUME NEW method, method = "getOrders", NEW params, NEW fact, MayAnswer(method, fact)
    PROVE  Read(method, params, AnswerPayload(method, fact)) = AnswerMeans(method, params, fact)
<1> PICK payload : payload = AnswerPayload(method, fact)
  OBVIOUS
<1> DEFINE read == Decode(ProtoOAOrderListRes, payload)
           whole == Complete(ProtoOAOrderListRes, fact)
<1>1. AnswerSchema(method) = ProtoOAOrderListRes /\ OnWire(method, fact) = fact
  BY DEF AnswerSchema, OnWire
<1>2. NamesAccount(ProtoOAOrderListRes)
  BY DEF NamesAccount, ProtoOAOrderListRes, Required, Field, Nests
<1>3. /\ "order" \in DOMAIN ProtoOAOrderListRes
      /\ "hasMore" \in DOMAIN ProtoOAOrderListRes
  BY DEF ProtoOAOrderListRes
<1>4. read.order = whole.order /\ read.hasMore = whole.hasMore
  BY <1>1, <1>2, <1>3, AnswerFields, ProtoOAOrderListResThroughout DEF ReadsAsTold
<1>5. Read(method, params, payload)
        = Resolves([orders |-> read.order, hasMore |-> read.hasMore])
  BY DEF Read, ReadOrders, Mutations, Placements
<1>6. AnswerMeans(method, params, fact)
        = Resolves([orders |-> whole.order, hasMore |-> whole.hasMore])
  BY <1>1 DEF AnswerMeans
<1>. QED BY <1>4, <1>5, <1>6

LEMMA getCashFlowReads ==
    ASSUME NEW method, method = "getCashFlow", NEW params, NEW fact, MayAnswer(method, fact)
    PROVE  Read(method, params, AnswerPayload(method, fact)) = AnswerMeans(method, params, fact)
<1> PICK payload : payload = AnswerPayload(method, fact)
  OBVIOUS
<1> DEFINE read == Decode(ProtoOACashFlowHistoryListRes, payload)
           whole == Complete(ProtoOACashFlowHistoryListRes, fact)
<1>1. AnswerSchema(method) = ProtoOACashFlowHistoryListRes /\ OnWire(method, fact) = fact
  BY DEF AnswerSchema, OnWire
<1>2. NamesAccount(ProtoOACashFlowHistoryListRes)
  BY DEF NamesAccount, ProtoOACashFlowHistoryListRes, Required, Field, Nests
<1>3. "depositWithdraw" \in DOMAIN ProtoOACashFlowHistoryListRes
  BY DEF ProtoOACashFlowHistoryListRes
<1>4. read.depositWithdraw = whole.depositWithdraw
  BY <1>1, <1>2, <1>3, AnswerFields, ProtoOACashFlowHistoryListResThroughout DEF ReadsAsTold
<1>5. Read(method, params, payload) = Resolves(read.depositWithdraw)
  BY DEF Read, ReadCashFlow, Mutations, Placements
<1>6. AnswerMeans(method, params, fact) = Resolves(whole.depositWithdraw)
  BY <1>1 DEF AnswerMeans
<1>. QED BY <1>4, <1>5, <1>6

LEMMA fetchSymbolsReads ==
    ASSUME NEW method, method = "fetchSymbols", NEW params, NEW fact, MayAnswer(method, fact)
    PROVE  Read(method, params, AnswerPayload(method, fact)) = AnswerMeans(method, params, fact)
<1> PICK payload : payload = AnswerPayload(method, fact)
  OBVIOUS
<1> DEFINE read == Decode(ProtoOASymbolsListRes, payload)
           whole == Complete(ProtoOASymbolsListRes, fact)
<1>1. AnswerSchema(method) = ProtoOASymbolsListRes /\ OnWire(method, fact) = fact
  BY DEF AnswerSchema, OnWire
<1>2. NamesAccount(ProtoOASymbolsListRes)
  BY DEF NamesAccount, ProtoOASymbolsListRes, Required, Field, Nests
<1>3. "symbol" \in DOMAIN ProtoOASymbolsListRes
  BY DEF ProtoOASymbolsListRes
<1>4. read.symbol = whole.symbol
  BY <1>1, <1>2, <1>3, AnswerFields, ProtoOASymbolsListResThroughout DEF ReadsAsTold
<1>5. Read(method, params, payload) = Resolves(read.symbol)
  BY DEF Read, ReadSymbols, Mutations, Placements
<1>6. AnswerMeans(method, params, fact) = Resolves(whole.symbol)
  BY <1>1 DEF AnswerMeans
<1>. QED BY <1>4, <1>5, <1>6

LEMMA listAccountsReads ==
    ASSUME NEW method, method = "listAccounts", NEW params, NEW fact, MayAnswer(method, fact)
    PROVE  Read(method, params, AnswerPayload(method, fact)) = AnswerMeans(method, params, fact)
<1> PICK payload : payload = AnswerPayload(method, fact)
  OBVIOUS
<1> DEFINE read == Decode(ProtoOAGetAccountListByAccessTokenRes, payload)
           whole == Complete(ProtoOAGetAccountListByAccessTokenRes, fact)
<1>1. /\ AnswerSchema(method) = ProtoOAGetAccountListByAccessTokenRes
      /\ OnWire(method, fact) = fact
  BY DEF AnswerSchema, OnWire
<1>2. NamesAccount(ProtoOAGetAccountListByAccessTokenRes)
  <2>1. "ctidTraderAccountId" \notin DOMAIN ProtoOAGetAccountListByAccessTokenRes
    BY DEF ProtoOAGetAccountListByAccessTokenRes
  <2>. QED BY <2>1 DEF NamesAccount
<1>3. "ctidTraderAccount" \in DOMAIN ProtoOAGetAccountListByAccessTokenRes
  BY DEF ProtoOAGetAccountListByAccessTokenRes
<1>4. read.ctidTraderAccount = whole.ctidTraderAccount
  BY <1>1, <1>2, <1>3, AnswerFields, ProtoOAGetAccountListByAccessTokenResThroughout
     DEF ReadsAsTold
<1>5. Read(method, params, payload) = Resolves(read.ctidTraderAccount)
  BY DEF Read, ReadAccounts, Mutations, Placements
<1>6. AnswerMeans(method, params, fact) = Resolves(whole.ctidTraderAccount)
  BY <1>1 DEF AnswerMeans
<1>. QED BY <1>4, <1>5, <1>6

LEMMA ScalarIs ==
    ASSUME NEW schema, NEW given, NEW f \in DOMAIN schema, ~Nests(schema[f])
    PROVE  Complete(schema, given)[f] = IF f \in DOMAIN given THEN given[f]
                                        ELSE schema[f].default
<1>1. Complete(schema, given)[f] =
        IF f \in DOMAIN given THEN CompleteField(schema[f], given[f], CompleteMiddle)
        ELSE schema[f].default
  BY CompleteFields
<1>2. schema[f].kind # "message" /\ schema[f].kind # "messages"
  BY DEF Nests
<1>3. CompleteField(schema[f], given[f], CompleteMiddle) = given[f]
  BY <1>2 DEF CompleteField
<1>. QED BY <1>1, <1>3

LEMMA MessageIs ==
    ASSUME NEW schema, NEW given, NEW f \in DOMAIN schema, schema[f].kind = "message"
    PROVE  Complete(schema, given)[f] =
            IF f \in DOMAIN given THEN CompleteMiddle(schema[f].of, given[f])
            ELSE schema[f].default
<1>1. CompleteField(schema[f], given[f], CompleteMiddle)
        = CompleteMiddle(schema[f].of, given[f])
  BY DEF CompleteField
<1>. QED BY <1>1, CompleteFields

LEMMA MessagesAre ==
    ASSUME NEW schema, NEW given, NEW f \in DOMAIN schema \cap DOMAIN given,
           schema[f].kind = "messages"
    PROVE  Complete(schema, given)[f] =
            [i \in DOMAIN given[f] |-> CompleteMiddle(schema[f].of, given[f][i])]
BY CompleteFields DEF CompleteField

LEMMA MessageIsThere ==
    ASSUME UndefinedIsNoRecord, NEW schema, NEW given
    PROVE  CompleteMiddle(schema, given) # Undefined
BY DEF CompleteMiddle, CompleteWith, UndefinedIsNoRecord

\* The trader of an answer, or of an event.
LEMMA TraderRead ==
    ASSUME UndefinedIsNoRecord, NEW fact
    PROVE  Complete(ProtoOATraderRes, fact).trader =
            IF "trader" \in DOMAIN fact THEN CompleteMiddle(ProtoOATrader, fact.trader)
            ELSE Undefined
<1>1. /\ "trader" \in DOMAIN ProtoOATraderRes
      /\ ProtoOATraderRes["trader"].kind = "message"
      /\ ProtoOATraderRes["trader"].of = ProtoOATrader
      /\ ProtoOATraderRes["trader"].default = Undefined
  BY DEF ProtoOATraderRes, RequiredMessage, Field
<1>. QED BY <1>1, MessageIs

LEMMA getTraderReads ==
    ASSUME UndefinedIsNoRecord, NEW method, method = "getTrader", NEW params, NEW fact,
           MayAnswer(method, fact)
    PROVE  Read(method, params, AnswerPayload(method, fact)) = AnswerMeans(method, params, fact)
<1> PICK payload : payload = AnswerPayload(method, fact)
  OBVIOUS
<1> DEFINE read == Decode(ProtoOATraderRes, payload).trader
           whole == Complete(ProtoOATraderRes, fact).trader
<1>1. AnswerSchema(method) = ProtoOATraderRes /\ OnWire(method, fact) = fact
  BY DEF AnswerSchema, OnWire
<1>2. NamesAccount(ProtoOATraderRes)
  BY DEF NamesAccount, ProtoOATraderRes, Required, Field, Nests
<1>3. "trader" \in DOMAIN ProtoOATraderRes
  BY DEF ProtoOATraderRes
<1>4. read = whole
  BY <1>1, <1>2, <1>3, AnswerFields, ProtoOATraderResThroughout DEF ReadsAsTold
<1>5. Read(method, params, payload) =
        IF read = Undefined THEN NoAccountDetails ELSE Resolves(read)
  BY DEF Read, ReadTrader, Mutations, Placements
<1>6. AnswerMeans(method, params, fact) =
        IF "trader" \in DOMAIN fact THEN Resolves(whole) ELSE NoAccountDetails
  BY <1>1 DEF AnswerMeans
<1>7. whole = Undefined <=> "trader" \notin DOMAIN fact
  BY TraderRead, MessageIsThere
<1>. QED BY <1>4, <1>5, <1>6, <1>7

\* An amount with its number of decimals, or with two.
LEMMA MoneyRead ==
    ASSUME NEW fact, MoneyFact(fact), NEW amount, NEW digits,
           digits = IF "moneyDigits" \in DOMAIN fact THEN fact.moneyDigits ELSE 0
    PROVE  fromMoneyDigits(amount, digits) = Decimal(amount, Digits(fact))
<1>1. CASE "moneyDigits" \in DOMAIN fact
  <2>1. digits \in Nat \ {0} /\ Digits(fact) = digits
    BY <1>1 DEF MoneyFact, Digits
  <2>2. ~IsFalsy(digits)
    BY <2>1, UndefinedAssumption DEF IsFalsy
  <2>. QED BY <2>1, <2>2 DEF fromMoneyDigits
<1>2. CASE "moneyDigits" \notin DOMAIN fact
  <2>1. IsFalsy(digits) /\ Digits(fact) = 2
    BY <1>2 DEF IsFalsy, Digits
  <2>. QED BY <2>1 DEF fromMoneyDigits, DEFAULT_MONEY_DIGITS
<1>. QED BY <1>1, <1>2

LEMMA getBalanceReads ==
    ASSUME UndefinedIsNoRecord, NEW method, method = "getBalance", NEW params, NEW fact,
           MayAnswer(method, fact)
    PROVE  Read(method, params, AnswerPayload(method, fact)) = AnswerMeans(method, params, fact)
<1> PICK payload : payload = AnswerPayload(method, fact)
  OBVIOUS
<1> DEFINE read == Decode(ProtoOATraderRes, payload).trader
           whole == Complete(ProtoOATraderRes, fact).trader
<1>1. AnswerSchema(method) = ProtoOATraderRes /\ OnWire(method, fact) = fact
  BY DEF AnswerSchema, OnWire
<1>2. NamesAccount(ProtoOATraderRes)
  BY DEF NamesAccount, ProtoOATraderRes, Required, Field, Nests
<1>3. "trader" \in DOMAIN ProtoOATraderRes
  BY DEF ProtoOATraderRes
<1>4. read = whole
  BY <1>1, <1>2, <1>3, AnswerFields, ProtoOATraderResThroughout DEF ReadsAsTold
<1>5. Read(method, params, payload) =
        IF read = Undefined THEN NoAccountDetails
        ELSE Resolves(fromMoneyDigits(read.balance, read.moneyDigits))
  <2>1. Read(method, params, payload) = ReadBalance(payload)
    BY DEF Read, Mutations, Placements
  <2>. QED BY <2>1 DEF ReadBalance, ReadTrader, NoAccountDetails, Rejects, Resolves
<1>6. AnswerMeans(method, params, fact) =
        IF "trader" \in DOMAIN fact
        THEN Resolves(Decimal(fact.trader.balance, Digits(fact.trader))) ELSE NoAccountDetails
  BY DEF AnswerMeans
<1>7. whole = Undefined <=> "trader" \notin DOMAIN fact
  BY TraderRead, MessageIsThere
<1>8. ASSUME "trader" \in DOMAIN fact
      PROVE  fromMoneyDigits(whole.balance, whole.moneyDigits)
              = Decimal(fact.trader.balance, Digits(fact.trader))
  <2>1. "balance" \in DOMAIN fact.trader /\ MoneyFact(fact.trader)
    BY <1>8 DEF MayAnswer, Has
  <2>2. whole = CompleteMiddle(ProtoOATrader, fact.trader)
    BY <1>8, TraderRead
  <2>3. /\ "balance" \in DOMAIN ProtoOATrader /\ "moneyDigits" \in DOMAIN ProtoOATrader
        /\ ~Nests(ProtoOATrader["balance"]) /\ ~Nests(ProtoOATrader["moneyDigits"])
        /\ ProtoOATrader["moneyDigits"].default = 0
    BY DEF ProtoOATrader, Required, Optional, Field, Nests
  <2>4. whole["balance"] = fact.trader.balance
    BY <2>1, <2>2, <2>3, CompleteMiddleFields
  <2>5. whole["moneyDigits"] =
            IF "moneyDigits" \in DOMAIN fact.trader THEN fact.trader.moneyDigits ELSE 0
    BY <2>2, <2>3, CompleteMiddleFields
  <2>. QED BY <2>1, <2>4, <2>5, MoneyRead
<1>. QED BY <1>4, <1>5, <1>6, <1>7, <1>8

LEMMA LeastElement ==
    ASSUME NEW T \in SUBSET Nat, T # {}
    PROVE  \E n \in T : \A m \in T : n <= m
<1> DEFINE R == OpToRel(<, Nat)
<1>1. IsWellFoundedOn(R, Nat)
  BY NatLessThanWellFounded
<1>2. \A x, y \in Nat : x < y => <<x, y>> \in R
  BY DEF OpToRel
<1> HIDE DEF R
<1>3. PICK n \in T : \A m \in T : ~ (<<m, n>> \in R)
  BY <1>1, WFMin
<1>4. \A m \in T : ~ (m < n)
  BY <1>2, <1>3
<1>. QED BY <1>4

\* A list of differences, the first of them from 0, sums up to what it was made from.
AreDifferences(list, total, n) ==
    /\ n \in Nat /\ DOMAIN list = 1..n /\ \A i \in 1..n : total[i] \in Int
    /\ \A i \in 1..n : list[i] = IF i = 1 THEN total[1] ELSE total[i] - total[i - 1]

LEMMA RunningSumIs ==
    ASSUME NEW n, NEW list, NEW total, AreDifferences(list, total, n)
    PROVE  \A i \in 1..n : RunningSum(list)[i] = total[i]
<1>0. /\ n \in Nat /\ DOMAIN list = 1..n
      /\ \A i \in 1..n : total[i] \in Int
      /\ \A i \in 1..n : list[i] = IF i = 1 THEN total[1] ELSE total[i] - total[i - 1]
  BY DEF AreDifferences
<1> USE <1>0
<1> DEFINE Sums(v) == v = [i \in DOMAIN list |->
                              IF i = 1 THEN list[1] ELSE v[i - 1] + list[i]]
           sum == CHOOSE v : Sums(v)
           whole == [i \in 1..n |-> total[i]]
<1>1. Sums(whole)
  <2>1. \A i \in 1..n : total[i] = IF i = 1 THEN list[1] ELSE whole[i - 1] + list[i]
    <3> SUFFICES ASSUME NEW i \in 1..n
                 PROVE  total[i] = IF i = 1 THEN list[1] ELSE whole[i - 1] + list[i]
      OBVIOUS
    <3>1. CASE i = 1
      BY <3>1
    <3>2. CASE i # 1
      <4>1. i - 1 \in 1..n
        BY <3>2
      <4>. QED BY <3>2, <4>1
    <3>. QED BY <3>1, <3>2
  <2>. QED BY <2>1
<1>2. RunningSum(list) = sum
  BY DEF RunningSum
<1>3. Sums(sum)
  <2> HIDE DEF Sums
  <2>. QED BY <1>1
<1> HIDE DEF sum
<1>4. \A i \in 1..n : sum[i] = IF i = 1 THEN list[1] ELSE sum[i - 1] + list[i]
  BY <1>3
<1> HIDE DEF Sums, whole
<1> DEFINE Wrong == {i \in 1..n : sum[i] # total[i]}
<1>5. ASSUME Wrong # {} PROVE FALSE
  <2>1. PICK i \in Wrong : \A j \in Wrong : i <= j
    <3>1. Wrong \in SUBSET Nat
      OBVIOUS
    <3> HIDE DEF Wrong
    <3>. QED BY <1>5, <3>1, LeastElement
  <2>2. CASE i = 1
    BY <1>4, <2>1, <2>2
  <2>3. CASE i # 1
    <3>1. i - 1 \in 1..n /\ sum[i - 1] = total[i - 1]
      BY <2>1, <2>3
    <3>2. sum[i] = sum[i - 1] + list[i] /\ list[i] = total[i] - total[i - 1]
      BY <1>4, <2>1, <2>3
    <3>3. total[i] \in Int /\ total[i - 1] \in Int
      BY <2>1, <3>1
    <3>4. sum[i] = total[i]
      BY <3>1, <3>2, <3>3
    <3>. QED BY <2>1, <3>4
  <2>. QED BY <2>2, <2>3
<1>. QED BY <1>2, <1>5

\* The amounts of an answer that has a list of them.
LEMMA getExpectedMarginReads ==
    ASSUME NEW method, method = "getExpectedMargin", NEW params, NEW fact,
           MayAnswer(method, fact)
    PROVE  Read(method, params, AnswerPayload(method, fact)) = AnswerMeans(method, params, fact)
<1> PICK payload : payload = AnswerPayload(method, fact)
  OBVIOUS
<1> DEFINE read == Decode(ProtoOAExpectedMarginRes, payload)
           whole == Complete(ProtoOAExpectedMarginRes, fact)
<1>1. AnswerSchema(method) = ProtoOAExpectedMarginRes /\ OnWire(method, fact) = fact
  BY DEF AnswerSchema, OnWire
<1>2. NamesAccount(ProtoOAExpectedMarginRes)
  BY DEF NamesAccount, ProtoOAExpectedMarginRes, Required, Field, Nests
<1>3. /\ "margin" \in DOMAIN ProtoOAExpectedMarginRes
      /\ "moneyDigits" \in DOMAIN ProtoOAExpectedMarginRes
      /\ ProtoOAExpectedMarginRes["margin"].kind = "messages"
      /\ ProtoOAExpectedMarginRes["margin"].of = ProtoOAExpectedMargin
      /\ ~Nests(ProtoOAExpectedMarginRes["moneyDigits"])
      /\ ProtoOAExpectedMarginRes["moneyDigits"].default = 0
  BY DEF ProtoOAExpectedMarginRes, Messages, Optional, Field, Nests
<1>4. read.margin = whole.margin /\ read.moneyDigits = whole.moneyDigits
  BY <1>1, <1>2, <1>3, AnswerFields, ProtoOAExpectedMarginResThroughout DEF ReadsAsTold
<1>5. /\ MoneyFact(fact) /\ "margin" \in DOMAIN fact
      /\ \A i \in DOMAIN fact.margin :
            {"volume", "buyMargin", "sellMargin"} \subseteq DOMAIN fact.margin[i]
  BY DEF MayAnswer, Has, EachHas
<1>6. /\ whole.margin = [i \in DOMAIN fact.margin |->
                            CompleteMiddle(ProtoOAExpectedMargin, fact.margin[i])]
      /\ whole.moneyDigits = IF "moneyDigits" \in DOMAIN fact THEN fact.moneyDigits ELSE 0
  BY <1>3, <1>5, MessagesAre, ScalarIs
<1>7. \A amount : fromMoneyDigits(amount, read.moneyDigits) = Decimal(amount, Digits(fact))
  BY <1>4, <1>5, <1>6, MoneyRead
<1>8. \A i \in DOMAIN fact.margin :
        /\ read.margin[i].volume = fact.margin[i].volume
        /\ read.margin[i].buyMargin = fact.margin[i].buyMargin
        /\ read.margin[i].sellMargin = fact.margin[i].sellMargin
  <2>1. \A f \in {"volume", "buyMargin", "sellMargin"} :
            f \in DOMAIN ProtoOAExpectedMargin /\ ~Nests(ProtoOAExpectedMargin[f])
    BY DEF ProtoOAExpectedMargin, Required, Field, Nests
  <2>. QED BY <1>4, <1>5, <1>6, <2>1, CompleteMiddleFields
<1>9. Read(method, params, payload) =
        Resolves([i \in DOMAIN read.margin |->
            [volume |-> Decimal(read.margin[i].volume, 2),
             buyMargin |-> fromMoneyDigits(read.margin[i].buyMargin, read.moneyDigits),
             sellMargin |-> fromMoneyDigits(read.margin[i].sellMargin, read.moneyDigits)]])
  <2>1. Read(method, params, payload) = ReadExpectedMargin(payload)
    BY DEF Read, Mutations, Placements
  <2>. QED BY <2>1 DEF ReadExpectedMargin, Each, SPOTWARE_VOLUME_DIGITS
<1>10. AnswerMeans(method, params, fact) =
        Resolves([i \in DOMAIN fact.margin |->
            [volume |-> Decimal(fact.margin[i].volume, 2),
             buyMargin |-> Decimal(fact.margin[i].buyMargin, Digits(fact)),
             sellMargin |-> Decimal(fact.margin[i].sellMargin, Digits(fact))]])
  BY DEF AnswerMeans
<1>11. DOMAIN read.margin = DOMAIN fact.margin
  BY <1>4, <1>6
<1> HIDE DEF read
<1>. QED BY <1>7, <1>8, <1>9, <1>10, <1>11

LEMMA getPositionsUnrealizedPnLReads ==
    ASSUME NEW method, method = "getPositionsUnrealizedPnL", NEW params, NEW fact,
           MayAnswer(method, fact)
    PROVE  Read(method, params, AnswerPayload(method, fact)) = AnswerMeans(method, params, fact)
<1> PICK payload : payload = AnswerPayload(method, fact)
  OBVIOUS
<1> DEFINE schema == ProtoOAGetPositionUnrealizedPnLRes
           read == Decode(schema, payload)
           whole == Complete(schema, fact)
           list == fact.positionUnrealizedPnL
<1>1. AnswerSchema(method) = schema /\ OnWire(method, fact) = fact
  BY DEF AnswerSchema, OnWire
<1>2. NamesAccount(schema)
  BY DEF NamesAccount, ProtoOAGetPositionUnrealizedPnLRes, Required, Field, Nests
<1>3. /\ "positionUnrealizedPnL" \in DOMAIN schema
      /\ "moneyDigits" \in DOMAIN schema
      /\ schema["positionUnrealizedPnL"].kind = "messages"
      /\ schema["positionUnrealizedPnL"].of = ProtoOAPositionUnrealizedPnL
      /\ ~Nests(schema["moneyDigits"])
      /\ schema["moneyDigits"].default = 0
  BY DEF ProtoOAGetPositionUnrealizedPnLRes, Messages, Required, Field, Nests
<1>4. /\ read.positionUnrealizedPnL = whole.positionUnrealizedPnL
      /\ read.moneyDigits = whole.moneyDigits
  BY <1>1, <1>2, <1>3, AnswerFields, ProtoOAGetPositionUnrealizedPnLResThroughout
     DEF ReadsAsTold
<1>5. /\ MoneyFact(fact) /\ "positionUnrealizedPnL" \in DOMAIN fact
      /\ \A i \in DOMAIN list :
            {"positionId", "grossUnrealizedPnL", "netUnrealizedPnL"} \subseteq DOMAIN list[i]
  BY DEF MayAnswer, Has, EachHas
<1>6. /\ whole.positionUnrealizedPnL =
            [i \in DOMAIN list |-> CompleteMiddle(ProtoOAPositionUnrealizedPnL, list[i])]
      /\ whole.moneyDigits = IF "moneyDigits" \in DOMAIN fact THEN fact.moneyDigits ELSE 0
  BY <1>3, <1>5, MessagesAre, ScalarIs
<1>7. \A amount : fromMoneyDigits(amount, read.moneyDigits) = Decimal(amount, Digits(fact))
  BY <1>4, <1>5, <1>6, MoneyRead
<1>8. \A i \in DOMAIN list :
        /\ read.positionUnrealizedPnL[i].positionId = list[i].positionId
        /\ read.positionUnrealizedPnL[i].grossUnrealizedPnL = list[i].grossUnrealizedPnL
        /\ read.positionUnrealizedPnL[i].netUnrealizedPnL = list[i].netUnrealizedPnL
  <2>1. \A f \in {"positionId", "grossUnrealizedPnL", "netUnrealizedPnL"} :
            f \in DOMAIN ProtoOAPositionUnrealizedPnL /\ ~Nests(ProtoOAPositionUnrealizedPnL[f])
    BY DEF ProtoOAPositionUnrealizedPnL, Required, Field, Nests
  <2>. QED BY <1>4, <1>5, <1>6, <2>1, CompleteMiddleFields
<1>9. Read(method, params, payload) =
        Resolves([i \in DOMAIN read.positionUnrealizedPnL |->
            [positionId |-> read.positionUnrealizedPnL[i].positionId,
             grossUnrealizedPnL |->
                fromMoneyDigits(read.positionUnrealizedPnL[i].grossUnrealizedPnL,
                                read.moneyDigits),
             netUnrealizedPnL |->
                fromMoneyDigits(read.positionUnrealizedPnL[i].netUnrealizedPnL,
                                read.moneyDigits)]])
  <2>1. Read(method, params, payload) = ReadPositionsUnrealizedPnL(payload)
    BY DEF Read, Mutations, Placements
  <2>. QED BY <2>1 DEF ReadPositionsUnrealizedPnL, Each
<1>10. AnswerMeans(method, params, fact) =
        Resolves([i \in DOMAIN list |->
            [positionId |-> list[i].positionId,
             grossUnrealizedPnL |-> Decimal(list[i].grossUnrealizedPnL, Digits(fact)),
             netUnrealizedPnL |-> Decimal(list[i].netUnrealizedPnL, Digits(fact))]])
  BY DEF AnswerMeans
<1>11. DOMAIN read.positionUnrealizedPnL = DOMAIN list
  BY <1>4, <1>6
<1> HIDE DEF read, list
<1>. QED BY <1>7, <1>8, <1>9, <1>10, <1>11

BarFact == [period : Nat \ {0}, minute : Nat, volume : Nat,
            low : Int, open : Int, high : Int, close : Int]

\* A difference of 0 is left out, and read as 0.
LEMMA BarFields ==
    ASSUME NEW bar \in BarFact
    PROVE  LET read == CompleteMiddle(ProtoOATrendbar, BarOnWire(bar)) IN
           /\ read.period = bar.period /\ read.low = bar.low /\ read.volume = bar.volume
           /\ read.utcTimestampInMinutes = bar.minute
           /\ read.deltaOpen = bar.open - bar.low /\ read.deltaHigh = bar.high - bar.low
           /\ read.deltaClose = bar.close - bar.low
<1> DEFINE told == [period |-> bar.period, low |-> bar.low, volume |-> bar.volume,
                    utcTimestampInMinutes |-> bar.minute]
           above == [deltaOpen |-> bar.open - bar.low, deltaHigh |-> bar.high - bar.low,
                     deltaClose |-> bar.close - bar.low]
           named == {f \in DOMAIN above : above[f] # 0}
<1> PICK rest : rest = Copied(above, named)
  OBVIOUS
<1> PICK wire : wire = told ++ rest
  OBVIOUS
<1>1. BarOnWire(bar) = wire
  BY DEF BarOnWire
<1>2. DOMAIN rest = named /\ \A f \in named : rest[f] = above[f]
  BY DEF Copied
<1>3. /\ DOMAIN wire = DOMAIN told \cup DOMAIN rest
      /\ \A f \in DOMAIN told : wire[f] = told[f]
      /\ \A f \in DOMAIN rest \ DOMAIN told : wire[f] = rest[f]
  <2> HIDE DEF told, above, named
  <2>. QED BY DEF ++
<1> PICK read : read = CompleteMiddle(ProtoOATrendbar, wire)
  OBVIOUS
<1>4. \A f \in {"period", "low", "volume", "utcTimestampInMinutes"} :
        f \in DOMAIN ProtoOATrendbar /\ ~Nests(ProtoOATrendbar[f]) /\ f \in DOMAIN told
  BY DEF ProtoOATrendbar, Required, Optional, Field, Nests
<1>5. \A f \in {"deltaOpen", "deltaHigh", "deltaClose"} :
        /\ f \in DOMAIN ProtoOATrendbar /\ ~Nests(ProtoOATrendbar[f])
        /\ ProtoOATrendbar[f].default = 0 /\ f \in DOMAIN above \ DOMAIN told
  BY DEF ProtoOATrendbar, Required, Optional, Field, Nests
<1> HIDE DEF told, above
<1>6. \A f \in {"period", "low", "volume", "utcTimestampInMinutes"} : read[f] = told[f]
  BY <1>3, <1>4, CompleteMiddleFields
<1>7. \A f \in {"deltaOpen", "deltaHigh", "deltaClose"} : read[f] = above[f]
  <2> SUFFICES ASSUME NEW f \in {"deltaOpen", "deltaHigh", "deltaClose"}
               PROVE  read[f] = above[f]
    OBVIOUS
  <2>1. read[f] = IF f \in DOMAIN wire THEN wire[f] ELSE 0
    BY <1>5, CompleteMiddleFields
  <2>. QED BY <1>2, <1>3, <1>5, <2>1
<1>. QED BY <1>1, <1>6, <1>7 DEF told, above

LEMMA BarRead ==
    ASSUME NEW bar \in BarFact
    PROVE  toCleanTrendbar(CompleteMiddle(ProtoOATrendbar, BarOnWire(bar))) = BarMeans(bar)
<1> PICK read : read = CompleteMiddle(ProtoOATrendbar, BarOnWire(bar))
  OBVIOUS
<1>1. /\ read.period = bar.period /\ read.low = bar.low /\ read.volume = bar.volume
      /\ read.utcTimestampInMinutes = bar.minute
      /\ read.deltaOpen = bar.open - bar.low /\ read.deltaHigh = bar.high - bar.low
      /\ read.deltaClose = bar.close - bar.low
  BY BarFields
<1>2. \A n \in Int : OrElse(n, 0) = n /\ n # Undefined
  BY UndefinedAssumption DEF OrElse
<1>3. /\ bar.low \in Int /\ bar.open - bar.low \in Int /\ bar.high - bar.low \in Int
      /\ bar.close - bar.low \in Int /\ bar.minute \in Int
      /\ bar.low + 0 = bar.low /\ bar.low + (bar.open - bar.low) = bar.open
      /\ bar.low + (bar.high - bar.low) = bar.high
      /\ bar.low + (bar.close - bar.low) = bar.close
  BY DEF BarFact
<1>4. OrElse(read.period, ProtoOATrendbarPeriod.M1) = bar.period
  BY <1>1, UndefinedAssumption DEF OrElse, BarFact
<1>5. toCleanTrendbar(read) =
        [period |-> bar.period, timestamp |-> bar.minute * 60000,
         low |-> Decimal(bar.low, 5), open |-> Decimal(bar.open, 5),
         high |-> Decimal(bar.high, 5), close |-> Decimal(bar.close, 5),
         volume |-> bar.volume]
  <2>1. /\ OrElse(read.low, 0) = bar.low /\ OrElse(0, 0) = 0
        /\ OrElse(read.deltaOpen, 0) = bar.open - bar.low
        /\ OrElse(read.deltaHigh, 0) = bar.high - bar.low
        /\ OrElse(read.deltaClose, 0) = bar.close - bar.low
        /\ read.utcTimestampInMinutes # Undefined
    BY <1>1, <1>2, <1>3
  <2>. QED BY <1>1, <1>3, <1>4, <2>1 DEF toCleanTrendbar, SPOTWARE_PRICE_DIGITS
<1>. QED BY <1>5 DEF BarMeans

LEMMA getTrendbarsReads ==
    ASSUME NEW method, method = "getTrendbars", NEW params, NEW fact, MayAnswer(method, fact)
    PROVE  Read(method, params, AnswerPayload(method, fact)) = AnswerMeans(method, params, fact)
<1> PICK payload : payload = AnswerPayload(method, fact)
  OBVIOUS
<1>0. PICK told : told = [fact EXCEPT !.trendbar = Each(BarOnWire, @)]
  OBVIOUS
<1> DEFINE read == Decode(ProtoOAGetTrendbarsRes, payload)
           whole == Complete(ProtoOAGetTrendbarsRes, told)
<1>1. AnswerSchema(method) = ProtoOAGetTrendbarsRes /\ OnWire(method, fact) = told
  BY <1>0 DEF AnswerSchema, OnWire
<1>2. NamesAccount(ProtoOAGetTrendbarsRes)
  BY DEF NamesAccount, ProtoOAGetTrendbarsRes, Required, Field, Nests
<1>3. /\ "trendbar" \in DOMAIN ProtoOAGetTrendbarsRes
      /\ ProtoOAGetTrendbarsRes["trendbar"].kind = "messages"
      /\ ProtoOAGetTrendbarsRes["trendbar"].of = ProtoOATrendbar
  BY DEF ProtoOAGetTrendbarsRes, Messages, Field
<1>4. read.trendbar = whole.trendbar
  BY <1>1, <1>2, <1>3, AnswerFields, ProtoOAGetTrendbarsResThroughout DEF ReadsAsTold
<1>5. "trendbar" \in DOMAIN fact /\ fact.trendbar \in Seq(BarFact)
  BY DEF MayAnswer, Has, BarFacts, BarFact
<1>6. /\ "trendbar" \in DOMAIN told
      /\ told.trendbar = [i \in DOMAIN fact.trendbar |-> BarOnWire(fact.trendbar[i])]
  BY <1>0, <1>5 DEF Each
<1>7. whole.trendbar = [i \in DOMAIN told.trendbar |->
                            CompleteMiddle(ProtoOATrendbar, told.trendbar[i])]
  BY <1>3, <1>6, MessagesAre
<1>8. \A i \in DOMAIN fact.trendbar :
        toCleanTrendbar(CompleteMiddle(ProtoOATrendbar, BarOnWire(fact.trendbar[i])))
            = BarMeans(fact.trendbar[i])
  BY <1>5, BarRead
<1>9. Read(method, params, payload) =
        Resolves([i \in DOMAIN read.trendbar |-> toCleanTrendbar(read.trendbar[i])])
  <2>1. Read(method, params, payload) = ReadTrendbars(payload)
    BY DEF Read, Mutations, Placements
  <2>. QED BY <2>1 DEF ReadTrendbars, Each
<1>10. AnswerMeans(method, params, fact) =
        Resolves([i \in DOMAIN fact.trendbar |-> BarMeans(fact.trendbar[i])])
  BY DEF AnswerMeans, Each
<1>11. DOMAIN read.trendbar = DOMAIN fact.trendbar
  BY <1>4, <1>6, <1>7
<1>12. \A i \in DOMAIN fact.trendbar :
        toCleanTrendbar(read.trendbar[i]) = BarMeans(fact.trendbar[i])
  BY <1>4, <1>6, <1>7, <1>8
<1> HIDE DEF read
<1>. QED BY <1>9, <1>10, <1>11, <1>12

TickFact == [timestamp : Int, tick : Int]

\* The differences between ticks add up to the ticks.
LEMMA TicksRead ==
    ASSUME NEW ticks \in Seq(TickFact), NEW read, DOMAIN read = DOMAIN ticks,
           \A i \in DOMAIN ticks : /\ read[i].timestamp = TicksOnWire(ticks)[i].timestamp
                                   /\ read[i].tick = TicksOnWire(ticks)[i].tick
    PROVE  accumulateTickData(read) = [i \in DOMAIN ticks |-> TickMeans(ticks[i])]
<1> DEFINE n == Len(ticks)
           timestamps == [i \in DOMAIN read |-> read[i].timestamp]
           prices == [i \in DOMAIN read |-> read[i].tick]
<1>1. n \in Nat /\ DOMAIN ticks = 1..n /\ \A i \in 1..n : ticks[i] \in TickFact
  OBVIOUS
<1>2. \A i \in 1..n : ticks[i].timestamp \in Int /\ ticks[i].tick \in Int
  BY <1>1 DEF TickFact
<1>3. \A i \in 1..n :
        /\ timestamps[i] = IF i = 1 THEN ticks[1].timestamp
                           ELSE ticks[i].timestamp - ticks[i - 1].timestamp
        /\ prices[i] = IF i = 1 THEN ticks[1].tick ELSE ticks[i].tick - ticks[i - 1].tick
  <2> SUFFICES ASSUME NEW i \in 1..n
               PROVE  /\ timestamps[i] = IF i = 1 THEN ticks[1].timestamp
                                         ELSE ticks[i].timestamp - ticks[i - 1].timestamp
                      /\ prices[i] = IF i = 1 THEN ticks[1].tick
                                     ELSE ticks[i].tick - ticks[i - 1].tick
    OBVIOUS
  <2>1. TicksOnWire(ticks)[i] =
            IF i = 1 THEN ticks[1]
            ELSE [timestamp |-> ticks[i].timestamp - ticks[i - 1].timestamp,
                  tick |-> ticks[i].tick - ticks[i - 1].tick]
    BY <1>1 DEF TicksOnWire
  <2>2. /\ timestamps[i] = TicksOnWire(ticks)[i].timestamp
        /\ prices[i] = TicksOnWire(ticks)[i].tick
    BY <1>1
  <2>3. CASE i = 1
    BY <2>1, <2>2, <2>3
  <2>4. CASE i # 1
    <3>1. TicksOnWire(ticks)[i] =
            [timestamp |-> ticks[i].timestamp - ticks[i - 1].timestamp,
             tick |-> ticks[i].tick - ticks[i - 1].tick]
      BY <2>1, <2>4
    <3>2. /\ timestamps[i] = ticks[i].timestamp - ticks[i - 1].timestamp
          /\ prices[i] = ticks[i].tick - ticks[i - 1].tick
      BY <2>2, <3>1
    <3>. QED BY <2>4, <3>2
  <2>. QED BY <2>3, <2>4
<1>4. DOMAIN timestamps = 1..n /\ DOMAIN prices = 1..n
  BY <1>1
<1> PICK Time : Time = timestamps
  OBVIOUS
<1> PICK Price : Price = prices
  OBVIOUS
<1>5. accumulateTickData(read) =
        [i \in DOMAIN read |->
            [timestamp |-> RunningSum(Time)[i], price |-> Decimal(RunningSum(Price)[i], 5)]]
  BY DEF accumulateTickData, SPOTWARE_PRICE_DIGITS
<1>6. \A i \in 1..n : RunningSum(Time)[i] = ticks[i].timestamp
  <2> PICK total : total = [i \in 1..n |-> ticks[i].timestamp]
    OBVIOUS
  <2>1. \A i \in 1..n : total[i] \in Int
    BY <1>2
  <2>2. DOMAIN Time = 1..n
    BY <1>4
  <2>3. \A i \in 1..n : Time[i] = IF i = 1 THEN total[1] ELSE total[i] - total[i - 1]
    <3> HIDE DEF timestamps, prices
    <3> SUFFICES ASSUME NEW i \in 1..n
                 PROVE  Time[i] = IF i = 1 THEN total[1] ELSE total[i] - total[i - 1]
      OBVIOUS
    <3>1. CASE i = 1
      BY <1>3, <3>1
    <3>2. CASE i # 1
      <4>1. i - 1 \in 1..n
        BY <1>1, <3>2
      <4>. QED BY <1>3, <3>2, <4>1
    <3>. QED BY <3>1, <3>2
  <2>4. AreDifferences(Time, total, n)
    <3> HIDE DEF timestamps, prices
    <3>. QED BY <1>1, <2>1, <2>2, <2>3 DEF AreDifferences
  <2>5. \A i \in 1..n : RunningSum(Time)[i] = total[i]
    BY <2>4, RunningSumIs
  <2>. QED BY <2>5
<1>7. \A i \in 1..n : RunningSum(Price)[i] = ticks[i].tick
  <2> PICK total : total = [i \in 1..n |-> ticks[i].tick]
    OBVIOUS
  <2>1. \A i \in 1..n : total[i] \in Int
    BY <1>2
  <2>2. DOMAIN Price = 1..n
    BY <1>4
  <2>3. \A i \in 1..n : Price[i] = IF i = 1 THEN total[1] ELSE total[i] - total[i - 1]
    <3> HIDE DEF timestamps, prices
    <3> SUFFICES ASSUME NEW i \in 1..n
                 PROVE  Price[i] = IF i = 1 THEN total[1] ELSE total[i] - total[i - 1]
      OBVIOUS
    <3>1. CASE i = 1
      BY <1>3, <3>1
    <3>2. CASE i # 1
      <4>1. i - 1 \in 1..n
        BY <1>1, <3>2
      <4>. QED BY <1>3, <3>2, <4>1
    <3>. QED BY <3>1, <3>2
  <2>4. AreDifferences(Price, total, n)
    <3> HIDE DEF timestamps, prices
    <3>. QED BY <1>1, <2>1, <2>2, <2>3 DEF AreDifferences
  <2>5. \A i \in 1..n : RunningSum(Price)[i] = total[i]
    BY <2>4, RunningSumIs
  <2>. QED BY <2>5
<1> HIDE DEF timestamps, prices
<1>. QED BY <1>1, <1>5, <1>6, <1>7 DEF TickMeans

LEMMA getTickDataReads ==
    ASSUME NEW method, method = "getTickData", NEW params, NEW fact, MayAnswer(method, fact)
    PROVE  Read(method, params, AnswerPayload(method, fact)) = AnswerMeans(method, params, fact)
<1> PICK payload : payload = AnswerPayload(method, fact)
  OBVIOUS
<1>0. PICK told : told = [fact EXCEPT !.tickData = TicksOnWire(@)]
  OBVIOUS
<1> DEFINE schema == ProtoOAGetTickDataRes
           read == Decode(schema, payload)
           whole == Complete(schema, told)
<1>1. AnswerSchema(method) = schema /\ OnWire(method, fact) = told
  BY <1>0 DEF AnswerSchema, OnWire
<1>2. NamesAccount(schema)
  BY DEF NamesAccount, ProtoOAGetTickDataRes, Required, Field, Nests
<1>3. /\ "tickData" \in DOMAIN schema /\ "hasMore" \in DOMAIN schema
      /\ schema["tickData"].kind = "messages" /\ schema["tickData"].of = ProtoOATickData
      /\ ~Nests(schema["hasMore"])
  BY DEF ProtoOAGetTickDataRes, Messages, Required, Field, Nests
<1>4. read.tickData = whole.tickData /\ read.hasMore = whole.hasMore
  BY <1>1, <1>2, <1>3, AnswerFields, ProtoOAGetTickDataResThroughout DEF ReadsAsTold
<1>5. "tickData" \in DOMAIN fact /\ fact.tickData \in Seq(TickFact)
  BY DEF MayAnswer, Has, TickFacts, TickFact
<1>6. /\ DOMAIN told = DOMAIN fact /\ told.tickData = TicksOnWire(fact.tickData)
      /\ \A f \in DOMAIN fact \ {"tickData"} : told[f] = fact[f]
  BY <1>0, <1>5
<1>7. whole.tickData = [i \in DOMAIN told.tickData |->
                            CompleteMiddle(ProtoOATickData, told.tickData[i])]
  BY <1>3, <1>5, <1>6, MessagesAre
<1>8. whole.hasMore = Complete(schema, fact).hasMore
  BY <1>3, <1>6, ScalarIs
<1>9. DOMAIN TicksOnWire(fact.tickData) = DOMAIN fact.tickData
  BY DEF TicksOnWire
<1>10. \A i \in DOMAIN fact.tickData :
        /\ read.tickData[i].timestamp = TicksOnWire(fact.tickData)[i].timestamp
        /\ read.tickData[i].tick = TicksOnWire(fact.tickData)[i].tick
  <2>1. \A f \in {"timestamp", "tick"} :
            f \in DOMAIN ProtoOATickData /\ ~Nests(ProtoOATickData[f])
    BY DEF ProtoOATickData, Required, Field, Nests
  <2>2. \A i \in DOMAIN fact.tickData : \A f \in {"timestamp", "tick"} :
            f \in DOMAIN TicksOnWire(fact.tickData)[i]
    <3> PICK ticks : ticks = fact.tickData
      OBVIOUS
    <3> SUFFICES ASSUME NEW i \in DOMAIN ticks, NEW f \in {"timestamp", "tick"}
                 PROVE  f \in DOMAIN TicksOnWire(ticks)[i]
      OBVIOUS
    <3>0. ticks \in Seq(TickFact)
      BY <1>5
    <3>1. DOMAIN ticks[i] = {"timestamp", "tick"}
      <4>1. ticks[i] \in TickFact
        BY <3>0
      <4>. QED BY <4>1 DEF TickFact
    <3>2. TicksOnWire(ticks)[i] =
            IF i = 1 THEN ticks[1]
            ELSE [timestamp |-> ticks[i].timestamp - ticks[i - 1].timestamp,
                  tick |-> ticks[i].tick - ticks[i - 1].tick]
      BY DEF TicksOnWire
    <3>3. CASE i = 1
      BY <3>1, <3>2, <3>3
    <3>4. CASE i # 1
      BY <3>2, <3>4
    <3>. QED BY <3>3, <3>4
  <2>. QED BY <1>4, <1>6, <1>7, <1>9, <2>1, <2>2, CompleteMiddleFields
<1>11. DOMAIN read.tickData = DOMAIN fact.tickData
  BY <1>4, <1>6, <1>7, <1>9
<1>12. accumulateTickData(read.tickData) =
        [i \in DOMAIN fact.tickData |-> TickMeans(fact.tickData[i])]
  <2> HIDE DEF read
  <2>. QED BY <1>5, <1>10, <1>11, TicksRead
<1>13. Read(method, params, payload) =
        Resolves([ticks |-> accumulateTickData(read.tickData), hasMore |-> read.hasMore])
  <2>1. Read(method, params, payload) = ReadTickData(payload)
    BY DEF Read, Mutations, Placements
  <2>. QED BY <2>1 DEF ReadTickData
<1>14. AnswerMeans(method, params, fact) =
        Resolves([ticks |-> [i \in DOMAIN fact.tickData |-> TickMeans(fact.tickData[i])],
                  hasMore |-> Complete(schema, fact).hasMore])
  BY <1>1 DEF AnswerMeans, Each
<1>. QED BY <1>4, <1>8, <1>12, <1>13, <1>14

LEMMA fetchFullSymbolReads ==
    ASSUME NEW method, method = "fetchFullSymbol", NEW params, NEW fact,
           MayAnswer(method, fact)
    PROVE  Read(method, params, AnswerPayload(method, fact)) = AnswerMeans(method, params, fact)
<1> PICK payload : payload = AnswerPayload(method, fact)
  OBVIOUS
<1> DEFINE schema == ProtoOASymbolByIdRes
           read == Decode(schema, payload).symbol
           whole == Complete(schema, fact).symbol
           found == {i \in DOMAIN read : read[i].symbolId = params.symbolId}
           asked == {i \in DOMAIN fact.symbol : fact.symbol[i].symbolId = params.symbolId}
<1>1. AnswerSchema(method) = schema /\ OnWire(method, fact) = fact
  BY DEF AnswerSchema, OnWire
<1>2. NamesAccount(schema)
  BY DEF NamesAccount, ProtoOASymbolByIdRes, Required, Field, Nests
<1>3. /\ "symbol" \in DOMAIN schema
      /\ schema["symbol"].kind = "messages" /\ schema["symbol"].of = ProtoOASymbol
  BY DEF ProtoOASymbolByIdRes, Messages, Field
<1>4. read = whole
  BY <1>1, <1>2, <1>3, AnswerFields, ProtoOASymbolByIdResThroughout DEF ReadsAsTold
<1>5. /\ "symbol" \in DOMAIN fact
      /\ \A i \in DOMAIN fact.symbol : i \in Nat /\ "symbolId" \in DOMAIN fact.symbol[i]
      /\ \A i, j \in DOMAIN fact.symbol :
            fact.symbol[i].symbolId = fact.symbol[j].symbolId => i = j
  BY DEF MayAnswer, Has, EachHas
<1>6. whole = [i \in DOMAIN fact.symbol |-> CompleteMiddle(ProtoOASymbol, fact.symbol[i])]
  BY <1>3, <1>5, MessagesAre
<1>7. \A i \in DOMAIN fact.symbol : read[i].symbolId = fact.symbol[i].symbolId
  <2>1. "symbolId" \in DOMAIN ProtoOASymbol /\ ~Nests(ProtoOASymbol["symbolId"])
    BY DEF ProtoOASymbol, Required, Field, Nests
  <2>. QED BY <1>4, <1>5, <1>6, <2>1, CompleteMiddleFields
<1>8. DOMAIN read = DOMAIN fact.symbol
  BY <1>4, <1>6
<1>9. Read(method, params, payload) =
        Resolves(IF found = {} THEN Undefined
                 ELSE read[CHOOSE i \in found : \A j \in found : i <= j])
  <2>1. Read(method, params, payload) = ReadFullSymbol(params.symbolId, payload)
    BY DEF Read, Mutations, Placements
  <2>. QED BY <2>1 DEF ReadFullSymbol
<1>10. AnswerMeans(method, params, fact) =
        Resolves(IF asked = {} THEN Undefined ELSE whole[CHOOSE i \in asked : TRUE])
  BY <1>1 DEF AnswerMeans
<1> HIDE DEF read, whole
<1>11. found = asked
  BY <1>7, <1>8
<1>12. \A i, j \in asked : i \in Nat /\ i = j
  BY <1>5
<1> HIDE DEF found, asked
<1>13. ASSUME asked # {}
       PROVE  (CHOOSE i \in asked : \A j \in asked : i <= j) = (CHOOSE i \in asked : TRUE)
  <2>1. PICK k : k \in asked
    BY <1>13
  <2>2. \A i \in asked : i = k /\ k <= k
    BY <1>12, <2>1
  <2>3. (CHOOSE i \in asked : \A j \in asked : i <= j) \in asked
    BY <2>1, <2>2
  <2>4. (CHOOSE i \in asked : TRUE) \in asked
    BY <2>1
  <2>. QED BY <2>2, <2>3, <2>4
<1>. QED BY <1>4, <1>9, <1>10, <1>11, <1>13

\* The subscriptions and the handshakes, which look no further than the type.
Unread == {"authenticateApplication", "authenticateAccount", "subscribe", "unsubscribe",
           "subscribeDepth", "unsubscribeDepth", "subscribeLiveTrendbars",
           "unsubscribeLiveTrendbars"}

LEMMA UnreadReads ==
    ASSUME NEW method \in Unread, NEW params, NEW fact
    PROVE  Read(method, params, AnswerPayload(method, fact)) = AnswerMeans(method, params, fact)
<1> PICK payload : payload = AnswerPayload(method, fact)
  OBVIOUS
<1>1. Read(method, params, payload) = Resolves(Undefined)
  BY DEF Read, ReadNothing, Mutations, Placements, Unread
<1>2. AnswerMeans(method, params, fact) = Resolves(Undefined)
  BY DEF AnswerMeans, Unread
<1>. QED BY <1>1, <1>2

\* Whatever the broker may answer, the method resolves with what the answer means: every bar,
\* tick, price, volume and amount included (the conversions of spotware-scale.ts,
\* spotware-money.ts and spotware-market-data.ts).
THEOREM EveryAnswerReads ==
    ASSUME UndefinedIsNoRecord, NEW method \in Methods \ Mutations, NEW params, NEW fact,
           MayAnswer(method, fact)
    PROVE  Read(method, params, AnswerPayload(method, fact)) = AnswerMeans(method, params, fact)
<1> DEFINE Goal == Read(method, params, AnswerPayload(method, fact))
                    = AnswerMeans(method, params, fact)
<1> HIDE DEF Goal
<1>1. method \in Unread => Goal
  BY UnreadReads DEF Goal
<1>2. method \in {"getOpenPositionsAndOrders", "getAssets", "getMarginCalls", "getDeals",
                  "getDealsByPositionId", "getOrders"} => Goal
  <2>1. method \in {"getOpenPositionsAndOrders", "getAssets", "getMarginCalls"} => Goal
    BY getOpenPositionsAndOrdersReads, getAssetsReads, getMarginCallsReads,
       ZenonT(30) DEF Goal
  <2>2. method \in {"getDeals", "getDealsByPositionId", "getOrders"} => Goal
    BY getDealsReads, getDealsByPositionIdReads, getOrdersReads, ZenonT(30) DEF Goal
  <2>. QED BY <2>1, <2>2
<1>3. method \in {"getCashFlow", "fetchSymbols", "listAccounts", "getTrader",
                  "getBalance"} => Goal
  <2>1. method \in {"getCashFlow", "fetchSymbols", "listAccounts"} => Goal
    BY getCashFlowReads, fetchSymbolsReads, listAccountsReads, ZenonT(30) DEF Goal
  <2>2. method \in {"getTrader", "getBalance"} => Goal
    BY getTraderReads, getBalanceReads, ZenonT(30) DEF Goal
  <2>. QED BY <2>1, <2>2
<1>4. method \in {"getExpectedMargin", "getPositionsUnrealizedPnL", "getTrendbars",
                  "getTickData", "fetchFullSymbol"} => Goal
  <2>1. method \in {"getExpectedMargin", "getPositionsUnrealizedPnL", "getTrendbars"} => Goal
    BY getExpectedMarginReads, getPositionsUnrealizedPnLReads, getTrendbarsReads,
       ZenonT(30) DEF Goal
  <2>2. method \in {"getTickData", "fetchFullSymbol"} => Goal
    BY getTickDataReads, fetchFullSymbolReads, ZenonT(30) DEF Goal
  <2>. QED BY <2>1, <2>2
<1>5. \/ method \in Unread
      \/ method \in {"getOpenPositionsAndOrders", "getAssets", "getMarginCalls", "getDeals",
                     "getDealsByPositionId", "getOrders"}
      \/ method \in {"getCashFlow", "fetchSymbols", "listAccounts", "getTrader", "getBalance"}
      \/ method \in {"getExpectedMargin", "getPositionsUnrealizedPnL", "getTrendbars",
                     "getTickData", "fetchFullSymbol"}
  BY DEF Methods, HandshakeMethods, Unread
<1>. QED BY <1>1, <1>2, <1>3, <1>4, <1>5 DEF Goal

-----------------------------------------------------------------------------
(* Errors.                                                                    *)

LEMMA RefusalRead ==
    ASSUME NEW schema, Unnested(schema), {"errorCode", "description"} \subseteq DOMAIN schema,
           NEW error, MayRefuse(error)
    PROVE  SaysWhatIsMeant(ReadError(schema, ErrorPayload(schema, error)), RefusalMeans(error))
<1> PICK given : given = ErrorGiven(schema, error)
  OBVIOUS
<1> PICK read : read = Decode(schema, ErrorPayload(schema, error))
  OBVIOUS
<1> PICK all : all = error ++ ForAccount
  OBVIOUS
<1>1. /\ DOMAIN all = DOMAIN error \cup DOMAIN ForAccount
      /\ \A f \in DOMAIN error : all[f] = error[f]
  BY Completed
<1>2. /\ DOMAIN given = DOMAIN schema \cap DOMAIN all
      /\ \A f \in DOMAIN given : given[f] = all[f]
  BY DEF ErrorGiven, Copied
<1>3. DOMAIN ForAccount = {"ctidTraderAccountId"}
  BY DEF ForAccount
<1>4. "errorCode" \in DOMAIN error /\ DOMAIN error \subseteq {"errorCode", "description"}
  BY DEF MayRefuse, Has
<1>5. \A f \in {"errorCode", "description"} :
        /\ f \in DOMAIN schema /\ ~Nests(schema[f])
        /\ f \in DOMAIN given <=> f \in DOMAIN error
        /\ f \in DOMAIN given => given[f] = error[f]
  BY <1>1, <1>2, <1>3, <1>4 DEF Unnested
<1>6. FitsOuter(schema, given)
  BY <1>2 DEF FitsOuter, Fits, Unnested, Nests
<1>7. read = Complete(schema, given)
  BY <1>6, OuterRead DEF ErrorPayload
<1>8. /\ read["errorCode"] = error["errorCode"]
      /\ "description" \in DOMAIN error => read["description"] = error["description"]
  BY <1>4, <1>5, <1>7, ScalarIs
<1>9. ReadError(schema, ErrorPayload(schema, error)) =
        Rejects(read.errorCode, OrElse(read.description, read.errorCode))
  BY DEF ReadError
<1>. QED BY <1>8, <1>9 DEF SaysWhatIsMeant, RefusalMeans, Rejects, OrElse

\* The error schemas of the broker are those of the client.
LEMMA ErrorSchemasAgree ==
    ASSUME NEW method, NEW type \in DOMAIN BrokerErrorSchemas(method)
    PROVE  /\ type \in DOMAIN SchemasOfErrors(method)
           /\ SchemasOfErrors(method)[type] = BrokerErrorSchemas(method)[type]
           /\ BrokerErrorSchemas(method)[type]
                \in {ProtoOAErrorRes, ProtoErrorRes, ProtoOAOrderErrorEvent}
           /\ type \in {2142, 50, 2132}
           /\ type = 2132 => BrokerErrorSchemas(method)[type] = ProtoOAOrderErrorEvent
<1> DEFINE a == ProtoOAPayloadType.PROTO_OA_ERROR_RES
           b == ProtoPayloadType.ERROR_RES
           c == ProtoOAPayloadType.PROTO_OA_ORDER_ERROR_EVENT
<1>1. a = 2142 /\ b = 50 /\ c = 2132
  BY DEF ProtoOAPayloadType, ProtoPayloadType
<1> HIDE DEF a, b, c
<1> DEFINE general == Entry(a, ProtoOAErrorRes) ++ Entry(b, ProtoErrorRes)
           order == Entry(c, ProtoOAOrderErrorEvent)
           extra == IF method \in Mutations THEN order ELSE <<>>
<1>2. /\ BrokerErrorSchemas(method) = general ++ extra
      /\ SchemasOfErrors(method) =
            IF method \in HandshakeMethods THEN general ELSE general ++ order
  BY DEF BrokerErrorSchemas, SchemasOfErrors, HandshakeErrorSchemas, ErrorSchemas, a, b, c
<1>3. /\ DOMAIN general = {a, b} /\ general[a] = ProtoOAErrorRes
      /\ general[b] = ProtoErrorRes
  BY <1>1 DEF Entry, ++
<1>4. DOMAIN order = {c} /\ order[c] = ProtoOAOrderErrorEvent
  BY EntryMaps
<1> HIDE DEF general, order
<1>5. CASE method \in Mutations
  <2>1. method \notin HandshakeMethods
    BY <1>5, MutationsAreNoHandshakes
  <2>2. /\ SchemasOfErrors(method) = general ++ order
        /\ BrokerErrorSchemas(method) = general ++ order
    BY <1>2, <1>5, <2>1
  <2>. QED BY <1>1, <1>3, <1>4, <2>2 DEF ++
<1>6. CASE method \notin Mutations
  <2>1. BrokerErrorSchemas(method) = general ++ <<>>
    BY <1>2, <1>6
  <2>2. DOMAIN <<>> = {}
    OBVIOUS
  <2>3. DOMAIN BrokerErrorSchemas(method) = {a, b}
        /\ \A t \in {a, b} : BrokerErrorSchemas(method)[t] = general[t]
    BY <1>3, <2>1, <2>2 DEF ++
  <2>4. {a, b} \subseteq DOMAIN SchemasOfErrors(method)
        /\ \A t \in {a, b} : SchemasOfErrors(method)[t] = general[t]
    BY <1>2, <1>3 DEF ++
  <2>. QED BY <1>1, <1>3, <2>3, <2>4
<1>. QED BY <1>5, <1>6

\* Whatever the broker may refuse with, the call rejects with the code and the description
\* that were meant (handleMessage of spotware-client.ts, onMessage of the authenticator).
THEOREM EveryErrorReads ==
    ASSUME NEW method, NEW type \in DOMAIN BrokerErrorSchemas(method), NEW error,
           MayRefuse(error), NEW call, call.method = method,
           call.message.payloadType = type,
           call.message.payload = ErrorPayload(BrokerErrorSchemas(method)[type], error)
    PROVE  SaysWhatIsMeant(ResultOf(call), RefusalMeans(error))
<1> PICK schema : schema = BrokerErrorSchemas(method)[type]
  OBVIOUS
<1>1. type \in DOMAIN SchemasOfErrors(method) /\ SchemasOfErrors(method)[type] = schema
  BY ErrorSchemasAgree
<1>2. ResultOf(call) = ReadError(schema, ErrorPayload(schema, error))
  BY <1>1 DEF ResultOf
<1>3. schema \in {ProtoOAErrorRes, ProtoErrorRes, ProtoOAOrderErrorEvent}
  BY ErrorSchemasAgree
<1>4. Unnested(schema)
  BY <1>3, ProtoOAErrorResUnnested, ProtoErrorResUnnested, ProtoOAOrderErrorEventUnnested
<1>5. {"errorCode", "description"} \subseteq DOMAIN schema
  <2>1. /\ {"errorCode", "description"} \subseteq DOMAIN ProtoOAErrorRes
        /\ {"errorCode", "description"} \subseteq DOMAIN ProtoErrorRes
        /\ {"errorCode", "description"} \subseteq DOMAIN ProtoOAOrderErrorEvent
    BY DEF ProtoOAErrorRes, ProtoErrorRes, ProtoOAOrderErrorEvent
  <2>. QED BY <1>3, <2>1
<1>. QED BY <1>2, <1>4, <1>5, RefusalRead

\* An answer is no error.
LEMMA AnswersAreNoErrors ==
    ASSUME NEW method \in Methods \ Mutations
    PROVE  AnswerTypes[method] \notin {2142, 50, 2132}
BY DEF Methods, HandshakeMethods, AnswerTypes, ProtoOAPayloadType

LEMMA ClientErrorTypes ==
    ASSUME NEW method
    PROVE  DOMAIN SchemasOfErrors(method) \subseteq {2142, 50, 2132}
<1>1. DOMAIN HandshakeErrorSchemas \subseteq DOMAIN ErrorSchemas
  BY DEF HandshakeErrorSchemas, ErrorSchemas, ++
<1>. QED BY <1>1, ErrorTypes DEF SchemasOfErrors

LEMMA EveryAnswerIsMeant ==
    ASSUME UndefinedIsNoRecord, NEW method \in Methods \ Mutations, NEW fact,
           MayAnswer(method, fact), NEW call, call.method = method,
           call.message.payloadType = AnswerTypes[method],
           call.message.payload = AnswerPayload(method, fact)
    PROVE  SaysWhatIsMeant(ResultOf(call), AnswerMeans(method, call.params, fact))
<1>1. AnswerTypes[method] \notin DOMAIN SchemasOfErrors(method)
  BY AnswersAreNoErrors, ClientErrorTypes
<1>2. ResultOf(call) = Read(method, call.params, AnswerPayload(method, fact))
  BY <1>1 DEF ResultOf
<1>3. ResultOf(call) = AnswerMeans(method, call.params, fact)
  BY <1>2, EveryAnswerReads
<1>. QED BY <1>3 DEF SaysWhatIsMeant

-----------------------------------------------------------------------------
(* What the listeners are told.                                               *)

LEMMA TypesAre ==
    LET T == ProtoOAPayloadType IN
    /\ T.PROTO_OA_SPOT_EVENT = 2131 /\ T.PROTO_OA_DEPTH_EVENT = 2155
    /\ T.PROTO_OA_TRADER_UPDATE_EVENT = 2123 /\ T.PROTO_OA_MARGIN_CHANGED_EVENT = 2141
    /\ T.PROTO_OA_MARGIN_CALL_TRIGGER_EVENT = 2172
    /\ T.PROTO_OA_MARGIN_CALL_UPDATE_EVENT = 2171
    /\ T.PROTO_OA_ACCOUNTS_TOKEN_INVALIDATED_EVENT = 2147
    /\ T.PROTO_OA_TRAILING_SL_CHANGED_EVENT = 2107
    /\ T.PROTO_OA_ACCOUNT_DISCONNECT_EVENT = 2164
    /\ T.PROTO_OA_EXECUTION_EVENT = 2126 /\ T.PROTO_OA_ORDER_ERROR_EVENT = 2132
    /\ T.PROTO_OA_ERROR_RES = 2142
BY DEF ProtoOAPayloadType

\* Each listener has its own types.
LEMMA ListenersDiffer ==
    ASSUME NEW type, NEW payload
    PROVE  /\ type \notin {2126, 2132, 2107} => TradingEmits(type, payload) = <<>>
           /\ type \notin {2123, 2141, 2172, 2171, 2164, 2147}
                => AccountEmits(type, payload) = <<>>
           /\ type \notin {2131, 2155} => MarketDataEmits(type, payload) = <<>>
<1>1. type \notin {2126, 2132, 2107} => TradingEmits(type, payload) = <<>>
  BY TypesAre DEF TradingEmits
<1>2. type \notin {2123, 2141, 2172, 2171, 2164, 2147} => AccountEmits(type, payload) = <<>>
  BY TypesAre DEF AccountEmits
<1>3. type \notin {2131, 2155} => MarketDataEmits(type, payload) = <<>>
  BY TypesAre DEF MarketDataEmits
<1>. QED BY <1>1, <1>2, <1>3

LEMMA OneEmits ==
    ASSUME NEW type, NEW payload, NEW events, IsSequence(events)
    PROVE  /\ type \in {2126, 2132, 2107} /\ events = TradingEmits(type, payload)
                => Emits(type, payload) = events
           /\ type \in {2123, 2141, 2172, 2171, 2164, 2147}
              /\ events = AccountEmits(type, payload) => Emits(type, payload) = events
           /\ type \in {2131, 2155} /\ events = MarketDataEmits(type, payload)
                => Emits(type, payload) = events
           /\ type \notin {2126, 2132, 2107, 2123, 2141, 2172, 2171, 2164, 2147, 2131, 2155}
                => Emits(type, payload) = <<>>
<1> PICK S : events \in Seq(S)
  BY DEF IsSequence
<1>1. /\ events \o <<>> \o <<>> = events /\ <<>> \o events \o <<>> = events
      /\ <<>> \o <<>> \o events = events /\ <<>> \o <<>> \o <<>> = <<>>
  OBVIOUS
<1>. QED BY <1>1, ListenersDiffer DEF Emits

LEMMA SingleIsSequence == ASSUME NEW e PROVE IsSequence(<<e>>)
<1>1. <<e>> \in Seq({e})
  OBVIOUS
<1>. QED BY <1>1 DEF IsSequence

\* A field of an event is read as it was told.
LEMMA EventFields ==
    ASSUME NEW type, NEW fact, MayTell(type, fact), NEW schema, schema = EventSchema(type),
           WellMadeThroughout(schema), NamesAccount(schema)
    PROVE  ReadsAsTold(schema, EventOnWire(type, fact),
                       Decode(schema, EventPayload(type, fact)))
BY FieldsRead DEF MayTell, EventPayload

\* What is meant of a field, whether the account's number is given or not.
LEMMA MeantFields ==
    ASSUME NEW schema, NEW fact
    PROVE  ReadsAsTold(schema, fact, Complete(schema, fact ++ ForAccount))
<1>1. DOMAIN ForAccount \subseteq {"ctidTraderAccountId"}
  BY DEF ForAccount
<1>. QED BY <1>1, CompleteIsOfFields DEF ReadsAsTold

LEMMA TraderUpdatedEmits ==
    ASSUME UndefinedIsNoRecord, NEW type,
           type = ProtoOAPayloadType.PROTO_OA_TRADER_UPDATE_EVENT, NEW fact,
           MayTell(type, fact)
    PROVE  Emits(type, EventPayload(type, fact)) = EventMeans(type, fact)
<1> PICK payload : payload = EventPayload(type, fact)
  OBVIOUS
<1> DEFINE schema == ProtoOATraderUpdatedEvent
<1> PICK read : read = Decode(schema, payload).trader
  OBVIOUS
<1> PICK meant : meant = Complete(schema, fact ++ ForAccount).trader
  OBVIOUS
<1>1. type = 2123 /\ EventSchema(type) = schema /\ EventOnWire(type, fact) = fact
  BY TypesAre DEF EventSchema, EventOnWire
<1>2. /\ NamesAccount(schema) /\ "trader" \in DOMAIN schema
      /\ schema["trader"].kind = "message" /\ schema["trader"].of = ProtoOATrader
  BY DEF NamesAccount, ProtoOATraderUpdatedEvent, Required, RequiredMessage, Field, Nests
<1>3. read = Complete(schema, fact).trader
  BY <1>1, <1>2, EventFields, ProtoOATraderUpdatedEventThroughout DEF ReadsAsTold
<1>4. meant = Complete(schema, fact).trader
  BY <1>2, MeantFields DEF ReadsAsTold
<1>5. "trader" \in DOMAIN fact
  BY DEF MayTell, Has
<1>6. read # Undefined
  BY <1>2, <1>3, <1>5, MessageIs, MessageIsThere
<1> PICK name : name = "traderUpdated"
  OBVIOUS
<1>7. AccountEmits(type, payload) = <<Emission(name, <<read>>)>>
  <2>1. AccountEmits(type, payload) = EmissionOf(name, read)
    BY <1>1, TypesAre DEF AccountEmits
  <2>. QED BY <1>6, <2>1 DEF EmissionOf
<1>8. EventMeans(type, fact) = <<Emission(name, <<meant>>)>>
  BY <1>1, TypesAre DEF EventMeans
<1>. QED BY <1>1, <1>3, <1>4, <1>7, <1>8, OneEmits, SingleIsSequence

LEMMA MarginCallTriggeredEmits ==
    ASSUME UndefinedIsNoRecord, NEW type,
           type = ProtoOAPayloadType.PROTO_OA_MARGIN_CALL_TRIGGER_EVENT, NEW fact,
           MayTell(type, fact)
    PROVE  Emits(type, EventPayload(type, fact)) = EventMeans(type, fact)
<1> PICK payload : payload = EventPayload(type, fact)
  OBVIOUS
<1> DEFINE schema == ProtoOAMarginCallTriggerEvent
<1> PICK read : read = Decode(schema, payload).marginCall
  OBVIOUS
<1> PICK meant : meant = Complete(schema, fact ++ ForAccount).marginCall
  OBVIOUS
<1>1. type = 2172 /\ EventSchema(type) = schema /\ EventOnWire(type, fact) = fact
  BY TypesAre DEF EventSchema, EventOnWire
<1>2. /\ NamesAccount(schema) /\ "marginCall" \in DOMAIN schema
      /\ schema["marginCall"].kind = "message" /\ schema["marginCall"].of = ProtoOAMarginCall
  BY DEF NamesAccount, ProtoOAMarginCallTriggerEvent, Required, RequiredMessage, Field, Nests
<1>3. read = Complete(schema, fact).marginCall
  BY <1>1, <1>2, EventFields, ProtoOAMarginCallTriggerEventThroughout DEF ReadsAsTold
<1>4. meant = Complete(schema, fact).marginCall
  BY <1>2, MeantFields DEF ReadsAsTold
<1>5. "marginCall" \in DOMAIN fact
  BY <1>1, TypesAre DEF MayTell, Has
<1>6. read # Undefined
  BY <1>2, <1>3, <1>5, MessageIs, MessageIsThere
<1> PICK name : name = "marginCallTriggered"
  OBVIOUS
<1>7. AccountEmits(type, payload) = <<Emission(name, <<read>>)>>
  <2>1. AccountEmits(type, payload) = EmissionOf(name, read)
    BY <1>1, TypesAre DEF AccountEmits
  <2>. QED BY <1>6, <2>1 DEF EmissionOf
<1>8. EventMeans(type, fact) = <<Emission(name, <<meant>>)>>
  BY <1>1, TypesAre DEF EventMeans
<1>. QED BY <1>1, <1>3, <1>4, <1>7, <1>8, OneEmits, SingleIsSequence

LEMMA MarginCallUpdatedEmits ==
    ASSUME UndefinedIsNoRecord, NEW type,
           type = ProtoOAPayloadType.PROTO_OA_MARGIN_CALL_UPDATE_EVENT, NEW fact,
           MayTell(type, fact)
    PROVE  Emits(type, EventPayload(type, fact)) = EventMeans(type, fact)
<1> PICK payload : payload = EventPayload(type, fact)
  OBVIOUS
<1> DEFINE schema == ProtoOAMarginCallUpdateEvent
<1> PICK read : read = Decode(schema, payload).marginCall
  OBVIOUS
<1> PICK meant : meant = Complete(schema, fact ++ ForAccount).marginCall
  OBVIOUS
<1>1. type = 2171 /\ EventSchema(type) = schema /\ EventOnWire(type, fact) = fact
  BY TypesAre DEF EventSchema, EventOnWire
<1>2. /\ NamesAccount(schema) /\ "marginCall" \in DOMAIN schema
      /\ schema["marginCall"].kind = "message" /\ schema["marginCall"].of = ProtoOAMarginCall
  BY DEF NamesAccount, ProtoOAMarginCallUpdateEvent, Required, RequiredMessage, Field, Nests
<1>3. read = Complete(schema, fact).marginCall
  BY <1>1, <1>2, EventFields, ProtoOAMarginCallUpdateEventThroughout DEF ReadsAsTold
<1>4. meant = Complete(schema, fact).marginCall
  BY <1>2, MeantFields DEF ReadsAsTold
<1>5. "marginCall" \in DOMAIN fact
  BY <1>1, TypesAre DEF MayTell, Has
<1>6. read # Undefined
  BY <1>2, <1>3, <1>5, MessageIs, MessageIsThere
<1> PICK name : name = "marginCallUpdated"
  OBVIOUS
<1>7. AccountEmits(type, payload) = <<Emission(name, <<read>>)>>
  <2>1. AccountEmits(type, payload) = EmissionOf(name, read)
    BY <1>1, TypesAre DEF AccountEmits
  <2>. QED BY <1>6, <2>1 DEF EmissionOf
<1>8. EventMeans(type, fact) = <<Emission(name, <<meant>>)>>
  BY <1>1, TypesAre DEF EventMeans
<1>. QED BY <1>1, <1>3, <1>4, <1>7, <1>8, OneEmits, SingleIsSequence

LEMMA MarginChangedEmits ==
    ASSUME NEW type, type = ProtoOAPayloadType.PROTO_OA_MARGIN_CHANGED_EVENT, NEW fact,
           MayTell(type, fact)
    PROVE  Emits(type, EventPayload(type, fact)) = EventMeans(type, fact)
<1> PICK payload : payload = EventPayload(type, fact)
  OBVIOUS
<1> DEFINE schema == ProtoOAMarginChangedEvent
<1> PICK read : read = Decode(schema, payload)
  OBVIOUS
<1>1. type = 2141 /\ EventSchema(type) = schema /\ EventOnWire(type, fact) = fact
  BY TypesAre DEF EventSchema, EventOnWire
<1>2. /\ NamesAccount(schema)
      /\ \A f \in {"positionId", "usedMargin", "moneyDigits"} :
            f \in DOMAIN schema /\ ~Nests(schema[f]) /\ f # "ctidTraderAccountId"
      /\ schema["moneyDigits"].default = 0
  BY DEF NamesAccount, ProtoOAMarginChangedEvent, Required, Optional, Field, Nests
<1>3. WellMadeThroughout(schema)
  BY ProtoOAMarginChangedEventUnnested, UnnestedIsInside
<1>4. \A f \in {"positionId", "usedMargin", "moneyDigits"} : read[f] = Complete(schema, fact)[f]
  BY <1>1, <1>2, <1>3, EventFields DEF ReadsAsTold
<1>5. {"positionId", "usedMargin"} \subseteq DOMAIN fact /\ MoneyFact(fact)
  BY <1>1, TypesAre DEF MayTell, Has
<1>6. /\ read.positionId = fact.positionId /\ read.usedMargin = fact.usedMargin
      /\ read.moneyDigits = IF "moneyDigits" \in DOMAIN fact THEN fact.moneyDigits ELSE 0
  BY <1>2, <1>4, <1>5, ScalarIs
<1>7. fromMoneyDigits(read.usedMargin, read.moneyDigits)
        = Decimal(fact.usedMargin, Digits(fact))
  BY <1>5, <1>6, MoneyRead
<1> PICK name : name = "marginChanged"
  OBVIOUS
<1> DEFINE changed == [positionId |-> fact.positionId,
                       usedMargin |-> Decimal(fact.usedMargin, Digits(fact))]
<1>8. AccountEmits(type, payload) =
        <<Emission(name, <<[positionId |-> read.positionId,
                            usedMargin |-> fromMoneyDigits(read.usedMargin,
                                                           read.moneyDigits)]>>)>>
  BY <1>1, TypesAre DEF AccountEmits
<1>9. AccountEmits(type, payload) = <<Emission(name, <<changed>>)>>
  BY <1>6, <1>7, <1>8
<1>10. EventMeans(type, fact) = <<Emission(name, <<changed>>)>>
  BY <1>1, TypesAre DEF EventMeans
<1> HIDE DEF changed
<1>. QED BY <1>1, <1>9, <1>10, OneEmits, SingleIsSequence

LEMMA TokenInvalidatedEmits ==
    ASSUME NEW type, type = ProtoOAPayloadType.PROTO_OA_ACCOUNTS_TOKEN_INVALIDATED_EVENT,
           NEW fact, MayTell(type, fact)
    PROVE  Emits(type, EventPayload(type, fact)) = EventMeans(type, fact)
<1> PICK payload : payload = EventPayload(type, fact)
  OBVIOUS
<1> DEFINE schema == ProtoOAAccountsTokenInvalidatedEvent
<1> PICK read : read = Decode(schema, payload)
  OBVIOUS
<1> PICK meant : meant = Complete(schema, fact ++ ForAccount)
  OBVIOUS
<1>1. type = 2147 /\ EventSchema(type) = schema /\ EventOnWire(type, fact) = fact
  BY TypesAre DEF EventSchema, EventOnWire
<1>2. \A f \in {"ctidTraderAccountIds", "reason"} :
        f \in DOMAIN schema /\ f # "ctidTraderAccountId"
  BY DEF ProtoOAAccountsTokenInvalidatedEvent
<1>3. "ctidTraderAccountId" \notin DOMAIN schema
  BY DEF ProtoOAAccountsTokenInvalidatedEvent
<1>4. NamesAccount(schema)
  BY <1>3 DEF NamesAccount
<1>5. WellMadeThroughout(schema)
  BY ProtoOAAccountsTokenInvalidatedEventUnnested, UnnestedIsInside
<1>6. \A f \in {"ctidTraderAccountIds", "reason"} : read[f] = Complete(schema, fact)[f]
  BY <1>1, <1>2, <1>4, <1>5, EventFields DEF ReadsAsTold
<1>7. \A f \in {"ctidTraderAccountIds", "reason"} : meant[f] = Complete(schema, fact)[f]
  BY <1>2, MeantFields DEF ReadsAsTold
<1>8. read.ctidTraderAccountIds = meant.ctidTraderAccountIds /\ read.reason = meant.reason
  BY <1>6, <1>7
<1> PICK name : name = "tokenInvalidated"
  OBVIOUS
<1>9. AccountEmits(type, payload) =
        <<Emission(name, <<read.ctidTraderAccountIds, read.reason>>)>>
  BY <1>1, TypesAre DEF AccountEmits
<1>10. EventMeans(type, fact) =
        <<Emission(name, <<meant.ctidTraderAccountIds, meant.reason>>)>>
  BY <1>1, TypesAre DEF EventMeans
<1>. QED BY <1>1, <1>8, <1>9, <1>10, OneEmits, SingleIsSequence

LEMMA TrailingStopLossChangedEmits ==
    ASSUME NEW type, type = ProtoOAPayloadType.PROTO_OA_TRAILING_SL_CHANGED_EVENT,
           NEW fact, MayTell(type, fact)
    PROVE  Emits(type, EventPayload(type, fact)) = EventMeans(type, fact)
<1> PICK payload : payload = EventPayload(type, fact)
  OBVIOUS
<1> DEFINE schema == ProtoOATrailingSLChangedEvent
<1> PICK read : read = Decode(schema, payload)
  OBVIOUS
<1> PICK meant : meant = Complete(schema, fact ++ ForAccount)
  OBVIOUS
<1>1. type = 2107 /\ EventSchema(type) = schema /\ EventOnWire(type, fact) = fact
  BY TypesAre DEF EventSchema, EventOnWire
<1>2. NamesAccount(schema) /\ "ctidTraderAccountId" \in DOMAIN schema
  BY DEF NamesAccount, ProtoOATrailingSLChangedEvent, Required, Field, Nests
<1>3. WellMadeThroughout(schema)
  BY ProtoOATrailingSLChangedEventUnnested, UnnestedIsInside
<1>4. Copied(ForAccount, DOMAIN schema) = ForAccount
  BY <1>2 DEF Copied, ForAccount
<1>5. WithinOuter(schema, fact)
  BY <1>1 DEF MayTell
<1>6. payload = AccountMessage(schema, fact)
  BY <1>1 DEF EventPayload
<1>7. read = meant
  BY <1>2, <1>3, <1>4, <1>5, <1>6, AccountMessageRead
<1> PICK name : name = "trailingStopLossChanged"
  OBVIOUS
<1>8. TradingEmits(type, payload) = <<Emission(name, <<read>>)>>
  BY <1>1, TypesAre DEF TradingEmits
<1>9. EventMeans(type, fact) = <<Emission(name, <<meant>>)>>
  BY <1>1, TypesAre DEF EventMeans
<1>. QED BY <1>1, <1>7, <1>8, <1>9, OneEmits, SingleIsSequence

LEMMA AccountDisconnectedEmits ==
    ASSUME NEW type, type = ProtoOAPayloadType.PROTO_OA_ACCOUNT_DISCONNECT_EVENT, NEW fact
    PROVE  Emits(type, EventPayload(type, fact)) = EventMeans(type, fact)
<1> PICK payload : payload = EventPayload(type, fact)
  OBVIOUS
<1>1. type = 2164
  BY TypesAre
<1> PICK name : name = "accountDisconnected"
  OBVIOUS
<1>2. AccountEmits(type, payload) = <<Emission(name, <<>>)>>
  BY <1>1, TypesAre DEF AccountEmits
<1>3. EventMeans(type, fact) = <<Emission(name, <<>>)>>
  BY <1>1, TypesAre DEF EventMeans
<1>. QED BY <1>1, <1>2, <1>3, OneEmits, SingleIsSequence

\* A price that is left out is none.
LEMMA PriceRead ==
    ASSUME NEW fact, PricesFact(fact), NEW side \in {"bid", "ask"}, NEW value,
           value = IF side \in DOMAIN fact THEN fact[side] ELSE 0
    PROVE  toOptionalPrice(value) = PriceOf(fact, side)
<1>1. CASE side \in DOMAIN fact
  <2>1. value \in Nat \ {0} /\ value = fact[side]
    BY <1>1 DEF PricesFact
  <2>2. ~IsFalsy(value)
    BY <2>1, UndefinedAssumption DEF IsFalsy
  <2>. QED BY <1>1, <2>1, <2>2 DEF toOptionalPrice, PriceOf, SPOTWARE_PRICE_DIGITS
<1>2. CASE side \notin DOMAIN fact
  <2>1. IsFalsy(value)
    BY <1>2 DEF IsFalsy
  <2>. QED BY <1>2, <2>1 DEF toOptionalPrice, PriceOf
<1>. QED BY <1>1, <1>2

LEMMA QuoteRead ==
    ASSUME NEW quote, PricesFact(quote), {"id", "size"} \subseteq DOMAIN quote
    PROVE  toCleanDepthQuote(CompleteMiddle(ProtoOADepthQuote, quote)) = QuoteMeans(quote)
<1> PICK read : read = CompleteMiddle(ProtoOADepthQuote, quote)
  OBVIOUS
<1>1. \A f \in {"id", "size", "bid", "ask"} :
        f \in DOMAIN ProtoOADepthQuote /\ ~Nests(ProtoOADepthQuote[f])
  BY DEF ProtoOADepthQuote, Required, Optional, Field, Nests
<1>2. \A side \in {"bid", "ask"} : ProtoOADepthQuote[side].default = 0
  BY DEF ProtoOADepthQuote, Optional, Field
<1>3. read.id = quote.id /\ read.size = quote.size
  BY <1>1, CompleteMiddleFields
<1>4. \A side \in {"bid", "ask"} : toOptionalPrice(read[side]) = PriceOf(quote, side)
  <2>1. \A side \in {"bid", "ask"} :
            read[side] = IF side \in DOMAIN quote THEN quote[side] ELSE 0
    BY <1>1, <1>2, CompleteMiddleFields
  <2>. QED BY <2>1, PriceRead
<1>5. /\ toOptionalPrice(read.bid) = PriceOf(quote, "bid")
      /\ toOptionalPrice(read.ask) = PriceOf(quote, "ask")
  BY <1>4 DEF PriceOf
<1>. QED BY <1>3, <1>5 DEF toCleanDepthQuote, QuoteMeans, PriceOf

LEMMA DepthEmits ==
    ASSUME NEW type, type = ProtoOAPayloadType.PROTO_OA_DEPTH_EVENT, NEW fact,
           MayTell(type, fact)
    PROVE  Emits(type, EventPayload(type, fact)) = EventMeans(type, fact)
<1> PICK payload : payload = EventPayload(type, fact)
  OBVIOUS
<1> DEFINE schema == ProtoOADepthEvent
<1> PICK read : read = Decode(schema, payload)
  OBVIOUS
<1> PICK meant : meant = Complete(schema, fact ++ ForAccount)
  OBVIOUS
<1>1. type = 2155 /\ EventSchema(type) = schema /\ EventOnWire(type, fact) = fact
  BY TypesAre DEF EventSchema, EventOnWire
<1>2. /\ NamesAccount(schema)
      /\ \A f \in {"symbolId", "newQuotes", "deletedQuotes"} :
            f \in DOMAIN schema /\ f # "ctidTraderAccountId"
      /\ ~Nests(schema["symbolId"])
      /\ schema["newQuotes"].kind = "messages" /\ schema["newQuotes"].of = ProtoOADepthQuote
  BY DEF NamesAccount, ProtoOADepthEvent, Required, Repeated, Messages, Field, Nests
<1>3. \A f \in {"symbolId", "newQuotes", "deletedQuotes"} :
        read[f] = Complete(schema, fact)[f] /\ meant[f] = Complete(schema, fact)[f]
  BY <1>1, <1>2, EventFields, MeantFields, ProtoOADepthEventThroughout DEF ReadsAsTold
<1>4. /\ {"symbolId", "newQuotes"} \subseteq DOMAIN fact
      /\ \A i \in DOMAIN fact.newQuotes :
            {"id", "size"} \subseteq DOMAIN fact.newQuotes[i] /\ PricesFact(fact.newQuotes[i])
  BY <1>1, TypesAre DEF MayTell, Has, EachHas
<1>5. read.symbolId = fact.symbolId
  BY <1>2, <1>3, <1>4, ScalarIs
<1>6. read.newQuotes =
        [i \in DOMAIN fact.newQuotes |-> CompleteMiddle(ProtoOADepthQuote, fact.newQuotes[i])]
  BY <1>2, <1>3, <1>4, MessagesAre
<1>7. read.deletedQuotes = meant.deletedQuotes
  BY <1>3
<1>8. [i \in DOMAIN read.newQuotes |-> toCleanDepthQuote(read.newQuotes[i])]
        = [i \in DOMAIN fact.newQuotes |-> QuoteMeans(fact.newQuotes[i])]
  BY <1>4, <1>6, QuoteRead
<1> PICK name : name = "depth"
  OBVIOUS
<1> PICK quotes : quotes = [i \in DOMAIN fact.newQuotes |-> QuoteMeans(fact.newQuotes[i])]
  OBVIOUS
<1> DEFINE depth == [symbolId |-> fact.symbolId, newQuotes |-> quotes,
                     deletedQuoteIds |-> meant.deletedQuotes]
<1>9. MarketDataEmits(type, payload) =
        <<Emission(name,
            <<[symbolId |-> read.symbolId,
               newQuotes |-> [i \in DOMAIN read.newQuotes |->
                                toCleanDepthQuote(read.newQuotes[i])],
               deletedQuoteIds |-> read.deletedQuotes]>>)>>
  BY <1>1, TypesAre DEF MarketDataEmits, Each
<1>10. MarketDataEmits(type, payload) = <<Emission(name, <<depth>>)>>
  BY <1>5, <1>7, <1>8, <1>9
<1>11. EventMeans(type, fact) = <<Emission(name, <<depth>>)>>
  BY <1>1, TypesAre DEF EventMeans, Each
<1> HIDE DEF depth
<1>. QED BY <1>1, <1>10, <1>11, OneEmits, SingleIsSequence

LEMMA SpotEmits ==
    ASSUME NEW type, type = ProtoOAPayloadType.PROTO_OA_SPOT_EVENT, NEW fact,
           MayTell(type, fact)
    PROVE  Emits(type, EventPayload(type, fact)) = EventMeans(type, fact)
<1> PICK payload : payload = EventPayload(type, fact)
  OBVIOUS
<1>0. PICK told : told = [fact EXCEPT !.trendbar = Each(BarOnWire, @)]
  OBVIOUS
<1> DEFINE schema == ProtoOASpotEvent
<1> PICK read : read = Decode(schema, payload)
  OBVIOUS
<1> PICK meant : meant = Complete(schema, fact ++ ForAccount)
  OBVIOUS
<1>1. type = 2131 /\ EventSchema(type) = schema
  BY TypesAre DEF EventSchema
<1>2. EventOnWire(type, fact) = told
  BY <1>0, <1>1, TypesAre DEF EventOnWire
<1>3. /\ NamesAccount(schema)
      /\ \A f \in {"symbolId", "bid", "ask", "timestamp", "trendbar"} :
            f \in DOMAIN schema /\ f # "ctidTraderAccountId"
      /\ \A f \in {"symbolId", "bid", "ask", "timestamp"} : ~Nests(schema[f])
      /\ schema["trendbar"].kind = "messages" /\ schema["trendbar"].of = ProtoOATrendbar
      /\ schema["bid"].default = 0 /\ schema["ask"].default = 0
  BY DEF NamesAccount, ProtoOASpotEvent, Required, Optional, Messages, Field, Nests
<1>4. \A f \in {"symbolId", "bid", "ask", "timestamp", "trendbar"} :
        read[f] = Complete(schema, told)[f]
  BY <1>1, <1>2, <1>3, EventFields, ProtoOASpotEventThroughout DEF ReadsAsTold
<1>5. meant.timestamp = Complete(schema, fact)["timestamp"]
  BY <1>3, MeantFields DEF ReadsAsTold
<1>6. /\ {"symbolId", "trendbar"} \subseteq DOMAIN fact /\ PricesFact(fact)
      /\ fact.trendbar \in Seq(BarFact)
  BY <1>1, TypesAre DEF MayTell, Has, BarFacts, BarFact
<1>7. /\ DOMAIN told = DOMAIN fact
      /\ \A f \in DOMAIN fact \ {"trendbar"} : told[f] = fact[f]
      /\ told.trendbar = [i \in DOMAIN fact.trendbar |-> BarOnWire(fact.trendbar[i])]
  BY <1>0, <1>6 DEF Each
<1>8. \A f \in {"symbolId", "bid", "ask", "timestamp"} :
        Complete(schema, told)[f] = IF f \in DOMAIN fact THEN fact[f] ELSE schema[f].default
  <2>1. \A f \in {"symbolId", "bid", "ask", "timestamp"} :
        Complete(schema, told)[f] = IF f \in DOMAIN told THEN told[f] ELSE schema[f].default
    BY <1>3, ScalarIs
  <2>. QED BY <1>7, <2>1
<1>9. Complete(schema, fact)["timestamp"] =
        IF "timestamp" \in DOMAIN fact THEN fact["timestamp"] ELSE schema["timestamp"].default
  BY <1>3, ScalarIs
<1>10. read.symbolId = fact.symbolId
  BY <1>4, <1>6, <1>8
<1>11. read.timestamp = meant.timestamp
  BY <1>4, <1>5, <1>8, <1>9
<1>12. /\ toOptionalPrice(read.bid) = PriceOf(fact, "bid")
       /\ toOptionalPrice(read.ask) = PriceOf(fact, "ask")
  <2>1. \A side \in {"bid", "ask"} :
            read[side] = IF side \in DOMAIN fact THEN fact[side] ELSE 0
    BY <1>3, <1>4, <1>8
  <2>2. \A side \in {"bid", "ask"} : toOptionalPrice(read[side]) = PriceOf(fact, side)
    BY <1>6, <2>1, PriceRead
  <2>. QED BY <2>2 DEF PriceOf
<1>13. read.trendbar =
        [i \in DOMAIN told.trendbar |-> CompleteMiddle(ProtoOATrendbar, told.trendbar[i])]
  <2>1. "trendbar" \in DOMAIN schema \cap DOMAIN told
    BY <1>3, <1>6, <1>7
  <2>2. Complete(schema, told)["trendbar"] = 
            [i \in DOMAIN told["trendbar"] |->
                CompleteMiddle(schema["trendbar"].of, told["trendbar"][i])]
    BY <1>3, <2>1, MessagesAre
  <2>. QED BY <1>3, <1>4, <2>2
<1>14. /\ DOMAIN read.trendbar = DOMAIN fact.trendbar
       /\ \A i \in DOMAIN fact.trendbar :
            toCleanTrendbar(read.trendbar[i]) = BarMeans(fact.trendbar[i])
  <2>1. \A i \in DOMAIN fact.trendbar :
        toCleanTrendbar(CompleteMiddle(ProtoOATrendbar, BarOnWire(fact.trendbar[i])))
            = BarMeans(fact.trendbar[i])
    BY <1>6, BarRead
  <2>. QED BY <1>7, <1>13, <2>1
<1>p. PICK price : price = [symbolId |-> fact.symbolId, bid |-> PriceOf(fact, "bid"),
                          ask |-> PriceOf(fact, "ask"), timestamp |-> meant.timestamp]
  OBVIOUS
<1> PICK name : name = "price"
  OBVIOUS
<1> PICK barName : barName = "trendbar"
  OBVIOUS
<1>b. PICK bars : bars = [i \in DOMAIN fact.trendbar |->
                    Emission(barName, <<fact.symbolId, BarMeans(fact.trendbar[i])>>)]
  OBVIOUS
<1>15. MarketDataEmits(type, payload) =
        <<Emission(name,
            <<[symbolId |-> read.symbolId, bid |-> toOptionalPrice(read.bid),
               ask |-> toOptionalPrice(read.ask), timestamp |-> read.timestamp]>>)>>
        \o [i \in DOMAIN read.trendbar |->
                Emission(barName, <<read.symbolId, toCleanTrendbar(read.trendbar[i])>>)]
  BY <1>1, TypesAre DEF MarketDataEmits, Each
<1>16. [i \in DOMAIN read.trendbar |->
            Emission(barName, <<read.symbolId, toCleanTrendbar(read.trendbar[i])>>)] = bars
  BY <1>b, <1>10, <1>14
<1>17. [symbolId |-> read.symbolId, bid |-> toOptionalPrice(read.bid),
        ask |-> toOptionalPrice(read.ask), timestamp |-> read.timestamp] = price
  BY <1>p, <1>10, <1>11, <1>12
<1>18. MarketDataEmits(type, payload) = <<Emission(name, <<price>>)>> \o bars
  BY <1>15, <1>16, <1>17
<1>19. EventMeans(type, fact) = <<Emission(name, <<price>>)>> \o bars
  BY <1>p, <1>b, <1>1, TypesAre DEF EventMeans, Each
<1>20. IsSequence(<<Emission(name, <<price>>)>> \o bars)
  <2>1. PICK e : e = Emission(name, <<price>>)
    OBVIOUS
  <2>2. PICK n \in Nat : DOMAIN fact.trendbar = 1..n
    BY <1>6
  <2>3. DOMAIN bars = 1..n
    BY <1>b, <2>2
  <2>4. bars \in Seq({bars[i] : i \in 1..n})
    <3>1. bars = [i \in 1..n |-> bars[i]]
      BY <1>b, <2>3
    <3>2. \A i \in 1..n : bars[i] \in {bars[j] : j \in 1..n}
      OBVIOUS
    <3> PICK S : S = {bars[j] : j \in 1..n}
      OBVIOUS
    <3>3. [i \in 1..n |-> bars[i]] \in [1..n -> S]
      BY <3>2
    <3>4. [i \in 1..n |-> bars[i]] \in Seq(S)
      BY <3>3, SeqDef
    <3>. QED BY <3>1, <3>4
  <2>5. <<e>> \o bars \in Seq({e} \cup {bars[i] : i \in 1..n})
    <3> DEFINE S == {e} \cup {bars[i] : i \in 1..n}
    <3>1. bars \in Seq(S) /\ <<e>> \in Seq(S)
      <4>1. Seq({bars[i] : i \in 1..n}) \subseteq Seq(S)
        <5> DEFINE T == {bars[i] : i \in 1..n}
        <5>1. T \subseteq S
          OBVIOUS
        <5> HIDE DEF S, T
        <5>2. Seq(T) \subseteq Seq(S)
          BY <5>1
        <5>. QED BY <5>2 DEF T
      <4>2. <<e>> \in Seq(S)
        OBVIOUS
      <4>. QED BY <2>4, <4>1, <4>2
    <3> HIDE DEF S
    <3>2. <<e>> \o bars \in Seq(S)
      BY <3>1
    <3>. QED BY <3>2 DEF S
  <2>. QED BY <2>1, <2>5 DEF IsSequence
<1>e. PICK events : events = <<Emission(name, <<price>>)>> \o bars
  OBVIOUS
<1>21. MarketDataEmits(type, payload) = events /\ IsSequence(events) /\ type = 2131
  BY <1>e, <1>1, <1>18, <1>20
<1>22. Emits(type, payload) = events
  BY <1>21, OneEmits
<1>. QED BY <1>e, <1>19, <1>22

\* Whatever the broker tells of its own accord is emitted as it was meant (the 'message'
\* listeners of spotware-trading.ts, spotware-account.ts and spotware-market-data.ts).
THEOREM EveryEventEmits ==
    ASSUME UndefinedIsNoRecord, NEW type, NEW fact, MayTell(type, fact)
    PROVE  Emits(type, EventPayload(type, fact)) = EventMeans(type, fact)
<1>1. type \in EventTypes
  BY DEF MayTell
<1>. QED BY <1>1, SpotEmits, DepthEmits, TraderUpdatedEmits, MarginChangedEmits,
            MarginCallTriggeredEmits, MarginCallUpdatedEmits, TokenInvalidatedEmits,
            TrailingStopLossChangedEmits, AccountDisconnectedEmits DEF EventTypes

\* The listeners are told nothing of an answer.
LEMMA AnswersAreNotTold ==
    ASSUME NEW method \in Methods \ Mutations, NEW payload
    PROVE  Emits(AnswerTypes[method], payload) = <<>>
<1>1. AnswerTypes[method]
        \notin {2126, 2132, 2107, 2123, 2141, 2172, 2171, 2164, 2147, 2131, 2155}
  BY DEF Methods, HandshakeMethods, AnswerTypes, ProtoOAPayloadType
<1>2. IsSequence(<<>>)
  BY DEF IsSequence
<1>. QED BY <1>1, <1>2, OneEmits

\* An error is decoded as it was given.
LEMMA ErrorFits ==
    ASSUME NEW schema, Unnested(schema), NEW error
    PROVE  Decode(schema, ErrorPayload(schema, error))
            = Complete(schema, ErrorGiven(schema, error))
<1> PICK given : given = ErrorGiven(schema, error)
  OBVIOUS
<1>1. DOMAIN given \subseteq DOMAIN schema
  BY DEF ErrorGiven, Copied
<1>2. FitsOuter(schema, given)
  BY <1>1 DEF FitsOuter, Fits, Unnested, Nests
<1>. QED BY <1>2, OuterRead DEF ErrorPayload

\* Of the errors they are told the order errors.
LEMMA ErrorsAreTold ==
    ASSUME NEW method, NEW type \in DOMAIN BrokerErrorSchemas(method), NEW error
    PROVE  Emits(type, ErrorPayload(BrokerErrorSchemas(method)[type], error))
            = RefusalTells(type, error)
<1> PICK schema : schema = BrokerErrorSchemas(method)[type]
  OBVIOUS
<1> PICK payload : payload = ErrorPayload(schema, error)
  OBVIOUS
<1>1. type \in {2142, 50, 2132} /\ (type = 2132 => schema = ProtoOAOrderErrorEvent)
  BY ErrorSchemasAgree
<1>2. CASE type = 2132
  <2> PICK name : name = "orderError"
    OBVIOUS
  <2> PICK read : read = Decode(ProtoOAOrderErrorEvent, payload)
    OBVIOUS
  <2>1. read = Complete(ProtoOAOrderErrorEvent, ErrorGiven(ProtoOAOrderErrorEvent, error))
    BY <1>1, <1>2, ErrorFits, ProtoOAOrderErrorEventUnnested
  <2>2. TradingEmits(type, payload) = <<Emission(name, <<read>>)>>
    BY <1>2, TypesAre DEF TradingEmits
  <2>3. RefusalTells(type, error) = <<Emission(name, <<read>>)>>
    BY <1>2, <2>1, TypesAre DEF RefusalTells
  <2>. QED BY <1>2, <2>2, <2>3, OneEmits, SingleIsSequence
<1>3. CASE type \in {2142, 50}
  <2>1. RefusalTells(type, error) = <<>>
    BY <1>3, TypesAre DEF RefusalTells
  <2>2. IsSequence(<<>>)
    BY DEF IsSequence
  <2>. QED BY <1>3, <2>1, <2>2, OneEmits
<1>. QED BY <1>1, <1>2, <1>3

-----------------------------------------------------------------------------
(* Messages on their way.                                                     *)

\* The answer that c, called with method and params, would read from message.
Reading(method, params, message) ==
    [state |-> "answered", method |-> method, params |-> params, message |-> message]

\* What the listeners emit of m is what it means to them.
IsToldAsMeant(m) == Emits(MessageRead(m).payloadType, MessageRead(m).payload) = m.events

\* A handshake also takes messages with no id, of these types; a message for nobody is of none.
HandshakeTypes == {2101, 2103, 2150, 2142, 50, 2132}
ForNobody(m) == MessageRead(m).payloadType \notin HandshakeTypes

\* What the call that m has the id of reads in it is what it means to that call.
IsReadAsMeant(m) ==
    IdOf(m) \in Calls =>
        SaysWhatIsMeant(ResultOf(Reading(calls[IdOf(m)].method, calls[IdOf(m)].params,
                                         MessageRead(m))), m.result)

IsMeant(m) ==
    /\ IsToldAsMeant(m)
    /\ IsReadAsMeant(m)
    /\ IdOf(m) \in Calls \/ (IdOf(m) = "" /\ ForNobody(m))

\* What a call reads in an answer depends on its method and parameters alone.
LEMMA ResultsAlike ==
    ASSUME NEW call, NEW other, other.method = call.method, other.params = call.params,
           other.message = call.message
    PROVE  ResultOf(other) = ResultOf(call)
BY DEF ResultOf

\* An execution event is emitted as it was meant, and so does a mutation read it.
LEMMA ExecutionIsMeant ==
    ASSUME NEW event, FitsOuter(ProtoOAExecutionEvent, event), NEW id, NEW cause, NEW m,
           m = Execution(event, id, cause)
    PROVE  /\ IsToldAsMeant(m) /\ ForNobody(m) /\ IdOf(m) = id
           /\ \A params : \A method \in Mutations :
                SaysWhatIsMeant(ResultOf(Reading(method, params, MessageRead(m))), m.result)
<1> PICK meaning : meaning = Complete(ProtoOAExecutionEvent, event)
  OBVIOUS
<1> PICK name : name = "execution"
  OBVIOUS
<1>1. /\ MessageRead(m).payloadType = ProtoOAPayloadType.PROTO_OA_EXECUTION_EVENT
      /\ MessageRead(m).payload = BrokerEncode(ProtoOAExecutionEvent, event)
      /\ IdOf(m) = id
  BY ExecutionRead
<1>2. Decode(ProtoOAExecutionEvent, MessageRead(m).payload) = meaning
  BY <1>1, OuterRead
<1>3. m.events = <<Emission(name, <<meaning>>)>> /\ m.result = Resolves(meaning)
  BY DEF Execution, MessageOf
<1>4. MessageRead(m).payloadType = 2126
  BY <1>1, TypesAre
<1>5. IsToldAsMeant(m)
  <2>1. TradingEmits(2126, MessageRead(m).payload) = <<Emission(name, <<meaning>>)>>
    BY <1>2, TypesAre DEF TradingEmits
  <2>. QED BY <1>3, <1>4, <2>1, OneEmits, SingleIsSequence DEF IsToldAsMeant
<1>6. ForNobody(m)
  BY <1>4 DEF ForNobody, HandshakeTypes
<1>7. ASSUME NEW method \in Mutations, NEW params
      PROVE  SaysWhatIsMeant(ResultOf(Reading(method, params, MessageRead(m))), m.result)
  <2>1. PICK call : call = Reading(method, params, MessageRead(m))
    OBVIOUS
  <2>2. call.method = method /\ call.message = MessageRead(m)
    BY <2>1 DEF Reading
  <2>3. ResultOf(call) = Resolves(meaning)
    BY <1>1, <1>2, <2>2, OutcomeRead
  <2>. QED BY <1>3, <2>1, <2>3 DEF SaysWhatIsMeant
<1>. QED BY <1>1, <1>5, <1>6, <1>7

-----------------------------------------------------------------------------
(* The inductive invariant.                                                   *)

\* A call that has been made is of a method of the library.
MethodsInv == \A c \in Calls : calls[c].state # "idle" => calls[c].method \in Methods

MeantMessages == \A i \in DOMAIN toClient : IsMeant(toClient[i])

\* A call that has its answer will read in it what it means.
MeantAnswers ==
    \A c \in Calls : calls[c].state = "answered" =>
        SaysWhatIsMeant(ResultOf(calls[c]), calls[c].meant)

MInv == MethodsInv /\ MeantMessages /\ MeantAnswers /\ AnswersReadAsMeant

\* A call that has been made keeps its method and its parameters.
CallsStay ==
    \A c \in Calls : calls[c].state # "idle" =>
        /\ calls'[c].state # "idle"
        /\ calls'[c].method = calls[c].method /\ calls'[c].params = calls[c].params

LEMMA StaysMeant ==
    ASSUME NEW m, CallsStay, MessageInv(m), IsMeant(m)
    PROVE  IsMeant(m)'
<1>1. IsToldAsMeant(m)' /\ (IdOf(m) \in Calls \/ (IdOf(m) = "" /\ ForNobody(m)))'
  BY DEF IsMeant, IsToldAsMeant, ForNobody, IdOf, MessageRead
<1>2. ASSUME IdOf(m) \in Calls
      PROVE  SaysWhatIsMeant(ResultOf(Reading(calls'[IdOf(m)].method, calls'[IdOf(m)].params,
                                              MessageRead(m))), m.result)
  <2>1. /\ calls'[IdOf(m)].method = calls[IdOf(m)].method
        /\ calls'[IdOf(m)].params = calls[IdOf(m)].params
    BY <1>2 DEF MessageInv, CallsStay
  <2>. QED BY <1>2, <2>1 DEF IsMeant, IsReadAsMeant
<1>3. IsReadAsMeant(m)'
  BY <1>2 DEF IsReadAsMeant, IdOf, MessageRead
<1>. QED BY <1>1, <1>3 DEF IsMeant

\* What there is to show of a step that leaves messages on their way or loses them.
LEMMA MessagesStayMeant ==
    ASSUME IInv, MInv, CallsStay,
           \A i \in DOMAIN toClient' : \E j \in DOMAIN toClient : toClient'[i] = toClient[j]
    PROVE  MeantMessages'
<1>1. \A m : MessageInv(m) /\ IsMeant(m) => IsMeant(m)'
  BY StaysMeant
<1>2. \A j \in DOMAIN toClient : MessageInv(toClient[j]) /\ IsMeant(toClient[j])
  BY DEF IInv, MessagesInv, MInv, MeantMessages
<1>. QED BY <1>1, <1>2 DEF MeantMessages

LEMMA InitMInv == Init => MInv
<1> SUFFICES ASSUME Init PROVE MInv
  OBVIOUS
<1>1. \A c \in Calls : calls[c].state = "idle"
  BY DEF Init, Idle
<1>2. toClient = <<>> /\ emitted = Quiet
  BY DEF Init
<1>3. MeantMessages
  BY <1>2 DEF MeantMessages
<1>. QED BY <1>1, <1>2, <1>3 DEF MInv, MethodsInv, MeantAnswers, AnswersReadAsMeant, Quiet

\* A call that ends by itself has nothing to read: its end means what it says.
Ends(call, before) ==
    /\ call.state = "over" /\ call.result = call.meant
    /\ call.result.settled \notin {"resolved", "rejected"}
    /\ call.method \in Methods
    /\ before.state # "idle" => call.method = before.method /\ call.params = before.params

Begins(call, before) ==
    before.state = "idle" /\ call.state = "pending" /\ call.method \in Methods

\* The steps of calls and connections that read nothing.
LEMMA CallsGoOn ==
    ASSUME IInv, MInv, emitted' = Quiet,
           toClient' = toClient \/ toClient' = <<>>,
           \A c \in Calls : \/ calls'[c] = calls[c] \/ Ends(calls'[c], calls[c])
                            \/ Begins(calls'[c], calls[c])
    PROVE  MInv'
<1>1. CallsStay
  BY DEF CallsStay, Ends, Begins
<1>2. MethodsInv'
  BY DEF MInv, MethodsInv, Ends, Begins
<1>3. MeantMessages'
  <2>1. \A i \in DOMAIN toClient' : \E j \in DOMAIN toClient : toClient'[i] = toClient[j]
    OBVIOUS
  <2>. QED BY <1>1, <2>1, MessagesStayMeant
<1>4. MeantAnswers'
  <2>1. SUFFICES ASSUME NEW c \in Calls, calls'[c].state = "answered"
                 PROVE  SaysWhatIsMeant(ResultOf(calls'[c]), calls'[c].meant)
    BY DEF MeantAnswers
  <2>2. calls'[c] = calls[c]
    BY <2>1 DEF Ends, Begins
  <2>. QED BY <2>1, <2>2 DEF MInv, MeantAnswers
<1>5. AnswersReadAsMeant'
  <2>1. ASSUME NEW c \in Calls, calls'[c].state = "over"
        PROVE  SaysWhatIsMeant(calls'[c].result, calls'[c].meant)
    <3>1. CASE calls'[c] = calls[c]
      BY <2>1, <3>1 DEF MInv, AnswersReadAsMeant
    <3>2. CASE Ends(calls'[c], calls[c])
      BY <3>2 DEF Ends, SaysWhatIsMeant
    <3>. QED BY <2>1, <3>1, <3>2 DEF Begins
  <2>. QED BY <2>1 DEF AnswersReadAsMeant, Quiet
<1>. QED BY <1>2, <1>3, <1>4, <1>5 DEF MInv

LEMMA SentIsMeant ==
    ASSUME IInv, MInv, NEW c \in Calls, SendsRequest(c)
    PROVE  MInv'
<1>1. PICK method, request : \E p \in Inputs(method) :
        IsRequestOf(method, p, request) /\ MayCall(c, method)
        /\ Send(c, method, p, request)
  BY DEF SendsRequest
<1>2. PICK p \in Inputs(method) : IsRequestOf(method, p, request) /\ MayCall(c, method)
        /\ Send(c, method, p, request)
  BY <1>1
<1>3. calls[c] = Idle /\ toClient' = toClient /\ emitted' = Quiet
  BY <1>2, Zenon DEF MayCall, Send
<1>4. calls'[c] = [state |-> "pending", method |-> method, params |-> p]
      /\ \A d \in Calls : d # c => calls'[d] = calls[d]
  BY <1>2 DEF Send, IInv, ShapeInv
<1>5. Begins(calls'[c], calls[c])
  BY <1>2, <1>3, <1>4, RequestsAreOfMethods DEF Begins, Idle
<1>. QED BY <1>3, <1>4, <1>5, CallsGoOn

LEMMA TimesOutMeans ==
    ASSUME IInv, MInv, NEW c \in Calls, TimesOut(c)
    PROVE  MInv'
<1>1. calls'[c] = Over(calls[c], TimedOut, TimedOut) /\ calls[c].state = "pending"
      /\ \A d \in Calls : d # c => calls'[d] = calls[d]
  BY DEF TimesOut, IInv, ShapeInv
<1>2. toClient' = toClient /\ emitted' = Quiet
  BY DEF TimesOut
<1>3. Ends(calls'[c], calls[c])
  BY <1>1 DEF Ends, Over, TimedOut, MInv, MethodsInv
<1>. QED BY <1>1, <1>2, <1>3, CallsGoOn

LEMMA OutOfRangeMeans ==
    ASSUME IInv, MInv, NEW c \in Calls, CashFlowOutOfRange(c)
    PROVE  MInv'
<1>1. calls[c] = Idle
  BY Zenon DEF CashFlowOutOfRange, MayCall
<1>2. PICK p : calls' = [calls EXCEPT ![c] =
                Over([method |-> "getCashFlow", params |-> p], OutOfRange, OutOfRange)]
  BY DEF CashFlowOutOfRange
<1>3. calls'[c] = Over([method |-> "getCashFlow", params |-> p], OutOfRange, OutOfRange)
      /\ \A d \in Calls : d # c => calls'[d] = calls[d]
  BY <1>2 DEF IInv, ShapeInv
<1>4. toClient' = toClient /\ emitted' = Quiet
  BY DEF CashFlowOutOfRange
<1>5. Ends(calls'[c], calls[c])
  BY <1>1, <1>3 DEF Ends, Over, OutOfRange, Methods, Idle
<1>. QED BY <1>3, <1>4, <1>5, CallsGoOn

LEMMA ConnectionMeans ==
    ASSUME IInv, MInv, (\E r \in throttled : Leave(r)) \/ Disconnected \/ Authenticated
    PROVE  MInv'
<1>1. CASE (\E r \in throttled : Leave(r)) \/ Authenticated
  <2>1. calls' = calls /\ toClient' = toClient /\ emitted' = Quiet
    BY <1>1 DEF Leave, Authenticated
  <2>. QED BY <2>1, CallsGoOn
<1>2. CASE Disconnected
  <2>1. /\ calls' = [c \in Calls |-> CutOff(calls[c])] /\ toClient' = <<>>
        /\ emitted' = Quiet
    BY <1>2 DEF Disconnected
  <2>2. ASSUME NEW c \in Calls, calls'[c] # calls[c]
        PROVE  Ends(calls'[c], calls[c])
    <3>1. calls[c].state = "pending" /\ calls'[c] = Over(calls[c], Lost, Lost)
      BY <2>1, <2>2 DEF CutOff
    <3>. QED BY <3>1 DEF Ends, Over, Lost, MInv, MethodsInv
  <2>. QED BY <2>1, <2>2, CallsGoOn
<1>. QED BY <1>1, <1>2

\* What a handshake takes is in HandshakeTypes, or has its id.
LEMMA HandshakesTake ==
    ASSUME NEW c, NEW message, calls[c].method \in HandshakeMethods,
           HandshakeTakes(c, message)
    PROVE  message.payloadType \in HandshakeTypes
<1>1. ExpectedBy(calls[c].method) \in {2101, 2103, 2150}
  BY DEF HandshakeMethods, ExpectedBy, ProtoOAPayloadType
<1>2. DOMAIN HandshakeErrorSchemas \subseteq {2142, 50, 2132}
  <2>1. SchemasOfErrors(calls[c].method) = HandshakeErrorSchemas
    BY DEF SchemasOfErrors
  <2>. QED BY <2>1, ClientErrorTypes
<1> PICK expected : expected = ExpectedBy(calls[c].method)
  OBVIOUS
<1>3. message.payloadType = expected \/ message.payloadType \in DOMAIN HandshakeErrorSchemas
  BY Zenon DEF HandshakeTakes
<1>. QED BY <1>1, <1>2, <1>3 DEF HandshakeTypes

\* A message answers the call it has the id of, and no other.
LEMMA AnswersItsOwn ==
    ASSUME NEW m, IsMeant(m), NEW c \in Calls, Answers(c, MessageRead(m))
    PROVE  IdOf(m) = c
<1> PICK message : message = MessageRead(m)
  OBVIOUS
<1> PICK none : none = ""
  OBVIOUS
<1>1. CASE calls[c].method \notin HandshakeMethods
  BY <1>1 DEF Answers, IdOf
<1>2. CASE calls[c].method \in HandshakeMethods
  <2>1. HandshakeTakes(c, message)
    BY <1>2 DEF Answers
  <2>2. IdOf(m) \in {none, c}
    BY <2>1 DEF HandshakeTakes, IdOf
  <2>3. ~ForNobody(m)
    BY <1>2, <2>1, HandshakesTake DEF ForNobody
  <2>. QED BY <2>2, <2>3, CallsAssumption DEF IsMeant
<1>. QED BY <1>1, <1>2

LEMMA ReceiveMeans ==
    ASSUME IInv, MInv, Receive
    PROVE  MInv'
<1> DEFINE m == Head(toClient)
           message == MessageRead(m)
<1>1. /\ toClient # <<>> /\ toClient' = Tail(toClient)
      /\ emitted' = [told |-> HandleMessage(message), meant |-> m.events]
      /\ calls' = [c \in Calls |->
                      IF Answers(c, message)
                      THEN [state |-> "answered", method |-> calls[c].method,
                            params |-> calls[c].params, message |-> message,
                            meant |-> m.result]
                      ELSE calls[c]]
  BY DEF Receive, MessageRead
<1>2. IsSequence(toClient)
  BY DEF IInv, ShapeInv
<1>3. /\ Len(toClient) \in Nat \ {0}
      /\ DOMAIN toClient = 1..Len(toClient) /\ DOMAIN toClient' = 1..(Len(toClient) - 1)
      /\ \A i \in 1..(Len(toClient) - 1) : toClient'[i] = toClient[i + 1]
      /\ m = toClient[1]
  BY <1>1, <1>2, TailOf
<1>4. IsMeant(m)
  BY <1>3 DEF MInv, MeantMessages
<1>5. \A c \in Calls :
        \/ calls'[c] = calls[c] /\ ~Answers(c, message)
        \/ /\ Answers(c, message)
           /\ calls[c].state = "pending" /\ calls'[c].state = "answered"
           /\ calls'[c].method = calls[c].method /\ calls'[c].params = calls[c].params
           /\ calls'[c].message = message /\ calls'[c].meant = m.result
  BY <1>1 DEF Answers
<1>6. emitted'.told = emitted'.meant
  <2>1. HandleMessage(message) = m.events
    BY <1>4 DEF IsMeant, IsToldAsMeant, HandleMessage
  <2>. QED BY <1>1, <2>1
<1> HIDE DEF m, message
<1>7. CallsStay
  BY <1>5 DEF CallsStay
<1>8. MethodsInv'
  BY <1>5 DEF MInv, MethodsInv
<1>9. MeantMessages'
  <2>1. ASSUME NEW i \in DOMAIN toClient'
        PROVE  i + 1 \in DOMAIN toClient /\ toClient'[i] = toClient[i + 1]
    BY <1>3
  <2>. QED BY <1>7, <2>1, MessagesStayMeant
<1>10. MeantAnswers'
  <2>1. SUFFICES ASSUME NEW c \in Calls, calls'[c].state = "answered"
                 PROVE  SaysWhatIsMeant(ResultOf(calls'[c]), calls'[c].meant)
    BY DEF MeantAnswers
  <2>2. CASE calls'[c] = calls[c]
    BY <2>1, <2>2 DEF MInv, MeantAnswers
  <2>3. CASE Answers(c, message)
    <3>1. IdOf(m) = c
      BY <1>4, <2>3, AnswersItsOwn DEF message
    <3>2. PICK call : call = Reading(calls[c].method, calls[c].params, message)
      OBVIOUS
    <3>3. SaysWhatIsMeant(ResultOf(call), m.result)
      BY <1>4, <3>1, <3>2 DEF IsMeant, IsReadAsMeant, message
    <3>4. /\ call.method = calls'[c].method /\ call.params = calls'[c].params
          /\ call.message = calls'[c].message
      BY <1>5, <2>3, <3>2 DEF Reading
    <3>5. ResultOf(calls'[c]) = ResultOf(call)
      BY <3>4, ResultsAlike
    <3>. QED BY <1>5, <2>3, <3>3, <3>5
  <2>. QED BY <1>5, <2>2, <2>3
<1>11. \A c \in Calls : calls'[c].state = "over" =>
        SaysWhatIsMeant(calls'[c].result, calls'[c].meant)
  BY <1>5 DEF MInv, AnswersReadAsMeant
<1>. QED BY <1>6, <1>8, <1>9, <1>10, <1>11 DEF MInv, AnswersReadAsMeant

LEMMA ResumeMeans ==
    ASSUME IInv, MInv, Resume
    PROVE  MInv'
<1>1. /\ calls' = [c \in Calls |->
                    IF calls[c].state = "answered"
                    THEN Over(calls[c], ResultOf(calls[c]), calls[c].meant) ELSE calls[c]]
      /\ emitted' = Quiet /\ toClient' = toClient
  BY DEF Resume
<1>2. \A c \in Calls :
        \/ calls'[c] = calls[c] /\ calls[c].state # "answered"
        \/ /\ calls[c].state = "answered" /\ calls'[c].state = "over"
           /\ calls'[c].method = calls[c].method /\ calls'[c].params = calls[c].params
           /\ calls'[c].result = ResultOf(calls[c]) /\ calls'[c].meant = calls[c].meant
  BY <1>1 DEF Over
<1>3. CallsStay
  BY <1>2 DEF CallsStay
<1>4. MethodsInv'
  BY <1>2 DEF MInv, MethodsInv
<1>5. MeantMessages'
  BY <1>1, <1>3, MessagesStayMeant
<1>6. MeantAnswers'
  BY <1>2 DEF MInv, MeantAnswers
<1>7. \A c \in Calls : calls'[c].state = "over" =>
        SaysWhatIsMeant(calls'[c].result, calls'[c].meant)
  BY <1>2 DEF MInv, AnswersReadAsMeant, MeantAnswers
<1>. QED BY <1>1, <1>4, <1>5, <1>6, <1>7 DEF MInv, AnswersReadAsMeant, Quiet

-----------------------------------------------------------------------------
(* What the broker says is meant.                                             *)

LEMMA BrokerSpeaks ==
    ASSUME IInv, MInv, calls' = calls, emitted' = Quiet,
           toClient' = toClient \/ \E m : toClient' = Append(toClient, m) /\ IsMeant(m)
    PROVE  MInv'
<1>1. CASE toClient' = toClient
  BY <1>1, CallsGoOn
<1>2. ASSUME NEW m, toClient' = Append(toClient, m), IsMeant(m)
      PROVE  MInv'
  <2>1. IsSequence(toClient)
    BY DEF IInv, ShapeInv
  <2>2. /\ DOMAIN toClient = 1..Len(toClient) /\ DOMAIN toClient' = 1..(Len(toClient) + 1)
        /\ Len(toClient) \in Nat /\ \A i \in 1..Len(toClient) : toClient'[i] = toClient[i]
        /\ toClient'[Len(toClient) + 1] = m
    BY <1>2, <2>1, AppendTo
  <2>3. \A x : IsMeant(x) => IsMeant(x)'
    BY DEF IsMeant, IsToldAsMeant, IsReadAsMeant, ForNobody, IdOf, MessageRead
  <2>4. MeantMessages'
    <3>1. ASSUME NEW i \in DOMAIN toClient' PROVE IsMeant(toClient'[i])
      <4>1. CASE i = Len(toClient) + 1
        BY <1>2, <2>2, <4>1
      <4>2. CASE i # Len(toClient) + 1
        <5>1. i \in DOMAIN toClient /\ toClient'[i] = toClient[i]
          BY <2>2, <4>2
        <5>. QED BY <5>1 DEF MInv, MeantMessages
      <4>. QED BY <4>1, <4>2
    <3>. QED BY <2>3, <3>1 DEF MeantMessages
  <2>5. MethodsInv' /\ MeantAnswers'
    BY DEF MInv, MethodsInv, MeantAnswers
  <2>6. AnswersReadAsMeant'
    BY DEF MInv, AnswersReadAsMeant, Quiet
  <2>. QED BY <2>4, <2>5, <2>6 DEF MInv
<1>. QED BY <1>1, <1>2

LEMMA AnswersMean ==
    ASSUME UndefinedIsNoRecord, IInv, MInv, NEW r \in arrived, BrokerAnswers(r)
    PROVE  MInv'
<1>1. PICK c : c = CallOf(r)
  OBVIOUS
<1>2. PICK method, params : method = calls[c].method /\ params = calls[c].params
  OBVIOUS
<1>3. c \in Calls /\ method \in Methods
  BY <1>1, <1>2 DEF IInv, RequestsInv, Requests, MInv, MethodsInv
<1>4. method \notin Mutations /\ \E fact \in Contents(method) :
        Tell(r, AnswerTypes[method], AnswerPayload(method, fact),
             AnswerMeans(method, params, fact), <<>>)
  BY <1>1, <1>2, Zenon DEF BrokerAnswers
<1>5. PICK fact \in Contents(method) :
        Tell(r, AnswerTypes[method], AnswerPayload(method, fact),
             AnswerMeans(method, params, fact), <<>>)
  BY <1>4
<1>6. MayAnswer(method, fact)
  BY <1>3, <1>4, <1>5, ContentsAssumption
<1>7. PICK none : none = ""
  OBVIOUS
<1>8. PICK m : m = MessageOf(AnswerTypes[method], AnswerPayload(method, fact), c, none,
                             AnswerMeans(method, params, fact), <<>>)
  OBVIOUS
<1>9. /\ toClient' = IF Answerable(r) THEN Append(toClient, m) ELSE toClient
      /\ calls' = calls /\ emitted' = Quiet
  BY <1>1, <1>5, <1>7, <1>8, Zenon DEF Tell
<1>10. /\ MessageRead(m).payloadType = AnswerTypes[method]
       /\ MessageRead(m).payload = AnswerPayload(method, fact) /\ IdOf(m) = c
  BY <1>8, MessageOfRead
<1>11. m.result = AnswerMeans(method, params, fact) /\ m.events = <<>>
  BY <1>8 DEF MessageOf
<1>12. IsToldAsMeant(m)
  BY <1>3, <1>4, <1>10, <1>11, AnswersAreNotTold DEF IsToldAsMeant
<1>13. IsReadAsMeant(m)
  <2>1. PICK call : call = Reading(method, params, MessageRead(m))
    OBVIOUS
  <2>2. call.method = method /\ call.params = params /\ call.message = MessageRead(m)
    BY <2>1 DEF Reading
  <2>3. SaysWhatIsMeant(ResultOf(call), AnswerMeans(method, call.params, fact))
    BY <1>3, <1>4, <1>6, <1>10, <2>2, EveryAnswerIsMeant
  <2>. QED BY <1>2, <1>10, <1>11, <2>1, <2>2, <2>3 DEF IsReadAsMeant
<1>14. IsMeant(m)
  BY <1>3, <1>10, <1>12, <1>13 DEF IsMeant
<1>. QED BY <1>9, <1>14, BrokerSpeaks

LEMMA RefusesMeans ==
    ASSUME IInv, MInv, NEW r \in arrived, BrokerRefuses(r)
    PROVE  MInv'
<1>1. PICK c : c = CallOf(r)
  OBVIOUS
<1>2. PICK method, params : method = calls[c].method /\ params = calls[c].params
  OBVIOUS
<1>3. c \in Calls
  BY <1>1 DEF IInv, RequestsInv, Requests
<1>4. PICK schemas : schemas = BrokerErrorSchemas(method)
  OBVIOUS
<1>5. PICK type \in DOMAIN schemas : \E error \in Errors :
        Tell(r, type, ErrorPayload(schemas[type], error), RefusalMeans(error),
             RefusalTells(type, error))
  BY <1>1, <1>2, <1>4, Zenon DEF BrokerRefuses
<1>6. PICK error \in Errors :
        Tell(r, type, ErrorPayload(schemas[type], error), RefusalMeans(error),
             RefusalTells(type, error))
  BY <1>5
<1>7. MayRefuse(error)
  BY <1>6, ContentsAssumption
<1>8. PICK none : none = ""
  OBVIOUS
<1>9. PICK m : m = MessageOf(type, ErrorPayload(schemas[type], error), c, none,
                             RefusalMeans(error), RefusalTells(type, error))
  OBVIOUS
<1>10. /\ toClient' = IF Answerable(r) THEN Append(toClient, m) ELSE toClient
       /\ calls' = calls /\ emitted' = Quiet
  BY <1>1, <1>6, <1>8, <1>9, Zenon DEF Tell
<1>11. /\ MessageRead(m).payloadType = type
       /\ MessageRead(m).payload = ErrorPayload(schemas[type], error) /\ IdOf(m) = c
  BY <1>9, MessageOfRead
<1>12. m.result = RefusalMeans(error) /\ m.events = RefusalTells(type, error)
  BY <1>9 DEF MessageOf
<1>13. IsToldAsMeant(m)
  BY <1>4, <1>5, <1>11, <1>12, ErrorsAreTold DEF IsToldAsMeant
<1>14. IsReadAsMeant(m)
  <2>1. PICK call : call = Reading(method, params, MessageRead(m))
    OBVIOUS
  <2>2. call.method = method /\ call.message = MessageRead(m)
    BY <2>1 DEF Reading
  <2>3. SaysWhatIsMeant(ResultOf(call), RefusalMeans(error))
    BY <1>4, <1>5, <1>7, <1>11, <2>2, EveryErrorReads
  <2>. QED BY <1>2, <1>11, <1>12, <2>1, <2>3 DEF IsReadAsMeant
<1>15. IsMeant(m)
  BY <1>3, <1>11, <1>13, <1>14 DEF IsMeant
<1>. QED BY <1>10, <1>15, BrokerSpeaks

\* An execution event for a mutation, or for no call, is meant.
LEMMA ExecutionMeans ==
    ASSUME NEW event, FitsOuter(ProtoOAExecutionEvent, event), NEW cause, NEW id,
           id = "" \/ (id \in Calls /\ calls[id].method \in Mutations), NEW m,
           m = Execution(event, id, cause)
    PROVE  IsMeant(m)
<1>1. /\ IsToldAsMeant(m) /\ ForNobody(m) /\ IdOf(m) = id
      /\ \A params : \A method \in Mutations :
            SaysWhatIsMeant(ResultOf(Reading(method, params, MessageRead(m))), m.result)
  BY ExecutionIsMeant
<1>2. PICK none : none = ""
  OBVIOUS
<1>3. IsReadAsMeant(m)
  BY <1>1, CallsAssumption DEF IsReadAsMeant
<1>. QED BY <1>1, <1>3 DEF IsMeant

\* A request that is executed comes from a mutation.
LEMMA ExecutesMeans ==
    ASSUME IInv, MInv, NEW r \in arrived, NEW event, Executes(r, event),
           FitsOuter(ProtoOAExecutionEvent, event), calls[CallOf(r)].method \in Mutations
    PROVE  MInv'
<1>1. PICK c : c = CallOf(r)
  OBVIOUS
<1>2. c \in Calls
  BY <1>1 DEF IInv, RequestsInv, Requests
<1>3. PICK none : none = ""
  OBVIOUS
<1>4. PICK id : id = IF Answerable(r) THEN c ELSE none
  OBVIOUS
<1>5. PICK m : m = Execution(event, id, c)
  OBVIOUS
<1>6. /\ calls' = calls /\ emitted' = Quiet
      /\ toClient' = toClient \/ toClient' = Append(toClient, m)
  BY <1>1, <1>3, <1>4, <1>5, Zenon DEF Executes
<1>7. IsMeant(m)
  BY <1>1, <1>2, <1>3, <1>4, <1>5, ExecutionMeans
<1>. QED BY <1>6, <1>7, BrokerSpeaks

LEMMA RejectsByEventMeans ==
    ASSUME IInv, MInv, NEW r \in arrived, BrokerRejectsByEvent(r)
    PROVE  MInv'
<1>1. PICK c : c = CallOf(r)
  OBVIOUS
<1>2. c \in Calls /\ calls[c].method \in Mutations
  BY <1>1 DEF IInv, RequestsInv, Requests, BrokerRejectsByEvent, Mutations
<1>3. PICK type, o, status : toClient' =
        IF Answerable(r) THEN Append(toClient, Execution(AboutOrder(type, o, status), c, ""))
        ELSE toClient
  BY <1>1, Zenon DEF BrokerRejectsByEvent
<1>4. PICK none : none = ""
  OBVIOUS
<1>5. PICK m : m = Execution(AboutOrder(type, o, status), c, none)
  OBVIOUS
<1>6. /\ calls' = calls /\ emitted' = Quiet
      /\ toClient' = toClient \/ toClient' = Append(toClient, m)
  BY <1>3, <1>4, <1>5, Zenon DEF BrokerRejectsByEvent
<1>7. IsMeant(m)
  BY <1>2, <1>5, ExecutionMeans, OrderEventFits
<1>. QED BY <1>6, <1>7, BrokerSpeaks

\* The mutations that change the account.
LEMMA MutationMeans ==
    ASSUME IInv, MInv, NEW r \in arrived,
           \/ BrokerOpens(r) \/ BrokerAmends(r) \/ BrokerCancels(r)
           \/ BrokerMovesStops(r) \/ BrokerCloses(r)
    PROVE  MInv'
<1>1. PICK event : Executes(r, event) /\ calls[CallOf(r)].method \in Mutations
        /\ FitsOuter(ProtoOAExecutionEvent, event)
  <2>1. CASE BrokerOpens(r) \/ BrokerAmends(r) \/ BrokerCancels(r)
    <3>1. /\ \E type, o, status : Executes(r, AboutOrder(type, o, status))
          /\ calls[CallOf(r)].method \in Placements \cup {"amendOrder", "cancelOrder"}
      BY <2>1, Zenon DEF BrokerOpens, BrokerAmends, BrokerCancels
    <3>. QED BY <3>1, OrderEventFits DEF Mutations
  <2>2. CASE BrokerMovesStops(r) \/ BrokerCloses(r)
    <3>1. /\ \E type, status : Executes(r, AboutPosition(type, status))
          /\ calls[CallOf(r)].method \in {"amendPositionStopLossTakeProfit", "closePosition"}
      BY <2>2, Zenon DEF BrokerMovesStops, BrokerCloses
    <3>. QED BY <3>1, PositionEventFits DEF Mutations
  <2>. QED BY <2>1, <2>2
<1>. QED BY <1>1, ExecutesMeans

\* A fill is told under the id of the call that placed the order, or under none.
LEMMA FillsMeans ==
    ASSUME IInv, MInv, NEW o \in DOMAIN orders, BrokerFills(o)
    PROVE  MInv'
<1>1. PICK none : none = ""
  OBVIOUS
<1>2. PICK type, status : \E id \in {none} \cup {c \in Calls : OrderOf[c] = o} :
        toClient' = IF online
                    THEN Append(toClient, Execution(AboutOrder(type, o, status), id, none))
                    ELSE toClient
  BY <1>1, Zenon DEF BrokerFills
<1>3. PICK id \in {none} \cup {c \in Calls : OrderOf[c] = o} :
        toClient' = IF online
                    THEN Append(toClient, Execution(AboutOrder(type, o, status), id, none))
                    ELSE toClient
  BY <1>2
<1>4. PICK m : m = Execution(AboutOrder(type, o, status), id, none)
  OBVIOUS
<1>5. /\ calls' = calls /\ emitted' = Quiet
      /\ toClient' = toClient \/ toClient' = Append(toClient, m)
  BY <1>3, <1>4 DEF BrokerFills
<1>6. id = none \/ (id \in Calls /\ calls[id].method \in Mutations)
  <2>1. ASSUME id # none PROVE id \in Calls /\ calls[id].method \in Placements
    <3>1. id \in Calls /\ OrderOf[id] = o
      BY <1>3, <2>1
    <3>. QED BY <3>1, OrderOfAssumption DEF IInv, ExecutedInv
  <2>. QED BY <2>1 DEF Mutations
<1>7. IsMeant(m)
  BY <1>1, <1>4, <1>6, ExecutionMeans, OrderEventFits
<1>. QED BY <1>5, <1>7, BrokerSpeaks

\* What is told of its own accord is of no type that a handshake takes.
LEMMA PublishesMeans ==
    ASSUME UndefinedIsNoRecord, IInv, MInv, NEW i \in DOMAIN Events, BrokerPublishes(Events[i])
    PROVE  MInv'
<1>1. PICK type, fact : type = Events[i].payloadType /\ fact = Events[i].fact
  OBVIOUS
<1>2. MayTell(type, fact)
  BY <1>1, ContentsAssumption
<1>3. PICK none : none = ""
  OBVIOUS
<1>4. PICK m : m = MessageOf(type, EventPayload(type, fact), none, none, Undefined,
                             EventMeans(type, fact))
  OBVIOUS
<1>5. toClient = <<>> /\ toClient' = <<m>> /\ calls' = calls /\ emitted' = Quiet
  BY <1>1, <1>3, <1>4, Zenon DEF BrokerPublishes
<1>6. toClient' = Append(toClient, m)
  BY <1>5
<1>7. /\ MessageRead(m).payloadType = type /\ IdOf(m) = none
      /\ MessageRead(m).payload = EventPayload(type, fact)
  BY <1>4, MessageOfRead
<1>8. m.events = EventMeans(type, fact)
  BY <1>4 DEF MessageOf
<1>9. IsToldAsMeant(m)
  BY <1>2, <1>7, <1>8, EveryEventEmits DEF IsToldAsMeant
<1>10. type \notin HandshakeTypes
  BY <1>2, TypesAre DEF MayTell, EventTypes, HandshakeTypes
<1>11. IsMeant(m)
  BY <1>3, <1>7, <1>9, <1>10, CallsAssumption DEF IsMeant, IsReadAsMeant, ForNobody
<1>. QED BY <1>5, <1>6, <1>11, BrokerSpeaks

LEMMA NextMInv ==
    ASSUME UndefinedIsNoRecord, IInv, MInv, [Next]_vars
    PROVE  MInv'
<1>1. CASE UNCHANGED vars
  BY <1>1 DEF vars, MInv, MethodsInv, MeantMessages, MeantAnswers, AnswersReadAsMeant,
              IsMeant, IsToldAsMeant, IsReadAsMeant, ForNobody, IdOf, MessageRead
<1>2. CASE \E c \in Calls : TradingCall(c) \/ AccountCall(c) \/ HistoryCall(c)
                              \/ MarketDataCall(c) \/ HandshakeCall(c) \/ TimesOut(c)
  BY <1>2, CallsSendRequests, SentIsMeant, OutOfRangeMeans, TimesOutMeans
<1>3. CASE (\E r \in throttled : Leave(r)) \/ Disconnected \/ Authenticated
  BY <1>3, ConnectionMeans
<1>4. CASE Receive \/ Resume
  BY <1>4, ReceiveMeans, ResumeMeans
<1>5. CASE \E r \in arrived : BrokerHandles(r)
  BY <1>5, AnswersMean, RefusesMeans, RejectsByEventMeans, MutationMeans DEF BrokerHandles
<1>6. CASE \/ \E o \in DOMAIN orders : BrokerFills(o)
           \/ \E i \in DOMAIN Events : BrokerPublishes(Events[i])
  BY <1>6, FillsMeans, PublishesMeans
<1>. QED BY <1>1, <1>2, <1>3, <1>4, <1>5, <1>6 DEF Next

\* Every call resolves or rejects with what the broker meant by the answer to its own request,
\* and the listeners are told what the broker meant to tell, price by price and amount by
\* amount: for any calls, answers, errors and events the broker may give.
THEOREM AnswersReadAsMeantHolds ==
    ASSUME UndefinedIsNoRecord
    PROVE  Spec => []AnswersReadAsMeant
<1>1. Init => MInv
  BY InitMInv
<1>2. IInv /\ MInv /\ [Next]_vars => MInv'
  BY NextMInv
<1>3. MInv => AnswersReadAsMeant
  BY DEF MInv
<1>. QED BY <1>1, <1>2, <1>3, IInvHolds, PTL DEF Spec
=============================================================================
