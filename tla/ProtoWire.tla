------------------------------ MODULE ProtoWire ------------------------------
(***************************************************************************)
(* What the messages generated by ts-proto (src/src/types/generated) do with *)
(* the fields of a message: createBase, fromPartial, encode and decode, which *)
(* follow one scheme for every message; and what                             *)
(* src/src/shared/proto-required-field.ts adds to an encoded request.        *)
(*                                                                         *)
(* A schema (modules ProtoModelMessages and ProtoMessages) maps the fields   *)
(* of a message to what the generated code knows of them; a message maps them *)
(* to values.  An encoded message maps each tag that was written to the      *)
(* values written under it: the order in which different tags were written    *)
(* has no meaning, and a packed list reads like the same values one by one.   *)
(***************************************************************************)
EXTENDS Integers, Sequences, SequencesExt, TLC

CONSTANT Undefined   \* JavaScript's undefined

ASSUME UndefinedAssumption == Undefined \notin Int

Field(kind, required, tag, default, of) ==
    [kind |-> kind, required |-> required, tag |-> tag, default |-> default, of |-> of]

Required(tag, default) == Field("scalar", TRUE, tag, default, Undefined)
Optional(tag, default) == Field("scalar", FALSE, tag, default, Undefined)
Repeated(tag) == Field("scalars", FALSE, tag, <<>>, Undefined)
RequiredMessage(tag, schema) == Field("message", TRUE, tag, Undefined, schema)
Message(tag, schema) == Field("message", FALSE, tag, Undefined, schema)
Messages(tag, schema) == Field("messages", FALSE, tag, <<>>, schema)

-----------------------------------------------------------------------------
\* The function that maps k to v and nothing else, and f completed with what only g maps
\* (:> and @@ of module TLC, which the provers do not know).
Entry(k, v) == [x \in {k} |-> v]

f ++ g ==
    [x \in DOMAIN f \cup DOMAIN g |-> IF x \in DOMAIN f THEN f[x] ELSE g[x]]

\* fromPartial: fields that are undefined, here those that are not given, get their default.
FromPartial(schema, given) ==
    [f \in DOMAIN schema |-> IF f \in DOMAIN given THEN given[f] ELSE schema[f].default]

\* What encode writes for a field that holds v: nothing for its default, whether the
\* field is required or not.
Written(field, v) ==
    IF field.kind \in {"scalars", "messages"} THEN v
    ELSE IF v = field.default THEN <<>> ELSE <<v>>

FieldOf(schema, tag) == CHOOSE f \in DOMAIN schema : schema[f].tag = tag

\* encode(), of the messages this library sends, which nest no message.
Encode(schema, message) ==
    [tag \in {schema[f].tag : f \in {g \in DOMAIN schema :
                                        Written(schema[g], message[g]) # <<>>}} |->
        Written(schema[FieldOf(schema, tag)], message[FieldOf(schema, tag)])]

ValuesAt(wire, tag) == IF tag \in DOMAIN wire THEN wire[tag] ELSE <<>>

\* decode: the last value wins, lists grow, a field that is not there keeps its default,
\* other tags are skipped.  Nested decodes a message within the message.
DecodeField(field, values, Nested(_, _)) ==
    CASE field.kind = "scalars" -> values
      [] field.kind = "messages" -> [i \in DOMAIN values |-> Nested(field.of, values[i])]
      [] field.kind = "scalar" -> IF values = <<>> THEN field.default ELSE Last(values)
      [] field.kind = "message" ->
            IF values = <<>> THEN Undefined ELSE Nested(field.of, Last(values))

DecodeWith(schema, wire, Nested(_, _)) ==
    [f \in DOMAIN schema |->
        DecodeField(schema[f], ValuesAt(wire, schema[f].tag), Nested)]

NoDeeper(schema, wire) == wire
DecodeInner(schema, wire) == DecodeWith(schema, wire, NoDeeper)
DecodeMiddle(schema, wire) == DecodeWith(schema, wire, DecodeInner)

\* No message of the protocol nests others more than twice.
Decode(schema, wire) == DecodeWith(schema, wire, DecodeMiddle)

-----------------------------------------------------------------------------
(* proto-required-field.ts.                                                   *)

VARINT_WIRE_TYPE == 0
tagFor(fieldNumber) == fieldNumber * 8 + VARINT_WIRE_TYPE

Append1(wire, tag, value) ==
    [t \in DOMAIN wire \cup {tag} |->
        IF t = tag THEN Append(ValuesAt(wire, tag), value) ELSE wire[t]]

appendRequiredEnumIfDropped(wire, fieldNumber, value, implicitDefault) ==
    IF value = implicitDefault THEN Append1(wire, tagFor(fieldNumber), value) ELSE wire

appendRequiredInt64IfDropped(wire, fieldNumber, value) ==
    IF value = 0 THEN Append1(wire, tagFor(fieldNumber), value) ELSE wire
=============================================================================
