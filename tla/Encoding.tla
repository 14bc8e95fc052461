------------------------------ MODULE Encoding ------------------------------
(***************************************************************************)
(* Calls of the conversions and of the wire format, one each, on bounded   *)
(* inputs, with the definitions of what they promise.                      *)
(***************************************************************************)
EXTENDS Conversions, ProtocolMessage

CONSTANTS
    DigitValues,    \* digits the numbers are made of
    MaxDigits,      \* digits of a number
    Bases,          \* bases converted from and to: 2, 10, 16
    MaxBytes,       \* bytes of a text
    Bytes,          \* bytes of texts
    LimbBits,
    MaxLimbs,
    BufferSize,     \* of bnToBuf: 16
    Content,        \* what the fields of the messages hold
    BinaryPayloads,
    TextPayloads    \* valid UTF-8

ASSUME DigitsAssumption == DigitValues \subseteq 0..15
ASSUME BasesAssumption == Bases \subseteq Nat \ {0, 1}
ASSUME BytesAssumption == Bytes \subseteq 0..255
ASSUME SizesAssumption ==
    /\ {MaxDigits, MaxBytes, MaxLimbs, BufferSize} \subseteq Nat
    /\ LimbBits \in Nat \ {0}

\* An opcode fits its field.  Recipient and identifier fill theirs; the field in front of
\* either may be of any length that ends there, a signature of any length at all.
ASSUME ContentAssumption ==
    /\ \A f \in {"opcode", "sender", "recipient", "shield", "identifier", "signature"} :
          Content[f] \subseteq Seq(0..255)
    /\ \A s \in Content["opcode"] :
          Len(s) <= Widths["opcode"] /\ \A k \in DOMAIN s : s[k] # NUL
    /\ \A s \in Content["sender"] : Len(s) <= Widths["sender"] + Widths["recipient"]
    /\ \A s \in Content["recipient"] : Len(s) = Widths["recipient"]
    /\ \A s \in Content["shield"] : Len(s) <= Widths["shield"] + Widths["identifier"]
    /\ \A s \in Content["identifier"] : Len(s) = Widths["identifier"]
ASSUME PayloadsAssumption == BinaryPayloads \cup TextPayloads \subseteq Seq(0..255)

VARIABLES
    call,       \* the function and its arguments
    done,
    result

vars == <<call, done, result>>

Strings(digits, n) == UNION {[1..len -> digits] : len \in 0..n}

Numbers == Strings(DigitValues, MaxDigits)
Decimals == Strings({d \in DigitValues : d < 10}, 2 * BufferSize + 1) \ {<<>>}
Texts == Strings(Bytes, MaxBytes)

MessagesOf(type, payloads) ==
    [opcode : Content["opcode"], sender : Content["sender"], recipient : Content["recipient"],
     shield : Content["shield"], identifier : Content["identifier"],
     signature : Content["signature"], type : {type}, payload : payloads]
Messages == MessagesOf(Binary, BinaryPayloads) \cup MessagesOf(Text, TextPayloads)

Calls ==
    [function : {"convertBase"}, str : Numbers, from : Bases, to : Bases]
    \cup [function : {"field"}, str : Numbers \ {<<>>}, prefixed : BOOLEAN,
          silent : BOOLEAN, limbs : 1..MaxLimbs]
    \cup [function : {"text"}, bytes : Texts]
    \cup [function : {"bnToBuf"}, dec : Decimals]
    \cup [function : {"marshal"}, msg : Messages]

Init == call \in Calls /\ done = FALSE /\ result = <<>>

Return(function, value) ==
    /\ ~done /\ call.function = function
    /\ done' = TRUE
    /\ result' = value
    /\ UNCHANGED call

CallConvertBase == Return("convertBase", ConvertBase(call.str, call.from, call.to))
CallField ==
    Return("field", ElementField(call.str, call.prefixed, LimbBits, call.limbs, call.silent))
CallText == Return("text", LET hex == Utf8ToHex(call.bytes, MaxBytes)
                           IN  <<hex, HexToUtf8(hex)>>)
CallBnToBuf == Return("bnToBuf", BnToBuf(call.dec, BufferSize))
CallMarshal == Return("marshal", UnmarshalProtocolMessage(MarshalProtocolMessage(call.msg)))

Next == CallConvertBase \/ CallField \/ CallText \/ CallBnToBuf \/ CallMarshal

Spec == Init /\ [][Next]_vars

-----------------------------------------------------------------------------
\* Properties

Returned(function) == done /\ call.function = function

\* The number a string of digits stands for.
ValueIn(str, base) ==
    LET value[k \in 0..Len(str)] == IF k = 0 THEN 0 ELSE base * value[k - 1] + str[k]
    IN  value[Len(str)]

TwoTo[n \in Nat] == IF n = 0 THEN 1 ELSE 2 * TwoTo[n - 1]

\* Converting keeps the number, whatever zeros it begins with, and writes it
\* with the fewest digits; a digit that is none of the base is noticed.
NumberIsKept ==
    Returned("convertBase") =>
        IF \E k \in DOMAIN call.str : call.str[k] >= call.from THEN result = Failure
        ELSE /\ ValueIn(result, call.to) = ValueIn(call.str, call.from)
             /\ \A k \in DOMAIN result : result[k] \in 0..call.to - 1
             /\ Len(result) > 1 => result[1] # 0

\* With 0x in front, or a letter among them, digits are hexadecimal.
Meant == IF call.prefixed \/ \E k \in DOMAIN call.str : call.str[k] > 9 THEN 16 ELSE 10

\* The limbs of an element have the size asked for and stand for it, or, when
\* the warning is silenced, for its low limbs; a loss is otherwise refused.
LimbsStandForElement ==
    Returned("field") =>
        LET limb(k) == ValueIn(result[k], 10)
            value == ValueIn(call.str, Meant)
            field == TwoTo[LimbBits * call.limbs]
        IN  IF value >= field /\ ~call.silent THEN result = <<Failure>>
            ELSE /\ Len(result) = call.limbs
                 /\ \A k \in DOMAIN result : limb(k) \in 0..TwoTo[LimbBits] - 1
                 /\ ValueIn([k \in DOMAIN result |-> limb(k)], TwoTo[LimbBits]) = value % field

\* The buffer of a number stands for it, and all short numbers have buffers of
\* one size, so that hashing them in a row tells them apart.
BufferStandsForNumber ==
    Returned("bnToBuf") =>
        /\ ValueIn(result, 256) = ValueIn(call.dec, 10)
        /\ Len(call.dec) <= 2 * BufferSize => Len(result) = BufferSize

\* Whatever leaves the conversions stands for the number that went in: digits
\* of another base, limbs of a field, or a buffer to hash.
NumbersAreKept == NumberIsKept /\ LimbsStandForElement /\ BufferStandsForNumber

\* Text comes back from hex, unless it holds a NUL or two bytes in a row meet
\* in two zero digits.
TextComesBack ==
    Returned("text") =>
        LET text == call.bytes IN
        (\A k \in DOMAIN text : text[k] # 0)
        /\ (\A k \in 1..Len(text) - 1 : ~(text[k] % 16 = 0 /\ text[k + 1] < 16))
            => result[2] = text

Fitted(bytes, width) ==
    [k \in 1..width |-> IF k <= Len(bytes) THEN bytes[k] ELSE NUL]

\* Strings too short or too long for their field: each field comes back as its own
\* string, cut or filled up to its width, and never holds a neighbour's bytes.
FieldsKeepTheirPlace ==
    Returned("marshal") =>
        /\ \A f \in {"sender", "recipient", "shield", "identifier", "signature"} :
              result[f] = Fitted(call.msg[f], Widths[f])
        /\ result.opcode = call.msg.opcode
        /\ result.type = call.msg.type

\* The payload of a text message comes back as it was, and so does a binary one
\* without high bytes, whatever the signature's length.  A binary payload with a byte
\* from 128 up does not: it is counted as it is and written by way of a string, in
\* which that byte takes two (protocol.ts:42-43).
PayloadComesBack ==
    Returned("marshal")
    /\ (call.msg.type = Text \/ \A k \in DOMAIN call.msg.payload : ~High(call.msg.payload[k]))
        => result.payload = call.msg.payload

\* Unmarshalling gives back what was marshalled, field by field, and the payload, save
\* a binary one with high bytes.
MessageComesBack == FieldsKeepTheirPlace /\ PayloadComesBack
=============================================================================
