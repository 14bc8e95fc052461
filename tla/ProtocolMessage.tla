--------------------------- MODULE ProtocolMessage ---------------------------
(***************************************************************************)
(* The wire format of the protocol messages (core/types/src/protocol.ts):  *)
(* fields of fixed width, written into a buffer one after the other, and a *)
(* payload of any length.  A string of a field is a sequence of bytes; a   *)
(* field longer than its width is written all the same.                    *)
(***************************************************************************)
EXTENDS Naturals, Sequences, SequencesExt

CONSTANT Widths     \* bytes of each field: 5, 42, 42, 42, 36, 64, 64, 1

ASSUME WidthsAssumption ==
    /\ Widths \in [{"opcode", "sender", "recipient", "shield", "identifier", "reserved",
                 "signature", "type"} -> Nat \ {0}]
    /\ Widths["type"] = 1

\* The fields in the order they are written and read.
Layout == <<"opcode", "sender", "recipient", "shield", "identifier", "reserved",
            "signature", "type">>
Header == ToSet(Layout)

NUL == 0
High(byte) == byte >= 128
Binary == "0"   \* PayloadType as its digit
Text == "1"

\* Bytes in front of the k-th field of the layout.
Offset(k) ==
    LET sum[j \in 1..k] == IF j = 1 THEN 0 ELSE sum[j - 1] + Widths[Layout[j - 1]]
    IN  sum[k]
HeaderSize == Offset(Len(Layout) + 1)

\* Buffer.write: what does not fit into the buffer is not written.
Write(buffer, bytes, offset) ==
    [k \in DOMAIN buffer |->
        IF k > offset /\ k <= offset + Len(bytes) THEN bytes[k - offset] ELSE buffer[k]]

\* A string of one-byte characters is written as UTF-8: two bytes for a high
\* one, or none if only one fits.
Utf8(bytes, room) ==
    LET encoded(b) == IF High(b) THEN <<194 + (b \div 192), 128 + (b % 64)>> ELSE <<b>>
        turn[k \in 0..Len(bytes)] ==
            IF k = 0 THEN [out |-> <<>>, full |-> FALSE]
            ELSE LET old == turn[k - 1]
                     new == old.out \o encoded(bytes[k])
                 IN  IF old.full \/ Len(new) > room THEN [out |-> old.out, full |-> TRUE]
                     ELSE [out |-> new, full |-> FALSE]
    IN  turn[Len(bytes)].out

\* The payload of a text message is valid UTF-8.
PayloadBytes(msg) ==
    IF msg.type = Text THEN msg.payload ELSE Utf8(msg.payload, Len(msg.payload))

\* The reserved bytes are written as NULs, the type as the digit's character.
FieldBytes(msg, field) ==
    CASE field = "reserved" -> [k \in 1..Widths["reserved"] |-> NUL]
      [] field = "type"     -> IF msg.type = Text THEN <<49>> ELSE <<48>>
      [] OTHER              -> msg[field]

\* Mutant: the fields are written from the last to the first.
MarshalBackwards(msg) ==
    LET empty == [k \in 1..HeaderSize + Len(msg.payload) |-> NUL]
        n == Len(Layout)
        written[k \in 0..n] ==
            IF k = 0 THEN Write(empty, PayloadBytes(msg), HeaderSize)
            ELSE LET field == n + 1 - k
                 IN  Write(written[k - 1], FieldBytes(msg, Layout[field]), Offset(field))
    IN  written[n]

MarshalProtocolMessage(msg) ==
    LET empty == [k \in 1..HeaderSize + Len(msg.payload) |-> NUL]
        written[k \in 0..Len(Layout)] ==
            IF k = 0 THEN empty
            ELSE Write(written[k - 1], FieldBytes(msg, Layout[k]), Offset(k))
    IN  Write(written[Len(Layout)], PayloadBytes(msg), HeaderSize)

\* replace(/\0/g, '')
WithoutNULs(bytes) ==
    LET kept[k \in 0..Len(bytes)] ==
            IF k = 0 THEN <<>>
            ELSE IF bytes[k] = NUL THEN kept[k - 1] ELSE Append(kept[k - 1], bytes[k])
    IN  kept[Len(bytes)]

\* NULs are removed from the opcode only.
UnmarshalProtocolMessage(buffer) ==
    LET field(k) == SubSeq(buffer, Offset(k) + 1, Offset(k) + Widths[Layout[k]]) IN
    [opcode     |-> WithoutNULs(field(1)),
     sender     |-> field(2),
     recipient  |-> field(3),
     shield     |-> field(4),
     identifier |-> field(5),
     signature  |-> field(7),
     type       |-> IF field(8) = <<48>> THEN Binary
                    ELSE IF field(8) = <<49>> THEN Text ELSE "null",
     payload    |-> SubSeq(buffer, HeaderSize + 1, Len(buffer))]
=============================================================================
