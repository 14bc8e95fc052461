----------------------------- MODULE MCEncoding -----------------------------
EXTENDS Encoding

MCWidths == [f \in {"opcode", "sender", "recipient", "shield", "identifier", "reserved",
                    "signature", "type"} |-> IF f = "type" THEN 1 ELSE 2]

\* One byte for each field, and lengths around its width.
Bytestring(byte, n) == [k \in 1..n |-> byte]
MCContent ==
    [opcode     |-> {Bytestring(1, 1)},
     sender     |-> {Bytestring(2, n) : n \in 0..Widths["sender"] + 1},
     recipient  |-> {Bytestring(3, Widths["recipient"])},
     shield     |-> {Bytestring(4, n) : n \in 0..Widths["shield"] + 1},
     identifier |-> {Bytestring(5, Widths["identifier"])},
     signature  |-> {Bytestring(6, n) : n \in 0..Widths["signature"] + 3}]
MCBinaryPayloads == Strings({7, 200}, 2)
MCTextPayloads == {<<>>, <<7>>, <<7, 7>>, <<195, 169>>}
=============================================================================
