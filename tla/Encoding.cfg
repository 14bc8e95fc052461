\* Numbers of four digits, so that limbs of three bits overflow a field of four;
\* texts of three bytes that meet in zero digits; fields of two bytes.
CONSTANTS
    Widths <- MCWidths
    DigitValues = {0, 1, 9, 15}
    MaxDigits = 4
    Bases = {2, 10, 16}
    MaxBytes = 3
    Bytes = {0, 5, 16, 48, 255}
    LimbBits = 3
    MaxLimbs = 4
    BufferSize = 2
    Content <- MCContent
    BinaryPayloads <- MCBinaryPayloads
    TextPayloads <- MCTextPayloads
SPECIFICATION Spec
INVARIANTS
    NumbersAreKept
    TextComesBack
    MessageComesBack
\* One call is made.
CHECK_DEADLOCK FALSE
