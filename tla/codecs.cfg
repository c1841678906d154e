\* All strings of up to four bytes of space, %, &, ', +, =, ?, A and the two
\* bytes of an a with two dots in UTF-8.
SPECIFICATION Spec
CONSTANTS
    Alphabet = {32, 37, 38, 39, 43, 61, 63, 65, 164, 195}
    MaxLen = 4
    Copies = 15
CHECK_DEADLOCK FALSE
INVARIANTS EncodeIsBase64 DecodeInverts UrlRoundTrip LinkFindsFile ParamsAreLastPairs
