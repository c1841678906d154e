-------------------------------- MODULE Codecs --------------------------------
(***************************************************************************)
(* The codecs of the server over every string of up to MaxLen bytes of an   *)
(* alphabet: one string grows byte by byte, and each property is one of     *)
(* what the functions of Base64 and UrlCodec make of it.                    *)
(***************************************************************************)
EXTENDS Integers, Sequences, FiniteSetsExt

CONSTANTS
    Alphabet,  \* the bytes strings are made of
    MaxLen,    \* a bound of the model: the length of a string
    Copies     \* copies of the string in a text of several lines

ASSUME CodecAssumption ==
    Alphabet \subseteq 0 .. 255 /\ MaxLen \in Nat /\ Copies \in Nat

VARIABLE text

INSTANCE Base64
INSTANCE UrlCodec

Init == text = <<>>

Grow == /\ Len(text) < MaxLen
        /\ \E b \in Alphabet : text' = Append(text, b)

Next == Grow

Spec == Init /\ [][Next]_text

-----------------------------------------------------------------------------
(* Reference definitions *)

(* Bit i, from 0, of a string of bytes, zero behind its end.                *)
Bit(s, i) ==
    IF i \div 8 >= Len(s) THEN 0 ELSE (s[i \div 8 + 1] \div 2 ^ (7 - (i % 8))) % 2

(* Table 1 and table 2 of RFC 4648. *)
Alphabet64(url) ==
    [i \in 1 .. 26 |-> 64 + i] \o [i \in 1 .. 26 |-> 96 + i] \o [i \in 1 .. 10 |-> 47 + i]
    \o IF url THEN <<45, 95>> ELSE <<43, 47>>

(* RFC 4648: the bits in groups of six, padded to a multiple of four -- in   *)
(* the url alphabet with the '.' of base64.cpp:115 where the RFC has '='.    *)
Rfc(s, url) ==
    LET table == Alphabet64(url)
        sextet(j) == Bit(s, 6 * j) * 32 + Bit(s, 6 * j + 1) * 16 + Bit(s, 6 * j + 2) * 8
                     + Bit(s, 6 * j + 3) * 4 + Bit(s, 6 * j + 4) * 2 + Bit(s, 6 * j + 5)
        digits == (8 * Len(s) + 5) \div 6
    IN  [j \in 1 .. 4 * ((digits + 3) \div 4) |->
            IF j <= digits THEN table[sextet(j - 1) + 1] ELSE IF url THEN 46 ELSE 61]

Long == [i \in 1 .. Copies * Len(text) |-> text[1 + ((i - 1) % Len(text))]]

(* What a browser asks for when it follows the link of a file: the url with *)
(* a space, every byte that is not ASCII and a few more encoded, up to a '#'. *)
(* Which few makes no difference where it comes back.                        *)
BrowserTarget(url) ==
    LET end == Min(At(url, 35) \cup {Len(url) + 1}) - 1
        upTo[i \in 0 .. end] ==
            IF i = 0 THEN <<>>
            ELSE upTo[i - 1] \o (IF url[i] \in 33 .. 126 \ {34, 60, 62, 96, 123, 125}
                                 THEN <<url[i]>> ELSE Percent(url[i]))
    IN  upTo[end]

(* The n bytes from f on are one character of more than one byte in UTF-8.   *)
Character(s, f, n) ==
    /\ f + n - 1 <= Len(s) /\ \A k \in f + 1 .. f + n - 1 : s[k] \in 128 .. 191
    /\ \/ n = 2 /\ s[f] \in 194 .. 223
       \/ n = 3 /\ s[f] \in 224 .. 239 /\ (s[f] = 224 => s[f + 1] > 159)
                /\ (s[f] = 237 => s[f + 1] < 160)
       \/ n = 4 /\ s[f] \in 240 .. 244 /\ (s[f] = 240 => s[f + 1] > 143)
                /\ (s[f] = 244 => s[f + 1] < 144)

(* The names that come through the page as they are.  Service.cpp:168 puts   *)
(* the url into onclick="window.location='...'", in a page read as UTF-8,    *)
(* and escapes nothing: a quote of either kind, a '\' or a '&' is one of     *)
(* the page's or of its script's, and a browser drops control characters     *)
(* and spaces at the end, takes '.' and '..' for directories, and cuts at a   *)
(* '#'.  storage::UrlDecode decodes a '%' that it was not sent encoded.      *)
Linkable(name) ==
    /\ \A i \in DOMAIN name : name[i] > 31 /\ name[i] \notin {34, 35, 37, 38, 39, 47, 92}
    /\ name # <<>> => name[Len(name)] # 32
    /\ GetUrl(name) \notin {<<46>>, <<46, 46>>}
    /\ \A i \in DOMAIN name :
          name[i] > 127 => \E f \in 1 .. i, n \in 2 .. 4 : i < f + n /\ Character(name, f, n)

-----------------------------------------------------------------------------
(* Properties *)

(* base64.cpp:111: base64_encode is base64, in both alphabets.              *)
EncodeIsBase64 ==
    /\ \A url \in BOOLEAN : Encode(text, url) = Rfc(text, url)
    /\ Encode(Long, FALSE) = Rfc(Long, FALSE)

(* base64.cpp:178, the Filename header: what any of the encoders made of a  *)
(* name is decoded to the name -- from either alphabet, without its padding *)
(* too, and from lines of 64 or 76 characters.                              *)
DecodeInverts ==
    /\ \A url \in BOOLEAN : LET e == Encode(text, url) IN
          /\ Decode(e, FALSE) = text
          /\ Decode(Without(e, Pad(url)), FALSE) = text
    /\ Decode(EncodePem(Long), TRUE) = Long
    /\ Decode(EncodeMime(Long), TRUE) = Long

(* HttpConnection.cpp:88-133: UrlDecode undoes UrlEncode, and never meets   *)
(* the asserts on what UrlEncode made.                                      *)
UrlRoundTrip == UrlDecode(UrlEncode(text)) = text

(* Util.h:41 at Service.cpp:248: the button of a file on the list page leads *)
(* to the url the table has for it, if the page leaves the name as it is.    *)
LinkFindsFile == Linkable(text) => StorageUrlDecode(BrowserTarget(text)) = text

LastPairs(target) ==
    LET q == Query(target)
        cuts == At(q, 38) \cup {0, Len(q) + 1}
        pairs == {p \in cuts \X cuts :
                    /\ p[1] < p[2] /\ \A k \in cuts : ~(p[1] < k /\ k < p[2])
                    /\ \E k \in p[1] + 1 .. p[2] - 1 : q[k] = 61}
        pair(p) == SubSeq(q, p[1] + 1, p[2] - 1)
        last(p) == \A r \in pairs : Key(pair(r)) = Key(pair(p)) => r[1] <= p[1]
    IN  /\ DOMAIN GetParams(target) = {Key(pair(p)) : p \in pairs}
        /\ \A p \in pairs : last(p) => GetParams(target)[Key(pair(p))] = Value(pair(p))
        /\ GetUrl(target) \o (IF At(target, 63) = {} THEN <<>> ELSE <<63>> \o q) = target

(* HttpConnection.cpp:135: a parameter has the value of its last pair in    *)
(* the query, no other key has one, and nothing of the target is lost -- of *)
(* the text, and of a query that has it and most of it again.               *)
ParamsAreLastPairs ==
    /\ LastPairs(text)
    /\ LastPairs(<<63>> \o text \o <<38>> \o SubSeq(text, 1, Len(text) - 1))
===============================================================================
