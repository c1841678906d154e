-------------------------------- MODULE Base64 --------------------------------
(***************************************************************************)
(* src/base64.cpp: how the Filename header of an upload is decoded, and the *)
(* encodings the file offers.  A string is a sequence of bytes.  The masks  *)
(* and shifts of the code are written with \div and %.                      *)
(***************************************************************************)
EXTENDS Integers, Sequences

Byte == 0 .. 255

(* The result of a call that throws. *)
Throws == <<-1>>

-----------------------------------------------------------------------------
(* Encoding *)

(* base64_chars[url][k]; every other character is invalid. *)
Char(k, url) ==
    CASE k < 26 -> 65 + k
      [] k \in 26 .. 51 -> 71 + k
      [] k \in 52 .. 61 -> k - 4
      [] k = 62 -> IF url THEN 45 ELSE 43
      [] k = 63 -> IF url THEN 95 ELSE 47

(* trailing_char *)
Pad(url) == IF url THEN 46 ELSE 61

(* The bytes of s from index pos on, zero behind its end. *)
ByteAt(s, i) == IF i < Len(s) THEN s[i + 1] ELSE 0

(* The r-th character, 0 to 3, of the group for the bytes at pos, pos + 1   *)
(* and pos + 2.                                                             *)
GroupChar(s, pos, r, url) ==
    LET b0 == ByteAt(s, pos)
        b1 == ByteAt(s, pos + 1)
        b2 == ByteAt(s, pos + 2)
    IN  CASE r = 0 -> Char(b0 \div 4, url)
          [] r = 1 -> Char((b0 % 4) * 16 + b1 \div 16, url)
          [] r = 2 -> IF pos + 1 < Len(s) THEN Char((b1 % 16) * 4 + b2 \div 64, url)
                                          ELSE Pad(url)
          [] r = 3 -> IF pos + 2 < Len(s) THEN Char(b2 % 64, url) ELSE Pad(url)

(* A bug: a last group of fewer than three bytes is left out.               *)
EncodeWhole(s, url) ==
    [j \in 1 .. (Len(s) \div 3) * 4 |->
        GroupChar(s, ((j - 1) \div 4) * 3, (j - 1) % 4, url)]

(* base64_encode: groups of four characters for three bytes, the last group *)
(* for one to three.                                                        *)
Encode(s, url) ==
    [j \in 1 .. ((Len(s) + 2) \div 3) * 4 |->
        GroupChar(s, ((j - 1) \div 4) * 3, (j - 1) % 4, url)]

(* insert_linebreaks: a newline in front of the characters at distance,     *)
(* 2 * distance, and so on; none behind the last.                           *)
InsertLinebreaks(s, distance) ==
    IF s = <<>> THEN <<>>
    ELSE [j \in 1 .. Len(s) + (Len(s) - 1) \div distance |->
            IF j % (distance + 1) = 0 THEN 10 ELSE s[j - j \div (distance + 1)]]

EncodePem(s)  == InsertLinebreaks(Encode(s, FALSE), 64)
EncodeMime(s) == InsertLinebreaks(Encode(s, FALSE), 76)

-----------------------------------------------------------------------------
(* Decoding *)

Valid(c) == c \in 65 .. 90 \cup 97 .. 122 \cup 48 .. 57 \cup {43, 45, 47, 95}

(* pos_of_char, of a valid character, of either alphabet. *)
PosOfChar(c) ==
    CASE c \in 65 .. 90  -> c - 65
      [] c \in 97 .. 122 -> c - 71
      [] c \in 48 .. 57  -> c + 4
      [] c \in {43, 45}  -> 62
      [] c \in {47, 95}  -> 63

(* The chunk at pos has a k-th character that is not padding. *)
Has(e, pos, k) == pos + k < Len(e) /\ e[pos + k + 1] \notin {61, 46}

Third(e, pos)  == Has(e, pos, 2)
Fourth(e, pos) == Third(e, pos) /\ Has(e, pos, 3)

(* at() is out of range, or pos_of_char throws. *)
BadChunk(e, pos) ==
    \/ pos + 1 >= Len(e)
    \/ ~Valid(e[pos + 1]) \/ ~Valid(e[pos + 2])
    \/ Third(e, pos) /\ ~Valid(e[pos + 3])
    \/ Fourth(e, pos) /\ ~Valid(e[pos + 4])

(* The bytes of the chunk at pos. *)
Chunk(e, pos) ==
    LET p(k) == PosOfChar(e[pos + k + 1])
        b0 == p(0) * 4 + (p(1) % 64) \div 16
        b1 == (p(1) % 16) * 16 + (p(2) % 64) \div 4
        b2 == (p(2) % 4) * 64 + p(3)
    IN  IF Fourth(e, pos) THEN <<b0, b1, b2>>
        ELSE IF Third(e, pos) THEN <<b0, b1>>
        ELSE <<b0>>

(* decode, of a string without line breaks. *)
DecodeLine(e) ==
    LET n == (Len(e) + 3) \div 4
        upTo[i \in 0 .. n] ==
            IF i = 0 THEN <<>> ELSE upTo[i - 1] \o Chunk(e, 4 * (i - 1))
    IN  IF \E i \in 0 .. n - 1 : BadChunk(e, 4 * i) THEN Throws ELSE upTo[n]

(* std::remove and erase: what is left of e without every c. *)
Without(e, c) ==
    LET upTo[i \in 0 .. Len(e)] ==
            IF i = 0 THEN <<>>
            ELSE upTo[i - 1] \o (IF e[i] = c THEN <<>> ELSE <<e[i]>>)
    IN  upTo[Len(e)]

(* A bug: line breaks stay in. *)
DecodeKeeps(e, remove) == DecodeLine(e)

(* base64_decode(e, remove_linebreaks) *)
Decode(e, remove) ==
    DecodeLine(IF remove THEN Without(e, 10) ELSE e)
===============================================================================
