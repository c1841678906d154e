------------------------------- MODULE UrlCodec -------------------------------
(***************************************************************************)
(* The percent encodings of the server: UrlEncode, UrlDecode and            *)
(* PreParseGetParam of src/HttpConnection.cpp, and storage::UrlDecode of    *)
(* src/include/Util.h, which finds the url a download asks for.             *)
(***************************************************************************)
EXTENDS Integers, FiniteSetsExt, Sequences

Digit == 48 .. 57
Upper == 65 .. 90
Lower == 97 .. 122

(* The result of a call that stops at an assert. *)
Aborts == <<-1>>

ToHex(x) == IF x > 9 THEN x + 55 ELSE x + 48

(* FromHex of Util.h, in an unsigned char; that of HttpConnection.cpp is    *)
(* the same where its assert holds.                                         *)
FromHex(x) ==
    IF x \in Upper THEN x - 55 ELSE IF x \in Lower THEN x - 87 ELSE (x - 48) % 256

Hex(c) == c \in Digit \cup Upper \cup Lower

(* high * 16 + low, in a char. *)
TwoHex(s, i) == (FromHex(s[i]) * 16 + FromHex(s[i + 1])) % 256

Percent(c) == <<37, ToHex(c \div 16), ToHex(c % 16)>>

(* A bug: a '+' of the text is left as it is. *)
EncodePlus(c) ==
    IF c \in Digit \cup Upper \cup Lower \cup {45, 95, 46, 126, 43} THEN <<c>>
    ELSE IF c = 32 THEN <<43>>
    ELSE Percent(c)

EncodeChar(c) ==
    IF c \in Digit \cup Upper \cup Lower \cup {45, 95, 46, 126} THEN <<c>>
    ELSE IF c = 32 THEN <<43>>
    ELSE Percent(c)

UrlEncode(s) ==
    LET upTo[i \in 0 .. Len(s)] ==
            IF i = 0 THEN <<>> ELSE upTo[i - 1] \o EncodeChar(s[i])
    IN  upTo[Len(s)]

(* UrlDecode of HttpConnection.cpp *)
UrlDecode(s) ==
    LET good(i)  == i + 2 <= Len(s) /\ Hex(s[i + 1]) /\ Hex(s[i + 2])
        from[i \in 1 .. Len(s) + 1] ==
            IF i > Len(s) THEN <<>>
            ELSE IF s[i] = 43 THEN <<32>> \o from[i + 1]
            ELSE IF s[i] # 37 THEN <<s[i]>> \o from[i + 1]
            ELSE IF good(i) THEN <<TwoHex(s, i + 1)>> \o from[i + 3]
            ELSE Aborts
        bytes == from[1]
    IN  IF \E i \in DOMAIN bytes : bytes[i] = -1 THEN Aborts ELSE bytes

(* A bug: the UrlDecode of the query decodes the url. *)
StorageUrlDecodePlus(s) == UrlDecode(s)

(* storage::UrlDecode: a '+' stays, and so does a '%' without two bytes     *)
(* behind it.                                                               *)
StorageUrlDecode(s) ==
    LET from[i \in 1 .. Len(s) + 1] ==
            IF i > Len(s) THEN <<>>
            ELSE IF s[i] = 37 /\ i + 2 <= Len(s)
                 THEN <<TwoHex(s, i + 1)>> \o from[i + 3]
            ELSE <<s[i]>> \o from[i + 1]
    IN  from[1]

-----------------------------------------------------------------------------
(* PreParseGetParam *)

At(s, c) == {i \in DOMAIN s : s[i] = c}

(* _get_url and the query string: what is before and behind the first '?'. *)
GetUrl(target) ==
    IF At(target, 63) = {} THEN target ELSE SubSeq(target, 1, Min(At(target, 63)) - 1)

Query(target) ==
    IF At(target, 63) = {} THEN <<>>
    ELSE SubSeq(target, Min(At(target, 63)) + 1, Len(target))

(* The two sides of the first '='. *)
Key(pair)   == UrlDecode(SubSeq(pair, 1, Min(At(pair, 61)) - 1))
Value(pair) == UrlDecode(SubSeq(pair, Min(At(pair, 61)) + 1, Len(pair)))

(* A bug: the first value of a key stays. *)
SetFirst(params, pair) ==
    IF At(pair, 61) = {} THEN params
    ELSE [k \in DOMAIN params \cup {Key(pair)} |->
            IF k \in DOMAIN params THEN params[k] ELSE Value(pair)]

(* _get_params[key] = value, of a pair with a '='. *)
SetParam(params, pair) ==
    IF At(pair, 61) = {} THEN params
    ELSE [k \in DOMAIN params \cup {Key(pair)} |->
            IF k = Key(pair) THEN Value(pair) ELSE params[k]]

(* _get_params: the loop cuts the query at each '&' in turn and takes what  *)
(* is left behind the last as a pair too.                                   *)
GetParams(target) ==
    LET q == Query(target)
        start(e) == 1 + Max({0} \cup {i \in At(q, 38) : i < e})
        upTo[e \in 0 .. Len(q) + 1] ==
            IF e = 0 THEN [k \in {} |-> k]
            ELSE IF e = Len(q) + 1 \/ q[e] = 38
                 THEN SetParam(upTo[e - 1], SubSeq(q, start(e), e - 1))
            ELSE upTo[e - 1]
    IN  upTo[Len(q) + 1]
===============================================================================
