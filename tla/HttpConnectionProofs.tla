------------------------ MODULE HttpConnectionProofs ------------------------
(***************************************************************************)
(* Proofs about HttpConnection, for any number of requests of any kinds:    *)
(* its types; that only handlers that write the response themselves add an  *)
(* operation to the connection; and that the responses are in turn up to    *)
(* the first of these.                                                      *)
(***************************************************************************)
EXTENDS HttpConnection, TLAPS

Parsers == {"fresh", "head", "torn"}

Bodies == Seq(Kinds \cup {"none"})

(* A response has a status of its own: of the handlers that write one       *)
(* themselves none leaves it unset.                                         *)
LEMMA ResponsesType ==
    ASSUME NEW k \in Kinds \cup {"none"}, NEW b \in Bodies
    PROVE  /\ Responses(k, b) \in Seq(Reply) /\ OwnResponse(k, b) \in Seq(Reply)
           /\ Len(Responses(k, b)) = Len(OwnResponse(k, b)) + 1
<1>1. FinalStatus(k) \in {"ok", "not_found", "method_not_allowed"}
  BY DEF FinalStatus
<1>2. WriteResponse(k, FinalStatus(k), b) \in Reply
  BY <1>1 DEF WriteResponse, Reply, Bodies
<1>3. OwnResponse(k, b) \in Seq(Reply)
  <2>1. CASE WritesItself(k)
    <3>1. Handlers[k].status \in {"ok", "internal_server_error", "not_found"}
      BY <2>1 DEF WritesItself, Routed, Handlers
    <3>2. WriteResponse(k, Handlers[k].status, b) \in Reply
      BY <3>1 DEF WriteResponse, Reply, Bodies
    <3>3. QED BY <2>1, <3>2 DEF OwnResponse
  <2>2. CASE ~WritesItself(k)
    BY <2>2 DEF OwnResponse
  <2>3. QED BY <2>1, <2>2
<1>4. QED BY <1>2, <1>3 DEF Responses

(* The completion of a write spoils reads, and loses none.                  *)
LEMMA DroppedType ==
    ASSUME NEW rs \in Seq(Parsers), NEW qs \in Dropped(rs)
    PROVE  qs \in Seq(Parsers) /\ Len(qs) = Len(rs)
<1>1. qs \in [1 .. Len(rs) -> Parsers] /\ Len(rs) \in Nat
  BY DEF Dropped, Parsers
<1>2. QED BY <1>1

(* What goes onto a sequence and what comes off it.                         *)
LEMMA HeadTail ==
    ASSUME NEW S, NEW s \in Seq(S), s # <<>>
    PROVE  Head(s) \in S /\ Tail(s) \in Seq(S)
OBVIOUS

LEMMA AppendType ==
    ASSUME NEW S, NEW s \in Seq(S), NEW x \in S
    PROVE  Append(s, x) \in Seq(S) /\ AppendUpTo(s, x) \in Seq(S)
BY DEF AppendUpTo

LEMMA ConcatType ==
    ASSUME NEW S, NEW r \in Seq(S), NEW s \in Seq(S)
    PROVE  r \o s \in Seq(S)
OBVIOUS

Wire == {"head"} \cup Requests

LEMMA TypesStep ==
    ASSUME TypeOK, [Next]_vars
    PROVE  TypeOK'
<1>0. /\ sent \in Seq(Requests) /\ wire \in Seq(Wire) /\ reads \in Seq(Parsers)
      /\ client \in {"open", "half", "closed"}
      /\ request \in Kinds \cup {"none"} /\ handling \in Nat /\ own \in Nat
      /\ body \in Bodies /\ writes \in Seq(Reply) /\ got \in Seq(Reply)
      /\ client = "closed" => wire = <<>>
  BY DEF TypeOK, Parsers, Wire, Bodies
<1>t. SUFFICES
      /\ sent' \in Seq(Requests) /\ wire' \in Seq(Wire) /\ reads' \in Seq(Parsers)
      /\ client' \in {"open", "half", "closed"}
      /\ request' \in Kinds \cup {"none"} /\ handling' \in Nat /\ own' \in Nat
      /\ body' \in Bodies /\ writes' \in Seq(Reply) /\ got' \in Seq(Reply)
      /\ client' = "closed" => wire' = <<>>
  BY DEF TypeOK, Parsers, Wire, Bodies, Reply
<1>w. /\ Requests \subseteq Kinds /\ Requests \subseteq Wire /\ "head" \in Wire
      /\ \A k \in Wire : k # "head" => k \in Requests
      /\ <<>> \in Seq(Wire)
      /\ "fresh" \in Parsers /\ "head" \in Parsers /\ "torn" \in Parsers
  BY HttpAssumption DEF Wire, Parsers
<1>1. ASSUME NEW k \in Requests, ClientSend(k)
      PROVE  sent' \in Seq(Requests) /\ wire' \in Seq(Wire)
  <2>1. <<"head", k>> \in Seq(Wire)
    BY <1>w
  <2>2. wire' \in Seq(Wire)
    BY <1>0, <1>1, <2>1, ConcatType DEF ClientSend
  <2>3. sent' \in Seq(Requests)
    BY <1>0, <1>1, AppendType DEF ClientSend
  <2>4. QED BY <2>2, <2>3
<1>2. CASE \E k \in Requests : ClientSend(k)
  BY <1>0, <1>1, <1>2 DEF ClientSend
<1>3. CASE ClientShutdown \/ ClientClose
  <2>1. wire' \in Seq(Wire) /\ client' \in {"half", "closed"}
        /\ (client' = "closed" => wire' = <<>>)
    BY <1>0, <1>3, <1>w DEF ClientShutdown, ClientClose
  <2>2. UNCHANGED <<sent, reads, request, handling, body, writes, own, got>>
    BY <1>3 DEF ClientShutdown, ClientClose
  <2>3. QED BY <1>0, <2>1, <2>2
<1>4. CASE ReadHead
  <2>1. wire' \in Seq(Wire) /\ Tail(reads) \in Seq(Parsers)
    BY <1>0, <1>4, HeadTail DEF ReadHead
  <2>2. reads' \in Seq(Parsers)
    <3>1. PICK q \in Parsers : reads' = Append(Tail(reads), q)
      BY <1>4, <1>w DEF ReadHead
    <3>2. QED BY <2>1, <3>1, AppendType
  <2>3. QED BY <1>0, <1>4, <2>1, <2>2 DEF ReadHead
<1>5. CASE ReadRest
  <2>1. Head(wire) \in Wire /\ Tail(wire) \in Seq(Wire) /\ reads' \in Seq(Parsers)
    BY <1>0, <1>5, HeadTail DEF ReadRest
  <2>2. request' \in Kinds \cup {"none"}
    BY <1>0, <1>5, <1>w, <2>1 DEF ReadRest
  <2>3. wire' \in Seq(Wire)
    BY <1>0, <1>5, <2>1 DEF ReadRest
  <2>4. handling' \in Nat
    BY <1>0, <1>5 DEF ReadRest
  <2>5. client # "closed"
    BY <1>0, <1>5 DEF ReadRest
  <2>6. QED BY <1>0, <1>5, <2>1, <2>2, <2>3, <2>4, <2>5 DEF ReadRest
<1>6. CASE ReadEof
  <2>1. reads' \in Seq(Parsers)
    BY <1>0, <1>6, HeadTail DEF ReadEof
  <2>2. QED BY <1>0, <1>6, <2>1 DEF ReadEof
<1>7. CASE HandleReq
  <2>1. body' \in Bodies
    BY <1>0, <1>7, AppendType DEF HandleReq, Bodies
  <2>2. writes' \in Seq(Reply)
    BY <1>0, <1>7, <2>1, ResponsesType, ConcatType DEF HandleReq
  <2>3. handling' \in Nat /\ own' \in Nat
    <3>1. OwnResponse(request, body') \in Seq(Reply)
      BY <1>0, <2>1, ResponsesType
    <3>2. QED BY <1>0, <1>7, <3>1 DEF HandleReq
  <2>4. QED BY <1>0, <1>7, <2>1, <2>2, <2>3 DEF HandleReq
<1>8. CASE HandleThrow
  BY <1>0, <1>8 DEF HandleThrow
<1>9. CASE WriteDone
  <2>1. PICK rs \in Dropped(reads) : reads' = Append(rs, "fresh")
    BY <1>9 DEF WriteDone
  <2>2. rs \in Seq(Parsers)
    BY <1>0, <2>1, DroppedType
  <2>3. reads' \in Seq(Parsers)
    BY <1>w, <2>1, <2>2, AppendType
  <2>4. Head(writes) \in Reply /\ writes' \in Seq(Reply)
    BY <1>0, <1>9, HeadTail DEF WriteDone
  <2>5. got' \in Seq(Reply)
    BY <1>0, <1>9, <2>4, AppendType DEF WriteDone
  <2>6. QED BY <1>0, <1>9, <2>3, <2>4, <2>5 DEF WriteDone
<1>10. CASE WriteFails
  <2>1. writes' \in Seq(Reply)
    BY <1>0, <1>10, HeadTail DEF WriteFails
  <2>2. QED BY <1>0, <1>10, <2>1 DEF WriteFails
<1>11. CASE Closed \/ UNCHANGED vars
  BY <1>0, <1>11 DEF Closed, vars
<1>12. QED
  BY <1>2, <1>3, <1>4, <1>5, <1>6, <1>7, <1>8, <1>9, <1>10, <1>11 DEF Next, Server

(* HttpConnection keeps its types for any requests, those of handlers that  *)
(* write the response themselves too: no write leaves without a status, and *)
(* a client that has closed has nothing on the wire.                        *)
THEOREM ConnectionTypeCorrect == Spec => []TypeOK
<1>1. Init => TypeOK
  BY DEF Init, TypeOK
<1>2. TypeOK /\ [Next]_vars => TypeOK'
  BY TypesStep
<1>3. QED BY <1>1, <1>2, PTL DEF Spec
-----------------------------------------------------------------------------
(* The operations of a connection. *)

LEMMA CountedStep ==
    ASSUME TypeOK, OperationsCounted, [Next]_vars
    PROVE  OperationsCounted'
<1>0. /\ reads \in Seq(Parsers) /\ writes \in Seq(Reply)
      /\ handling \in Nat /\ own \in Nat /\ body \in Bodies
      /\ request \in Kinds \cup {"none"}
      /\ Len(reads) + handling + Len(writes) <= 1 + own
  BY DEF TypeOK, Parsers, Bodies, OperationsCounted
<1> USE DEF OperationsCounted
<1>1. CASE (\E k \in Requests : ClientSend(k)) \/ ClientShutdown \/ ClientClose
  BY <1>1 DEF ClientSend, ClientShutdown, ClientClose
<1>2. CASE ReadHead
  <2>1. Len(reads') = Len(reads)
    BY <1>0, <1>2 DEF ReadHead
  <2>2. QED BY <1>0, <1>2, <2>1 DEF ReadHead
<1>3. CASE ReadRest \/ ReadEof
  <2>1. Len(reads') = Len(reads) - 1 /\ handling' = handling + 1
    BY <1>0, <1>3 DEF ReadRest, ReadEof
  <2>2. QED BY <1>0, <1>3, <2>1 DEF ReadRest, ReadEof
<1>4. CASE HandleReq
  <2>1. body' \in Bodies
    BY <1>0, <1>4, AppendType DEF HandleReq, Bodies
  <2>2. /\ Responses(request, body') \in Seq(Reply) /\ OwnResponse(request, body') \in Seq(Reply)
        /\ Len(Responses(request, body')) = Len(OwnResponse(request, body')) + 1
    BY <1>0, <2>1, ResponsesType
  <2>3. Len(writes') = Len(writes) + Len(Responses(request, body'))
    BY <1>0, <1>4, <2>2 DEF HandleReq
  <2>4. handling' = handling - 1 /\ own' = own + Len(OwnResponse(request, body'))
        /\ reads' = reads
    BY <1>4 DEF HandleReq
  <2>5. Len(OwnResponse(request, body')) \in Nat /\ Len(reads) \in Nat /\ Len(writes) \in Nat
    BY <1>0, <2>2
  <2>6. QED BY <1>0, <2>2, <2>3, <2>4, <2>5
<1>5. CASE HandleThrow
  BY <1>0, <1>5 DEF HandleThrow
<1>6. CASE WriteDone
  <2>1. PICK rs \in Dropped(reads) : reads' = Append(rs, "fresh")
    BY <1>6 DEF WriteDone
  <2>2. rs \in Seq(Parsers) /\ Len(rs) = Len(reads)
    BY <1>0, <2>1, DroppedType
  <2>3. Len(reads') = Len(reads) + 1
    BY <2>1, <2>2
  <2>4. Len(writes') = Len(writes) - 1
    BY <1>0, <1>6 DEF WriteDone
  <2>5. QED BY <1>0, <1>6, <2>3, <2>4 DEF WriteDone
<1>7. CASE WriteFails
  <2>1. Len(writes') = Len(writes) - 1
    BY <1>0, <1>7 DEF WriteFails
  <2>2. QED BY <1>0, <1>7, <2>1 DEF WriteFails
<1>8. CASE Closed \/ UNCHANGED vars
  BY <1>8 DEF Closed, vars
<1>9. QED
  BY <1>1, <1>2, <1>3, <1>4, <1>5, <1>6, <1>7, <1>8 DEF Next, Server

(* HttpConnection.cpp:222: however many requests of whatever kinds a client *)
(* sends, and however they fail, a connection has never more operations in  *)
(* progress than one and one for each response that a handler has written   *)
(* itself; before the first of these, two threads take turns on it.         *)
THEOREM OperationsAreCounted == Spec => []OperationsCounted
<1>1. Init => OperationsCounted
  BY DEF Init, OperationsCounted
<1>2. TypeOK /\ OperationsCounted /\ [Next]_vars => OperationsCounted'
  BY CountedStep
<1>3. QED BY <1>1, <1>2, ConnectionTypeCorrect, PTL DEF Spec

-----------------------------------------------------------------------------
(* The responses of a client that stays. *)

NoBig == ~Contains(sent, "bigupload")

(* On the wire are whole requests that were sent; of the first the head may *)
(* have been read.                                                          *)
WireOrder ==
    /\ \A i \in DOMAIN wire : wire[i] = "head" <=> (Len(wire) - i) % 2 = 1
    /\ \A i \in DOMAIN wire : wire[i] = "head" \/ \E j \in DOMAIN sent : sent[j] = wire[i]

(* Each request has one response coming, or had it, and the handlers' own;  *)
(* those that wait on the wire have two fragments each, or only the last.   *)
RepliesCounted ==
    2 * (Len(got) + Len(writes) + handling) + Len(wire) <= 2 * (Len(sent) + own)

InTurn ==
    \A n \in DOMAIN got :
        (\A i \in DOMAIN sent : i < n => ~WritesItself(sent[i])) =>
            n \in DOMAIN sent /\ got[n].to = sent[n]

(* Nothing more is promised once a request has been answered whose handler  *)
(* writes itself, or once the history of the responses is full.             *)
Settled ==
    \/ \E i \in DOMAIN sent : WritesItself(sent[i]) /\ i <= Len(got)
    \/ ~(Len(got) < MaxReplies)

(* Until then, where the last request that was sent is: nowhere, on the     *)
(* wire before its head is read and after, in _request, or in the responses *)
(* being written; or its handler has thrown and nothing is left of the      *)
(* connection.                                                              *)
Stage ==
    LET last    == sent[Len(sent)]
        waiting == Len(sent) = Len(got) + 1
    IN  \/ /\ Len(sent) = Len(got) /\ wire = <<>> /\ reads = <<"fresh">>
           /\ handling = 0 /\ writes = <<>>
        \/ /\ waiting /\ wire = <<"head", last>> /\ reads = <<"fresh">>
           /\ handling = 0 /\ writes = <<>>
        \/ /\ waiting /\ wire = <<last>> /\ reads = <<"head">>
           /\ handling = 0 /\ writes = <<>>
        \/ /\ waiting /\ wire = <<>> /\ reads = <<>>
           /\ handling = 1 /\ writes = <<>> /\ request = last
        \/ /\ waiting /\ wire = <<>> /\ reads = <<>>
           /\ handling = 0 /\ writes # <<>> /\ writes[1].to = last
           /\ WritesItself(last) \/ Len(writes) = 1
        \/ /\ waiting /\ wire = <<>> /\ reads = <<>>
           /\ handling = 0 /\ writes = <<>>

ReplyInv ==
    /\ TypeOK /\ WireOrder
    /\ client = "open" /\ NoBig => RepliesCounted /\ InTurn /\ (Settled \/ Stage)

(* What a step leaves of the history: the client's requests get more, and   *)
(* so do the responses.                                                     *)
LEMMA Histories ==
    ASSUME TypeOK, [Next]_vars
    PROVE  /\ sent' = sent \/ \E k \in Requests : ClientSend(k) /\ sent' = Append(sent, k)
           /\ \/ got' = got
              \/ /\ WriteDone /\ Len(got) < MaxReplies /\ client # "closed"
                 /\ got' = Append(got, Head(writes))
           /\ client' = "open" => client = "open"
           /\ NoBig' => NoBig
<1>1. sent' = sent \/ \E k \in Requests : ClientSend(k) /\ sent' = Append(sent, k)
  BY DEF Next, Server, ClientSend, ClientShutdown, ClientClose, ReadHead, ReadRest,
         ReadEof, HandleReq, HandleThrow, WriteDone, WriteFails, Closed, vars
<1>2. \/ got' = got
      \/ /\ WriteDone /\ Len(got) < MaxReplies /\ client # "closed"
         /\ got' = Append(got, Head(writes))
  <2>1. CASE WriteDone
    BY <2>1 DEF WriteDone, AppendUpTo
  <2>2. CASE ~WriteDone
    BY <2>2 DEF Next, Server, ClientSend, ClientShutdown, ClientClose, ReadHead, ReadRest,
         ReadEof, HandleReq, HandleThrow, WriteFails, Closed, vars
  <2>3. QED BY <2>1, <2>2
<1>3. client' = "open" => client = "open"
  BY DEF Next, Server, ClientSend, ClientShutdown, ClientClose, ReadHead, ReadRest,
         ReadEof, HandleReq, HandleThrow, WriteDone, WriteFails, Closed, vars
<1>4. NoBig' => NoBig
  <2>1. sent \in Seq(Requests)
    BY DEF TypeOK
  <2>2. ASSUME NEW k \in Requests, sent' = Append(sent, k) PROVE NoBig' => NoBig
    BY <2>1, <2>2 DEF NoBig, Contains
  <2>3. QED BY <1>1, <2>2 DEF NoBig
<1>5. QED BY <1>1, <1>2, <1>3, <1>4

LEMMA TailSeq ==
    ASSUME NEW S, NEW s \in Seq(S), s # <<>>
    PROVE  /\ Len(s) \in Nat \ {0} /\ Len(Tail(s)) = Len(s) - 1
           /\ Head(s) = s[1]
           /\ \A i \in 1 .. Len(s) - 1 : Tail(s)[i] = s[i + 1]
OBVIOUS

(* A request that is on the wire stays a request that was sent.             *)
LEMMA WireStep ==
    ASSUME TypeOK, WireOrder, [Next]_vars
    PROVE  WireOrder'
<1>0. wire \in Seq(Wire) /\ sent \in Seq(Requests) /\ Len(wire) \in Nat /\ Len(sent) \in Nat
  BY DEF TypeOK, Wire
<1>1. ASSUME NEW k \in Requests, ClientSend(k) PROVE WireOrder'
  <2>1. k # "head"
    BY HttpAssumption DEF Kinds
  <2>2. /\ Len(wire') = Len(wire) + 2 /\ DOMAIN wire' = 1 .. Len(wire) + 2
        /\ \A i \in 1 .. Len(wire) : wire'[i] = wire[i]
        /\ wire'[Len(wire) + 1] = "head" /\ wire'[Len(wire) + 2] = k
    BY <1>0, <1>1 DEF ClientSend
  <2>3. /\ DOMAIN sent' = 1 .. Len(sent) + 1 /\ sent'[Len(sent) + 1] = k
        /\ \A j \in DOMAIN sent : j \in DOMAIN sent' /\ sent'[j] = sent[j]
    BY <1>0, <1>1 DEF ClientSend
  <2>4. ASSUME NEW i \in DOMAIN wire'
        PROVE  /\ wire'[i] = "head" <=> (Len(wire') - i) % 2 = 1
               /\ wire'[i] = "head" \/ \E j \in DOMAIN sent' : sent'[j] = wire'[i]
    <3>1. CASE i \in 1 .. Len(wire)
      <4>1. /\ wire[i] = "head" <=> (Len(wire) - i) % 2 = 1
            /\ wire[i] = "head" \/ \E j \in DOMAIN sent : sent[j] = wire[i]
        BY <3>1, <1>0 DEF WireOrder
      <4>2. (Len(wire') - i) % 2 = (Len(wire) - i) % 2
        BY <3>1, <2>2, <1>0
      <4>3. wire'[i] = wire[i]
        BY <3>1, <2>2
      <4>4. QED BY <4>1, <4>2, <4>3, <2>3
    <3>2. CASE i = Len(wire) + 1
      <4>1. (Len(wire') - i) % 2 = 1
        BY <3>2, <2>2, <1>0
      <4>2. QED BY <3>2, <2>2, <4>1
    <3>3. CASE i = Len(wire) + 2
      <4>1. (Len(wire') - i) % 2 = 0
        BY <3>3, <2>2, <1>0
      <4>2. QED BY <3>3, <2>1, <2>2, <2>3, <4>1, <1>0
    <3>4. QED BY <2>2, <3>1, <3>2, <3>3, <1>0
  <2>5. QED BY <2>4 DEF WireOrder
<1>2. ASSUME wire # <<>>, wire' = Tail(wire), sent' = sent PROVE WireOrder'
  <2>1. /\ Len(wire') = Len(wire) - 1 /\ Len(wire) \in Nat \ {0}
        /\ \A i \in 1 .. Len(wire) - 1 : wire'[i] = wire[i + 1]
    BY <1>0, <1>2, TailSeq
  <2>2. DOMAIN wire' = 1 .. Len(wire) - 1
    <3>1. wire' \in Seq(Wire)
      BY <1>0, <1>2
    <3>2. QED BY <3>1, <2>1
  <2>3. ASSUME NEW i \in DOMAIN wire'
        PROVE  /\ wire'[i] = "head" <=> (Len(wire') - i) % 2 = 1
               /\ wire'[i] = "head" \/ \E j \in DOMAIN sent' : sent'[j] = wire'[i]
    <3>1. i \in 1 .. Len(wire) - 1 /\ i + 1 \in DOMAIN wire
      BY <2>1, <2>2, <1>0
    <3>2. Len(wire') - i = Len(wire) - (i + 1) /\ wire'[i] = wire[i + 1]
      BY <2>1, <3>1
    <3>3. QED BY <1>2, <3>1, <3>2 DEF WireOrder
  <2>4. QED BY <2>3 DEF WireOrder
<1>3. ASSUME wire' = <<>> PROVE WireOrder'
  BY <1>3 DEF WireOrder
<1>4. CASE wire' = wire /\ sent' = sent
  BY <1>4 DEF WireOrder
<1>5. QED
  BY <1>1, <1>2, <1>3, <1>4
  DEF Next, Server, ClientShutdown, ClientClose, ReadHead, ReadRest, ReadEof,
      HandleReq, HandleThrow, WriteDone, WriteFails, Closed, vars

(* The fragments of one request are two, and become one operation, and that *)
(* one response and the handler's own.                                      *)
LEMMA CountStep ==
    ASSUME TypeOK, WireOrder, RepliesCounted, [Next]_vars,
           client = "open", client' = "open", NoBig
    PROVE  RepliesCounted'
<1>0. /\ wire \in Seq(Wire) /\ sent \in Seq(Requests) /\ got \in Seq(Reply)
      /\ writes \in Seq(Reply) /\ handling \in Nat /\ own \in Nat
      /\ request \in Kinds \cup {"none"} /\ body \in Bodies
      /\ Len(wire) \in Nat /\ Len(sent) \in Nat /\ Len(got) \in Nat /\ Len(writes) \in Nat
      /\ 2 * (Len(got) + Len(writes) + handling) + Len(wire) <= 2 * (Len(sent) + own)
  BY DEF TypeOK, Wire, Bodies, RepliesCounted
<1> USE DEF RepliesCounted
<1>1. ASSUME NEW k \in Requests, ClientSend(k) PROVE RepliesCounted'
  <2>1. Len(wire') = Len(wire) + 2 /\ Len(sent') = Len(sent) + 1
    BY <1>0, <1>1 DEF ClientSend
  <2>2. QED BY <1>0, <1>1, <2>1 DEF ClientSend
<1>2. CASE ClientShutdown \/ ClientClose
  BY <1>2 DEF ClientShutdown, ClientClose
<1>3. CASE ReadHead
  <2>1. Len(wire') = Len(wire) - 1
    BY <1>0, <1>3 DEF ReadHead
  <2>2. QED BY <1>0, <1>3, <2>1 DEF ReadHead
<1>4. CASE ReadRest
  <2>1. wire # <<>> /\ Head(wire) # "head" /\ Head(wire) = wire[1] /\ 1 \in DOMAIN wire
        /\ Len(wire) \in Nat \ {0}
    BY <1>0, <1>4, TailSeq DEF ReadRest
  <2>2. Head(wire) # "bigupload"
    <3>1. PICK j \in DOMAIN sent : sent[j] = Head(wire)
      BY <2>1 DEF WireOrder
    <3>2. j \in 1 .. Len(sent)
      BY <1>0
    <3>3. QED BY <3>1, <3>2 DEF NoBig, Contains
  <2>3. Len(wire') = Len(wire) - 1 /\ handling' = handling + 1
    BY <1>0, <1>4, <2>2 DEF ReadRest
  <2>4. (Len(wire) - 1) % 2 # 1
    BY <2>1 DEF WireOrder
  <2> DEFINE m == (Len(wire) - 1) \div 2
  <2>5. m \in Int /\ Len(wire) = 2 * m + 1
    BY <2>1, <2>4
  <2> HIDE DEF m
  <2>6. 2 * (Len(got) + Len(writes) + (handling + 1)) + (Len(wire) - 1) <= 2 * (Len(sent) + own)
    BY <1>0, <2>5
  <2>7. UNCHANGED <<got, writes, sent, own>>
    BY <1>4 DEF ReadRest
  <2>8. QED BY <2>3, <2>6, <2>7
<1>5. CASE ReadEof
  BY <1>5 DEF ReadEof
<1>6. CASE HandleReq
  <2>1. body' \in Bodies
    BY <1>0, <1>6, AppendType DEF HandleReq, Bodies
  <2>2. /\ Responses(request, body') \in Seq(Reply) /\ OwnResponse(request, body') \in Seq(Reply)
        /\ Len(Responses(request, body')) = Len(OwnResponse(request, body')) + 1
    BY <1>0, <2>1, ResponsesType
  <2>3. Len(writes') = Len(writes) + Len(Responses(request, body'))
    BY <1>0, <1>6, <2>2 DEF HandleReq
  <2>4. /\ handling' = handling - 1 /\ own' = own + Len(OwnResponse(request, body'))
        /\ UNCHANGED <<got, sent, wire>>
    BY <1>6 DEF HandleReq
  <2>5. Len(OwnResponse(request, body')) \in Nat
    BY <2>2
  <2>6. QED BY <1>0, <2>2, <2>3, <2>4, <2>5
<1>7. CASE HandleThrow
  BY <1>0, <1>7 DEF HandleThrow
<1>8. CASE WriteDone
  <2>1. Len(writes') = Len(writes) - 1
    BY <1>0, <1>8 DEF WriteDone
  <2>2. Len(got') <= Len(got) + 1 /\ Len(got') \in Nat
    BY <1>0, <1>8 DEF WriteDone, AppendUpTo
  <2>3. QED BY <1>0, <1>8, <2>1, <2>2 DEF WriteDone
<1>9. CASE WriteFails
  BY <1>9 DEF WriteFails
<1>10. CASE Closed \/ UNCHANGED vars
  BY <1>10 DEF Closed, vars
<1>11. QED
  BY <1>1, <1>2, <1>3, <1>4, <1>5, <1>6, <1>7, <1>8, <1>9, <1>10 DEF Next, Server

(* Nothing is promised of the responses behind the first to a request whose *)
(* handler writes itself.                                                   *)
LEMMA SettledStep ==
    ASSUME TypeOK, InTurn, Settled, [Next]_vars
    PROVE  InTurn' /\ Settled'
<1>0. sent \in Seq(Requests) /\ got \in Seq(Reply) /\ Len(got) \in Nat /\ Len(sent) \in Nat
  BY DEF TypeOK
<1>1. \A i \in DOMAIN sent : i \in DOMAIN sent' /\ sent'[i] = sent[i]
  BY <1>0, Histories
<1>2. \/ got' = got
      \/ Len(got) < MaxReplies /\ got' = Append(got, Head(writes))
  BY Histories
<1>3. CASE got' = got
  <2>1. InTurn'
    BY <1>1, <1>3 DEF InTurn
  <2>2. QED BY <1>1, <1>3, <2>1 DEF Settled
<1>4. CASE Len(got) < MaxReplies /\ got' = Append(got, Head(writes))
  <2>1. PICK i \in DOMAIN sent : WritesItself(sent[i]) /\ i <= Len(got)
    BY <1>4 DEF Settled
  <2>2. /\ Len(got') = Len(got) + 1 /\ DOMAIN got' = 1 .. Len(got) + 1
        /\ \A n \in 1 .. Len(got) : got'[n] = got[n]
    BY <1>0, <1>4
  <2>3. i \in DOMAIN sent' /\ WritesItself(sent'[i])
    BY <1>1, <2>1
  <2>4. Settled'
    BY <1>0, <2>1, <2>2, <2>3 DEF Settled
  <2>5. ASSUME NEW n \in DOMAIN got', \A j \in DOMAIN sent' : j < n => ~WritesItself(sent'[j])
        PROVE  n \in DOMAIN sent' /\ got'[n].to = sent'[n]
    <3>1. n \in 1 .. Len(got)
      BY <1>0, <2>1, <2>2, <2>3, <2>5
    <3>2. n \in DOMAIN got /\ \A j \in DOMAIN sent : j < n => ~WritesItself(sent[j])
      BY <1>0, <1>1, <2>5, <3>1
    <3>3. n \in DOMAIN sent /\ got[n].to = sent[n]
      BY <3>2 DEF InTurn
    <3>4. QED BY <1>1, <2>2, <3>1, <3>3
  <2>6. QED BY <2>4, <2>5 DEF InTurn
<1>5. QED BY <1>2, <1>3, <1>4

(* The only element of a sequence of length one, and what is left after it. *)
LEMMA SingleSeq ==
    ASSUME NEW S, NEW s \in Seq(S), Len(s) = 1
    PROVE  Tail(s) = <<>>
<1>1. s # <<>>
  OBVIOUS
<1>2. Tail(s) \in Seq(S) /\ Len(Tail(s)) = 0
  BY <1>1
<1>3. ASSUME NEW r \in Seq(S), Len(r) = 0 PROVE r = <<>>
  BY <1>3
<1> QED BY <1>2, <1>3

(* The first response to a request names it, and is the only one unless the *)
(* handler writes itself.                                                   *)
LEMMA FirstResponse ==
    ASSUME NEW k \in Kinds \cup {"none"}, NEW b \in Bodies
    PROVE  /\ Responses(k, b) # <<>> /\ Responses(k, b)[1].to = k
           /\ WritesItself(k) \/ Len(Responses(k, b)) = 1
<1>1. CASE WritesItself(k)
  BY <1>1 DEF Responses, OwnResponse, WriteResponse
<1>2. CASE ~WritesItself(k)
  BY <1>2 DEF Responses, OwnResponse, WriteResponse
<1>3. QED BY <1>1, <1>2

LEMMA StageStep ==
    ASSUME TypeOK, InTurn, Stage, ~Settled, [Next]_vars,
           client = "open", client' = "open", NoBig, sent' = sent
    PROVE  InTurn' /\ (Settled' \/ Stage')
<1> DEFINE last == sent[Len(sent)]
<1>0. /\ sent \in Seq(Requests) /\ got \in Seq(Reply) /\ writes \in Seq(Reply)
      /\ Len(got) \in Nat /\ Len(sent) \in Nat /\ body \in Bodies
      /\ Len(got) < MaxReplies /\ Stage
      /\ \A i \in DOMAIN sent : i <= Len(got) => ~WritesItself(sent[i])
  BY DEF TypeOK, Settled, Bodies
<1>a. Len(sent) = Len(got) + 1 =>
         /\ Len(sent) \in DOMAIN sent
         /\ last \in Requests /\ last \in Kinds /\ last # "head" /\ last # "bigupload"
  <2> SUFFICES ASSUME Len(sent) = Len(got) + 1
               PROVE  /\ Len(sent) \in DOMAIN sent
                      /\ last \in Requests /\ last \in Kinds
                      /\ last # "head" /\ last # "bigupload"
    OBVIOUS
  <2>1. Len(sent) \in 1 .. Len(sent) /\ DOMAIN sent = 1 .. Len(sent) /\ last \in Requests
    BY <1>0
  <2>2. last # "bigupload"
    BY <2>1 DEF NoBig, Contains
  <2>3. last \in Kinds
    BY <2>1, HttpAssumption
  <2>4. QED BY <2>1, <2>2, <2>3 DEF Kinds
<1>b. got' = got => InTurn'
  BY DEF InTurn
<1>1. CASE ReadHead
  <2>1. wire = <<"head", last>> /\ Len(sent) = Len(got) + 1 /\ reads = <<"fresh">>
        /\ handling = 0 /\ writes = <<>>
    BY <1>1, <1>0, <1>a DEF ReadHead, Stage
  <2>2. wire' = <<last>> /\ reads' = <<"head">>
    BY <1>1, <2>1 DEF ReadHead
  <2> QED BY <1>1, <1>0, <1>b, <2>1, <2>2 DEF ReadHead, Stage
<1>2. CASE ReadRest
  <2>1. wire = <<last>> /\ Len(sent) = Len(got) + 1 /\ reads = <<"head">>
        /\ handling = 0 /\ writes = <<>>
    BY <1>2, <1>0, <1>a DEF ReadRest, Stage
  <2>2. wire' = <<>> /\ reads' = <<>> /\ request' = last /\ handling' = 1
    BY <1>2, <2>1, <1>a DEF ReadRest
  <2> QED BY <1>2, <1>0, <1>b, <2>1, <2>2 DEF ReadRest, Stage
<1>3. CASE ReadEof
  BY <1>3, <1>0 DEF ReadEof, Stage
<1>4. CASE HandleReq
  <2>1. /\ Len(sent) = Len(got) + 1 /\ wire = <<>> /\ reads = <<>>
        /\ handling = 1 /\ writes = <<>> /\ request = last
    BY <1>4, <1>0 DEF HandleReq, Stage
  <2>2. body' \in Bodies /\ request \in Kinds \cup {"none"}
    BY <1>0, <1>4, AppendType DEF HandleReq, Bodies, TypeOK
  <2>3. /\ Responses(request, body') # <<>> /\ Responses(request, body')[1].to = request
        /\ WritesItself(request) \/ Len(Responses(request, body')) = 1
    BY <2>2, FirstResponse
  <2>4. Responses(request, body') \in Seq(Reply)
    BY <2>2, ResponsesType
  <2>5. writes' = Responses(request, body')
    BY <1>4, <2>1, <2>4 DEF HandleReq
  <2>6. /\ writes' # <<>> /\ writes'[1].to = last
        /\ WritesItself(last) \/ Len(writes') = 1
    BY <2>1, <2>3, <2>5
  <2>7. /\ UNCHANGED <<sent, got, wire, reads>> /\ handling' = 0
    BY <1>4, <2>1 DEF HandleReq
  <2> QED BY <1>b, <2>1, <2>6, <2>7 DEF Stage
<1>5. CASE HandleThrow
  BY <1>5, <1>0, <1>b DEF HandleThrow, Stage
<1>6. CASE WriteDone
  <2>1. /\ Len(sent) = Len(got) + 1 /\ wire = <<>> /\ reads = <<>>
        /\ handling = 0 /\ writes # <<>> /\ writes[1].to = last
        /\ WritesItself(last) \/ Len(writes) = 1
    BY <1>6, <1>0 DEF WriteDone, Stage
  <2>2. Head(writes) = writes[1] /\ Head(writes) \in Reply /\ Head(writes).to = last
    BY <1>0, <2>1, TailSeq, HeadTail
  <2>3. got' = Append(got, Head(writes))
    BY <1>0, <1>6 DEF WriteDone, AppendUpTo
  <2>4. /\ Len(got') = Len(got) + 1 /\ DOMAIN got' = 1 .. Len(got) + 1
        /\ \A n \in 1 .. Len(got) : got'[n] = got[n]
        /\ got'[Len(got) + 1] = Head(writes)
    BY <1>0, <2>2, <2>3
  <2>5. InTurn'
    <3>1. ASSUME NEW n \in DOMAIN got',
                 \A i \in DOMAIN sent : i < n => ~WritesItself(sent[i])
          PROVE  n \in DOMAIN sent /\ got'[n].to = sent[n]
      <4>1. CASE n \in 1 .. Len(got)
        <5>1. n \in DOMAIN got
          BY <1>0, <4>1
        <5>2. n \in DOMAIN sent /\ got[n].to = sent[n]
          BY <3>1, <5>1 DEF InTurn
        <5>3. QED BY <2>4, <4>1, <5>2
      <4>2. CASE n = Len(got) + 1
        BY <1>a, <2>1, <2>2, <2>4, <4>2
      <4>3. QED BY <1>0, <2>4, <4>1, <4>2
    <3>2. QED BY <3>1 DEF InTurn
  <2>6. CASE WritesItself(last)
    <3>1. Len(sent) \in DOMAIN sent' /\ WritesItself(sent'[Len(sent)]) /\ Len(sent) <= Len(got')
      BY <1>0, <1>a, <2>1, <2>4, <2>6
    <3>2. QED BY <2>5, <3>1 DEF Settled
  <2>7. CASE Len(writes) = 1
    <3>1. writes' = <<>>
      <4>1. Tail(writes) = <<>>
        BY <1>0, <2>7, SingleSeq
      <4>2. QED BY <1>6, <4>1 DEF WriteDone
    <3>2. reads' = <<"fresh">>
      <4>1. PICK rs \in Dropped(reads) : reads' = Append(rs, "fresh")
        BY <1>6 DEF WriteDone
      <4>2. rs \in [1 .. 0 -> {"fresh", "head", "torn"}]
        BY <2>1, <4>1 DEF Dropped
      <4>3. rs \in Seq({"fresh", "head", "torn"}) /\ Len(rs) = 0
        BY <4>2
      <4>4. QED BY <4>1, <4>3
    <3>3. Len(sent') = Len(got') /\ wire' = <<>> /\ handling' = 0
      BY <1>6, <2>1, <2>4 DEF WriteDone
    <3>4. Stage'
      BY <3>1, <3>2, <3>3 DEF Stage
    <3>5. QED BY <2>5, <3>4
  <2>8. QED BY <2>1, <2>6, <2>7
<1>7. CASE WriteFails
  BY <1>7 DEF WriteFails
<1>8. CASE Closed \/ UNCHANGED vars
  BY <1>8, <1>0, <1>b DEF Closed, vars, Stage
<1>9. CASE \E k \in Requests : ClientSend(k)
  <2>1. PICK k \in Requests : sent' = Append(sent, k)
    BY <1>9 DEF ClientSend
  <2>2. Len(sent') = Len(sent) + 1
    BY <2>1, <1>0
  <2> QED BY <2>2, <1>0
<1>10. CASE ClientShutdown \/ ClientClose
  BY <1>10 DEF ClientShutdown, ClientClose
<1> QED BY <1>1, <1>2, <1>3, <1>4, <1>5, <1>6, <1>7, <1>8, <1>9, <1>10
        DEF Next, Server

(* The client sends its next request once it has a response to the last.    *)
LEMMA StageSend ==
    ASSUME TypeOK, InTurn, Stage, NEW k \in Requests, ClientSend(k)
    PROVE  InTurn' /\ Stage'
<1>0. /\ sent \in Seq(Requests) /\ got \in Seq(Reply)
      /\ Len(got) \in Nat /\ Len(sent) \in Nat
  BY DEF TypeOK
<1>1. /\ sent' \in Seq(Requests) /\ Len(sent') = Len(sent) + 1 /\ sent'[Len(sent')] = k
      /\ DOMAIN sent' = 1 .. Len(sent) + 1
      /\ \A i \in DOMAIN sent : i \in DOMAIN sent' /\ sent'[i] = sent[i]
  BY <1>0 DEF ClientSend
<1>2. Len(sent) = Len(got) /\ got' = got
      /\ wire = <<>> /\ reads = <<"fresh">> /\ handling = 0 /\ writes = <<>>
  BY <1>0 DEF ClientSend, Stage
<1>3. wire' = <<"head", k>> /\ reads' = <<"fresh">> /\ handling' = 0 /\ writes' = <<>>
  BY <1>2 DEF ClientSend
<1>4. Stage'
  BY <1>0, <1>1, <1>2, <1>3 DEF Stage
<1>5. InTurn'
  BY <1>1, <1>2 DEF InTurn
<1>6. QED BY <1>4, <1>5

LEMMA ReplyStep == ReplyInv /\ [Next]_vars => ReplyInv'
<1> SUFFICES ASSUME ReplyInv, [Next]_vars PROVE ReplyInv'
  OBVIOUS
<1>1. TypeOK /\ WireOrder /\ TypeOK' /\ WireOrder'
  BY TypesStep, WireStep DEF ReplyInv
<1>2. SUFFICES ASSUME client' = "open", NoBig'
               PROVE  RepliesCounted' /\ InTurn' /\ (Settled' \/ Stage')
  BY <1>1 DEF ReplyInv
<1>3. client = "open" /\ NoBig /\ RepliesCounted /\ InTurn /\ (Settled \/ Stage)
  BY <1>1, <1>2, Histories DEF ReplyInv
<1>4. RepliesCounted'
  BY <1>1, <1>2, <1>3, CountStep
<1>5. CASE Settled
  BY <1>1, <1>3, <1>4, <1>5, SettledStep
<1>6. CASE ~Settled
  <2>1. CASE sent' = sent
    BY <1>1, <1>2, <1>3, <1>4, <1>6, <2>1, StageStep
  <2>2. CASE \E k \in Requests : ClientSend(k)
    BY <1>1, <1>3, <1>4, <1>6, <2>2, StageSend
  <2>3. QED BY <1>1, <2>1, <2>2, Histories
<1>7. QED BY <1>5, <1>6

(* HttpConnection.cpp:222: a client that stays, and sends nothing too long  *)
(* to be read, never gets more responses than it has sent requests and      *)
(* handlers have written themselves; each response answers its request up   *)
(* to and with the first request whose handler writes itself, an upload, a  *)
(* list or a download.                                                      *)
THEOREM RepliesStayInTurn == Spec => []RepliesInTurn
<1>1. Init => ReplyInv
  <2> SUFFICES ASSUME Init PROVE ReplyInv
    OBVIOUS
  <2>1. TypeOK
    BY DEF Init, TypeOK
  <2>2. WireOrder /\ InTurn
    BY DEF Init, WireOrder, InTurn
  <2>3. RepliesCounted
    BY DEF Init, RepliesCounted
  <2>4. Stage
    BY DEF Init, Stage
  <2>5. QED BY <2>1, <2>2, <2>3, <2>4 DEF ReplyInv
<1>2. ReplyInv => RepliesInTurn
  <2> SUFFICES ASSUME ReplyInv, client = "open", NoBig PROVE RepliesInTurn
    BY DEF RepliesInTurn, NoBig
  <2>1. InTurn /\ RepliesCounted /\ TypeOK
    BY DEF ReplyInv
  <2>2. Len(got) <= Len(sent) + own
    BY <2>1 DEF RepliesCounted, TypeOK
  <2>3. QED BY <2>1, <2>2 DEF RepliesInTurn, InTurn
<1>3. QED BY <1>1, <1>2, ReplyStep, PTL DEF Spec
=============================================================================
